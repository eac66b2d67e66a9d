---------------------------- MODULE AnswerParser ----------------------------
(***************************************************************************)
(* worker/parsing.py: from the text a model run ends with to labelled      *)
(* boxes, labelled points and the counts of what is off contract.          *)
(*                                                                         *)
(* An answer is a sequence of symbols, the pieces the regular expressions  *)
(* of parsing.py are made of:                                              *)
(*    ref   a complete <ref>label</ref>; v is <<label>>, or <<>> when the  *)
(*          label is blank (label.strip() is empty)                        *)
(*    box   an opening <box>             /box  a closing </box>            *)
(*    nums  a maximal run of <n>; v is the sequence of the numbers         *)
(*    none  None or none                 text  anything else               *)
(* An opening or closing ref that is not part of a complete one is text.   *)
(* White space between a ref, a block and the next block (the \s* of the   *)
(* run expression) leaves no symbol.                                       *)
(***************************************************************************)
EXTENDS Naturals, Sequences, FiniteSetsExt

(* A block that contains exactly what the expression asks for: box_re with *)
(* arity 4, point_re with arity 2.                                         *)
NumericAt(s, i, arity) ==
    /\ i + 2 <= Len(s)
    /\ s[i].k = "box" /\ s[i + 1].k = "nums" /\ s[i + 2].k = "/box"
    /\ Len(s[i + 1].v) = arity

NoneAt(s, i) ==
    /\ i + 2 <= Len(s)
    /\ s[i].k = "box" /\ s[i + 1].k = "none" /\ s[i + 2].k = "/box"

BoxRE(s) == {i \in 1..Len(s) : NumericAt(s, i, 4)}

(* parse_points never takes a block that overlaps a box. *)
PointRE(s) == {i \in 1..Len(s) : /\ NumericAt(s, i, 2)
                                 /\ \A b \in BoxRE(s) : b + 2 < i \/ i + 2 < b}

(* Where the lazy .*? of <box>.*?</box> stops: the first closing tag after  *)
(* the opening one at i, 0 when there is none.                             *)
Closer(s, i) ==
    LET closing == {j \in (i + 1)..Len(s) : s[j].k = "/box"}
    IN  IF closing = {} THEN 0 ELSE Min(closing)

(* any_box_re.finditer: a match starts at an opening tag no earlier match   *)
(* has swallowed, that is, the first one since the last closing tag.       *)
AnyBoxRE(s) ==
    {i \in 1..Len(s) :
        /\ s[i].k = "box" /\ Closer(s, i) # 0
        /\ \A k \in 1..(i - 1) : s[k].k = "box" => Closer(s, k) < i}

(* The last position of a ref-run whose ref is at i: the blocks follow one  *)
(* another without a gap.  It is i itself when no block follows the ref.   *)
RunEnd(s, i) ==
    LET grow[p \in 0..Len(s)] ==
            IF p < Len(s) /\ s[p + 1].k = "box" /\ Closer(s, p + 1) # 0
            THEN grow[Closer(s, p + 1)]
            ELSE p
    IN  grow[i]

(* ref_run_re.finditer, as pairs of the first and the last position: the    *)
(* scan resumes behind a match, so a ref inside a run starts none.         *)
RefRuns(s) ==
    LET scan[p \in 1..(Len(s) + 1)] ==
            IF p > Len(s) THEN {}
            ELSE IF s[p].k = "ref" /\ RunEnd(s, p) > p
                 THEN {<<p, RunEnd(s, p)>>} \cup scan[RunEnd(s, p) + 1]
                 ELSE scan[p + 1]
    IN  scan[1]

Inside(run, i) == run[1] < i /\ i <= run[2]

LabelOf(s, run) == s[run[1]].v

-----------------------------------------------------------------------------
(* Geometry.  A pixel is a thousandth of a pixel here: round(c / 1000 * W, 2)*)
(* is exact up to the last decimal it keeps.                                *)
ClampCoord(c) == IF c > 1000 THEN 1000 ELSE c

MakeBoxUnsorted(v, w, h) ==
    LET norm == <<ClampCoord(v[1]), ClampCoord(v[2]), ClampCoord(v[3]), ClampCoord(v[4])>>
    IN  [norm |-> norm,
         px   |-> <<norm[1] * w, norm[2] * h, norm[3] * w, norm[4] * h>>]

MakeBox(v, w, h) ==
    LET xs == {ClampCoord(v[1]), ClampCoord(v[3])}
        ys == {ClampCoord(v[2]), ClampCoord(v[4])}
        norm == <<Min(xs), Min(ys), Max(xs), Max(ys)>>
    IN  [norm |-> norm,
         px   |-> <<norm[1] * w, norm[2] * h, norm[3] * w, norm[4] * h>>]

MakePoint(v, w, h) ==
    LET norm == <<ClampCoord(v[1]), ClampCoord(v[2])>>
    IN  [norm |-> norm, px |-> <<norm[1] * w, norm[2] * h>>]

-----------------------------------------------------------------------------
LabelAtPhraseForBlank(s, i, default) ==
    LET around == {run \in RefRuns(s) : Inside(run, i) /\ LabelOf(s, run) # <<>>}
    IN  IF around = {} THEN default ELSE LabelOf(s, CHOOSE run \in around : TRUE)

(* The label of the run a block lies in, or the default outside every run.  *)
(* Nothing overlaps a run without lying in it: a block ends with the first *)
(* closing tag behind its start, and so does every block of a run.         *)
LabelAt(s, i, default) ==
    LET around == {run \in RefRuns(s) : Inside(run, i)}
    IN  IF around = {} THEN default ELSE LabelOf(s, CHOOSE run \in around : TRUE)

(* parse_boxes: a box of a run with a label is kept; a box of a run without *)
(* one, and an orphan box outside every run, is only counted.              *)
ParseBoxes(s, w, h) ==
    LET kept == {b \in BoxRE(s) : LabelAt(s, b, <<>>) # <<>>}
    IN  [found |-> {[at |-> b, label |-> LabelAt(s, b, <<>>),
                     geo |-> MakeBox(s[b + 1].v, w, h)] : b \in kept},
         off   |-> Cardinality(BoxRE(s) \ kept)]

(* parse_points: likewise, but a bare point takes point_label (<<>> on the  *)
(* tasks that have none).                                                  *)
ParsePoints(s, w, h, pointLabel) ==
    LET kept == {p \in PointRE(s) : LabelAt(s, p, pointLabel) # <<>>}
    IN  [found |-> {[at |-> p, label |-> LabelAt(s, p, pointLabel),
                     geo |-> MakePoint(s[p + 1].v, w, h)] : p \in kept},
         off   |-> Cardinality(PointRE(s) \ kept)]

CountMalformedOfBoxes(s) ==
    Cardinality({i \in AnyBoxRE(s) : ~NumericAt(s, i, 4) /\ ~NoneAt(s, i)})

(* count_malformed_geometry: a block that is none of the three forms. *)
CountMalformed(s) ==
    Cardinality({i \in AnyBoxRE(s) : /\ ~NumericAt(s, i, 4)
                                     /\ ~NumericAt(s, i, 2)
                                     /\ ~NoneAt(s, i)})

HasAbstentionAlone(s) == Len(s) = 3 /\ NoneAt(s, 1)

(* has_abstention *)
HasAbstention(s) == \E i \in 1..Len(s) : NoneAt(s, i)
=============================================================================
