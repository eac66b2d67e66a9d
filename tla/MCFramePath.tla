---------------------------- MODULE MCFramePath ----------------------------
(***************************************************************************)
(* The instance of FramePath: every answer of up to six symbols for a box  *)
(* and a point task, every phrase of up to four pieces, every list of up to*)
(* three categories of up to two, every header past the frontend, and the  *)
(* sizes around every boundary of the gates.                               *)
(***************************************************************************)
EXTENDS FramePath

RefOf(label) == [k |-> "ref", v |-> <<label>>]
BlankRef     == [k |-> "ref", v |-> <<>>]
Tag(kind)    == [k |-> kind, v |-> <<>>]
Nums(v)      == [k |-> "nums", v |-> v]

(* Below, at and above the end of the grid, with the corners exchanged. *)
BoxNums   == Nums(<<1200, 30, 700, 1000>>)
PointNums == Nums(<<0, 1001>>)

(* Two labels, boxes and points; everything else that can be inside or      *)
(* between blocks.                                                         *)
AnswersOfRuns == {RefOf("cat"), RefOf("dog"), Tag("box"), Tag("/box"), BoxNums, PointNums}
OddAnswers == {RefOf("cat"), BlankRef, Tag("box"), Tag("/box"), PointNums,
               Tag("none"), Tag("text")}
BothVocabularies == {AnswersOfRuns, OddAnswers}

BarePoint == <<Tag("box"), PointNums, Tag("/box")>>
LabelledBox == <<RefOf("cat"), Tag("box"), BoxNums, Tag("/box")>>
OneAnswerEach == [t \in DOMAIN ExpectedShape |->
                      IF t = "point" THEN BarePoint ELSE LabelledBox]

BoxAndPoint == {[task |-> t, slots |-> << <<"a">> >>] : t \in {"detection", "point"}}
Vga == <<640, 480>>

Boundaries == {1, 13, 14, 27, 28, 31, 32, 56, 57, 640, 1920, 2226, 2239, 2240,
               2241, 2253, 2254, 2268, 3584, 5000, 7139, 7140, 7141, 7168}
=============================================================================
