---------------------------- MODULE PromptSlots ----------------------------
(***************************************************************************)
(* From the typed request of a client to the prompt the model is trained   *)
(* on, and back.  prompt_validator.rs compiles the request or refuses it;  *)
(* prompts.py holds the builders it must agree with byte for byte, the     *)
(* classifier, and point_phrase, which takes the compiled prompt apart     *)
(* again to label the points of an answer.                                 *)
(*                                                                         *)
(* Text is a sequence of pieces, each standing for a class of characters   *)
(* the code distinguishes.  The separator is two pieces long, so that text *)
(* may contain a part of it.                                               *)
(***************************************************************************)
EXTENDS SequencesExt, Naturals

CONSTANTS
    MaxPieces,       \* bound: the longest phrase a client sends
    MaxNamePieces,   \* bound: the longest category
    MaxSent,         \* bound: the most categories
    MaxSlot,         \* MAX_SLOT_CHARS
    MaxCategories    \* MAX_DETECTION_CATEGORIES

VARIABLES
    request,    \* the PromptRequest of the frame
    verdict,    \* what process_binary has made of it
    prompt,     \* the compiled prompt
    task        \* the prompt_task sent along with it

vars == <<request, verdict, prompt, task>>

Blank == " "
Comma == ","
Period == "."
Control == "\t"        \* also white space: tab, newline
Combining == "u0301"   \* composes with a letter before it
Separator == <<"<", "/c>">>
Pieces == {"a", Blank, Comma, Period, Control, Combining, Separator[1], Separator[2]}

PhraseTasks == {"phrase_single", "phrase_multi", "text_grounding", "gui_box", "point"}
Tasks == PhraseTasks \union {"detection", "scene_text"}

(* The literal before the slot.  Two of them agree up to "match". *)
Prefix(t) ==
    CASE t = "detection"     -> <<"Locate all the instances that ", "match", "es the following description: ">>
      [] t = "phrase_multi"  -> <<"Locate all the instances that ", "match", " the following description: ">>
      [] t = "phrase_single" -> <<"Locate a single instance that ", "match", "es the following description: ">>
      [] t = "gui_box"       -> <<"Locate the region that ", "match", "es the following description: ">>
      [] t = "text_grounding" -> <<"Please locate the text referred as ">>
      [] t = "point"         -> <<"Point to: ">>

SceneTextExact == <<"Detect all the text in box format.">>

(* scene_text has no slot, detection a list of them, the others have one.   *)
(* Bound: in a list that is too long the names are of one piece.           *)
NameBound(n) == IF n > MaxCategories THEN 1 ELSE MaxNamePieces

Requested(r) ==
    \/ r = [task |-> "scene_text", slots |-> <<>>]
    \/ \E t \in PhraseTasks, n \in 0..MaxPieces : \E s \in [1..n -> Pieces] :
           r = [task |-> t, slots |-> <<s>>]
    \/ \E n \in 0..MaxSent : \E names \in [1..n -> SeqOf(Pieces, NameBound(n))] :
           r = [task |-> "detection", slots |-> names]

-----------------------------------------------------------------------------
(* prompt_validator.rs *)

White(piece) == piece \in {Blank, Control}
Trimmed(s) == s # <<>> => ~White(Head(s)) /\ ~White(Last(s))
Nfc(s) == \A i \in 2..Len(s) : s[i] = Combining => s[i - 1] # "a"
Includes(s, pattern) == \E i \in 1..Len(s) : IsPrefix(pattern, SubSeq(s, i, Len(s)))

ValidSlotAnySeparator(s, forbidComma) ==
    /\ s # <<>> /\ Len(s) <= MaxSlot /\ Trimmed(s) /\ Nfc(s)
    /\ \A i \in 1..Len(s) : s[i] # Control
    /\ Last(s) # Period
    /\ forbidComma => \A i \in 1..Len(s) : s[i] # Comma

ValidSlotUntrimmed(s, forbidComma) ==
    /\ s # <<>> /\ Len(s) <= MaxSlot /\ Nfc(s)
    /\ \A i \in 1..Len(s) : s[i] # Control
    /\ ~Includes(s, Separator)
    /\ Last(s) # Period
    /\ forbidComma => \A i \in 1..Len(s) : s[i] # Comma

ValidSlot(s, forbidComma) ==
    /\ s # <<>> /\ Len(s) <= MaxSlot /\ Trimmed(s) /\ Nfc(s)
    /\ \A i \in 1..Len(s) : s[i] # Control
    /\ ~Includes(s, Separator)
    /\ Last(s) # Period
    /\ forbidComma => \A i \in 1..Len(s) : s[i] # Comma

ValidRequest(r) ==
    /\ r.task = "detection" => Len(r.slots) \in 1..MaxCategories
    /\ \A i \in 1..Len(r.slots) : ValidSlot(r.slots[i], r.task \in {"detection", "point"})

Joined(slots) ==
    LET joined[n \in 1..Len(slots)] ==
            IF n = 1 THEN slots[1] ELSE joined[n - 1] \o Separator \o slots[n]
    IN  joined[Len(slots)]

Render(t, slots) ==
    Prefix(t) \o (IF t = "detection" THEN Joined(slots) ELSE slots[1]) \o <<Period>>

Compiled(r) == IF r.task = "scene_text" THEN SceneTextExact ELSE Render(r.task, r.slots)

-----------------------------------------------------------------------------
(* prompts.py.  The builders strip their argument and drop empty           *)
(* categories; they look at nothing else.                                  *)

Strip(s) ==
    LET kept == {i \in 1..Len(s) : ~White(s[i])}
    IN  IF kept = {} THEN <<>> ELSE SubSeq(s, Min(kept), Max(kept))

Cleaned(slots) ==
    LET clean[n \in 0..Len(slots)] ==
            IF n = 0 THEN <<>>
            ELSE IF Strip(slots[n]) = <<>> THEN clean[n - 1]
                 ELSE Append(clean[n - 1], Strip(slots[n]))
    IN  clean[Len(slots)]

(* A builder raises when nothing is left of its slots. *)
PythonBuilds(t, slots, p) ==
    \/ t = "scene_text" /\ p = SceneTextExact
    \/ t # "scene_text" /\ Cleaned(slots) # <<>> /\ p = Render(t, Cleaned(slots))

ClassifyPromptByFirstWords(p) ==
    IF p = SceneTextExact THEN "scene_text"
    ELSE CHOOSE t \in Tasks \ {"scene_text"} : Head(Prefix(t)) = Head(p)

(* The chain of startswith; no prefix starts another, so its order is free.*)
ClassifyPrompt(p) ==
    IF p = SceneTextExact THEN "scene_text"
    ELSE CHOOSE t \in Tasks \ {"scene_text"} : IsPrefix(Prefix(t), p)

PointPhrase(p) ==
    LET body == SubSeq(p, Len(Prefix("point")) + 1, Len(p))
    IN  IF body # <<>> /\ Last(body) = Period THEN Front(body) ELSE body

-----------------------------------------------------------------------------
(* process_binary, step 4, for one frame. *)

(* Error "invalid_request": nothing of the frame reaches the worker. *)
Reject ==
    /\ verdict = "pending" /\ ~ValidRequest(request)
    /\ verdict' = "rejected"
    /\ UNCHANGED <<request, prompt, task>>

Accept ==
    /\ verdict = "pending" /\ ValidRequest(request)
    /\ verdict' = "accepted"
    /\ prompt' = Compiled(request)
    /\ task' = request.task
    /\ UNCHANGED request

-----------------------------------------------------------------------------
Accepted == verdict = "accepted"

(* The text between the prefix and the period, cut at every separator. *)
SlotsOf(p, t) ==
    LET body == SubSeq(p, Len(Prefix(t)) + 1, Len(p) - 1)
        cut[n \in 0..Len(body)] ==
            IF n = 0 THEN [done |-> <<>>, last |-> <<>>]
            ELSE LET done == cut[n - 1].done
                     last == cut[n - 1].last
                 IN  IF last # <<>> /\ <<Last(last), body[n]>> = Separator
                     THEN [done |-> Append(done, Front(last)), last |-> <<>>]
                     ELSE [done |-> done, last |-> Append(last, body[n])]
    IN  IF t = "scene_text" THEN <<>>
        ELSE Append(cut[Len(body)].done, cut[Len(body)].last)

(* "byte-equal to what worker/prompts.py would build for the same slot      *)
(* values": whatever those builders would strip or drop has been refused.  *)
BuildersAgree == Accepted => PythonBuilds(task, request.slots, prompt)

(* The prefixes tell the tasks apart whatever the slot holds, so that       *)
(* classify_prompt returns the task the prompt was compiled for.           *)
ClassifiedAsSent == Accepted => ClassifyPrompt(prompt) = task
=============================================================================
