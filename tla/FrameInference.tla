--------------------------- MODULE FrameInference ---------------------------
(***************************************************************************)
(* One request in the Python worker: what la_worker.py (handle_connection, *)
(* _infer) and inference.py (run) make of a header, an image and the text  *)
(* the model generates, up to the reply.  Which reply goes to which client,*)
(* the lock and the worker's end are LaStream's.                           *)
(*                                                                         *)
(* The Unix socket can be reached from inside the container, and the worker*)
(* checks what arrives on it once more, so any header is a possible one.   *)
(* ImageGates has the image's share of it: Decode, WorkerGates and Plan are *)
(* steps of run.  FramePath adds the frontend before all this.             *)
(***************************************************************************)
EXTENDS AnswerParser, ImageGates

CONSTANTS
    Vocabularies, \* sets of symbols of AnswerParser; an answer keeps to one of them
    MaxSymbols    \* the token budget, in symbols

(* <(\d+)> admits nothing but naturals. *)
ASSUME VocabulariesAssumption ==
    \A symbol \in UNION Vocabularies : symbol.k = "nums" => symbol.v \in Seq(Nat)

VARIABLES
    header,     \* what arrived: the header's fields and the kind of image
    stage,      \* how far the request is; ImageGates has the image's phase
    answer,     \* the symbols the model has emitted
    endOfTurn,  \* the model closed its turn with <|im_end|>
    result,     \* the InferenceResult
    reply       \* the body written to the socket

imageVars == vars
inferVars == <<header, stage, answer, endOfTurn, result, reply>>

ExpectedShape == [detection |-> "box", phrase_single |-> "box",
    phrase_multi |-> "box", text_grounding |-> "box", scene_text |-> "box",
    gui_box |-> "box", point |-> "point"]

NoResult == [kind |-> "none", geometry |-> {}, dropped |-> 0, truncated |-> FALSE]
NoReply  == [type |-> "none"]

Header == [object : BOOLEAN, kind : {"frame", "capabilities", "info", "other"},
           frame_id : BOOLEAN, keys : BOOLEAN,
           prompt : {"canonical", "foreign", "long", "empty"}, mode : BOOLEAN,
           prompt_task : DOMAIN ExpectedShape \cup {"unknown"},
           phrase : {<<>>, <<"a">>},
           image : {"good", "empty", "no_soi", "undecodable", "cmyk", "bad_icc"}]

FrameError(code) == [type |-> "error", code |-> code]

Say(body) == reply' = body /\ stage' = "replied"

-----------------------------------------------------------------------------
(* handle_connection: a header that is no JSON object, a control request or *)
(* an unknown kind never reaches _infer.                                   *)
Route ==
    /\ stage = "read"
    /\ \/ /\ ~header.object \/ header.kind = "other"
          /\ Say(FrameError("internal"))
       \/ /\ header.object /\ header.kind = "frame"
          /\ stage' = "checked" /\ UNCHANGED reply
       \/ /\ header.object /\ header.kind \in {"capabilities", "info"}
          /\ Say([type |-> header.kind])
    /\ UNCHANGED <<header, answer, endOfTurn, result, imageVars>>

HeaderFault ==
    \/ ~header.frame_id \/ ~header.keys
    \/ header.prompt \in {"empty", "long"} \/ ~header.mode

(* _infer's own checks, the header's before the image's. *)
CheckFrame ==
    /\ stage = "checked"
    /\ IF HeaderFault THEN Say(FrameError("internal"))
       ELSE IF header.image \in {"empty", "no_soi"} THEN Say(FrameError("invalid_image"))
       ELSE stage' = "engine" /\ UNCHANGED reply
    /\ UNCHANGED <<header, answer, endOfTurn, result, imageVars>>

(* The checks at the head of run raise ValueError, and so does the image on *)
(* every way it can be refused: _infer calls both invalid_image.           *)
RefusedButCmyk ==
    header.prompt_task = "unknown" \/ header.image \notin {"good", "cmyk"}

Refused == header.prompt_task = "unknown" \/ header.image # "good"

RefuseFrame ==
    /\ stage = "engine" /\ phase = "worker" /\ Refused
    /\ Say(FrameError("invalid_image"))
    /\ UNCHANGED <<header, answer, endOfTurn, result, imageVars>>

DecodeImage ==
    /\ stage = "engine" /\ ~Refused
    /\ Decode
    /\ UNCHANGED inferVars

(* A gate of run raises ValueError like the rest. *)
GateImage ==
    /\ stage = "engine"
    /\ WorkerGates
    /\ IF refusal' = "none" THEN UNCHANGED <<stage, reply>>
                            ELSE Say(FrameError("invalid_image"))
    /\ UNCHANGED <<header, answer, endOfTurn, result>>

PlanImage ==
    /\ stage = "engine"
    /\ Plan
    /\ IF plan'.raises THEN Say(FrameError("invalid_image"))
                       ELSE stage' = "generating" /\ UNCHANGED reply
    /\ UNCHANGED <<header, answer, endOfTurn, result>>

(* An error the image path does not catch, a RuntimeError of run (a         *)
(* template or a processor that has changed, a CUDA error), a timeout and  *)
(* an exhausted GPU are internal.  But a ValueError of the chat template,  *)
(* the processor, generate or the tokenizer is invalid_image: _infer knows *)
(* it from a refusal of the image no more than from one of its own checks. *)
EngineFails ==
    /\ \/ /\ stage = "engine" /\ ~(phase = "worker" /\ Refused)
          /\ Say(FrameError("internal"))
       \/ /\ stage = "generating"
          /\ \E code \in {"internal", "invalid_image"} : Say(FrameError(code))
    /\ UNCHANGED <<header, answer, endOfTurn, result, imageVars>>

(* model.generate.  nums is a maximal run, so it never follows itself. *)
Writable(s) ==
    /\ \E symbols \in Vocabularies : \A i \in 1..Len(s) : s[i] \in symbols
    /\ \A i \in 2..Len(s) : s[i].k = "nums" => s[i - 1].k # "nums"

Emit(symbol) ==
    /\ stage = "generating"
    /\ Len(answer) < MaxSymbols
    /\ answer' = Append(answer, symbol)
    /\ Writable(answer')
    /\ UNCHANGED <<header, stage, endOfTurn, result, reply, imageVars>>

(* The turn ends with <|im_end|>, or the budget is spent without it. *)
EndGeneration ==
    /\ stage = "generating"
    /\ endOfTurn' \in BOOLEAN
    /\ ~endOfTurn' => Len(answer) = MaxSymbols
    /\ stage' = "answered"
    /\ UNCHANGED <<header, answer, result, reply, imageVars>>

-----------------------------------------------------------------------------
(* prompts.point_phrase of a canonical point prompt is the phrase; of any   *)
(* other prompt it is a ValueError.                                        *)
PointTask  == header.prompt_task = "point"
PointLabel == IF PointTask THEN header.phrase ELSE <<>>

(* The A.3 mapping at the tail of run. *)
MappedResult ==
    LET boxes   == ParseBoxes(answer, decoded[1], decoded[2])
        points  == ParsePoints(answer, decoded[1], decoded[2], PointLabel)
        wanted  == ExpectedShape[header.prompt_task]
        valid   == IF wanted = "point" THEN points.found ELSE boxes.found
        other   == IF wanted = "point" THEN boxes.found ELSE points.found
        dropped == Cardinality(other) + boxes.off + points.off + CountMalformed(answer)
        kind    == IF valid # {} THEN (IF wanted = "point" THEN "points" ELSE "boxes")
                   ELSE IF dropped > 0 THEN "model_deviation" ELSE "abstained"
    IN  [kind |-> kind, geometry |-> valid, dropped |-> dropped,
         truncated |-> ~endOfTurn]

MapAnswer ==
    /\ stage = "answered"
    /\ IF PointTask /\ header.prompt = "foreign"
       THEN Say(FrameError("invalid_image")) /\ UNCHANGED result
       ELSE result' = MappedResult /\ stage' = "mapped" /\ UNCHANGED reply
    /\ UNCHANGED <<header, answer, endOfTurn, imageVars>>

(* _infer: a deviation is an error without Meta; every other kind carries   *)
(* its geometry, the count of what was dropped and the truncation flag.    *)
BuildReply ==
    /\ stage = "mapped"
    /\ Say(IF result.kind = "model_deviation"
           THEN FrameError("model_deviation")
           ELSE [type |-> result.kind, geometry |-> result.geometry,
                 deviations_dropped |-> result.dropped,
                 model_output_truncated |-> result.truncated])
    /\ UNCHANGED <<header, answer, endOfTurn, result, imageVars>>

(* Everything but EngineFails, Emit and EndGeneration, which FramePath bounds. *)
InferStep ==
    \/ Route \/ CheckFrame
    \/ RefuseFrame \/ DecodeImage \/ GateImage \/ PlanImage
    \/ MapAnswer \/ BuildReply

-----------------------------------------------------------------------------
(* Blocks of the answer, without the parser: a block is an opening tag and  *)
(* the closing tag that follows it with no other opening tag between.      *)
Openers == {i \in 1..Len(answer) : answer[i].k = "box"}
ClosedBlocks ==
    {i \in Openers : /\ Closer(answer, i) # 0
                     /\ \A j \in Openers : ~(i < j /\ j < Closer(answer, i))}
Localizations == {i \in ClosedBlocks : ~NoneAt(answer, i)}

(* Every block is closed before the next one or a ref begins. *)
Tidy == \A i \in Openers :
            \/ Closer(answer, i) = 0 /\ \A j \in (i + 1)..Len(answer) :
                                            answer[j].k \notin {"box", "ref"}
            \/ Closer(answer, i) # 0 /\ \A j \in (i + 1)..Closer(answer, i) :
                                            answer[j].k \notin {"box", "ref"}

Mapped == stage = "mapped"
Accounted == Cardinality(result.geometry) + result.dropped

(* No localization vanishes and none is counted twice: what the reply keeps *)
(* and what deviations_dropped counts lie between the blocks the model     *)
(* closed and those it opened, and an answer that abstains has none.       *)
NothingVanishes ==
    Mapped => /\ Cardinality(Localizations) <= Accounted
              /\ Accounted <= Cardinality(Openers)
              /\ Tidy => Accounted = Cardinality(Localizations)

(* In a tidy answer, what the reply keeps has the label of the ref its run  *)
(* starts with: nothing but closed blocks lies between the two.  Only a    *)
(* bare point of the point task has the queried phrase.                    *)
RunOf(i) == {r \in 1..(i - 1) : /\ answer[r].k = "ref"
                                /\ \A j \in (r + 1)..i : \E b \in ClosedBlocks :
                                      b <= j /\ j <= Closer(answer, b)}
LabelsComeFromTheirRun ==
    Mapped /\ Tidy =>
        \A g \in result.geometry :
            /\ g.label # <<>>
            /\ IF RunOf(g.at) = {} THEN PointTask /\ g.label = header.phrase
               ELSE \A r \in RunOf(g.at) : g.label = answer[r].v

(* Whatever numbers the model writes, in whatever order, a kept box is a    *)
(* rectangle on the grid and inside the image, and a kept point lies in it.*)
InImage(norm, px) ==
    /\ \A i \in DOMAIN norm : norm[i] \in 0..1000
    /\ \A i \in DOMAIN px : px[i] <= 1000 * decoded[2 - (i % 2)]
    /\ Len(norm) = (IF result.kind = "points" THEN 2 ELSE 4)
    /\ Len(norm) = 4 => /\ norm[1] <= norm[3] /\ norm[2] <= norm[4]
                        /\ px[1] <= px[3] /\ px[2] <= px[4]

GeometryInImage ==
    Mapped => \A g \in result.geometry : InImage(g.geo.norm, g.geo.px)

(* The calibration's probe (calibration.py) accepts a warm-up run exactly   *)
(* when the model closed a block, an abstention included.                  *)
Recognised == result.kind # "abstained" \/ HasAbstention(answer)
ProbeSeesEveryBlock == Mapped => (Recognised <=> ClosedBlocks # {})

(* A frame is answered with geometry or an abstention only when nothing was *)
(* wrong with it, whichever of the two layers had to notice.               *)
OnlyGoodFramesAreAnswered ==
    reply.type \in {"boxes", "points", "abstained"} =>
        /\ header.object /\ header.kind = "frame" /\ ~HeaderFault
        /\ header.image = "good" /\ header.prompt_task # "unknown"
        /\ PointTask => header.prompt = "canonical"
        /\ reply.type = "boxes" => ~PointTask
        /\ reply.type = "points" => PointTask

=============================================================================
