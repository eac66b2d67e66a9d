------------------------------ MODULE FramePath ------------------------------
(***************************************************************************)
(* One frame from the client's bytes to the reply: process_binary of ws.rs *)
(* (the request compiled as in PromptSlots, the JPEG's checks, the edge's  *)
(* gates of ImageGates), the header ipc.rs makes of it, and the worker     *)
(* (FrameInference).  Everything that decides is here; who waits for whom  *)
(* is LaStream's.                                                          *)
(*                                                                         *)
(* A frame may also start at the worker's Unix socket, which anything in   *)
(* the container can reach, past all checks of the frontend.               *)
(***************************************************************************)
EXTENDS FrameInference

CONSTANTS
    MaxPieces, MaxNamePieces, MaxSent, MaxSlot, MaxCategories,  \* as in PromptSlots
    UsualRequests,  \* requests that are answered with every possible answer
    UsualSize,      \* the stored size of an image that is not about sizes
    UsualAnswer     \* what the model says to a task, for the other frames

VARIABLES
    request, verdict, prompt, task,  \* as in PromptSlots
    jpeg,       \* the payload, by what is wrong with it
    bypassed    \* the frame started at the Unix socket

slotVars == <<request, verdict, prompt, task>>
pathVars == <<imageVars, inferVars, slotVars, jpeg, bypassed>>

Slots == INSTANCE PromptSlots

ASSUME UsualAssumption ==
    /\ \A r \in UsualRequests : Slots!Requested(r) /\ Slots!ValidRequest(r)
    /\ UsualSize \in (Nat \ {0}) \X (Nat \ {0}) /\ EdgeRefusal(UsualSize) = "none"

Payload == {"wrong_length", "empty", "oversize", "no_soi", "malformed", "undecodable",
            "cmyk", "bad_icc", "good"}

NoHeader == [object |-> FALSE]

UsualHeader(r) ==
    [object |-> TRUE, kind |-> "frame", frame_id |-> TRUE, keys |-> TRUE,
     prompt |-> "canonical", mode |-> TRUE, prompt_task |-> r.task,
     phrase |-> IF r.task = "point" THEN r.slots[1] ELSE <<>>, image |-> "good"]

Usual == ~bypassed /\ request \in UsualRequests /\ jpeg = "good" /\ stored = UsualSize

(* Bound: no more than one of request, payload and size is unusual, and a   *)
(* header only when it comes past the frontend.                            *)
FrontendInit ==
    /\ bypassed = FALSE /\ stage = "received" /\ phase = "edge" /\ header = NoHeader
    /\ \/ stored = UsualSize /\ orientation = 1 /\ jpeg = "good" /\ Slots!Requested(request)
       \/ stored = UsualSize /\ orientation = 1 /\ jpeg \in Payload /\ request \in UsualRequests
       \/ stored \in Dims \X Dims /\ orientation \in 1..8 /\ jpeg = "good"
                                                         /\ request \in UsualRequests

BypassInit ==
    /\ bypassed = TRUE /\ stage = "read" /\ phase = "worker" /\ header \in Header
    /\ stored = UsualSize /\ orientation = 1 /\ jpeg = "good" /\ request \in UsualRequests

PathInit ==
    /\ FrontendInit \/ BypassInit
    /\ measured = <<0, 0>> /\ decoded = <<0, 0>> /\ refusal = "none" /\ plan = NoPlan
    /\ verdict = "pending" /\ prompt = <<>> /\ task = "none"
    /\ answer = <<>> /\ endOfTurn = FALSE /\ result = NoResult /\ reply = NoReply

-----------------------------------------------------------------------------
(* process_binary.  A frame it refuses is answered on the spot. *)

(* Step 4. *)
CompileRequest ==
    /\ stage = "received"
    /\ \/ Slots!Accept /\ stage' = "compiled" /\ UNCHANGED reply
       \/ Slots!Reject /\ Say(FrameError("invalid_request"))
    /\ UNCHANGED <<imageVars, header, answer, endOfTurn, result, jpeg, bypassed>>

(* Step 5, and the failure of step 6 to read the JPEG's header. *)
CheckPayload ==
    /\ stage = "compiled"
    /\ \/ jpeg = "wrong_length" /\ Say(FrameError("invalid_request"))
       \/ jpeg \in {"empty", "oversize", "no_soi", "malformed"} /\ Say(FrameError("invalid_image"))
       \/ jpeg \in {"undecodable", "cmyk", "bad_icc", "good"}
          /\ stage' = "payload_checked" /\ UNCHANGED reply
    /\ UNCHANGED <<imageVars, slotVars, header, answer, endOfTurn, result, jpeg, bypassed>>

MeasureImage ==
    /\ stage = "payload_checked"
    /\ Measure
    /\ UNCHANGED <<inferVars, slotVars, jpeg, bypassed>>

(* The blocking task that measures has panicked. *)
MeasuringPanics ==
    /\ stage = "payload_checked" /\ phase = "edge"
    /\ Say(FrameError("internal"))
    /\ UNCHANGED <<imageVars, slotVars, header, answer, endOfTurn, result, jpeg, bypassed>>

GateAtEdge ==
    /\ stage = "payload_checked"
    /\ EdgeGates
    /\ IF refusal' = "none" THEN stage' = "pending" /\ UNCHANGED reply
                            ELSE Say(FrameError("invalid_image"))
    /\ UNCHANGED <<slotVars, header, answer, endOfTurn, result, jpeg, bypassed>>

WireTaskByShape(t) == IF t = "gui_box" THEN "point" ELSE t

(* The wire name a template goes by, in the header and in EXPECTED_SHAPE. *)
WireTask(t) == t

(* WorkerConn::infer.  point_phrase takes the prompt of a point task apart. *)
Forward ==
    /\ stage = "pending"
    /\ LET wire    == WireTask(task)
           pointed == wire = "point"
           foreign == pointed /\ ~Slots!IsPrefix(Slots!Prefix("point"), prompt)
       IN  header' = [UsualHeader(request) EXCEPT
               !.prompt      = IF foreign THEN "foreign" ELSE "canonical",
               !.prompt_task = wire,
               !.phrase      = IF pointed /\ ~foreign THEN Slots!PointPhrase(prompt) ELSE <<>>,
               !.image       = jpeg]
    /\ stage' = "read"
    /\ UNCHANGED <<imageVars, slotVars, answer, endOfTurn, result, reply, jpeg, bypassed>>

-----------------------------------------------------------------------------
(* Bound: a frame with anything unusual gets the usual answer to its task. *)
Generate(symbol) ==
    /\ Emit(symbol)
    /\ Usual \/ Slots!IsPrefix(answer', UsualAnswer[header.prompt_task])
    /\ UNCHANGED <<slotVars, jpeg, bypassed>>

StopGenerating ==
    /\ EndGeneration
    /\ Usual \/ (endOfTurn' /\ answer = UsualAnswer[header.prompt_task])
    /\ UNCHANGED <<slotVars, jpeg, bypassed>>

(* Bound: the engine fails before the first symbol or not at all, since no  *)
(* part of an answer that is given up reaches the reply.                   *)
GiveUp ==
    /\ answer = <<>>
    /\ EngineFails
    /\ UNCHANGED <<slotVars, jpeg, bypassed>>

WorkerStep == InferStep /\ UNCHANGED <<slotVars, jpeg, bypassed>>

PathNext ==
    \/ CompileRequest \/ CheckPayload \/ MeasureImage \/ MeasuringPanics
    \/ GateAtEdge \/ Forward
    \/ WorkerStep \/ GiveUp
    \/ \E symbol \in UNION Vocabularies : Generate(symbol)
    \/ StopGenerating

PathSpec == PathInit /\ [][PathNext]_pathVars

-----------------------------------------------------------------------------
(* The frontend answers for what it forwards: none of the worker's own      *)
(* checks, of the header, the image, its size, the task and the prompt a   *)
(* point is labelled from, ends a frame it has let pass.  Past the checks  *)
(* the client can still be blamed, for a ValueError of a library, and      *)
(* before the model runs only what is nobody's check ends the frame.       *)
CheckedStages == {"read", "checked", "engine", "answered"}

FrontendVouches ==
    [][~bypassed /\ jpeg = "good" /\ stage \in CheckedStages /\ stage' = "replied" =>
           stage = "engine" /\ reply' = FrameError("internal")]_pathVars

(* What prompts.py would make of the compiled prompt is what was asked for: *)
(* no client text, whole or in parts that meet at a seam, adds or removes  *)
(* a category, no two requests share a prompt, and the points of an answer *)
(* carry the client's own phrase, with the periods and blanks inside it.   *)
RequestRecoverable ==
    verdict = "accepted" =>
        /\ Slots!SlotsOf(prompt, task) = request.slots
        /\ header # NoHeader /\ task = "point" => header.phrase = request.slots[1]

(* As PromptSlots states them. *)
BuildersAgree == Slots!BuildersAgree
ClassifiedAsSent == Slots!ClassifiedAsSent
=============================================================================
