--------------------------- MODULE FramePathProofs ---------------------------
(***************************************************************************)
(* Results about the whole path of a frame, for every request, every       *)
(* answer of the model and every image.                                    *)
(*                                                                         *)
(*  - Only a frame with which nothing was wrong is answered: rests on what *)
(*    the worker has checked by the time a stage is reached.               *)
(*  - The frontend vouches for what it forwards: no check of the worker    *)
(*    ends it.  Rests on the shape of the compiled prompt and of the header*)
(*    and on the arithmetic of the two sides' gates.                       *)
(*  - What the reply makes of the answer (FrameInferenceProofs), at every  *)
(*    step after the mapping.                                              *)
(*  - The compiled prompt: what it was compiled from can be told from it,  *)
(*    slot by slot, and the Python side reads it as the Rust side meant it.*)
(***************************************************************************)
EXTENDS FramePath, FrameInferenceProofs

(* Up to the frontend's last step, from the socket on, inside _infer. *)
AtFrontend == {"received", "compiled", "payload_checked", "pending"}
AtWorker   == {"read", "checked", "engine", "generating", "answered", "mapped"}
Validated  == {"compiled", "payload_checked", "pending"}
InInfer    == {"checked", "engine", "generating", "answered", "mapped"}

(* The image has been opened by the worker. *)
Opened == {"decoded", "accepted", "planned", "refused_by_worker"}

PromptInv ==
    /\ request.task \in Slots!Tasks
    /\ request.task = "point" => request.slots[1] \in Seq(Slots!Pieces)
    /\ stage \in Validated =>
           /\ task \in Slots!Tasks
           /\ task = "point" => Slots!IsPrefix(Slots!Prefix("point"), prompt)

HeaderInv ==
    stage \in AtWorker =>
        /\ header.prompt \in {"canonical", "foreign", "long", "empty"}
        /\ header.prompt_task \in DOMAIN ExpectedShape \cup {"unknown"}
        /\ ~bypassed => /\ header.image = jpeg
                        /\ header.object /\ header.kind = "frame" /\ ~HeaderFault
                        /\ header.prompt_task # "unknown"
                        /\ PointTask => header.prompt = "canonical"

(* What has been established by the time a stage is reached. *)
CheckedInv ==
    /\ stage \in InInfer => header.object /\ header.kind = "frame"
    /\ stage \in InInfer \ {"checked"} => ~HeaderFault
    /\ stage \in AtFrontend \cup {"read", "checked"} => phase \notin Opened
    /\ phase \in Opened /\ stage # "replied" => ~Refused
    /\ stage \in {"generating", "answered", "mapped"} => ~Refused
    /\ stage = "mapped" =>
           /\ PointTask => header.prompt = "canonical"
           /\ result.kind \in {"boxes", "points", "abstained", "model_deviation"}
           /\ result.kind = "boxes" => ~PointTask
           /\ result.kind = "points" => PointTask

ReplyInv == stage # "replied" => reply = NoReply

-----------------------------------------------------------------------------
(* The prompt. *)

LEMMA PointPrefix == Slots!Prefix("point") = <<"Point to: ">>
  BY DEF Slots!Prefix

LEMMA PrefixOfSum ==
    ASSUME NEW S, NEW x \in S, NEW s \in Seq(S), NEW t \in Seq(S)
    PROVE  Slots!IsPrefix(<<x>>, <<x>> \o s \o t)
  BY DEF Slots!IsPrefix

LEMMA FunctionIsSequence == ASSUME NEW S, NEW n \in Nat, NEW s \in [1..n -> S] PROVE s \in Seq(S)
  OBVIOUS

(* The seven tasks are those the worker knows, and only one asks for points.*)
LEMMA Shapes ==
    /\ DOMAIN ExpectedShape = Slots!Tasks
    /\ ExpectedShape["point"] = "point"
    /\ \A t \in Slots!Tasks : t # "point" => ExpectedShape[t] = "box"
    /\ "unknown" \notin Slots!Tasks
  BY DEF ExpectedShape, Slots!Tasks, Slots!PhraseTasks

Text == Seq(Slots!Pieces)

(* What a client can ask for: one slot per phrase, a list for a detection.  *)
LEMMA SlotsOfRequest ==
    ASSUME NEW r, Slots!Requested(r)
    PROVE  /\ r.slots \in Seq(Text) /\ r.task \in Slots!Tasks
           /\ r.task = "scene_text" => r.slots = <<>>
           /\ r.task \in Slots!PhraseTasks => \E s \in Text : r.slots = <<s>>
<1>1. CASE r = [task |-> "scene_text", slots |-> <<>>]
  <2>1. r.task = "scene_text" /\ r.slots = <<>>
    BY <1>1
  <2> QED
    BY <2>1 DEF Slots!Tasks, Slots!PhraseTasks
<1>2. CASE \E t \in Slots!PhraseTasks, n \in 0..MaxPieces : \E s \in [1..n -> Slots!Pieces] :
               r = [task |-> t, slots |-> <<s>>]
  <2>0. PICK t \in Slots!PhraseTasks, n \in 0..MaxPieces :
               \E s \in [1..n -> Slots!Pieces] : r = [task |-> t, slots |-> <<s>>]
    BY <1>2
  <2>1. PICK s \in [1..n -> Slots!Pieces] : r = [task |-> t, slots |-> <<s>>]
    BY <2>0
  <2>2. n \in Nat
    BY SMT
  <2>3. s \in Text
    BY <2>2, FunctionIsSequence DEF Text
  <2>4. r.task = t /\ r.slots = <<s>>
    BY <2>1
  <2>5. <<s>> \in Seq(Text)
    BY <2>3
  <2>6. t \in Slots!Tasks /\ t # "scene_text"
    BY DEF Slots!Tasks, Slots!PhraseTasks
  <2> QED
    BY <2>3, <2>4, <2>5, <2>6
<1>3. CASE \E n \in 0..MaxSent :
             \E names \in [1..n -> Slots!SeqOf(Slots!Pieces, Slots!NameBound(n))] :
               r = [task |-> "detection", slots |-> names]
  <2>0. PICK n \in 0..MaxSent :
             \E names \in [1..n -> Slots!SeqOf(Slots!Pieces, Slots!NameBound(n))] :
               r = [task |-> "detection", slots |-> names]
    BY <1>3
  <2> DEFINE bound == Slots!NameBound(n)
  <2>1. PICK names \in [1..n -> Slots!SeqOf(Slots!Pieces, bound)] :
               r = [task |-> "detection", slots |-> names]
    BY <2>0
  <2>2. n \in Nat
    BY SMT
  <2> HIDE DEF bound
  <2>3. Slots!SeqOf(Slots!Pieces, bound) \subseteq Text
    <3> SUFFICES ASSUME NEW m \in 0..bound, NEW s \in [1..m -> Slots!Pieces] PROVE s \in Text
      BY DEF Slots!SeqOf
    <3>1. m \in Nat
      BY SMT
    <3> QED
      BY <3>1, FunctionIsSequence DEF Text
  <2>4. names \in [1..n -> Text]
    BY <2>3
  <2>5. names \in Seq(Text)
    BY <2>2, <2>4, FunctionIsSequence
  <2>6. r.task = "detection" /\ r.slots = names
    BY <2>1
  <2> QED
    BY <2>5, <2>6 DEF Slots!Tasks, Slots!PhraseTasks
<1> QED
  BY <1>1, <1>2, <1>3 DEF Slots!Requested

LEMMA TaskOfRequest ==
    ASSUME NEW r, Slots!Requested(r)
    PROVE  r.task \in Slots!Tasks /\ (r.task = "point" => r.slots[1] \in Seq(Slots!Pieces))
<1>1. r.task = "point" => \E s \in Text : r.slots = <<s>>
  BY SlotsOfRequest DEF Slots!PhraseTasks
<1> QED
  BY <1>1, SlotsOfRequest DEF Text

(* A compiled point prompt starts with the words point_phrase looks for. *)
LEMMA PointPromptRecognised ==
    ASSUME NEW s \in Seq(Slots!Pieces), NEW slots, slots[1] = s
    PROVE  Slots!IsPrefix(Slots!Prefix("point"), Slots!Render("point", slots))
<1> DEFINE Letters == Slots!Pieces \cup {"Point to: "}
<1>1. s \in Seq(Letters)
  <2>1. Len(s) \in Nat /\ s \in [1..Len(s) -> Slots!Pieces]
    OBVIOUS
  <2>2. s \in [1..Len(s) -> Letters]
    BY <2>1
  <2> HIDE DEF Letters
  <2> QED
    BY <2>1, <2>2, FunctionIsSequence
<1>2. Slots!Period \in Letters
  <2>1. Slots!Period \in Slots!Pieces
    BY Zenon DEF Slots!Pieces
  <2> QED
    BY <2>1
<1>3. "Point to: " \in Letters
  OBVIOUS
<1> HIDE DEF Letters
<1>4. <<Slots!Period>> \in Seq(Letters)
  BY <1>2
<1>5. Slots!IsPrefix(<<"Point to: ">>, <<"Point to: ">> \o s \o <<Slots!Period>>)
  BY <1>1, <1>3, <1>4, PrefixOfSum
<1>6. Slots!Render("point", slots) = <<"Point to: ">> \o s \o <<Slots!Period>>
  BY PointPrefix DEF Slots!Render
<1> QED
  BY <1>5, <1>6, PointPrefix

-----------------------------------------------------------------------------
(* What the steps of a kind leave alone. *)

LEMMA WorkerKeeps ==
    ASSUME WorkerStep \/ GiveUp \/ StopGenerating \/ \E symbol \in UNION Vocabularies : Generate(symbol)
    PROVE  /\ UNCHANGED <<slotVars, jpeg, bypassed, header>>
           /\ stage \in AtWorker /\ stage' \in (AtWorker \ {"read"}) \cup {"replied"}
  BY DEF WorkerStep, GiveUp, StopGenerating, Generate, InferStep, Route, CheckFrame, RefuseFrame,
         DecodeImage, GateImage, PlanImage, MapAnswer, BuildReply, EngineFails, EndGeneration,
         Emit, inferVars, slotVars, AtWorker, Say

LEMMA FrontendKeeps ==
    ASSUME CheckPayload \/ MeasureImage \/ MeasuringPanics \/ GateAtEdge
    PROVE  /\ UNCHANGED <<slotVars, jpeg, bypassed, header>>
           /\ stage \in Validated /\ stage' \in Validated \cup {"replied"}
  BY DEF CheckPayload, MeasureImage, MeasuringPanics, GateAtEdge, inferVars, slotVars,
         Validated, Say

LEMMA PromptKept == ASSUME PromptInv, [PathNext]_pathVars PROVE PromptInv'
<1>1. CASE CompileRequest
  <2>1. UNCHANGED request
    BY <1>1 DEF CompileRequest, Slots!Accept, Slots!Reject
  <2>2. CASE Slots!Accept
    <3>1. task' = request.task /\ prompt' = Slots!Compiled(request)
      BY <2>2 DEF Slots!Accept
    <3>2. ASSUME task' = "point" PROVE Slots!IsPrefix(Slots!Prefix("point"), prompt')
      <4>1. prompt' = Slots!Render("point", request.slots)
        BY <3>1, <3>2 DEF Slots!Compiled
      <4>2. request.slots[1] \in Seq(Slots!Pieces)
        BY <3>1, <3>2 DEF PromptInv
      <4> QED
        BY <4>1, <4>2, PointPromptRecognised
    <3> QED
      BY <2>1, <3>1, <3>2 DEF PromptInv
  <2>3. CASE Say(FrameError("invalid_request"))
    BY <2>1, <2>3 DEF Say, PromptInv, Validated
  <2> QED
    BY <1>1, <2>2, <2>3 DEF CompileRequest
<1>2. CASE CheckPayload \/ MeasureImage \/ MeasuringPanics \/ GateAtEdge
  BY <1>2, FrontendKeeps DEF PromptInv, slotVars
<1>3. CASE Forward
  BY <1>3 DEF PromptInv, Forward, slotVars, Validated
<1>4. CASE WorkerStep \/ GiveUp \/ StopGenerating \/ \E symbol \in UNION Vocabularies : Generate(symbol)
  BY <1>4, WorkerKeeps DEF PromptInv, slotVars, Validated, AtWorker
<1>5. CASE UNCHANGED pathVars
  BY <1>5 DEF PromptInv, pathVars, slotVars, inferVars
<1> QED
  BY <1>1, <1>2, <1>3, <1>4, <1>5 DEF PathNext

LEMMA HeaderKept == ASSUME PromptInv, HeaderInv, [PathNext]_pathVars PROVE HeaderInv'
<1>1. CASE CompileRequest
  BY <1>1 DEF CompileRequest, HeaderInv, Say, AtWorker
<1>2. CASE CheckPayload \/ MeasureImage \/ MeasuringPanics \/ GateAtEdge
  BY <1>2, FrontendKeeps DEF HeaderInv, AtWorker, Validated
<1>3. CASE Forward
  <2>1. /\ task \in Slots!Tasks
        /\ task = "point" => Slots!IsPrefix(Slots!Prefix("point"), prompt)
    BY <1>3 DEF Forward, PromptInv, Validated
  <2>2. /\ header'.prompt \in {"canonical", "foreign"}
        /\ task = "point" => header'.prompt = "canonical"
        /\ header'.prompt_task = task
        /\ header'.image = jpeg
        /\ header'.object /\ header'.kind = "frame"
        /\ header'.frame_id /\ header'.keys /\ header'.mode
        /\ jpeg' = jpeg
    BY <1>3, <2>1 DEF Forward, UsualHeader, WireTask
  <2> QED
    BY <2>1, <2>2, Shapes DEF HeaderInv, PointTask, HeaderFault
<1>4. CASE WorkerStep \/ GiveUp \/ StopGenerating \/ \E symbol \in UNION Vocabularies : Generate(symbol)
  BY <1>4, WorkerKeeps DEF HeaderInv, PointTask, HeaderFault
<1>5. CASE UNCHANGED pathVars
  BY <1>5 DEF HeaderInv, PointTask, HeaderFault, pathVars, inferVars
<1> QED
  BY <1>1, <1>2, <1>3, <1>4, <1>5 DEF PathNext

(* A reply is the last step of a frame. *)
LEMMA ReplyKept == ASSUME ReplyInv, [PathNext]_pathVars PROVE ReplyInv'
<1>1. CASE CompileRequest \/ CheckPayload \/ MeasureImage \/ MeasuringPanics \/ GateAtEdge \/ Forward
  BY <1>1 DEF CompileRequest, CheckPayload, MeasureImage, MeasuringPanics, GateAtEdge, Forward,
              inferVars, Say, ReplyInv
<1>2. CASE WorkerStep
  BY <1>2 DEF WorkerStep, InferStep, Route, CheckFrame, RefuseFrame, DecodeImage, GateImage,
              PlanImage, MapAnswer, BuildReply, inferVars, Say, ReplyInv
<1>3. CASE GiveUp \/ StopGenerating \/ \E symbol \in UNION Vocabularies : Generate(symbol)
  BY <1>3 DEF GiveUp, StopGenerating, Generate, EngineFails, EndGeneration, Emit, Say, ReplyInv
<1>4. CASE UNCHANGED pathVars
  BY <1>4 DEF pathVars, inferVars, ReplyInv
<1> QED
  BY <1>1, <1>2, <1>3, <1>4 DEF PathNext

(* What the mapping makes of an answer follows the shape of its task. *)
LEMMA KindOfResult ==
    ASSUME header.prompt_task \in Slots!Tasks
    PROVE  /\ MappedResult.kind \in {"boxes", "points", "abstained", "model_deviation"}
           /\ MappedResult.kind = "boxes" => ~PointTask
           /\ MappedResult.kind = "points" => PointTask
<1>1. ExpectedShape[header.prompt_task] = "point" <=> PointTask
  BY Shapes DEF PointTask
<1> QED
  BY <1>1, Zenon DEF MappedResult

LEMMA CheckedKept ==
    ASSUME HeaderInv, CheckedInv, [PathNext]_pathVars
    PROVE  CheckedInv'
<1>1. CASE CompileRequest \/ CheckPayload \/ MeasuringPanics
  BY <1>1 DEF CompileRequest, CheckPayload, MeasuringPanics, imageVars, vars, Say, CheckedInv,
              InInfer, AtFrontend
<1>2. CASE MeasureImage
  BY <1>2 DEF MeasureImage, Measure, inferVars, CheckedInv, InInfer, AtFrontend, Opened
<1>3. CASE GateAtEdge
  BY <1>3 DEF GateAtEdge, EdgeGates, Say, CheckedInv, InInfer, AtFrontend, Opened
<1>4. CASE Forward
  BY <1>4 DEF Forward, imageVars, vars, CheckedInv, InInfer, AtFrontend, Opened
<1>5. CASE WorkerStep
  <2>0. UNCHANGED header
    BY <1>5, WorkerKeeps
  <2>1. CASE Route
    BY <2>0, <2>1 DEF Route, Say, imageVars, vars, CheckedInv, InInfer, AtFrontend, Opened
  <2>2. CASE CheckFrame
    BY <2>0, <2>2 DEF CheckFrame, Say, imageVars, vars, CheckedInv, InInfer, AtFrontend, Opened,
                      HeaderFault
  <2>3. CASE RefuseFrame
    BY <2>0, <2>3 DEF RefuseFrame, Say, imageVars, vars, CheckedInv, InInfer, AtFrontend, Opened
  <2>4. CASE DecodeImage
    BY <2>0, <2>4 DEF DecodeImage, Decode, inferVars, CheckedInv, InInfer, AtFrontend, Opened,
                      HeaderFault, Refused
  <2>5. CASE GateImage
    BY <2>0, <2>5 DEF GateImage, WorkerGates, Say, CheckedInv, InInfer, AtFrontend, Opened,
                      HeaderFault, Refused
  <2>6. CASE PlanImage
    BY <2>0, <2>6 DEF PlanImage, Plan, Say, CheckedInv, InInfer, AtFrontend, Opened,
                      HeaderFault, Refused
  <2>7. CASE MapAnswer
    <3>1. header.prompt_task \in Slots!Tasks /\ header.prompt \in {"canonical", "foreign"}
      BY <2>7, Shapes DEF MapAnswer, HeaderInv, AtWorker, CheckedInv, InInfer, HeaderFault, Refused
    <3>2. CASE PointTask /\ header.prompt = "foreign"
      BY <2>0, <2>7, <3>2 DEF MapAnswer, Say, imageVars, vars, CheckedInv, InInfer, AtFrontend
    <3>3. CASE ~(PointTask /\ header.prompt = "foreign")
      <4>1. result' = MappedResult /\ stage' = "mapped" /\ UNCHANGED imageVars /\ stage = "answered"
        BY <2>7, <3>3 DEF MapAnswer
      <4>2. /\ result'.kind \in {"boxes", "points", "abstained", "model_deviation"}
            /\ result'.kind = "boxes" => ~PointTask
            /\ result'.kind = "points" => PointTask
        BY <3>1, <4>1, KindOfResult
      <4> QED
        BY <2>0, <3>1, <3>3, <4>1, <4>2 DEF CheckedInv, InInfer, AtFrontend, HeaderFault, Refused,
                                           PointTask, imageVars, vars, Opened
    <3> QED
      BY <3>2, <3>3
  <2>8. CASE BuildReply
    BY <2>0, <2>8 DEF BuildReply, Say, imageVars, vars, CheckedInv, InInfer, AtFrontend
  <2> QED
    BY <1>5, <2>1, <2>2, <2>3, <2>4, <2>5, <2>6, <2>7, <2>8 DEF WorkerStep, InferStep
<1>6. CASE GiveUp
  BY <1>6 DEF GiveUp, EngineFails, Say, imageVars, vars, CheckedInv, InInfer, AtFrontend
<1>7. CASE StopGenerating
  BY <1>7 DEF StopGenerating, EndGeneration, imageVars, vars, CheckedInv, InInfer, AtFrontend,
              HeaderFault, Refused, Opened
<1>8. CASE \E symbol \in UNION Vocabularies : Generate(symbol)
  BY <1>8 DEF Generate, Emit, imageVars, vars, CheckedInv, InInfer, AtFrontend, HeaderFault,
              Refused, Opened
<1>9. CASE UNCHANGED pathVars
  BY <1>9 DEF pathVars, inferVars, imageVars, vars, CheckedInv, HeaderFault, Refused, PointTask
<1> QED
  BY <1>1, <1>2, <1>3, <1>4, <1>5, <1>6, <1>7, <1>8, <1>9 DEF PathNext

-----------------------------------------------------------------------------
PathInv == PromptInv /\ HeaderInv /\ CheckedInv /\ ReplyInv

LEMMA Initially == ASSUME PathInit PROVE PathInv
<1>1. Slots!Requested(request)
  BY UsualAssumption DEF PathInit, FrontendInit, BypassInit
<1>2. PromptInv
  <2>1. stage \notin Validated
    BY DEF PathInit, FrontendInit, BypassInit, Validated
  <2> QED
    BY <1>1, <2>1, TaskOfRequest DEF PromptInv
<1>3. HeaderInv
  <2>1. CASE FrontendInit
    BY <2>1 DEF FrontendInit, HeaderInv, AtWorker
  <2>2. CASE BypassInit
    BY <2>2 DEF BypassInit, HeaderInv, Header
  <2> QED
    BY <2>1, <2>2 DEF PathInit
<1>4. CheckedInv
  BY DEF PathInit, FrontendInit, BypassInit, CheckedInv, InInfer, Opened
<1>5. ReplyInv
  BY DEF PathInit, ReplyInv
<1> QED
  BY <1>2, <1>3, <1>4, <1>5 DEF PathInv

THEOREM Invariance == PathSpec => []PathInv
<1>1. PathInv /\ [PathNext]_pathVars => PathInv'
  BY PromptKept, HeaderKept, CheckedKept, ReplyKept DEF PathInv
<1> QED
  BY <1>1, Initially, PTL DEF PathSpec

(* A frame is answered only when nothing was wrong with it, whether it came *)
(* past the frontend or not, whatever its header says and whatever the     *)
(* model has written.                                                      *)
THEOREM GoodFramesOnly == PathSpec => []OnlyGoodFramesAreAnswered
<1>1. PathInit => OnlyGoodFramesAreAnswered
  BY DEF PathInit, NoReply, OnlyGoodFramesAreAnswered
<1>2. PathInv /\ OnlyGoodFramesAreAnswered /\ [PathNext]_pathVars => OnlyGoodFramesAreAnswered'
  <2> SUFFICES ASSUME PathInv, OnlyGoodFramesAreAnswered, [PathNext]_pathVars,
                      reply'.type \in {"boxes", "points", "abstained"}
               PROVE  OnlyGoodFramesAreAnswered'
    BY DEF OnlyGoodFramesAreAnswered
  <2>1. CASE BuildReply
    <3>1. /\ stage = "mapped" /\ UNCHANGED header
          /\ result.kind # "model_deviation" => reply'.type = result.kind
          /\ result.kind = "model_deviation" => reply'.type = "error"
      BY <2>1 DEF BuildReply, Say, FrameError
    <3>2. /\ header.object /\ header.kind = "frame" /\ ~HeaderFault /\ ~Refused
          /\ PointTask => header.prompt = "canonical"
          /\ result.kind = "boxes" => ~PointTask
          /\ result.kind = "points" => PointTask
      BY <3>1 DEF PathInv, CheckedInv, InInfer
    <3> QED
      BY <3>1, <3>2 DEF OnlyGoodFramesAreAnswered, HeaderFault, Refused, PointTask
  <2>2. CASE stage = "replied"
    <3>1. UNCHANGED pathVars
      BY <2>2, WorkerKeeps, FrontendKeeps DEF PathNext, CompileRequest, Forward, AtWorker, Validated
    <3> QED
      BY <3>1 DEF OnlyGoodFramesAreAnswered, pathVars, inferVars, HeaderFault, PointTask
  <2>3. CASE stage # "replied" /\ ~BuildReply
    <3>1. reply'.type \in {"none", "error", "capabilities", "info"}
      <4>1. reply.type = "none"
        BY <2>3 DEF PathInv, ReplyInv, NoReply
      <4>2. CASE CompileRequest \/ CheckPayload \/ MeasureImage \/ MeasuringPanics \/ GateAtEdge \/ Forward
        BY <4>1, <4>2 DEF CompileRequest, CheckPayload, MeasureImage, MeasuringPanics, GateAtEdge,
                          Forward, inferVars, Say, FrameError
      <4>3. CASE WorkerStep
        BY <2>3, <4>1, <4>3 DEF WorkerStep, InferStep, Route, CheckFrame, RefuseFrame, DecodeImage,
                    GateImage, PlanImage, MapAnswer, inferVars, Say, FrameError
      <4>4. CASE GiveUp \/ StopGenerating \/ \E symbol \in UNION Vocabularies : Generate(symbol)
        BY <4>1, <4>4 DEF GiveUp, StopGenerating, Generate, EngineFails, EndGeneration, Emit, Say,
                          FrameError
      <4>5. CASE UNCHANGED pathVars
        BY <4>1, <4>5 DEF pathVars, inferVars
      <4> QED
        BY <4>2, <4>3, <4>4, <4>5 DEF PathNext
    <3> QED
      BY <3>1
  <2> QED
    BY <2>1, <2>2, <2>3
<1> QED
  BY <1>1, <1>2, Invariance, PTL DEF PathSpec

-----------------------------------------------------------------------------
(* To the image every step is one of ImageGates. *)
LEMMA ImageStep == [PathNext]_pathVars => [Next]_vars
<1>1. CASE CompileRequest \/ CheckPayload \/ MeasureImage \/ MeasuringPanics \/ GateAtEdge \/ Forward
  BY <1>1 DEF CompileRequest, CheckPayload, MeasureImage, MeasuringPanics, GateAtEdge, Forward,
              imageVars, Next
<1>2. CASE WorkerStep
  BY <1>2 DEF WorkerStep, InferStep, Route, CheckFrame, RefuseFrame, DecodeImage, GateImage,
              PlanImage, MapAnswer, BuildReply, imageVars, Next
<1>3. CASE GiveUp \/ StopGenerating \/ \E symbol \in UNION Vocabularies : Generate(symbol)
  BY <1>3 DEF GiveUp, StopGenerating, Generate, EngineFails, EndGeneration, Emit, imageVars
<1>4. CASE UNCHANGED pathVars
  BY <1>4 DEF pathVars, imageVars
<1> QED
  BY <1>1, <1>2, <1>3, <1>4 DEF PathNext

(* What came past the frontend was measured by it. *)
Measured == ~bypassed => SameImage

LEMMA MeasuredAlways == PathSpec => [](TypeOK /\ Measured)
<1>1. PathInit => TypeOK /\ Measured
  <2> SUFFICES ASSUME PathInit PROVE TypeOK /\ Measured
    OBVIOUS
  <2>1. stored \in (Nat \ {0}) \X (Nat \ {0}) /\ orientation \in 1..8
    <3>1. \/ stored = UsualSize /\ orientation = 1
          \/ stored \in Dims \X Dims /\ orientation \in 1..8
      BY DEF PathInit, FrontendInit, BypassInit
    <3>2. 1 \in 1..8
      BY SMT
    <3>3. UsualSize \in (Nat \ {0}) \X (Nat \ {0})
      BY UsualAssumption
    <3>4. ASSUME stored \in Dims \X Dims PROVE stored \in (Nat \ {0}) \X (Nat \ {0})
      BY <3>4, DimsAssumption
    <3> QED
      BY <3>1, <3>2, <3>3, <3>4
  <2>2. <<0, 0>> \in Nat \X Nat
    BY SMT
  <2>3. phase \in Phase /\ (~bypassed => phase = "edge")
    BY DEF PathInit, FrontendInit, BypassInit, Phase
  <2>4. TypeOK
    BY <2>1, <2>2, <2>3 DEF PathInit, TypeOK
  <2>5. Measured
    BY <2>3 DEF Measured, SameImage
  <2> QED
    BY <2>4, <2>5
<1>2. TypeOK /\ Measured /\ [PathNext]_pathVars => TypeOK' /\ Measured'
  <2> SUFFICES ASSUME TypeOK, Measured, [PathNext]_pathVars PROVE TypeOK' /\ Measured'
    OBVIOUS
  <2>1. UNCHANGED bypassed
    BY WorkerKeeps, FrontendKeeps DEF PathNext, CompileRequest, Forward, pathVars
  <2>2. [Next]_vars
    BY ImageStep
  <2> QED
    BY <2>1, <2>2, TypesKept, SameImageKept DEF Measured
<1> QED
  BY <1>1, <1>2, PTL DEF PathSpec

(* The worker's gates on a decoded image the frontend has let pass. *)
LEMMA NothingToRefuse ==
    ASSUME TypeOK, SameImage, phase \in {"decoded", "accepted"}
    PROVE  WorkerRefusal(decoded) = "none" /\ ~PlanResize(decoded).raises
<1>1. PICK w \in Nat \ {0}, h \in Nat \ {0} : decoded = <<w, h>>
  BY DecodedPasses
<1>2. EdgeRefusal(<<w, h>>) = "none" \/ EdgeRefusal(<<h, w>>) = "none"
  <2>1. decoded[1] = w /\ decoded[2] = h
    BY <1>1
  <2> QED
    BY <2>1, DecodedPasses
<1>3. WorkerRefusal(<<w, h>>) = "none"
  BY <1>2, EdgeImpliesWorker
<1>4. ~OverTokenLimit(<<w, h>>) /\ ~OverPosEmb(<<w, h>>)
  BY <1>3 DEF WorkerRefusal
<1>5. ~PlanResize(<<w, h>>).raises
  BY <1>4, PlanOfAccepted
<1> QED
  BY <1>1, <1>3, <1>5

(* None of the worker's checks ends what the frontend has let pass.         *)
LEMMA ChecksPass ==
    ASSUME PathInv, TypeOK, Measured, [PathNext]_pathVars,
           ~bypassed, jpeg = "good", stage \in CheckedStages, stage' = "replied"
    PROVE  stage = "engine" /\ reply' = FrameError("internal")
<1>0. stage \in AtWorker
  BY DEF CheckedStages, AtWorker
<1>1. /\ header.image = "good" /\ header.prompt_task # "unknown"
      /\ header.object /\ header.kind = "frame" /\ ~HeaderFault /\ ~Refused
      /\ ~(PointTask /\ header.prompt = "foreign")
  BY <1>0 DEF PathInv, HeaderInv, Refused
<1>2. CASE WorkerStep
  <2>1. CASE GateImage \/ PlanImage
    <3>1. phase \in {"decoded", "accepted"}
      BY <2>1 DEF GateImage, PlanImage, WorkerGates, Plan
    <3>2. WorkerRefusal(decoded) = "none" /\ ~PlanResize(decoded).raises
      BY <3>1, NothingToRefuse DEF Measured
    <3> QED
      BY <2>1, <3>2 DEF GateImage, PlanImage, WorkerGates, Plan, CheckedStages
  <2>2. CASE Route \/ CheckFrame \/ RefuseFrame
    BY <1>1, <2>2 DEF Route, CheckFrame, RefuseFrame
  <2>3. CASE DecodeImage
    BY <2>3 DEF DecodeImage, inferVars, CheckedStages
  <2>4. CASE MapAnswer \/ BuildReply
    BY <1>1, <2>4 DEF MapAnswer, BuildReply, CheckedStages
  <2> QED
    BY <1>2, <2>1, <2>2, <2>3, <2>4 DEF WorkerStep, InferStep
<1>3. CASE GiveUp
  BY <1>3 DEF GiveUp, EngineFails, Say, CheckedStages
<1>4. CASE StopGenerating \/ \E symbol \in UNION Vocabularies : Generate(symbol)
  BY <1>4 DEF StopGenerating, Generate, EndGeneration, Emit, CheckedStages
<1>5. CASE CompileRequest \/ CheckPayload \/ MeasureImage \/ MeasuringPanics \/ GateAtEdge \/ Forward
  BY <1>0, <1>5, FrontendKeeps DEF CompileRequest, Forward, AtWorker, Validated
<1>6. CASE UNCHANGED pathVars
  BY <1>6 DEF pathVars, inferVars, CheckedStages
<1> QED
  BY <1>2, <1>3, <1>4, <1>5, <1>6 DEF PathNext

(* Whatever the size of the image, the text of the request and the two      *)
(* readings of the orientation: what the frontend forwards passes every    *)
(* check of the worker, up to the one on the way back from the model.      *)
THEOREM FrontendAlwaysVouches == PathSpec => FrontendVouches
<1>1. PathInv /\ TypeOK /\ Measured /\ [PathNext]_pathVars =>
          [~bypassed /\ jpeg = "good" /\ stage \in CheckedStages /\ stage' = "replied" =>
               stage = "engine" /\ reply' = FrameError("internal")]_pathVars
  BY ChecksPass
<1> QED
  BY <1>1, Invariance, MeasuredAlways, PTL DEF PathSpec, FrontendVouches

-----------------------------------------------------------------------------
(* The answer of the model, and the result it is mapped to.                 *)
AnswerInv ==
    /\ answer \in Seq(UNION Vocabularies)
    /\ Mapped => result = MappedResult

LEMMA AnswerKept == ASSUME AnswerInv, [PathNext]_pathVars PROVE AnswerInv'
<1>1. CASE CompileRequest \/ CheckPayload \/ MeasureImage \/ MeasuringPanics \/ GateAtEdge \/ Forward
  <2>1. UNCHANGED answer /\ stage' # "mapped"
    BY <1>1 DEF CompileRequest, CheckPayload, MeasureImage, MeasuringPanics, GateAtEdge, Forward,
                inferVars, Say
  <2> QED
    BY <2>1 DEF AnswerInv, Mapped
<1>2. CASE WorkerStep /\ ~MapAnswer
  <2>1. UNCHANGED answer /\ stage' # "mapped"
    BY <1>2 DEF WorkerStep, InferStep, Route, CheckFrame, RefuseFrame, DecodeImage, GateImage,
                PlanImage, BuildReply, inferVars, Say
  <2> QED
    BY <2>1 DEF AnswerInv, Mapped
<1>3. CASE MapAnswer
  <2>1. UNCHANGED <<answer, header, endOfTurn, decoded>>
    BY <1>3 DEF MapAnswer, imageVars, vars
  <2>2. MappedResult' = MappedResult
    BY <2>1 DEF MappedResult, PointLabel, PointTask
  <2>3. stage' = "mapped" => result' = MappedResult
    BY <1>3 DEF MapAnswer, Say
  <2> QED
    BY <2>1, <2>2, <2>3 DEF AnswerInv, Mapped
<1>4. CASE GiveUp \/ StopGenerating
  <2>1. UNCHANGED answer /\ stage' # "mapped"
    BY <1>4 DEF GiveUp, StopGenerating, EngineFails, EndGeneration, Say
  <2> QED
    BY <2>1 DEF AnswerInv, Mapped
<1>5. CASE \E symbol \in UNION Vocabularies : Generate(symbol)
  <2>1. PICK symbol \in UNION Vocabularies : answer' = Append(answer, symbol) /\ stage' # "mapped"
    BY <1>5 DEF Generate, Emit
  <2>2. answer' \in Seq(UNION Vocabularies)
    BY <2>1 DEF AnswerInv
  <2> QED
    BY <2>1, <2>2 DEF AnswerInv, Mapped
<1>6. CASE UNCHANGED pathVars
  <2>1. MappedResult' = MappedResult
    BY <1>6 DEF MappedResult, PointLabel, PointTask, pathVars, inferVars, imageVars, vars
  <2> QED
    BY <1>6, <2>1 DEF AnswerInv, Mapped, pathVars, inferVars
<1> QED
  BY <1>1, <1>2, <1>3, <1>4, <1>5, <1>6 DEF PathNext, WorkerStep

THEOREM AnswerMapped == PathSpec => []AnswerInv
<1>1. PathInit => AnswerInv
  <2>1. PathInit => answer \in Seq(UNION Vocabularies) /\ ~Mapped
    BY DEF PathInit, FrontendInit, BypassInit, Mapped
  <2> QED
    BY <2>1 DEF AnswerInv
<1> QED
  BY <1>1, AnswerKept, PTL DEF PathSpec

(* However the model nests, interrupts or leaves open its blocks: what the  *)
(* reply keeps and what it counts as dropped account for every block that  *)
(* was closed, for none twice, and in a tidy answer for nothing else.      *)
THEOREM EveryBlockAccounted == PathSpec => []NothingVanishes
<1>1. AnswerInv => NothingVanishes
  <2> SUFFICES ASSUME AnswerInv, Mapped PROVE NothingVanishes
    BY DEF NothingVanishes
  <2> QED
    BY NothingVanishesWhenMapped DEF AnswerInv
<1> QED
  BY <1>1, AnswerMapped, PTL

(* The calibration's probe tells a run that closed a block from one that   *)
(* did not, for every answer.                                              *)
THEOREM ProbeIsRight == PathSpec => []ProbeSeesEveryBlock
<1>1. AnswerInv => ProbeSeesEveryBlock
  <2> SUFFICES ASSUME AnswerInv, Mapped PROVE ProbeSeesEveryBlock
    BY DEF ProbeSeesEveryBlock
  <2> QED
    BY ProbeSeesWhenMapped DEF AnswerInv
<1> QED
  BY <1>1, AnswerMapped, PTL

(* Every kept box and point of a tidy answer has the label of its own run,  *)
(* in an answer with any number of runs of any length.                     *)
THEOREM LabelsAreTheirRuns == PathSpec => []LabelsComeFromTheirRun
<1>1. AnswerInv => LabelsComeFromTheirRun
  <2> SUFFICES ASSUME AnswerInv, Mapped PROVE LabelsComeFromTheirRun
    BY DEF LabelsComeFromTheirRun
  <2> QED
    BY LabelsWhenMapped DEF AnswerInv
<1> QED
  BY <1>1, AnswerMapped, PTL

(* Every number the model can write ends inside the image, of any size.    *)
THEOREM GeometryAlwaysInImage == PathSpec => []GeometryInImage
<1>1. AnswerInv /\ TypeOK => GeometryInImage
  <2> SUFFICES ASSUME AnswerInv, TypeOK, Mapped PROVE GeometryInImage
    BY DEF GeometryInImage
  <2>1. decoded \in Nat \X Nat
    BY DEF TypeOK
  <2> QED
    BY <2>1, GeometryWhenMapped DEF AnswerInv
<1> QED
  BY <1>1, AnswerMapped, MeasuredAlways, PTL

-----------------------------------------------------------------------------
(* The text of a request, of any length and in any number of slots.         *)

(* strip() and the dropping of empty slots change nothing that is valid.    *)
LEMMA StripIsIdentity ==
    ASSUME NEW s \in Text, s # <<>>, Slots!Trimmed(s) PROVE Slots!Strip(s) = s
<1> DEFINE kept == {i \in 1..Len(s) : ~Slots!White(s[i])}
           n == Len(s)
<1>1. n \in Nat /\ 1 \in 1..n /\ n \in 1..n
  BY DEF Text
<1>2. Head(s) = s[1] /\ Slots!Last(s) = s[n]
  BY <1>1 DEF Slots!Last, Text
<1>3. 1 \in kept /\ n \in kept
  BY <1>1, <1>2 DEF Slots!Trimmed
<1>4. \A i \in kept : i \in Nat /\ 1 <= i /\ i <= n
  BY <1>1
<1>5. SubSeq(s, 1, n) = s
  BY DEF Text
<1>6. Slots!Strip(s) = IF kept = {} THEN <<>> ELSE SubSeq(s, Slots!Min(kept), Slots!Max(kept))
  BY DEF Slots!Strip
<1> HIDE DEF kept, n
<1>7. Slots!Min(kept) = 1
  <2>1. \A i \in kept : 1 <= i
    BY <1>4
  <2>2. Slots!Min(kept) \in kept /\ Slots!Min(kept) <= 1
    <3>1. \E x \in kept : \A y \in kept : x <= y
      BY <1>3, <2>1
    <3> QED
      BY <1>3, <3>1 DEF Slots!Min
  <2> QED
    BY <1>4, <2>2
<1>8. Slots!Max(kept) = n
  <2>2. Slots!Max(kept) \in kept /\ Slots!Max(kept) >= n
    <3>1. \E x \in kept : \A y \in kept : x >= y
      BY <1>1, <1>3, <1>4
    <3> QED
      BY <1>3, <3>1 DEF Slots!Max
  <2> QED
    BY <1>1, <1>4, <2>2
<1> QED
  BY <1>3, <1>5, <1>6, <1>7, <1>8

(* Texts of which strip() leaves all, none of them empty.                   *)
Stripped(slots) == \A i \in 1..Len(slots) : slots[i] # <<>> /\ Slots!Strip(slots[i]) = slots[i]

Cleans(slots, g) ==
    g = [n \in 0..Len(slots) |->
            IF n = 0 THEN <<>>
            ELSE IF Slots!Strip(slots[n]) = <<>> THEN g[n - 1]
                 ELSE Append(g[n - 1], Slots!Strip(slots[n]))]

LEMMA CleanedIsIdentity ==
    ASSUME NEW slots \in Seq(Text), Stripped(slots) PROVE Slots!Cleaned(slots) = slots
<1> DEFINE N == Len(slots)
           G == CHOOSE g : Cleans(slots, g)
           h == [n \in 0..N |-> SubSeq(slots, 1, n)]
<1>1. Cleans(slots, h)
  <2> SUFFICES ASSUME NEW n \in 0..N
               PROVE  h[n] = IF n = 0 THEN <<>>
                             ELSE IF Slots!Strip(slots[n]) = <<>> THEN h[n - 1]
                                  ELSE Append(h[n - 1], Slots!Strip(slots[n]))
    BY DEF Cleans
  <2>1. CASE n = 0
    BY <2>1
  <2>2. CASE n # 0
    <3>1. n \in 1..N /\ n - 1 \in 0..N
      BY <2>2
    <3>2. slots[n] # <<>> /\ Slots!Strip(slots[n]) = slots[n]
      BY <3>1 DEF Stripped
    <3>3. SubSeq(slots, 1, n) = Append(SubSeq(slots, 1, n - 1), slots[n])
      BY <3>1
    <3> QED
      BY <2>2, <3>1, <3>2, <3>3
  <2> QED
    BY <2>1, <2>2
<1>2. Cleans(slots, G)
  BY <1>1
<1>3. Slots!Cleaned(slots) = G[N]
  BY DEF Slots!Cleaned, Cleans
<1>4. \A n \in 0..N : G[n] = SubSeq(slots, 1, n)
  <2> DEFINE T == {n \in 0..N : G[n] # SubSeq(slots, 1, n)}
  <2> SUFFICES ASSUME T # {} PROVE FALSE
    OBVIOUS
  <2>1. PICK n \in T : \A m \in T : n <= m
    <3>1. T \in SUBSET Nat
      OBVIOUS
    <3> HIDE DEF T
    <3> QED
      BY <3>1, LeastNat
  <2>2. n \in 0..N /\ G[n] # SubSeq(slots, 1, n)
    BY <2>1
  <2>3. G[n] = IF n = 0 THEN <<>>
               ELSE IF Slots!Strip(slots[n]) = <<>> THEN G[n - 1]
                    ELSE Append(G[n - 1], Slots!Strip(slots[n]))
    <3> HIDE DEF G
    <3> QED
      BY <1>2, <2>2 DEF Cleans
  <2> HIDE DEF G
  <2>4. CASE n = 0
    BY <2>2, <2>3, <2>4
  <2>5. CASE n # 0
    <3>1. n \in 1..N /\ n - 1 \in 0..N /\ ~(n <= n - 1)
      BY <2>2, <2>5
    <3>2. n - 1 \notin T
      <4> HIDE DEF T
      <4> QED
        BY <2>1, <3>1
    <3>3. G[n - 1] = SubSeq(slots, 1, n - 1)
      BY <3>1, <3>2
    <3>4. slots[n] # <<>> /\ Slots!Strip(slots[n]) = slots[n]
      BY <3>1 DEF Stripped
    <3>5. SubSeq(slots, 1, n) = Append(SubSeq(slots, 1, n - 1), slots[n])
      BY <3>1
    <3> QED
      BY <2>2, <2>3, <2>5, <3>3, <3>4, <3>5
  <2> QED
    BY <2>4, <2>5
<1>5. SubSeq(slots, 1, N) = slots /\ N \in 0..N
  OBVIOUS
<1> HIDE DEF G
<1> QED
  BY <1>3, <1>4, <1>5

-----------------------------------------------------------------------------
(* The slots of a detection, joined.                                        *)
LEMMA SeparatorIsText == Slots!Separator \in Text /\ Len(Slots!Separator) = 2
<1>1. "<" \in Slots!Pieces /\ "/c>" \in Slots!Pieces
  BY Zenon DEF Slots!Pieces, Slots!Separator
<1> QED
  BY <1>1 DEF Slots!Separator, Text

Joins(slots, g) ==
    g = [n \in 1..Len(slots) |->
            IF n = 1 THEN slots[1] ELSE g[n - 1] \o Slots!Separator \o slots[n]]

JoinOf(slots) == CHOOSE g : Joins(slots, g)

LEMMA JoinExists == ASSUME NEW slots \in Seq(Text) PROVE \E g : Joins(slots, g)
<1> DEFINE N == Len(slots)
           P == 1..N
           goes == 2..N
           next == [p \in goes |-> p - 1]
           rank == [p \in P |-> p]
           base == [p \in P |-> slots[p]]
           step == [p \in P |-> [v \in Text |-> v \o Slots!Separator \o slots[p]]]
<1>1. \A p \in P : slots[p] \in Text
  OBVIOUS
<1>2. ASSUME NEW v \in Text, NEW w \in Text PROVE v \o Slots!Separator \o w \in Text
  BY SeparatorIsText DEF Text
<1>3. step \in [P -> [Text -> Text]]
  BY <1>1, <1>2
<1>4. base \in [P -> Text]
  BY <1>1
<1>5. goes \in SUBSET P /\ next \in [goes -> P] /\ rank \in [P -> 0..N] /\ N \in Nat
  OBVIOUS
<1>6. \A p \in goes : rank[next[p]] < rank[p]
  OBVIOUS
<1>7. PICK g \in [P -> Text] : Recursive(g, P, base, step, goes, next)
  <2> HIDE DEF P, goes, next, rank, base, step, N
  <2> QED
    BY <1>3, <1>4, <1>5, <1>6, RecursionExists, Zenon
<1>8. \A p \in P : g[p] = IF p = 1 THEN slots[1] ELSE g[p - 1] \o Slots!Separator \o slots[p]
  <2> SUFFICES ASSUME NEW p \in P
               PROVE  g[p] = IF p = 1 THEN slots[1] ELSE g[p - 1] \o Slots!Separator \o slots[p]
    OBVIOUS
  <2>1. CASE p = 1
    <3>1. p \notin goes
      BY <2>1
    <3>2. g[p] = base[p]
      <4> HIDE DEF base, step, goes, next
      <4> QED
        BY <1>7, <3>1 DEF Recursive
    <3> QED
      BY <2>1, <3>2
  <2>2. CASE p # 1
    <3>1. p \in goes /\ next[p] = p - 1 /\ p - 1 \in P
      BY <2>2
    <3>2. g[p] = step[p][g[next[p]]]
      <4> HIDE DEF base, step, goes, next
      <4> QED
        BY <1>7, <3>1 DEF Recursive
    <3>3. g[p - 1] \in Text
      BY <3>1
    <3> QED
      BY <2>2, <3>1, <3>2, <3>3
  <2> QED
    BY <2>1, <2>2
<1>9. g = [p \in P |-> g[p]]
  OBVIOUS
<1>10. g = [p \in P |-> IF p = 1 THEN slots[1] ELSE g[p - 1] \o Slots!Separator \o slots[p]]
  BY <1>8, <1>9
<1> QED
  BY <1>10 DEF Joins

LEMMA JoinIs ==
    ASSUME NEW slots \in Seq(Text), NEW n \in 1..Len(slots)
    PROVE  JoinOf(slots)[n] = IF n = 1 THEN slots[1]
                              ELSE JoinOf(slots)[n - 1] \o Slots!Separator \o slots[n]
<1> DEFINE G == JoinOf(slots)
<1>1. Joins(slots, G)
  BY JoinExists DEF JoinOf
<1> HIDE DEF G
<1>2. G[n] = IF n = 1 THEN slots[1] ELSE G[n - 1] \o Slots!Separator \o slots[n]
  BY <1>1 DEF Joins
<1> QED
  BY <1>2 DEF G

LEMMA JoinIsText ==
    ASSUME NEW slots \in Seq(Text)
    PROVE  \A n \in 1..Len(slots) : JoinOf(slots)[n] \in Text
<1> DEFINE N == Len(slots)
           T == {n \in 1..N : JoinOf(slots)[n] \notin Text}
<1> SUFFICES ASSUME T # {} PROVE FALSE
  OBVIOUS
<1>1. PICK n \in T : \A m \in T : n <= m
  <2>1. T \in SUBSET Nat
    OBVIOUS
  <2> HIDE DEF T
  <2> QED
    BY <2>1, LeastNat
<1>2. n \in 1..N /\ JoinOf(slots)[n] \notin Text
  BY <1>1
<1>3. slots[n] \in Text
  BY <1>2
<1>4. CASE n = 1
  BY <1>2, <1>3, <1>4, JoinIs
<1>5. CASE n # 1
  <2>1. n - 1 \in 1..N /\ ~(n <= n - 1)
    BY <1>2, <1>5
  <2>2. n - 1 \notin T
    <3> HIDE DEF T
    <3> QED
      BY <1>1, <2>1
  <2>3. JoinOf(slots)[n - 1] \in Text
    BY <2>1, <2>2
  <2>4. JoinOf(slots)[n] = JoinOf(slots)[n - 1] \o Slots!Separator \o slots[n]
    BY <1>2, <1>5, JoinIs
  <2> QED
    BY <1>2, <1>3, <2>3, <2>4, SeparatorIsText DEF Text
<1> QED
  BY <1>4, <1>5

LEMMA JoinedIs ==
    ASSUME NEW slots \in Seq(Text), slots # <<>>
    PROVE  Slots!Joined(slots) = JoinOf(slots)[Len(slots)] /\ Slots!Joined(slots) \in Text
<1>1. Slots!Joined(slots) = JoinOf(slots)[Len(slots)]
  BY DEF Slots!Joined, JoinOf, Joins
<1>2. Len(slots) \in 1..Len(slots)
  OBVIOUS
<1> QED
  BY <1>1, <1>2, JoinIsText

(* Where slot k begins in the joined text, less one.                        *)
Start(slots, k) == IF k = 1 THEN 0 ELSE Len(JoinOf(slots)[k - 1]) + 2

TwoParts(s, a, b) ==
    /\ Len(s) = Len(a) + Len(b)
    /\ \A i \in 1..Len(a) : s[i] = a[i]
    /\ \A i \in 1..Len(b) : s[Len(a) + i] = b[i]

ThreeParts(s, a, b, c) ==
    /\ Len(s) = Len(a) + Len(b) + Len(c)
    /\ \A i \in 1..Len(a) : s[i] = a[i]
    /\ \A i \in 1..Len(b) : s[Len(a) + i] = b[i]
    /\ \A i \in 1..Len(c) : s[Len(a) + Len(b) + i] = c[i]

LEMMA SumOfTwo ==
    ASSUME NEW S, NEW a \in Seq(S), NEW b \in Seq(S)
    PROVE  a \o b \in Seq(S) /\ TwoParts(a \o b, a, b)
  BY DEF TwoParts

LEMMA SumOfThree ==
    ASSUME NEW S, NEW a \in Seq(S), NEW b \in Seq(S), NEW c \in Seq(S)
    PROVE  ThreeParts(a \o b \o c, a, b, c)
<1> DEFINE ab == a \o b
<1>0. Len(a) \in Nat /\ Len(b) \in Nat
  OBVIOUS
<1>1. ab \in Seq(S) /\ TwoParts(ab, a, b)
  BY SumOfTwo, Zenon
<1> HIDE DEF ab
<1>2. TwoParts(ab \o c, ab, c)
  BY <1>1, SumOfTwo, Zenon
<1>3. \A i \in 1..Len(a) : i \in 1..Len(ab)
  BY <1>0, <1>1 DEF TwoParts
<1>4. \A i \in 1..Len(b) : Len(a) + i \in 1..Len(ab)
  BY <1>0, <1>1 DEF TwoParts
<1>5. /\ \A i \in 1..Len(a) : (ab \o c)[i] = a[i]
      /\ \A i \in 1..Len(b) : (ab \o c)[Len(a) + i] = b[i]
  BY <1>1, <1>2, <1>3, <1>4 DEF TwoParts
<1>6. /\ Len(ab \o c) = Len(a) + Len(b) + Len(c)
      /\ \A i \in 1..Len(c) : (ab \o c)[Len(a) + Len(b) + i] = c[i]
  BY <1>1, <1>2 DEF TwoParts
<1> QED
  BY <1>5, <1>6 DEF ab, ThreeParts

(* Joining one more slot: what came before is kept, then the separator, then*)
(* the slot.                                                               *)
LEMMA JoinStep ==
    ASSUME NEW slots \in Seq(Text), NEW k \in 1..Len(slots)
    PROVE  /\ Start(slots, k) \in Nat
           /\ Len(JoinOf(slots)[k]) = Start(slots, k) + Len(slots[k])
           /\ \A j \in 1..Len(slots[k]) : JoinOf(slots)[k][Start(slots, k) + j] = slots[k][j]
           /\ k # 1 => LET L == Len(JoinOf(slots)[k - 1])
                       IN  /\ \A i \in 1..L : JoinOf(slots)[k][i] = JoinOf(slots)[k - 1][i]
                           /\ JoinOf(slots)[k][L + 1] = "<" /\ JoinOf(slots)[k][L + 2] = "/c>"
<1>1. slots[k] \in Text
  OBVIOUS
<1>2. CASE k = 1
  <2>1. JoinOf(slots)[k] = slots[k]
    BY <1>2, JoinIs
  <2> QED
    BY <1>1, <1>2, <2>1 DEF Start, Text
<1>3. CASE k # 1
  <2> DEFINE a == JoinOf(slots)[k - 1]
             b == Slots!Separator
             c == slots[k]
  <2>1. k - 1 \in 1..Len(slots)
    BY <1>3
  <2>2. a \in Text /\ b \in Text /\ c \in Text /\ Len(b) = 2
    BY <1>1, <2>1, JoinIsText, SeparatorIsText
  <2>3. JoinOf(slots)[k] = a \o b \o c
    BY <1>3, JoinIs
  <2>4. b[1] = "<" /\ b[2] = "/c>"
    BY DEF Slots!Separator
  <2>5. Start(slots, k) = Len(a) + 2
    BY <1>3 DEF Start
  <2> HIDE DEF a, b, c
  <2>6. Len(a) \in Nat /\ Len(c) \in Nat
    BY <2>2 DEF Text
  <2>7. ThreeParts(a \o b \o c, a, b, c)
    <3>1. a \in Seq(Slots!Pieces) /\ b \in Seq(Slots!Pieces) /\ c \in Seq(Slots!Pieces)
      BY <2>2 DEF Text
    <3> QED
      BY <3>1, SumOfThree, Zenon
  <2>8. (a \o b \o c)[Len(a) + 1] = "<" /\ (a \o b \o c)[Len(a) + 2] = "/c>"
    BY <2>2, <2>4, <2>7 DEF ThreeParts
  <2>9. /\ Start(slots, k) \in Nat
        /\ Len(a \o b \o c) = Start(slots, k) + Len(c)
        /\ \A j \in 1..Len(c) : (a \o b \o c)[Start(slots, k) + j] = c[j]
    BY <2>2, <2>5, <2>6, <2>7, SMTT(30) DEF ThreeParts
  <2>10. /\ Start(slots, k) \in Nat
         /\ Len(JoinOf(slots)[k]) = Start(slots, k) + Len(c)
         /\ \A j \in 1..Len(c) : JoinOf(slots)[k][Start(slots, k) + j] = c[j]
         /\ \A i \in 1..Len(a) : JoinOf(slots)[k][i] = a[i]
         /\ JoinOf(slots)[k][Len(a) + 1] = "<" /\ JoinOf(slots)[k][Len(a) + 2] = "/c>"
    BY <2>3, <2>7, <2>8, <2>9 DEF ThreeParts
  <2> QED
    BY <2>10 DEF a, c
<1> QED
  BY <1>2, <1>3

(* What has been joined stays where it is.                                  *)
LEMMA JoinKept ==
    ASSUME NEW slots \in Seq(Text), slots # <<>>
    PROVE  \A k \in 1..Len(slots) :
               LET L == Len(JoinOf(slots)[k])
               IN  /\ L <= Len(Slots!Joined(slots))
                   /\ \A i \in 1..L : Slots!Joined(slots)[i] = JoinOf(slots)[k][i]
<1> DEFINE N == Len(slots)
           J(k) == JoinOf(slots)[k]
           Fine(k) == /\ Len(J(k)) <= Len(J(N))
                      /\ \A i \in 1..Len(J(k)) : J(N)[i] = J(k)[i]
           T == {k \in 1..N : ~Fine(k)}
<1>0. N \in Nat /\ N \in 1..N /\ \A k \in 1..N : J(k) \in Text /\ Len(J(k)) \in Nat
  <2>1. \A k \in 1..N : J(k) \in Text
    BY JoinIsText
  <2>2. ASSUME NEW s \in Text PROVE Len(s) \in Nat
    BY DEF Text
  <2>3. N \in Nat /\ N \in 1..N
    OBVIOUS
  <2> HIDE DEF J
  <2> QED
    BY <2>1, <2>2, <2>3
<1>1. T = {}
  <2> SUFFICES ASSUME T # {} PROVE FALSE
    OBVIOUS
  <2>1. PICK k \in T : \A m \in T : m <= k
    <3>1. T \in SUBSET (0..N)
      OBVIOUS
    <3> HIDE DEF T
    <3> QED
      BY <1>0, <3>1, GreatestNat
  <2>2. k \in 1..N /\ ~Fine(k)
    BY <2>1
  <2>3. k # N
    <3> HIDE DEF J
    <3> QED
      BY <1>0, <2>2
  <2>4. k + 1 \in 1..N /\ ~(k + 1 <= k) /\ k + 1 # 1 /\ (k + 1) - 1 = k
    BY <2>2, <2>3
  <2>5. k + 1 \notin T
    <3> HIDE DEF T
    <3> QED
      BY <2>1, <2>4
  <2>6. Fine(k + 1)
    <3> HIDE DEF Fine
    <3> QED
      BY <2>4, <2>5
  <2>7. /\ Len(J(k + 1)) = Len(J(k)) + 2 + Len(slots[k + 1])
        /\ \A i \in 1..Len(J(k)) : J(k + 1)[i] = J(k)[i]
    <3> DEFINE m == k + 1
    <3>1. Start(slots, m) = Len(J(k)) + 2
      BY <2>4 DEF Start
    <3>2. m \in 1..N /\ m # 1 /\ m - 1 = k
      BY <2>4
    <3> HIDE DEF m
    <3>3. /\ Len(J(m)) = Start(slots, m) + Len(slots[m])
          /\ \A i \in 1..Len(J(m - 1)) : J(m)[i] = J(m - 1)[i]
      BY <3>2, JoinStep
    <3>4. Len(J(m)) = Len(J(k)) + 2 + Len(slots[m])
      BY <3>1, <3>3
    <3>5. \A i \in 1..Len(J(k)) : J(m)[i] = J(k)[i]
      BY <3>2, <3>3
    <3> QED
      BY <3>4, <3>5 DEF m
  <2>8. Len(slots[k + 1]) \in Nat
    BY <2>4 DEF Text
  <2>9. Len(J(k)) \in Nat /\ Len(J(k + 1)) \in Nat /\ Len(J(N)) \in Nat
    <3> HIDE DEF J
    <3> QED
      BY <1>0, <2>2, <2>4
  <2>10. Fine(k)
    <3> DEFINE l == Len(J(k))
               l1 == Len(J(k + 1))
               ln == Len(J(N))
               added == Len(slots[k + 1])
    <3>1. l1 = l + 2 + added /\ l1 <= ln /\ added \in Nat /\ l \in Nat
      BY <2>6, <2>7, <2>8, <2>9
    <3>2. /\ \A i \in 1..l1 : J(N)[i] = J(k + 1)[i]
          /\ \A i \in 1..l : J(k + 1)[i] = J(k)[i]
      BY <2>6, <2>7
    <3>3. l \in Nat /\ l1 \in Nat /\ ln \in Nat
      BY <2>9
    <3> HIDE DEF l, l1, ln, added, J
    <3>4. l <= ln /\ \A i \in 1..l : i \in 1..l1
      BY <3>1, <3>3
    <3>5. \A i \in 1..l : J(N)[i] = J(k)[i]
      BY <3>2, <3>4
    <3> QED
      BY <3>4, <3>5 DEF l, ln
  <2> QED
    BY <2>2, <2>10
<1>2. \A k \in 1..N : Fine(k)
  <2> HIDE DEF Fine
  <2> QED
    BY <1>1
<1>3. Slots!Joined(slots) = J(N)
  BY JoinedIs
<1> QED
  BY <1>2, <1>3

(* Where the slots and the separators lie in the joined text.               *)
LEMMA JoinedParts ==
    ASSUME NEW slots \in Seq(Text), slots # <<>>, NEW k \in 1..Len(slots)
    PROVE  LET body == Slots!Joined(slots)
               end  == Start(slots, k) + Len(slots[k])
           IN  /\ Start(slots, k) \in Nat /\ end <= Len(body)
               /\ \A j \in 1..Len(slots[k]) : body[Start(slots, k) + j] = slots[k][j]
               /\ k = Len(slots) => end = Len(body)
               /\ k # Len(slots) => /\ Start(slots, k + 1) = end + 2 /\ end + 2 <= Len(body)
                                    /\ body[end + 1] = "<" /\ body[end + 2] = "/c>"
<1> DEFINE N == Len(slots)
           body == Slots!Joined(slots)
           end == Start(slots, k) + Len(slots[k])
           J(n) == JoinOf(slots)[n]
<1>1. /\ Start(slots, k) \in Nat
      /\ Len(J(k)) = end
      /\ \A j \in 1..Len(slots[k]) : J(k)[Start(slots, k) + j] = slots[k][j]
  BY JoinStep
<1>2. Len(J(k)) <= Len(body) /\ \A i \in 1..Len(J(k)) : body[i] = J(k)[i]
  BY JoinKept
<1>3. Len(slots[k]) \in Nat
  BY DEF Text
<1>4. body = J(N) /\ body \in Text
  BY JoinedIs
<1>5. Len(body) \in Nat
  BY <1>4 DEF Text
<1>6. ASSUME k # N
      PROVE  /\ Start(slots, k + 1) = end + 2 /\ end + 2 <= Len(body)
             /\ body[end + 1] = "<" /\ body[end + 2] = "/c>"
  <2>1. k + 1 \in 1..N /\ k + 1 # 1 /\ (k + 1) - 1 = k
    BY <1>6
  <2>2. Start(slots, k + 1) = Len(J(k)) + 2
    BY <2>1 DEF Start
  <2>3. /\ Len(J(k + 1)) = Start(slots, k + 1) + Len(slots[k + 1])
        /\ J(k + 1)[Len(J(k)) + 1] = "<" /\ J(k + 1)[Len(J(k)) + 2] = "/c>"
    BY <2>1, JoinStep
  <2>4. Len(J(k + 1)) <= Len(body) /\ \A i \in 1..Len(J(k + 1)) : body[i] = J(k + 1)[i]
    BY <2>1, JoinKept
  <2>5. Len(slots[k + 1]) \in Nat
    BY <2>1 DEF Text
  <2> HIDE DEF J, body, end
  <2>6. end \in Nat
    BY <1>1, <1>3 DEF end
  <2>7. end + 1 \in 1..Len(J(k + 1)) /\ end + 2 \in 1..Len(J(k + 1)) /\ end + 2 <= Len(body)
    <3> DEFINE l1 == Len(J(k + 1))
               added == Len(slots[k + 1])
               whole == Len(body)
    <3>1. l1 = end + 2 + added /\ l1 <= whole /\ added \in Nat /\ whole \in Nat
      BY <1>1, <1>5, <2>2, <2>3, <2>4, <2>5
    <3> HIDE DEF l1, added, whole
    <3>2. end + 1 \in 1..l1 /\ end + 2 \in 1..l1 /\ end + 2 <= whole
      BY <2>6, <3>1
    <3> QED
      BY <3>2 DEF l1, whole
  <2> QED
    BY <1>1, <2>2, <2>3, <2>4, <2>7
<1>7. \A j \in 1..Len(slots[k]) : body[Start(slots, k) + j] = slots[k][j]
  <2> HIDE DEF J, body
  <2> QED
    BY <1>1, <1>2, <1>3
<1> HIDE DEF body, J
<1> QED
  BY <1>1, <1>2, <1>4, <1>6, <1>7 DEF body

-----------------------------------------------------------------------------
(* The joined text, cut again: the state of the cut before and after a piece*)
CutState == [done : Seq(Text), last : Text]

CutsAt(state, piece) == state.last # <<>> /\ <<Slots!Last(state.last), piece>> = Slots!Separator

CutOne(state, piece) ==
    IF CutsAt(state, piece)
    THEN [done |-> Append(state.done, Slots!Front(state.last)), last |-> <<>>]
    ELSE [done |-> state.done, last |-> Append(state.last, piece)]

Uncut == [done |-> <<>>, last |-> <<>>]

Cuts(body, g) ==
    g = [n \in 0..Len(body) |-> IF n = 0 THEN Uncut ELSE CutOne(g[n - 1], body[n])]

CutOf(body) == CHOOSE g : Cuts(body, g)

LEMMA CutOneIsState ==
    ASSUME NEW state \in CutState, NEW piece \in Slots!Pieces
    PROVE  CutOne(state, piece) \in CutState
<1>1. state.done \in Seq(Text) /\ state.last \in Text
  BY DEF CutState
<1>2. Append(state.last, piece) \in Text /\ <<>> \in Text
  BY <1>1 DEF Text
<1>3. ASSUME state.last # <<>> PROVE Slots!Front(state.last) \in Text
  BY <1>1, <1>3 DEF Slots!Front, Text
<1>4. ASSUME state.last # <<>> PROVE Append(state.done, Slots!Front(state.last)) \in Seq(Text)
  <2> HIDE DEF Text
  <2> QED
    BY <1>1, <1>3, <1>4
<1> HIDE DEF Text
<1>5. CASE CutsAt(state, piece)
  BY <1>2, <1>4, <1>5 DEF CutOne, CutState, CutsAt
<1>6. CASE ~CutsAt(state, piece)
  BY <1>1, <1>2, <1>6 DEF CutOne, CutState
<1> QED
  BY <1>5, <1>6

LEMMA CutExists == ASSUME NEW body \in Text PROVE \E g : Cuts(body, g)
<1> DEFINE N == Len(body)
           P == 0..N
           goes == 1..N
           next == [p \in goes |-> p - 1]
           rank == [p \in P |-> p]
           base == [p \in P |-> Uncut]
           step == [p \in P |-> [v \in CutState |-> IF p = 0 THEN v ELSE CutOne(v, body[p])]]
<1>0. N \in Nat /\ \A p \in goes : body[p] \in Slots!Pieces
  BY DEF Text
<1>1. Uncut \in CutState
  <2>1. <<>> \in Text /\ <<>> \in Seq(Text)
    BY DEF Text
  <2> QED
    BY <2>1 DEF Uncut, CutState
<1>2. step \in [P -> [CutState -> CutState]]
  <2> SUFFICES ASSUME NEW p \in P, NEW v \in CutState
               PROVE  (IF p = 0 THEN v ELSE CutOne(v, body[p])) \in CutState
    OBVIOUS
  <2>1. CASE p = 0
    BY <2>1
  <2>2. CASE p # 0
    <3>1. p \in goes
      BY <1>0, <2>2
    <3>2. body[p] \in Slots!Pieces
      BY <1>0, <3>1
    <3> QED
      BY <2>2, <3>2, CutOneIsState
  <2> QED
    BY <2>1, <2>2
<1>3. base \in [P -> CutState]
  BY <1>1
<1>4. goes \in SUBSET P /\ next \in [goes -> P] /\ rank \in [P -> 0..N]
  BY <1>0
<1>5. \A p \in goes : rank[next[p]] < rank[p]
  BY <1>0
<1>6. PICK g \in [P -> CutState] : Recursive(g, P, base, step, goes, next)
  <2> HIDE DEF P, goes, next, rank, base, step, N
  <2> QED
    BY <1>0, <1>2, <1>3, <1>4, <1>5, RecursionExists, Zenon
<1>7. \A p \in P : g[p] = IF p = 0 THEN Uncut ELSE CutOne(g[p - 1], body[p])
  <2> SUFFICES ASSUME NEW p \in P
               PROVE  g[p] = IF p = 0 THEN Uncut ELSE CutOne(g[p - 1], body[p])
    OBVIOUS
  <2>1. CASE p = 0
    <3>1. p \notin goes
      BY <2>1
    <3>2. g[p] = base[p]
      <4> HIDE DEF base, step, goes, next
      <4> QED
        BY <1>6, <3>1 DEF Recursive
    <3> QED
      BY <2>1, <3>2
  <2>2. CASE p # 0
    <3>1. p \in goes /\ next[p] = p - 1 /\ p - 1 \in P
      BY <1>0, <2>2
    <3>2. g[p] = step[p][g[next[p]]]
      <4> HIDE DEF base, step, goes, next
      <4> QED
        BY <1>6, <3>1 DEF Recursive
    <3>3. g[p - 1] \in CutState
      BY <3>1
    <3> QED
      BY <2>2, <3>1, <3>2, <3>3
  <2> QED
    BY <2>1, <2>2
<1>8. g = [p \in P |-> g[p]]
  OBVIOUS
<1>9. g = [p \in P |-> IF p = 0 THEN Uncut ELSE CutOne(g[p - 1], body[p])]
  BY <1>7, <1>8
<1> QED
  BY <1>9 DEF Cuts

LEMMA CutIs ==
    ASSUME NEW body \in Text, NEW n \in 0..Len(body)
    PROVE  CutOf(body)[n] = IF n = 0 THEN Uncut ELSE CutOne(CutOf(body)[n - 1], body[n])
<1> DEFINE G == CutOf(body)
<1>1. Cuts(body, G)
  BY CutExists DEF CutOf
<1> HIDE DEF G
<1>2. G[n] = IF n = 0 THEN Uncut ELSE CutOne(G[n - 1], body[n])
  BY <1>1 DEF Cuts
<1> QED
  BY <1>2 DEF G

LEMMA TwoOf == ASSUME NEW S, NEW s \in Seq(S), Len(s) = 2 PROVE s = <<s[1], s[2]>>
<1>1. s[1] \in S /\ s[2] \in S
  <2>1. 1 \in 1..Len(s) /\ 2 \in 1..Len(s)
    OBVIOUS
  <2> QED
    BY <2>1, ElementsOf
<1>2. <<s[1], s[2]>> \in Seq(S) /\ Len(<<s[1], s[2]>>) = 2
  BY <1>1
<1>3. \A i \in 1..2 : s[i] = <<s[1], s[2]>>[i]
  OBVIOUS
<1> QED
  BY <1>2, <1>3

(* A valid slot holds no separator.                                         *)
LEMMA NoSeparatorInside ==
    ASSUME NEW s \in Text, ~Slots!Includes(s, Slots!Separator), NEW i \in 1..(Len(s) - 1)
    PROVE  <<s[i], s[i + 1]>> # Slots!Separator
<1> DEFINE tail == SubSeq(s, i, Len(s))
<1>1. Len(s) \in Nat /\ i \in 1..Len(s) /\ i + 1 \in 1..Len(s)
  BY DEF Text
<1>2. tail \in Seq(Slots!Pieces) /\ Len(tail) >= 2 /\ tail[1] = s[i] /\ tail[2] = s[i + 1]
  BY <1>1 DEF Text
<1>3. ~Slots!IsPrefix(Slots!Separator, tail)
  BY <1>1 DEF Slots!Includes
<1> HIDE DEF tail
<1>4. Slots!Separator \in Seq(Slots!Pieces) /\ Len(Slots!Separator) = 2
  BY SeparatorIsText DEF Text
<1>5. SubSeq(tail, 1, 2) = <<tail[1], tail[2]>>
  <2>1. /\ SubSeq(tail, 1, 2) \in Seq(Slots!Pieces) /\ Len(SubSeq(tail, 1, 2)) = 2
        /\ SubSeq(tail, 1, 2)[1] = tail[1] /\ SubSeq(tail, 1, 2)[2] = tail[2]
    BY <1>2
  <2> QED
    BY <2>1, TwoOf
<1>6. SubSeq(Slots!Separator, 1, 2) = Slots!Separator
  BY <1>4
<1>7. SubSeq(tail, 1, 2) # Slots!Separator
  BY <1>2, <1>3, <1>4, <1>6 DEF Slots!IsPrefix
<1> QED
  BY <1>2, <1>5, <1>7

(* Reading a slot piece by piece cuts nothing.                              *)
LEMMA CutReadsSlot ==
    ASSUME NEW body \in Text, NEW b \in Nat, NEW s \in Text, NEW d,
           ~Slots!Includes(s, Slots!Separator), b + Len(s) <= Len(body),
           \A j \in 1..Len(s) : body[b + j] = s[j],
           CutOf(body)[b] = [done |-> d, last |-> <<>>]
    PROVE  CutOf(body)[b + Len(s)] = [done |-> d, last |-> s]
<1> DEFINE n == Len(s)
           Fine(j) == CutOf(body)[b + j] = [done |-> d, last |-> SubSeq(s, 1, j)]
           T == {j \in 0..n : ~Fine(j)}
<1>0. n \in Nat /\ Len(body) \in Nat /\ SubSeq(s, 1, n) = s
  BY DEF Text
<1>1. T = {}
  <2> SUFFICES ASSUME T # {} PROVE FALSE
    OBVIOUS
  <2>1. PICK j \in T : \A m \in T : j <= m
    <3>1. T \in SUBSET Nat
      OBVIOUS
    <3> HIDE DEF T
    <3> QED
      BY <3>1, LeastNat
  <2>2. j \in 0..n /\ ~Fine(j)
    BY <2>1
  <2>3. j # 0
    <3>1. SubSeq(s, 1, 0) = <<>> /\ b + 0 = b
      BY DEF Text
    <3> QED
      BY <2>2, <3>1
  <2>4. j \in 1..n /\ j - 1 \in 0..n /\ ~(j <= j - 1)
    BY <1>0, <2>2, <2>3
  <2>5. Fine(j - 1)
    <3>1. j - 1 \notin T
      <4> HIDE DEF T
      <4> QED
        BY <2>1, <2>4
    <3> HIDE DEF Fine
    <3> QED
      BY <2>4, <3>1
  <2> DEFINE before == [done |-> d, last |-> SubSeq(s, 1, j - 1)]
  <2>6. CutOf(body)[b + j] = CutOne(before, s[j])
    <3> DEFINE p == b + j
    <3>1. p \in 0..Len(body) /\ p # 0 /\ p - 1 = b + (j - 1)
      BY <1>0, <2>4
    <3> HIDE DEF p
    <3>2. CutOf(body)[p] = CutOne(CutOf(body)[p - 1], body[p])
      BY <3>1, CutIs
    <3>3. body[p] = s[j]
      BY <2>4 DEF p
    <3>4. CutOf(body)[p - 1] = before
      BY <2>5, <3>1
    <3> QED
      BY <3>2, <3>3, <3>4 DEF p
  <2>7. ~CutsAt(before, s[j])
    <3>1. CASE j = 1
      <4>1. SubSeq(s, 1, j - 1) = <<>>
        BY <3>1 DEF Text
      <4> QED
        BY <4>1 DEF CutsAt
    <3>2. CASE j # 1
      <4>1. j - 1 \in 1..(n - 1) /\ (j - 1) + 1 = j
        BY <1>0, <2>4, <3>2
      <4>2. <<s[j - 1], s[j]>> # Slots!Separator
        <5> DEFINE i == j - 1
        <5>1. i \in 1..(n - 1) /\ i + 1 = j
          BY <4>1
        <5> HIDE DEF i
        <5>2. <<s[i], s[i + 1]>> # Slots!Separator
          BY <5>1, NoSeparatorInside
        <5> QED
          BY <5>1, <5>2 DEF i
      <4>3. Slots!Last(SubSeq(s, 1, j - 1)) = s[j - 1]
        BY <1>0, <4>1, SMTT(30) DEF Slots!Last, Text
      <4> QED
        BY <4>2, <4>3 DEF CutsAt
    <3> QED
      BY <3>1, <3>2
  <2>8. Append(SubSeq(s, 1, j - 1), s[j]) = SubSeq(s, 1, j)
    BY <1>0, <2>4 DEF Text
  <2>9. CutOne(before, s[j]) = [done |-> d, last |-> Append(SubSeq(s, 1, j - 1), s[j])]
    BY <2>7 DEF CutOne
  <2> QED
    BY <2>2, <2>6, <2>8, <2>9
<1>2. n \in 0..n
  BY <1>0
<1>3. Fine(n)
  <2> HIDE DEF Fine
  <2> QED
    BY <1>1, <1>2
<1> QED
  BY <1>0, <1>3

(* The separator after a slot completes it.                                 *)
LEMMA CutReadsSeparator ==
    ASSUME NEW body \in Text, NEW e \in Nat, NEW s \in Text, NEW d,
           e + 2 <= Len(body), body[e + 1] = "<", body[e + 2] = "/c>",
           CutOf(body)[e] = [done |-> d, last |-> s]
    PROVE  CutOf(body)[e + 2] = [done |-> Append(d, s), last |-> <<>>]
<1>1. Len(body) \in Nat /\ "<" \in Slots!Pieces /\ Slots!Separator = <<"<", "/c>">>
  <2>1. "<" \in Slots!Pieces
    BY Zenon DEF Slots!Pieces, Slots!Separator
  <2> QED
    BY <2>1 DEF Text, Slots!Separator
<1>2. CutOf(body)[e + 1] = [done |-> d, last |-> Append(s, "<")]
  <2> DEFINE p == e + 1
             before == [done |-> d, last |-> s]
  <2>1. p \in 0..Len(body) /\ p # 0 /\ p - 1 = e
    BY <1>1
  <2> HIDE DEF p
  <2>2. CutOf(body)[p] = CutOne(CutOf(body)[p - 1], body[p])
    BY <2>1, CutIs
  <2>3. body[p] = "<"
    BY DEF p
  <2>4. ~CutsAt(before, "<")
    BY <1>1 DEF CutsAt
  <2>5. CutOne(before, "<") = [done |-> d, last |-> Append(s, "<")]
    BY <2>4 DEF CutOne
  <2> QED
    BY <2>1, <2>2, <2>3, <2>5 DEF p
<1>3. /\ Append(s, "<") # <<>> /\ Slots!Last(Append(s, "<")) = "<"
      /\ Slots!Front(Append(s, "<")) = s
  <2>1. s \in Seq(Slots!Pieces)
    BY DEF Text
  <2> QED
    BY <1>1, <2>1 DEF Slots!Last, Slots!Front
<1> DEFINE q == e + 2
           between == [done |-> d, last |-> Append(s, "<")]
<1>4. q \in 0..Len(body) /\ q # 0 /\ q - 1 = e + 1
  BY <1>1
<1> HIDE DEF q
<1>5. CutOf(body)[q] = CutOne(CutOf(body)[q - 1], body[q])
  BY <1>4, CutIs
<1>6. body[q] = "/c>"
  BY DEF q
<1>7. CutsAt(between, "/c>")
  BY <1>1, <1>3 DEF CutsAt
<1>8. CutOne(between, "/c>") = [done |-> Append(d, s), last |-> <<>>]
  BY <1>3, <1>7 DEF CutOne
<1> QED
  BY <1>2, <1>4, <1>5, <1>6, <1>8 DEF q

LEMMA JoinedCutAgain ==
    ASSUME NEW slots \in Seq(Text), slots # <<>>,
           \A k \in 1..Len(slots) : ~Slots!Includes(slots[k], Slots!Separator)
    PROVE  LET body == Slots!Joined(slots)
           IN  Append(CutOf(body)[Len(body)].done, CutOf(body)[Len(body)].last) = slots
<1> DEFINE N == Len(slots)
           body == Slots!Joined(slots)
           Fine(k) == CutOf(body)[Start(slots, k)] = [done |-> SubSeq(slots, 1, k - 1), last |-> <<>>]
           T == {k \in 1..N : ~Fine(k)}
<1>0. N \in Nat /\ N \in 1..N /\ body \in Text
  BY JoinedIs
<1>1. ASSUME NEW k \in 1..N, Fine(k)
      PROVE  CutOf(body)[Start(slots, k) + Len(slots[k])]
                 = [done |-> SubSeq(slots, 1, k - 1), last |-> slots[k]]
  <2> DEFINE b == Start(slots, k)
             s == slots[k]
             d == SubSeq(slots, 1, k - 1)
  <2>1. /\ b \in Nat /\ b + Len(s) <= Len(body)
        /\ \A j \in 1..Len(s) : body[b + j] = s[j]
    BY JoinedParts
  <2>2. s \in Text /\ ~Slots!Includes(s, Slots!Separator)
    OBVIOUS
  <2>3. CutOf(body)[b] = [done |-> d, last |-> <<>>]
    BY <1>1
  <2> HIDE DEF body, Fine, b, s, d
  <2>4. CutOf(body)[b + Len(s)] = [done |-> d, last |-> s]
    BY <1>0, <2>1, <2>2, <2>3, CutReadsSlot, ZenonT(40)
  <2> QED
    BY <2>4 DEF b, s, d
<1>2. T = {}
  <2> SUFFICES ASSUME T # {} PROVE FALSE
    OBVIOUS
  <2>1. PICK k \in T : \A m \in T : k <= m
    <3>1. T \in SUBSET Nat
      OBVIOUS
    <3> HIDE DEF T
    <3> QED
      BY <3>1, LeastNat
  <2>2. k \in 1..N /\ ~Fine(k)
    BY <2>1
  <2>3. k # 1
    <3>1. Start(slots, 1) = 0 /\ SubSeq(slots, 1, 1 - 1) = <<>>
      BY DEF Start
    <3>2. CutOf(body)[0] = Uncut
      <4>1. 0 \in 0..Len(body)
        BY <1>0 DEF Text
      <4> HIDE DEF body
      <4> QED
        BY <1>0, <4>1, CutIs
    <3> QED
      BY <2>2, <3>1, <3>2 DEF Uncut
  <2> DEFINE m == k - 1
             end == Start(slots, m) + Len(slots[m])
  <2>4. m \in 1..N /\ m # N /\ m + 1 = k /\ ~(k <= m)
    BY <1>0, <2>2, <2>3
  <2>5. Fine(m)
    <3>1. m \notin T
      <4> HIDE DEF T, m
      <4> QED
        BY <2>1, <2>4
    <3> HIDE DEF Fine, m
    <3> QED
      BY <2>4, <3>1
  <2> HIDE DEF m
  <2>6. CutOf(body)[end] = [done |-> SubSeq(slots, 1, m - 1), last |-> slots[m]]
    BY <1>1, <2>4, <2>5
  <2>7. /\ Start(slots, m) \in Nat /\ Start(slots, m + 1) = end + 2 /\ end + 2 <= Len(body)
        /\ body[end + 1] = "<" /\ body[end + 2] = "/c>"
    BY <2>4, JoinedParts
  <2>8. slots[m] \in Text /\ end \in Nat
    <3>1. slots[m] \in Text
      BY <2>4
    <3>2. Len(slots[m]) \in Nat
      BY <3>1 DEF Text
    <3> QED
      BY <2>7, <3>1, <3>2, SMTT(30)
  <2> HIDE DEF end, body
  <2>9. CutOf(body)[end + 2] = [done |-> Append(SubSeq(slots, 1, m - 1), slots[m]), last |-> <<>>]
    BY <1>0, <2>6, <2>7, <2>8, CutReadsSeparator
  <2>10. Append(SubSeq(slots, 1, m - 1), slots[m]) = SubSeq(slots, 1, m)
    BY <2>4
  <2>11. m = k - 1
    BY <2>2, <2>4
  <2> QED
    BY <2>2, <2>4, <2>7, <2>9, <2>10, <2>11
<1>3. Fine(N)
  <2> HIDE DEF Fine
  <2> QED
    BY <1>0, <1>2
<1>4. CutOf(body)[Len(body)] = [done |-> SubSeq(slots, 1, N - 1), last |-> slots[N]]
  <2>1. Start(slots, N) + Len(slots[N]) = Len(body)
    BY <1>0, JoinedParts
  <2> HIDE DEF body
  <2> QED
    BY <1>0, <1>1, <1>3, <2>1
<1>5. Append(SubSeq(slots, 1, N - 1), slots[N]) = slots
  BY <1>0
<1> HIDE DEF body
<1> QED
  BY <1>4, <1>5 DEF body

-----------------------------------------------------------------------------
(* The compiled prompt: its prefix, its body and its period.                *)
SlotTasks == Slots!Tasks \ {"scene_text"}

(* The words of each prefix that tell it from the others.                   *)
LEMMA Prefixes ==
    /\ Slots!Prefix("detection")
           = <<"Locate all the instances that ", "match", "es the following description: ">>
    /\ Slots!Prefix("phrase_multi")
           = <<"Locate all the instances that ", "match", " the following description: ">>
    /\ Slots!Prefix("phrase_single")
           = <<"Locate a single instance that ", "match", "es the following description: ">>
    /\ Slots!Prefix("gui_box")
           = <<"Locate the region that ", "match", "es the following description: ">>
    /\ Slots!Prefix("text_grounding") = <<"Please locate the text referred as ">>
    /\ Slots!Prefix("point") = <<"Point to: ">>
  BY DEF Slots!Prefix

LEMMA TheSlotTasks ==
    SlotTasks = {"detection", "phrase_multi", "phrase_single", "gui_box", "text_grounding", "point"}
  BY DEF SlotTasks, Slots!Tasks, Slots!PhraseTasks

(* A text of three words, or of one.                                        *)
Spelled(p, first, third) ==
    Len(p) = 3 /\ p[1] = first /\ p[3] = third /\ p \in Seq({p[i] : i \in 1..Len(p)})

SpelledShort(p, first) == Len(p) = 1 /\ p[1] = first /\ p \in Seq({p[i] : i \in 1..Len(p)})

LEMMA ThreeWords == ASSUME NEW a, NEW b, NEW c PROVE Spelled(<<a, b, c>>, a, c)
<1> DEFINE p == <<a, b, c>>
<1>1. Len(p) = 3 /\ p[1] = a /\ p[2] = b /\ p[3] = c
  OBVIOUS
<1>2. {a, b, c} \subseteq {p[i] : i \in 1..Len(p)}
  BY <1>1
<1>3. p \in Seq({p[i] : i \in 1..Len(p)})
  BY <1>2
<1> QED
  BY <1>1, <1>3 DEF Spelled

LEMMA OneWord == ASSUME NEW a PROVE SpelledShort(<<a>>, a)
<1> DEFINE p == <<a>>
<1>1. Len(p) = 1 /\ p[1] = a
  OBVIOUS
<1>2. {a} \subseteq {p[i] : i \in 1..Len(p)}
  BY <1>1
<1>3. p \in Seq({p[i] : i \in 1..Len(p)})
  BY <1>2
<1> QED
  BY <1>1, <1>3 DEF SpelledShort

LEMMA Spellings ==
    /\ Spelled(Slots!Prefix("detection"), "Locate all the instances that ", "es the following description: ")
    /\ Spelled(Slots!Prefix("phrase_multi"), "Locate all the instances that ", " the following description: ")
    /\ Spelled(Slots!Prefix("phrase_single"), "Locate a single instance that ", "es the following description: ")
    /\ Spelled(Slots!Prefix("gui_box"), "Locate the region that ", "es the following description: ")
    /\ SpelledShort(Slots!Prefix("text_grounding"), "Please locate the text referred as ")
    /\ SpelledShort(Slots!Prefix("point"), "Point to: ")
  BY Prefixes, ThreeWords, OneWord, Zenon

LEMMA FirstWords ==
    /\ \A t \in SlotTasks : 1 \in 1..Len(Slots!Prefix(t))
    /\ \A t, u \in SlotTasks : Slots!Prefix(t)[1] = Slots!Prefix(u)[1] =>
           t = u \/ (t \in {"detection", "phrase_multi"} /\ u \in {"detection", "phrase_multi"})
    /\ \A t \in SlotTasks : Slots!Prefix(t)[1] # Slots!SceneTextExact[1]
<1>1. /\ Slots!Prefix("detection")[1] = "Locate all the instances that "
      /\ Slots!Prefix("phrase_multi")[1] = "Locate all the instances that "
      /\ Slots!Prefix("phrase_single")[1] = "Locate a single instance that "
      /\ Slots!Prefix("gui_box")[1] = "Locate the region that "
      /\ Slots!Prefix("text_grounding")[1] = "Please locate the text referred as "
      /\ Slots!Prefix("point")[1] = "Point to: "
  BY Spellings DEF Spelled, SpelledShort
<1>2. \A t \in SlotTasks : Len(Slots!Prefix(t)) \in {1, 3}
  BY Spellings, TheSlotTasks DEF Spelled, SpelledShort
<1>3. \A t \in SlotTasks : 1 \in 1..Len(Slots!Prefix(t))
  BY <1>2
<1>4. Slots!SceneTextExact[1] = "Detect all the text in box format."
  BY DEF Slots!SceneTextExact
<1>5. \A t \in SlotTasks : Slots!Prefix(t)[1] # Slots!SceneTextExact[1]
  BY <1>1, <1>4, TheSlotTasks
<1>6. \A t, u \in SlotTasks : Slots!Prefix(t)[1] = Slots!Prefix(u)[1] =>
           t = u \/ (t \in {"detection", "phrase_multi"} /\ u \in {"detection", "phrase_multi"})
  BY <1>1, TheSlotTasks
<1> QED
  BY <1>3, <1>5, <1>6

LEMMA ThirdWords ==
    /\ 3 \in 1..Len(Slots!Prefix("detection")) /\ 3 \in 1..Len(Slots!Prefix("phrase_multi"))
    /\ Slots!Prefix("detection")[3] # Slots!Prefix("phrase_multi")[3]
<1>1. Len(Slots!Prefix("detection")) = 3 /\ Len(Slots!Prefix("phrase_multi")) = 3
  BY Spellings DEF Spelled
<1>2. /\ Slots!Prefix("detection")[3] = "es the following description: "
      /\ Slots!Prefix("phrase_multi")[3] = " the following description: "
  BY Spellings DEF Spelled
<1>3. 3 \in 1..3
  OBVIOUS
<1> QED
  BY <1>1, <1>2, <1>3

Words(t) == {Slots!Prefix(t)[i] : i \in 1..Len(Slots!Prefix(t))}

Signs == Slots!Pieces \cup UNION {Words(t) : t \in SlotTasks}

LEMMA PrefixIsText == ASSUME NEW t \in SlotTasks PROVE Slots!Prefix(t) \in Seq(Signs)
<1> DEFINE p == Slots!Prefix(t)
<1>1. p \in Seq(Words(t))
  BY Spellings, TheSlotTasks, ZenonT(40) DEF Spelled, SpelledShort, Words
<1>2. Words(t) \subseteq Signs
  BY DEF Signs
<1> HIDE DEF p
<1>3. Len(p) \in Nat /\ p \in [1..Len(p) -> Words(t)]
  BY <1>1
<1>4. p \in [1..Len(p) -> Signs]
  BY <1>2, <1>3
<1>5. p \in Seq(Signs)
  BY <1>3, <1>4, FunctionIsSequence
<1> QED
  BY <1>5 DEF p

(* A compiled prompt, taken apart.                                          *)
Body(t, slots) == IF t = "detection" THEN Slots!Joined(slots) ELSE slots[1]

LEMMA LastOfTail ==
    ASSUME NEW S, NEW p \in Seq(S), NEW l \in 1..Len(p)
    PROVE  SubSeq(p, l, Len(p)) = Append(SubSeq(p, l, Len(p) - 1), p[Len(p)])
  OBVIOUS

LEMMA PromptParts ==
    ASSUME NEW t \in SlotTasks, NEW slots, Body(t, slots) \in Text
    PROVE  LET p == Slots!Render(t, slots)
               n == Len(Slots!Prefix(t))
           IN  /\ n \in Nat /\ Len(p) = n + Len(Body(t, slots)) + 1
               /\ \A i \in 1..n : p[i] = Slots!Prefix(t)[i]
               /\ SubSeq(p, n + 1, Len(p) - 1) = Body(t, slots)
               /\ SubSeq(p, n + 1, Len(p)) = Append(Body(t, slots), Slots!Period)
<1> DEFINE a == Slots!Prefix(t)
           b == Body(t, slots)
           c == <<Slots!Period>>
           p == Slots!Render(t, slots)
<1>1. p = a \o b \o c
  BY DEF Slots!Render, Body
<1>2. a \in Seq(Signs) /\ b \in Seq(Signs) /\ c \in Seq(Signs) /\ Slots!Period \in Signs
  <2>1. a \in Seq(Signs)
    BY PrefixIsText
  <2>2. Slots!Pieces \subseteq Signs
    BY DEF Signs
  <2>3. b \in Seq(Signs)
    <3>1. b \in Seq(Slots!Pieces)
      BY DEF Text
    <3>2. Len(b) \in Nat /\ b \in [1..Len(b) -> Slots!Pieces]
      BY <3>1
    <3> HIDE DEF b
    <3>3. b \in [1..Len(b) -> Signs]
      BY <2>2, <3>2
    <3> QED
      BY <3>2, <3>3, FunctionIsSequence
  <2>4. Slots!Period \in Slots!Pieces
    BY Zenon DEF Slots!Pieces
  <2>5. Slots!Period \in Signs
    BY <2>2, <2>4
  <2>6. c \in Seq(Signs)
    BY <2>5
  <2> QED
    BY <2>1, <2>3, <2>5, <2>6
<1>3. Len(c) = 1 /\ c[1] = Slots!Period
  OBVIOUS
<1> HIDE DEF a, b, c, p
<1>4. Len(a) \in Nat /\ Len(b) \in Nat /\ p \in Seq(Signs)
  BY <1>1, <1>2
<1>5. ThreeParts(p, a, b, c)
  BY <1>1, <1>2, SumOfThree, Zenon
<1>6. Len(p) = Len(a) + Len(b) + 1 /\ p[Len(a) + Len(b) + 1] = Slots!Period
  BY <1>3, <1>5 DEF ThreeParts
<1>7. SubSeq(p, Len(a) + 1, Len(p) - 1) = b
  <2> DEFINE m == SubSeq(p, Len(a) + 1, Len(a) + Len(b))
  <2>1. m \in Seq(Signs) /\ Len(m) = Len(b) /\ \A i \in 1..Len(b) : m[i] = p[Len(a) + i]
    BY <1>4, <1>6
  <2> HIDE DEF m
  <2>2. \A i \in 1..Len(b) : m[i] = b[i]
    BY <1>5, <2>1 DEF ThreeParts
  <2>3. m = b
    BY <1>2, <2>1, <2>2
  <2> QED
    BY <1>4, <1>6, <2>3 DEF m
<1>8. SubSeq(p, Len(a) + 1, Len(p)) = Append(b, Slots!Period)
  <2> DEFINE l == Len(a) + 1
  <2>0. l \in 1..Len(p)
    BY <1>4, <1>6
  <2> HIDE DEF l
  <2>1. SubSeq(p, l, Len(p)) = Append(SubSeq(p, l, Len(p) - 1), p[Len(p)])
    BY <1>4, <2>0, LastOfTail
  <2> QED
    BY <1>6, <1>7, <2>1 DEF l
<1>9. \A i \in 1..Len(a) : p[i] = a[i]
  BY <1>5 DEF ThreeParts
<1> QED
  BY <1>4, <1>6, <1>7, <1>8, <1>9 DEF a, b, p

-----------------------------------------------------------------------------
(* What prompts.py and point_phrase make of an accepted request's prompt.   *)
LEMMA ValidSlots ==
    ASSUME NEW r, Slots!Requested(r), Slots!ValidRequest(r)
    PROVE  /\ r.slots \in Seq(Text)
           /\ \A i \in 1..Len(r.slots) :
                  /\ r.slots[i] \in Text /\ r.slots[i] # <<>> /\ Slots!Trimmed(r.slots[i])
                  /\ ~Slots!Includes(r.slots[i], Slots!Separator)
           /\ r.task = "scene_text" \/ (r.task \in SlotTasks /\ r.slots # <<>>)
           /\ r.task \in SlotTasks => Body(r.task, r.slots) = Slots!Joined(r.slots)
<1>1. r.slots \in Seq(Text) /\ r.task \in Slots!Tasks
  BY SlotsOfRequest
<1>2. \A i \in 1..Len(r.slots) :
          /\ r.slots[i] \in Text /\ r.slots[i] # <<>> /\ Slots!Trimmed(r.slots[i])
          /\ ~Slots!Includes(r.slots[i], Slots!Separator)
  BY <1>1, ElementsOf DEF Slots!ValidRequest, Slots!ValidSlot
<1>3. CASE r.task = "scene_text"
  BY <1>1, <1>2, <1>3 DEF SlotTasks
<1>4. CASE r.task = "detection"
  <2>1. r.slots # <<>>
    <3>1. Len(r.slots) # 0
      BY <1>1, <1>4 DEF Slots!ValidRequest
    <3> QED
      BY <3>1
  <2> QED
    BY <1>1, <1>2, <1>4, <2>1 DEF SlotTasks, Body
<1>5. CASE r.task \in Slots!PhraseTasks
  <2>1. PICK s \in Text : r.slots = <<s>>
    BY <1>5, SlotsOfRequest
  <2>2. Len(r.slots) = 1 /\ r.slots # <<>> /\ 1 \in 1..Len(r.slots)
    BY <2>1
  <2>3. Slots!Joined(r.slots) = r.slots[1]
    <3>1. Slots!Joined(r.slots) = JoinOf(r.slots)[1]
      BY <1>1, <2>2, JoinedIs
    <3> QED
      BY <1>1, <2>2, <3>1, JoinIs
  <2>4. r.task # "detection" /\ r.task # "scene_text"
    BY <1>5 DEF Slots!PhraseTasks
  <2> QED
    BY <1>1, <1>2, <2>2, <2>3, <2>4 DEF SlotTasks, Body
<1> QED
  BY <1>1, <1>3, <1>4, <1>5 DEF Slots!Tasks

LEMMA AcceptedParts ==
    ASSUME NEW r, Slots!Requested(r), Slots!ValidRequest(r), r.task \in SlotTasks
    PROVE  LET p == Slots!Compiled(r)
               n == Len(Slots!Prefix(r.task))
               body == Slots!Joined(r.slots)
           IN  /\ p = Slots!Render(r.task, r.slots) /\ body \in Text
               /\ n \in Nat /\ Len(p) = n + Len(body) + 1
               /\ \A i \in 1..n : p[i] = Slots!Prefix(r.task)[i]
               /\ SubSeq(p, n + 1, Len(p) - 1) = body
               /\ SubSeq(p, n + 1, Len(p)) = Append(body, Slots!Period)
<1>1. r.task # "scene_text"
  BY DEF SlotTasks
<1>2. Slots!Compiled(r) = Slots!Render(r.task, r.slots)
  BY <1>1 DEF Slots!Compiled
<1>3. Slots!Joined(r.slots) \in Text /\ Body(r.task, r.slots) = Slots!Joined(r.slots)
  BY <1>1, ValidSlots, JoinedIs
<1> QED
  BY <1>2, <1>3, PromptParts

LEMMA SlotsRecovered ==
    ASSUME NEW r, Slots!Requested(r), Slots!ValidRequest(r)
    PROVE  Slots!SlotsOf(Slots!Compiled(r), r.task) = r.slots
<1>1. CASE r.task = "scene_text"
  <2>1. r.slots = <<>>
    BY <1>1, SlotsOfRequest
  <2> QED
    BY <1>1, <2>1 DEF Slots!SlotsOf
<1>2. CASE r.task # "scene_text"
  <2> DEFINE p == Slots!Compiled(r)
             cutOut == SubSeq(p, Len(Slots!Prefix(r.task)) + 1, Len(p) - 1)
             body == Slots!Joined(r.slots)
  <2>1. r.task \in SlotTasks /\ r.slots # <<>> /\ r.slots \in Seq(Text)
    BY <1>2, ValidSlots
  <2>2. cutOut = body
    BY <2>1, AcceptedParts
  <2>3. Slots!SlotsOf(p, r.task) = Append(CutOf(cutOut)[Len(cutOut)].done, CutOf(cutOut)[Len(cutOut)].last)
    BY <1>2 DEF Slots!SlotsOf, CutOf, Cuts, CutOne, CutsAt, Uncut
  <2>4. Append(CutOf(body)[Len(body)].done, CutOf(body)[Len(body)].last) = r.slots
    <3>1. \A k \in 1..Len(r.slots) : ~Slots!Includes(r.slots[k], Slots!Separator)
      BY ValidSlots
    <3> QED
      BY <2>1, <3>1, JoinedCutAgain
  <2> HIDE DEF p, cutOut, body
  <2>5. Slots!SlotsOf(p, r.task) = r.slots
    BY <2>2, <2>3, <2>4
  <2> QED
    BY <2>5 DEF p
<1> QED
  BY <1>1, <1>2

LEMMA PhraseRecovered ==
    ASSUME NEW r, Slots!Requested(r), Slots!ValidRequest(r), r.task = "point"
    PROVE  Slots!PointPhrase(Slots!Compiled(r)) = r.slots[1]
<1> DEFINE p == Slots!Compiled(r)
           rest == SubSeq(p, Len(Slots!Prefix("point")) + 1, Len(p))
           body == r.slots[1]
<1>1. r.task \in SlotTasks
  BY DEF SlotTasks, Slots!Tasks, Slots!PhraseTasks
<1>2. Slots!Joined(r.slots) = r.slots[1] /\ body \in Text
  <2>1. Body(r.task, r.slots) = r.slots[1]
    BY DEF Body
  <2> QED
    BY <1>1, <2>1, ValidSlots, AcceptedParts
<1>3. rest = Append(body, Slots!Period)
  BY <1>1, <1>2, AcceptedParts
<1>4. body \in Seq(Slots!Pieces) /\ Slots!Period \in Slots!Pieces
  <2>1. Slots!Period \in Slots!Pieces
    BY Zenon DEF Slots!Pieces
  <2> QED
    BY <1>2, <2>1 DEF Text
<1>5. Slots!PointPhrase(p) = IF rest # <<>> /\ Slots!Last(rest) = Slots!Period
                             THEN Slots!Front(rest) ELSE rest
  BY DEF Slots!PointPhrase
<1> HIDE DEF p, rest, body
<1>6. rest # <<>> /\ Slots!Last(rest) = Slots!Period /\ Slots!Front(rest) = body
  <2> DEFINE last == Slots!Period
             S == Slots!Pieces
  <2>1. body \in Seq(S) /\ last \in S /\ rest = Append(body, last)
    BY <1>3, <1>4
  <2> HIDE DEF last, S
  <2>2. rest # <<>> /\ rest[Len(rest)] = last /\ SubSeq(rest, 1, Len(rest) - 1) = body
    BY <2>1
  <2> QED
    BY <2>2 DEF last, Slots!Last, Slots!Front
<1> QED
  BY <1>5, <1>6 DEF p, body

LEMMA BuildersBuild ==
    ASSUME NEW r, Slots!Requested(r), Slots!ValidRequest(r)
    PROVE  Slots!PythonBuilds(r.task, r.slots, Slots!Compiled(r))
<1>1. CASE r.task = "scene_text"
  BY <1>1 DEF Slots!PythonBuilds, Slots!Compiled
<1>2. CASE r.task # "scene_text"
  <2>1. r.slots # <<>> /\ r.slots \in Seq(Text)
    BY <1>2, ValidSlots
  <2>2. Stripped(r.slots)
    BY ValidSlots, StripIsIdentity DEF Stripped
  <2>3. Slots!Cleaned(r.slots) = r.slots
    BY <2>1, <2>2, CleanedIsIdentity
  <2> QED
    BY <1>2, <2>1, <2>3 DEF Slots!PythonBuilds, Slots!Compiled
<1> QED
  BY <1>1, <1>2

(* What a prefix of a text shares with it.                                  *)
LEMMA PrefixAgrees ==
    ASSUME NEW S, NEW s \in Seq(S), NEW p, Slots!IsPrefix(s, p),
           Len(p) \in Nat, NEW i \in 1..Len(s)
    PROVE  p[i] = s[i]
<1>1. Len(s) \in Nat /\ Len(s) <= Len(p) /\ SubSeq(s, 1, Len(s)) = SubSeq(p, 1, Len(s))
  BY DEF Slots!IsPrefix
<1>2. SubSeq(s, 1, Len(s))[i] = s[i]
  BY <1>1
<1>3. SubSeq(p, 1, Len(s))[i] = p[i]
  BY <1>1
<1> QED
  BY <1>1, <1>2, <1>3

LEMMA ClassifiedRight ==
    ASSUME NEW r, Slots!Requested(r), Slots!ValidRequest(r)
    PROVE  Slots!ClassifyPrompt(Slots!Compiled(r)) = r.task
<1>1. CASE r.task = "scene_text"
  BY <1>1 DEF Slots!ClassifyPrompt, Slots!Compiled
<1>2. CASE r.task # "scene_text"
  <2> DEFINE p == Slots!Compiled(r)
             t == r.task
             n == Len(Slots!Prefix(t))
  <2>1. t \in SlotTasks
    BY <1>2, ValidSlots
  <2>2. /\ n \in Nat /\ Len(p) \in Nat /\ n <= Len(p)
        /\ \A i \in 1..n : p[i] = Slots!Prefix(t)[i]
    <3>1. /\ n \in Nat /\ Len(p) = n + Len(Slots!Joined(r.slots)) + 1
          /\ \A i \in 1..n : p[i] = Slots!Prefix(t)[i]
          /\ Slots!Joined(r.slots) \in Text
      BY <2>1, AcceptedParts
    <3>2. Len(Slots!Joined(r.slots)) \in Nat
      BY <3>1 DEF Text
    <3> HIDE DEF p, n, t
    <3> QED
      BY <3>1, <3>2
  <2>3. \A u \in SlotTasks : 1 \in 1..Len(Slots!Prefix(u)) /\ Slots!Prefix(u) \in Seq(Signs)
    BY FirstWords, PrefixIsText
  <2> HIDE DEF p, t
  <2>4. p[1] = Slots!Prefix(t)[1]
    BY <2>1, <2>2, <2>3
  <2>5. p # Slots!SceneTextExact
    BY <2>1, <2>4, FirstWords
  <2>6. Slots!IsPrefix(Slots!Prefix(t), p)
    <3>1. Slots!Prefix(t) \in Seq(Signs)
      BY <2>1, <2>3
    <3> DEFINE s == Slots!Prefix(t)
    <3>2. SubSeq(s, 1, Len(s)) = SubSeq(p, 1, Len(s))
      BY <2>2, <3>1
    <3> QED
      BY <2>2, <3>2 DEF Slots!IsPrefix
  <2>7. ASSUME NEW u \in SlotTasks, Slots!IsPrefix(Slots!Prefix(u), p) PROVE u = t
    <3>1. \A i \in 1..Len(Slots!Prefix(u)) : p[i] = Slots!Prefix(u)[i]
      BY <2>2, <2>3, <2>7, PrefixAgrees
    <3>2. Slots!Prefix(u)[1] = Slots!Prefix(t)[1]
      BY <2>3, <2>4, <3>1
    <3>3. u = t \/ (u \in {"detection", "phrase_multi"} /\ t \in {"detection", "phrase_multi"})
      BY <2>1, <3>2, FirstWords
    <3>4. CASE u \in {"detection", "phrase_multi"} /\ t \in {"detection", "phrase_multi"}
      <4>1. 3 \in 1..Len(Slots!Prefix(u)) /\ 3 \in 1..n
        BY <3>4, ThirdWords DEF n
      <4>2. Slots!Prefix(u)[3] = Slots!Prefix(t)[3]
        BY <2>2, <3>1, <4>1
      <4> QED
        BY <3>4, <4>2, ThirdWords
    <3> QED
      BY <3>3, <3>4
  <2>8. (CHOOSE u \in SlotTasks : Slots!IsPrefix(Slots!Prefix(u), p)) = t
    BY <2>1, <2>6, <2>7
  <2>9. Slots!ClassifyPrompt(p) = t
    BY <2>5, <2>8 DEF Slots!ClassifyPrompt, SlotTasks
  <2> QED
    BY <2>9 DEF p, t
<1> QED
  BY <1>1, <1>2

(* What an accepted frame carries: the prompt of a valid request, and, once *)
(* it has been forwarded, the phrase taken from that prompt.               *)
SlotInv ==
    /\ Slots!Requested(request)
    /\ stage = "received" => header = NoHeader
    /\ verdict = "accepted" =>
           /\ Slots!ValidRequest(request)
           /\ prompt = Slots!Compiled(request) /\ task = request.task
           /\ header # NoHeader /\ task = "point" => header.phrase = request.slots[1]

LEMMA SlotsKept == ASSUME PromptInv, SlotInv, [PathNext]_pathVars PROVE SlotInv'
<1>1. CASE CompileRequest
  <2>1. UNCHANGED <<request, header>> /\ header = NoHeader /\ stage' # "received"
    BY <1>1 DEF CompileRequest, Slots!Accept, Slots!Reject, Say, SlotInv
  <2>2. CASE Slots!Accept
    BY <2>1, <2>2 DEF Slots!Accept, SlotInv
  <2>3. CASE Slots!Reject
    BY <2>1, <2>3 DEF Slots!Reject, SlotInv
  <2> QED
    BY <1>1, <2>2, <2>3 DEF CompileRequest
<1>2. CASE CheckPayload \/ MeasureImage \/ MeasuringPanics \/ GateAtEdge
  <2>1. UNCHANGED <<slotVars, header>> /\ stage' # "received"
    BY <1>2, FrontendKeeps DEF Validated
  <2> QED
    BY <2>1 DEF SlotInv, slotVars
<1>3. CASE Forward
  <2>1. UNCHANGED slotVars /\ stage = "pending" /\ stage' = "read"
    BY <1>3 DEF Forward
  <2>2. task = "point" => Slots!IsPrefix(Slots!Prefix("point"), prompt)
    BY <2>1 DEF PromptInv, Validated
  <2>3. task = "point" => header'.phrase = Slots!PointPhrase(prompt)
    BY <1>3, <2>2 DEF Forward, UsualHeader, WireTask
  <2>4. ASSUME verdict = "accepted", task = "point" PROVE header'.phrase = request.slots[1]
    BY <2>3, <2>4, PhraseRecovered DEF SlotInv
  <2> QED
    BY <2>1, <2>4 DEF SlotInv, slotVars
<1>4. CASE WorkerStep \/ GiveUp \/ StopGenerating \/ \E symbol \in UNION Vocabularies : Generate(symbol)
  <2>1. UNCHANGED <<slotVars, header>> /\ stage' # "received"
    BY <1>4, WorkerKeeps DEF AtWorker
  <2> QED
    BY <2>1 DEF SlotInv, slotVars
<1>5. CASE UNCHANGED pathVars
  BY <1>5 DEF SlotInv, pathVars, slotVars, inferVars
<1> QED
  BY <1>1, <1>2, <1>3, <1>4, <1>5 DEF PathNext

THEOREM SlotsAlways == PathSpec => []SlotInv
<1>1. PathInit => SlotInv
  <2> SUFFICES ASSUME PathInit PROVE SlotInv
    OBVIOUS
  <2>1. Slots!Requested(request)
    BY UsualAssumption DEF PathInit, FrontendInit, BypassInit
  <2>2. verdict # "accepted" /\ (stage = "received" => header = NoHeader)
    BY DEF PathInit, FrontendInit, BypassInit
  <2> QED
    BY <2>1, <2>2 DEF SlotInv
<1>2. PathInv /\ SlotInv /\ [PathNext]_pathVars => SlotInv'
  BY SlotsKept DEF PathInv
<1> QED
  BY <1>1, <1>2, Invariance, PTL DEF PathSpec

(* Cutting the compiled prompt gives back the client's slots, as many as    *)
(* there were, and a point's phrase is the client's own: no text that the  *)
(* validator lets pass can make two slots of one or one of two.            *)
THEOREM RequestAlwaysRecoverable == PathSpec => []RequestRecoverable
<1>1. SlotInv => RequestRecoverable
  BY SlotsRecovered DEF SlotInv, RequestRecoverable
<1> QED
  BY <1>1, SlotsAlways, PTL

(* Whatever the Rust compiler accepts, the Python builders would build the  *)
(* same prompt for.                                                        *)
THEOREM BuildersAlwaysAgree == PathSpec => []BuildersAgree
<1>1. SlotInv => BuildersAgree
  BY BuildersBuild DEF SlotInv, BuildersAgree, Slots!BuildersAgree, Slots!Accepted
<1> QED
  BY <1>1, SlotsAlways, PTL

(* The worker's classifier recognises the task in every accepted prompt.    *)
THEOREM AlwaysClassifiedAsSent == PathSpec => []ClassifiedAsSent
<1>1. SlotInv => ClassifiedAsSent
  BY ClassifiedRight DEF SlotInv, ClassifiedAsSent, Slots!ClassifiedAsSent, Slots!Accepted
<1> QED
  BY <1>1, SlotsAlways, PTL

=============================================================================
