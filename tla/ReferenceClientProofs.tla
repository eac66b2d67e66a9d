------------------------ MODULE ReferenceClientProofs ------------------------
(***************************************************************************)
(* The reference client for any number of runs, any queue and any limit of *)
(* failures: the types; that a sender which returns has left nothing       *)
(* behind; that the client gives up exactly when its last runs failed; and *)
(* that its pauses do not get shorter before.                              *)
(***************************************************************************)
EXTENDS ReferenceClient, TLAPS, FiniteSetTheorems

(* Nothing of a later run exists. *)
Fresh ==
    \A r \in Runs : r > run => /\ conn[r] = "none" /\ queue[r] = <<>> /\ thread[r] = "none"
                               /\ sender[r] = "none" /\ receiver[r] = "none"

(* The sentinel is the last thing a capture thread queues, and the last    *)
(* thing its sender takes.                                                 *)
SentinelIsLast ==
    \A r \in Runs : \A i \in 1..Len(queue[r]) :
        queue[r][i] = "none" => i = Len(queue[r]) /\ thread[r] = "done"

NothingAfterSentinel ==
    \A r \in Runs : sender[r] \in {"got_none", "returned"} =>
        thread[r] = "done" /\ queue[r] = <<>>

(* Every run but the current one is over. *)
RunsAreOver ==
    /\ \A r \in Runs : r < run \/ (r = run /\ phase \notin {"running", "joining"}) =>
           conn[r] \in {"ok", "err"}
    /\ phase = "start" => run = 0
    /\ phase \in {"running", "joining", "deciding"} => run > 0

(* errors is the length of the streak that ends with the last counted run. *)
Counted(last) ==
    /\ errors <= last
    /\ \A r \in Runs : last - errors < r /\ r <= last => conn[r] = "err"
    /\ errors < last => conn[last - errors] = "ok"

ErrorsCounted ==
    /\ phase \in {"running", "joining"} => Counted(run - 1)
    /\ phase \notin {"running", "joining"} => Counted(run)
    /\ phase \in {"connecting", "running", "joining", "sleeping"} => errors < MaxErrors

(* Before a decision no streak has reached the limit. *)
NoStreak(last) ==
    \A r \in Runs : r + MaxErrors - 1 <= last =>
        \E i \in r..(r + MaxErrors - 1) : conn[i] # "err"

NoStreakYet ==
    /\ phase \in {"running", "joining", "deciding"} => NoStreak(run - 1)
    /\ phase \in {"sleeping", "connecting"} => NoStreak(run)

GaveUp ==
    /\ phase \notin {"exiting", "exited"} => code = 0
    /\ phase \in {"exiting", "exited"} /\ code = 2 /\ run > 0 => LastRunsFailed(MaxErrors)

-----------------------------------------------------------------------------
LEMMA Constants ==
    /\ MaxRuns \in Nat /\ MaxRuns >= 1
    /\ QueueMax \in Nat /\ QueueMax >= 1
    /\ MaxErrors \in Nat /\ MaxErrors >= 1
    /\ MaxDelay \in Nat
  BY ClientAssumption

LEMMA SequenceSteps ==
    ASSUME NEW S, NEW s \in Seq(S)
    PROVE  /\ Len(s) \in Nat
           /\ \A e \in S : /\ Append(s, e) \in Seq(S) /\ Len(Append(s, e)) = Len(s) + 1
                           /\ Append(s, e)[Len(s) + 1] = e
                           /\ \A i \in 1..Len(s) : Append(s, e)[i] = s[i]
           /\ s # <<>> => /\ Tail(s) \in Seq(S) /\ Len(Tail(s)) = Len(s) - 1
                          /\ Head(s) = s[1] /\ Head(s) \in S /\ Len(s) >= 1
                          /\ \A i \in 1..Len(Tail(s)) : Tail(s)[i] = s[i + 1]
  OBVIOUS

Item == {"frame", "none"}

LEMMA BackoffBound == ASSUME NEW e PROVE Backoff(e) <= 2 * MaxDelay
  BY Constants DEF Backoff

MainType ==
    /\ phase \in Phase /\ run \in 0..MaxRuns /\ errors \in 0..MaxErrors
    /\ delay <= 2 * MaxDelay /\ code \in 0..2
    /\ conn \in [Runs -> {"none", "open", "ok", "err"}]

RunType ==
    /\ stop \in [Runs -> BOOLEAN]
    /\ thread \in [Runs -> ThreadState]
    /\ holders \subseteq Runs
    /\ sender \in [Runs -> SenderState]
    /\ receiver \in [Runs -> {"none", "receiving", "returned", "raised"}]

QueueType ==
    /\ queue \in [Runs -> Seq(Item)]
    /\ \A r \in Runs : Len(queue[r]) <= QueueMax

LEMMA TypeParts == TypeOK <=> MainType /\ RunType /\ QueueType
  BY DEF TypeOK, MainType, RunType, QueueType, Item

(* The actions of threads and coroutines, apart from those of main_async.  *)
CoroutineStep(r) ==
    TakeThread(r) \/ ExecutorGet(r) \/ Sender(r) \/ UnexpectedReply(r) \/ ReceiverEnds(r)

RunStep(r) == Capture(r) \/ CoroutineStep(r)

LEMMA RunStepMain == ASSUME NEW r \in Runs, RunStep(r) PROVE UNCHANGED <<mainVars, conn>>
  BY DEF RunStep, CoroutineStep, TakeThread, Capture, Open, CheckStop, ReadFrame, EndOfSource,
     PutFrame, Release,
     PutSentinel, ExecutorGet, Sender, SenderReturns, Encode, Sent, SendRaises, UnexpectedReply,
     ReceiverEnds

LEMMA MainRunVars == ASSUME Main \/ Close PROVE UNCHANGED <<queue, holders>>
  BY DEF Main, Close, Prepare, Connect, ConnectFails, GatherEnds, Joined, Decide, Wake,
     ExitProcess, captureVars

LEMMA StepMainType ==
    ASSUME MainType, ErrorsCounted, Main \/ Close
    PROVE  MainType'
<1> USE Constants DEF MainType, Phase
<1>1. CASE Prepare
  BY <1>1 DEF Prepare, Exit
<1>2. CASE Connect
  BY <1>2 DEF Connect, Runs
<1>3. CASE ConnectFails
  BY <1>3 DEF ConnectFails, Runs, ErrorsCounted
<1>4. CASE Close
  BY <1>4 DEF Close, mainVars, Runs
<1>5. CASE GatherEnds \/ Wake \/ ExitProcess
  BY <1>5 DEF GatherEnds, Wake, ExitProcess
<1>6. CASE Joined
  <2>1. /\ phase' \in Phase /\ UNCHANGED <<run, delay, code>>
        /\ errors' = 0 \/ errors' = errors + 1
        /\ errors < MaxErrors
    BY <1>6 DEF Joined, ErrorsCounted
  <2>2. \E how \in {"ok", "err"} : conn' = [conn EXCEPT ![run] = how]
    BY <1>6 DEF Joined
  <2>3. conn' \in [Runs -> {"none", "open", "ok", "err"}]
    BY <2>2, Zenon
  <2>4. errors' \in 0..MaxErrors
    BY <2>1
  <2> QED
    BY <2>1, <2>3, <2>4
<1>7. CASE Decide
  <2>1. /\ phase' \in {"exiting", "sleeping"} /\ UNCHANGED <<run, errors, conn>>
        /\ code' \in 0..2
    BY <1>7 DEF Decide, Exit
  <2>2. delay' = delay \/ delay' = Backoff(errors)
    BY <1>7 DEF Decide
  <2>3. delay' <= 2 * MaxDelay
    BY <2>2, BackoffBound
  <2> QED
    BY <2>1, <2>3
<1> QED
  BY <1>1, <1>2, <1>3, <1>4, <1>5, <1>6, <1>7 DEF Main

LEMMA StepRunType ==
    ASSUME RunType, Next, run \in 0..MaxRuns
    PROVE  RunType'
<1> USE Constants DEF RunType, ThreadState, SenderState
<1>1. CASE Main \/ Close
  BY <1>1 DEF Main, Close, Prepare, Connect, ConnectFails, GatherEnds, Joined, Decide, Wake,
     ExitProcess, captureVars, taskVars, Runs
<1>2. ASSUME NEW r \in Runs, Capture(r) PROVE RunType'
  BY <1>2 DEF Capture, Open, CheckStop, ReadFrame, EndOfSource, PutFrame, Release,
     PutSentinel, taskVars
<1>3. ASSUME NEW r \in Runs, CoroutineStep(r) PROVE RunType'
  BY <1>3 DEF CoroutineStep, TakeThread, ExecutorGet,
     Sender, SenderReturns, Encode, Sent, SendRaises, UnexpectedReply, ReceiverEnds,
     captureVars
<1> QED
  BY <1>1, <1>2, <1>3 DEF Next, CoroutineStep

(* The queue of one run grows by one item, shrinks by one, or stays.       *)
LEMMA QueueSteps ==
    ASSUME NEW r \in Runs, RunStep(r)
    PROVE  \/ UNCHANGED queue
           \/ /\ Len(queue[r]) < QueueMax
              /\ \E e \in Item : queue' = [queue EXCEPT ![r] = Append(@, e)]
           \/ queue[r] # <<>> /\ queue' = [queue EXCEPT ![r] = Tail(@)]
  BY DEF RunStep, CoroutineStep, TakeThread, Capture, Open, CheckStop, ReadFrame, EndOfSource,
     PutFrame, Release, Item,
     PutSentinel, ExecutorGet, Sender, SenderReturns, Encode, Sent, SendRaises, UnexpectedReply,
     ReceiverEnds

LEMMA StepQueueType ==
    ASSUME QueueType, Next
    PROVE  QueueType'
<1> USE Constants DEF QueueType
<1>1. CASE Main \/ Close
  BY <1>1, MainRunVars
<1>2. ASSUME NEW r \in Runs, RunStep(r) PROVE QueueType'
  <2>1. queue[r] \in Seq(Item) /\ Len(queue[r]) \in Nat
    BY SequenceSteps
  <2>2. CASE UNCHANGED queue
    BY <2>2
  <2>3. ASSUME NEW e \in Item, Len(queue[r]) < QueueMax,
               queue' = [queue EXCEPT ![r] = Append(@, e)]
        PROVE  QueueType'
    <3>1. Append(queue[r], e) \in Seq(Item) /\ Len(Append(queue[r], e)) <= QueueMax
      BY <2>1, <2>3, SequenceSteps
    <3> QED
      BY <2>3, <3>1
  <2>4. CASE queue[r] # <<>> /\ queue' = [queue EXCEPT ![r] = Tail(@)]
    <3>1. Tail(queue[r]) \in Seq(Item) /\ Len(Tail(queue[r])) <= QueueMax
      BY <2>1, <2>4, SequenceSteps
    <3> QED
      BY <2>4, <3>1
  <2> QED
    BY <1>2, <2>2, <2>3, <2>4, QueueSteps
<1> QED
  BY <1>1, <1>2 DEF Next, RunStep, CoroutineStep

-----------------------------------------------------------------------------
(* What main_async knows of its runs.                                      *)
LEMMA StepFresh ==
    ASSUME MainType, RunType, QueueType, Fresh, Next
    PROVE  Fresh'
<1> USE DEF Fresh, MainType, Runs
<1>1. CASE Main \/ Close
  <2>1. UNCHANGED queue
    BY <1>1, MainRunVars
  <2>2. CASE Connect
    BY <2>1, <2>2 DEF Connect, RunType
  <2>3. CASE ConnectFails
    BY <2>1, <2>3 DEF ConnectFails, captureVars, taskVars
  <2>4. CASE Close
    BY <2>1, <2>4 DEF Close, mainVars, captureVars, taskVars
  <2>5. CASE Joined
    BY <2>1, <2>5 DEF Joined, EndedWell, captureVars, taskVars
  <2>6. CASE Prepare \/ GatherEnds \/ Decide \/ Wake \/ ExitProcess
    BY <2>1, <2>6 DEF Prepare, GatherEnds, Decide, Wake, ExitProcess, captureVars, taskVars
  <2> QED
    BY <1>1, <2>2, <2>3, <2>4, <2>5, <2>6 DEF Main
<1>2. ASSUME NEW r \in Runs, Capture(r) PROVE Fresh'
  BY <1>2, RunStepMain, ZenonT(40) DEF RunStep, CoroutineStep, TakeThread, Capture, Open,
     CheckStop, ReadFrame, EndOfSource, PutFrame, Release,
     PutSentinel, taskVars, RunType, QueueType, mainVars
<1>3. ASSUME NEW r \in Runs, CoroutineStep(r) PROVE Fresh'
  BY <1>3 DEF CoroutineStep, TakeThread, ExecutorGet,
     Sender, SenderReturns, Encode, Sent, SendRaises, UnexpectedReply, ReceiverEnds,
     captureVars, RunType, QueueType, mainVars
<1> QED
  BY <1>1, <1>2, <1>3 DEF Next, CoroutineStep

LEMMA StepRunsAreOver ==
    ASSUME MainType, RunsAreOver, Next
    PROVE  RunsAreOver'
<1> USE DEF RunsAreOver, MainType, Runs
<1>1. CASE Connect
  BY <1>1 DEF Connect
<1>2. CASE ConnectFails
  BY <1>2 DEF ConnectFails
<1>3. CASE Close
  BY <1>3 DEF Close, mainVars
<1>4. CASE GatherEnds
  BY <1>4 DEF GatherEnds
<1>5. CASE Joined
  BY <1>5 DEF Joined
<1>6. CASE Prepare \/ Decide \/ Wake \/ ExitProcess
  BY <1>6 DEF Prepare, Decide, Wake, ExitProcess, Exit
<1>7. ASSUME NEW r \in Runs, RunStep(r) PROVE RunsAreOver'
  BY <1>7, RunStepMain DEF mainVars
<1> QED
  BY <1>1, <1>2, <1>3, <1>4, <1>5, <1>6, <1>7 DEF Next, Main, RunStep, CoroutineStep

-----------------------------------------------------------------------------
(* The streak.  Only the current run is ever opened or closed.             *)
LEMMA StepErrors ==
    ASSUME MainType, RunsAreOver, ErrorsCounted, Next
    PROVE  ErrorsCounted'
<1> USE Constants DEF ErrorsCounted, Counted, MainType, Runs
<1>1. CASE Connect
  BY <1>1 DEF Connect
<1>2. CASE ConnectFails
  BY <1>2 DEF ConnectFails
<1>3. CASE Close
  BY <1>3 DEF Close, mainVars, RunsAreOver
<1>4. CASE Joined
  BY <1>4 DEF Joined, EndedWell, RunsAreOver
<1>5. CASE Prepare
  BY <1>5 DEF Prepare, Exit, RunsAreOver
<1>6. CASE GatherEnds \/ Decide \/ Wake \/ ExitProcess
  BY <1>6 DEF GatherEnds, Decide, Wake, ExitProcess, Exit
<1>7. ASSUME NEW r \in Runs, RunStep(r) PROVE ErrorsCounted'
  BY <1>7, RunStepMain DEF mainVars
<1> QED
  BY <1>1, <1>2, <1>3, <1>4, <1>5, <1>6, <1>7 DEF Next, Main, RunStep, CoroutineStep

(* A decision that goes on: the streak is shorter than the limit, and the  *)
(* run before it ended well.                                               *)
LEMMA DecisionExtends ==
    ASSUME MainType, NoStreak(run - 1), Counted(run), errors < MaxErrors
    PROVE  NoStreak(run)
<1> USE Constants DEF MainType, Runs
<1> SUFFICES ASSUME NEW r \in Runs, r + MaxErrors - 1 <= run
             PROVE  \E i \in r..(r + MaxErrors - 1) : conn[i] # "err"
  BY DEF NoStreak
<1>1. CASE r + MaxErrors - 1 <= run - 1
  BY <1>1 DEF NoStreak
<1>2. CASE r + MaxErrors - 1 = run
  <2>1. errors < run /\ run - errors \in r..(r + MaxErrors - 1)
    BY <1>2
  <2>2. conn[run - errors] = "ok"
    BY <2>1 DEF Counted
  <2> QED
    BY <2>1, <2>2
<1> QED
  BY <1>1, <1>2

LEMMA StreakKept ==
    ASSUME NEW last \in Int, last <= MaxRuns, NoStreak(last),
           \A i \in Runs : i <= last => conn'[i] = conn[i]
    PROVE  \A r \in Runs : r + MaxErrors - 1 <= last =>
               \E i \in r..(r + MaxErrors - 1) : conn'[i] # "err"
<1> SUFFICES ASSUME NEW r \in Runs, r + MaxErrors - 1 <= last
             PROVE  \E i \in r..(r + MaxErrors - 1) : conn'[i] # "err"
  OBVIOUS
<1>1. PICK i \in r..(r + MaxErrors - 1) : conn[i] # "err"
  BY DEF NoStreak
<1>2. i \in Runs /\ i <= last
  BY <1>1, Constants DEF Runs
<1> QED
  BY <1>1, <1>2

LEMMA StepNoStreak ==
    ASSUME MainType, RunsAreOver, ErrorsCounted, NoStreakYet, Next
    PROVE  NoStreakYet'
<1> USE Constants
<1> DEFINE Kept(last) == \A r \in Runs : r + MaxErrors - 1 <= last =>
                           \E i \in r..(r + MaxErrors - 1) : conn'[i] # "err"
<1>1. CASE Connect \/ ConnectFails
  <2>1. /\ phase = "connecting" /\ run' = run + 1 /\ run' \in Runs
        /\ phase' \in {"running", "deciding"}
        /\ \A i \in Runs : i <= run => conn'[i] = conn[i]
    BY <1>1 DEF Connect, ConnectFails, MainType, Runs
  <2>2. Kept(run)
    BY <2>1, StreakKept DEF NoStreakYet, MainType
  <2>3. run' - 1 = run
    BY <2>1 DEF MainType
  <2> QED
    BY <2>1, <2>2, <2>3 DEF NoStreakYet, NoStreak
<1>2. CASE Close \/ Joined
  <2>1. /\ UNCHANGED run /\ run \in Runs /\ phase \in {"running", "joining"}
        /\ phase' \in {"running", "joining", "deciding"}
        /\ \A i \in Runs : i <= run - 1 => conn'[i] = conn[i]
    BY <1>2 DEF Close, Joined, mainVars, RunsAreOver, MainType, Runs
  <2>2. run - 1 \in Int /\ run - 1 <= MaxRuns /\ NoStreak(run - 1)
    BY <2>1 DEF NoStreakYet, Runs
  <2>3. Kept(run - 1)
    BY <2>1, <2>2, StreakKept
  <2> QED
    BY <2>1, <2>3 DEF NoStreakYet, NoStreak
<1>3. CASE Decide
  <2>1. NoStreak(run - 1) /\ Counted(run) /\ UNCHANGED <<run, conn>> /\ phase' \in {"exiting", "sleeping"}
    BY <1>3 DEF Decide, Exit, NoStreakYet, ErrorsCounted
  <2>2. phase' = "sleeping" => errors < MaxErrors
    BY <1>3 DEF Decide, Exit, MainType
  <2>3. phase' = "sleeping" => NoStreak(run)
    BY <2>1, <2>2, DecisionExtends
  <2> QED
    BY <2>1, <2>3 DEF NoStreakYet, NoStreak
<1>4. CASE Prepare
  BY <1>4 DEF Prepare, Exit, RunsAreOver, NoStreakYet, NoStreak, MainType, Runs
<1>5. CASE GatherEnds \/ Wake \/ ExitProcess
  BY <1>5 DEF GatherEnds, Wake, ExitProcess, NoStreakYet, NoStreak
<1>6. ASSUME NEW r \in Runs, RunStep(r) PROVE NoStreakYet'
  BY <1>6, RunStepMain DEF mainVars, NoStreakYet, NoStreak
<1> QED
  BY <1>1, <1>2, <1>3, <1>4, <1>5, <1>6 DEF Next, Main, RunStep, CoroutineStep

LEMMA StepGaveUp ==
    ASSUME MainType, RunsAreOver, ErrorsCounted, GaveUp, Next
    PROVE  GaveUp'
<1> USE Constants DEF GaveUp, MainType, Runs
<1>1. CASE Connect \/ ConnectFails
  BY <1>1 DEF Connect, ConnectFails
<1>2. CASE Close
  BY <1>2 DEF Close, mainVars, RunsAreOver, LastRunsFailed
<1>3. CASE Decide
  <2>1. Counted(run) /\ UNCHANGED <<run, conn>>
    BY <1>3 DEF Decide, ErrorsCounted
  <2>2. code' = 2 => errors >= MaxErrors
    BY <1>3 DEF Decide, Exit
  <2>3. code' = 2 => LastRunsFailed(MaxErrors)
    BY <2>1, <2>2 DEF Counted, LastRunsFailed
  <2> QED
    BY <1>3, <2>1, <2>3 DEF Decide, Exit, LastRunsFailed
<1>4. CASE Prepare
  BY <1>4 DEF Prepare, Exit, RunsAreOver
<1>5. CASE GatherEnds \/ Joined \/ Wake
  BY <1>5 DEF GatherEnds, Joined, Wake
<1>6. CASE ExitProcess
  BY <1>6 DEF ExitProcess, LastRunsFailed
<1>7. ASSUME NEW r \in Runs, RunStep(r) PROVE GaveUp'
  BY <1>7, RunStepMain DEF mainVars, LastRunsFailed
<1> QED
  BY <1>1, <1>2, <1>3, <1>4, <1>5, <1>6, <1>7 DEF Next, Main, RunStep, CoroutineStep

-----------------------------------------------------------------------------
(* The sentinel.  Connect reuses nothing: the thread it starts is a new one.*)
LEMMA MainKeepsThreads ==
    ASSUME MainType, RunType, Fresh, Main \/ Close, NEW r \in Runs
    PROVE  /\ thread[r] = "done" => thread'[r] = "done"
           /\ sender'[r] \in {sender[r], "submitted"}
<1>1. CASE Connect
  BY <1>1 DEF Connect, Fresh, RunType, MainType, Runs
<1>2. CASE ~Connect
  <2>1. UNCHANGED <<thread, sender>>
    BY <1>2 DEF Main, Close, Prepare, ConnectFails, GatherEnds, Joined, Decide, Wake,
       ExitProcess, captureVars, taskVars
  <2> QED
    BY <2>1
<1> QED
  BY <1>1, <1>2

LEMMA EmptySequence == ASSUME NEW S, NEW s \in Seq(S), Len(s) = 0 PROVE s = <<>>
  OBVIOUS

LEMMA StepSentinel ==
    ASSUME MainType, RunType, QueueType, Fresh, SentinelIsLast, NothingAfterSentinel, Next
    PROVE  SentinelIsLast'
<1>1. CASE Main \/ Close
  <2>1. UNCHANGED queue
    BY <1>1, MainRunVars
  <2>2. ASSUME NEW r \in Runs, thread[r] = "done" PROVE thread'[r] = "done"
    BY <1>1, <2>2, MainKeepsThreads
  <2> QED
    BY <2>1, <2>2 DEF SentinelIsLast
<1>2. ASSUME NEW r \in Runs, RunStep(r) PROVE SentinelIsLast'
  <2>1. ASSUME NEW s \in Runs, thread[s] = "done" PROVE thread'[s] = "done"
    BY <1>2, <2>1 DEF RunStep, CoroutineStep, TakeThread, Capture, Open, CheckStop, ReadFrame,
       EndOfSource, PutFrame,
       Release, PutSentinel, ExecutorGet, Sender, SenderReturns, Encode, Sent, SendRaises,
       UnexpectedReply, ReceiverEnds, captureVars, RunType
  <2>2. queue[r] \in Seq(Item) /\ Len(queue[r]) \in Nat
    BY SequenceSteps DEF QueueType
  <2>3. CASE UNCHANGED queue
    BY <2>1, <2>3 DEF SentinelIsLast
  <2>4. CASE PutFrame(r) \/ PutSentinel(r)
    <3>1. PICK e \in Item : /\ queue' = [queue EXCEPT ![r] = Append(@, e)]
                            /\ thread[r] # "done"
                            /\ e = "none" => thread'[r] = "done"
      BY <2>4 DEF PutFrame, PutSentinel, Item, RunType
    <3>2. \A i \in 1..Len(queue[r]) : queue[r][i] # "none"
      BY <3>1 DEF SentinelIsLast
    <3>3. queue'[r] = Append(queue[r], e) /\ \A s \in Runs \ {r} : queue'[s] = queue[s]
      BY <3>1 DEF QueueType
    <3>4. ASSUME NEW i \in 1..Len(queue'[r]), queue'[r][i] = "none"
          PROVE  i = Len(queue'[r]) /\ thread'[r] = "done"
      BY <2>2, <3>1, <3>2, <3>3, <3>4, SequenceSteps
    <3> QED
      BY <2>1, <3>3, <3>4 DEF SentinelIsLast
  <2>5. CASE ExecutorGet(r)
    <3>1. queue[r] # <<>> /\ queue' = [queue EXCEPT ![r] = Tail(@)]
      BY <2>5 DEF ExecutorGet
    <3>2. queue'[r] = Tail(queue[r]) /\ \A s \in Runs \ {r} : queue'[s] = queue[s]
      BY <3>1 DEF QueueType
    <3>3. ASSUME NEW i \in 1..Len(queue'[r]), queue'[r][i] = "none"
          PROVE  i = Len(queue'[r]) /\ thread'[r] = "done"
      <4>1. /\ Len(Tail(queue[r])) = Len(queue[r]) - 1
            /\ \A k \in 1..Len(Tail(queue[r])) : Tail(queue[r])[k] = queue[r][k + 1]
        BY <2>2, <3>1, SequenceSteps
      <4>2. i + 1 \in 1..Len(queue[r]) /\ queue[r][i + 1] = "none"
        BY <2>2, <3>2, <3>3, <4>1
      <4>3. i + 1 = Len(queue[r]) /\ thread[r] = "done"
        BY <4>2 DEF SentinelIsLast
      <4> QED
        BY <2>1, <2>2, <3>2, <4>1, <4>3
    <3> QED
      BY <2>1, <3>2, <3>3 DEF SentinelIsLast
  <2>6. UNCHANGED queue \/ PutFrame(r) \/ PutSentinel(r) \/ ExecutorGet(r)
    BY <1>2 DEF RunStep, CoroutineStep, TakeThread, Capture, Open, CheckStop, ReadFrame,
       EndOfSource, Release,
       Sender, SenderReturns, Encode, Sent, SendRaises, UnexpectedReply, ReceiverEnds
  <2> QED
    BY <2>3, <2>4, <2>5, <2>6
<1> QED
  BY <1>1, <1>2 DEF Next, RunStep, CoroutineStep

LEMMA StepNothingAfter ==
    ASSUME MainType, RunType, QueueType, Fresh, SentinelIsLast, NothingAfterSentinel, Next
    PROVE  NothingAfterSentinel'
<1> USE DEF NothingAfterSentinel
<1>1. CASE Main \/ Close
  <2>1. UNCHANGED queue
    BY <1>1, MainRunVars
  <2>2. ASSUME NEW r \in Runs PROVE /\ thread[r] = "done" => thread'[r] = "done"
                                    /\ sender'[r] \in {sender[r], "submitted"}
    BY <1>1, MainKeepsThreads
  <2> QED
    BY <2>1, <2>2
<1>2. ASSUME NEW r \in Runs, Capture(r) PROVE NothingAfterSentinel'
  <2>1. thread[r] # "done" /\ UNCHANGED sender
    BY <1>2 DEF Capture, Open, CheckStop, ReadFrame, EndOfSource, PutFrame, Release,
       PutSentinel, taskVars
  <2>2. ASSUME NEW s \in Runs, s # r PROVE thread'[s] = thread[s] /\ queue'[s] = queue[s]
    BY <1>2, <2>2 DEF Capture, Open, CheckStop, ReadFrame, EndOfSource, PutFrame, Release,
       PutSentinel, RunType, QueueType
  <2> QED
    BY <2>1, <2>2
<1>3. ASSUME NEW r \in Runs, ExecutorGet(r) PROVE NothingAfterSentinel'
  <2>1. /\ queue[r] # <<>> /\ queue' = [queue EXCEPT ![r] = Tail(@)] /\ UNCHANGED thread
        /\ sender' = [sender EXCEPT ![r] = IF Head(queue[r]) = "none" THEN "got_none"
                                                                      ELSE "got_frame"]
    BY <1>3 DEF ExecutorGet, captureVars
  <2>2. queue[r] \in Seq(Item) /\ Len(queue[r]) \in Nat
    BY SequenceSteps DEF QueueType
  <2>3. Head(queue[r]) = queue[r][1] /\ Tail(queue[r]) \in Seq(Item)
        /\ Len(Tail(queue[r])) = Len(queue[r]) - 1 /\ Len(queue[r]) >= 1
    BY <2>1, <2>2, SequenceSteps
  <2>4. Head(queue[r]) = "none" => Len(queue[r]) = 1 /\ thread[r] = "done"
    <3>1. 1 \in 1..Len(queue[r])
      BY <2>2, <2>3
    <3>2. queue[r][1] = "none" => 1 = Len(queue[r]) /\ thread[r] = "done"
      BY <3>1 DEF SentinelIsLast
    <3> QED
      BY <2>3, <3>2
  <2>5. Head(queue[r]) = "none" => Tail(queue[r]) = <<>>
    <3>1. Head(queue[r]) = "none" => Len(Tail(queue[r])) = 0
      BY <2>2, <2>3, <2>4
    <3> QED
      BY <2>3, <3>1, EmptySequence
  <2> QED
    BY <2>1, <2>4, <2>5 DEF RunType, QueueType
<1>4. ASSUME NEW r \in Runs, TakeThread(r) \/ Sender(r) \/ UnexpectedReply(r) \/ ReceiverEnds(r)
      PROVE  NothingAfterSentinel'
  BY <1>4 DEF TakeThread, Sender, SenderReturns, Encode, Sent, SendRaises, UnexpectedReply,
     ReceiverEnds, captureVars, RunType
<1> QED
  BY <1>1, <1>2, <1>3, <1>4 DEF Next, CoroutineStep

-----------------------------------------------------------------------------
ClientInv ==
    /\ MainType /\ RunType /\ QueueType
    /\ Fresh /\ SentinelIsLast /\ NothingAfterSentinel /\ RunsAreOver
    /\ ErrorsCounted /\ NoStreakYet /\ GaveUp

LEMMA InitFacts == ASSUME Init PROVE ClientInv
<1> USE Constants DEF Init
<1>1. MainType /\ RunType
  BY DEF MainType, RunType, Phase, ThreadState, SenderState, Runs
<1>2. QueueType
  <2>1. <<>> \in Seq(Item) /\ Len(<<>>) = 0
    OBVIOUS
  <2> QED
    BY <2>1 DEF QueueType
<1>3. Fresh /\ SentinelIsLast /\ NothingAfterSentinel
  BY DEF Fresh, SentinelIsLast, NothingAfterSentinel
<1>4. RunsAreOver /\ ErrorsCounted /\ NoStreakYet /\ GaveUp
  BY DEF RunsAreOver, ErrorsCounted, Counted, NoStreakYet, GaveUp, Runs
<1> QED
  BY <1>1, <1>2, <1>3, <1>4 DEF ClientInv

LEMMA Stutter == ASSUME ClientInv, UNCHANGED vars PROVE ClientInv'
  BY DEF ClientInv, vars, mainVars, captureVars, taskVars, MainType, RunType, QueueType, Fresh,
     SentinelIsLast, NothingAfterSentinel, RunsAreOver, ErrorsCounted, Counted,
     NoStreakYet, NoStreak, GaveUp, LastRunsFailed

(* The invariant of the client: what main_async knows of its runs, the     *)
(* streak of failures, and the place of the sentinel.                      *)
THEOREM Invariance == Spec => []ClientInv
<1>1. Init => ClientInv
  BY InitFacts
<1>2. ClientInv /\ [Next]_vars => ClientInv'
  <2> SUFFICES ASSUME ClientInv, Next PROVE ClientInv'
    BY Stutter
  <2>1. MainType'
    <3>1. CASE Main \/ Close
      BY <3>1, StepMainType DEF ClientInv
    <3>2. ASSUME NEW r \in Runs, RunStep(r) PROVE MainType'
      BY <3>2, RunStepMain DEF ClientInv, MainType, mainVars
    <3> QED
      BY <3>1, <3>2 DEF Next, RunStep, CoroutineStep
  <2>2. RunType' /\ QueueType'
    <3>1. run \in 0..MaxRuns
      BY DEF ClientInv, MainType
    <3> QED
      BY <3>1, StepRunType, StepQueueType DEF ClientInv
  <2>3. Fresh' /\ RunsAreOver'
    BY StepFresh, StepRunsAreOver DEF ClientInv
  <2>4. ErrorsCounted' /\ NoStreakYet' /\ GaveUp'
    BY StepErrors, StepNoStreak, StepGaveUp DEF ClientInv
  <2>5. SentinelIsLast' /\ NothingAfterSentinel'
    BY StepSentinel, StepNothingAfter DEF ClientInv
  <2> QED
    BY <2>1, <2>2, <2>3, <2>4, <2>5 DEF ClientInv
<1> QED
  BY <1>1, <1>2, PTL DEF Spec

(* Type correctness: no queue above --queue-max, no count of failures above *)
(* the limit, no pause above the longest.                                  *)
THEOREM TypeCorrect == Spec => []TypeOK
<1>1. ClientInv => TypeOK
  BY TypeParts DEF ClientInv
<1> QED
  BY <1>1, Invariance, PTL

(* reference_client.py, the sentinel after the last frame: a sender that   *)
(* returns has taken everything its source gave.                           *)
THEOREM SenderTakesAll == Spec => []NothingLeftBehind
<1>1. ClientInv => NothingLeftBehind
  BY DEF ClientInv, NothingAfterSentinel, NothingLeftBehind
<1> QED
  BY <1>1, Invariance, PTL

(* main_async, --max-consecutive-errors: the client ends with status 2     *)
(* after that many failures in a row, and goes on after fewer.             *)
THEOREM PersistentFailure == Spec => []GivesUpWhenPersistent
<1>1. ClientInv => GivesUpWhenPersistent
  <2> SUFFICES ASSUME ClientInv PROVE GivesUpWhenPersistent
    OBVIOUS
  <2>1. phase \in {"exiting", "exited"} /\ code = 2 /\ run > 0 => LastRunsFailed(MaxErrors)
    BY DEF ClientInv, GaveUp
  <2>2. ASSUME phase \in {"sleeping", "connecting", "running"},
               NEW r \in Runs, r + MaxErrors - 1 <= run,
               \A i \in r..(r + MaxErrors - 1) : conn[i] = "err",
               r + MaxErrors - 1 < run \/ phase # "running"
        PROVE  FALSE
    <3>1. run \in Nat
      BY DEF ClientInv, MainType
    <3>2. CASE phase = "running"
      <4>1. r + MaxErrors - 1 <= run - 1
        BY <2>2, <3>1, <3>2, Constants DEF Runs
      <4> QED
        BY <2>2, <3>2, <4>1 DEF ClientInv, NoStreakYet, NoStreak
    <3>3. CASE phase # "running"
      BY <2>2, <3>3 DEF ClientInv, NoStreakYet, NoStreak
    <3> QED
      BY <3>2, <3>3
  <2> QED
    BY <2>1, <2>2 DEF GivesUpWhenPersistent
<1> QED
  BY <1>1, Invariance, PTL

-----------------------------------------------------------------------------
(* The pauses.                                                              *)

(* A set has no fewer subsets for having one more element.                  *)
LEMMA PowersGrow == ASSUME NEW n \in Nat PROVE 2 ^ n \in Nat /\ 2 ^ n <= 2 ^ (n + 1)
<1> DEFINE small == 1..n
           large == 1..(n + 1)
<1>1. /\ IsFiniteSet(small) /\ Cardinality(small) = n
      /\ IsFiniteSet(large) /\ Cardinality(large) = n + 1
  <2>1. 1 \in Int /\ n \in Int /\ n + 1 \in Int
    OBVIOUS
  <2>2. (IF 1 > n THEN 0 ELSE n - 1 + 1) = n /\ (IF 1 > n + 1 THEN 0 ELSE (n + 1) - 1 + 1) = n + 1
    OBVIOUS
  <2> QED
    BY <2>1, <2>2, FS_Interval
<1>2. SUBSET small \subseteq SUBSET large
  OBVIOUS
<1> HIDE DEF small, large
<1>3. /\ IsFiniteSet(SUBSET small) /\ Cardinality(SUBSET small) = 2 ^ n
      /\ IsFiniteSet(SUBSET large) /\ Cardinality(SUBSET large) = 2 ^ (n + 1)
  BY <1>1, FS_SUBSET
<1>4. Cardinality(SUBSET small) \in Nat /\ Cardinality(SUBSET small) <= Cardinality(SUBSET large)
  BY <1>2, <1>3, FS_Subset, FS_CardinalityType
<1> QED
  BY <1>3, <1>4

LEMMA Products ==
    ASSUME NEW b \in Nat, NEW x \in Nat, NEW y \in Nat, x <= y
    PROVE  b * x \in Nat /\ b * y \in Nat /\ b * x <= b * y
<1>1. b * x \in Nat /\ b * (y - x) \in Nat /\ b * y = b * x + b * (y - x)
  BY Z3
<1>2. b * y \in Nat
  BY <1>1
<1> QED
  BY <1>1, <1>2

LEMMA BackoffGrows == ASSUME NEW e \in Nat PROVE Backoff(e) <= Backoff(e + 1)
<1> DEFINE small == 2 ^ e
           large == 2 ^ (e + 1)
<1>1. small \in Nat /\ large \in Nat /\ small <= large
  <2>1. e + 1 \in Nat
    OBVIOUS
  <2> QED
    BY <2>1, PowersGrow
<1>2. /\ Backoff(e) = IF BaseDelay * small <= 2 * MaxDelay THEN BaseDelay * small ELSE 2 * MaxDelay
      /\ Backoff(e + 1) = IF BaseDelay * large <= 2 * MaxDelay THEN BaseDelay * large ELSE 2 * MaxDelay
  BY DEF Backoff
<1> HIDE DEF small, large
<1>3. BaseDelay * small <= BaseDelay * large /\ BaseDelay * small \in Nat /\ BaseDelay * large \in Nat
  BY <1>1, Products, ClientAssumption
<1> QED
  BY <1>2, <1>3, Constants

LEMMA BackoffIsInt == ASSUME NEW e \in Nat PROVE Backoff(e) \in Int
<1> DEFINE power == 2 ^ e
<1>1. power \in Nat
  BY PowersGrow
<1>2. Backoff(e) = IF BaseDelay * power <= 2 * MaxDelay THEN BaseDelay * power ELSE 2 * MaxDelay
  BY DEF Backoff
<1> HIDE DEF power
<1>3. BaseDelay * power \in Nat
  BY <1>1, Products, ClientAssumption
<1> QED
  BY <1>2, <1>3, Constants

(* The last pause is the one of the streak as it was decided on.            *)
DelayCounted ==
    /\ phase \notin {"deciding", "exiting", "exited"} /\ errors > 0 => delay = Backoff(errors)
    /\ phase = "deciding" /\ errors > 1 => delay = Backoff(errors - 1)

LEMMA StepDelay == ASSUME MainType, DelayCounted, [Next]_vars PROVE DelayCounted'
<1>0. errors \in Nat
  BY Constants DEF MainType
<1>1. CASE Connect
  BY <1>1 DEF Connect, DelayCounted
<1>2. CASE ConnectFails \/ Joined
  <2>1. /\ phase \in {"connecting", "joining"} /\ phase' = "deciding" /\ UNCHANGED delay
        /\ errors' = 0 \/ errors' = errors + 1
    BY <1>2 DEF ConnectFails, Joined
  <2>2. ASSUME errors' > 1 PROVE errors' - 1 = errors /\ errors > 0
    BY <1>0, <2>1, <2>2
  <2>3. ASSUME errors' > 1 PROVE delay' = Backoff(errors' - 1)
    BY <2>1, <2>2, <2>3 DEF DelayCounted
  <2> QED
    BY <2>1, <2>3 DEF DelayCounted
<1>3. CASE Decide
  BY <1>3 DEF Decide, Exit, DelayCounted
<1>4. CASE Prepare
  BY <1>4 DEF Prepare, Exit, DelayCounted
<1>5. CASE GatherEnds \/ Wake \/ ExitProcess
  BY <1>5 DEF GatherEnds, Wake, ExitProcess, DelayCounted
<1>6. CASE Close
  BY <1>6 DEF Close, mainVars, DelayCounted
<1>7. ASSUME NEW r \in Runs, RunStep(r) PROVE DelayCounted'
  BY <1>7, RunStepMain DEF mainVars, DelayCounted
<1>8. CASE UNCHANGED vars
  BY <1>8 DEF vars, mainVars, DelayCounted
<1> QED
  BY <1>1, <1>2, <1>3, <1>4, <1>5, <1>6, <1>7, <1>8 DEF Next, Main, RunStep, CoroutineStep

THEOREM PausesOfStreak == Spec => []DelayCounted
<1>1. Init => DelayCounted
  BY DEF Init, DelayCounted
<1>2. ClientInv /\ DelayCounted /\ [Next]_vars => DelayCounted'
  BY StepDelay DEF ClientInv
<1> QED
  BY <1>1, <1>2, Invariance, PTL DEF Spec

(* main_async, backoff = min(max_delay, base_delay * 2 ** (errors - 1)): as *)
(* long as runs fail one after the other no pause is shorter than the one  *)
(* before, at the limit neither.                                           *)
THEOREM PausesNeverShrink == Spec => BackoffNeverShrinks
<1>1. ASSUME ClientInv, DelayCounted, [Next]_vars, phase = "deciding", phase' = "sleeping", LastRunsFailed(2)
      PROVE  delay' >= delay
  <2>1. delay' = Backoff(errors)
    <3>1. Decide
      BY <1>1, RunStepMain DEF Next, Main, Prepare, Connect, ConnectFails, GatherEnds, Joined, Wake,
                               ExitProcess, Close, mainVars, vars, RunStep, CoroutineStep
    <3> QED
      BY <1>1, <3>1 DEF Decide, Exit
  <2>2. errors \in Nat /\ run \in Nat /\ run >= 2 /\ run <= MaxRuns
    BY <1>1, Constants DEF ClientInv, MainType, LastRunsFailed
  <2>3. errors > 1
    <3>1. Counted(run) /\ conn[run] = "err" /\ conn[run - 1] = "err"
      <4>1. run \in (run - 2 + 1)..run /\ run - 1 \in (run - 2 + 1)..run
        BY <2>2
      <4> QED
        BY <1>1, <4>1 DEF ClientInv, ErrorsCounted, LastRunsFailed
    <3>2. CASE errors = 0
      BY <2>2, <3>1, <3>2 DEF Counted
    <3>3. CASE errors = 1
      BY <2>2, <3>1, <3>3 DEF Counted
    <3> QED
      BY <2>2, <3>2, <3>3
  <2>4. delay = Backoff(errors - 1)
    BY <1>1, <2>3 DEF DelayCounted
  <2>5. errors - 1 \in Nat /\ (errors - 1) + 1 = errors
    BY <2>2, <2>3
  <2>6. Backoff(errors - 1) <= Backoff(errors)
    <3> DEFINE e == errors - 1
    <3>1. e \in Nat /\ e + 1 = errors
      BY <2>5
    <3> HIDE DEF e
    <3>2. Backoff(e) <= Backoff(errors)
      BY <3>1, BackoffGrows
    <3> QED
      BY <3>2 DEF e
  <2>7. Backoff(errors) \in Int /\ Backoff(errors - 1) \in Int
    BY <2>2, <2>5, BackoffIsInt
  <2> QED
    BY <2>1, <2>4, <2>6, <2>7
<1>2. ClientInv /\ DelayCounted /\ [Next]_vars =>
          [phase = "deciding" /\ phase' = "sleeping" /\ LastRunsFailed(2) => delay' >= delay]_vars
  BY <1>1
<1> QED
  BY <1>2, Invariance, PausesOfStreak, PTL DEF Spec, BackoffNeverShrinks
=============================================================================
