-------------------------- MODULE ConcurrencySmoke --------------------------
(***************************************************************************)
(* The probe of 05_concurrency_smoke.sh: several clients that each send    *)
(* frames one after the other and measure them, and the verdict over what  *)
(* they have recorded.  The question is how far the verdict can be trusted,*)
(* so the service is here the environment: it serves in order of arrival,  *)
(* takes its time, and may be given one of the faults the probe is to find.*)
(*                                                                         *)
(* Time is counted in ticks and passes when nobody has anything to do.     *)
(***************************************************************************)
EXTENDS Naturals, Sequences, FiniteSetsExt

CONSTANTS
    NumClients,        \* --num-clients
    FramesPerClient,   \* --frames-per-client
    SendInterval,      \* --send-interval
    StartOffset,       \* --start-offset
    FrameTimeout,      \* --frame-timeout
    FairnessRatio,     \* --fairness-ratio
    MinService,        \* what a frame takes on the GPU, at least
    MaxService,        \* and at most
    MaxFaults          \* bound: faults of the service

ASSUME ProbeAssumption ==
    /\ NumClients \in Nat \ {0, 1}     \* run refuses a single client
    /\ {FramesPerClient, FrameTimeout, FairnessRatio, MinService} \subseteq Nat \ {0}
    /\ {SendInterval, StartOffset, MaxFaults, MaxService} \subseteq Nat

VARIABLES
    stage,     \* where _run_one_client is
    sleep,     \* ticks it still sleeps
    sent,      \* frames it has sent
    age,       \* ticks since it sent the last
    inbox,     \* replies on its WebSocket, each [frame, type]
    closed,    \* the server has closed its WebSocket
    records,   \* its FrameRecords, each [kind, latency]
    conn,      \* its frames at the service, not yet answered
    waiting,   \* clients whose frame waits for the GPU
    running,   \* [client, left], client 0 if the GPU is idle
    faults,    \* what the service has done wrong
    verdict

clientVars == <<stage, sleep, sent, age, records>>
serviceVars == <<conn, waiting, running>>
vars == <<clientVars, serviceVars, inbox, closed, faults, verdict>>

Clients == 1..NumClients
Kinds == {"result", "error", "timeout", "ws_closed", "wrong_frame_id"}
Idle == [client |-> 0, left |-> 0]

-----------------------------------------------------------------------------
(* The service.                                                            *)

(* A connection has at most one frame in the queue of the lock. *)
Take(c) ==
    /\ conn[c] # <<>> /\ running.client # c
    /\ \A i \in 1..Len(waiting) : waiting[i] # c
    /\ waiting' = Append(waiting, c)
    /\ UNCHANGED <<clientVars, conn, running, inbox, closed, faults, verdict>>

Grant ==
    /\ running = Idle /\ waiting # <<>>
    /\ \E time \in MinService..MaxService :
           running' = [client |-> Head(waiting), left |-> time]
    /\ waiting' = Tail(waiting)
    /\ UNCHANGED <<clientVars, conn, inbox, closed, faults, verdict>>

Fault(kind) == Cardinality(faults) < MaxFaults /\ faults' = faults \union {kind}

Deliver(c, reply) == inbox' = IF closed[c] THEN inbox
                              ELSE [inbox EXCEPT ![c] = Append(@, reply)]

ReplyTo(c, type) == [of |-> c, frame |-> Head(conn[c]), type |-> type]

(* The reply, or an error, or none, or one on another client's WebSocket.  *)
Finish ==
    /\ running # Idle /\ running.left = 0
    /\ LET c == running.client
       IN  /\ \/ Deliver(c, ReplyTo(c, "success")) /\ UNCHANGED faults
              \/ Deliver(c, ReplyTo(c, "error")) /\ Fault("error")
              \/ UNCHANGED inbox /\ Fault("lost")
              \/ \E d \in Clients \ {c} : Deliver(d, ReplyTo(c, "success")) /\ Fault("mixed")
           /\ conn' = [conn EXCEPT ![c] = Tail(@)]
    /\ running' = Idle
    /\ UNCHANGED <<clientVars, waiting, closed, verdict>>

(* A Close that takes nothing from the client is none of the faults. *)
CloseWs(c) ==
    /\ sent[c] > 0 /\ stage[c] \in {"sleeping", "awaiting"} /\ ~closed[c]
    /\ sent[c] = FramesPerClient => inbox[c] = <<>>
    /\ Fault("closed")
    /\ closed' = [closed EXCEPT ![c] = TRUE]
    /\ UNCHANGED <<clientVars, serviceVars, inbox, verdict>>

-----------------------------------------------------------------------------
(* One client.                                                             *)

SendFrameKeepingClock(c) ==
    /\ stage[c] = "sleeping" /\ sleep[c] = 0 /\ ~closed[c]
    /\ stage' = [stage EXCEPT ![c] = "awaiting"]
    /\ sent' = [sent EXCEPT ![c] = @ + 1]
    /\ conn' = [conn EXCEPT ![c] = Append(@, sent'[c])]
    /\ UNCHANGED <<sleep, age, records, waiting, running, inbox, closed, faults, verdict>>

SendFrame(c) ==
    /\ stage[c] = "sleeping" /\ sleep[c] = 0 /\ ~closed[c]
    /\ stage' = [stage EXCEPT ![c] = "awaiting"]
    /\ sent' = [sent EXCEPT ![c] = @ + 1]
    /\ age' = [age EXCEPT ![c] = 0]
    /\ conn' = [conn EXCEPT ![c] = Append(@, sent'[c])]
    /\ UNCHANGED <<sleep, records, waiting, running, inbox, closed, faults, verdict>>

(* connect raises, or a later send does on a closed WebSocket: the outer    *)
(* handler calls either a connect that failed.                             *)
ConnectFailed(c) ==
    /\ stage[c] = "sleeping" /\ sleep[c] = 0
    /\ stage' = [stage EXCEPT ![c] = "failed"]
    /\ \/ closed[c] /\ UNCHANGED faults
       \/ sent[c] = 0 /\ Fault("refused")
    /\ UNCHANGED <<sleep, sent, age, records, serviceVars, inbox, closed, verdict>>

(* The record, and the next frame after the interval. *)
Record(c, kind, latency) ==
    /\ records' = [records EXCEPT ![c] = Append(@, [kind |-> kind, latency |-> latency])]
    /\ IF sent[c] = FramesPerClient \/ kind = "ws_closed"
       THEN stage' = [stage EXCEPT ![c] = "done"] /\ UNCHANGED sleep
       ELSE /\ stage' = [stage EXCEPT ![c] = "sleeping"]
            /\ sleep' = [sleep EXCEPT ![c] = SendInterval]

KindOf(c, reply) ==
    IF reply.of # c \/ reply.frame # sent[c] THEN "wrong_frame_id"
    ELSE IF reply.type = "error" THEN "error" ELSE "result"

Receive(c) ==
    /\ stage[c] = "awaiting" /\ inbox[c] # <<>>
    /\ Record(c, KindOf(c, Head(inbox[c])), age[c])
    /\ inbox' = [inbox EXCEPT ![c] = Tail(@)]
    /\ UNCHANGED <<sent, age, serviceVars, closed, faults, verdict>>

TimeOut(c) ==
    /\ stage[c] = "awaiting" /\ age[c] >= FrameTimeout
    /\ Record(c, "timeout", FrameTimeout)
    /\ UNCHANGED <<sent, age, serviceVars, inbox, closed, faults, verdict>>

(* Replies that arrived before the Close are read first. *)
ConnectionClosed(c) ==
    /\ stage[c] = "awaiting" /\ inbox[c] = <<>> /\ closed[c]
    /\ Record(c, "ws_closed", age[c])
    /\ UNCHANGED <<sent, age, serviceVars, inbox, closed, faults, verdict>>

-----------------------------------------------------------------------------
(* run: the verdict over all records.                                      *)

Answered(c) == {i \in DOMAIN records[c] : records[c][i].kind = "result"}

(* The k-th smallest latency: the least that k of them do not exceed. *)
Kth(c, k) ==
    LET latency(i) == records[c][i].latency
        below(i) == {j \in Answered(c) : latency(j) <= latency(i)}
    IN  Min({latency(i) : i \in {j \in Answered(c) : Cardinality(below(j)) >= k}})

(* statistics.median, doubled to stay an integer. *)
TwiceMedian(c) ==
    LET n == Cardinality(Answered(c))
    IN  Kth(c, (n + 1) \div 2) + Kth(c, (n + 2) \div 2)

Measured == {c \in Clients : Answered(c) # {}}

(* The largest median exceeds the smallest by the factor. *)
Unfair ==
    /\ Cardinality(Measured) >= 2
    /\ \E c, d \in Measured : TwiceMedian(c) > FairnessRatio * TwiceMedian(d)

FailuresOfFrames ==
    \/ \E c \in Clients : \E i \in 1..Len(records[c]) : records[c][i].kind # "result"
    \/ Unfair

Failures ==
    \/ \E c \in Clients : stage[c] = "failed" \/ Len(records[c]) # FramesPerClient
    \/ \E c \in Clients : \E i \in 1..Len(records[c]) : records[c][i].kind # "result"
    \/ Unfair

Judge ==
    /\ verdict = "running"
    /\ \A c \in Clients : stage[c] \in {"done", "failed"}
    /\ verdict' = IF Failures THEN "fail" ELSE "ok"
    /\ UNCHANGED <<clientVars, serviceVars, inbox, closed, faults>>

-----------------------------------------------------------------------------
Client(c) == SendFrame(c) \/ ConnectFailed(c) \/ Receive(c) \/ TimeOut(c) \/ ConnectionClosed(c)
Service == Grant \/ Finish \/ \E c \in Clients : Take(c)

Urgent ==
    \/ running # Idle /\ running.left = 0
    \/ running = Idle /\ waiting # <<>>
    \/ \E c \in Clients :
          \/ stage[c] = "sleeping" /\ sleep[c] = 0
          \/ stage[c] = "awaiting" /\ (inbox[c] # <<>> \/ closed[c] \/ age[c] >= FrameTimeout)
          \/ conn[c] # <<>> /\ running.client # c /\ \A i \in 1..Len(waiting) : waiting[i] # c

Less(n) == IF n = 0 THEN 0 ELSE n - 1

Tick ==
    /\ ~Urgent /\ \E c \in Clients : stage[c] \in {"sleeping", "awaiting"}
    /\ sleep' = [c \in Clients |-> Less(sleep[c])]
    /\ age' = [c \in Clients |-> IF stage[c] = "awaiting" THEN age[c] + 1 ELSE age[c]]
    /\ running' = [client |-> running.client, left |-> Less(running.left)]
    /\ UNCHANGED <<stage, sent, records, conn, waiting, inbox, closed, faults, verdict>>

Init ==
    /\ stage = [c \in Clients |-> "sleeping"]
    /\ sleep = [c \in Clients |-> StartOffset * (c - 1)]
    /\ sent = [c \in Clients |-> 0] /\ age = [c \in Clients |-> 0]
    /\ records = [c \in Clients |-> <<>>]
    /\ inbox = [c \in Clients |-> <<>>] /\ closed = [c \in Clients |-> FALSE]
    /\ conn = [c \in Clients |-> <<>>]
    /\ waiting = <<>> /\ running = Idle
    /\ faults = {} /\ verdict = "running"

Next ==
    \/ \E c \in Clients : Client(c) \/ CloseWs(c)
    \/ Service \/ Judge \/ Tick

Spec == Init /\ [][Next]_vars

-----------------------------------------------------------------------------
(* The failure modes the probe is written for: a lost reply, an error, a    *)
(* Close, a refused connection or a reply on the wrong WebSocket, at any    *)
(* moment and under any interleaving, is never passed as OK.               *)
EveryFaultIsReported == verdict = "ok" => faults = {}

(* And a service that serves in order, each frame in its time, is not       *)
(* accused, wherever the frames of the clients fall.                       *)
NoFalseAlarm == verdict = "fail" => faults # {}
=============================================================================
