--------------------------- MODULE ReferenceClient ---------------------------
(***************************************************************************)
(* The reference client (examples/reference_client.py): one event loop     *)
(* with main_async and, per connection, the coroutines sender and receiver;*)
(* per connection also one capture thread.  Sender waits for the queue in a *)
(* thread of the default executor, which has min(32, cpus + 4) of them for *)
(* all connections.  Nothing of a connection is awaited by the next one:   *)
(* threads and coroutines of earlier runs live on beside it.               *)
(*                                                                         *)
(* A run is one turn of the while loop of main_async, also when it does    *)
(* not connect.  A frame is the value "frame"; its picture, its number and *)
(* the header sent with it are left out.  The server drains and closes as  *)
(* it pleases.                                                             *)
(***************************************************************************)
EXTENDS Integers, Sequences, FiniteSets

CONSTANTS
    MaxRuns,        \* bound: turns of the loop of main_async
    MaxConnections, \* bound: those of them that do connect
    QueueMax,       \* --queue-max
    PoolSize,       \* threads of the default executor
    MaxErrors,      \* --max-consecutive-errors
    BaseDelay,      \* --reconnect-delay, in seconds
    MaxDelay,       \* 60 s, or BaseDelay when that is longer
    NoReconnect,    \* --no-reconnect
    Exclusive,      \* the source is a device that one reader can have open
    Flaky           \* the source may fail to open on its own account

ASSUME ClientAssumption ==
    /\ MaxRuns \in Nat \ {0} /\ MaxConnections \in 1..MaxRuns /\ QueueMax \in Nat \ {0}
    /\ PoolSize \in Nat \ {0} /\ MaxErrors \in Nat \ {0}
    /\ BaseDelay \in Nat \ {0} /\ MaxDelay \in Nat /\ BaseDelay <= MaxDelay
    /\ {NoReconnect, Exclusive, Flaky} \subseteq BOOLEAN

VARIABLES
    phase,          \* where main_async is
    run,            \* the number of the current run
    errors,         \* consecutive_errors
    delay,          \* the last backoff, in half seconds
    code,           \* the exit status
    conn,           \* per run: the WebSocket, open, or how main_async takes its end
    queue,          \* per run: q
    stop,           \* per run: stop_event
    thread,         \* per run: the capture thread
    holders,        \* the runs whose capture thread has the source open
    sender,         \* per run: the coroutine sender and its call in the executor
    receiver        \* per run: the coroutine receiver

mainVars == <<phase, run, errors, delay, code>>
taskVars == <<sender, receiver>>
captureVars == <<stop, thread, holders>>
vars == <<mainVars, conn, queue, captureVars, taskVars>>

Runs == 1..MaxRuns
Connected == {r \in Runs : receiver[r] # "none"}

(* The coroutines of any run take a step only while the loop is not blocked *)
(* in t.join and not being shut down.                                      *)
LoopRuns == phase \in {"connecting", "running", "deciding", "sleeping"}

-----------------------------------------------------------------------------
(* The capture thread of run r.                                            *)

(* VideoCapture and isOpened: a source that does not open sets the event   *)
(* and returns, before the try whose finally queues the sentinel.          *)
Open(r) ==
    /\ thread[r] = "opening"
    /\ \/ /\ Exclusive => holders = {}
          /\ thread' = [thread EXCEPT ![r] = "loop"]
          /\ holders' = holders \union {r}
          /\ UNCHANGED stop
       \/ /\ Flaky \/ (Exclusive /\ holders # {})
          /\ thread' = [thread EXCEPT ![r] = "unopened"]
          /\ stop' = [stop EXCEPT ![r] = TRUE]
          /\ UNCHANGED holders
    /\ UNCHANGED <<mainVars, conn, queue, taskVars>>

(* The while condition. *)
CheckStop(r) ==
    /\ thread[r] = "loop"
    /\ thread' = [thread EXCEPT ![r] = IF stop[r] THEN "finally" ELSE "read"]
    /\ UNCHANGED <<mainVars, conn, queue, stop, holders, taskVars>>

ReadFrame(r) ==
    /\ thread[r] = "read"
    /\ thread' = [thread EXCEPT ![r] = "put"]
    /\ UNCHANGED <<mainVars, conn, queue, stop, holders, taskVars>>

(* cap.read fails: the end of the file, or the stream is lost. *)
EndOfSource(r) ==
    /\ thread[r] = "read"
    /\ thread' = [thread EXCEPT ![r] = "finally"]
    /\ UNCHANGED <<mainVars, conn, queue, stop, holders, taskVars>>

PutFrameWhileConnected(r) ==
    /\ thread[r] = "put" /\ conn[r] = "open"
    /\ Len(queue[r]) < QueueMax
    /\ queue' = [queue EXCEPT ![r] = Append(@, "frame")]
    /\ thread' = [thread EXCEPT ![r] = "loop"]
    /\ UNCHANGED <<mainVars, conn, stop, holders, taskVars>>

(* q.put blocks while the queue is full, whatever happens to the event. *)
PutFrame(r) ==
    /\ thread[r] = "put"
    /\ Len(queue[r]) < QueueMax
    /\ queue' = [queue EXCEPT ![r] = Append(@, "frame")]
    /\ thread' = [thread EXCEPT ![r] = "loop"]
    /\ UNCHANGED <<mainVars, conn, stop, holders, taskVars>>

Release(r) ==
    /\ thread[r] = "finally"
    /\ holders' = holders \ {r}
    /\ thread' = [thread EXCEPT ![r] = "sentinel"]
    /\ UNCHANGED <<mainVars, conn, queue, stop, taskVars>>

PutSentinelUnlessStopped(r) ==
    /\ thread[r] = "sentinel"
    /\ stop[r] \/ Len(queue[r]) < QueueMax
    /\ queue' = [queue EXCEPT ![r] = IF stop[r] THEN @ ELSE Append(@, "none")]
    /\ thread' = [thread EXCEPT ![r] = "done"]
    /\ UNCHANGED <<mainVars, conn, stop, holders, taskVars>>

PutSentinel(r) ==
    /\ thread[r] = "sentinel"
    /\ Len(queue[r]) < QueueMax
    /\ queue' = [queue EXCEPT ![r] = Append(@, "none")]
    /\ thread' = [thread EXCEPT ![r] = "done"]
    /\ UNCHANGED <<mainVars, conn, stop, holders, taskVars>>

-----------------------------------------------------------------------------
(* The coroutines of run r and the calls of its sender in the executor.    *)

HasFreeThread == Cardinality({r \in Runs : sender[r] = "getting"}) < PoolSize

(* The call of q.get starts when a thread of the pool is free; a call that *)
(* has not started when the loop is shut down is cancelled.                *)
TakeThread(r) ==
    /\ phase \notin {"exiting", "exited"}
    /\ sender[r] = "submitted" /\ HasFreeThread
    /\ sender' = [sender EXCEPT ![r] = "getting"]
    /\ UNCHANGED <<mainVars, conn, queue, captureVars, receiver>>

(* q.get returns, in the executor: also while the loop is blocked or gone. *)
ExecutorGet(r) ==
    /\ sender[r] = "getting"
    /\ queue[r] # <<>>
    /\ queue' = [queue EXCEPT ![r] = Tail(@)]
    /\ sender' = [sender EXCEPT ![r] = IF Head(queue[r]) = "none" THEN "got_none"
                                                                  ELSE "got_frame"]
    /\ UNCHANGED <<mainVars, conn, captureVars, receiver>>

(* The sentinel ends the coroutine. *)
SenderReturns(r) ==
    /\ LoopRuns
    /\ sender[r] = "got_none"
    /\ sender' = [sender EXCEPT ![r] = "returned"]
    /\ UNCHANGED <<mainVars, conn, queue, captureVars, receiver>>

EncodeOrReturn(r) ==
    /\ LoopRuns
    /\ sender[r] = "got_frame" /\ HasFreeThread
    /\ \E next \in {"sending", "returned"} : sender' = [sender EXCEPT ![r] = next]
    /\ UNCHANGED <<mainVars, conn, queue, captureVars, receiver>>

(* encode_jpeg, in a thread of the same pool; a frame that does not encode *)
(* is skipped.                                                             *)
Encode(r) ==
    /\ LoopRuns
    /\ sender[r] = "got_frame" /\ HasFreeThread
    /\ \E next \in {"sending", "submitted"} : sender' = [sender EXCEPT ![r] = next]
    /\ UNCHANGED <<mainVars, conn, queue, captureVars, receiver>>

(* ws.send returns once the server has drained enough. *)
Sent(r) ==
    /\ LoopRuns
    /\ sender[r] = "sending" /\ conn[r] = "open"
    /\ sender' = [sender EXCEPT ![r] = "submitted"]
    /\ UNCHANGED <<mainVars, conn, queue, captureVars, receiver>>

(* ... and raises on a connection that is closed, also while it waits. *)
SendRaises(r) ==
    /\ LoopRuns
    /\ sender[r] = "sending" /\ conn[r] \in {"ok", "err"}
    /\ sender' = [sender EXCEPT ![r] = "raised"]
    /\ UNCHANGED <<mainVars, conn, queue, captureVars, receiver>>

(* A reply is only logged, but one that is no object or lacks a field of   *)
(* its type raises, on a connection that is open.                          *)
UnexpectedReply(r) ==
    /\ LoopRuns
    /\ receiver[r] = "receiving" /\ conn[r] = "open"
    /\ receiver' = [receiver EXCEPT ![r] = "raised"]
    /\ UNCHANGED <<mainVars, conn, queue, captureVars, sender>>

(* async for ends on a normal close and raises on another. *)
ReceiverEnds(r) ==
    /\ LoopRuns
    /\ receiver[r] = "receiving" /\ conn[r] \in {"ok", "err"}
    /\ receiver' = [receiver EXCEPT ![r] = IF conn[r] = "ok" THEN "returned" ELSE "raised"]
    /\ UNCHANGED <<mainVars, conn, queue, captureVars, sender>>

-----------------------------------------------------------------------------
(* main_async and run_once.                                                *)

Exit(status) == phase' = "exiting" /\ code' = status

(* fetch_capabilities and build_request. *)
Prepare ==
    /\ phase = "start"
    /\ \/ phase' = "connecting" /\ UNCHANGED code
       \/ Exit(2)
       \/ Exit(1)
    /\ UNCHANGED <<run, errors, delay, conn, queue, captureVars, taskVars>>

(* websockets.connect, then the queue, the event, the thread and gather. *)
Connect ==
    /\ phase = "connecting"
    /\ run < MaxRuns /\ Cardinality(Connected) < MaxConnections
    /\ run' = run + 1
    /\ phase' = "running"
    /\ conn' = [conn EXCEPT ![run'] = "open"]
    /\ thread' = [thread EXCEPT ![run'] = "opening"]
    /\ sender' = [sender EXCEPT ![run'] = "submitted"]
    /\ receiver' = [receiver EXCEPT ![run'] = "receiving"]
    /\ UNCHANGED <<errors, delay, code, queue, stop, holders>>

ConnectFails ==
    /\ phase = "connecting"
    /\ run < MaxRuns
    /\ run' = run + 1
    /\ conn' = [conn EXCEPT ![run'] = "err"]
    /\ errors' = errors + 1
    /\ phase' = "deciding"
    /\ UNCHANGED <<delay, code, queue, captureVars, taskVars>>

(* The server, the network or the client's own ping timeout: 1000 and 1001 *)
(* are "ok", every other code and a lost connection "err", and so is every *)
(* close after the receiver has raised: its exception is the one that counts. *)
Close ==
    /\ run > 0 /\ conn[run] = "open"
    /\ \E how \in IF receiver[run] = "raised" THEN {"err"} ELSE {"ok", "err"} : conn' = [conn EXCEPT ![run] = how]
    /\ UNCHANGED <<mainVars, queue, captureVars, taskVars>>

(* gather returns when both have returned and raises when the first one    *)
(* raises, without cancelling the other; the finally sets the event.       *)
GatherEnds ==
    /\ phase = "running"
    /\ \/ "raised" \in {sender[run], receiver[run]}
       \/ sender[run] = "returned" /\ receiver[run] = "returned"
    /\ stop' = [stop EXCEPT ![run] = TRUE]
    /\ phase' = "joining"
    /\ UNCHANGED <<run, errors, delay, code, conn, queue, thread, holders, taskVars>>

EndedWell == conn[run] = "ok"

JoinedAlwaysCounts ==
    /\ phase = "joining"
    /\ errors' = errors + 1
    /\ conn' = [conn EXCEPT ![run] = IF EndedWell THEN "ok" ELSE "err"]
    /\ phase' = "deciding"
    /\ UNCHANGED <<run, delay, code, queue, captureVars, taskVars>>

(* t.join returns after 2 s at the latest, connect's __aexit__ closes what *)
(* is still open, and the clauses of the try count.                        *)
Joined ==
    /\ phase = "joining"
    /\ errors' = IF EndedWell THEN 0 ELSE errors + 1
    /\ conn' = [conn EXCEPT ![run] = IF EndedWell THEN "ok" ELSE "err"]
    /\ phase' = "deciding"
    /\ UNCHANGED <<run, delay, code, queue, captureVars, taskVars>>

BackoffReversed(e) == (2 * BaseDelay) \div (2 ^ e)

(* min(max_delay, base_delay * 2 ** (errors - 1)), in half seconds. *)
Backoff(e) ==
    IF BaseDelay * 2 ^ e <= 2 * MaxDelay THEN BaseDelay * 2 ^ e ELSE 2 * MaxDelay

Decide ==
    /\ phase = "deciding"
    /\ IF NoReconnect THEN Exit(0) /\ UNCHANGED delay
       ELSE IF errors >= MaxErrors THEN Exit(2) /\ UNCHANGED delay
       ELSE /\ delay' = Backoff(errors)
            /\ phase' = "sleeping"
            /\ UNCHANGED code
    /\ UNCHANGED <<run, errors, conn, queue, captureVars, taskVars>>

Wake ==
    /\ phase = "sleeping"
    /\ phase' = "connecting"
    /\ UNCHANGED <<run, errors, delay, code, conn, queue, captureVars, taskVars>>

(* asyncio.run cancels the coroutines and with them the calls that wait for *)
(* a thread, but joins the executor's threads; the capture threads are     *)
(* daemons.                                                                *)
ExitProcess ==
    /\ phase = "exiting"
    /\ \A r \in Runs : sender[r] # "getting"
    /\ phase' = "exited"
    /\ UNCHANGED <<run, errors, delay, code, conn, queue, captureVars, taskVars>>

-----------------------------------------------------------------------------
Init ==
    /\ phase = "start" /\ run = 0 /\ errors = 0 /\ delay = 0 /\ code = 0
    /\ conn = [r \in Runs |-> "none"]
    /\ queue = [r \in Runs |-> <<>>]
    /\ stop = [r \in Runs |-> FALSE]
    /\ thread = [r \in Runs |-> "none"]
    /\ holders = {}
    /\ sender = [r \in Runs |-> "none"]
    /\ receiver = [r \in Runs |-> "none"]

Capture(r) ==
    /\ phase # "exited"
    /\ \/ Open(r) \/ CheckStop(r) \/ ReadFrame(r) \/ EndOfSource(r)
       \/ PutFrame(r) \/ Release(r) \/ PutSentinel(r)

Sender(r) == SenderReturns(r) \/ Encode(r) \/ Sent(r) \/ SendRaises(r)

Main == Prepare \/ Connect \/ ConnectFails \/ GatherEnds \/ Joined \/ Decide
            \/ Wake \/ ExitProcess

Next ==
    \/ Main \/ Close
    \/ \E r \in Runs : \/ Capture(r) \/ TakeThread(r) \/ ExecutorGet(r)
                       \/ Sender(r) \/ UnexpectedReply(r) \/ ReceiverEnds(r)

Spec == Init /\ [][Next]_vars

(* The scheduler runs every thread and every coroutine that can go on.     *)
(* The executor's queue is first in, first out: a call gets its thread if  *)
(* threads come back again and again.  Nothing makes a connection close or *)
(* a reply unexpected; a live server drains what is sent.                  *)
FairSpec ==
    /\ Spec
    /\ WF_vars(Main)
    /\ \A r \in Runs : /\ WF_vars(Capture(r)) /\ WF_vars(ExecutorGet(r))
                       /\ WF_vars(Sender(r)) /\ WF_vars(ReceiverEnds(r))
                       /\ SF_vars(TakeThread(r) \/ Encode(r))

-----------------------------------------------------------------------------
Phase == {"start", "connecting", "running", "joining", "deciding", "sleeping",
          "exiting", "exited"}
ThreadState == {"none", "opening", "unopened", "loop", "read", "put", "finally",
                "sentinel", "done"}
SenderState == {"none", "submitted", "getting", "got_none", "got_frame", "sending",
                "returned", "raised"}

TypeOK ==
    /\ phase \in Phase /\ run \in 0..MaxRuns /\ errors \in 0..MaxErrors
    /\ delay <= 2 * MaxDelay /\ code \in 0..2
    /\ conn \in [Runs -> {"none", "open", "ok", "err"}]
    /\ queue \in [Runs -> Seq({"frame", "none"})]
    /\ \A r \in Runs : Len(queue[r]) <= QueueMax
    /\ stop \in [Runs -> BOOLEAN]
    /\ thread \in [Runs -> ThreadState]
    /\ holders \subseteq Runs
    /\ sender \in [Runs -> SenderState]
    /\ receiver \in [Runs -> {"none", "receiving", "returned", "raised"}]

(* A sender that returns has sent every frame of its source (or logged that *)
(* it does not encode): the sentinel is never taken before the frames, and *)
(* nothing is read after it.                                               *)
NothingLeftBehind ==
    \A r \in Runs : sender[r] = "returned" => thread[r] = "done" /\ queue[r] = <<>>

(* The client gives up exactly when the last MaxErrors runs have all failed:*)
(* a normal close or a planned restart between them starts the count anew. *)
LastRunsFailed(n) == run >= n /\ \A r \in (run - n + 1)..run : conn[r] = "err"

GivesUpWhenPersistent ==
    /\ phase \in {"exiting", "exited"} /\ code = 2 /\ run > 0 => LastRunsFailed(MaxErrors)
    /\ phase \in {"sleeping", "connecting", "running"} =>
           ~ \E r \in Runs : /\ r + MaxErrors - 1 <= run
                             /\ \A i \in r..(r + MaxErrors - 1) : conn[i] = "err"
                             /\ r + MaxErrors - 1 < run \/ phase # "running"

(* As long as runs fail one after the other, no pause is shorter than the   *)
(* one before it.                                                          *)
BackoffNeverShrinks ==
    [][phase = "deciding" /\ phase' = "sleeping" /\ LastRunsFailed(2) => delay' >= delay]_vars

(* Every thread of the pool is in a q.get of a run whose source did not    *)
(* open.                                                                   *)
PoolIsLost ==
    Cardinality({r \in Runs : sender[r] = "getting" /\ thread[r] = "unopened"}) = PoolSize

(* A capture thread that has been told to stop ends.  The one exception: it *)
(* waits for room in a full queue whose sender has been ended by the closed *)
(* connection, or gets no step any more because the pool is lost or the    *)
(* client is gone but for its executor.  Above all it is not left waiting  *)
(* while its sender can read.                                              *)
StoppedThreadEnds ==
    \A r \in Runs :
        <>(stop[r]) => \/ <>(thread[r] \in {"done", "unopened"} \/ phase = "exited")
                       \/ <>[](/\ thread[r] \in {"put", "sentinel"} /\ Len(queue[r]) = QueueMax
                               /\ sender[r] = "raised" \/ PoolIsLost \/ phase = "exiting")

(* The call of q.get of a run that is over gets its thread and gives it    *)
(* back.  It keeps it for ever only when its source never opened, for then *)
(* nothing is queued, the sentinel neither; and it never gets one only     *)
(* when such runs have taken them all, or the client is about to exit.     *)
ExecutorThreadComesBack ==
    \A r \in Runs :
        conn[r] \in {"ok", "err"} ~>
            \/ sender[r] \notin {"submitted", "getting"} \/ phase = "exited"
            \/ sender[r] = "getting" /\ thread[r] = "unopened"
            \/ sender[r] = "submitted" /\ (PoolIsLost \/ phase = "exiting")

(* main_async, "aborts loudly": a client that gives up is gone.  It is not, *)
(* when an executor thread waits for a sentinel nobody will queue.         *)
ClientExits == phase = "exiting" ~> phase = "exited"
=============================================================================
