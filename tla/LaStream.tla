------------------------------ MODULE LaStream ------------------------------
(***************************************************************************)
(* The streaming service of LocateAnything: every WebSocket is driven by   *)
(* one task of the Rust frontend (ws.rs, handle_ws), which owns one Unix   *)
(* socket connection (ipc.rs) to the Python worker (la_worker.py,          *)
(* handle_connection).  All worker connections share one asyncio.Lock and  *)
(* one GPU.  The container entrypoint ends both processes when one ends.   *)
(*                                                                         *)
(* A frame is the n-th binary message of a WebSocket, <<c, n>>; its        *)
(* frame_id is that pair.  What a frame contains is abstracted to the      *)
(* outcome of its checks and of its inference.                             *)
(***************************************************************************)
EXTENDS Naturals, Sequences

CONSTANTS
    Conns,      \* the WebSocket connections made while the container lives
    MaxFrames,  \* how many binary messages one client sends at most
    None        \* "no frame", "no reply", "no connection"

Frame == Conns \X (1..MaxFrames)

ASSUME MaxFramesAssumption == MaxFrames \in Nat

VARIABLES
    peer,     \* client end of the WebSocket: idle, open, stalled or left
    sent,     \* number of binary messages the client has sent
    rust,     \* where the handle_ws task of the connection is
    cur,      \* number of binary messages handle_ws has taken
    out,      \* the reply handle_ws is sending to the client
    replies,  \* the text messages handle_ws has sent, in order
    close,    \* the code of the Close frame handle_ws sent, 0 for none
    toPy,     \* requests in the Unix socket
    toRs,     \* replies in the Unix socket
    py,       \* where the handle_connection task of the connection is
    req,      \* the request that task is serving
    result,   \* what asyncio.to_thread returned to that task
    holder,   \* the connection whose task holds WorkerApp.lock
    queue,    \* the connections waiting for the lock, in arrival order
    engine,   \* the frames some thread is running engine.run on
    worker,   \* the Python process: up, stopping (after SIGTERM) or dead
    server,   \* the Rust process: up, draining, exited or killed
    sup       \* the entrypoint: up, stopping (after its kill -TERM) or down

clientVars == <<peer, sent>>
rustVars   == <<rust, cur, out, replies, close>>
udsVars    == <<toPy, toRs>>
taskVars   == <<py, req, result>>
lockVars   == <<holder, queue, engine>>
workerVars == <<taskVars, lockVars>>
procVars   == <<worker, server, sup>>
vars == <<clientVars, rustVars, udsVars, workerVars, procVars>>

-----------------------------------------------------------------------------
(* What can come out of engine.run, and what a reply can say.  "error" is a *)
(* typed error that leaves the WebSocket open (invalid_image, internal,     *)
(* model_deviation, invalid_request); "fatal" is the typed error written    *)
(* before the worker exits; "drift" is a body the egress checks of          *)
(* ipc::infer refuse.                                                       *)
Outcome == {"success", "error", "drift", "oom"}
Body    == {"success", "error", "drift", "fatal"}

(* `id` is the frame_id the reply carries, `of` the frame whose image it    *)
(* speaks of.                                                               *)
Reply  == [id : Frame, of : Frame, body : Body]
Result == [of : Frame, outcome : Outcome]

ASSUME NoneAssumption ==
    None \notin Conns /\ None \notin Frame /\ None \notin Reply /\ None \notin Result

ServerAlive == server \in {"up", "draining"}
Reading(c)  == rust[c] \in {"reading", "notified"}
Busy(c)     == rust[c] \in {"processing", "infer", "sending"}
Ended(c)    == rust[c] \in {"closed", "dropped"}

(* handle_ws owns the WorkerConn: the Rust end of the Unix socket is open   *)
(* from a successful connect until the task returns or the process ends.    *)
UdsHeld(c) == Reading(c) \/ Busy(c)

CurFrame(c) == <<c, cur[c]>>

PeerState   == {"idle", "open", "stalled", "left"}
RustState   == {"none", "connecting", "reading", "notified",
                "processing", "infer", "sending", "closed", "dropped"}
CloseCode   == {0, 1001, 1008, 1011}
PyState     == {"none", "reading", "queued", "running", "exiting", "closed"}
WorkerState == {"up", "stopping", "dead"}
ServerState == {"up", "draining", "exited", "killed"}
SupState    == {"up", "stopping", "down"}

(* Every variable has its type.                                             *)
TypeOK ==
    /\ peer \in [Conns -> PeerState] /\ sent \in [Conns -> 0..MaxFrames]
    /\ rust \in [Conns -> RustState] /\ cur \in [Conns -> 0..MaxFrames]
    /\ out \in [Conns -> Reply \cup {None}]
    /\ replies \in [Conns -> Seq(Reply)]
    /\ close \in [Conns -> CloseCode]
    /\ toPy \in [Conns -> Seq(Frame)] /\ toRs \in [Conns -> Seq(Reply)]
    /\ py \in [Conns -> PyState]
    /\ req \in [Conns -> Frame \cup {None}]
    /\ result \in [Conns -> Result \cup {None}]
    /\ holder \in Conns \cup {None} /\ queue \in Seq(Conns)
    /\ engine \in SUBSET Frame
    /\ worker \in WorkerState /\ server \in ServerState /\ sup \in SupState

Init ==
    /\ peer = [c \in Conns |-> "idle"]
    /\ sent = [c \in Conns |-> 0]
    /\ rust = [c \in Conns |-> "none"]
    /\ cur = [c \in Conns |-> 0]
    /\ out = [c \in Conns |-> None]
    /\ replies = [c \in Conns |-> <<>>]
    /\ close = [c \in Conns |-> 0]
    /\ toPy = [c \in Conns |-> <<>>]
    /\ toRs = [c \in Conns |-> <<>>]
    /\ py = [c \in Conns |-> "none"]
    /\ req = [c \in Conns |-> None]
    /\ result = [c \in Conns |-> None]
    /\ holder = None
    /\ queue = <<>>
    /\ engine = {}
    /\ worker = "up"
    /\ server = "up"
    /\ sup = "up"

-----------------------------------------------------------------------------
(* The client: anything that speaks docs/CLIENT_PROTOCOL.md.  It may send   *)
(* ahead of the replies, stop reading its socket, or go away at any time.   *)

Open(c) ==
    /\ server = "up"                \* the listener still accepts
    /\ peer[c] = "idle"
    /\ peer' = [peer EXCEPT ![c] = "open"]
    /\ rust' = [rust EXCEPT ![c] = "connecting"]
    /\ UNCHANGED <<sent, cur, out, replies, close, udsVars, workerVars, procVars>>

Send(c) ==
    /\ peer[c] = "open"
    /\ ~Ended(c)
    /\ sent[c] < MaxFrames
    /\ sent' = [sent EXCEPT ![c] = @ + 1]
    /\ UNCHANGED <<peer, rustVars, udsVars, workerVars, procVars>>

Stall(c) ==
    /\ peer[c] = "open"
    /\ peer' = [peer EXCEPT ![c] = "stalled"]
    /\ UNCHANGED <<sent, rustVars, udsVars, workerVars, procVars>>

Leave(c) ==
    /\ peer[c] \in {"open", "stalled"}
    /\ peer' = [peer EXCEPT ![c] = "left"]
    /\ UNCHANGED <<sent, rustVars, udsVars, workerVars, procVars>>

-----------------------------------------------------------------------------
(* handle_ws.                                                               *)

(* A send, of a Close frame too, waits for the client to read; the code     *)
(* sets no timeout on it.                                                   *)
CloseWith(c, code) ==
    /\ peer[c] # "stalled"
    /\ rust' = [rust EXCEPT ![c] = "closed"]
    /\ close' = [close EXCEPT ![c] = code]

ConnectWorker(c) ==
    /\ rust[c] = "connecting"
    /\ \/ /\ worker = "up"
          /\ rust' = [rust EXCEPT ![c] = "reading"]
          /\ py' = [py EXCEPT ![c] = "reading"]
          /\ UNCHANGED close
       \/ /\ worker # "up"
          /\ CloseWith(c, 1011)
          /\ UNCHANGED py
    /\ UNCHANGED <<clientVars, cur, out, replies, udsVars, req, result, lockVars, procVars>>

(* The select! loop is biased: a task that shutdown.notified() has woken    *)
(* takes that branch and no other.                                          *)
ShutdownClose(c) ==
    /\ rust[c] = "notified"
    /\ CloseWith(c, 1001)
    /\ UNCHANGED <<clientVars, cur, out, replies, udsVars, workerVars, procVars>>

ReadBinary(c) ==
    /\ rust[c] = "reading"
    /\ cur[c] < sent[c]
    /\ rust' = [rust EXCEPT ![c] = "processing"]
    /\ cur' = [cur EXCEPT ![c] = @ + 1]
    /\ UNCHANGED <<clientVars, out, replies, close, udsVars, workerVars, procVars>>

(* The client closed, a keepalive Ping could not be sent, or the read       *)
(* failed, be the client there or not: the task returns without a Close    *)
(* frame.                                                                   *)
ReadEnd(c) ==
    /\ rust[c] = "reading"
    /\ rust' = [rust EXCEPT ![c] = "closed"]
    /\ UNCHANGED <<clientVars, cur, out, replies, close, udsVars, workerVars, procVars>>

(* Fault: the Close(1008) arm forgets its `return`.                         *)
FatalFramingGoesOn(c) ==
    /\ rust[c] = "processing"
    /\ rust' = [rust EXCEPT ![c] = "reading"]
    /\ close' = [close EXCEPT ![c] = 1008]
    /\ UNCHANGED <<clientVars, cur, out, replies, udsVars, workerVars, procVars>>

(* The three outcomes of process_binary.                                    *)
FatalFraming(c) ==
    /\ rust[c] = "processing"
    /\ CloseWith(c, 1008)
    /\ UNCHANGED <<clientVars, cur, out, replies, udsVars, workerVars, procVars>>

PerFrame(c) ==
    /\ rust[c] = "processing"
    /\ rust' = [rust EXCEPT ![c] = "sending"]
    /\ out' = [out EXCEPT ![c] = [id |-> CurFrame(c), of |-> CurFrame(c), body |-> "error"]]
    /\ UNCHANGED <<clientVars, cur, replies, close, udsVars, workerVars, procVars>>

Pending(c) ==
    /\ rust[c] = "processing"
    /\ \/ /\ py[c] # "closed"
          /\ rust' = [rust EXCEPT ![c] = "infer"]
          /\ toPy' = [toPy EXCEPT ![c] = Append(@, CurFrame(c))]
          /\ UNCHANGED close
       \/ /\ py[c] = "closed"       \* send(header) or send(jpeg) fails
          /\ CloseWith(c, 1011)
          /\ UNCHANGED toPy
    /\ UNCHANGED <<clientVars, cur, out, replies, toRs, workerVars, procVars>>

InferReply(c) ==
    /\ rust[c] = "infer"
    /\ toRs[c] # <<>>
    /\ toRs' = [toRs EXCEPT ![c] = Tail(@)]
    /\ \/ /\ Head(toRs[c]).body # "drift"
          /\ rust' = [rust EXCEPT ![c] = "sending"]
          /\ out' = [out EXCEPT ![c] = Head(toRs[c])]
          /\ UNCHANGED close
       \/ /\ Head(toRs[c]).body = "drift"
          /\ CloseWith(c, 1011)
          /\ UNCHANGED out
    /\ UNCHANGED <<clientVars, cur, replies, toPy, workerVars, procVars>>

(* Fault: the peer's hang-up is acted on before what it wrote is read.      *)
InferEofEarly(c) ==
    /\ rust[c] = "infer"
    /\ py[c] = "closed"
    /\ CloseWith(c, 1011)
    /\ UNCHANGED <<clientVars, cur, out, replies, udsVars, workerVars, procVars>>

(* Fault: infer gives up on a slow worker and keeps the connection.         *)
InferGivesUp(c) ==
    /\ rust[c] = "infer"
    /\ rust' = [rust EXCEPT ![c] = "sending"]
    /\ out' = [out EXCEPT ![c] = [id |-> CurFrame(c), of |-> CurFrame(c), body |-> "error"]]
    /\ UNCHANGED <<clientVars, cur, replies, close, udsVars, workerVars, procVars>>

(* What the worker wrote before it closed is still read: EOF comes last.    *)
InferEof(c) ==
    /\ rust[c] = "infer"
    /\ py[c] = "closed"
    /\ toRs[c] = <<>>
    /\ CloseWith(c, 1011)
    /\ UNCHANGED <<clientVars, cur, out, replies, udsVars, workerVars, procVars>>

(* The reply waits in the same way.                                         *)
SendReply(c) ==
    /\ rust[c] = "sending"
    /\ peer[c] # "stalled"
    /\ rust' = [rust EXCEPT ![c] = "reading"]
    /\ replies' = [replies EXCEPT ![c] = Append(@, out[c])]
    /\ out' = [out EXCEPT ![c] = None]
    /\ UNCHANGED <<clientVars, cur, close, udsVars, workerVars, procVars>>

SendFail(c) ==
    /\ rust[c] = "sending"
    /\ peer[c] = "left"
    /\ rust' = [rust EXCEPT ![c] = "closed"]
    /\ out' = [out EXCEPT ![c] = None]
    /\ UNCHANGED <<clientVars, cur, replies, close, udsVars, workerVars, procVars>>

HandleWs(c) ==
    \/ ConnectWorker(c) \/ ShutdownClose(c) \/ ReadBinary(c) \/ ReadEnd(c)
    \/ FatalFraming(c) \/ PerFrame(c) \/ Pending(c)
    \/ InferReply(c) \/ InferEof(c) \/ SendReply(c) \/ SendFail(c)

-----------------------------------------------------------------------------
(* handle_connection and _infer, tasks of one asyncio event loop.           *)

(* asyncio.to_thread(engine.run, ...) for the request of connection c.      *)
StartEngine(c, f) ==
    /\ holder' = c
    /\ py' = [py EXCEPT ![c] = "running"]
    /\ engine' = engine \cup {f}

(* Fault: a newcomer takes a free lock past the tasks that wait for it.     *)
TakeRequestBarging(c) ==
    /\ worker # "dead"
    /\ py[c] = "reading"
    /\ toPy[c] # <<>>
    /\ toPy' = [toPy EXCEPT ![c] = Tail(@)]
    /\ req' = [req EXCEPT ![c] = Head(toPy[c])]
    /\ \/ holder = None /\ StartEngine(c, Head(toPy[c])) /\ UNCHANGED queue
       \/ /\ holder # None
          /\ py' = [py EXCEPT ![c] = "queued"]
          /\ queue' = Append(queue, c)
          /\ UNCHANGED <<holder, engine>>
    /\ UNCHANGED <<clientVars, rustVars, toRs, result, procVars>>

(* Fault: the request is left in the stream and will be read again.         *)
TakeRequestAgain(c) ==
    /\ worker # "dead"
    /\ py[c] = "reading"
    /\ toPy[c] # <<>>
    /\ req' = [req EXCEPT ![c] = Head(toPy[c])]
    /\ py' = [py EXCEPT ![c] = "queued"]
    /\ queue' = Append(queue, c)
    /\ UNCHANGED <<clientVars, rustVars, udsVars, result, holder, engine, procVars>>

(* Two UDS frames are read, then `async with self.lock`.  asyncio.Lock      *)
(* grants at once only when it is free and nobody waits.                    *)
TakeRequest(c) ==
    /\ worker # "dead"
    /\ py[c] = "reading"
    /\ toPy[c] # <<>>
    /\ toPy' = [toPy EXCEPT ![c] = Tail(@)]
    /\ req' = [req EXCEPT ![c] = Head(toPy[c])]
    /\ \/ /\ holder = None /\ queue = <<>>
          /\ StartEngine(c, Head(toPy[c]))
          /\ UNCHANGED queue
       \/ /\ holder # None \/ queue # <<>>
          /\ py' = [py EXCEPT ![c] = "queued"]
          /\ queue' = Append(queue, c)
          /\ UNCHANGED <<holder, engine>>
    /\ UNCHANGED <<clientVars, rustVars, toRs, result, procVars>>

(* release() has woken the oldest waiter; its task runs.                    *)
GrantLock ==
    /\ holder = None
    /\ queue # <<>>
    /\ StartEngine(Head(queue), req[Head(queue)])
    /\ queue' = Tail(queue)
    /\ UNCHANGED <<clientVars, rustVars, udsVars, req, result, procVars>>

(* A thread ends.  Its result goes to the future of the task that started   *)
(* it; nobody awaits the future of an orphan.                               *)
EngineReturn(f, o) ==
    /\ f \in engine
    /\ engine' = engine \ {f}
    /\ result' = IF py[f[1]] = "running"
                 THEN [result EXCEPT ![f[1]] = [of |-> f, outcome |-> o]]
                 ELSE result
    /\ UNCHANGED <<clientVars, rustVars, udsVars, py, req, holder, queue, procVars>>

(* write_frame: the reply reaches the socket if the peer still holds it;    *)
(* otherwise the ConnectionError ends the task.                             *)
WriteReply(c, r) ==
    \/ /\ UdsHeld(c)
       /\ toRs' = [toRs EXCEPT ![c] = Append(@, r)]
       /\ py' = [py EXCEPT ![c] = "reading"]
    \/ /\ ~UdsHeld(c)
       /\ py' = [py EXCEPT ![c] = "closed"]
       /\ UNCHANGED toRs

(* The thread returned something the task can answer with: the lock is      *)
(* released and the reply written before the event loop runs another task.  *)
Respond(c) ==
    /\ py[c] = "running"
    /\ result[c] # None
    /\ result[c].outcome # "oom"
    /\ WriteReply(c, [id |-> req[c], of |-> result[c].of, body |-> result[c].outcome])
    /\ holder' = None
    /\ req' = [req EXCEPT ![c] = None]
    /\ result' = [result EXCEPT ![c] = None]
    /\ UNCHANGED <<clientVars, rustVars, toPy, queue, engine, procVars>>

(* What is left of the worker when its process has ended.                   *)
WorkerGone ==
    /\ worker' = "dead"
    /\ py' = [c \in Conns |-> IF py[c] = "none" THEN "none" ELSE "closed"]
    /\ req' = [c \in Conns |-> None]
    /\ result' = [c \in Conns |-> None]
    /\ toPy' = [c \in Conns |-> <<>>]
    /\ holder' = None
    /\ queue' = <<>>
    /\ engine' = {}

(* Fault: the timeout is answered like any other error, without the exit.   *)
FatalInferenceSurvives(c) ==
    /\ py[c] = "running"
    /\ WriteReply(c, [id |-> req[c], of |-> req[c], body |-> "fatal"])
    /\ holder' = None
    /\ req' = [req EXCEPT ![c] = None]
    /\ result' = [result EXCEPT ![c] = None]
    /\ UNCHANGED <<clientVars, rustVars, toPy, queue, engine, procVars>>

(* Fault: engine.run is awaited without wait_for; only OOM is fatal.        *)
FatalInferenceNoTimer(c) ==
    /\ py[c] = "running"
    /\ result[c] # None /\ result[c].outcome = "oom"
    /\ toRs' = [toRs EXCEPT ![c] = Append(@, [id |-> req[c], of |-> req[c], body |-> "fatal"])]
    /\ WorkerGone
    /\ UNCHANGED <<clientVars, rustVars, server, sup>>

(* CUDA OOM, or LA_INFERENCE_TIMEOUT_S expired - which the event loop may   *)
(* notice although the thread has just returned.  With a live peer the      *)
(* error is written and os._exit reached in one step of the event loop.     *)
(* With a dead peer writer.drain() yields once: the lock is free, and this  *)
(* task has yet to exit.                                                    *)
FatalInference(c) ==
    /\ py[c] = "running"
    /\ \/ /\ UdsHeld(c)
          /\ toRs' = [toRs EXCEPT ![c] =
                         Append(@, [id |-> req[c], of |-> req[c], body |-> "fatal"])]
          /\ WorkerGone
       \/ /\ ~UdsHeld(c)
          /\ holder' = None
          /\ py' = [py EXCEPT ![c] = "exiting"]
          /\ UNCHANGED <<toPy, toRs, req, result, queue, engine, worker>>
    /\ UNCHANGED <<clientVars, rustVars, server, sup>>

HardExit(c) ==
    /\ py[c] = "exiting"
    /\ WorkerGone
    /\ UNCHANGED <<clientVars, rustVars, toRs, server, sup>>

ReadEof(c) ==
    /\ py[c] = "reading"
    /\ toPy[c] = <<>>
    /\ ~UdsHeld(c)
    /\ py' = [py EXCEPT ![c] = "closed"]
    /\ UNCHANGED <<clientVars, rustVars, udsVars, req, result, lockVars, procVars>>

HandleConnection(c) ==
    TakeRequest(c) \/ Respond(c) \/ FatalInference(c) \/ HardExit(c) \/ ReadEof(c)

(* SIGTERM stops the listener only; the open connections go on.             *)
StopListening ==
    /\ worker = "up"
    /\ sup = "stopping"
    /\ worker' = "stopping"
    /\ UNCHANGED <<clientVars, rustVars, udsVars, workerVars, server, sup>>

(* server.wait_closed() waits for every connection to end, and the drain    *)
(* then finds the lock free.                                                *)
DrainedExit ==
    /\ worker = "stopping"
    /\ \A c \in Conns : py[c] \in {"none", "closed"}
    /\ WorkerGone
    /\ UNCHANGED <<clientVars, rustVars, toRs, server, sup>>

-----------------------------------------------------------------------------
(* The processes and the entrypoint that supervises them.                   *)

(* docker stop: tini and the entrypoint's trap pass SIGTERM to everybody,   *)
(* and the interrupted `wait -n` returns.                                   *)
DockerStop ==
    /\ sup = "up"
    /\ sup' = "stopping"
    /\ UNCHANGED <<clientVars, rustVars, udsVars, workerVars, worker, server>>

(* Fault: the entrypoint waits for the frontend alone.                      *)
ChildEndedServerOnly ==
    /\ sup = "up"
    /\ ~ServerAlive
    /\ sup' = "stopping"
    /\ UNCHANGED <<clientVars, rustVars, udsVars, workerVars, worker, server>>

(* `wait -n` returns because a child ended; SIGTERM to both.                *)
ChildEnded ==
    /\ sup = "up"
    /\ worker = "dead" \/ ~ServerAlive
    /\ sup' = "stopping"
    /\ UNCHANGED <<clientVars, rustVars, udsVars, workerVars, worker, server>>

(* Fault: the notification cancels a task at whatever await it stands.      *)
NotifyWaitersAnywhere ==
    /\ sup = "stopping"
    /\ server = "up"
    /\ server' = "draining"
    /\ rust' = [c \in Conns |-> IF UdsHeld(c) THEN "notified" ELSE rust[c]]
    /\ UNCHANGED <<clientVars, cur, out, replies, close, udsVars, workerVars, worker, sup>>

(* notify_waiters() wakes the tasks that wait in the select! at that        *)
(* moment; the others are told nothing.                                     *)
NotifyWaiters ==
    /\ sup = "stopping"
    /\ server = "up"
    /\ server' = "draining"
    /\ rust' = [c \in Conns |-> IF rust[c] = "reading" THEN "notified" ELSE rust[c]]
    /\ UNCHANGED <<clientVars, cur, out, replies, close, udsVars, workerVars, worker, sup>>

(* The runtime drops every task that has not returned.                      *)
DropTasks ==
    rust' = [c \in Conns |-> IF rust[c] \in {"none", "closed"} THEN rust[c] ELSE "dropped"]

(* main returns 5 s after the notification: time enough for the woken tasks *)
(* to send their Close frames, and for every step that waits for nobody.    *)
ServerExit ==
    /\ server = "draining"
    /\ \A c \in Conns :
           rust[c] \in {"connecting", "notified", "processing"} => peer[c] = "stalled"
    /\ server' = "exited"
    /\ DropTasks
    /\ UNCHANGED <<clientVars, cur, out, replies, close, udsVars, workerVars, worker, sup>>

ServerCrash ==
    /\ ServerAlive
    /\ server' = "killed"
    /\ DropTasks
    /\ UNCHANGED <<clientVars, cur, out, replies, close, udsVars, workerVars, worker, sup>>

WorkerCrash ==
    /\ worker # "dead"
    /\ WorkerGone
    /\ UNCHANGED <<clientVars, rustVars, toRs, server, sup>>

(* kill -KILL, 5 s after the kill -TERM or as soon as both have ended.      *)
Kill ==
    /\ sup = "stopping"
    /\ sup' = "down"
    /\ WorkerGone
    /\ server' = IF ServerAlive THEN "killed" ELSE server
    /\ DropTasks
    /\ UNCHANGED <<clientVars, cur, out, replies, close, toRs>>

(* The container is gone: the only state in which nothing is left to do.    *)
Down ==
    /\ sup = "down"
    /\ UNCHANGED vars

Supervision ==
    StopListening \/ DrainedExit \/ ChildEnded \/ NotifyWaiters \/ ServerExit \/ Kill

Next ==
    \/ \E c \in Conns : Open(c) \/ Send(c) \/ Stall(c) \/ Leave(c)
    \/ \E c \in Conns : HandleWs(c)
    \/ \E c \in Conns : HandleConnection(c)
    \/ GrantLock
    \/ \E f \in Frame, o \in Outcome : EngineReturn(f, o)
    \/ Supervision
    \/ DockerStop \/ ServerCrash \/ WorkerCrash
    \/ Down

Spec == Init /\ [][Next]_vars

(* A task may return over a failed read; only when the client has left must *)
(* it return.                                                               *)
Owed(c) == HandleWs(c) /\ (rust[c] = "reading" /\ rust'[c] = "closed" => peer[c] = "left")

(* Both runtimes run every task that can run, the 600 s timer and the       *)
(* entrypoint's clock go off.  Nothing is assumed of the clients, of the    *)
(* model (engine.run may never return) or of crashes.                       *)
Fairness ==
    /\ \A c \in Conns : WF_vars(Owed(c)) /\ WF_vars(HandleConnection(c))
    /\ WF_vars(GrantLock)
    /\ WF_vars(ChildEnded) /\ WF_vars(NotifyWaiters) /\ WF_vars(Kill)

FairSpec == Spec /\ Fairness

-----------------------------------------------------------------------------
(* Safety.                                                                  *)

(* The GPU runs one inference at a time (la_worker.py: "PyTorch/CUDA cannot *)
(* run two .generate() concurrently"), also around an inference whose       *)
(* timeout left its thread running, as long as the frontend lives.          *)
GpuExclusive == ServerAlive => \A f, g \in engine : f = g

(* Every reply a client gets answers the message at its position, carries   *)
(* that message's frame_id and speaks of that message's image: the n-th     *)
(* text message of a WebSocket belongs to its n-th binary message, whatever *)
(* the other clients, the lock and the threads do in between (ws.rs: no     *)
(* post-hoc stamping of frame_id).                                          *)
Correlated ==
    \A c \in Conns : \A n \in DOMAIN replies[c] :
        /\ n <= cur[c]
        /\ replies[c][n].id = <<c, n>>
        /\ replies[c][n].of = <<c, n>>

(* A WebSocket has at most one request or reply in the Unix socket, the     *)
(* lock queue or the engine, and none unless its handle_ws task waits for   *)
(* it: the framed stream cannot get out of step.                            *)
OneOutstanding ==
    \A c \in Conns :
        ServerAlive =>
            Len(toPy[c]) + Len(toRs[c]) + (IF req[c] # None THEN 1 ELSE 0)
                <= (IF rust[c] = "infer" THEN 1 ELSE 0)

(* A body that ipc::infer refuses never reaches a client.                   *)
EgressEnforced ==
    \A c \in Conns : \A n \in DOMAIN replies[c] : replies[c][n].body # "drift"

(* When the worker took itself down over a frame, the client of that frame  *)
(* is never closed without the typed error (OPERATIONS.md: "the typed error *)
(* reaches the client before the Close"): no Close(1011) is sent while an   *)
(* answer is waiting in the Unix socket.                                    *)
TypedErrorFirst ==
    \A c \in Conns : close[c] = 1011 => \A n \in DOMAIN toRs[c] : toRs[c][n].body # "fatal"

(* Nothing is sent on a WebSocket after its Close frame or after its task   *)
(* has ended, and the code of the Close frame is final.                     *)
CloseIsLast ==
    [][\A c \in Conns : close[c] # 0 \/ Ended(c) =>
          rust'[c] = rust[c] /\ close'[c] = close[c] /\ replies'[c] = replies[c]]_vars

(* The lock goes to whoever waits longest, and to a newcomer only when      *)
(* nobody waits.                                                            *)
FirstComeFirstServed ==
    [][holder' # holder /\ holder' # None => queue = <<>> \/ holder' = Head(queue)]_vars

(* To its clients the whole service is the abstract StopAndWait: no frame   *)
(* is answered twice, skipped or overtaken, and Close(1001), Close(1008)    *)
(* and Close(1011) mean what CLIENT_PROTOCOL.md lets a client conclude of   *)
(* the frame at hand.                                                       *)
Phase ==
    [c \in Conns |-> IF rust[c] = "none" THEN "new"
                     ELSE IF Ended(c) THEN "ended" ELSE "open"]

Client == INSTANCE StopAndWait
              WITH phase <- Phase, taken <- cur, answers <- replies, code <- close

ServesClients == Client!Spec

(* A frame the frontend has taken is settled: answered, or its WebSocket    *)
(* ends - unless its own client stops reading.  One client's hung           *)
(* inference or full socket never leaves another client waiting for ever.   *)
FrameSettled ==
    \A c \in Conns :
        Busy(c) ~> (Reading(c) \/ Ended(c) \/ peer[c] = "stalled")

(* An inference comes to an end: its reply is written, or - it hung, ran    *)
(* out of memory, or its worker died - the whole container goes down for    *)
(* the restart that the hard-recovery contract promises.                    *)
InferenceBounded ==
    \A c \in Conns : py[c] = "running" ~> (py[c] = "reading" \/ sup = "down")

-----------------------------------------------------------------------------
(* Why the safety properties hold: the inductive invariant.                 *)

(* Without its process no handle_ws task is left in the middle of anything. *)
TasksNeedServer ==
    ~ServerAlive => \A c \in Conns : rust[c] \in {"none", "closed", "dropped"}

(* A connection has a handle_ws task once its client has opened it.         *)
TaskPerOpen ==
    \A c \in Conns : peer[c] = "idle" <=> rust[c] = "none"

(* A handle_ws task has answered every message before the one it is at.     *)
FrontOf(c) ==
    /\ Busy(c) => cur[c] = Len(replies[c]) + 1
    /\ ~Busy(c) => Len(replies[c]) <= cur[c]
    /\ rust[c] \in {"none", "connecting", "reading", "notified"} =>
           cur[c] = Len(replies[c])
    /\ rust[c] \in {"none", "connecting"} => cur[c] = 0
    /\ rust[c] = "sending" =>
           /\ out[c] \in Reply
           /\ out[c].id = CurFrame(c) /\ out[c].of = CurFrame(c)
           /\ out[c].body # "drift"

(* What the sockets and the worker hold for c is the frame handle_ws is at. *)
UdsOf(c) ==
    /\ toPy[c] # <<>> => toPy[c] = <<CurFrame(c)>> /\ cur[c] > 0
    /\ ServerAlive =>
           /\ py[c] # "exiting"
           /\ py[c] = "none" \/ rust[c] \notin {"none", "connecting"}
           /\ py[c] \in {"queued", "running"} =>
                  /\ rust[c] = "infer" /\ req[c] = CurFrame(c)
                  /\ toPy[c] = <<>> /\ toRs[c] = <<>>
           /\ toPy[c] # <<>> =>
                  rust[c] = "infer" /\ toRs[c] = <<>> /\ py[c] # "closed"
           /\ toRs[c] # <<>> =>
                  /\ rust[c] = "infer"
                  /\ Len(toRs[c]) = 1
                  /\ toRs[c][1].id = CurFrame(c) /\ toRs[c][1].of = CurFrame(c)

(* What a handle_connection task holds while it serves a request.           *)
TaskOf(c) ==
    /\ req[c] # None <=> py[c] \in {"queued", "running", "exiting"}
    /\ req[c] # None => req[c][1] = c
    /\ result[c] # None => py[c] \in {"running", "exiting"} /\ result[c].of = req[c]

(* The lock: its holder runs, its waiters are queued once, and a thread     *)
(* works for a task that runs or is about to end the process.               *)
LockInv ==
    /\ \A c \in Conns : holder = c <=> py[c] = "running"
    /\ \A i \in DOMAIN queue : py[queue[i]] = "queued"
    /\ \A i, j \in DOMAIN queue : queue[i] = queue[j] => i = j
    /\ \A f \in engine : /\ py[f[1]] \in {"running", "exiting"}
                         /\ req[f[1]] = f /\ result[f[1]] = None

IInv ==
    /\ TypeOK
    /\ TasksNeedServer
    /\ TaskPerOpen
    /\ \A c \in Conns : FrontOf(c) /\ UdsOf(c) /\ TaskOf(c)
    /\ LockInv
    /\ Correlated
    /\ EgressEnforced

-----------------------------------------------------------------------------
(* What the documents say and the code does not do.                         *)

(* state.rs:8-13: on the shutdown notification "every WebSocket handler     *)
(* ... sends a graceful Close(1001)" before its connection is dropped, when *)
(* the frontend goes through its whole shutdown sequence.                   *)
EveryHandlerSaysGoodbye ==
    server = "exited" => \A c \in Conns : rust[c] # "dropped"
=============================================================================
