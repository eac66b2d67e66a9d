--------------------------- MODULE LaStreamProofs ---------------------------
(***************************************************************************)
(* Proofs about LaStream for every set of connections and every number of  *)
(* frames: the inductive invariant IInv, what follows from it, and that    *)
(* LaStream implements StopAndWait.                                        *)
(***************************************************************************)
EXTENDS LaStream, SequenceTheorems, TLAPS

-----------------------------------------------------------------------------
(* A frame is a pair whose first half is its connection.                    *)
LEMMA FrameFacts ==
    /\ None \notin Conns /\ None \notin Frame
    /\ \A c \in Conns, n \in 1..MaxFrames : <<c, n>> \in Frame
    /\ \A f \in Frame : f[1] \in Conns /\ f = <<f[1], f[2]>> /\ f[2] \in 1..MaxFrames
BY NoneAssumption DEF Frame

(* The frame handle_ws is at, once it has taken a message.                  *)
LEMMA CurFrameIsFrame ==
    ASSUME TypeOK, NEW c \in Conns, cur[c] # 0
    PROVE  CurFrame(c) \in Frame
BY MaxFramesAssumption DEF TypeOK, CurFrame, Frame

(* Sequences of one message, as the Unix socket holds them.                 *)
LEMMA OneMessage ==
    ASSUME NEW S, NEW x \in S
    PROVE  /\ Append(<<>>, x) = <<x>>
           /\ <<x>> \in Seq(S) /\ Len(<<x>>) = 1 /\ <<x>>[1] = x
           /\ Head(<<x>>) = x /\ Tail(<<x>>) = <<>>
OBVIOUS

LEMMA LastMessage ==
    ASSUME NEW S, NEW s \in Seq(S), Len(s) = 1
    PROVE  s[1] \in S /\ Head(s) = s[1] /\ Tail(s) = <<>>
<1>1. 1 \in DOMAIN s /\ s # <<>>
  OBVIOUS
<1>2. Tail(s) \in Seq(S) /\ Len(Tail(s)) = 0
  BY <1>1, HeadTailProperties
<1>3. Tail(s) = <<>>
  BY <1>2, EmptySeq
<1> QED BY <1>1, <1>3

-----------------------------------------------------------------------------
(* Type correctness, one step per action.  The other parts of IInv supply    *)
(* what the guards leave unsaid: that the frame at hand is a frame.         *)

LEMMA ClientType ==
    ASSUME TypeOK, NEW c \in Conns, Open(c) \/ Send(c) \/ Stall(c) \/ Leave(c)
    PROVE  TypeOK'
<1> USE DEF TypeOK, rustVars, udsVars, workerVars, taskVars, lockVars, procVars
<1>1. CASE Open(c)
  BY <1>1 DEF Open, PeerState, RustState
<1>2. CASE Send(c)
  <2>1. sent[c] + 1 \in 0..MaxFrames
    BY <1>2, MaxFramesAssumption DEF Send
  <2> QED BY <1>2, <2>1 DEF Send
<1>3. CASE Stall(c)
  BY <1>3 DEF Stall, PeerState
<1>4. CASE Leave(c)
  BY <1>4 DEF Leave, PeerState
<1> QED BY <1>1, <1>2, <1>3, <1>4

LEMMA HandleWsType ==
    ASSUME IInv, NEW c \in Conns, HandleWs(c)
    PROVE  TypeOK'
<1> USE DEF TypeOK, clientVars, udsVars, workerVars, taskVars, lockVars, procVars
<1>1. TypeOK /\ FrontOf(c) /\ UdsOf(c)
  BY DEF IInv
<1>2. Busy(c) => CurFrame(c) \in Frame
  <2>1. Busy(c) => cur[c] # 0
    BY <1>1 DEF FrontOf
  <2> QED BY <1>1, <2>1, CurFrameIsFrame
<1> DEFINE error == [id |-> CurFrame(c), of |-> CurFrame(c), body |-> "error"]
<1>3. Busy(c) => error \in Reply
  BY <1>2 DEF Reply, Body
<1> HIDE DEF error
<1> DEFINE Closing == CloseWith(c, 1001) \/ CloseWith(c, 1008) \/ CloseWith(c, 1011)
<1>4. Closing => rust' \in [Conns -> RustState] /\ close' \in [Conns -> CloseCode]
  <2>1. {1001, 1008, 1011} \subseteq CloseCode /\ "closed" \in RustState
    BY DEF CloseCode, RustState
  <2>2. rust \in [Conns -> RustState] /\ close \in [Conns -> CloseCode]
    BY <1>1
  <2> QED BY <2>1, <2>2 DEF CloseWith
<1>5. CASE ConnectWorker(c)
  <2>1. rust' \in [Conns -> RustState] /\ close' \in [Conns -> CloseCode]
    <3>1. CASE worker = "up"
      BY <1>1, <1>5, <3>1 DEF ConnectWorker, RustState
    <3>2. CASE worker # "up"
      BY <1>4, <1>5, <3>2 DEF ConnectWorker
    <3> QED BY <3>1, <3>2
  <2>2. py' \in [Conns -> PyState]
    BY <1>1, <1>5 DEF ConnectWorker, PyState
  <2> QED BY <1>1, <1>5, <2>1, <2>2, ZenonT(40) DEF ConnectWorker
<1>6. CASE ShutdownClose(c)
  BY <1>1, <1>4, <1>6, SMTT(30) DEF ShutdownClose
<1>7. CASE ReadBinary(c)
  <2>1. cur[c] + 1 \in 0..MaxFrames
    BY <1>1, <1>7, MaxFramesAssumption DEF ReadBinary
  <2> QED BY <1>1, <1>7, <2>1 DEF ReadBinary, RustState
<1>8. CASE ReadEnd(c)
  BY <1>1, <1>8 DEF ReadEnd, RustState
<1>9. CASE FatalFraming(c)
  BY <1>1, <1>4, <1>9, SMTT(30) DEF FatalFraming
<1>10. CASE PerFrame(c)
  <2>1. out' = [out EXCEPT ![c] = error] /\ error \in Reply
    BY <1>3, <1>10 DEF PerFrame, Busy, error
  <2> QED BY <1>1, <1>10, <2>1 DEF PerFrame, RustState
<1>11. CASE Pending(c)
  <2>1. Append(toPy[c], CurFrame(c)) \in Seq(Frame)
    BY <1>1, <1>2, <1>11 DEF Pending, Busy
  <2>2. toPy' \in [Conns -> Seq(Frame)]
    BY <1>1, <1>11, <2>1, ZenonT(40) DEF Pending
  <2>3. rust' \in [Conns -> RustState] /\ close' \in [Conns -> CloseCode]
    <3>1. CASE py[c] # "closed"
      BY <1>1, <1>11, <3>1, ZenonT(40) DEF Pending, RustState
    <3>2. CASE py[c] = "closed"
      BY <1>4, <1>11, <3>2 DEF Pending
    <3> QED BY <3>1, <3>2
  <2>4. UNCHANGED <<clientVars, cur, out, replies, toRs, workerVars, procVars>>
    BY <1>11 DEF Pending
  <2> QED BY <1>1, <2>2, <2>3, <2>4
<1>12. CASE InferReply(c)
  <2>1. Head(toRs[c]) \in Reply /\ Tail(toRs[c]) \in Seq(Reply)
    BY <1>1, <1>12 DEF InferReply
  <2>2. toRs' \in [Conns -> Seq(Reply)]
    BY <1>1, <1>12, <2>1 DEF InferReply
  <2>3. rust' \in [Conns -> RustState] /\ close' \in [Conns -> CloseCode]
    <3>1. \/ rust' = [rust EXCEPT ![c] = "sending"] /\ UNCHANGED close
          \/ CloseWith(c, 1011)
      BY <1>12 DEF InferReply
    <3> QED BY <1>1, <1>4, <3>1, ZenonT(40) DEF RustState
  <2>4. out' \in [Conns -> Reply \cup {None}]
    BY <1>1, <1>12, <2>1, ZenonT(40) DEF InferReply
  <2>5. UNCHANGED <<clientVars, cur, replies, toPy, workerVars, procVars>>
    BY <1>12 DEF InferReply
  <2> QED BY <1>1, <2>2, <2>3, <2>4, <2>5
<1>13. CASE InferEof(c)
  <2>1. /\ CloseWith(c, 1011)
        /\ UNCHANGED <<clientVars, cur, out, replies, udsVars, workerVars, procVars>>
    BY <1>13 DEF InferEof
  <2> QED BY <1>1, <1>4, <2>1, SMTT(30)
<1>14. CASE SendReply(c)
  <2>1. out[c] \in Reply
    BY <1>1, <1>14 DEF SendReply, FrontOf
  <2>2. Append(replies[c], out[c]) \in Seq(Reply)
    BY <1>1, <2>1
  <2> QED BY <1>1, <1>14, <2>2 DEF SendReply, RustState
<1>15. CASE SendFail(c)
  BY <1>1, <1>15 DEF SendFail, RustState
<1> QED
  BY <1>5, <1>6, <1>7, <1>8, <1>9, <1>10, <1>11, <1>12, <1>13, <1>14, <1>15 DEF HandleWs

(* What the process leaves when it ends is well typed.                      *)
LEMMA WorkerGoneType ==
    ASSUME TypeOK, WorkerGone
    PROVE  /\ worker' \in WorkerState /\ py' \in [Conns -> PyState]
           /\ req' \in [Conns -> Frame \cup {None}]
           /\ result' \in [Conns -> Result \cup {None}]
           /\ toPy' \in [Conns -> Seq(Frame)]
           /\ holder' \in Conns \cup {None} /\ queue' \in Seq(Conns)
           /\ engine' \in SUBSET Frame
BY DEF TypeOK, WorkerGone, WorkerState, PyState

(* The oldest waiter of a non-empty queue, and the frame it waits with.     *)
LEMMA OldestWaiter ==
    ASSUME IInv, queue # <<>>
    PROVE  /\ Head(queue) \in Conns /\ Tail(queue) \in Seq(Conns)
           /\ py[Head(queue)] = "queued" /\ req[Head(queue)] \in Frame
<1>1. Head(queue) \in Conns /\ Tail(queue) \in Seq(Conns)
  BY DEF IInv, TypeOK
<1>2. 1 \in DOMAIN queue /\ Head(queue) = queue[1]
  BY DEF IInv, TypeOK
<1>3. py[Head(queue)] = "queued"
  BY <1>2 DEF IInv, LockInv
<1> QED BY <1>1, <1>3 DEF IInv, TaskOf, TypeOK

LEMMA HandleConnectionType ==
    ASSUME IInv, NEW c \in Conns, HandleConnection(c)
    PROVE  TypeOK'
<1> USE DEF TypeOK, clientVars, rustVars, udsVars, lockVars, procVars
<1>1. TypeOK /\ TaskOf(c)
  BY DEF IInv
<1>2. CASE TakeRequest(c)
  <2>1. Head(toPy[c]) \in Frame /\ Tail(toPy[c]) \in Seq(Frame)
    BY <1>1, <1>2 DEF TakeRequest
  <2>2. py' \in [Conns -> PyState]
    BY <1>1, <1>2 DEF TakeRequest, StartEngine, PyState
  <2>3. Append(queue, c) \in Seq(Conns)
    BY <1>1
  <2>4. /\ queue' \in Seq(Conns) /\ holder' \in Conns \cup {None}
        /\ engine' \in SUBSET Frame
    BY <1>1, <1>2, <2>1, <2>3 DEF TakeRequest, StartEngine
  <2> QED BY <1>1, <1>2, <2>1, <2>2, <2>4 DEF TakeRequest
<1>3. CASE Respond(c)
  <2> DEFINE r == [id |-> req[c], of |-> result[c].of, body |-> result[c].outcome]
  <2>1. r \in Reply
    BY <1>1, <1>3 DEF Respond, Reply, Result, TaskOf, Outcome, Body
  <2>2. WriteReply(c, r)
    BY <1>3 DEF Respond
  <2> HIDE DEF r
  <2>3. Append(toRs[c], r) \in Seq(Reply)
    BY <1>1, <2>1
  <2>4. toRs' \in [Conns -> Seq(Reply)] /\ py' \in [Conns -> PyState]
    BY <1>1, <2>2, <2>3, ZenonT(40) DEF WriteReply, PyState
  <2> QED BY <1>1, <1>3, <2>4 DEF Respond
<1>4. CASE FatalInference(c)
  <2> DEFINE r == [id |-> req[c], of |-> req[c], body |-> "fatal"]
  <2>1. r \in Reply
    BY <1>1, <1>4 DEF FatalInference, Reply, TaskOf, Body
  <2>2. \/ toRs' = [toRs EXCEPT ![c] = Append(@, r)] /\ WorkerGone
        \/ /\ holder' = None
           /\ py' = [py EXCEPT ![c] = "exiting"]
           /\ UNCHANGED <<toPy, toRs, req, result, queue, engine, worker>>
    BY <1>4 DEF FatalInference
  <2> HIDE DEF r
  <2>3. Append(toRs[c], r) \in Seq(Reply)
    BY <1>1, <2>1
  <2>4. CASE toRs' = [toRs EXCEPT ![c] = Append(@, r)] /\ WorkerGone
    BY <1>1, <1>4, <2>3, <2>4, WorkerGoneType DEF FatalInference
  <2>5. CASE /\ holder' = None
             /\ py' = [py EXCEPT ![c] = "exiting"]
             /\ UNCHANGED <<toPy, toRs, req, result, queue, engine, worker>>
    BY <1>1, <1>4, <2>5 DEF FatalInference, PyState
  <2> QED BY <2>2, <2>4, <2>5
<1>5. CASE HardExit(c)
  BY <1>1, <1>5, WorkerGoneType DEF HardExit
<1>6. CASE ReadEof(c)
  BY <1>1, <1>6 DEF ReadEof, PyState
<1> QED BY <1>2, <1>3, <1>4, <1>5, <1>6 DEF HandleConnection

LEMMA EngineType ==
    ASSUME IInv,
           GrantLock \/ \E f \in Frame, o \in Outcome : EngineReturn(f, o)
    PROVE  TypeOK'
<1> USE DEF TypeOK, clientVars, rustVars, udsVars, procVars
<1>1. TypeOK
  BY DEF IInv
<1>2. CASE GrantLock
  <2>1. /\ Head(queue) \in Conns /\ Tail(queue) \in Seq(Conns)
        /\ req[Head(queue)] \in Frame
    BY <1>2, OldestWaiter DEF GrantLock
  <2> QED BY <1>1, <1>2, <2>1 DEF GrantLock, StartEngine, PyState
<1>3. ASSUME NEW f \in Frame, NEW o \in Outcome, EngineReturn(f, o)
      PROVE  TypeOK'
  <2>1. [of |-> f, outcome |-> o] \in Result
    BY DEF Result
  <2>2. result' \in [Conns -> Result \cup {None}]
    BY <1>1, <1>3, <2>1, FrameFacts DEF EngineReturn
  <2> QED BY <1>1, <1>3, <2>2 DEF EngineReturn
<1> QED BY <1>2, <1>3

LEMMA ProcessType ==
    ASSUME TypeOK, Supervision \/ DockerStop \/ ServerCrash \/ WorkerCrash \/ Down
    PROVE  TypeOK'
<1> USE DEF TypeOK, clientVars, rustVars, udsVars, workerVars, taskVars, lockVars
<1>1. CASE StopListening
  BY <1>1 DEF StopListening, WorkerState
<1>2. CASE DrainedExit
  BY <1>2, WorkerGoneType DEF DrainedExit
<1>3. CASE ChildEnded
  BY <1>3 DEF ChildEnded, SupState
<1>4. CASE NotifyWaiters
  BY <1>4 DEF NotifyWaiters, ServerState, RustState
<1>5. DropTasks => rust' \in [Conns -> RustState]
  BY DEF DropTasks, RustState
<1>6. CASE ServerExit
  BY <1>5, <1>6 DEF ServerExit, ServerState
<1>7. CASE Kill
  BY <1>5, <1>7, WorkerGoneType DEF Kill, ServerState, SupState
<1>8. CASE DockerStop
  BY <1>8 DEF DockerStop, SupState
<1>9. CASE ServerCrash
  BY <1>5, <1>9 DEF ServerCrash, ServerState
<1>10. CASE WorkerCrash
  BY <1>10, WorkerGoneType DEF WorkerCrash
<1>11. CASE Down
  BY <1>11 DEF Down, vars, procVars
<1> QED
  BY <1>1, <1>2, <1>3, <1>4, <1>6, <1>7, <1>8, <1>9, <1>10, <1>11 DEF Supervision

LEMMA TypeStep ==
    ASSUME IInv, [Next]_vars
    PROVE  TypeOK'
<1>1. TypeOK
  BY DEF IInv
<1>2. CASE Next
  BY <1>1, <1>2, ClientType, HandleWsType, HandleConnectionType, EngineType, ProcessType
  DEF Next
<1>3. CASE UNCHANGED vars
  BY <1>1, <1>3
  DEF TypeOK, vars, clientVars, rustVars, udsVars, workerVars, taskVars, lockVars, procVars
<1> QED BY <1>2, <1>3

-----------------------------------------------------------------------------
(* Each part of the invariant looks at a few variables, and a step that      *)
(* leaves those alone keeps it.                                              *)

LEMMA KeepFront ==
    ASSUME NEW d \in Conns, FrontOf(d),
           rust'[d] = rust[d], cur'[d] = cur[d], out'[d] = out[d], replies'[d] = replies[d]
    PROVE  FrontOf(d)'
BY DEF FrontOf, Busy, CurFrame

LEMMA KeepUds ==
    ASSUME NEW d \in Conns, UdsOf(d), ServerAlive' => ServerAlive,
           rust'[d] = rust[d], cur'[d] = cur[d], toPy'[d] = toPy[d], toRs'[d] = toRs[d],
           py'[d] = py[d], req'[d] = req[d]
    PROVE  UdsOf(d)'
BY DEF UdsOf, CurFrame

LEMMA KeepTask ==
    ASSUME NEW d \in Conns, TaskOf(d),
           py'[d] = py[d], req'[d] = req[d], result'[d] = result[d]
    PROVE  TaskOf(d)'
BY DEF TaskOf

LEMMA KeepLock ==
    ASSUME LockInv, UNCHANGED <<taskVars, lockVars>>
    PROVE  LockInv'
BY DEF LockInv, taskVars, lockVars

(* A task that neither waits, runs nor exits may move among the other        *)
(* states: the lock does not know of it.                                     *)
LEMMA IdleTaskMoves ==
    ASSUME LockInv, TypeOK, NEW c \in Conns,
           py[c] \notin {"queued", "running", "exiting"},
           py'[c] \notin {"queued", "running", "exiting"},
           \A d \in Conns \ {c} : py'[d] = py[d],
           UNCHANGED <<req, result, holder, queue, engine>>
    PROVE  LockInv'
<1>1. \A d \in Conns : py'[d] = py[d] \/ d = c
  OBVIOUS
<1>2. \A d \in Conns : holder' = d <=> py'[d] = "running"
  BY DEF LockInv
<1>3. ASSUME NEW i \in DOMAIN queue'
      PROVE  py'[queue'[i]] = "queued"
  <2>1. queue[i] \in Conns /\ py[queue[i]] = "queued"
    BY <1>3 DEF LockInv, TypeOK
  <2> QED BY <1>1, <2>1
<1>4. ASSUME NEW f \in engine'
      PROVE  /\ py'[f[1]] \in {"running", "exiting"}
             /\ req'[f[1]] = f /\ result'[f[1]] = None
  <2>1. /\ f[1] \in Conns /\ py[f[1]] \in {"running", "exiting"}
        /\ req[f[1]] = f /\ result[f[1]] = None
    BY <1>4, FrameFacts DEF LockInv, TypeOK
  <2> QED BY <1>1, <2>1
<1> QED BY <1>2, <1>3, <1>4 DEF LockInv

LEMMA KeepReplies ==
    ASSUME Correlated, EgressEnforced, TypeOK, TypeOK', UNCHANGED replies,
           \A d \in Conns : cur[d] <= cur'[d]
    PROVE  Correlated' /\ EgressEnforced'
<1>1. \A d \in Conns : cur[d] \in Nat /\ cur'[d] \in Nat
  BY MaxFramesAssumption DEF TypeOK
<1>2. ASSUME NEW d \in Conns
      PROVE  \A n \in DOMAIN replies[d] : n \in Nat
  <2>1. replies[d] \in Seq(Reply)
    BY DEF TypeOK
  <2> QED BY <2>1
<1>3. Correlated'
  BY <1>1, <1>2 DEF Correlated
<1> QED BY <1>3 DEF EgressEnforced

(* A step of the processes or the clients that touches none of this.         *)
LEMMA Bystander ==
    ASSUME IInv, TypeOK', UNCHANGED <<rustVars, udsVars, workerVars, server>>,
           \A d \in Conns : peer[d] = "idle" <=> peer'[d] = "idle"
    PROVE  IInv'
<1> USE DEF rustVars, udsVars, workerVars, taskVars, lockVars
<1>1. ServerAlive' = ServerAlive
  BY DEF ServerAlive
<1>2. TasksNeedServer' /\ TaskPerOpen'
  BY <1>1 DEF IInv, TasksNeedServer, TaskPerOpen
<1>3. ASSUME NEW d \in Conns
      PROVE  FrontOf(d)' /\ UdsOf(d)' /\ TaskOf(d)'
  BY <1>1, KeepFront, KeepUds, KeepTask DEF IInv
<1>4. LockInv'
  BY KeepLock DEF IInv
<1>5. \A d \in Conns : cur[d] <= cur'[d]
  BY MaxFramesAssumption DEF IInv, TypeOK
<1>6. Correlated' /\ EgressEnforced'
  BY <1>5, KeepReplies DEF IInv
<1> QED BY <1>2, <1>3, <1>4, <1>6 DEF IInv

-----------------------------------------------------------------------------
(* handle_ws.  A step of the task of c leaves the worker, the processes and  *)
(* the other tasks alone; what it must keep is about c.                      *)

LEMMA FrontStep ==
    ASSUME IInv, TypeOK', NEW c \in Conns, ServerAlive,
           UNCHANGED <<peer, workerVars, procVars>>, rust[c] # "none", rust'[c] # "none",
           \A d \in Conns \ {c} :
               /\ rust'[d] = rust[d] /\ cur'[d] = cur[d] /\ out'[d] = out[d]
               /\ replies'[d] = replies[d]
               /\ toPy'[d] = toPy[d] /\ toRs'[d] = toRs[d],
           FrontOf(c)', UdsOf(c)', Correlated', EgressEnforced'
    PROVE  IInv'
<1> USE DEF workerVars, taskVars, lockVars, procVars
<1>1. ServerAlive' = ServerAlive
  BY DEF ServerAlive
<1>2. TasksNeedServer' /\ TaskPerOpen'
  BY <1>1 DEF IInv, TasksNeedServer, TaskPerOpen
<1>3. ASSUME NEW d \in Conns
      PROVE  FrontOf(d)' /\ UdsOf(d)' /\ TaskOf(d)'
  <2>1. TaskOf(d)'
    BY KeepTask DEF IInv
  <2>2. CASE d = c
    BY <2>1, <2>2
  <2>3. CASE d # c
    BY <1>1, <2>1, <2>3, KeepFront, KeepUds DEF IInv
  <2> QED BY <2>2, <2>3
<1>4. LockInv'
  BY KeepLock DEF IInv
<1> QED BY <1>2, <1>3, <1>4 DEF IInv

(* A task in the middle of something proves that its process lives.          *)
LEMMA AliveIfActive ==
    ASSUME IInv, NEW c \in Conns, rust[c] \notin {"none", "closed", "dropped"}
    PROVE  ServerAlive
BY DEF IInv, TasksNeedServer

(* The four ways a task ends while it owes nothing to the Unix socket.       *)
LEMMA EndStep ==
    ASSUME IInv, TypeOK', NEW c \in Conns, rust[c] # "none", ~Ended(c),
           rust' = [rust EXCEPT ![c] = "closed"],
           \A d \in Conns \ {c} : out'[d] = out[d] /\ toRs'[d] = toRs[d],
           UNCHANGED <<peer, cur, replies, toPy, workerVars, procVars>>,
           toPy[c] = <<>>, toRs'[c] = <<>>, py[c] \notin {"queued", "running"}
    PROVE  IInv'
<1> USE DEF procVars, workerVars, taskVars, lockVars
<1>1. ServerAlive /\ (ServerAlive)'
  BY AliveIfActive DEF Ended, ServerAlive
<1>2. /\ rust'[c] = "closed"
      /\ \A d \in Conns \ {c} : rust'[d] = rust[d]
  BY DEF IInv, TypeOK
<1>3. FrontOf(c)'
  <2>1. cur[c] \in Nat /\ Len(replies[c]) \in Nat
    BY MaxFramesAssumption DEF IInv, TypeOK
  <2>2. Len(replies[c]) <= cur[c]
    BY <2>1 DEF IInv, FrontOf
  <2> QED BY <1>2, <2>2 DEF FrontOf, Busy
<1>4. UdsOf(c)'
  BY <1>1, <1>2 DEF IInv, UdsOf
<1>5. \A d \in Conns : cur[d] <= cur'[d]
  BY MaxFramesAssumption DEF IInv, TypeOK
<1>6. Correlated' /\ EgressEnforced'
  BY <1>5, KeepReplies DEF IInv
<1> QED BY <1>1, <1>2, <1>3, <1>4, <1>6, FrontStep

(* Only while handle_ws awaits ipc::infer is anything of its connection in   *)
(* the socket or in the worker.                                              *)
LEMMA Quiet ==
    ASSUME IInv, NEW c \in Conns, ServerAlive, rust[c] # "infer"
    PROVE  /\ toPy[c] = <<>> /\ toRs[c] = <<>>
           /\ py[c] \notin {"queued", "running", "exiting"}
BY DEF IInv, UdsOf

LEMMA SameReplies ==
    ASSUME IInv, TypeOK', UNCHANGED replies, \A d \in Conns : cur[d] <= cur'[d]
    PROVE  Correlated' /\ EgressEnforced'
BY KeepReplies DEF IInv

LEMMA SameCur ==
    ASSUME TypeOK, UNCHANGED cur
    PROVE  \A d \in Conns : cur[d] <= cur'[d]
BY MaxFramesAssumption DEF TypeOK

LEMMA OpenInv ==
    ASSUME IInv, TypeOK', NEW c \in Conns, Open(c)
    PROVE  IInv'
<1> USE DEF udsVars, procVars, workerVars, taskVars, lockVars
<1>1. ServerAlive
  BY DEF Open, ServerAlive
<1>2. rust'[c] = "connecting" /\ \A d \in Conns \ {c} : rust'[d] = rust[d]
  BY DEF IInv, TypeOK, Open
<1>3. /\ rust[c] = "none" /\ TypeOK /\ FrontOf(c) /\ UdsOf(c) /\ TaskOf(c)
      /\ toPy[c] = <<>> /\ toRs[c] = <<>> /\ py[c] = "none"
  <2>1. rust[c] = "none"
    BY DEF Open, IInv, TaskPerOpen
  <2> QED BY <1>1, <2>1, Quiet DEF IInv, UdsOf
<1>4. /\ UNCHANGED <<cur, out, replies, toPy, toRs, py, req, result, holder, queue, engine, server>>
  BY DEF Open
<1>5. TasksNeedServer' /\ TaskPerOpen'
  BY <1>1, <1>2, <1>3, <1>4 DEF IInv, TypeOK, TasksNeedServer, TaskPerOpen, Open, ServerAlive
<1>6. ASSUME NEW d \in Conns
      PROVE  FrontOf(d)' /\ UdsOf(d)' /\ TaskOf(d)'
  <2>1. CASE d # c
    BY <1>1, <1>2, <1>4, <2>1, KeepFront, KeepUds, KeepTask DEF IInv
  <2>2. CASE d = c
    <3>1. FrontOf(c)'
      BY <1>2, <1>3, <1>4 DEF FrontOf, Busy
    <3>2. UdsOf(c)'
      BY <1>3, <1>4 DEF UdsOf
    <3>3. TaskOf(c)'
      BY <1>3, <1>4 DEF TaskOf
    <3> QED BY <2>2, <3>1, <3>2, <3>3
  <2> QED BY <2>1, <2>2
<1>7. LockInv'
  BY <1>4, KeepLock DEF IInv, taskVars, lockVars
<1>8. Correlated' /\ EgressEnforced'
  BY <1>3, <1>4, SameReplies, SameCur
<1> QED BY <1>5, <1>6, <1>7, <1>8 DEF IInv

LEMMA ConnectWorkerInv ==
    ASSUME IInv, TypeOK', NEW c \in Conns, ConnectWorker(c)
    PROVE  IInv'
<1> USE DEF clientVars, udsVars, procVars, lockVars
<1>1. ServerAlive /\ (ServerAlive)' /\ rust[c] = "connecting"
  BY AliveIfActive DEF ConnectWorker, ServerAlive
<1>2. TypeOK /\ FrontOf(c) /\ UdsOf(c) /\ TaskOf(c) /\ LockInv
  BY DEF IInv
<1>3. py[c] = "none" /\ toPy[c] = <<>> /\ toRs[c] = <<>> /\ req[c] = None /\ result[c] = None
  BY <1>1, <1>2 DEF UdsOf, TaskOf
<1>4. CASE worker # "up"
  BY <1>1, <1>3, <1>4, EndStep
  DEF ConnectWorker, CloseWith, Ended, workerVars, taskVars
<1>5. CASE worker = "up"
  <2>1. /\ rust'[c] = "reading" /\ py'[c] = "reading"
        /\ \A d \in Conns \ {c} : rust'[d] = rust[d] /\ py'[d] = py[d]
    BY <1>2, <1>5 DEF ConnectWorker, TypeOK
  <2>2. UNCHANGED <<cur, out, replies, toPy, toRs, req, result, holder, queue, engine, server>>
    BY DEF ConnectWorker
  <2>3. TasksNeedServer' /\ TaskPerOpen'
    BY <1>1, <2>1 DEF IInv, TasksNeedServer, TaskPerOpen, ConnectWorker
  <2>4. ASSUME NEW d \in Conns
        PROVE  FrontOf(d)' /\ UdsOf(d)' /\ TaskOf(d)'
    <3>1. CASE d # c
      BY <1>1, <2>1, <2>2, <3>1, KeepFront, KeepUds, KeepTask DEF IInv
    <3>2. CASE d = c
      <4>1. FrontOf(c)'
        BY <1>1, <1>2, <2>1, <2>2 DEF FrontOf, Busy
      <4>2. UdsOf(c)'
        BY <1>3, <2>1, <2>2 DEF UdsOf
      <4>3. TaskOf(c)'
        BY <1>3, <2>1, <2>2 DEF TaskOf
      <4> QED BY <3>2, <4>1, <4>2, <4>3
    <3> QED BY <3>1, <3>2
  <2>5. LockInv'
    BY <1>2, <1>3, <2>1, <2>2, IdleTaskMoves
  <2>6. Correlated' /\ EgressEnforced'
    BY <1>2, <2>2, SameReplies, SameCur
  <2> QED BY <2>3, <2>4, <2>5, <2>6 DEF IInv
<1> QED BY <1>4, <1>5

LEMMA ShutdownCloseInv ==
    ASSUME IInv, TypeOK', NEW c \in Conns, ShutdownClose(c)
    PROVE  IInv'
BY AliveIfActive, Quiet, EndStep DEF ShutdownClose, CloseWith, Ended, udsVars, clientVars

LEMMA ReadEndInv ==
    ASSUME IInv, TypeOK', NEW c \in Conns, ReadEnd(c)
    PROVE  IInv'
BY AliveIfActive, Quiet, EndStep DEF ReadEnd, Ended, udsVars, clientVars

LEMMA FatalFramingInv ==
    ASSUME IInv, TypeOK', NEW c \in Conns, FatalFraming(c)
    PROVE  IInv'
BY AliveIfActive, Quiet, EndStep DEF FatalFraming, CloseWith, Ended, udsVars, clientVars

LEMMA InferEofInv ==
    ASSUME IInv, TypeOK', NEW c \in Conns, InferEof(c)
    PROVE  IInv'
<1>1. ServerAlive
  BY AliveIfActive DEF InferEof
<1>2. toPy[c] = <<>>
  BY <1>1 DEF InferEof, IInv, UdsOf
<1> QED BY <1>1, <1>2, EndStep DEF InferEof, CloseWith, Ended, udsVars, clientVars

LEMMA SendFailInv ==
    ASSUME IInv, TypeOK', NEW c \in Conns, SendFail(c)
    PROVE  IInv'
<1>1. ServerAlive /\ rust[c] = "sending"
  BY AliveIfActive DEF SendFail
<1>2. \A d \in Conns \ {c} : out'[d] = out[d]
  BY DEF SendFail, IInv, TypeOK
<1> QED BY <1>1, <1>2, Quiet, EndStep DEF SendFail, Ended, udsVars, clientVars

LEMMA ReadBinaryInv ==
    ASSUME IInv, TypeOK', NEW c \in Conns, ReadBinary(c)
    PROVE  IInv'
<1> USE DEF udsVars, clientVars
<1>1. ServerAlive /\ rust[c] = "reading"
  BY AliveIfActive DEF ReadBinary
<1>2. TypeOK /\ FrontOf(c) /\ UdsOf(c)
  BY DEF IInv
<1>3. cur[c] \in Nat /\ Len(replies[c]) \in Nat
  BY <1>2, MaxFramesAssumption DEF TypeOK
<1>4. /\ rust'[c] = "processing" /\ cur'[c] = cur[c] + 1
      /\ \A d \in Conns \ {c} : rust'[d] = rust[d] /\ cur'[d] = cur[d]
  BY <1>2 DEF ReadBinary, TypeOK
<1>5. FrontOf(c)'
  BY <1>1, <1>2, <1>3, <1>4 DEF FrontOf, Busy, ReadBinary
<1>6. UdsOf(c)'
  BY <1>1, <1>2, <1>4, Quiet DEF UdsOf, ReadBinary, workerVars, taskVars, procVars
<1>7. ASSUME NEW d \in Conns
      PROVE  cur[d] <= cur'[d]
  <2>1. cur[d] \in Nat
    BY <1>2, MaxFramesAssumption DEF TypeOK
  <2> QED BY <1>4, <2>1
<1>8. Correlated' /\ EgressEnforced'
  BY <1>7, SameReplies DEF ReadBinary
<1> QED BY <1>1, <1>4, <1>5, <1>6, <1>8, FrontStep DEF ReadBinary

LEMMA PerFrameInv ==
    ASSUME IInv, TypeOK', NEW c \in Conns, PerFrame(c)
    PROVE  IInv'
<1> USE DEF udsVars, clientVars
<1> DEFINE error == [id |-> CurFrame(c), of |-> CurFrame(c), body |-> "error"]
<1>1. ServerAlive /\ rust[c] = "processing"
  BY AliveIfActive DEF PerFrame
<1>2. TypeOK /\ FrontOf(c) /\ UdsOf(c)
  BY DEF IInv
<1>3. cur[c] # 0
  BY <1>1, <1>2 DEF FrontOf, Busy
<1>4. error \in Reply
  BY <1>2, <1>3, CurFrameIsFrame DEF Reply, Body
<1>5. /\ rust'[c] = "sending" /\ out'[c] = error
      /\ \A d \in Conns \ {c} : rust'[d] = rust[d] /\ out'[d] = out[d]
  BY <1>2 DEF PerFrame, TypeOK
<1>6. FrontOf(c)'
  BY <1>1, <1>2, <1>4, <1>5 DEF FrontOf, Busy, PerFrame, CurFrame
<1>7. UdsOf(c)'
  BY <1>1, <1>2, <1>5, Quiet DEF UdsOf, PerFrame, workerVars, taskVars, procVars
<1>8. Correlated' /\ EgressEnforced'
  BY <1>2, SameReplies, SameCur DEF PerFrame
<1> QED BY <1>1, <1>5, <1>6, <1>7, <1>8, FrontStep DEF PerFrame

LEMMA PendingInv ==
    ASSUME IInv, TypeOK', NEW c \in Conns, Pending(c)
    PROVE  IInv'
<1> USE DEF udsVars, clientVars
<1>1. ServerAlive /\ rust[c] = "processing"
  BY AliveIfActive DEF Pending
<1>2. TypeOK /\ FrontOf(c) /\ UdsOf(c) /\ TaskOf(c)
  BY DEF IInv
<1>3. /\ toPy[c] = <<>> /\ toRs[c] = <<>>
      /\ py[c] \notin {"queued", "running", "exiting"}
  BY <1>1, Quiet
<1>4. CASE py[c] = "closed"
  BY <1>1, <1>3, <1>4, EndStep DEF Pending, CloseWith, Ended
<1>5. CASE py[c] # "closed"
  <2>1. cur[c] \in Nat /\ cur[c] > 0
    BY <1>1, <1>2, MaxFramesAssumption DEF FrontOf, Busy, TypeOK
  <2>2. toPy'[c] = <<CurFrame(c)>>
    BY <1>2, <1>3, <1>5, OneMessage DEF Pending, TypeOK
  <2>3. /\ rust'[c] = "infer"
        /\ \A d \in Conns \ {c} : rust'[d] = rust[d] /\ toPy'[d] = toPy[d]
    BY <1>2, <1>5 DEF Pending, TypeOK
  <2>4. FrontOf(c)'
    BY <1>1, <1>2, <2>3 DEF FrontOf, Busy, Pending
  <2>5. UdsOf(c)'
    BY <1>1, <1>2, <1>3, <1>5, <2>1, <2>2, <2>3
    DEF UdsOf, CurFrame, Pending, workerVars, taskVars, procVars
  <2>6. Correlated' /\ EgressEnforced'
    BY <1>2, SameReplies, SameCur DEF Pending
  <2> QED BY <1>1, <1>5, <2>3, <2>4, <2>5, <2>6, FrontStep DEF Pending
<1> QED BY <1>4, <1>5

LEMMA InferReplyInv ==
    ASSUME IInv, TypeOK', NEW c \in Conns, InferReply(c)
    PROVE  IInv'
<1> USE DEF udsVars, clientVars
<1> DEFINE r == Head(toRs[c])
<1>1. ServerAlive /\ rust[c] = "infer"
  BY AliveIfActive DEF InferReply
<1>2. TypeOK /\ FrontOf(c) /\ UdsOf(c) /\ TaskOf(c)
  BY DEF IInv
<1>3. /\ toRs[c] # <<>> /\ toRs[c] \in Seq(Reply) /\ Len(toRs[c]) = 1
      /\ toRs[c][1].id = CurFrame(c) /\ toRs[c][1].of = CurFrame(c)
  BY <1>1, <1>2 DEF InferReply, UdsOf, TypeOK
<1>4. r \in Reply /\ r.id = CurFrame(c) /\ r.of = CurFrame(c) /\ Tail(toRs[c]) = <<>>
  <2>1. toRs[c][1] \in Reply /\ r = toRs[c][1] /\ Tail(toRs[c]) = <<>>
    BY <1>3, LastMessage
  <2> QED BY <1>3, <2>1
<1>5. toPy[c] = <<>> /\ py[c] \notin {"queued", "running", "exiting"}
  BY <1>1, <1>2, <1>3 DEF UdsOf
<1>6. toRs'[c] = <<>> /\ \A d \in Conns \ {c} : toRs'[d] = toRs[d]
  BY <1>2, <1>4, ZenonT(40) DEF InferReply, TypeOK
<1> HIDE DEF r
<1>7. CASE r.body = "drift"
  <2>1. /\ rust' = [rust EXCEPT ![c] = "closed"]
        /\ UNCHANGED <<peer, cur, out, replies, toPy, workerVars, procVars>>
    BY <1>7 DEF InferReply, CloseWith, r
  <2> QED BY <1>1, <1>5, <1>6, <2>1, EndStep DEF Ended
<1>8. CASE r.body # "drift"
  <2>1. /\ rust' = [rust EXCEPT ![c] = "sending"] /\ out' = [out EXCEPT ![c] = r]
        /\ UNCHANGED <<peer, cur, replies, toPy, workerVars, procVars>>
    BY <1>8 DEF InferReply, r
  <2>2. /\ rust'[c] = "sending" /\ out'[c] = r
        /\ \A d \in Conns \ {c} : rust'[d] = rust[d] /\ out'[d] = out[d]
    BY <1>2, <2>1 DEF TypeOK
  <2>3. FrontOf(c)'
    BY <1>1, <1>2, <1>4, <1>8, <2>1, <2>2 DEF FrontOf, Busy, CurFrame
  <2>4. UdsOf(c)'
    BY <1>1, <1>2, <1>5, <1>6, <2>1, <2>2 DEF UdsOf, workerVars, taskVars, procVars
  <2>5. Correlated' /\ EgressEnforced'
    BY <1>2, <2>1, SameReplies, SameCur
  <2> QED BY <1>1, <1>6, <2>1, <2>2, <2>3, <2>4, <2>5, FrontStep
<1> QED BY <1>7, <1>8

LEMMA SendReplyInv ==
    ASSUME IInv, TypeOK', NEW c \in Conns, SendReply(c)
    PROVE  IInv'
<1> USE DEF udsVars, clientVars
<1>1. ServerAlive /\ rust[c] = "sending"
  BY AliveIfActive DEF SendReply
<1>2. TypeOK /\ FrontOf(c) /\ UdsOf(c) /\ Correlated /\ EgressEnforced
  BY DEF IInv
<1> DEFINE n == Len(replies[c])
<1>3. /\ out[c] \in Reply /\ out[c].id = <<c, cur[c]>> /\ out[c].of = <<c, cur[c]>>
      /\ out[c].body # "drift"
      /\ n \in Nat /\ cur[c] = n + 1
  <2>1. replies[c] \in Seq(Reply)
    BY <1>2 DEF TypeOK
  <2>2. n \in Nat
    BY <2>1
  <2> QED BY <1>1, <1>2, <2>2 DEF FrontOf, Busy, CurFrame
<1>4. /\ replies'[c] = Append(replies[c], out[c])
      /\ rust'[c] = "reading"
      /\ \A d \in Conns \ {c} :
             rust'[d] = rust[d] /\ out'[d] = out[d] /\ replies'[d] = replies[d]
  BY <1>2 DEF SendReply, TypeOK
<1>5. /\ Len(replies'[c]) = n + 1
      /\ DOMAIN replies'[c] = 1..(n + 1) /\ DOMAIN replies[c] = 1..n
      /\ replies'[c][n + 1] = out[c]
      /\ \A i \in 1..n : replies'[c][i] = replies[c][i]
  <2>1. replies[c] \in Seq(Reply)
    BY <1>2 DEF TypeOK
  <2> QED BY <1>3, <1>4, <2>1
<1>6. FrontOf(c)'
  BY <1>1, <1>2, <1>3, <1>4, <1>5 DEF FrontOf, Busy, SendReply
<1>7. UdsOf(c)'
  BY <1>1, <1>2, <1>4, Quiet DEF UdsOf, SendReply, workerVars, taskVars, procVars
<1>8. ASSUME NEW d \in Conns, NEW i \in DOMAIN replies'[d]
      PROVE  /\ i <= cur'[d]
             /\ replies'[d][i].id = <<d, i>> /\ replies'[d][i].of = <<d, i>>
             /\ replies'[d][i].body # "drift"
  <2>1. cur' = cur
    BY DEF SendReply
  <2>2. CASE d # c
    BY <1>2, <1>4, <1>8, <2>1, <2>2 DEF Correlated, EgressEnforced
  <2>3. CASE d = c /\ i \in 1..n
    BY <1>2, <1>5, <2>1, <2>3 DEF Correlated, EgressEnforced
  <2>4. CASE d = c /\ i = n + 1
    BY <1>3, <1>5, <2>1, <2>4
  <2>5. d = c => i \in 1..n \/ i = n + 1
    BY <1>3, <1>5, <1>8
  <2> QED BY <2>2, <2>3, <2>4, <2>5
<1>9. Correlated' /\ EgressEnforced'
  BY <1>8 DEF Correlated, EgressEnforced
<1> QED BY <1>1, <1>4, <1>6, <1>7, <1>9, FrontStep DEF SendReply

LEMMA HandleWsInv ==
    ASSUME IInv, TypeOK', NEW c \in Conns, HandleWs(c)
    PROVE  IInv'
BY ConnectWorkerInv, ShutdownCloseInv, ReadBinaryInv, ReadEndInv, FatalFramingInv,
   PerFrameInv, PendingInv, InferReplyInv, InferEofInv, SendReplyInv, SendFailInv
DEF HandleWs

-----------------------------------------------------------------------------
(* The worker.  A step of the task of c leaves handle_ws, the processes and  *)
(* the other tasks alone.                                                    *)

LEMMA TaskStep ==
    ASSUME IInv, TypeOK', NEW c \in Conns, UNCHANGED <<peer, rustVars, server>>,
           \A d \in Conns \ {c} :
               /\ py'[d] = py[d] /\ req'[d] = req[d] /\ result'[d] = result[d]
               /\ toPy'[d] = toPy[d] /\ toRs'[d] = toRs[d],
           UdsOf(c)', TaskOf(c)', LockInv'
    PROVE  IInv'
<1> USE DEF rustVars
<1>1. ServerAlive' = ServerAlive
  BY DEF ServerAlive
<1>2. TasksNeedServer' /\ TaskPerOpen'
  BY <1>1 DEF IInv, TasksNeedServer, TaskPerOpen
<1>3. ASSUME NEW d \in Conns
      PROVE  FrontOf(d)' /\ UdsOf(d)' /\ TaskOf(d)'
  <2>1. FrontOf(d)'
    BY KeepFront DEF IInv
  <2>2. CASE d = c
    BY <2>1, <2>2
  <2>3. CASE d # c
    BY <1>1, <2>1, <2>3, KeepUds, KeepTask DEF IInv
  <2> QED BY <2>2, <2>3
<1>4. Correlated' /\ EgressEnforced'
  BY SameReplies, SameCur DEF IInv
<1> QED BY <1>2, <1>3, <1>4 DEF IInv

(* A free lock has no running task, and its threads are orphans.             *)
LEMMA FreeLock ==
    ASSUME IInv, holder = None
    PROVE  \A d \in Conns : py[d] # "running"
BY FrameFacts DEF IInv, LockInv

(* Starting the engine for a task that is not running keeps the lock's       *)
(* order, whoever is taken off the queue.                                    *)
LEMMA StartEngineLock ==
    ASSUME IInv, NEW c \in Conns, NEW f \in Frame, f[1] = c, holder = None,
           py[c] \notin {"running", "exiting"}, StartEngine(c, f),
           req'[c] = f, \A d \in Conns \ {c} : req'[d] = req[d],
           UNCHANGED result,
           queue' \in Seq(Conns),
           \A i \in DOMAIN queue' : queue'[i] # c /\ py[queue'[i]] = "queued",
           \A i, j \in DOMAIN queue' : queue'[i] = queue'[j] => i = j
    PROVE  LockInv'
<1>1. /\ holder' = c /\ engine' = engine \cup {f} /\ py'[c] = "running"
      /\ \A d \in Conns \ {c} : py'[d] = py[d]
  BY DEF StartEngine, IInv, TypeOK
<1>2. result[c] = None
  BY DEF IInv, TaskOf
<1>3. \A d \in Conns : holder' = d <=> py'[d] = "running"
  BY <1>1, FreeLock
<1>4. ASSUME NEW i \in DOMAIN queue'
      PROVE  py'[queue'[i]] = "queued"
  <2>1. queue'[i] \in Conns
    BY <1>4
  <2> QED BY <1>1, <2>1
<1>5. ASSUME NEW g \in engine'
      PROVE  /\ py'[g[1]] \in {"running", "exiting"}
             /\ req'[g[1]] = g /\ result'[g[1]] = None
  <2>1. CASE g = f
    BY <1>1, <1>2, <2>1
  <2>2. CASE g # f
    <3>1. /\ g[1] \in Conns /\ py[g[1]] \in {"running", "exiting"}
          /\ req[g[1]] = g /\ result[g[1]] = None
      BY <1>1, <1>5, <2>2, FrameFacts DEF IInv, LockInv, TypeOK
    <3>2. g[1] # c
      BY <3>1
    <3> QED BY <1>1, <3>1, <3>2
  <2> QED BY <2>1, <2>2
<1> QED BY <1>3, <1>4, <1>5 DEF LockInv

LEMMA TakeRequestInv ==
    ASSUME IInv, TypeOK', NEW c \in Conns, TakeRequest(c)
    PROVE  IInv'
<1> USE DEF clientVars, procVars
<1>1. TypeOK /\ UdsOf(c) /\ TaskOf(c) /\ LockInv
  BY DEF IInv
<1> DEFINE f == CurFrame(c)
<1>2. py[c] = "reading" /\ toPy[c] = <<f>> /\ cur[c] > 0
  BY <1>1 DEF TakeRequest, UdsOf
<1>3. f \in Frame /\ f[1] = c
  <2>1. cur[c] # 0
    BY <1>1, <1>2, MaxFramesAssumption DEF TypeOK
  <2>2. f \in Frame
    BY <1>1, <2>1, CurFrameIsFrame
  <2> QED BY <2>2 DEF CurFrame
<1>4. Head(toPy[c]) = f /\ Tail(toPy[c]) = <<>>
  BY <1>2, <1>3, OneMessage
<1> HIDE DEF f
<1>5. /\ toPy'[c] = <<>> /\ req'[c] = f
      /\ \A d \in Conns \ {c} : toPy'[d] = toPy[d] /\ req'[d] = req[d]
      /\ UNCHANGED <<peer, rustVars, toRs, result, server>>
  <2>1. /\ toPy' = [toPy EXCEPT ![c] = <<>>] /\ req' = [req EXCEPT ![c] = f]
        /\ UNCHANGED <<peer, rustVars, toRs, result, server>>
    BY <1>4 DEF TakeRequest
  <2> QED BY <1>1, <2>1 DEF TypeOK
<1>6. req[c] = None /\ result[c] = None
  BY <1>1, <1>2 DEF TaskOf
<1>7. CASE holder = None /\ queue = <<>>
  <2>1. StartEngine(c, f) /\ queue' = <<>>
    BY <1>4, <1>7 DEF TakeRequest
  <2>2. py'[c] = "running" /\ \A d \in Conns \ {c} : py'[d] = py[d]
    BY <1>1, <2>1 DEF StartEngine, TypeOK
  <2>3. queue' \in Seq(Conns) /\ DOMAIN queue' = {}
    BY <2>1
  <2>4. LockInv'
    BY <1>2, <1>3, <1>5, <1>7, <2>1, <2>3, StartEngineLock
  <2>5. UdsOf(c)'
    BY <1>1, <1>2, <1>5, <2>2 DEF UdsOf, f, CurFrame, rustVars, ServerAlive
  <2>6. TaskOf(c)'
    BY <1>3, <1>5, <1>6, <2>2, FrameFacts DEF TaskOf
  <2> QED BY <1>5, <2>2, <2>4, <2>5, <2>6, TaskStep
<1>8. CASE ~(holder = None /\ queue = <<>>)
  <2>1. /\ py' = [py EXCEPT ![c] = "queued"] /\ queue' = Append(queue, c)
        /\ UNCHANGED <<holder, engine>>
    BY <1>8 DEF TakeRequest, StartEngine
  <2>2. py'[c] = "queued" /\ \A d \in Conns \ {c} : py'[d] = py[d]
    BY <1>1, <2>1 DEF TypeOK
  <2>3. LockInv'
    <3>1. queue \in Seq(Conns) /\ Len(queue) \in Nat
      BY <1>1 DEF TypeOK
    <3>2. /\ DOMAIN queue' = 1..(Len(queue) + 1) /\ DOMAIN queue = 1..Len(queue)
          /\ queue'[Len(queue) + 1] = c
          /\ \A i \in 1..Len(queue) : queue'[i] = queue[i] /\ queue[i] \in Conns
      BY <2>1, <3>1
    <3>3. \A i \in 1..Len(queue) : queue[i] # c /\ py'[queue[i]] = "queued"
      BY <1>1, <1>2, <2>2, <3>2 DEF LockInv
    <3>4. \A i \in DOMAIN queue' : py'[queue'[i]] = "queued"
      BY <2>2, <3>1, <3>2, <3>3
    <3>5. \A i, j \in DOMAIN queue' : queue'[i] = queue'[j] => i = j
      BY <1>1, <3>1, <3>2, <3>3 DEF LockInv
    <3>6. \A d \in Conns : holder' = d <=> py'[d] = "running"
      BY <1>1, <1>2, <2>1, <2>2 DEF LockInv
    <3>7. ASSUME NEW g \in engine'
          PROVE  /\ py'[g[1]] \in {"running", "exiting"}
                 /\ req'[g[1]] = g /\ result'[g[1]] = None
      <4>1. /\ g[1] \in Conns /\ py[g[1]] \in {"running", "exiting"}
            /\ req[g[1]] = g /\ result[g[1]] = None
        BY <1>1, <2>1, <3>7, FrameFacts DEF LockInv, TypeOK
      <4> QED BY <1>2, <1>5, <2>2, <4>1
    <3> QED BY <3>4, <3>5, <3>6, <3>7 DEF LockInv
  <2>4. UdsOf(c)'
    BY <1>1, <1>2, <1>5, <2>2 DEF UdsOf, f, CurFrame, rustVars, ServerAlive
  <2>5. TaskOf(c)'
    BY <1>3, <1>5, <1>6, <2>2, FrameFacts DEF TaskOf
  <2> QED BY <1>5, <2>2, <2>3, <2>4, <2>5, TaskStep
<1> QED BY <1>7, <1>8

LEMMA GrantLockInv ==
    ASSUME IInv, TypeOK', GrantLock
    PROVE  IInv'
<1> USE DEF clientVars, udsVars, procVars
<1>1. TypeOK /\ LockInv /\ queue \in Seq(Conns) /\ queue # <<>> /\ holder = None
  BY DEF IInv, TypeOK, GrantLock
<1> PICK c \in Conns : c = Head(queue)
  BY <1>1, OldestWaiter
<1> DEFINE f == req[c]
<1>2. c \in Conns /\ py[c] = "queued" /\ f \in Frame
  BY <1>1, OldestWaiter
<1>3. /\ queue' = Tail(queue) /\ StartEngine(c, f)
      /\ UNCHANGED <<peer, rustVars, toPy, toRs, req, result, server>>
  BY DEF GrantLock
<1>4. /\ c = queue[1] /\ queue' \in Seq(Conns) /\ Len(queue') = Len(queue) - 1
      /\ \A i \in DOMAIN queue' :
             i \in Nat /\ i + 1 \in DOMAIN queue /\ i + 1 # 1 /\ queue'[i] = queue[i + 1]
  BY <1>1, <1>3, HeadTailProperties
<1>5. UdsOf(c) /\ TaskOf(c)
  BY <1>2 DEF IInv
<1>6. f[1] = c /\ req'[c] = f
  BY <1>2, <1>3, <1>5, FrameFacts DEF TaskOf
<1> HIDE DEF f
<1>7. 1 \in DOMAIN queue
  BY <1>1
<1>8. \A i \in DOMAIN queue' : queue'[i] # c /\ py[queue'[i]] = "queued"
  BY <1>1, <1>4, <1>7 DEF LockInv
<1>9. \A i, j \in DOMAIN queue' : queue'[i] = queue'[j] => i = j
  <2>1. ASSUME NEW i \in DOMAIN queue', NEW j \in DOMAIN queue', queue'[i] = queue'[j]
        PROVE  i = j
    <3>1. i + 1 = j + 1
      BY <1>1, <1>4, <2>1 DEF LockInv
    <3> QED BY <1>4, <3>1
  <2> QED BY <2>1
<1>10. LockInv'
  BY <1>1, <1>2, <1>3, <1>4, <1>6, <1>8, <1>9, StartEngineLock
<1>11. py'[c] = "running" /\ \A d \in Conns \ {c} : py'[d] = py[d]
  BY <1>1, <1>2, <1>3 DEF StartEngine, TypeOK
<1>12. UdsOf(c)'
  BY <1>2, <1>3, <1>5, <1>11 DEF UdsOf, CurFrame, rustVars, ServerAlive, f
<1>13. TaskOf(c)'
  BY <1>2, <1>3, <1>5, <1>11 DEF TaskOf, f
<1> QED BY <1>2, <1>3, <1>10, <1>11, <1>12, <1>13, TaskStep

LEMMA EngineReturnInv ==
    ASSUME IInv, TypeOK', NEW f \in Frame, NEW o \in Outcome, EngineReturn(f, o)
    PROVE  IInv'
<1> USE DEF clientVars, udsVars, procVars
<1> DEFINE c == f[1]
<1>1. TypeOK /\ LockInv /\ c \in Conns
  BY FrameFacts DEF IInv
<1>2. UdsOf(c) /\ TaskOf(c)
  BY <1>1 DEF IInv
<1>3. f \in engine /\ py[c] \in {"running", "exiting"} /\ req[c] = f
  BY <1>1 DEF EngineReturn, LockInv
<1>4. UNCHANGED <<peer, rustVars, toPy, toRs, py, req, holder, queue, server>>
  BY DEF EngineReturn
<1>5. /\ result'[c] = result[c] \/ result'[c].of = f
      /\ \A d \in Conns \ {c} : result'[d] = result[d]
  BY <1>1 DEF EngineReturn, TypeOK
<1>6. UdsOf(c)'
  BY <1>2, <1>4 DEF UdsOf, CurFrame, rustVars, ServerAlive
<1>7. TaskOf(c)'
  BY <1>2, <1>3, <1>4, <1>5 DEF TaskOf
<1>8. LockInv'
  <2>1. ASSUME NEW g \in engine'
        PROVE  result'[g[1]] = None
    <3>1. g \in engine /\ g # f
      BY <2>1 DEF EngineReturn
    <3>2. g[1] \in Conns /\ req[g[1]] = g /\ result[g[1]] = None
      BY <1>1, <3>1, FrameFacts DEF LockInv, TypeOK
    <3>3. g[1] # c
      BY <1>3, <3>1, <3>2
    <3> QED BY <1>5, <3>2, <3>3
  <2> QED BY <1>1, <1>4, <2>1 DEF LockInv, EngineReturn
<1> QED BY <1>1, <1>4, <1>5, <1>6, <1>7, <1>8, TaskStep

(* Taking the lock from a task whose thread is no longer its own.            *)
LEMMA RespondInv ==
    ASSUME IInv, TypeOK', NEW c \in Conns, Respond(c)
    PROVE  IInv'
<1> USE DEF clientVars, procVars
<1>1. TypeOK /\ LockInv /\ UdsOf(c) /\ TaskOf(c)
  BY DEF IInv
<1> DEFINE r == [id |-> req[c], of |-> result[c].of, body |-> result[c].outcome]
<1>2. py[c] = "running" /\ result[c] # None /\ WriteReply(c, r) /\ holder = c
  BY <1>1 DEF Respond, LockInv
<1>3. r.id = req[c] /\ r.of = req[c]
  BY <1>1, <1>2 DEF TaskOf
<1>4. r \in Reply
  BY <1>1, <1>2 DEF Reply, Result, TaskOf, Outcome, Body, TypeOK, Respond
<1> HIDE DEF r
<1>5. /\ req'[c] = None /\ result'[c] = None
      /\ \A d \in Conns \ {c} : req'[d] = req[d] /\ result'[d] = result[d]
  BY <1>1 DEF Respond, TypeOK
<1>6. UNCHANGED <<peer, rustVars, toPy, queue, engine, server>> /\ holder' = None
  BY DEF Respond
<1>7. /\ py'[c] \in {"reading", "closed"}
      /\ \A d \in Conns \ {c} : py'[d] = py[d] /\ toRs'[d] = toRs[d]
  BY <1>1, <1>2 DEF WriteReply, TypeOK
<1>8. TaskOf(c)'
  BY <1>5, <1>7 DEF TaskOf
<1>9. UdsOf(c)'
  <2>1. toPy[c] # <<>> => toPy[c] = <<CurFrame(c)>> /\ cur[c] > 0
    BY <1>1 DEF UdsOf
  <2>2. CASE ~ServerAlive
    BY <1>6, <2>1, <2>2 DEF UdsOf, CurFrame, rustVars, ServerAlive
  <2>3. CASE ServerAlive
    <3>1. rust[c] = "infer" /\ req[c] = CurFrame(c) /\ toPy[c] = <<>> /\ toRs[c] = <<>>
      BY <1>1, <1>2, <2>3 DEF UdsOf
    <3>2. toRs'[c] = <<r>>
      BY <1>1, <1>2, <1>4, <3>1, OneMessage DEF WriteReply, UdsHeld, Busy, TypeOK
    <3>3. Len(toRs'[c]) = 1 /\ toRs'[c][1] = r
      BY <1>4, <3>2, OneMessage
    <3> QED BY <1>3, <1>6, <1>7, <3>1, <3>3 DEF UdsOf, CurFrame, rustVars
  <2> QED BY <2>2, <2>3
<1>10. LockInv'
  <2>1. \A d \in Conns : py'[d] # "running"
    BY <1>1, <1>2, <1>7 DEF LockInv
  <2>2. \A d \in Conns : holder' = d <=> py'[d] = "running"
    BY <1>6, <2>1, NoneAssumption
  <2>3. ASSUME NEW i \in DOMAIN queue
        PROVE  py'[queue[i]] = "queued"
    <3>1. queue[i] \in Conns /\ py[queue[i]] = "queued"
      BY <1>1 DEF LockInv, TypeOK
    <3> QED BY <1>2, <1>7, <3>1
  <2>4. ASSUME NEW g \in engine
        PROVE  /\ py'[g[1]] \in {"running", "exiting"}
               /\ req'[g[1]] = g /\ result'[g[1]] = None
    <3>1. /\ g[1] \in Conns /\ py[g[1]] \in {"running", "exiting"}
          /\ req[g[1]] = g /\ result[g[1]] = None
      BY <1>1, FrameFacts DEF LockInv, TypeOK
    <3> QED BY <1>2, <1>5, <1>7, <3>1
  <2> QED BY <1>1, <1>6, <2>2, <2>3, <2>4 DEF LockInv
<1> QED BY <1>5, <1>6, <1>7, <1>8, <1>9, <1>10, TaskStep

LEMMA ReadEofInv ==
    ASSUME IInv, TypeOK', NEW c \in Conns, ReadEof(c)
    PROVE  IInv'
<1> USE DEF clientVars, udsVars, procVars, lockVars
<1>1. TypeOK /\ LockInv /\ UdsOf(c) /\ TaskOf(c)
  BY DEF IInv
<1>2. /\ py[c] = "reading" /\ py'[c] = "closed" /\ toPy[c] = <<>>
      /\ \A d \in Conns \ {c} : py'[d] = py[d]
  BY <1>1 DEF ReadEof, TypeOK
<1>3. UNCHANGED <<peer, rustVars, toPy, toRs, req, result, holder, queue, engine, server>>
  BY DEF ReadEof
<1>4. LockInv'
  BY <1>1, <1>2, <1>3, IdleTaskMoves
<1>5. UdsOf(c)'
  BY <1>1, <1>2, <1>3 DEF UdsOf, CurFrame, rustVars, ServerAlive
<1>6. TaskOf(c)'
  BY <1>1, <1>2, <1>3 DEF TaskOf
<1> QED BY <1>2, <1>3, <1>4, <1>5, <1>6, TaskStep

(* The end of the worker process, whatever it wrote last.                    *)
LEMMA WorkerGoneInv ==
    ASSUME IInv, TypeOK', WorkerGone, UNCHANGED <<peer, rustVars, server>>,
           \A d \in Conns :
               \/ toRs'[d] = toRs[d]
               \/ /\ rust[d] = "infer" /\ Len(toRs'[d]) = 1
                  /\ toRs'[d][1].id = CurFrame(d) /\ toRs'[d][1].of = CurFrame(d)
    PROVE  IInv'
<1> USE DEF rustVars
<1>1. ServerAlive' = ServerAlive
  BY DEF ServerAlive
<1>2. TasksNeedServer' /\ TaskPerOpen'
  BY <1>1 DEF IInv, TasksNeedServer, TaskPerOpen
<1>3. ASSUME NEW d \in Conns
      PROVE  /\ toPy'[d] = <<>> /\ req'[d] = None /\ result'[d] = None
             /\ py'[d] \in {"none", "closed"} /\ (py'[d] = "none" <=> py[d] = "none")
  BY DEF WorkerGone
<1>4. ASSUME NEW d \in Conns
      PROVE  FrontOf(d)' /\ UdsOf(d)' /\ TaskOf(d)'
  <2>1. FrontOf(d)'
    BY KeepFront DEF IInv
  <2>2. UdsOf(d) /\ rust'[d] = rust[d] /\ cur'[d] = cur[d]
    BY DEF IInv
  <2>3. UdsOf(d)'
    BY <1>1, <1>3, <2>2 DEF UdsOf, CurFrame
  <2>4. TaskOf(d)'
    BY <1>3 DEF TaskOf
  <2> QED BY <2>1, <2>3, <2>4
<1>5. LockInv'
  BY <1>3, FrameFacts DEF LockInv, WorkerGone
<1>6. Correlated' /\ EgressEnforced'
  BY SameReplies, SameCur DEF IInv
<1> QED BY <1>2, <1>4, <1>5, <1>6 DEF IInv

LEMMA FatalInferenceInv ==
    ASSUME IInv, TypeOK', NEW c \in Conns, FatalInference(c)
    PROVE  IInv'
<1> USE DEF clientVars
<1>1. TypeOK /\ LockInv /\ UdsOf(c) /\ TaskOf(c) /\ py[c] = "running"
  BY DEF IInv, FatalInference
<1>2. req[c] \in Frame /\ req[c] # None
  BY <1>1 DEF TypeOK, TaskOf
<1>3. CASE UdsHeld(c)
  <2> DEFINE r == [id |-> req[c], of |-> req[c], body |-> "fatal"]
  <2>1. ServerAlive
    BY <1>3, AliveIfActive DEF UdsHeld, Reading, Busy
  <2>2. rust[c] = "infer" /\ req[c] = CurFrame(c) /\ toRs[c] = <<>>
    BY <1>1, <2>1 DEF UdsOf
  <2>3. r \in Reply /\ r.id = CurFrame(c) /\ r.of = CurFrame(c)
    BY <1>2, <2>2 DEF Reply, Body
  <2>4. toRs' = [toRs EXCEPT ![c] = Append(@, r)] /\ WorkerGone /\ UNCHANGED <<peer, rustVars, server>>
    BY <1>3 DEF FatalInference
  <2> HIDE DEF r
  <2>5. toRs'[c] = <<r>> /\ \A d \in Conns \ {c} : toRs'[d] = toRs[d]
    BY <1>1, <2>2, <2>3, <2>4, OneMessage DEF TypeOK
  <2>6. Len(toRs'[c]) = 1 /\ toRs'[c][1] = r
    BY <2>3, <2>5, OneMessage
  <2>7. \A d \in Conns :
            \/ toRs'[d] = toRs[d]
            \/ /\ rust[d] = "infer" /\ Len(toRs'[d]) = 1
               /\ toRs'[d][1].id = CurFrame(d) /\ toRs'[d][1].of = CurFrame(d)
    BY <2>2, <2>3, <2>5, <2>6
  <2> QED BY <2>4, <2>7, WorkerGoneInv
<1>4. CASE ~UdsHeld(c)
  <2>1. ~ServerAlive
    BY <1>1, <1>4 DEF UdsOf, UdsHeld, Busy
  <2>2. /\ holder' = None /\ py' = [py EXCEPT ![c] = "exiting"]
        /\ UNCHANGED <<peer, rustVars, server, toPy, toRs, req, result, queue, engine>>
    BY <1>4 DEF FatalInference
  <2>3. py'[c] = "exiting" /\ \A d \in Conns \ {c} : py'[d] = py[d]
    BY <1>1, <2>2 DEF TypeOK
  <2>4. UdsOf(c)'
    BY <1>1, <2>1, <2>2 DEF UdsOf, CurFrame, ServerAlive, rustVars
  <2>5. TaskOf(c)'
    BY <1>1, <2>2, <2>3 DEF TaskOf
  <2>6. LockInv'
    <3>1. \A d \in Conns : holder' = d <=> py'[d] = "running"
      BY <1>1, <2>2, <2>3, NoneAssumption DEF LockInv
    <3>2. ASSUME NEW i \in DOMAIN queue
          PROVE  py'[queue[i]] = "queued"
      <4>1. queue[i] \in Conns /\ py[queue[i]] = "queued"
        BY <1>1 DEF LockInv, TypeOK
      <4> QED BY <1>1, <2>3, <4>1
    <3>3. ASSUME NEW g \in engine
          PROVE  py'[g[1]] \in {"running", "exiting"}
      <4>1. g[1] \in Conns /\ py[g[1]] \in {"running", "exiting"}
        BY <1>1, FrameFacts DEF LockInv, TypeOK
      <4> QED BY <2>3, <4>1
    <3> QED BY <1>1, <2>2, <3>1, <3>2, <3>3 DEF LockInv
  <2> QED BY <2>2, <2>3, <2>4, <2>5, <2>6, TaskStep
<1> QED BY <1>3, <1>4

LEMMA HandleConnectionInv ==
    ASSUME IInv, TypeOK', NEW c \in Conns, HandleConnection(c)
    PROVE  IInv'
<1>1. ASSUME HardExit(c) PROVE IInv'
  BY <1>1, WorkerGoneInv DEF HardExit, clientVars
<1> QED BY <1>1, TakeRequestInv, RespondInv, FatalInferenceInv, ReadEofInv
        DEF HandleConnection

-----------------------------------------------------------------------------
(* The processes.                                                            *)

(* The end of the server process: its tasks are gone, the worker may stay.   *)
LEMMA ServerDownInv ==
    ASSUME IInv, TypeOK', DropTasks, UNCHANGED <<peer, cur, out, replies>>,
           server' \in {"exited", "killed"},
           \A d \in Conns : TaskOf(d)' /\ (toPy'[d] = toPy[d] \/ toPy'[d] = <<>>),
           LockInv'
    PROVE  IInv'
<1>1. ~ServerAlive'
  BY DEF ServerAlive
<1>2. ASSUME NEW d \in Conns
      PROVE  /\ rust'[d] \in {"none", "closed", "dropped"}
             /\ rust'[d] = "none" <=> rust[d] = "none"
  BY DEF DropTasks
<1>3. TasksNeedServer' /\ TaskPerOpen'
  BY <1>1, <1>2 DEF IInv, TasksNeedServer, TaskPerOpen
<1>4. ASSUME NEW d \in Conns
      PROVE  FrontOf(d)' /\ UdsOf(d)'
  <2>1. FrontOf(d) /\ UdsOf(d) /\ cur[d] \in Nat /\ Len(replies[d]) \in Nat
    BY MaxFramesAssumption DEF IInv, TypeOK
  <2>2. Len(replies[d]) <= cur[d]
    BY <2>1 DEF FrontOf
  <2>3. FrontOf(d)'
    BY <1>2, <2>1, <2>2 DEF FrontOf, Busy
  <2>4. UdsOf(d)'
    BY <1>1, <2>1 DEF UdsOf, CurFrame
  <2> QED BY <2>3, <2>4
<1>5. Correlated' /\ EgressEnforced'
  BY SameReplies, SameCur DEF IInv
<1> QED BY <1>3, <1>4, <1>5 DEF IInv

LEMMA NotifyWaitersInv ==
    ASSUME IInv, TypeOK', NotifyWaiters
    PROVE  IInv'
<1> USE DEF clientVars, udsVars, workerVars, taskVars, lockVars
<1>1. ServerAlive /\ (ServerAlive)'
  BY DEF ServerAlive, NotifyWaiters
<1>2. UNCHANGED <<peer, cur, out, replies, toPy, toRs, py, req, result, holder, queue, engine>>
  BY DEF NotifyWaiters
<1>3. ASSUME NEW d \in Conns
      PROVE  rust'[d] = IF rust[d] = "reading" THEN "notified" ELSE rust[d]
  BY DEF NotifyWaiters
<1>4. TasksNeedServer' /\ TaskPerOpen'
  BY <1>1, <1>2, <1>3 DEF IInv, TasksNeedServer, TaskPerOpen
<1>5. ASSUME NEW d \in Conns
      PROVE  FrontOf(d)' /\ UdsOf(d)' /\ TaskOf(d)'
  <2>1. FrontOf(d) /\ UdsOf(d) /\ TaskOf(d)
    BY DEF IInv
  <2>2. FrontOf(d)'
    BY <1>2, <1>3, <2>1 DEF FrontOf, Busy, CurFrame
  <2>3. UdsOf(d)'
    BY <1>1, <1>2, <1>3, <2>1 DEF UdsOf, CurFrame
  <2>4. TaskOf(d)'
    BY <1>2, KeepTask DEF IInv
  <2> QED BY <2>2, <2>3, <2>4
<1>6. LockInv'
  BY <1>2, KeepLock DEF IInv
<1>7. Correlated' /\ EgressEnforced'
  BY <1>2, SameReplies, SameCur DEF IInv
<1> QED BY <1>4, <1>5, <1>6, <1>7 DEF IInv

(* A server that ends while the worker stays.                                *)
LEMMA ServerGoneInv ==
    ASSUME IInv, TypeOK', ServerExit \/ ServerCrash
    PROVE  IInv'
<1> USE DEF clientVars, udsVars, workerVars, taskVars, lockVars
<1>1. /\ DropTasks /\ server' \in {"exited", "killed"}
      /\ UNCHANGED <<peer, cur, out, replies, toPy, toRs, py, req, result, holder, queue, engine>>
  BY DEF ServerExit, ServerCrash
<1>2. LockInv'
  BY <1>1, KeepLock DEF IInv
<1>3. \A d \in Conns : TaskOf(d)'
  BY <1>1, KeepTask DEF IInv
<1> QED BY <1>1, <1>2, <1>3, ServerDownInv

LEMMA KillInv ==
    ASSUME IInv, TypeOK', Kill
    PROVE  IInv'
<1>1. /\ DropTasks /\ UNCHANGED <<peer, cur, out, replies>>
      /\ server' \in {"exited", "killed"}
  BY DEF Kill, clientVars, IInv, TypeOK, ServerState, ServerAlive
<1>2. ASSUME NEW d \in Conns
      PROVE  /\ toPy'[d] = <<>> /\ req'[d] = None /\ result'[d] = None
             /\ py'[d] \in {"none", "closed"}
  BY DEF Kill, WorkerGone
<1>3. LockInv'
  BY <1>2, FrameFacts DEF LockInv, Kill, WorkerGone
<1>4. \A d \in Conns : TaskOf(d)'
  BY <1>2 DEF TaskOf
<1> QED BY <1>1, <1>2, <1>3, <1>4, ServerDownInv

LEMMA SupervisionInv ==
    ASSUME IInv, TypeOK', Supervision \/ DockerStop \/ ServerCrash \/ WorkerCrash \/ Down
    PROVE  IInv'
<1> USE DEF clientVars, rustVars, udsVars, workerVars, taskVars, lockVars, procVars
<1>1. ASSUME StopListening \/ ChildEnded \/ DockerStop \/ Down PROVE IInv'
  BY <1>1, Bystander DEF StopListening, ChildEnded, DockerStop, Down, vars
<1>2. ASSUME DrainedExit \/ WorkerCrash PROVE IInv'
  BY <1>2, WorkerGoneInv DEF DrainedExit, WorkerCrash
<1> QED BY <1>1, <1>2, NotifyWaitersInv, ServerGoneInv, KillInv DEF Supervision

LEMMA ClientInv ==
    ASSUME IInv, TypeOK', NEW c \in Conns, Open(c) \/ Send(c) \/ Stall(c) \/ Leave(c)
    PROVE  IInv'
<1> USE DEF procVars
<1>1. TypeOK
  BY DEF IInv
<1>2. ASSUME Send(c) \/ Stall(c) \/ Leave(c) PROVE IInv'
  BY <1>1, <1>2, Bystander DEF Send, Stall, Leave, TypeOK
<1> QED BY <1>2, OpenInv

-----------------------------------------------------------------------------
(* The three facts of the invariance proof.                                  *)

LEMMA InitInv == Init => IInv
<1> SUFFICES ASSUME Init PROVE IInv
  OBVIOUS
<1>1. TypeOK
  BY MaxFramesAssumption DEF Init, TypeOK, PeerState, RustState, CloseCode, PyState,
     WorkerState, ServerState, SupState
<1>2. TasksNeedServer /\ TaskPerOpen
  BY DEF Init, TasksNeedServer, TaskPerOpen
<1>3. ASSUME NEW c \in Conns
      PROVE  FrontOf(c) /\ UdsOf(c) /\ TaskOf(c)
  BY DEF Init, FrontOf, Busy, UdsOf, TaskOf
<1>4. LockInv
  BY NoneAssumption DEF Init, LockInv
<1>5. Correlated /\ EgressEnforced
  BY DEF Init, Correlated, EgressEnforced
<1> QED BY <1>1, <1>2, <1>3, <1>4, <1>5 DEF IInv

LEMMA StepInv == IInv /\ [Next]_vars => IInv'
<1> SUFFICES ASSUME IInv, [Next]_vars PROVE IInv'
  OBVIOUS
<1>1. TypeOK'
  BY TypeStep
<1>2. CASE UNCHANGED vars
  BY <1>1, <1>2, Bystander
  DEF vars, clientVars, rustVars, udsVars, workerVars, taskVars, lockVars, procVars
<1>3. CASE Next
  <2>1. ASSUME NEW c \in Conns, Open(c) \/ Send(c) \/ Stall(c) \/ Leave(c) PROVE IInv'
    BY <1>1, <2>1, ClientInv
  <2>2. ASSUME NEW c \in Conns, HandleWs(c) PROVE IInv'
    BY <1>1, <2>2, HandleWsInv
  <2>3. ASSUME NEW c \in Conns, HandleConnection(c) PROVE IInv'
    BY <1>1, <2>3, HandleConnectionInv
  <2>4. ASSUME GrantLock PROVE IInv'
    BY <1>1, <2>4, GrantLockInv
  <2>5. ASSUME NEW f \in Frame, NEW o \in Outcome, EngineReturn(f, o) PROVE IInv'
    BY <1>1, <2>5, EngineReturnInv
  <2> QED BY <1>1, <1>3, <2>1, <2>2, <2>3, <2>4, <2>5, SupervisionInv DEF Next
<1> QED BY <1>2, <1>3

(* What the invariant says of the engine: two threads would work for two     *)
(* running tasks, and only the holder of the lock runs.                      *)
LEMMA InvExclusive == IInv => GpuExclusive
<1> SUFFICES ASSUME IInv, ServerAlive, NEW f \in engine, NEW g \in engine
             PROVE  f = g
  BY DEF GpuExclusive
<1>1. /\ f[1] \in Conns /\ py[f[1]] \in {"running", "exiting"} /\ req[f[1]] = f
      /\ g[1] \in Conns /\ py[g[1]] \in {"running", "exiting"} /\ req[g[1]] = g
  BY FrameFacts DEF IInv, LockInv, TypeOK
<1>2. py[f[1]] = "running" /\ py[g[1]] = "running"
  BY <1>1 DEF IInv, UdsOf
<1>3. holder = f[1] /\ holder = g[1]
  BY <1>1, <1>2 DEF IInv, LockInv
<1> QED BY <1>1, <1>3

(* And of the Unix socket: whatever is there or in the worker is the one     *)
(* frame handle_ws waits for.                                                *)
LEMMA InvOneOutstanding == IInv => OneOutstanding
<1> SUFFICES ASSUME IInv, NEW c \in Conns, ServerAlive
             PROVE  Len(toPy[c]) + Len(toRs[c]) + (IF req[c] # None THEN 1 ELSE 0)
                        <= (IF rust[c] = "infer" THEN 1 ELSE 0)
  BY DEF OneOutstanding
<1>1. UdsOf(c) /\ TaskOf(c)
  BY DEF IInv
<1>2. toPy[c] # <<>> => /\ Len(toPy[c]) = 1 /\ rust[c] = "infer"
                        /\ toRs[c] = <<>> /\ req[c] = None
  <2>1. Len(<<CurFrame(c)>>) = 1
    OBVIOUS
  <2>2. toPy[c] # <<>> => /\ toPy[c] = <<CurFrame(c)>> /\ rust[c] = "infer"
                          /\ toRs[c] = <<>> /\ py[c] \notin {"queued", "running", "exiting"}
    BY <1>1 DEF UdsOf
  <2> QED BY <1>1, <2>1, <2>2 DEF TaskOf
<1>3. toRs[c] # <<>> => /\ Len(toRs[c]) = 1 /\ rust[c] = "infer"
                        /\ toPy[c] = <<>> /\ req[c] = None
  BY <1>1 DEF UdsOf, TaskOf
<1>4. req[c] # None => rust[c] = "infer" /\ toPy[c] = <<>> /\ toRs[c] = <<>>
  BY <1>1 DEF UdsOf, TaskOf
<1>5. toPy[c] = <<>> => Len(toPy[c]) = 0
  OBVIOUS
<1>6. toRs[c] = <<>> => Len(toRs[c]) = 0
  OBVIOUS
<1> DEFINE a == Len(toPy[c])
           b == Len(toRs[c])
<1>7. \/ a = 0 /\ b = 0 /\ req[c] = None
      \/ rust[c] = "infer" /\ a = 1 /\ b = 0 /\ req[c] = None
      \/ rust[c] = "infer" /\ a = 0 /\ b = 1 /\ req[c] = None
      \/ rust[c] = "infer" /\ a = 0 /\ b = 0
  BY <1>2, <1>3, <1>4, <1>5, <1>6
<1> HIDE DEF a, b
<1>8. a + b + (IF req[c] # None THEN 1 ELSE 0) <= (IF rust[c] = "infer" THEN 1 ELSE 0)
  BY <1>7
<1> QED BY <1>8 DEF a, b

-----------------------------------------------------------------------------
(* The theorems.                                                             *)

(* IInv holds in every reachable state: what each task of handle_ws and      *)
(* handle_connection may hold, given where it is, and who owns the lock.     *)
THEOREM Invariance == Spec => []IInv
BY InitInv, StepInv, PTL DEF Spec

(* Every variable keeps its type, for any number of clients and frames.      *)
THEOREM TypeCorrect == Spec => []TypeOK
<1>1. IInv => TypeOK
  BY DEF IInv
<1> QED BY Invariance, <1>1, PTL

(* The n-th text message of any WebSocket answers its n-th binary message    *)
(* and no other, through the lock, the shared worker, timeouts, crashes and  *)
(* the shutdown.                                                             *)
THEOREM Correlation == Spec => []Correlated
<1>1. IInv => Correlated
  BY DEF IInv
<1> QED BY Invariance, <1>1, PTL

(* A body that the typed egress of ipc::infer refuses reaches no client.     *)
THEOREM Egress == Spec => []EgressEnforced
<1>1. IInv => EgressEnforced
  BY DEF IInv
<1> QED BY Invariance, <1>1, PTL

(* WorkerApp.lock keeps the inferences of all clients apart as long as the   *)
(* frontend lives, whatever times out.                                       *)
THEOREM GpuExclusion == Spec => []GpuExclusive
BY Invariance, InvExclusive, PTL

(* The framed Unix socket of a WebSocket never holds two messages.           *)
THEOREM SingleOutstanding == Spec => []OneOutstanding
BY Invariance, InvOneOutstanding, PTL

-----------------------------------------------------------------------------
(* What happens around the Close frame.                                      *)

(* A task that has sent a Close frame is over, and one that has sent         *)
(* Close(1011) has left no answer of its worker unread.                      *)
ClosedOf(c) ==
    /\ close[c] # 0 => rust[c] = "closed"
    /\ close[c] = 1011 => toRs[c] = <<>>

CloseInv == \A c \in Conns : ClosedOf(c)

(* A step that keeps the close code and, once there is one, the socket.      *)
LEMMA KeepClosed ==
    ASSUME NEW d \in Conns, ClosedOf(d), close'[d] = close[d],
           rust[d] = "closed" => rust'[d] = "closed" /\ toRs'[d] = toRs[d]
    PROVE  ClosedOf(d)'
BY DEF ClosedOf

LEMMA HandleWsClose ==
    ASSUME IInv, CloseInv, NEW c \in Conns, HandleWs(c)
    PROVE  CloseInv'
<1> USE DEF udsVars
<1>1. TypeOK /\ rust[c] # "closed" /\ ServerAlive
  BY AliveIfActive DEF IInv, HandleWs, ConnectWorker, ShutdownClose, ReadBinary, ReadEnd,
     FatalFraming, PerFrame, Pending, InferReply, InferEof, SendReply, SendFail
<1>2. close[c] = 0
  BY <1>1 DEF CloseInv, ClosedOf
<1>3. \A d \in Conns \ {c} : rust'[d] = rust[d] /\ close'[d] = close[d] /\ toRs'[d] = toRs[d]
  <2>1. CASE ConnectWorker(c) \/ ShutdownClose(c) \/ FatalFraming(c) \/ InferEof(c)
    BY <1>1, <2>1
    DEF TypeOK, ConnectWorker, ShutdownClose, FatalFraming, InferEof, CloseWith
  <2>2. CASE Pending(c) \/ InferReply(c)
    BY <1>1, <2>2 DEF TypeOK, Pending, InferReply, CloseWith
  <2>3. CASE ReadBinary(c) \/ ReadEnd(c) \/ PerFrame(c) \/ SendReply(c) \/ SendFail(c)
    BY <1>1, <2>3 DEF TypeOK, ReadBinary, ReadEnd, PerFrame, SendReply, SendFail
  <2> QED BY <2>1, <2>2, <2>3 DEF HandleWs
<1>4. ClosedOf(c)'
  <2>1. CASE InferReply(c)
    <3>1. toRs[c] \in Seq(Reply) /\ Len(toRs[c]) = 1
      BY <1>1, <2>1 DEF InferReply, IInv, UdsOf, TypeOK
    <3>2. toRs'[c] = <<>>
      BY <1>1, <2>1, <3>1, LastMessage DEF InferReply, TypeOK
    <3>3. close'[c] = close[c] \/ rust'[c] = "closed"
      BY <1>1, <2>1 DEF InferReply, CloseWith, TypeOK
    <3> QED BY <1>2, <3>2, <3>3 DEF ClosedOf
  <2>2. CASE ConnectWorker(c) \/ ShutdownClose(c) \/ FatalFraming(c)
             \/ Pending(c) \/ InferEof(c)
    <3>1. toRs'[c] = <<>> \/ close'[c] = close[c]
      BY <1>1, <2>2, Quiet
      DEF ConnectWorker, ShutdownClose, FatalFraming, Pending, InferEof, TypeOK
    <3>2. close'[c] = close[c] \/ rust'[c] = "closed"
      BY <1>1, <2>2
      DEF ConnectWorker, ShutdownClose, FatalFraming, Pending, InferEof, CloseWith, TypeOK
    <3> QED BY <1>2, <3>1, <3>2 DEF ClosedOf
  <2>3. CASE ReadBinary(c) \/ ReadEnd(c) \/ PerFrame(c) \/ SendReply(c) \/ SendFail(c)
    <3>1. close'[c] = 0
      BY <1>2, <2>3 DEF ReadBinary, ReadEnd, PerFrame, SendReply, SendFail
    <3> QED BY <3>1 DEF ClosedOf
  <2> QED BY <2>1, <2>2, <2>3 DEF HandleWs
<1>5. ASSUME NEW d \in Conns \ {c} PROVE ClosedOf(d)'
  BY <1>3, KeepClosed DEF CloseInv
<1> QED BY <1>4, <1>5 DEF CloseInv

(* The worker writes only to a socket that handle_ws still holds.            *)
LEMMA HandleConnectionClose ==
    ASSUME IInv, CloseInv, NEW c \in Conns, HandleConnection(c)
    PROVE  CloseInv'
<1> USE DEF udsVars, rustVars
<1>1. TypeOK /\ UNCHANGED <<rust, close>>
  BY DEF IInv, HandleConnection, TakeRequest, Respond, FatalInference, HardExit, ReadEof
<1>2. ASSUME NEW d \in Conns, rust[d] = "closed" PROVE toRs'[d] = toRs[d]
  <2>1. CASE UNCHANGED toRs
    BY <2>1
  <2>2. CASE UdsHeld(c) /\ \E r : toRs' = [toRs EXCEPT ![c] = r]
    <3>1. d # c
      BY <1>2, <2>2 DEF UdsHeld, Reading, Busy
    <3> QED BY <1>1, <2>2, <3>1 DEF TypeOK
  <2>3. UNCHANGED toRs \/ (UdsHeld(c) /\ \E r : toRs' = [toRs EXCEPT ![c] = r])
    BY DEF HandleConnection, TakeRequest, Respond, WriteReply, FatalInference, HardExit, ReadEof
  <2> QED BY <2>1, <2>2, <2>3
<1>3. ASSUME NEW d \in Conns PROVE ClosedOf(d)'
  BY <1>1, <1>2, <1>3, KeepClosed DEF CloseInv
<1> QED BY <1>3 DEF CloseInv

LEMMA StepClose == IInv /\ CloseInv /\ [Next]_vars => CloseInv'
<1> SUFFICES ASSUME IInv, CloseInv, [Next]_vars PROVE CloseInv'
  OBVIOUS
<1> USE DEF clientVars, rustVars, udsVars, workerVars, taskVars, lockVars, procVars
<1>1. ASSUME UNCHANGED <<close, toRs>>,
             \A d \in Conns : rust[d] = "closed" => rust'[d] = "closed"
      PROVE  CloseInv'
  <2>1. ASSUME NEW d \in Conns PROVE ClosedOf(d)'
    BY <1>1, <2>1, KeepClosed DEF CloseInv
  <2> QED BY <2>1 DEF CloseInv
<1>2. ASSUME NEW c \in Conns, Open(c) PROVE CloseInv'
  <2>1. rust[c] = "none"
    BY <1>2 DEF Open, IInv, TaskPerOpen
  <2>2. \A d \in Conns : rust[d] = "closed" => rust'[d] = "closed"
    BY <1>2, <2>1 DEF Open, IInv, TypeOK
  <2> QED BY <1>1, <1>2, <2>2 DEF Open
<1>3. ASSUME NEW c \in Conns, Send(c) \/ Stall(c) \/ Leave(c) PROVE CloseInv'
  BY <1>1, <1>3 DEF Send, Stall, Leave
<1>4. ASSUME GrantLock \/ \E f \in Frame, o \in Outcome : EngineReturn(f, o) PROVE CloseInv'
  BY <1>1, <1>4 DEF GrantLock, EngineReturn
<1>5. ASSUME Supervision \/ DockerStop \/ ServerCrash \/ WorkerCrash \/ Down PROVE CloseInv'
  <2>1. ASSUME StopListening \/ ChildEnded \/ DockerStop \/ Down \/ DrainedExit \/ WorkerCrash
        PROVE  CloseInv'
    BY <1>1, <2>1
    DEF StopListening, ChildEnded, DockerStop, Down, DrainedExit, WorkerCrash, vars
  <2>2. ASSUME NotifyWaiters \/ ServerExit \/ ServerCrash \/ Kill PROVE CloseInv'
    BY <1>1, <2>2 DEF NotifyWaiters, ServerExit, ServerCrash, Kill, DropTasks
  <2> QED BY <1>5, <2>1, <2>2 DEF Supervision
<1>6. CASE UNCHANGED vars
  BY <1>1, <1>6 DEF vars
<1> QED BY <1>2, <1>3, <1>4, <1>5, <1>6, HandleWsClose, HandleConnectionClose DEF Next

(* IInv and CloseInv together are inductive.                                 *)
LEMMA CloseInvariance == Spec => [](IInv /\ CloseInv)
<1>1. Init => CloseInv
  <2> SUFFICES ASSUME Init, NEW c \in Conns PROVE ClosedOf(c)
    BY DEF CloseInv
  <2>1. close[c] = 0 /\ toRs[c] = <<>>
    BY DEF Init
  <2> QED BY <2>1 DEF ClosedOf
<1> QED BY Invariance, <1>1, StepClose, PTL DEF Spec

(* No Close(1011) overtakes the typed error of a worker that went down over  *)
(* the client's frame.                                                       *)
THEOREM TypedErrorBeforeClose == Spec => []TypedErrorFirst
<1>1. CloseInv => TypedErrorFirst
  BY DEF CloseInv, ClosedOf, TypedErrorFirst
<1> QED BY CloseInvariance, <1>1, PTL

(* Nothing is sent after the Close frame, by whatever step of the client,    *)
(* the worker, the entrypoint or the task itself.                            *)
THEOREM CloseFinal == Spec => CloseIsLast
<1> USE DEF clientVars, rustVars, udsVars, workerVars, taskVars, lockVars, procVars
<1>1. ASSUME IInv, CloseInv, [Next]_vars, NEW c \in Conns, close[c] # 0 \/ Ended(c)
      PROVE  rust'[c] = rust[c] /\ close'[c] = close[c] /\ replies'[c] = replies[c]
  <2>1. TypeOK /\ rust[c] \in {"closed", "dropped"}
    BY <1>1 DEF IInv, CloseInv, ClosedOf, Ended
  <2>2. ASSUME NEW d \in Conns, HandleWs(d)
        PROVE  rust'[c] = rust[c] /\ close'[c] = close[c] /\ replies'[c] = replies[c]
    <3>1. rust[d] \notin {"closed", "dropped"}
      BY <2>2 DEF HandleWs, ConnectWorker, ShutdownClose, ReadBinary, ReadEnd,
         FatalFraming, PerFrame, Pending, InferReply, InferEof, SendReply, SendFail
    <3>2. d # c
      BY <2>1, <3>1
    <3>3. UNCHANGED close \/ \E code : close' = [close EXCEPT ![d] = code]
      BY <2>2 DEF HandleWs, ConnectWorker, ShutdownClose, ReadBinary, ReadEnd, FatalFraming,
         PerFrame, Pending, InferReply, InferEof, SendReply, SendFail, CloseWith
    <3>4. UNCHANGED replies \/ replies' = [replies EXCEPT ![d] = Append(@, out[d])]
      BY <2>2 DEF HandleWs, ConnectWorker, ShutdownClose, ReadBinary, ReadEnd, FatalFraming,
         PerFrame, Pending, InferReply, InferEof, SendReply, SendFail
    <3>5. \E state : rust' = [rust EXCEPT ![d] = state]
      BY <2>2 DEF HandleWs, ConnectWorker, ShutdownClose, ReadBinary, ReadEnd, FatalFraming,
         PerFrame, Pending, InferReply, InferEof, SendReply, SendFail, CloseWith
    <3> QED BY <2>1, <3>2, <3>3, <3>4, <3>5 DEF TypeOK
  <2>3. ASSUME NEW d \in Conns, HandleConnection(d)
        PROVE  UNCHANGED <<rust, close, replies>>
    BY <2>3 DEF HandleConnection, TakeRequest, Respond, FatalInference, HardExit, ReadEof
  <2>4. ASSUME NEW d \in Conns, Open(d) \/ Send(d) \/ Stall(d) \/ Leave(d)
        PROVE  rust'[c] = rust[c] /\ close'[c] = close[c] /\ replies'[c] = replies[c]
    <3>1. Open(d) => d # c
      BY <1>1, <2>1 DEF Open, IInv, TaskPerOpen
    <3> QED BY <2>1, <2>4, <3>1 DEF Open, Send, Stall, Leave, TypeOK
  <2>5. ASSUME Supervision \/ DockerStop \/ ServerCrash \/ WorkerCrash \/ Down \/ GrantLock
               \/ \E f \in Frame, o \in Outcome : EngineReturn(f, o)
        PROVE  rust'[c] = rust[c] /\ close'[c] = close[c] /\ replies'[c] = replies[c]
    <3>1. UNCHANGED <<close, replies>>
      BY <2>5 DEF Supervision, StopListening, DrainedExit, ChildEnded, NotifyWaiters,
         ServerExit, Kill, DockerStop, ServerCrash, WorkerCrash, Down, vars, GrantLock,
         EngineReturn
    <3>2. rust'[c] = rust[c]
      BY <2>1, <2>5 DEF Supervision, StopListening, DrainedExit, ChildEnded, NotifyWaiters,
         ServerExit, Kill, DockerStop, ServerCrash, WorkerCrash, Down, vars, GrantLock,
         EngineReturn, DropTasks
    <3> QED BY <3>1, <3>2
  <2>6. CASE UNCHANGED vars
    BY <2>6 DEF vars
  <2> QED BY <1>1, <2>2, <2>3, <2>4, <2>5, <2>6 DEF Next
<1>2. IInv /\ CloseInv /\ [Next]_vars =>
          [\A c \in Conns : close[c] # 0 \/ Ended(c) =>
              rust'[c] = rust[c] /\ close'[c] = close[c] /\ replies'[c] = replies[c]]_vars
  BY <1>1
<1> QED BY CloseInvariance, <1>2, PTL DEF Spec, CloseIsLast

(* The lock is granted in the order of arrival, by TakeRequest to a newcomer *)
(* when nobody waits and by GrantLock to the oldest waiter.                  *)
THEOREM ArrivalOrder == Spec => FirstComeFirstServed
<1> USE DEF clientVars, rustVars, udsVars, workerVars, taskVars, lockVars, procVars
<1>1. ASSUME [Next]_vars, holder' # holder, holder' # None
      PROVE  queue = <<>> \/ holder' = Head(queue)
  <2>1. ASSUME NEW c \in Conns, HandleConnection(c) PROVE queue = <<>>
    BY <1>1, <2>1 DEF HandleConnection, TakeRequest, Respond, FatalInference, HardExit,
       ReadEof, WorkerGone
  <2>2. ASSUME GrantLock PROVE holder' = Head(queue)
    BY <2>2 DEF GrantLock, StartEngine
  <2>3. ASSUME NEW c \in Conns,
               HandleWs(c) \/ Open(c) \/ Send(c) \/ Stall(c) \/ Leave(c)
        PROVE  UNCHANGED holder
    BY <2>3 DEF HandleWs, ConnectWorker, ShutdownClose, ReadBinary, ReadEnd, FatalFraming,
       PerFrame, Pending, InferReply, InferEof, SendReply, SendFail, Open, Send, Stall, Leave
  <2>4. ASSUME Supervision \/ DockerStop \/ ServerCrash \/ WorkerCrash \/ Down
               \/ (\E f \in Frame, o \in Outcome : EngineReturn(f, o)) \/ UNCHANGED vars
        PROVE  UNCHANGED holder \/ holder' = None
    BY <2>4 DEF Supervision, StopListening, DrainedExit, ChildEnded, NotifyWaiters,
       ServerExit, Kill, DockerStop, ServerCrash, WorkerCrash, Down, vars, EngineReturn,
       WorkerGone
  <2> QED BY <1>1, <2>1, <2>2, <2>3, <2>4 DEF Next
<1>2. [Next]_vars =>
          [holder' # holder /\ holder' # None => queue = <<>> \/ holder' = Head(queue)]_vars
  BY <1>1
<1> QED BY <1>2, PTL DEF Spec, FirstComeFirstServed

-----------------------------------------------------------------------------
(***************************************************************************)
(* LaStream implements StopAndWait for every set of connections and every  *)
(* number of frames: the initial states map to initial states, and every   *)
(* step maps to a step of one connection, to an Abandon or to a stutter.   *)
(* The invariant IInv supplies what the guards leave unsaid: how many      *)
(* messages a task has taken at each point of its loop.                    *)
(***************************************************************************)

PhaseOf(state) ==
    IF state = "none" THEN "new"
    ELSE IF state \in {"closed", "dropped"} THEN "ended" ELSE "open"

(* A step of one task moves the phase of its connection and no other.       *)
LEMMA PhaseMoves ==
    ASSUME TypeOK, NEW c \in Conns, NEW s, rust' = [rust EXCEPT ![c] = s]
    PROVE  Phase' = [Phase EXCEPT ![c] = PhaseOf(s)]
BY DEF TypeOK, Phase, PhaseOf, Ended

LEMMA PhaseIs == \A c \in Conns : Phase[c] = PhaseOf(rust[c])
BY DEF Phase, PhaseOf, Ended

LEMMA PhaseKept ==
    ASSUME TypeOK, NEW c \in Conns, NEW s, rust' = [rust EXCEPT ![c] = s],
           PhaseOf(s) = PhaseOf(rust[c])
    PROVE  UNCHANGED Phase
<1>1. Phase' = [Phase EXCEPT ![c] = PhaseOf(s)]
  BY PhaseMoves
<1>2. PhaseOf(s) = Phase[c]
  BY PhaseIs
<1>3. Phase = [Phase EXCEPT ![c] = Phase[c]]
  BY DEF Phase
<1> QED BY <1>1, <1>2, <1>3

LEMMA PhaseEnds ==
    ASSUME TypeOK, NEW c \in Conns, rust[c] \notin {"none", "closed", "dropped"},
           rust' = [rust EXCEPT ![c] = "closed"]
    PROVE  Phase[c] = "open" /\ Phase' = [Phase EXCEPT ![c] = "ended"]
BY PhaseMoves, PhaseIs DEF PhaseOf

(* The processes may end with every task where it stands.                   *)
LEMMA DroppedTasks ==
    ASSUME TypeOK, DropTasks, UNCHANGED <<cur, replies, close>>
    PROVE  Client!Abandon
<1> DEFINE S == {c \in Conns : Phase[c] = "open"}
<1>1. Phase' = [c \in Conns |-> PhaseOf(rust'[c])]
  BY DEF Phase, PhaseOf, Ended
<1>2. ASSUME NEW c \in Conns
      PROVE  PhaseOf(rust'[c]) = IF c \in S THEN "ended" ELSE Phase[c]
  BY PhaseIs DEF DropTasks, PhaseOf
<1>3. Phase' = [c \in Conns |-> IF c \in S THEN "ended" ELSE Phase[c]]
  BY <1>1, <1>2
<1> QED BY <1>3 DEF Client!Abandon

(* Every Close frame of handle_ws, with what is known of the frame at hand. *)
LEMMA CloseStep ==
    ASSUME IInv, NEW c \in Conns, NEW k \in Nat, CloseWith(c, k),
           UNCHANGED <<cur, replies>>,
           rust[c] \notin {"none", "closed", "dropped"},
           k = 1001 => rust[c] = "notified",
           k = 1008 => Busy(c),
           k = 1011 => Busy(c) \/ rust[c] = "connecting"
    PROVE  Client!Close(c, k)
<1>1. TypeOK /\ FrontOf(c)
  BY DEF IInv
<1>2. rust' = [rust EXCEPT ![c] = "closed"]
  BY DEF CloseWith
<1>3. Phase[c] = "open" /\ Phase' = [Phase EXCEPT ![c] = "ended"]
  BY <1>1, <1>2, PhaseEnds
<1>4. k = 1001 => cur[c] = Len(replies[c])
  BY <1>1 DEF FrontOf
<1>5. Busy(c) => cur[c] = Len(replies[c]) + 1
  BY <1>1 DEF FrontOf
<1>6. rust[c] = "connecting" => cur[c] = 0
  BY <1>1 DEF FrontOf
<1> QED BY <1>3, <1>4, <1>5, <1>6 DEF Client!Close, Client!AtRest, Client!Waiting, CloseWith

(* The steps that end a task without a Close frame.                         *)
LEMMA AbandonStep ==
    ASSUME TypeOK, NEW c \in Conns, rust[c] \notin {"none", "closed", "dropped"},
           rust' = [rust EXCEPT ![c] = "closed"], UNCHANGED <<cur, replies, close>>
    PROVE  Client!Abandon
<1>1. Phase[c] = "open" /\ Phase' = [Phase EXCEPT ![c] = "ended"]
  BY PhaseEnds
<1>2. Phase = [d \in Conns |-> Phase[d]]
  BY DEF Phase
<1>3. Phase' = [d \in Conns |-> IF d \in {c} THEN "ended" ELSE Phase[d]]
  BY <1>1, <1>2
<1>4. {c} \in SUBSET {d \in Conns : Phase[d] = "open"}
  BY <1>1
<1> QED BY <1>3, <1>4 DEF Client!Abandon

(* handle_ws, one action after the other.                                   *)
LEMMA HandleWsSimulates ==
    ASSUME IInv, NEW c \in Conns, HandleWs(c)
    PROVE  Client!Next \/ UNCHANGED Client!vars
<1>1. TypeOK /\ FrontOf(c)
  BY DEF IInv
<1>2. CASE ConnectWorker(c)
  <2>1. CASE rust' = [rust EXCEPT ![c] = "reading"] /\ UNCHANGED close
    <3>1. UNCHANGED Phase
      BY <1>1, <1>2, <2>1, PhaseKept DEF ConnectWorker, PhaseOf
    <3> QED BY <1>2, <2>1, <3>1 DEF ConnectWorker, Client!vars
  <2>2. CASE CloseWith(c, 1011)
    <3>1. Client!Close(c, 1011)
      BY <1>2, <2>2, CloseStep DEF ConnectWorker
    <3> QED BY <3>1 DEF Client!Next
  <2> QED BY <1>2, <2>1, <2>2 DEF ConnectWorker
<1>3. CASE ShutdownClose(c)
  <2>1. Client!Close(c, 1001)
    BY <1>3, CloseStep DEF ShutdownClose
  <2> QED BY <2>1 DEF Client!Next
<1>4. CASE ReadBinary(c)
  <2>1. Phase[c] = "open"
    BY <1>4, PhaseIs DEF ReadBinary, PhaseOf
  <2>2. UNCHANGED Phase
    BY <1>1, <1>4, PhaseKept DEF ReadBinary, PhaseOf
  <2>3. cur[c] = Len(replies[c])
    BY <1>1, <1>4 DEF FrontOf, ReadBinary
  <2>4. Client!Take(c)
    BY <1>4, <2>1, <2>2, <2>3 DEF ReadBinary, Client!Take, Client!AtRest
  <2> QED BY <2>4 DEF Client!Next
<1>5. CASE ReadEnd(c)
  <2>1. Client!Abandon
    BY <1>1, <1>5, AbandonStep DEF ReadEnd
  <2> QED BY <2>1 DEF Client!Next
<1>6. CASE FatalFraming(c)
  <2>1. Client!Close(c, 1008)
    BY <1>6, CloseStep DEF FatalFraming, Busy
  <2> QED BY <2>1 DEF Client!Next
<1>7. CASE PerFrame(c)
  <2>1. UNCHANGED Phase
    BY <1>1, <1>7, PhaseKept DEF PerFrame, PhaseOf
  <2> QED BY <1>7, <2>1 DEF PerFrame, Client!vars
<1>8. CASE Pending(c)
  <2>1. CASE rust' = [rust EXCEPT ![c] = "infer"] /\ UNCHANGED close
    <3>1. UNCHANGED Phase
      BY <1>1, <1>8, <2>1, PhaseKept DEF Pending, PhaseOf
    <3> QED BY <1>8, <2>1, <3>1 DEF Pending, Client!vars
  <2>2. CASE CloseWith(c, 1011)
    <3>1. Client!Close(c, 1011)
      BY <1>8, <2>2, CloseStep DEF Pending, Busy
    <3> QED BY <3>1 DEF Client!Next
  <2> QED BY <1>8, <2>1, <2>2 DEF Pending
<1>9. CASE InferReply(c)
  <2>1. CASE rust' = [rust EXCEPT ![c] = "sending"] /\ UNCHANGED close
    <3>1. UNCHANGED Phase
      BY <1>1, <1>9, <2>1, PhaseKept DEF InferReply, PhaseOf
    <3> QED BY <1>9, <2>1, <3>1 DEF InferReply, Client!vars
  <2>2. CASE CloseWith(c, 1011)
    <3>1. Client!Close(c, 1011)
      BY <1>9, <2>2, CloseStep DEF InferReply, Busy
    <3> QED BY <3>1 DEF Client!Next
  <2> QED BY <1>9, <2>1, <2>2 DEF InferReply
<1>10. CASE InferEof(c)
  <2>1. Client!Close(c, 1011)
    BY <1>10, CloseStep DEF InferEof, Busy
  <2> QED BY <2>1 DEF Client!Next
<1>11. CASE SendReply(c)
  <2>1. Phase[c] = "open"
    BY <1>11, PhaseIs DEF SendReply, PhaseOf
  <2>2. UNCHANGED Phase
    BY <1>1, <1>11, PhaseKept DEF SendReply, PhaseOf
  <2>3. /\ cur[c] = Len(replies[c]) + 1
        /\ out[c] \in Reply /\ out[c].id = <<c, cur[c]>> /\ out[c].of = <<c, cur[c]>>
        /\ out[c].body # "drift"
    BY <1>1, <1>11 DEF FrontOf, SendReply, Busy, CurFrame
  <2>4. out[c].body \in {"success", "error", "fatal"}
    BY <2>3 DEF Reply, Body
  <2>5. out[c] = [id |-> <<c, cur[c]>>, of |-> <<c, cur[c]>>, body |-> out[c].body]
    BY <2>3 DEF Reply
  <2>6. out[c] = Client!AnswerTo(c, cur[c], out[c].body)
    BY <2>5 DEF Client!AnswerTo
  <2>7. \E b \in Client!Delivered :
            replies' = [replies EXCEPT ![c] = Append(@, Client!AnswerTo(c, cur[c], b))]
    BY <1>11, <2>4, <2>6 DEF SendReply, Client!Delivered
  <2>8. Client!Answer(c)
    BY <1>11, <2>1, <2>2, <2>3, <2>7 DEF SendReply, Client!Answer, Client!Waiting
  <2> QED BY <2>8 DEF Client!Next
<1>12. CASE SendFail(c)
  <2>1. Client!Abandon
    BY <1>1, <1>12, AbandonStep DEF SendFail
  <2> QED BY <2>1 DEF Client!Next
<1> QED BY <1>2, <1>3, <1>4, <1>5, <1>6, <1>7, <1>8, <1>9, <1>10, <1>11, <1>12 DEF HandleWs

(* Everybody else: the clients, the worker and the processes.               *)
LEMMA OthersSimulate ==
    ASSUME IInv, [Next]_vars, \A c \in Conns : ~HandleWs(c)
    PROVE  Client!Next \/ UNCHANGED Client!vars
<1> USE DEF clientVars, rustVars, udsVars, workerVars, taskVars, lockVars, procVars
<1>1. TypeOK /\ TaskPerOpen
  BY DEF IInv
<1>2. ASSUME UNCHANGED <<rust, cur, replies, close>>
      PROVE  UNCHANGED Client!vars
  BY <1>2 DEF Client!vars, Phase, Ended
<1>3. ASSUME NEW c \in Conns, Open(c)
      PROVE  Client!Next
  <2>1. rust[c] = "none" /\ rust' = [rust EXCEPT ![c] = "connecting"]
    BY <1>1, <1>3 DEF Open, TaskPerOpen
  <2>2. Phase[c] = "new" /\ Phase' = [Phase EXCEPT ![c] = "open"]
    <3>1. Phase' = [Phase EXCEPT ![c] = PhaseOf("connecting")]
      BY <1>1, <2>1, PhaseMoves
    <3>2. Phase[c] = PhaseOf(rust[c])
      BY PhaseIs
    <3> QED BY <2>1, <3>1, <3>2 DEF PhaseOf
  <2>3. Client!Begin(c)
    BY <1>3, <2>2 DEF Open, Client!Begin
  <2> QED BY <2>3 DEF Client!Next
<1>4. ASSUME NEW c \in Conns, Send(c) \/ Stall(c) \/ Leave(c) \/ HandleConnection(c)
      PROVE  UNCHANGED <<rust, cur, replies, close>>
  BY <1>4 DEF Send, Stall, Leave, HandleConnection, TakeRequest, Respond, FatalInference,
     HardExit, ReadEof
<1>5. ASSUME GrantLock \/ (\E f \in Frame, o \in Outcome : EngineReturn(f, o))
             \/ StopListening \/ DrainedExit \/ ChildEnded \/ DockerStop \/ WorkerCrash
             \/ Down \/ UNCHANGED vars
      PROVE  UNCHANGED <<rust, cur, replies, close>>
  BY <1>5 DEF GrantLock, EngineReturn, StopListening, DrainedExit, ChildEnded, DockerStop,
     WorkerCrash, Down, vars
<1>6. CASE NotifyWaiters
  <2>1. Phase' = [c \in Conns |-> PhaseOf(rust'[c])]
    BY DEF Phase, PhaseOf, Ended
  <2>2. \A c \in Conns : PhaseOf(rust'[c]) = Phase[c]
    BY <1>6, PhaseIs DEF NotifyWaiters, PhaseOf
  <2>3. Phase = [c \in Conns |-> Phase[c]]
    BY DEF Phase
  <2> QED BY <1>6, <2>1, <2>2, <2>3 DEF NotifyWaiters, Client!vars
<1>7. CASE ServerExit \/ ServerCrash \/ Kill
  <2>1. Client!Abandon
    BY <1>1, <1>7, DroppedTasks DEF ServerExit, ServerCrash, Kill
  <2> QED BY <2>1 DEF Client!Next
<1> QED BY <1>2, <1>3, <1>4, <1>5, <1>6, <1>7 DEF Next, Supervision

(* The whole service - tasks, sockets, lock, threads, processes - is to its *)
(* clients the abstract stop-and-wait service: ServesClients, for any       *)
(* number of connections and frames.                                        *)
THEOREM Refinement == Spec => ServesClients
<1>1. Init => Client!Init
  BY DEF Init, Client!Init, Phase, Ended
<1>2. IInv /\ [Next]_vars => [Client!Next]_(Client!vars)
  BY HandleWsSimulates, OthersSimulate
<1> QED BY Invariance, <1>1, <1>2, PTL DEF Spec, ServesClients, Client!Spec

=============================================================================
