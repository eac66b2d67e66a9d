----------------------- MODULE ConcurrencySmokeProofs -----------------------
(***************************************************************************)
(* How far the verdict of the concurrency probe can be trusted, for every  *)
(* number of clients, frames and faults: no fault is passed as OK, and, if *)
(* the timeout and the ratio leave room for a full queue, a service without*)
(* a fault is not accused.                                                 *)
(***************************************************************************)
EXTENDS ConcurrencySmoke, TLAPS, FiniteSetTheorems, WellFoundedInduction

-----------------------------------------------------------------------------
(* The types, and what is at the service: a frame that waits or runs is one *)
(* of its client's, and a client waits once.                               *)

Reply == [of : Clients, frame : Nat, type : {"success", "error"}]

TypeInv ==
    /\ stage \in [Clients -> {"sleeping", "awaiting", "done", "failed"}]
    /\ sleep \in [Clients -> Nat] /\ sent \in [Clients -> Nat] /\ age \in [Clients -> Nat]
    /\ records \in [Clients -> Seq([kind : Kinds, latency : Nat])]
    /\ inbox \in [Clients -> Seq(Reply)] /\ closed \in [Clients -> BOOLEAN]
    /\ conn \in [Clients -> Seq(Nat)]
    /\ waiting \in Seq(Clients)
    /\ running \in [client : Clients \cup {0}, left : Nat]
    /\ verdict \in {"running", "ok", "fail"}

Waits(c) == \E i \in DOMAIN waiting : waiting[i] = c

QueueInv ==
    /\ running.client = 0 => running.left = 0
    /\ running.left <= MaxService
    /\ \A c \in Clients : Waits(c) \/ running.client = c => conn[c] # <<>>
    /\ \A i \in DOMAIN waiting : waiting[i] # running.client
    /\ \A i, j \in DOMAIN waiting : waiting[i] = waiting[j] => i = j

(* Nothing at the service or on the way back is from the future. *)
FrameInv ==
    /\ \A c \in Clients : \A i \in DOMAIN conn[c] : conn[c][i] <= sent[c]
    /\ \A c \in Clients : \A i \in DOMAIN inbox[c] :
           inbox[c][i].frame <= sent[inbox[c][i].of]
    /\ \A c \in Clients : /\ sent[c] <= FramesPerClient
                          /\ stage[c] = "sleeping" => sent[c] < FramesPerClient

(* Nothing recorded against a client; then at most its current frame is out.*)
Clean(c) ==
    /\ stage[c] # "failed"
    /\ \A i \in DOMAIN records[c] : records[c][i].kind = "result"

Expected(c) == [of |-> c, frame |-> sent[c], type |-> "success"]
Arrived(c)  == \E i \in DOMAIN inbox[c] : inbox[c][i] = Expected(c)

CleanInv ==
    \A c \in Clients : Clean(c) =>
        /\ conn[c] = <<>> \/ (stage[c] = "awaiting" /\ conn[c] = <<sent[c]>>)
        /\ conn[c] # <<>> => ~Arrived(c)

(* Whatever happens, this client ends with a failure on its record. *)
Doomed(c) ==
    \/ ~Clean(c)
    \/ closed[c] /\ stage[c] = "sleeping"
    \/ closed[c] /\ stage[c] = "awaiting" /\ (sent[c] = FramesPerClient => inbox[c] = <<>>)
    \/ stage[c] = "awaiting" /\ conn[c] = <<>> /\ ~Arrived(c)

FaultInv == faults # {} => \E c \in Clients : Doomed(c)

OkInv == verdict = "ok" =>
    faults = {} /\ \A c \in Clients : stage[c] = "done" /\ Clean(c)

SmokeInv == TypeInv /\ QueueInv /\ FrameInv /\ CleanInv /\ FaultInv /\ OkInv

-----------------------------------------------------------------------------
(* A service without a fault.  A frame takes at most MaxService, and at most*)
(* one frame of every other client is before it: Longest is the worst case.*)
Longest == NumClients * MaxService

OnTime(c) ==
    /\ conn[c] # <<>> /\ ~Waits(c) /\ running.client # c => age[c] = 0
    /\ \A i \in DOMAIN waiting :
           waiting[i] = c => age[c] + running.left + i * MaxService <= Longest
    /\ running.client = c => age[c] + running.left \in MinService..Longest
    /\ stage[c] = "awaiting" /\ conn[c] = <<>> => age[c] \in MinService..Longest

Served(c) ==
    /\ Clean(c) /\ ~closed[c]
    /\ IF stage[c] = "awaiting"
       THEN /\ sent[c] = Len(records[c]) + 1
            /\ \/ conn[c] = <<sent[c]>> /\ inbox[c] = <<>>
               \/ conn[c] = <<>> /\ inbox[c] = <<Expected(c)>>
       ELSE sent[c] = Len(records[c]) /\ conn[c] = <<>> /\ inbox[c] = <<>>
    /\ stage[c] = "done" => sent[c] = FramesPerClient
    /\ \A i \in DOMAIN records[c] : records[c][i].latency \in MinService..Longest

QuietInv == faults = {} => \A c \in Clients : Served(c) /\ OnTime(c)

FailInv == verdict = "fail" => faults # {}

-----------------------------------------------------------------------------
LEMMA Constants ==
    /\ NumClients \in Nat /\ NumClients >= 2
    /\ FramesPerClient \in Nat /\ FramesPerClient >= 1
    /\ FrameTimeout \in Nat /\ FairnessRatio \in Nat /\ FairnessRatio >= 1
    /\ MinService \in Nat /\ MinService >= 1 /\ MaxService \in Nat
    /\ SendInterval \in Nat /\ StartOffset \in Nat
    /\ 0 \notin Clients /\ Clients \subseteq Nat
<1>1. {FramesPerClient, FrameTimeout, FairnessRatio, MinService} \subseteq Nat \ {0}
  BY ProbeAssumption
<1>2. {SendInterval, StartOffset, MaxFaults, MaxService} \subseteq Nat
  BY ProbeAssumption
<1>3. NumClients \in Nat \ {0, 1}
  BY ProbeAssumption
<1>4. /\ FramesPerClient \in Nat \ {0} /\ FrameTimeout \in Nat \ {0}
      /\ FairnessRatio \in Nat \ {0} /\ MinService \in Nat \ {0}
  BY <1>1
<1>5. SendInterval \in Nat /\ StartOffset \in Nat /\ MaxService \in Nat
  BY <1>2
<1> QED
  BY <1>3, <1>4, <1>5, SMT DEF Clients

-----------------------------------------------------------------------------
LEMMA AppendFacts ==
    ASSUME NEW S, NEW s \in Seq(S), NEW e \in S
    PROVE  /\ Append(s, e) \in Seq(S) /\ Append(s, e) # <<>>
           /\ Len(s) \in Nat /\ DOMAIN s = 1..Len(s) /\ Len(Append(s, e)) = Len(s) + 1
           /\ DOMAIN Append(s, e) = 1..(Len(s) + 1)
           /\ \A i \in DOMAIN s : Append(s, e)[i] = s[i]
           /\ Append(s, e)[Len(s) + 1] = e
  OBVIOUS

LEMMA TailFacts ==
    ASSUME NEW S, NEW s \in Seq(S), s # <<>>
    PROVE  /\ Tail(s) \in Seq(S) /\ Head(s) = s[1] /\ 1 \in DOMAIN s /\ s[1] \in S
           /\ Len(s) \in Nat /\ DOMAIN s = 1..Len(s) /\ DOMAIN Tail(s) = 1..(Len(s) - 1)
           /\ Len(Tail(s)) = Len(s) - 1
           /\ \A i \in DOMAIN Tail(s) : i + 1 \in DOMAIN s /\ Tail(s)[i] = s[i + 1]
  OBVIOUS

LEMMA InitTypes == Init => TypeInv
<1>1. \A c \in Clients : StartOffset * (c - 1) \in Nat
  <2>1. ASSUME NEW c \in Clients PROVE StartOffset * (c - 1) \in Nat
    <3>1. c \in Nat /\ c >= 1
      BY Constants DEF Clients
    <3>2. c - 1 \in Nat
      BY <3>1
    <3> QED
      BY <3>2, Constants
  <2> QED
    BY <2>1
<1> QED
  BY <1>1, Constants DEF Init, TypeInv, Idle

LEMMA RecordTypes ==
    ASSUME TypeInv, NEW c \in Clients, NEW kind \in Kinds, NEW latency \in Nat,
           Record(c, kind, latency)
    PROVE  /\ stage' \in [Clients -> {"sleeping", "awaiting", "done", "failed"}]
           /\ (UNCHANGED sleep \/ sleep' \in [Clients -> Nat])
           /\ records' \in [Clients -> Seq([kind : Kinds, latency : Nat])]
<1>1. [kind |-> kind, latency |-> latency] \in [kind : Kinds, latency : Nat]
  OBVIOUS
<1>2. records[c] \in Seq([kind : Kinds, latency : Nat])
  BY DEF TypeInv
<1>3. Append(records[c], [kind |-> kind, latency |-> latency]) \in Seq([kind : Kinds, latency : Nat])
  BY <1>1, <1>2
<1>4. records' \in [Clients -> Seq([kind : Kinds, latency : Nat])]
  BY <1>3 DEF Record, TypeInv
<1>5. stage' \in [Clients -> {"sleeping", "awaiting", "done", "failed"}]
  BY DEF Record, TypeInv
<1>6. UNCHANGED sleep \/ sleep' \in [Clients -> Nat]
  <2>1. UNCHANGED sleep \/ sleep' = [sleep EXCEPT ![c] = SendInterval]
    BY DEF Record
  <2>2. sleep \in [Clients -> Nat] /\ SendInterval \in Nat
    BY Constants DEF TypeInv
  <2>3. [sleep EXCEPT ![c] = SendInterval] \in [Clients -> Nat]
    BY <2>2
  <2> QED
    BY <2>1, <2>3
<1> QED
  BY <1>4, <1>5, <1>6

LEMMA DeliverTypes ==
    ASSUME TypeInv, NEW d \in Clients, NEW reply \in Reply, Deliver(d, reply)
    PROVE  inbox' \in [Clients -> Seq(Reply)]
  BY DEF TypeInv, Deliver

(* A client at the GPU has the frame it is at. *)
LEMMA FinishedFrame ==
    ASSUME TypeInv, QueueInv, Finish
    PROVE  /\ running.client \in Clients /\ conn[running.client] # <<>>
           /\ conn[running.client] \in Seq(Nat)
           /\ Head(conn[running.client]) \in Nat
           /\ Head(conn[running.client]) = conn[running.client][1]
           /\ 1 \in DOMAIN conn[running.client]
<1>1. running.client # 0
  <2>1. ASSUME running.client = 0 PROVE FALSE
    <3>1. running.left = 0
      BY <2>1 DEF QueueInv
    <3>2. running = [client |-> 0, left |-> 0]
      BY <2>1, <3>1 DEF TypeInv
    <3> QED
      BY <3>2 DEF Finish, Idle
  <2> QED
    BY <2>1
<1>2. running.client \in Clients
  BY <1>1 DEF TypeInv
<1>3. conn[running.client] # <<>> /\ conn[running.client] \in Seq(Nat)
  BY <1>2 DEF QueueInv, TypeInv
<1> QED
  BY <1>2, <1>3

LEMMA StepTypes == TypeInv /\ QueueInv /\ [Next]_vars => TypeInv'
<1> SUFFICES ASSUME TypeInv, QueueInv, [Next]_vars PROVE TypeInv'
  OBVIOUS
<1>1. ASSUME NEW c \in Clients, SendFrame(c) PROVE TypeInv'
  <2>1. sent' \in [Clients -> Nat] /\ sent'[c] \in Nat
    BY <1>1, SMTT(30) DEF TypeInv, SendFrame
  <2>2. Append(conn[c], sent'[c]) \in Seq(Nat)
    BY <2>1 DEF TypeInv
  <2>3. conn' \in [Clients -> Seq(Nat)]
    BY <2>2, <1>1 DEF TypeInv, SendFrame
  <2>4. stage' \in [Clients -> {"sleeping", "awaiting", "done", "failed"}] /\ age' \in [Clients -> Nat]
    BY <1>1 DEF TypeInv, SendFrame
  <2> QED
    BY <1>1, <2>1, <2>3, <2>4 DEF TypeInv, SendFrame
<1>2. ASSUME NEW c \in Clients, ConnectFailed(c) PROVE TypeInv'
  BY <1>2 DEF TypeInv, ConnectFailed, serviceVars
<1>3. ASSUME NEW c \in Clients, Receive(c) PROVE TypeInv'
  <2>1. inbox' \in [Clients -> Seq(Reply)]
    BY <1>3 DEF TypeInv, Receive
  <2>2. \A kind \in Kinds : Record(c, kind, age[c]) => stage' \in [Clients -> {"sleeping", "awaiting", "done", "failed"}]
           /\ (UNCHANGED sleep \/ sleep' \in [Clients -> Nat])
           /\ records' \in [Clients -> Seq([kind : Kinds, latency : Nat])]
    <3>1. age[c] \in Nat
      BY DEF TypeInv
    <3> QED
      BY <3>1, RecordTypes
  <2>3. PICK kind \in Kinds : Record(c, kind, age[c])
    BY <1>3 DEF Receive, Kinds, KindOf
  <2> QED
    BY <2>1, <2>2, <2>3, <1>3 DEF TypeInv, Receive, serviceVars
<1>4. ASSUME NEW c \in Clients, TimeOut(c) PROVE TypeInv'
  <2>1. "timeout" \in Kinds /\ FrameTimeout \in Nat /\ Record(c, "timeout", FrameTimeout)
    BY <1>4, Constants DEF TimeOut, Kinds
  <2> QED
    BY <2>1, RecordTypes, <1>4 DEF TypeInv, TimeOut, serviceVars
<1>5. ASSUME NEW c \in Clients, ConnectionClosed(c) PROVE TypeInv'
  <2>1. "ws_closed" \in Kinds /\ age[c] \in Nat /\ Record(c, "ws_closed", age[c])
    BY <1>5 DEF ConnectionClosed, Kinds, TypeInv
  <2> QED
    BY <2>1, RecordTypes, <1>5 DEF TypeInv, ConnectionClosed, serviceVars
<1>6. ASSUME NEW c \in Clients, CloseWs(c) PROVE TypeInv'
  BY <1>6 DEF TypeInv, CloseWs, clientVars, serviceVars
<1>7. CASE Grant
  <2>1. \A t \in MinService..MaxService : t \in Nat
    BY Constants
  <2>2. waiting' \in Seq(Clients) /\ Head(waiting) \in Clients
    BY <1>7 DEF Grant, TypeInv
  <2>3. running' \in [client : Clients \cup {0}, left : Nat]
    BY <1>7, <2>1, <2>2 DEF Grant
  <2> QED
    BY <1>7, <2>2, <2>3 DEF TypeInv, Grant, clientVars
<1>8. CASE Finish
  <2> DEFINE r == running.client
  <2>1. r \in Clients /\ \A type \in {"success", "error"} : ReplyTo(r, type) \in Reply
    BY <1>8, FinishedFrame DEF Reply, ReplyTo
  <2>2. inbox' \in [Clients -> Seq(Reply)]
    <3>1. \/ Deliver(r, ReplyTo(r, "success"))
          \/ Deliver(r, ReplyTo(r, "error"))
          \/ UNCHANGED inbox
          \/ \E d \in Clients \ {r} : Deliver(d, ReplyTo(r, "success"))
      BY <1>8 DEF Finish
    <3> HIDE DEF r
    <3>3. CASE UNCHANGED inbox
      BY <3>3 DEF TypeInv
    <3> QED
      BY <2>1, <3>1, <3>3, DeliverTypes
  <2>3. conn' \in [Clients -> Seq(Nat)]
    <3>1. Tail(conn[r]) \in Seq(Nat)
      BY <1>8, FinishedFrame
    <3> QED
      BY <3>1, <1>8 DEF Finish, TypeInv
  <2> QED
    BY <1>8, <2>2, <2>3 DEF TypeInv, Finish, clientVars, Idle
<1>9. ASSUME NEW c \in Clients, Take(c) PROVE TypeInv'
  <2>1. waiting' \in Seq(Clients)
    BY <1>9 DEF TypeInv, Take
  <2> QED
    BY <2>1, <1>9 DEF TypeInv, Take, clientVars
<1>10. CASE Judge
  BY <1>10 DEF TypeInv, Judge, clientVars, serviceVars
<1>11. CASE Tick
  <2>1. \A n \in Nat : Less(n) \in Nat
    BY DEF Less
  <2>2. running' \in [client : Clients \cup {0}, left : Nat]
    BY <1>11, <2>1 DEF TypeInv, Tick
  <2>3. sleep' \in [Clients -> Nat] /\ age' \in [Clients -> Nat]
    <3>1. \A c \in Clients : sleep[c] \in Nat /\ age[c] \in Nat /\ age[c] + 1 \in Nat
      BY DEF TypeInv
    <3> QED
      BY <3>1, <1>11, <2>1 DEF Tick
  <2> QED
    BY <1>11, <2>2, <2>3 DEF TypeInv, Tick
<1>12. CASE UNCHANGED vars
  BY <1>12 DEF TypeInv, vars, clientVars, serviceVars
<1> QED
  BY <1>1, <1>2, <1>3, <1>4, <1>5, <1>6, <1>7, <1>8, <1>9, <1>10, <1>11, <1>12
     DEF Next, Client, Service

-----------------------------------------------------------------------------
(* What a step may do to the parts of the state. *)

LEMMA RecordEffect ==
    ASSUME TypeInv, NEW c \in Clients, NEW kind, NEW latency, Record(c, kind, latency)
    PROVE  /\ stage'[c] \in {"done", "sleeping"}
           /\ \A d \in Clients \ {c} : stage'[d] = stage[d] /\ records'[d] = records[d]
           /\ stage'[c] = "sleeping" => sent[c] # FramesPerClient
           /\ stage'[c] = "done" /\ kind # "ws_closed" => sent[c] = FramesPerClient
           /\ records'[c] = Append(records[c], [kind |-> kind, latency |-> latency])
  BY DEF TypeInv, Record

(* The record that is added: the older ones stay as they are. *)
LEMMA RecordAppended ==
    ASSUME TypeInv, NEW c \in Clients, NEW kind \in Kinds, NEW latency \in Nat,
           Record(c, kind, latency)
    PROVE  /\ DOMAIN records'[c] = 1..(Len(records[c]) + 1) /\ Len(records[c]) \in Nat
           /\ DOMAIN records[c] = 1..Len(records[c])
           /\ Len(records'[c]) = Len(records[c]) + 1
           /\ \A i \in DOMAIN records[c] : records'[c][i] = records[c][i]
           /\ records'[c][Len(records[c]) + 1] = [kind |-> kind, latency |-> latency]
<1>1. records[c] \in Seq([kind : Kinds, latency : Nat])
  BY DEF TypeInv
<1>2. records'[c] = Append(records[c], [kind |-> kind, latency |-> latency])
  BY RecordEffect
<1> QED
  BY <1>1, <1>2

(* The three ends of a wait for a reply. *)
Ends(c, kind, latency) ==
    /\ Record(c, kind, latency) /\ kind \in Kinds /\ latency \in Nat
    /\ stage[c] = "awaiting"
    /\ UNCHANGED <<sent, age, serviceVars, closed, faults, verdict>>

LEMMA WaitsEnd ==
    ASSUME TypeInv, NEW c \in Clients, Receive(c) \/ TimeOut(c) \/ ConnectionClosed(c)
    PROVE  \E kind, latency :
               /\ Ends(c, kind, latency)
               /\ \/ /\ kind = KindOf(c, Head(inbox[c])) /\ latency = age[c]
                     /\ inbox[c] # <<>> /\ inbox' = [inbox EXCEPT ![c] = Tail(@)]
                  \/ /\ kind = "timeout" /\ age[c] >= FrameTimeout /\ UNCHANGED inbox
                  \/ /\ kind = "ws_closed" /\ closed[c] /\ UNCHANGED inbox
<1>1. age[c] \in Nat /\ FrameTimeout \in Nat
  BY Constants DEF TypeInv
<1>2. {"result", "error", "timeout", "ws_closed", "wrong_frame_id"} = Kinds
  BY DEF Kinds
<1>3. CASE Receive(c)
  <2>1. KindOf(c, Head(inbox[c])) \in Kinds
    BY DEF KindOf, Kinds
  <2> QED
    BY <1>1, <1>3, <2>1 DEF Receive, Ends
<1>4. CASE TimeOut(c)
  BY <1>1, <1>2, <1>4 DEF TimeOut, Ends
<1>5. CASE ConnectionClosed(c)
  BY <1>1, <1>2, <1>5 DEF ConnectionClosed, Ends
<1> QED
  BY <1>3, <1>4, <1>5

LEMMA StepQueue == TypeInv /\ QueueInv /\ [Next]_vars => QueueInv'
<1> SUFFICES ASSUME TypeInv, QueueInv, [Next]_vars PROVE QueueInv'
  OBVIOUS
<1>1. ASSUME NEW c \in Clients, SendFrame(c) PROVE QueueInv'
  <2>1. conn[c] \in Seq(Nat) /\ sent'[c] \in Nat
    BY <1>1, SMTT(30) DEF SendFrame, TypeInv
  <2>2. conn'[c] = Append(conn[c], sent'[c]) /\ \A d \in Clients \ {c} : conn'[d] = conn[d]
    BY <1>1 DEF SendFrame, TypeInv
  <2>3. \A d \in Clients : conn[d] # <<>> => conn'[d] # <<>>
    BY <2>1, <2>2, AppendFacts
  <2> QED
    BY <1>1, <2>3 DEF SendFrame, QueueInv, Waits
<1>2. ASSUME NEW c \in Clients, ConnectFailed(c) \/ CloseWs(c) PROVE QueueInv'
  BY <1>2 DEF ConnectFailed, CloseWs, serviceVars, QueueInv, Waits
<1>3. ASSUME NEW c \in Clients, Receive(c) \/ TimeOut(c) \/ ConnectionClosed(c) PROVE QueueInv'
  BY <1>3 DEF Receive, TimeOut, ConnectionClosed, serviceVars, QueueInv, Waits
<1>4. CASE Judge \/ UNCHANGED vars
  BY <1>4 DEF Judge, vars, serviceVars, QueueInv, Waits
<1>5. CASE Tick
  <2>1. running.left \in Nat /\ Less(running.left) <= running.left /\ Less(0) = 0
    BY DEF TypeInv, Less
  <2>2. Less(running.left) \in Nat /\ MaxService \in Nat
    BY <2>1, Constants DEF Less
  <2>3. running'.client = running.client /\ running'.left = Less(running.left)
    BY <1>5 DEF Tick
  <2>4. Less(running.left) <= MaxService
    BY <2>1, <2>2 DEF QueueInv
  <2> QED
    BY <1>5, <2>1, <2>3, <2>4 DEF Tick, QueueInv, Waits
<1>6. ASSUME NEW c \in Clients, Take(c) PROVE QueueInv'
  <2>1. /\ waiting \in Seq(Clients) /\ Len(waiting) \in Nat /\ DOMAIN waiting = 1..Len(waiting)
        /\ waiting' \in Seq(Clients) /\ DOMAIN waiting' = 1..(Len(waiting) + 1)
        /\ \A i \in DOMAIN waiting : waiting'[i] = waiting[i]
        /\ waiting'[Len(waiting) + 1] = c
    <3>1. waiting \in Seq(Clients) /\ waiting' = Append(waiting, c)
      BY <1>6 DEF Take, TypeInv
    <3> QED
      BY <3>1, AppendFacts
  <2>2. \A i \in DOMAIN waiting' : i \in DOMAIN waiting \/ (i = Len(waiting) + 1 /\ waiting'[i] = c)
    BY <2>1
  <2>3. \A i \in DOMAIN waiting : waiting[i] # c
    BY <1>6, <2>1 DEF Take
  <2>4. conn[c] # <<>> /\ running.client # c /\ UNCHANGED <<conn, running>>
    BY <1>6 DEF Take
  <2>5. \A d \in Clients : Waits(d)' => Waits(d) \/ d = c
    BY <2>1, <2>2 DEF Waits
  <2> QED
    BY <2>1, <2>2, <2>3, <2>4, <2>5 DEF QueueInv
<1>7. CASE Grant
  <2>1. /\ waiting \in Seq(Clients) /\ Len(waiting) \in Nat /\ DOMAIN waiting = 1..Len(waiting)
        /\ waiting # <<>> /\ waiting' = Tail(waiting)
    BY <1>7 DEF Grant, TypeInv
  <2>2. /\ DOMAIN waiting' = 1..(Len(waiting) - 1)
        /\ \A i \in DOMAIN waiting' : i + 1 \in DOMAIN waiting /\ waiting'[i] = waiting[i + 1]
        /\ Head(waiting) = waiting[1] /\ 1 \in DOMAIN waiting
    BY <2>1
  <2>3. /\ running'.client = waiting[1] /\ running'.left \in MinService..MaxService
        /\ UNCHANGED conn
    BY <1>7, <2>2 DEF Grant
  <2>4. running'.left <= MaxService /\ waiting[1] \in Clients
    BY <2>1, <2>2, <2>3
  <2>5. \A d \in Clients : Waits(d)' \/ running'.client = d => Waits(d)
    BY <2>2, <2>3 DEF Waits
  <2>6. \A i \in DOMAIN waiting' : waiting'[i] # running'.client
    <3>1. \A i \in DOMAIN waiting' : i + 1 # 1
      BY <2>1, <2>2
    <3> QED
      BY <2>2, <2>3, <3>1 DEF QueueInv
  <2>7. \A i, j \in DOMAIN waiting' : waiting'[i] = waiting'[j] => i = j
    <3>1. ASSUME NEW i \in DOMAIN waiting', NEW j \in DOMAIN waiting', waiting'[i] = waiting'[j]
          PROVE  i = j
      <4>1. i + 1 = j + 1
        BY <2>2, <3>1 DEF QueueInv
      <4>2. i \in Int /\ j \in Int
        BY <2>1, <2>2
      <4> QED
        BY <4>1, <4>2
    <3> QED
      BY <3>1
  <2> QED
    BY <2>3, <2>4, <2>5, <2>6, <2>7, Constants DEF QueueInv
<1>8. CASE Finish
  <2>1. running' = [client |-> 0, left |-> 0] /\ UNCHANGED waiting
    BY <1>8 DEF Finish, Idle
  <2>2. \A d \in Clients \ {running.client} : conn'[d] = conn[d]
    BY <1>8 DEF Finish, TypeInv
  <2>3. \A i \in DOMAIN waiting : waiting[i] \in Clients
    BY DEF TypeInv
  <2>4. \A d \in Clients : ~(Waits(d) /\ d = running.client) /\ d # 0
    BY Constants DEF QueueInv, Waits
  <2> QED
    BY <2>1, <2>2, <2>3, <2>4, Constants DEF QueueInv, Waits
<1> QED
  BY <1>1, <1>2, <1>3, <1>4, <1>5, <1>6, <1>7, <1>8 DEF Next, Client, Service

-----------------------------------------------------------------------------
(* What Finish leaves behind: the frame of the client at the GPU is gone,   *)
(* and at most one reply has been put into an inbox.                       *)
LEMMA FinishEffect ==
    ASSUME TypeInv, QueueInv, Finish
    PROVE  LET r == running.client IN
           /\ r \in Clients /\ conn[r] # <<>> /\ conn'[r] = Tail(conn[r])
           /\ \A c \in Clients \ {r} : conn'[c] = conn[c]
           /\ UNCHANGED <<clientVars, waiting, closed, verdict>>
           /\ \/ Deliver(r, ReplyTo(r, "success")) /\ UNCHANGED faults
              \/ Deliver(r, ReplyTo(r, "error")) /\ Fault("error")
              \/ UNCHANGED inbox /\ Fault("lost")
              \/ \E d \in Clients \ {r} : Deliver(d, ReplyTo(r, "success")) /\ Fault("mixed")
           /\ \A type \in {"success", "error"} :
                  /\ ReplyTo(r, type) \in Reply
                  /\ ReplyTo(r, type) = [of |-> r, frame |-> conn[r][1], type |-> type]
<1>1. /\ running.client \in Clients /\ conn[running.client] # <<>>
      /\ Head(conn[running.client]) \in Nat
      /\ Head(conn[running.client]) = conn[running.client][1]
  BY FinishedFrame
<1>2. conn'[running.client] = Tail(conn[running.client])
  BY <1>1 DEF Finish, TypeInv
<1>3. \A c \in Clients \ {running.client} : conn'[c] = conn[c]
  BY DEF Finish, TypeInv
<1>4. \A type \in {"success", "error"} :
         /\ ReplyTo(running.client, type) \in Reply
         /\ ReplyTo(running.client, type)
                = [of |-> running.client, frame |-> conn[running.client][1], type |-> type]
  BY <1>1 DEF ReplyTo, Reply
<1> QED
  BY <1>1, <1>2, <1>3, <1>4 DEF Finish

(* What a delivery adds to an inbox. *)
LEMMA DeliverEffect ==
    ASSUME TypeInv, NEW d \in Clients, NEW reply \in Reply, Deliver(d, reply)
    PROVE  /\ \A c \in Clients \ {d} : inbox'[c] = inbox[c]
           /\ \A c \in Clients : closed[c] => inbox'[c] = inbox[c]
           /\ \A c \in Clients : \A i \in DOMAIN inbox'[c] :
                 \/ inbox'[c][i] = reply /\ c = d
                 \/ i \in DOMAIN inbox[c] /\ inbox'[c][i] = inbox[c][i]
           /\ ~closed[d] => inbox'[d] = Append(inbox[d], reply)
<1>1. CASE closed[d]
  BY <1>1 DEF Deliver
<1>2. CASE ~closed[d]
  <2>1. inbox' = [inbox EXCEPT ![d] = Append(inbox[d], reply)]
    BY <1>2 DEF Deliver
  <2>2. inbox'[d] = Append(inbox[d], reply) /\ \A c \in Clients \ {d} : inbox'[c] = inbox[c]
    BY <2>1 DEF TypeInv
  <2>3. inbox[d] \in Seq(Reply)
    BY DEF TypeInv
  <2>4. \A i \in DOMAIN inbox'[d] :
            \/ inbox'[d][i] = reply
            \/ i \in DOMAIN inbox[d] /\ inbox'[d][i] = inbox[d][i]
    <3>1. DOMAIN inbox'[d] = 1..(Len(inbox[d]) + 1) /\ DOMAIN inbox[d] = 1..Len(inbox[d])
          /\ Len(inbox[d]) \in Nat
      BY <2>2, <2>3, AppendFacts
    <3>2. \A i \in DOMAIN inbox[d] : inbox'[d][i] = inbox[d][i]
      BY <2>2, <2>3, AppendFacts
    <3>3. inbox'[d][Len(inbox[d]) + 1] = reply
      BY <2>2, <2>3, AppendFacts
    <3>4. \A i \in 1..(Len(inbox[d]) + 1) : i \in 1..Len(inbox[d]) \/ i = Len(inbox[d]) + 1
      BY <3>1
    <3> QED
      BY <3>1, <3>2, <3>3, <3>4
  <2> QED
    BY <1>2, <2>2, <2>4
<1> QED
  BY <1>1, <1>2

LEMMA StepFrames == TypeInv /\ QueueInv /\ FrameInv /\ [Next]_vars => FrameInv'
<1> SUFFICES ASSUME TypeInv, QueueInv, FrameInv, [Next]_vars PROVE FrameInv'
  OBVIOUS
<1>0. \A c \in Clients : /\ sent[c] \in Nat /\ conn[c] \in Seq(Nat) /\ inbox[c] \in Seq(Reply)
                         /\ \A i \in DOMAIN inbox[c] : inbox[c][i] \in Reply
                         /\ \A i \in DOMAIN conn[c] : conn[c][i] \in Nat
  BY SMTT(30) DEF TypeInv
<1>1. ASSUME NEW c \in Clients, SendFrame(c) PROVE FrameInv'
  <2>1. /\ sent'[c] = sent[c] + 1 /\ conn'[c] = Append(conn[c], sent[c] + 1)
        /\ stage[c] = "sleeping" /\ stage'[c] = "awaiting" /\ UNCHANGED inbox
        /\ \A d \in Clients \ {c} : sent'[d] = sent[d] /\ conn'[d] = conn[d] /\ stage'[d] = stage[d]
    BY <1>1 DEF SendFrame, TypeInv
  <2>2. \A d \in Clients : sent[d] <= sent'[d] /\ sent'[d] \in Nat
    BY <1>0, <2>1
  <2>3. sent'[c] <= FramesPerClient
    BY <1>0, <2>1, Constants DEF FrameInv
  <2>4. \A i \in DOMAIN conn'[c] : conn'[c][i] <= sent'[c]
    <3>1. sent[c] + 1 \in Nat
      BY <1>0
    <3>2. /\ DOMAIN conn'[c] = 1..(Len(conn[c]) + 1) /\ DOMAIN conn[c] = 1..Len(conn[c])
          /\ Len(conn[c]) \in Nat /\ conn'[c][Len(conn[c]) + 1] = sent[c] + 1
          /\ \A i \in DOMAIN conn[c] : conn'[c][i] = conn[c][i]
      BY <1>0, <2>1, <3>1, AppendFacts
    <3>3. ASSUME NEW i \in DOMAIN conn[c] PROVE conn'[c][i] <= sent'[c]
      <4>1. conn[c][i] <= sent[c] /\ conn[c][i] \in Nat
        BY <1>0 DEF FrameInv
      <4> QED
        BY <4>1, <3>2, <2>1, <1>0
    <3>4. \A i \in DOMAIN conn'[c] : i \in DOMAIN conn[c] \/ i = Len(conn[c]) + 1
      BY <3>2
    <3> QED
      BY <3>2, <3>3, <3>4, <2>1, <1>0
  <2>5. ASSUME NEW d \in Clients, NEW i \in DOMAIN inbox[d]
        PROVE  inbox[d][i].frame <= sent'[inbox[d][i].of]
    <3>1. /\ inbox[d][i].of \in Clients /\ inbox[d][i].frame \in Nat
          /\ inbox[d][i].frame <= sent[inbox[d][i].of]
      BY <1>0 DEF FrameInv, Reply
    <3>2. sent[inbox[d][i].of] <= sent'[inbox[d][i].of]
      BY <3>1, <2>2
    <3> QED
      BY <3>1, <3>2, <2>2, <1>0
  <2> QED
    BY <2>1, <2>3, <2>4, <2>5 DEF FrameInv
<1>2. ASSUME NEW c \in Clients, ConnectFailed(c) \/ CloseWs(c) PROVE FrameInv'
  <2>1. UNCHANGED <<sent, conn, inbox>>
    BY <1>2 DEF ConnectFailed, CloseWs, serviceVars, clientVars
  <2>2. \A d \in Clients : stage'[d] = "sleeping" => stage[d] = "sleeping"
    BY <1>2 DEF ConnectFailed, CloseWs, clientVars, TypeInv
  <2> QED
    BY <2>1, <2>2 DEF FrameInv
<1>3. ASSUME NEW c \in Clients, Receive(c) \/ TimeOut(c) \/ ConnectionClosed(c) PROVE FrameInv'
  <2>1. PICK kind, latency :
               /\ Ends(c, kind, latency)
               /\ \/ inbox[c] # <<>> /\ inbox' = [inbox EXCEPT ![c] = Tail(@)]
                  \/ UNCHANGED inbox
    BY <1>3, WaitsEnd
  <2>2. /\ \A d \in Clients \ {c} : stage'[d] = stage[d]
        /\ stage'[c] = "sleeping" => sent[c] # FramesPerClient
    BY <2>1, RecordEffect DEF Ends
  <2>3. \A d \in Clients : \A i \in DOMAIN inbox'[d] :
            \E j \in DOMAIN inbox[d] : inbox'[d][i] = inbox[d][j]
    <3>1. CASE UNCHANGED inbox
      BY <3>1
    <3>2. CASE inbox[c] # <<>> /\ inbox' = [inbox EXCEPT ![c] = Tail(@)]
      <4>1. inbox'[c] = Tail(inbox[c]) /\ \A d \in Clients \ {c} : inbox'[d] = inbox[d]
        BY <3>2 DEF TypeInv
      <4>2. \A i \in DOMAIN inbox'[c] : i + 1 \in DOMAIN inbox[c] /\ inbox'[c][i] = inbox[c][i + 1]
        BY <4>1, <3>2, <1>0, TailFacts
      <4> QED
        BY <4>1, <4>2
    <3> QED
      BY <2>1, <3>1, <3>2
  <2>4. UNCHANGED <<sent, conn>>
    BY <2>1 DEF Ends, serviceVars
  <2>5. \A d \in Clients : stage'[d] = "sleeping" => sent[d] < FramesPerClient
    BY <2>2, <1>0, Constants DEF FrameInv
  <2> QED
    BY <2>3, <2>4, <2>5 DEF FrameInv
<1>4. ASSUME Judge \/ UNCHANGED vars \/ Tick \/ Grant \/ \E c \in Clients : Take(c) PROVE FrameInv'
  BY <1>4 DEF Judge, vars, Tick, Grant, Take, clientVars, serviceVars, FrameInv
<1>5. CASE Finish
  <2> DEFINE r == running.client
  <2>1. /\ r \in Clients /\ conn[r] # <<>> /\ conn'[r] = Tail(conn[r])
        /\ \A c \in Clients \ {r} : conn'[c] = conn[c]
        /\ UNCHANGED <<sent, stage>>
    BY <1>5, FinishEffect DEF clientVars
  <2>2. \/ UNCHANGED inbox
        \/ \E d \in Clients, type \in {"success", "error"} : Deliver(d, ReplyTo(r, type))
    BY <1>5, FinishEffect, <2>1
  <2>3. \A c \in Clients : \A i \in DOMAIN conn'[c] : conn'[c][i] <= sent[c]
    <3>1. \A i \in DOMAIN conn'[r] : i + 1 \in DOMAIN conn[r] /\ conn'[r][i] = conn[r][i + 1]
      BY <2>1, <1>0, TailFacts
    <3>2. ASSUME NEW i \in DOMAIN conn'[r] PROVE conn'[r][i] <= sent[r]
      <4>1. i + 1 \in DOMAIN conn[r] /\ conn'[r][i] = conn[r][i + 1]
        BY <3>1
      <4> HIDE DEF r
      <4> QED
        BY <4>1, <2>1 DEF FrameInv
    <3> HIDE DEF r
    <3> QED
      BY <2>1, <3>2 DEF FrameInv
  <2>4. \A type \in {"success", "error"} :
            ReplyTo(r, type) \in Reply /\ ReplyTo(r, type).of = r /\ ReplyTo(r, type).frame <= sent[r]
    <3>1. conn[r][1] <= sent[r]
      BY <2>1, <1>0, TailFacts DEF FrameInv
    <3>2. \A type \in {"success", "error"} :
              /\ ReplyTo(r, type) \in Reply
              /\ ReplyTo(r, type) = [of |-> r, frame |-> conn[r][1], type |-> type]
      BY <1>5, FinishEffect
    <3> HIDE DEF r
    <3> QED
      BY <3>1, <3>2
  <2>5. \A c \in Clients : \A i \in DOMAIN inbox'[c] : inbox'[c][i].frame <= sent[inbox'[c][i].of]
    <3>1. CASE UNCHANGED inbox
      BY <3>1 DEF FrameInv
    <3>2. ASSUME NEW d \in Clients, NEW type \in {"success", "error"}, Deliver(d, ReplyTo(r, type))
          PROVE  \A c \in Clients : \A i \in DOMAIN inbox'[c] : inbox'[c][i].frame <= sent[inbox'[c][i].of]
      <4>1. \A c \in Clients : \A i \in DOMAIN inbox'[c] :
                 \/ inbox'[c][i] = ReplyTo(r, type) /\ c = d
                 \/ i \in DOMAIN inbox[c] /\ inbox'[c][i] = inbox[c][i]
        BY <3>2, <2>4, DeliverEffect
      <4> HIDE DEF r
      <4> QED
        BY <4>1, <2>4 DEF FrameInv
    <3> QED
      BY <2>2, <3>1, <3>2
  <2> QED
    BY <2>1, <2>3, <2>5 DEF FrameInv
<1> QED
  BY <1>1, <1>2, <1>3, <1>4, <1>5 DEF Next, Client, Service

-----------------------------------------------------------------------------
(* A failure on the record stays there. *)

(* What a wait that ends leaves of a clean record: only the awaited reply   *)
(* does.                                                                   *)
LEMMA CleanEnd ==
    ASSUME TypeInv, NEW c \in Clients, NEW kind, NEW latency, Ends(c, kind, latency)
    PROVE  /\ Clean(c)' <=> Clean(c) /\ kind = "result"
           /\ \A d \in Clients \ {c} : Clean(d)' <=> Clean(d)
<1> DEFINE n == Len(records[c]) + 1
<1>1. /\ DOMAIN records'[c] = 1..n /\ DOMAIN records[c] = 1..(n - 1) /\ n - 1 \in Nat
      /\ \A i \in DOMAIN records[c] : records'[c][i] = records[c][i]
      /\ records'[c][n] = [kind |-> kind, latency |-> latency]
  BY RecordAppended DEF Ends
<1>2. stage'[c] # "failed" /\ stage[c] # "failed"
  BY RecordEffect DEF Ends
<1>3. \A i \in 1..n : i \in 1..(n - 1) \/ i = n
  BY <1>1
<1>4. n \in 1..n /\ \A i \in 1..(n - 1) : i \in 1..n
  BY <1>1
<1>5. records'[c][n].kind = kind
  BY <1>1
<1> HIDE DEF n
<1>6. Clean(c)' <=> Clean(c) /\ kind = "result"
  BY <1>1, <1>2, <1>3, <1>4, <1>5 DEF Clean
<1>7. \A d \in Clients \ {c} : Clean(d)' <=> Clean(d)
  BY RecordEffect DEF Ends, Clean
<1> QED
  BY <1>6, <1>7

LEMMA CleanBefore ==
    ASSUME TypeInv, [Next]_vars, NEW d \in Clients, Clean(d)'
    PROVE  Clean(d)
<1>1. ASSUME NEW c \in Clients, Receive(c) \/ TimeOut(c) \/ ConnectionClosed(c) PROVE Clean(d)
  BY <1>1, WaitsEnd, CleanEnd
<1>2. ASSUME NEW c \in Clients, ConnectFailed(c) PROVE Clean(d)
  BY <1>2 DEF ConnectFailed, Clean, TypeInv
<1>3. ASSUME NEW c \in Clients, SendFrame(c) PROVE Clean(d)
  BY <1>3 DEF SendFrame, Clean, TypeInv
<1>4. ASSUME NEW c \in Clients, CloseWs(c) \/ Judge \/ Tick \/ Grant \/ Finish \/ Take(c) \/ UNCHANGED vars
      PROVE  Clean(d)
  BY <1>4 DEF CloseWs, Judge, Tick, Grant, Finish, Take, vars, clientVars, Clean
<1>5. 1 \in Clients
  BY Constants DEF Clients
<1> QED
  BY <1>1, <1>2, <1>3, <1>4, <1>5 DEF Next, Client, Service

(* The reply a client waits for is what it records as a result. *)
LEMMA ResultIsExpected ==
    ASSUME TypeInv, NEW c \in Clients, inbox[c] # <<>>, KindOf(c, Head(inbox[c])) = "result"
    PROVE  Head(inbox[c]) = Expected(c) /\ Arrived(c)
<1>1. /\ 1 \in DOMAIN inbox[c] /\ Head(inbox[c]) = inbox[c][1] /\ inbox[c][1] \in Reply
  <2>1. inbox[c] \in Seq(Reply)
    BY DEF TypeInv
  <2> QED
    BY <2>1, TailFacts
<1>2. inbox[c][1] = [of |-> c, frame |-> sent[c], type |-> "success"]
  BY <1>1 DEF Reply, KindOf
<1> QED
  BY <1>1, <1>2 DEF Expected, Arrived

LEMMA StepClean ==
    TypeInv /\ QueueInv /\ FrameInv /\ CleanInv /\ [Next]_vars => CleanInv'
<1> SUFFICES ASSUME TypeInv, QueueInv, FrameInv, CleanInv, [Next]_vars, NEW d \in Clients, Clean(d)'
             PROVE  /\ conn'[d] = <<>> \/ (stage'[d] = "awaiting" /\ conn'[d] = <<sent'[d]>>)
                    /\ conn'[d] # <<>> => ~Arrived(d)'
  BY DEF CleanInv
<1>0. /\ Clean(d)
      /\ conn[d] = <<>> \/ (stage[d] = "awaiting" /\ conn[d] = <<sent[d]>>)
      /\ conn[d] # <<>> => ~Arrived(d)
  BY CleanBefore DEF CleanInv
<1>1. ASSUME UNCHANGED <<conn, inbox, sent>>, stage'[d] = stage[d]
      PROVE  /\ conn'[d] = <<>> \/ (stage'[d] = "awaiting" /\ conn'[d] = <<sent'[d]>>)
             /\ conn'[d] # <<>> => ~Arrived(d)'
  BY <1>0, <1>1 DEF Arrived, Expected
<1>2. ASSUME NEW c \in Clients, SendFrame(c)
      PROVE  /\ conn'[d] = <<>> \/ (stage'[d] = "awaiting" /\ conn'[d] = <<sent'[d]>>)
             /\ conn'[d] # <<>> => ~Arrived(d)'
  <2>1. /\ sent'[c] = sent[c] + 1 /\ conn'[c] = Append(conn[c], sent[c] + 1)
        /\ stage[c] = "sleeping" /\ stage'[c] = "awaiting" /\ UNCHANGED inbox
        /\ \A e \in Clients \ {c} : sent'[e] = sent[e] /\ conn'[e] = conn[e] /\ stage'[e] = stage[e]
    BY <1>2 DEF SendFrame, TypeInv
  <2>2. CASE d # c
    BY <1>0, <2>1, <2>2 DEF Arrived, Expected
  <2>3. CASE d = c
    <3>1. sent[c] \in Nat /\ sent'[c] = sent[c] + 1
      BY <2>1 DEF TypeInv
    <3>2. conn'[c] = <<sent'[c]>>
      <4>1. conn[c] = <<>>
        BY <1>0, <2>1, <2>3
      <4>2. Append(<< >>, sent[c] + 1) = <<sent[c] + 1>>
        OBVIOUS
      <4> QED
        BY <4>1, <4>2, <2>1
    <3>3. \A i \in DOMAIN inbox[c] : inbox[c][i].of = c => inbox[c][i].frame # sent'[c]
      <4>1. ASSUME NEW i \in DOMAIN inbox[c], inbox[c][i].of = c PROVE inbox[c][i].frame # sent'[c]
        <5>1. inbox[c][i].frame <= sent[c] /\ inbox[c][i].frame \in Nat
          <6>1. inbox[c] \in Seq(Reply)
            BY DEF TypeInv
          <6>2. inbox[c][i] \in Reply
            BY <6>1
          <6>3. inbox[c][i].frame <= sent[inbox[c][i].of]
            BY DEF FrameInv
          <6> QED
            BY <4>1, <6>2, <6>3 DEF Reply
        <5> QED
          BY <5>1, <3>1
      <4> QED
        BY <4>1
    <3>4. \A i \in DOMAIN inbox[c] : inbox[c][i] # [of |-> c, frame |-> sent'[c], type |-> "success"]
      BY <3>3
    <3> QED
      BY <2>1, <2>3, <3>2, <3>4 DEF Arrived, Expected
  <2> QED
    BY <2>2, <2>3
<1>3. ASSUME NEW c \in Clients, Receive(c) \/ TimeOut(c) \/ ConnectionClosed(c)
      PROVE  /\ conn'[d] = <<>> \/ (stage'[d] = "awaiting" /\ conn'[d] = <<sent'[d]>>)
             /\ conn'[d] # <<>> => ~Arrived(d)'
  <2>1. PICK kind, latency :
               /\ Ends(c, kind, latency)
               /\ \/ /\ kind = KindOf(c, Head(inbox[c])) /\ inbox[c] # <<>>
                     /\ inbox' = [inbox EXCEPT ![c] = Tail(@)]
                  \/ kind \in {"timeout", "ws_closed"} /\ UNCHANGED inbox
    BY <1>3, WaitsEnd
  <2>2. UNCHANGED <<sent, conn>> /\ stage[c] = "awaiting"
    BY <2>1 DEF Ends, serviceVars
  <2>3. CASE d # c
    <3>1. stage'[d] = stage[d] /\ inbox'[d] = inbox[d]
      BY <2>1, <2>3, RecordEffect DEF Ends, TypeInv
    <3> QED
      BY <3>1, <2>2, <1>0 DEF Arrived, Expected
  <2>4. CASE d = c
    <3>1. kind = "result"
      BY <2>1, <2>4, CleanEnd
    <3>2. Arrived(c)
      BY <2>1, <3>1, ResultIsExpected
    <3> QED
      BY <1>0, <2>2, <2>4, <3>2
  <2> QED
    BY <2>3, <2>4
<1>4. ASSUME NEW c \in Clients, ConnectFailed(c)
      PROVE  /\ conn'[d] = <<>> \/ (stage'[d] = "awaiting" /\ conn'[d] = <<sent'[d]>>)
             /\ conn'[d] # <<>> => ~Arrived(d)'
  <2>1. stage'[d] = stage[d] /\ UNCHANGED <<conn, inbox, sent>>
    BY <1>4 DEF ConnectFailed, Clean, TypeInv, serviceVars
  <2> QED
    BY <2>1, <1>1
<1>5. ASSUME NEW c \in Clients, CloseWs(c) \/ Judge \/ Tick \/ Grant \/ Take(c) \/ UNCHANGED vars
      PROVE  /\ conn'[d] = <<>> \/ (stage'[d] = "awaiting" /\ conn'[d] = <<sent'[d]>>)
             /\ conn'[d] # <<>> => ~Arrived(d)'
  <2>1. UNCHANGED <<conn, inbox, sent, stage>>
    BY <1>5 DEF CloseWs, Judge, Tick, Grant, Take, vars, clientVars, serviceVars
  <2> QED
    BY <2>1, <1>1
<1>6. CASE Finish
  <2> DEFINE r == running.client
  <2>1. /\ r \in Clients /\ conn[r] # <<>> /\ conn'[r] = Tail(conn[r])
        /\ \A c \in Clients \ {r} : conn'[c] = conn[c]
        /\ UNCHANGED <<sent, stage>>
    BY <1>6, FinishEffect DEF clientVars
  <2>2. \/ UNCHANGED inbox
        \/ \E c \in Clients, type \in {"success", "error"} : Deliver(c, ReplyTo(r, type))
    BY <1>6, FinishEffect, <2>1
  <2>3. \A type \in {"success", "error"} : ReplyTo(r, type) \in Reply /\ ReplyTo(r, type).of = r
    BY <1>6, FinishEffect
  <2> HIDE DEF r
  <2>4. CASE d = r
    <3>1. conn[d] = <<sent[d]>>
      BY <1>0, <2>1, <2>4
    <3>2. Tail(<<sent[d]>>) = <<>>
      OBVIOUS
    <3> QED
      BY <2>1, <2>4, <3>1, <3>2
  <2>5. CASE d # r
    <3>1. ASSUME Arrived(d)' PROVE Arrived(d)
      <4>1. CASE UNCHANGED inbox
        BY <3>1, <4>1, <2>1 DEF Arrived, Expected
      <4>2. ASSUME NEW c \in Clients, NEW type \in {"success", "error"}, Deliver(c, ReplyTo(r, type))
            PROVE  Arrived(d)
        <5>1. \A i \in DOMAIN inbox'[d] :
                 \/ inbox'[d][i] = ReplyTo(r, type)
                 \/ i \in DOMAIN inbox[d] /\ inbox'[d][i] = inbox[d][i]
          BY <4>2, <2>3, DeliverEffect
        <5>2. PICK i \in DOMAIN inbox'[d] : inbox'[d][i] = [of |-> d, frame |-> sent[d], type |-> "success"]
          BY <3>1, <2>1 DEF Arrived, Expected
        <5>3. inbox'[d][i] # ReplyTo(r, type)
          BY <5>2, <2>3, <2>5
        <5> QED
          BY <5>1, <5>2, <5>3 DEF Arrived, Expected
      <4> QED
        BY <2>2, <4>1, <4>2
    <3> QED
      BY <1>0, <2>1, <2>5, <3>1
  <2> QED
    BY <2>4, <2>5
<1>7. 1 \in Clients
  BY Constants DEF Clients
<1> QED
  BY <1>2, <1>3, <1>4, <1>5, <1>6, <1>7 DEF Next, Client, Service

-----------------------------------------------------------------------------
(* A fault of the service is at the expense of a client, and no step gives  *)
(* the client back what it has lost.                                       *)

LEMMA StaysDoomed ==
    ASSUME TypeInv, QueueInv, FrameInv, [Next]_vars, NEW d \in Clients, Doomed(d)
    PROVE  Doomed(d)'
<1>1. CASE ~Clean(d)
  BY <1>1, CleanBefore DEF Doomed
<1> SUFFICES ASSUME Clean(d), Clean(d)' PROVE Doomed(d)'
  BY <1>1 DEF Doomed
<1>2. /\ ~(closed[d] /\ stage[d] = "sleeping")
         /\ ~(closed[d] /\ stage[d] = "awaiting" /\ (sent[d] = FramesPerClient => inbox[d] = <<>>))
         => stage[d] = "awaiting" /\ conn[d] = <<>> /\ ~Arrived(d)
  BY DEF Doomed
<1>3. ASSUME UNCHANGED <<conn, inbox, sent>>, stage'[d] = stage[d], closed'[d] = closed[d]
      PROVE  Doomed(d)'
  BY <1>2, <1>3 DEF Doomed, Arrived, Expected
<1>4. ASSUME NEW c \in Clients, SendFrame(c) PROVE Doomed(d)'
  <2>1. c # d
    BY <1>2, <1>4 DEF SendFrame
  <2> QED
    BY <1>2, <1>4, <2>1 DEF SendFrame, Doomed, Arrived, Expected, TypeInv
<1>5. ASSUME NEW c \in Clients, ConnectFailed(c) PROVE Doomed(d)'
  <2>1. stage'[d] = stage[d] /\ UNCHANGED <<conn, inbox, sent, closed>>
    BY <1>5 DEF ConnectFailed, Clean, TypeInv, serviceVars
  <2> QED
    BY <2>1, <1>3
<1>6. ASSUME NEW c \in Clients, CloseWs(c) PROVE Doomed(d)'
  BY <1>2, <1>6 DEF CloseWs, clientVars, serviceVars, Doomed, Arrived, Expected, TypeInv
<1>7. ASSUME NEW c \in Clients, Receive(c) \/ TimeOut(c) \/ ConnectionClosed(c) PROVE Doomed(d)'
  <2>1. PICK kind, latency :
               /\ Ends(c, kind, latency)
               /\ \/ /\ kind = KindOf(c, Head(inbox[c])) /\ inbox[c] # <<>>
                     /\ inbox' = [inbox EXCEPT ![c] = Tail(@)]
                  \/ kind \in {"timeout", "ws_closed"} /\ UNCHANGED inbox
    BY <1>7, WaitsEnd
  <2>2. UNCHANGED <<sent, conn, closed>> /\ stage[c] = "awaiting"
    BY <2>1 DEF Ends, serviceVars
  <2>3. CASE d # c
    <3>1. stage'[d] = stage[d] /\ inbox'[d] = inbox[d]
      BY <2>1, <2>3, RecordEffect DEF Ends, TypeInv
    <3> QED
      BY <3>1, <2>2, <1>2 DEF Doomed, Arrived, Expected
  <2>4. CASE d = c
    <3>1. kind = "result"
      BY <2>1, <2>4, CleanEnd
    <3>2. Arrived(c) /\ inbox[c] # <<>>
      BY <2>1, <3>1, ResultIsExpected
    <3>3. closed[c] /\ sent[c] # FramesPerClient
      BY <1>2, <2>2, <2>4, <3>2
    <3>4. stage'[c] = "sleeping"
      BY <2>1, <3>1, <3>3, RecordEffect DEF Ends
    <3> QED
      BY <2>2, <2>4, <3>3, <3>4 DEF Doomed
  <2> QED
    BY <2>3, <2>4
<1>8. ASSUME NEW c \in Clients, Judge \/ Tick \/ Grant \/ Take(c) \/ UNCHANGED vars PROVE Doomed(d)'
  <2>1. UNCHANGED <<conn, inbox, sent, stage, closed>>
    BY <1>8 DEF Judge, Tick, Grant, Take, vars, clientVars, serviceVars
  <2> QED
    BY <2>1, <1>3
<1>9. CASE Finish
  <2> DEFINE r == running.client
  <2>1. /\ r \in Clients /\ conn[r] # <<>>
        /\ \A c \in Clients \ {r} : conn'[c] = conn[c]
        /\ UNCHANGED <<sent, stage, closed>>
    BY <1>9, FinishEffect DEF clientVars
  <2>2. \/ UNCHANGED inbox
        \/ \E c \in Clients, type \in {"success", "error"} : Deliver(c, ReplyTo(r, type))
    BY <1>9, FinishEffect, <2>1
  <2>3. \A type \in {"success", "error"} : ReplyTo(r, type) \in Reply /\ ReplyTo(r, type).of = r
    BY <1>9, FinishEffect
  <2> HIDE DEF r
  <2>4. closed[d] => inbox'[d] = inbox[d]
    BY <2>2, <2>3, DeliverEffect
  <2>5. ASSUME conn[d] = <<>>, ~Arrived(d) PROVE conn'[d] = <<>> /\ ~Arrived(d)'
    <3>1. d # r /\ conn'[d] = <<>>
      BY <2>1, <2>5
    <3>2. ASSUME Arrived(d)' PROVE FALSE
      <4>1. CASE UNCHANGED inbox
        BY <3>2, <4>1, <2>1, <2>5 DEF Arrived, Expected
      <4>2. ASSUME NEW c \in Clients, NEW type \in {"success", "error"}, Deliver(c, ReplyTo(r, type))
            PROVE  FALSE
        <5>1. \A i \in DOMAIN inbox'[d] :
                 \/ inbox'[d][i] = ReplyTo(r, type)
                 \/ i \in DOMAIN inbox[d] /\ inbox'[d][i] = inbox[d][i]
          BY <4>2, <2>3, DeliverEffect
        <5>2. PICK i \in DOMAIN inbox'[d] : inbox'[d][i] = [of |-> d, frame |-> sent[d], type |-> "success"]
          BY <3>2, <2>1 DEF Arrived, Expected
        <5>3. inbox'[d][i] # ReplyTo(r, type)
          BY <5>2, <2>3, <3>1
        <5> QED
          BY <5>1, <5>2, <5>3, <2>5 DEF Arrived, Expected
      <4> QED
        BY <2>2, <4>1, <4>2
    <3> QED
      BY <3>1, <3>2
  <2> QED
    BY <1>2, <2>1, <2>4, <2>5 DEF Doomed
<1>10. 1 \in Clients
  BY Constants DEF Clients
<1> QED
  BY <1>4, <1>5, <1>6, <1>7, <1>8, <1>9, <1>10 DEF Next, Client, Service

LEMMA FaultDooms ==
    ASSUME TypeInv, QueueInv, FrameInv, CleanInv, [Next]_vars, ~UNCHANGED faults
    PROVE  \E d \in Clients : Doomed(d)'
<1>1. ASSUME NEW c \in Clients, ConnectFailed(c) PROVE \E d \in Clients : Doomed(d)'
  BY <1>1 DEF ConnectFailed, TypeInv, Doomed, Clean
<1>2. ASSUME NEW c \in Clients, CloseWs(c) PROVE \E d \in Clients : Doomed(d)'
  <2>1. /\ closed'[c] /\ stage'[c] \in {"sleeping", "awaiting"}
        /\ sent'[c] = FramesPerClient => inbox'[c] = <<>>
    BY <1>2 DEF CloseWs, clientVars, TypeInv
  <2> QED
    BY <2>1 DEF Doomed
<1>3. CASE Finish
  <2>0. PICK r \in Clients : r = running.client
    BY <1>3, FinishEffect
  <2>1. /\ r \in Clients /\ conn[r] # <<>> /\ conn'[r] = Tail(conn[r])
        /\ UNCHANGED <<sent, stage, records>>
    BY <1>3, <2>0, FinishEffect DEF clientVars
  <2>2. \/ UNCHANGED inbox
        \/ Deliver(r, ReplyTo(r, "error"))
        \/ \E c \in Clients \ {r} : Deliver(c, ReplyTo(r, "success"))
    BY <1>3, <2>0, FinishEffect
  <2>3. /\ \A type \in {"success", "error"} : ReplyTo(r, type) \in Reply
        /\ ReplyTo(r, "error").type = "error"
    <3>1. ReplyTo(r, "error") = [of |-> r, frame |-> conn[r][1], type |-> "error"]
      BY <1>3, <2>0, FinishEffect
    <3>2. ReplyTo(r, "error").type = "error"
      BY <3>1
    <3> QED
      BY <1>3, <2>0, <3>2, FinishEffect
  <2>4. CASE ~Clean(r)
    BY <2>1, <2>4 DEF Doomed, Clean
  <2>5. CASE Clean(r)
    <3>1. conn[r] = <<sent[r]>> /\ stage[r] = "awaiting" /\ ~Arrived(r)
      BY <2>1, <2>5 DEF CleanInv
    <3>2. conn'[r] = <<>>
      BY <2>1, <3>1
    <3>3. ASSUME Arrived(r)' PROVE FALSE
      <4>1. PICK i \in DOMAIN inbox'[r] : inbox'[r][i] = [of |-> r, frame |-> sent[r], type |-> "success"]
        BY <3>3, <2>1 DEF Arrived, Expected
      <4>2. \/ inbox'[r][i] = ReplyTo(r, "error")
            \/ i \in DOMAIN inbox[r] /\ inbox'[r][i] = inbox[r][i]
        BY <2>1, <2>2, <2>3, DeliverEffect
      <4>3. inbox'[r][i].type = "success"
        BY <4>1
      <4> QED
        BY <4>1, <4>2, <4>3, <2>3, <3>1 DEF Arrived, Expected
    <3> QED
      BY <2>1, <3>1, <3>2, <3>3 DEF Doomed
  <2> QED
    BY <2>4, <2>5
<1>4. ~(Judge \/ Tick \/ Grant \/ UNCHANGED vars)
  BY DEF Judge, Tick, Grant, vars
<1>5. \A c \in Clients : ~(Take(c) \/ SendFrame(c) \/ Receive(c) \/ TimeOut(c) \/ ConnectionClosed(c))
  BY DEF Take, SendFrame, Receive, TimeOut, ConnectionClosed
<1> QED
  BY <1>1, <1>2, <1>3, <1>4, <1>5 DEF Next, Client, Service

LEMMA StepFault ==
    TypeInv /\ QueueInv /\ FrameInv /\ CleanInv /\ FaultInv /\ [Next]_vars => FaultInv'
  BY StaysDoomed, FaultDooms DEF FaultInv

(* The verdict is OK only when no record speaks against a client, and what  *)
(* no record speaks against is not doomed.  After it nothing is left to do. *)
LEMMA StepOk ==
    TypeInv /\ QueueInv /\ FrameInv /\ CleanInv /\ FaultInv /\ OkInv /\ [Next]_vars => OkInv'
<1> SUFFICES ASSUME TypeInv, QueueInv, CleanInv, FaultInv, OkInv, [Next]_vars, verdict' = "ok"
             PROVE  faults' = {} /\ \A c \in Clients : stage'[c] = "done" /\ Clean(c)'
  BY DEF OkInv
<1>1. CASE verdict # "ok"
  <2>1. Judge
    BY <1>1 DEF Next, Client, Service, SendFrame, ConnectFailed, Receive, TimeOut, ConnectionClosed,
                CloseWs, Grant, Finish, Take, Tick, vars
  <2>2. ~Failures /\ UNCHANGED <<stage, records, faults>>
        /\ \A c \in Clients : stage[c] \in {"done", "failed"}
    BY <2>1, <1>1 DEF Judge, clientVars
  <2>3. \A c \in Clients : stage[c] = "done" /\ Clean(c)
    <3>1. ASSUME NEW c \in Clients PROVE stage[c] = "done" /\ Clean(c)
      <4>1. \A i \in 1..Len(records[c]) : records[c][i].kind = "result"
        BY <2>2 DEF Failures
      <4>2. DOMAIN records[c] = 1..Len(records[c])
        BY DEF TypeInv
      <4> QED
        BY <4>1, <4>2, <2>2 DEF Failures, Clean
    <3> QED
      BY <3>1
  <2>4. \A c \in Clients : ~Doomed(c)
    BY <2>3 DEF Doomed
  <2> QED
    BY <2>2, <2>3, <2>4 DEF FaultInv, Clean
<1>2. CASE verdict = "ok"
  <2>1. faults = {} /\ \A c \in Clients : stage[c] = "done" /\ Clean(c) /\ conn[c] = <<>>
    BY <1>2 DEF OkInv, CleanInv
  <2>2. \A c \in Clients : ~(SendFrame(c) \/ ConnectFailed(c) \/ Receive(c) \/ TimeOut(c)
                                \/ ConnectionClosed(c) \/ CloseWs(c))
    BY <2>1 DEF SendFrame, ConnectFailed, Receive, TimeOut, ConnectionClosed, CloseWs
  <2>3. ~Finish /\ ~Judge
    BY <2>1, <1>2, FinishedFrame DEF Judge
  <2>4. UNCHANGED <<stage, records, faults>>
    BY <2>2, <2>3 DEF Next, Client, Service, Grant, Take, Tick, vars, clientVars
  <2> QED
    BY <2>1, <2>4 DEF Clean
<1> QED
  BY <1>1, <1>2

LEMMA InitSmoke == Init => SmokeInv
<1> SUFFICES ASSUME Init PROVE SmokeInv
  OBVIOUS
<1>1. TypeInv
  BY InitTypes
<1>2. QueueInv
  BY Constants DEF Init, Idle, QueueInv, Waits
<1>3. FrameInv /\ CleanInv /\ FaultInv /\ OkInv
  BY Constants DEF Init, FrameInv, CleanInv, FaultInv, OkInv
<1> QED
  BY <1>1, <1>2, <1>3 DEF SmokeInv

(* The inductive invariant of the probe and the service together. *)
THEOREM Invariance == Spec => []SmokeInv
<1>1. SmokeInv /\ [Next]_vars => SmokeInv'
  BY StepTypes, StepQueue, StepFrames, StepClean, StepFault, StepOk DEF SmokeInv
<1> QED
  BY InitSmoke, <1>1, PTL DEF Spec

(* No fault of the service, at whatever moment and among however many       *)
(* frames, is passed as OK by the verdict of run.                          *)
THEOREM NothingPassed == Spec => []EveryFaultIsReported
<1>1. SmokeInv => EveryFaultIsReported
  BY DEF SmokeInv, OkInv, EveryFaultIsReported
<1> QED
  BY Invariance, <1>1, PTL

-----------------------------------------------------------------------------
(* A service without a fault.  First the arithmetic of the queue and of the *)
(* medians, then the steps.                                                *)

(* Enough time for a full queue, and enough of a ratio for the spread of    *)
(* latencies a full queue makes.                                           *)
RoomForAll == FrameTimeout > Longest /\ FairnessRatio * MinService >= Longest

LEMMA LongestIsNat == Longest \in Nat
  BY Constants DEF Longest

(* A set of naturals has a least element: the principle behind every proof  *)
(* here that an induction would be needed for.                             *)
LEMMA LeastNat == ASSUME NEW T \in SUBSET Nat, T # {} PROVE \E x \in T : \A y \in T : x <= y
<1> DEFINE R == {ss \in Nat \X Nat : ss[1] < ss[2]}
<1>1. IsWellFoundedOn(R, Nat)
  BY NatLessThanWellFounded DEF OpToRel
<1>2. \A x, y \in Nat : x < y => <<x, y>> \in R
  OBVIOUS
<1> HIDE DEF R
<1>3. PICK x \in T : \A y \in T : ~(<<y, x>> \in R)
  BY <1>1, WFMin
<1>4. ASSUME NEW y \in T PROVE x <= y
  <2>1. x \in Nat /\ y \in Nat
    OBVIOUS
  <2>2. ~(y < x)
    BY <1>2, <1>3, <2>1, Zenon
  <2> QED
    BY <2>1, <2>2
<1> QED
  BY <1>4

LEMMA MinIsLeast == ASSUME NEW T \in SUBSET Nat, T # {} PROVE Min(T) \in T
<1>1. \E x \in T : \A y \in T : x <= y
  BY LeastNat
<1> QED
  BY <1>1, Zenon DEF Min

(* A bounded set of naturals has a greatest element. *)
LEMMA GreatestNat ==
    ASSUME NEW T \in SUBSET Nat, T # {}, NEW b \in Nat, \A y \in T : y <= b
    PROVE  \E x \in T : \A y \in T : y <= x
<1> DEFINE U == {m \in Nat : \A y \in T : y <= m}
<1>1. PICK m \in U : \A n \in U : m <= n
  <2>1. b \in U
    OBVIOUS
  <2> QED
    BY <2>1, LeastNat
<1>2. m \in Nat /\ \A y \in T : y <= m /\ y \in Nat
  OBVIOUS
<1>3. CASE m \in T
  BY <1>2, <1>3
<1>4. CASE m \notin T
  <2>1. \A y \in T : y < m
    BY <1>2, <1>4
  <2>2. m # 0
    <3>1. PICK y \in T : TRUE
      OBVIOUS
    <3>2. y < m /\ y \in Nat
      BY <2>1, <3>1, <1>2
    <3> QED
      BY <3>2, <1>2
  <2>3. m - 1 \in U
    BY <1>2, <2>1, <2>2
  <2> HIDE DEF U
  <2>4. m <= m - 1
    BY <1>1, <2>3
  <2> QED
    BY <2>4, <1>2
<1> QED
  BY <1>3, <1>4

(* A rank up to the number of results has a latency that was measured.     *)
LEMMA KthInRange ==
    ASSUME NEW c \in Clients, NEW k, IsFiniteSet(Answered(c)), Answered(c) # {},
           k \in 1..Cardinality(Answered(c)),
           NEW lo \in Nat, NEW hi \in Nat,
           \A i \in Answered(c) : records[c][i].latency \in lo..hi
    PROVE  Kth(c, k) \in lo..hi
<1> DEFINE latency(i) == records[c][i].latency
           below(i) == {j \in Answered(c) : latency(j) <= latency(i)}
           T == {latency(i) : i \in {j \in Answered(c) : Cardinality(below(j)) >= k}}
           V == {latency(i) : i \in Answered(c)}
<1>1. V \in SUBSET Nat /\ V # {} /\ (\A y \in V : y <= hi) /\ V \subseteq lo..hi
  OBVIOUS
<1>2. \E x \in V : \A y \in V : y <= x
  <2> HIDE DEF V
  <2> QED
    BY <1>1, GreatestNat
<1>3. PICK top \in Answered(c) : \A i \in Answered(c) : latency(i) <= latency(top)
  BY <1>2
<1>4. below(top) = Answered(c)
  BY <1>3
<1>5. Cardinality(below(top)) >= k
  <2>1. Cardinality(Answered(c)) \in Nat
    BY FS_CardinalityType
  <2>2. Cardinality(Answered(c)) >= k
    BY <2>1
  <2> HIDE DEF below
  <2> QED
    BY <1>4, <2>2, Zenon
<1>6. T # {} /\ T \subseteq V
  BY <1>5
<1>7. Kth(c, k) = Min(T)
  BY DEF Kth
<1> HIDE DEF T, V
<1>8. T \in SUBSET Nat
  BY <1>1, <1>6
<1>9. Min(T) \in T
  BY <1>6, <1>8, MinIsLeast
<1> QED
  BY <1>1, <1>6, <1>7, <1>9

LEMMA AnsweredIsFinite == ASSUME TypeInv, NEW c \in Clients PROVE IsFiniteSet(Answered(c))
<1>1. records[c] \in Seq([kind : Kinds, latency : Nat])
  BY DEF TypeInv
<1>2. Len(records[c]) \in Nat /\ DOMAIN records[c] = 1..Len(records[c])
  BY <1>1
<1>3. IsFiniteSet(1..Len(records[c]))
  BY <1>2, FS_Interval
<1> QED
  BY <1>2, <1>3, FS_Subset DEF Answered

LEMMA MedianInRange ==
    ASSUME TypeInv, NEW c \in Clients, Answered(c) # {}, NEW lo \in Nat, NEW hi \in Nat,
           \A i \in Answered(c) : records[c][i].latency \in lo..hi
    PROVE  TwiceMedian(c) \in (2 * lo)..(2 * hi)
<1> DEFINE n == Cardinality(Answered(c))
<1>1. n \in Nat /\ n # 0
  BY AnsweredIsFinite, FS_CardinalityType, FS_EmptySet
<1>2. (n + 1) \div 2 \in 1..n /\ (n + 2) \div 2 \in 1..n
  <2> HIDE DEF n
  <2> QED
    BY <1>1
<1>3. Kth(c, (n + 1) \div 2) \in lo..hi
  BY <1>2, AnsweredIsFinite, KthInRange
<1>4. Kth(c, (n + 2) \div 2) \in lo..hi
  BY <1>2, AnsweredIsFinite, KthInRange
<1>5. TwiceMedian(c) = Kth(c, (n + 1) \div 2) + Kth(c, (n + 2) \div 2)
  BY DEF TwiceMedian
<1> HIDE DEF n
<1> QED
  BY <1>3, <1>4, <1>5

(* Medians between the shortest service and the longest wait are fair.     *)
LEMMA FairMedians ==
    ASSUME RoomForAll, NEW x, x \in (2 * MinService)..(2 * Longest),
                       NEW y, y \in (2 * MinService)..(2 * Longest)
    PROVE  ~(x > FairnessRatio * y)
<1>1. PICK e \in Nat : y = 2 * MinService + e
  <2>1. y - 2 * MinService \in Nat
    BY Constants, LongestIsNat
  <2>2. y = 2 * MinService + (y - 2 * MinService)
    BY Constants, LongestIsNat
  <2> QED
    BY <2>1, <2>2
<1>2. FairnessRatio * y = 2 * (FairnessRatio * MinService) + FairnessRatio * e
  BY <1>1, Constants
<1>3. FairnessRatio * MinService \in Nat /\ FairnessRatio * e \in Nat
  BY Constants
<1>4. FairnessRatio * MinService >= Longest
  BY DEF RoomForAll
<1> HIDE DEF RoomForAll
<1> QED
  BY <1>2, <1>3, <1>4, LongestIsNat, Constants

(* Each client waits once, so the queue with the one that joins it is no    *)
(* longer than the number of clients, the one at the GPU not counted.      *)
LEMMA QueueLength ==
    ASSUME TypeInv, QueueInv, NEW c \in Clients, ~Waits(c), running.client # c
    PROVE  /\ Len(waiting) + 1 <= NumClients
           /\ running.client # 0 => Len(waiting) + 2 <= NumClients
<1> DEFINE n == Len(waiting) + 1
           f == Append(waiting, c)
           S == Clients \ {running.client}
<1>1. /\ n \in Nat /\ DOMAIN f = 1..n /\ DOMAIN waiting = 1..(n - 1) /\ f[n] = c
      /\ \A i \in DOMAIN waiting : f[i] = waiting[i]
  <2>1. waiting \in Seq(Clients)
    BY DEF TypeInv
  <2>2. Len(waiting) \in Nat /\ n - 1 = Len(waiting)
    BY <2>1
  <2> QED
    BY <2>1, <2>2, AppendFacts
<1>2. \A i \in 1..n : i \in DOMAIN waiting \/ i = n
  BY <1>1
<1>3. \A i \in DOMAIN waiting : waiting[i] \in S /\ waiting[i] # c
  <2>1. \A i \in DOMAIN waiting : waiting[i] \in Clients
    BY DEF TypeInv
  <2> QED
    BY <2>1 DEF QueueInv, Waits
<1>4. f \in [1..n -> S]
  <2>1. f \in [1..n -> Clients]
    <3>1. waiting \in Seq(Clients)
      BY DEF TypeInv
    <3>2. f \in Seq(Clients) /\ Len(f) = n
      BY <3>1, AppendFacts
    <3> HIDE DEF f, n
    <3> QED
      BY <3>2
  <2>2. c \in S
    OBVIOUS
  <2> HIDE DEF f, n, S
  <2>3. \A i \in 1..n : f[i] \in S
    BY <1>1, <1>2, <1>3, <2>2
  <2> QED
    BY <2>1, <2>3, <1>1
<1>5. \A i, j \in 1..n : f[i] = f[j] => i = j
  <2> HIDE DEF f, n, S
  <2> QED
    BY <1>1, <1>2, <1>3 DEF QueueInv
<1>6. f \in Injection(1..n, S)
  <2> HIDE DEF f, n, S
  <2> QED
    BY <1>1, <1>4, <1>5 DEF Injection, IsInjective
<1>7. IsFiniteSet(Clients) /\ Cardinality(Clients) = NumClients
  BY Constants, FS_Interval DEF Clients
<1>8. /\ IsFiniteSet(S)
      /\ Cardinality(S) = IF running.client \in Clients THEN NumClients - 1 ELSE NumClients
  BY <1>7, FS_RemoveElement
<1>9. Cardinality(1..n) = n
  BY <1>1, FS_Interval
<1>10. n <= Cardinality(S)
  <2> HIDE DEF f, n, S
  <2> QED
    BY <1>6, <1>8, <1>9, FS_Injection
<1>11. running.client \in Clients \/ running.client = 0
  BY DEF TypeInv
<1>12. Len(waiting) \in Nat
  BY DEF TypeInv
<1> HIDE DEF f, S
<1> QED
  BY <1>8, <1>10, <1>11, <1>12, Constants

-----------------------------------------------------------------------------
(* The steps of a service without a fault. *)

Fine(c) == Served(c) /\ OnTime(c)

LEMMA FaultsStay == ASSUME [Next]_vars, faults' = {} PROVE faults = {} /\ UNCHANGED faults
<1>1. \A kind : Fault(kind) => faults' # {}
  BY DEF Fault
<1>2. ASSUME NEW c \in Clients, Client(c) \/ CloseWs(c) \/ Take(c) PROVE UNCHANGED faults
  BY <1>1, <1>2 DEF Client, SendFrame, ConnectFailed, Receive, TimeOut, ConnectionClosed, CloseWs, Take
<1>3. CASE Grant \/ Finish \/ Judge \/ Tick \/ UNCHANGED vars
  BY <1>1, <1>3 DEF Grant, Finish, Judge, Tick, vars
<1> QED
  BY <1>2, <1>3 DEF Next, Service

(* Nobody has to wait longer than a full queue takes. *)
LEMMA AgeBound ==
    ASSUME TypeInv, NEW c \in Clients, OnTime(c), stage[c] = "awaiting"
    PROVE  age[c] <= Longest
<1>1. age[c] \in Nat /\ running.left \in Nat /\ Longest \in Nat
  BY LongestIsNat DEF TypeInv
<1>2. CASE Waits(c)
  <2>1. PICK i \in DOMAIN waiting : waiting[i] = c
    BY <1>2 DEF Waits
  <2>2. i \in Nat /\ i * MaxService \in Nat
    <3>1. waiting \in Seq(Clients)
      BY DEF TypeInv
    <3>2. i \in Nat
      BY <3>1
    <3> QED
      BY <3>2, Constants
  <2>3. age[c] + running.left + i * MaxService <= Longest
    BY <2>1 DEF OnTime
  <2> QED
    BY <1>1, <2>2, <2>3
<1>3. CASE running.client = c
  BY <1>1, <1>3, Constants DEF OnTime
<1>4. CASE conn[c] = <<>>
  BY <1>4, <1>1, Constants DEF OnTime
<1> QED
  BY <1>1, <1>2, <1>3, <1>4 DEF OnTime

(* A client that no part of a step is about. *)
LEMMA Undisturbed ==
    ASSUME NEW d \in Clients, Fine(d),
           stage'[d] = stage[d], sent'[d] = sent[d], records'[d] = records[d],
           conn'[d] = conn[d], inbox'[d] = inbox[d], closed'[d] = closed[d]
    PROVE  /\ Served(d)'
           /\ age'[d] = age[d] /\ UNCHANGED <<waiting, running>> => Fine(d)'
<1>1. Served(d)'
  BY DEF Fine, Served, Clean, Expected
<1>2. age'[d] = age[d] /\ UNCHANGED <<waiting, running>> => OnTime(d)'
  BY DEF Fine, OnTime, Waits
<1> QED
  BY <1>1, <1>2 DEF Fine

LEMMA SendIsFine ==
    ASSUME TypeInv, QueueInv, NEW c \in Clients, SendFrame(c), Fine(c)
    PROVE  Fine(c)'
<1>1. /\ sent'[c] = sent[c] + 1 /\ conn'[c] = Append(conn[c], sent[c] + 1) /\ age'[c] = 0
      /\ stage[c] = "sleeping" /\ stage'[c] = "awaiting"
      /\ UNCHANGED <<inbox, records, closed, waiting, running>>
  BY DEF SendFrame, TypeInv
<1>2. conn[c] = <<>> /\ inbox[c] = <<>> /\ sent[c] = Len(records[c])
  BY <1>1 DEF Fine, Served
<1>3. conn'[c] = <<sent'[c]>>
  <2>1. Append(<< >>, sent[c] + 1) = <<sent[c] + 1>>
    OBVIOUS
  <2> QED
    BY <1>1, <1>2, <2>1
<1>4. Served(c)'
  BY <1>1, <1>2, <1>3 DEF Fine, Served, Clean, Expected
<1>5. ~Waits(c) /\ running.client # c
  BY <1>2 DEF QueueInv
<1>6. conn'[c] # <<>>
  BY <1>3
<1>7. OnTime(c)'
  BY <1>1, <1>5, <1>6 DEF OnTime, Waits
<1> QED
  BY <1>4, <1>7 DEF Fine

(* Without a fault a wait can only end with the awaited reply, in time. *)
LEMMA EndIsFine ==
    ASSUME TypeInv, QueueInv, RoomForAll, NEW c \in Clients, Fine(c),
           Receive(c) \/ TimeOut(c) \/ ConnectionClosed(c)
    PROVE  Fine(c)'
<1>1. PICK kind, latency :
               /\ Ends(c, kind, latency)
               /\ \/ /\ kind = KindOf(c, Head(inbox[c])) /\ latency = age[c]
                     /\ inbox[c] # <<>> /\ inbox' = [inbox EXCEPT ![c] = Tail(@)]
                  \/ kind = "timeout" /\ age[c] >= FrameTimeout
                  \/ kind = "ws_closed" /\ closed[c]
  BY WaitsEnd
<1>2. stage[c] = "awaiting" /\ UNCHANGED <<sent, age, conn, waiting, running, closed>>
  BY <1>1 DEF Ends, serviceVars
<1>3. ~(age[c] >= FrameTimeout) /\ ~closed[c]
  <2>1. age[c] <= Longest /\ age[c] \in Nat
    BY <1>2, AgeBound DEF Fine, TypeInv
  <2> QED
    BY <2>1, Constants, LongestIsNat DEF RoomForAll, Fine, Served
<1>4. /\ kind = KindOf(c, Head(inbox[c])) /\ latency = age[c]
      /\ inbox[c] # <<>> /\ inbox' = [inbox EXCEPT ![c] = Tail(@)]
  BY <1>1, <1>3
<1>5. inbox[c] = <<Expected(c)>> /\ conn[c] = <<>> /\ sent[c] = Len(records[c]) + 1
  BY <1>2, <1>4 DEF Fine, Served
<1>6. Head(inbox[c]) = Expected(c) /\ Tail(inbox[c]) = <<>>
  BY <1>5
<1>7. kind = "result" /\ latency \in MinService..Longest
  <2>1. kind = "result"
    BY <1>4, <1>6 DEF KindOf, Expected
  <2> QED
    BY <2>1, <1>2, <1>4, <1>5 DEF Fine, OnTime
<1>8. inbox'[c] = <<>>
  BY <1>4, <1>6 DEF TypeInv
<1>9. /\ stage'[c] \in {"done", "sleeping"}
      /\ stage'[c] = "done" => sent[c] = FramesPerClient
  BY <1>1, <1>7, RecordEffect DEF Ends
<1>10. /\ DOMAIN records'[c] = 1..(Len(records[c]) + 1) /\ Len(records[c]) \in Nat
       /\ DOMAIN records[c] = 1..Len(records[c])
       /\ Len(records'[c]) = Len(records[c]) + 1
       /\ \A i \in DOMAIN records[c] : records'[c][i] = records[c][i]
       /\ records'[c][Len(records[c]) + 1] = [kind |-> kind, latency |-> latency]
  BY <1>1, RecordAppended DEF Ends
<1>11. \A i \in DOMAIN records'[c] : /\ records'[c][i].kind = "result"
                                     /\ records'[c][i].latency \in MinService..Longest
  <2>1. records'[c][Len(records[c]) + 1].kind = kind
        /\ records'[c][Len(records[c]) + 1].latency = latency
    BY <1>10
  <2>2. \A i \in DOMAIN records'[c] : i \in DOMAIN records[c] \/ i = Len(records[c]) + 1
    BY <1>10
  <2>3. \A i \in DOMAIN records[c] : /\ records[c][i].kind = "result"
                                     /\ records[c][i].latency \in MinService..Longest
    BY DEF Fine, Served, Clean
  <2> QED
    BY <1>7, <1>10, <2>1, <2>2, <2>3
<1>12. Served(c)'
  BY <1>2, <1>3, <1>5, <1>8, <1>9, <1>10, <1>11 DEF Served, Clean
<1>13. OnTime(c)'
  <2>1. ~Waits(c) /\ running.client # c
    BY <1>5 DEF QueueInv
  <2> QED
    BY <1>2, <1>5, <1>9, <2>1 DEF OnTime, Waits
<1> QED
  BY <1>12, <1>13 DEF Fine

LEMMA TakeIsFine ==
    ASSUME TypeInv, QueueInv, NEW c \in Clients, Take(c), NEW d \in Clients, Fine(c), Fine(d)
    PROVE  Fine(d)'
<1>1. /\ waiting \in Seq(Clients) /\ Len(waiting) \in Nat /\ DOMAIN waiting = 1..Len(waiting)
      /\ waiting' = Append(waiting, c) /\ conn[c] # <<>> /\ running.client # c
      /\ \A i \in DOMAIN waiting : waiting[i] # c
      /\ UNCHANGED <<stage, sleep, sent, age, records, conn, running, inbox, closed>>
  <2>1. waiting \in Seq(Clients)
    BY DEF TypeInv
  <2>2. Len(waiting) \in Nat /\ DOMAIN waiting = 1..Len(waiting)
    BY <2>1
  <2> QED
    BY <2>1, <2>2 DEF Take, clientVars
<1>2. /\ DOMAIN waiting' = 1..(Len(waiting) + 1)
      /\ \A i \in DOMAIN waiting : waiting'[i] = waiting[i]
      /\ waiting'[Len(waiting) + 1] = c
  BY <1>1, AppendFacts
<1>3. Served(d)'
  BY <1>1, Undisturbed
<1>4. \A i \in DOMAIN waiting' : i \in DOMAIN waiting \/ i = Len(waiting) + 1
  BY <1>1, <1>2
<1>5. age[c] + running.left + (Len(waiting) + 1) * MaxService <= Longest
  <2>1. age[c] = 0 /\ ~Waits(c)
    BY <1>1 DEF Fine, OnTime, Waits
  <2>2. /\ Len(waiting) + 1 <= NumClients
        /\ running.client # 0 => Len(waiting) + 2 <= NumClients
    BY <1>1, <2>1, QueueLength
  <2>3. running.left \in Nat /\ running.left <= MaxService /\ (running.client = 0 => running.left = 0)
    BY DEF TypeInv, QueueInv
  <2>4. \A m \in Nat : m <= NumClients => m * MaxService <= Longest /\ m * MaxService \in Nat
    <3>1. ASSUME NEW m \in Nat, m <= NumClients PROVE m * MaxService <= Longest /\ m * MaxService \in Nat
      <4>1. PICK k \in Nat : NumClients = m + k
        <5>1. NumClients - m \in Nat /\ NumClients = m + (NumClients - m)
          BY <3>1, Constants
        <5> QED
          BY <5>1
      <4>2. NumClients * MaxService = m * MaxService + k * MaxService
        BY <4>1, Constants
      <4>3. k * MaxService \in Nat /\ m * MaxService \in Nat
        BY <4>1, Constants
      <4> QED
        BY <4>2, <4>3 DEF Longest
    <3> QED
      BY <3>1
  <2>5. CASE running.client = 0
    <3>1. (Len(waiting) + 1) * MaxService <= Longest /\ (Len(waiting) + 1) * MaxService \in Nat
      BY <1>1, <2>2, <2>4
    <3> QED
      BY <2>1, <2>3, <2>5, <3>1
  <2>6. CASE running.client # 0
    <3>1. (Len(waiting) + 2) * MaxService <= Longest
      BY <1>1, <2>2, <2>4, <2>6
    <3>2. (Len(waiting) + 2) * MaxService = (Len(waiting) + 1) * MaxService + MaxService
          /\ (Len(waiting) + 1) * MaxService \in Nat
      BY <1>1, Constants
    <3> QED
      BY <2>1, <2>3, <3>1, <3>2, Constants, LongestIsNat
  <2> QED
    BY <2>5, <2>6
<1>6. \A i \in DOMAIN waiting' :
          waiting'[i] = d => age[d] + running.left + i * MaxService <= Longest
  <2>1. \A i \in DOMAIN waiting :
          waiting[i] = d => age[d] + running.left + i * MaxService <= Longest
    BY DEF Fine, OnTime
  <2> QED
    BY <1>2, <1>4, <1>5, <2>1
<1>7. Waits(d) => Waits(d)'
  BY <1>1, <1>2 DEF Waits
<1>8. OnTime(d)'
  BY <1>1, <1>6, <1>7 DEF Fine, OnTime
<1> QED
  BY <1>3, <1>8 DEF Fine

LEMMA GrantIsFine ==
    ASSUME TypeInv, QueueInv, Grant, NEW d \in Clients, Fine(d)
    PROVE  Fine(d)'
<1>1. /\ waiting \in Seq(Clients) /\ waiting # <<>> /\ waiting' = Tail(waiting)
      /\ running.client = 0 /\ running.left = 0
      /\ UNCHANGED <<stage, sleep, sent, age, records, conn, inbox, closed>>
  BY DEF Grant, TypeInv, clientVars, Idle
<1>2. /\ Len(waiting) \in Nat /\ DOMAIN waiting = 1..Len(waiting) /\ 1 \in DOMAIN waiting
      /\ DOMAIN waiting' = 1..(Len(waiting) - 1) /\ Head(waiting) = waiting[1]
      /\ \A i \in DOMAIN waiting' : i + 1 \in DOMAIN waiting /\ waiting'[i] = waiting[i + 1]
  BY <1>1, TailFacts
<1>3. /\ running'.client = waiting[1] /\ running'.left \in Nat
      /\ running'.left >= MinService /\ running'.left <= MaxService
  <2>1. PICK t \in MinService..MaxService : running' = [client |-> Head(waiting), left |-> t]
    BY DEF Grant
  <2> QED
    BY <1>2, <2>1, Constants
<1>4. Served(d)'
  BY <1>1, Undisturbed
<1>5. \A i \in DOMAIN waiting : waiting[i] = d => age[d] + 0 + i * MaxService <= Longest
  BY <1>1 DEF Fine, OnTime
<1>6. age[d] \in Nat
  BY DEF TypeInv
<1>7. ASSUME NEW i \in DOMAIN waiting', waiting'[i] = d
      PROVE  age[d] + running'.left + i * MaxService <= Longest
  <2>1. i \in Nat /\ age[d] + 0 + (i + 1) * MaxService <= Longest
    BY <1>2, <1>5, <1>7
  <2>2. (i + 1) * MaxService = i * MaxService + MaxService /\ i * MaxService \in Nat
    BY <2>1, Constants
  <2> QED
    BY <1>3, <1>6, <2>1, <2>2, Constants, LongestIsNat
<1>8. running'.client = d => age[d] + running'.left \in MinService..Longest
  <2>1. ASSUME waiting[1] = d PROVE age[d] + running'.left \in MinService..Longest
    <3>1. age[d] + 0 + 1 * MaxService <= Longest
      BY <1>2, <1>5, <2>1
    <3> QED
      BY <1>3, <1>6, <3>1, Constants, LongestIsNat
  <2> QED
    BY <1>3, <2>1
<1>9. Waits(d) => Waits(d)' \/ running'.client = d
  <2>1. ASSUME NEW i \in DOMAIN waiting, waiting[i] = d, i # 1
        PROVE  i - 1 \in DOMAIN waiting' /\ waiting'[i - 1] = d
    <3>1. i - 1 \in DOMAIN waiting' /\ (i - 1) + 1 = i
      BY <1>2, <2>1
    <3> QED
      BY <1>2, <2>1, <3>1
  <2> QED
    BY <1>3, <2>1 DEF Waits
<1>10. d # 0
  BY Constants
<1>11. OnTime(d)'
  BY <1>1, <1>7, <1>8, <1>9, <1>10 DEF Fine, OnTime
<1> QED
  BY <1>4, <1>11 DEF Fine

LEMMA FinishIsFine ==
    ASSUME TypeInv, QueueInv, Finish, UNCHANGED faults, faults = {}, NEW d \in Clients, Fine(d)
    PROVE  Fine(d)'
<1>0. PICK r \in Clients : r = running.client
  BY FinishedFrame
<1>1. /\ conn[r] # <<>> /\ conn'[r] = Tail(conn[r])
      /\ \A c \in Clients \ {r} : conn'[c] = conn[c]
      /\ UNCHANGED <<stage, sent, age, records, waiting, closed>>
  BY <1>0, FinishEffect DEF clientVars
<1>2. /\ Deliver(r, ReplyTo(r, "success")) /\ ReplyTo(r, "success") \in Reply
      /\ ReplyTo(r, "success") = [of |-> r, frame |-> conn[r][1], type |-> "success"]
  <2>1. \A kind : ~Fault(kind)
    BY DEF Fault
  <2> QED
    BY <1>0, <2>1, FinishEffect
<1>3. running.left = 0 /\ running'.left = 0 /\ running'.client = 0 /\ d # 0
  BY Constants DEF Finish, Idle
<1>4. ~Waits(r)
  BY <1>0 DEF QueueInv, Waits
<1>5. CASE d # r
  <2>1. inbox'[d] = inbox[d]
    BY <1>2, <1>5, DeliverEffect
  <2>2. Served(d)'
    BY <1>1, <1>5, <2>1, Undisturbed
  <2>3. running.client # d /\ conn'[d] = conn[d]
    BY <1>0, <1>1, <1>5
  <2>4. OnTime(d)'
    BY <1>1, <1>3, <2>3 DEF Fine, OnTime, Waits
  <2> QED
    BY <2>2, <2>4 DEF Fine
<1>6. CASE d = r
  <2>1. stage[r] = "awaiting" /\ conn[r] = <<sent[r]>> /\ inbox[r] = <<>> /\ ~closed[r]
    BY <1>1, <1>6 DEF Fine, Served
  <2>2. conn[r][1] = sent[r] /\ conn'[r] = <<>>
    BY <1>1, <2>1
  <2>3. inbox'[r] = Append(<< >>, Expected(r))
    BY <1>2, <2>1, <2>2, DeliverEffect DEF Expected
  <2>4. Append(<< >>, Expected(r)) = <<Expected(r)>>
    OBVIOUS
  <2>5. Served(r)'
    <3>1. Expected(r)' = Expected(r)
      BY <1>1 DEF Expected
    <3> QED
      BY <1>1, <1>6, <2>1, <2>2, <2>3, <2>4, <3>1 DEF Fine, Served, Clean
  <2>6. age[r] \in MinService..Longest
    <3>1. age[r] + running.left \in MinService..Longest /\ age[r] \in Nat
      BY <1>0, <1>6 DEF Fine, OnTime, TypeInv
    <3> QED
      BY <1>3, <3>1
  <2>7. OnTime(r)'
    BY <1>1, <1>3, <1>4, <1>6, <2>2, <2>6 DEF OnTime, Waits
  <2> QED
    BY <1>6, <2>5, <2>7 DEF Fine
<1> QED
  BY <1>5, <1>6

(* Time passes only while the GPU works and every reply has been read.     *)
LEMMA TickIsFine ==
    ASSUME TypeInv, QueueInv, Tick, NEW d \in Clients, Fine(d)
    PROVE  Fine(d)'
<1>1. /\ ~Urgent /\ running'.client = running.client /\ running'.left = Less(running.left)
      /\ age'[d] = (IF stage[d] = "awaiting" THEN age[d] + 1 ELSE age[d])
      /\ UNCHANGED <<stage, sent, records, conn, waiting, inbox, closed>>
  BY DEF Tick
<1>2. Served(d)'
  BY <1>1, Undisturbed
<1>3. CASE conn[d] = <<>>
  <2>1. stage[d] # "awaiting"
    <3>0. <<sent[d]>> # << >> /\ <<Expected(d)>> # << >>
      OBVIOUS
    <3>1. stage[d] = "awaiting" => inbox[d] # <<>>
      BY <1>3, <3>0 DEF Fine, Served
    <3> QED
      BY <1>1, <3>1 DEF Urgent
  <2>2. ~Waits(d) /\ running.client # d
    BY <1>3 DEF QueueInv
  <2> QED
    BY <1>1, <1>2, <1>3, <2>1, <2>2 DEF Fine, OnTime, Waits
<1>4. CASE conn[d] # <<>>
  <2>1. stage[d] = "awaiting" /\ age[d] \in Nat /\ age'[d] = age[d] + 1
    BY <1>1, <1>4 DEF Fine, Served, TypeInv
  <2>2. Waits(d) \/ running.client = d
    <3>1. ASSUME ~Waits(d), running.client # d PROVE FALSE
      <4>1. \A i \in 1..Len(waiting) : waiting[i] # d
        <5>1. waiting \in Seq(Clients)
          BY DEF TypeInv
        <5>2. DOMAIN waiting = 1..Len(waiting)
          BY <5>1
        <5> QED
          BY <3>1, <5>2 DEF Waits
      <4> QED
        BY <1>1, <1>4, <3>1, <4>1 DEF Urgent
    <3> QED
      BY <3>1
  <2>3. running.left \in Nat /\ running.left # 0
    <3>1. running # Idle
      <4>1. CASE Waits(d)
        <5>1. waiting # <<>>
          BY <4>1 DEF Waits
        <5> QED
          BY <1>1, <5>1 DEF Urgent
      <4>2. CASE running.client = d
        BY <4>2, Constants DEF Idle
      <4> QED
        BY <2>2, <4>1, <4>2
    <3> QED
      BY <1>1, <3>1 DEF Urgent, TypeInv
  <2>4. age'[d] + running'.left = age[d] + running.left
    BY <1>1, <2>1, <2>3 DEF Less
  <2>5. ASSUME NEW i \in DOMAIN waiting, waiting[i] = d
        PROVE  age'[d] + running'.left + i * MaxService <= Longest
    BY <2>4, <2>5 DEF Fine, OnTime
  <2>6. OnTime(d)'
    BY <1>1, <1>4, <2>2, <2>4, <2>5 DEF Fine, OnTime, Waits
  <2> QED
    BY <1>2, <2>6 DEF Fine
<1> QED
  BY <1>3, <1>4

LEMMA StepQuiet ==
    RoomForAll /\ TypeInv /\ QueueInv /\ QuietInv /\ [Next]_vars => QuietInv'
<1> SUFFICES ASSUME RoomForAll, TypeInv, QueueInv, QuietInv, [Next]_vars, faults' = {},
                    NEW d \in Clients
             PROVE  Fine(d)'
  BY DEF QuietInv, Fine
<1>1. faults = {} /\ UNCHANGED faults
  BY FaultsStay
<1>2. \A c \in Clients : Fine(c)
  BY <1>1 DEF QuietInv, Fine
<1>3. \A kind : ~Fault(kind)
  BY <1>1 DEF Fault
<1>4. ASSUME NEW c \in Clients, SendFrame(c) PROVE Fine(d)'
  <2>1. CASE c = d
    BY <1>2, <1>4, <2>1, SendIsFine
  <2>2. CASE c # d
    BY <1>2, <1>4, <2>2, Undisturbed DEF SendFrame, TypeInv
  <2> QED
    BY <2>1, <2>2
<1>5. ASSUME NEW c \in Clients, Receive(c) \/ TimeOut(c) \/ ConnectionClosed(c) PROVE Fine(d)'
  <2>1. CASE c = d
    BY <1>2, <1>5, <2>1, EndIsFine
  <2>2. CASE c # d
    <3>1. PICK kind, latency :
               /\ Ends(c, kind, latency)
               /\ inbox' = [inbox EXCEPT ![c] = Tail(@)] \/ UNCHANGED inbox
      BY <1>5, WaitsEnd
    <3>2. /\ stage'[d] = stage[d] /\ records'[d] = records[d] /\ inbox'[d] = inbox[d]
          /\ UNCHANGED <<sent, age, conn, waiting, running, closed>>
      BY <2>2, <3>1, RecordEffect, ZenonT(40) DEF Ends, serviceVars, TypeInv
    <3> QED
      BY <1>2, <3>2, Undisturbed
  <2> QED
    BY <2>1, <2>2
<1>6. ASSUME NEW c \in Clients, ConnectFailed(c) \/ CloseWs(c) PROVE Fine(d)'
  <2>1. ~closed[c]
    BY <1>2 DEF Fine, Served
  <2> QED
    BY <1>3, <1>6, <2>1 DEF ConnectFailed, CloseWs
<1>7. CASE Judge \/ UNCHANGED vars
  BY <1>2, <1>7, Undisturbed DEF Judge, vars, clientVars, serviceVars
<1>8. ASSUME NEW c \in Clients, Take(c) PROVE Fine(d)'
  BY <1>2, <1>8, TakeIsFine
<1> QED
  BY <1>1, <1>2, <1>4, <1>5, <1>6, <1>7, <1>8, GrantIsFine, FinishIsFine, TickIsFine
     DEF Next, Client, Service

LEMMA InitQuiet == Init => QuietInv
<1> SUFFICES ASSUME Init, NEW c \in Clients PROVE Fine(c)
  BY DEF QuietInv, Fine
<1>1. /\ stage[c] = "sleeping" /\ sent[c] = 0 /\ age[c] = 0 /\ records[c] = <<>>
      /\ inbox[c] = <<>> /\ ~closed[c] /\ conn[c] = <<>> /\ waiting = <<>>
      /\ running.client = 0 /\ c # 0
  BY Constants DEF Init, Idle
<1> QED
  BY <1>1 DEF Fine, Served, OnTime, Clean, Waits

(* When everybody is done and nothing went wrong, the verdict finds nothing.*)
LEMMA NothingToReport ==
    ASSUME RoomForAll, TypeInv, \A c \in Clients : Fine(c) /\ stage[c] \in {"done", "failed"}
    PROVE  ~Failures
<1>1. \A c \in Clients : stage[c] = "done" /\ Len(records[c]) = FramesPerClient
  BY DEF Fine, Served, Clean
<1>2. ASSUME NEW c \in Clients
      PROVE  /\ \A i \in 1..Len(records[c]) : records[c][i].kind = "result"
             /\ \A i \in Answered(c) : records[c][i].latency \in MinService..Longest
  <2>1. DOMAIN records[c] = 1..Len(records[c])
    BY DEF TypeInv
  <2> QED
    BY <2>1 DEF Fine, Served, Clean, Answered
<1>3. ~Unfair
  <2>1. ASSUME NEW c \in Measured
        PROVE  TwiceMedian(c) \in (2 * MinService)..(2 * Longest)
    BY <1>2, MedianInRange, Constants, LongestIsNat DEF Measured
  <2> QED
    BY <2>1, FairMedians DEF Unfair
<1> QED
  BY <1>1, <1>2, <1>3 DEF Failures

LEMMA StepFail ==
    RoomForAll /\ TypeInv /\ QuietInv /\ FailInv /\ [Next]_vars => FailInv'
<1> SUFFICES ASSUME RoomForAll, TypeInv, QuietInv, FailInv, [Next]_vars,
                    verdict' = "fail", faults' = {}
             PROVE  FALSE
  BY DEF FailInv
<1>1. faults = {} /\ \A c \in Clients : Fine(c)
  BY FaultsStay DEF QuietInv, Fine
<1>2. verdict # "fail"
  BY <1>1 DEF FailInv
<1>3. Judge
  BY <1>2 DEF Next, Client, Service, SendFrame, ConnectFailed, Receive, TimeOut, ConnectionClosed,
              CloseWs, Grant, Finish, Take, Tick, vars
<1>4. ~Failures
  BY <1>1, <1>3, NothingToReport DEF Judge
<1> QED
  BY <1>3, <1>4 DEF Judge

(* A service that serves in order and makes no fault is never accused, if   *)
(* the timeout and the fairness ratio leave room for a queue of all clients.*)
THEOREM NobodyAccused == RoomForAll => (Spec => []NoFalseAlarm)
<1> SUFFICES ASSUME RoomForAll PROVE Spec => []NoFalseAlarm
  OBVIOUS
<1>1. Init => QuietInv /\ FailInv
  BY InitQuiet DEF Init, FailInv
<1>2. SmokeInv /\ QuietInv /\ FailInv /\ [Next]_vars => (QuietInv /\ FailInv)'
  BY StepQuiet, StepFail DEF SmokeInv
<1>3. FailInv => NoFalseAlarm
  BY DEF FailInv, NoFalseAlarm
<1> QED
  BY <1>1, <1>2, <1>3, Invariance, PTL DEF Spec

=============================================================================
