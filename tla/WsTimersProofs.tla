--------------------------- MODULE WsTimersProofs ---------------------------
(***************************************************************************)
(* The clock of a WebSocket for every interval, timeout and socket: the    *)
(* types; what the timer of a turn has left, from which it follows that    *)
(* the idle timeout of handle_ws cannot fire and that no live peer is      *)
(* closed; and that missed Pings are not made up for.                      *)
(***************************************************************************)
EXTENDS WsTimers, TLAPS

(* A turn begins with a full timer, and the next tick of the interval ends *)
(* it; until then the two clocks move together.                            *)
TimerOutlastsInterval ==
    phase = "select" =>
        /\ due = 0 => timer + sincePing >= IdleTicks
        /\ due # 0 => timer + PingTicks >= IdleTicks

(* A second tick can be due while a Ping is blocked, but that Ping will    *)
(* never be taken.                                                         *)
OneDuePing ==
    /\ due \in {0, 1} /\ burst \in {0, 1}
    /\ burst = 1 => due = 0 /\ phase # "pinging"
    /\ phase = "pinging" /\ due = 1 => peer # "alive" /\ (broken \/ Len(outbox) = Room)

(* Whatever can end the handler but the timeout comes from a peer that is  *)
(* no longer there.                                                        *)
EndsOnlyWithoutPeer ==
    /\ broken => peer = "gone"
    /\ \A i \in 1..Len(inbox) : inbox[i] = "close" => peer # "alive"
    /\ phase = "closed" => peer # "alive"

-----------------------------------------------------------------------------
LEMMA AppendTypes ==
    ASSUME NEW S, NEW s \in Seq(S), NEW e \in S
    PROVE  /\ Append(s, e) \in Seq(S)
           /\ Len(Append(s, e)) = Len(s) + 1
           /\ \A i \in 1..Len(s) : Append(s, e)[i] = s[i]
           /\ Append(s, e)[Len(s) + 1] = e
  OBVIOUS

LEMMA TailTypes ==
    ASSUME NEW S, NEW s \in Seq(S), s # <<>>
    PROVE  /\ Tail(s) \in Seq(S)
           /\ Len(Tail(s)) = Len(s) - 1
           /\ Head(s) = s[1]
           /\ Len(s) \in Nat /\ Len(s) >= 1
           /\ \A i \in 1..Len(Tail(s)) : Tail(s)[i] = s[i + 1]
  OBVIOUS

(* The sequences an action leaves behind. *)
Messages == {"binary", "pong", "close"}

LEMMA InboxGrows ==
    ASSUME TypeOK, NEW m \in Messages
    PROVE  Append(inbox, m) \in Seq(Messages)
  BY AppendTypes DEF TypeOK, Messages

LEMMA InboxShrinks ==
    ASSUME TypeOK, inbox # <<>>
    PROVE  Tail(inbox) \in Seq(Messages) /\ Head(inbox) \in Messages
  BY TailTypes DEF TypeOK, Messages

LEMMA OutboxGrows ==
    ASSUME TypeOK, Len(outbox) < Room, NEW m \in {"ping", "reply"}
    PROVE  Append(outbox, m) \in Seq({"ping", "reply"}) /\ Len(Append(outbox, m)) <= Room
<1>1. outbox \in Seq({"ping", "reply"}) /\ Len(outbox) \in Nat
  BY DEF TypeOK
<1>2. Append(outbox, m) \in Seq({"ping", "reply"}) /\ Len(Append(outbox, m)) = Len(outbox) + 1
  BY <1>1, AppendTypes
<1> QED
  BY <1>1, <1>2, TimersAssumption

LEMMA OutboxShrinks ==
    ASSUME TypeOK, outbox # <<>>
    PROVE  Tail(outbox) \in Seq({"ping", "reply"}) /\ Len(Tail(outbox)) <= Room
<1>1. outbox \in Seq({"ping", "reply"}) /\ Len(outbox) \in Nat /\ Len(outbox) <= Room
  BY DEF TypeOK
<1>2. Tail(outbox) \in Seq({"ping", "reply"}) /\ Len(Tail(outbox)) = Len(outbox) - 1
  BY <1>1, TailTypes
<1> QED
  BY <1>1, <1>2, TimersAssumption

-----------------------------------------------------------------------------
LEMMA Constants ==
    /\ PingTicks \in Nat /\ PingTicks >= 1
    /\ IdleTicks \in Nat /\ IdleTicks >= 1
    /\ Room \in Nat /\ Room >= 1
    /\ MaxWork \in Nat /\ MaxFrames \in Nat
    /\ 2 * IdleTicks \in Nat
  BY TimersAssumption

(* Type correctness: no timer runs below zero or past its length, and the  *)
(* socket never holds more than it takes.                                  *)
THEOREM TypeCorrect == Spec => []TypeOK
<1>1. ASSUME Init PROVE TypeOK
  <2>1. /\ timer \in 0..IdleTicks /\ due \in Nat
        /\ sincePing \in 0..(PingTicks - 1) /\ work \in 0..MaxWork
        /\ frames \in 0..MaxFrames
    BY <1>1, Constants DEF Init
  <2>2. silence \in 0..(2 * IdleTicks + 1) /\ burst \in Nat
    BY <1>1, Constants DEF Init
  <2>3. /\ inbox \in Seq({"binary", "pong", "close"})
        /\ outbox \in Seq({"ping", "reply"}) /\ Len(outbox) <= Room
    BY <1>1, Constants DEF Init
  <2> QED
    BY <1>1, <2>1, <2>2, <2>3 DEF Init, TypeOK
<1>2. TypeOK /\ [Next]_vars => TypeOK'
  <2> SUFFICES ASSUME TypeOK, [Next]_vars PROVE TypeOK'
    OBVIOUS
  <2> USE Constants
  <2>1. CASE Send
    BY <2>1, InboxGrows DEF Send, TypeOK, Messages, clocks, history
  <2>2. CASE ReadByPeer
    BY <2>2, InboxGrows, OutboxShrinks DEF ReadByPeer, TypeOK, Messages, clocks, history
  <2>3. CASE Leave
    BY <2>3, InboxGrows DEF Leave, TypeOK, Messages, clocks, history
  <2>4. CASE Stall
    BY <2>4 DEF Stall, TypeOK, clocks, history
  <2>5. CASE Vanish
    BY <2>5 DEF Vanish, TypeOK, clocks, history
  <2>6. CASE KernelGivesUp
    BY <2>6 DEF KernelGivesUp, TypeOK, clocks, history
  <2>7. CASE StartPing
    <3>1. due' \in Nat
      BY <2>7 DEF StartPing, TypeOK
    <3> QED
      BY <2>7, <3>1 DEF StartPing, TypeOK, history
  <2>8. CASE Ping
    <3>1. burst' \in Nat
      BY <2>8 DEF Ping, TypeOK
    <3>2. outbox' \in Seq({"ping", "reply"}) /\ Len(outbox') <= Room
      BY <2>8, OutboxGrows DEF Ping, TypeOK, Sent
    <3> QED
      BY <2>8, <3>1, <3>2 DEF Ping, TypeOK, Turn, End
  <2>9. CASE ReadMessage
    <3>1. Tail(inbox) \in Seq(Messages) /\ Head(inbox) \in Messages
      BY <2>9, InboxShrinks DEF ReadMessage
    <3> QED
      BY <2>9, <3>1 DEF ReadMessage, TypeOK, Turn, End, Messages
  <2>10. CASE ReadEnds
    BY <2>10 DEF ReadEnds, TypeOK, End, history
  <2>11. CASE Reply
    BY <2>11, OutboxGrows DEF Reply, TypeOK, Turn, End, Sent, history
  <2>12. CASE Tick
    BY <2>12 DEF Tick, TypeOK, Less, Missed
  <2>13. CASE UNCHANGED vars
    BY <2>13 DEF vars, TypeOK
  <2> QED
    BY <2>1, <2>2, <2>3, <2>4, <2>5, <2>6, <2>7, <2>8, <2>9, <2>10, <2>11, <2>12, <2>13
       DEF Next, Handler, Peer
<1> QED
  BY <1>1, <1>2, PTL DEF Spec

-----------------------------------------------------------------------------
(* ws.rs, the two constants as they are: the interval is not longer than   *)
(* the timeout, so the timeout never fires, in any state of any peer.      *)
THEOREM TimeoutIsDead == Spec => []NeverTimesOut
<1>1. Init => TimerOutlastsInterval
  BY TimersAssumption DEF Init, TimerOutlastsInterval
<1>2. TypeOK /\ TimerOutlastsInterval /\ [Next]_vars => TimerOutlastsInterval'
  <2> SUFFICES ASSUME TypeOK, TimerOutlastsInterval, [Next]_vars PROVE TimerOutlastsInterval'
    OBVIOUS
  <2> USE TimersAssumption DEF TimerOutlastsInterval, TypeOK
  <2>1. CASE Peer \/ KernelGivesUp
    BY <2>1 DEF Peer, Send, ReadByPeer, Leave, Stall, Vanish, KernelGivesUp, clocks
  <2>2. CASE StartPing
    BY <2>2 DEF StartPing
  <2>3. CASE Ping
    BY <2>3 DEF Ping, Turn, End
  <2>4. CASE ReadMessage
    BY <2>4, InboxShrinks, SMTT(30) DEF ReadMessage, Turn, End, Messages
  <2>5. CASE ReadEnds
    BY <2>5 DEF ReadEnds, End
  <2>6. CASE Reply
    BY <2>6 DEF Reply, Turn, End
  <2>7. CASE Tick
    BY <2>7, SMTT(30) DEF Tick, Waiting, Less, Missed
  <2>8. CASE UNCHANGED vars
    BY <2>8 DEF vars
  <2> QED
    BY <2>1, <2>2, <2>3, <2>4, <2>5, <2>6, <2>7, <2>8 DEF Next, Handler
<1>3. TypeOK /\ TimerOutlastsInterval => NeverTimesOut
  BY TimersAssumption DEF TypeOK, TimerOutlastsInterval, NeverTimesOut, Readable
<1> QED
  BY <1>1, <1>2, <1>3, TypeCorrect, PTL DEF Spec

-----------------------------------------------------------------------------
(* set_missed_tick_behavior(Skip): never two Pings at one instant.         *)
THEOREM OnePingAtATime == Spec => []NoPingBurst
<1>1. Init => OneDuePing
  BY DEF Init, OneDuePing
<1>2. TypeOK /\ OneDuePing /\ [Next]_vars => OneDuePing'
  <2> SUFFICES ASSUME TypeOK, OneDuePing, [Next]_vars PROVE OneDuePing'
    OBVIOUS
  <2> USE TimersAssumption DEF OneDuePing, TypeOK
  <2>1. CASE Peer \/ KernelGivesUp
    BY <2>1 DEF Peer, Send, ReadByPeer, Leave, Stall, Vanish, KernelGivesUp, clocks, history
  <2>2. CASE StartPing
    BY <2>2 DEF StartPing, history
  <2>3. CASE Ping
    BY <2>3 DEF Ping, Turn, End
  <2>4. CASE ReadMessage
    BY <2>4, InboxShrinks DEF ReadMessage, Turn, End, Messages
  <2>5. CASE ReadEnds
    BY <2>5 DEF ReadEnds, End, history
  <2>6. CASE Reply
    BY <2>6 DEF Reply, Turn, End, history
  <2>7. CASE Tick
    <3>1. Len(outbox) \in Nat /\ (Len(outbox) = Room => outbox # <<>>)
      OBVIOUS
    <3> QED
      BY <2>7, <3>1 DEF Tick, Waiting, Missed
  <2>8. CASE UNCHANGED vars
    BY <2>8 DEF vars
  <2> QED
    BY <2>1, <2>2, <2>3, <2>4, <2>5, <2>6, <2>7, <2>8 DEF Next, Handler
<1>3. OneDuePing => NoPingBurst
  BY DEF OneDuePing, NoPingBurst
<1> QED
  BY <1>1, <1>2, <1>3, TypeCorrect, PTL DEF Spec

-----------------------------------------------------------------------------
(* A client that answers is kept, with the constants as they are.          *)
THEOREM LivePeersAreKept == ASSUME PingTicks <= IdleTicks PROVE Spec => []KeepsWhoAnswers
<1>1. Init => EndsOnlyWithoutPeer
  BY DEF Init, EndsOnlyWithoutPeer
<1>2. TypeOK /\ NeverTimesOut /\ EndsOnlyWithoutPeer /\ [Next]_vars => EndsOnlyWithoutPeer'
  <2> SUFFICES ASSUME TypeOK, NeverTimesOut, EndsOnlyWithoutPeer, [Next]_vars
               PROVE  EndsOnlyWithoutPeer'
    OBVIOUS
  <2> USE DEF EndsOnlyWithoutPeer
  <2>1. inbox \in Seq(Messages)
    BY DEF TypeOK, Messages
  <2>2. CASE Send
    BY <2>1, <2>2, AppendTypes DEF Send, Messages, clocks, history
  <2>3. CASE ReadByPeer
    BY <2>1, <2>3, AppendTypes DEF ReadByPeer, Messages, clocks, history
  <2>4. CASE Leave
    BY <2>4 DEF Leave
  <2>5. CASE Stall \/ Vanish \/ KernelGivesUp
    BY <2>5 DEF Stall, Vanish, KernelGivesUp
  <2>6. CASE StartPing
    BY <2>6 DEF StartPing
  <2>7. CASE Ping
    BY <2>7 DEF Ping, Turn, End
  <2>8. CASE ReadMessage
    <3>1. /\ Head(inbox) = inbox[1] /\ Len(inbox) \in Nat /\ Len(inbox) >= 1
          /\ Len(Tail(inbox)) = Len(inbox) - 1
          /\ \A i \in 1..Len(Tail(inbox)) : Tail(inbox)[i] = inbox[i + 1]
      BY <2>1, <2>8, TailTypes DEF ReadMessage
    <3>2. Head(inbox) \in Messages
      BY <2>8, InboxShrinks DEF ReadMessage
    <3> QED
      BY <2>8, <3>1, <3>2 DEF ReadMessage, Turn, End, Messages
  <2>9. CASE ReadEnds
    <3>1. timer \in 0..IdleTicks /\ timer # 0
      BY <2>9, TimersAssumption DEF ReadEnds, NeverTimesOut, TypeOK
    <3> QED
      BY <2>9, <3>1 DEF ReadEnds, End
  <2>10. CASE Reply
    BY <2>10 DEF Reply, Turn, End
  <2>11. CASE Tick
    BY <2>11 DEF Tick
  <2>12. CASE UNCHANGED vars
    BY <2>12 DEF vars
  <2> QED
    BY <2>2, <2>3, <2>4, <2>5, <2>6, <2>7, <2>8, <2>9, <2>10, <2>11, <2>12
       DEF Next, Handler, Peer
<1>3. EndsOnlyWithoutPeer => KeepsWhoAnswers
  BY DEF EndsOnlyWithoutPeer, KeepsWhoAnswers
<1> QED
  BY <1>1, <1>2, <1>3, TypeCorrect, TimeoutIsDead, PTL DEF Spec
=============================================================================
