------------------------------ MODULE WsTimers ------------------------------
(***************************************************************************)
(* The clock of one WebSocket: the select! of handle_ws with its Ping       *)
(* interval and its idle timeout, and a peer that answers, stops reading or *)
(* vanishes without a word.  LaStream has the same handler without time;    *)
(* the round trip to the worker is here no more than the time it takes.     *)
(*                                                                         *)
(* select! is biased: a due Ping goes before a message, a message before   *)
(* the timeout.  Time passes only when the handler has to wait for it.     *)
(***************************************************************************)
EXTENDS Naturals, Sequences

CONSTANTS
    PingTicks,    \* PING_INTERVAL
    IdleTicks,    \* READ_IDLE_TIMEOUT
    Room,         \* bound: messages a socket takes that its peer does not read
    MaxWork,      \* bound: ticks a frame takes
    MaxFrames     \* bound: frames of the peer

ASSUME TimersAssumption ==
    /\ {PingTicks, IdleTicks, Room, MaxWork} \subseteq Nat \ {0}
    /\ MaxFrames \in Nat

VARIABLES
    phase,      \* where handle_ws is
    timer,      \* what the timeout of this turn has left
    due,        \* ticks of the interval not yet taken
    sincePing,  \* since the interval's last tick, taken or not
    work,       \* what the frame being served still takes
    peer,
    frames,     \* frames the peer has sent
    inbox,      \* messages to the server
    outbox,     \* messages to the peer that it has not read
    broken,     \* the kernel has given the connection up
    silence,    \* ticks in select! since the last message; saturates
    burst       \* Pings sent at this instant

vars == <<phase, timer, due, sincePing, work, peer, frames, inbox, outbox, broken,
          silence, burst>>
clocks == <<timer, due, sincePing, work>>
history == <<silence, burst>>

-----------------------------------------------------------------------------
(* The peer and the kernel.                                                *)

Send ==
    /\ peer = "alive" /\ phase # "closed" /\ frames < MaxFrames
    /\ Len(inbox) < Room
    /\ frames' = frames + 1
    /\ inbox' = Append(inbox, "binary")
    /\ UNCHANGED <<phase, clocks, peer, outbox, broken, history>>

(* A live peer reads at once, and its stack answers a Ping by itself. *)
ReadByPeer ==
    /\ peer = "alive" /\ outbox # <<>>
    /\ outbox' = Tail(outbox)
    /\ inbox' = IF Head(outbox) = "ping" THEN Append(inbox, "pong") ELSE inbox
    /\ UNCHANGED <<phase, clocks, peer, frames, broken, history>>

Leave ==
    /\ peer = "alive"
    /\ peer' = "left"
    /\ inbox' = Append(inbox, "close")
    /\ UNCHANGED <<phase, clocks, frames, outbox, broken, history>>

Stall ==
    /\ peer = "alive"
    /\ peer' = "stalled"
    /\ UNCHANGED <<phase, clocks, frames, inbox, outbox, broken, history>>

Vanish ==
    /\ peer \in {"alive", "stalled"}
    /\ peer' = "gone"
    /\ UNCHANGED <<phase, clocks, frames, inbox, outbox, broken, history>>

(* Retransmission ends; there is none without data on the way. *)
KernelGivesUp ==
    /\ peer = "gone" /\ outbox # <<>> /\ ~broken
    /\ broken' = TRUE
    /\ UNCHANGED <<phase, clocks, peer, frames, inbox, outbox, history>>

-----------------------------------------------------------------------------
(* The handler.                                                            *)

(* Every turn of the loop makes a new timeout. *)
TurnSameDeadline == phase' = "select" /\ timer' = timer
Turn == phase' = "select" /\ timer' = IdleTicks

End == phase' = "closed" /\ UNCHANGED timer

Sent(message) == outbox' = Append(outbox, message)

StartPingDry ==
    /\ phase = "select" /\ due > 0
    /\ due' = due - 1
    /\ burst' = burst + 1
    /\ Turn
    /\ UNCHANGED <<sincePing, work, peer, frames, inbox, outbox, broken, silence>>

StartPing ==
    /\ phase = "select" /\ due > 0
    /\ due' = due - 1
    /\ phase' = "pinging"
    /\ UNCHANGED <<timer, sincePing, work, peer, frames, inbox, outbox, broken, history>>

(* The arm waits for its send, and so does everything else. *)
Ping ==
    /\ phase = "pinging"
    /\ \/ broken /\ End /\ UNCHANGED <<outbox, burst>>
       \/ ~broken /\ Len(outbox) < Room /\ Sent("ping") /\ Turn /\ burst' = burst + 1
    /\ UNCHANGED <<due, sincePing, work, peer, frames, inbox, broken, silence>>

Readable == phase = "select" /\ due = 0

ReadMessage ==
    /\ Readable /\ inbox # <<>>
    /\ inbox' = Tail(inbox)
    /\ silence' = 0
    /\ \/ Head(inbox) = "binary" /\ phase' = "busy" /\ work' \in 0..MaxWork /\ UNCHANGED timer
       \/ Head(inbox) = "pong" /\ Turn /\ UNCHANGED work
       \/ Head(inbox) = "close" /\ End /\ UNCHANGED work
    /\ UNCHANGED <<due, sincePing, peer, frames, outbox, broken, burst>>

(* The two arms without a message: an error of the socket, and the timeout, *)
(* which the constants of ws.rs leave no time to fire (NeverTimesOut).     *)
ReadEnds ==
    /\ Readable /\ inbox = <<>>
    /\ broken \/ timer = 0
    /\ End
    /\ UNCHANGED <<due, sincePing, work, peer, frames, inbox, outbox, broken, history>>

Reply ==
    /\ phase = "busy" /\ work = 0
    /\ \/ broken /\ End /\ UNCHANGED outbox
       \/ ~broken /\ Len(outbox) < Room /\ Sent("reply") /\ Turn
    /\ UNCHANGED <<due, sincePing, work, peer, frames, inbox, broken, history>>

-----------------------------------------------------------------------------
(* A tick of the interval that nobody takes is not made up for (Skip).     *)
MissedBurst == due + 1
Missed == 1

Waiting ==
    \/ phase = "select" /\ due = 0 /\ inbox = <<>> /\ ~broken /\ timer > 0
    \/ phase = "pinging" /\ ~broken /\ Len(outbox) = Room
    \/ phase = "busy" /\ (work > 0 \/ (~broken /\ Len(outbox) = Room))

Less(n) == IF n = 0 THEN 0 ELSE n - 1

Tick ==
    /\ Waiting /\ ~(peer = "alive" /\ outbox # <<>>)
    /\ timer' = IF phase = "select" THEN Less(timer) ELSE timer
    /\ work' = Less(work)
    /\ sincePing' = IF sincePing + 1 = PingTicks THEN 0 ELSE sincePing + 1
    /\ due' = IF sincePing' = 0 THEN Missed ELSE due
    /\ silence' = IF phase = "select" /\ silence <= 2 * IdleTicks THEN silence + 1 ELSE silence
    /\ burst' = 0
    /\ UNCHANGED <<phase, peer, frames, inbox, outbox, broken>>

(* The first tick of the interval, which is immediate, has been taken. *)
Init ==
    /\ phase = "select" /\ timer = IdleTicks
    /\ due = 0 /\ sincePing = 0 /\ work = 0
    /\ peer = "alive" /\ frames = 0
    /\ inbox = <<>> /\ outbox = <<>> /\ broken = FALSE
    /\ silence = 0 /\ burst = 0

Handler == StartPing \/ Ping \/ ReadMessage \/ ReadEnds \/ Reply
Peer == Send \/ ReadByPeer \/ Leave \/ Stall \/ Vanish

Next == Handler \/ Peer \/ KernelGivesUp \/ Tick

Spec == Init /\ [][Next]_vars

(* The runtime polls the handler, time passes, and the kernel gives up at  *)
(* some time; no peer has to do anything.                                  *)
FairSpec == Spec /\ WF_vars(Handler) /\ WF_vars(Tick) /\ WF_vars(KernelGivesUp)

-----------------------------------------------------------------------------
TypeOK ==
    /\ phase \in {"select", "pinging", "busy", "closed"}
    /\ timer \in 0..IdleTicks /\ due \in Nat
    /\ sincePing \in 0..(PingTicks - 1) /\ work \in 0..MaxWork
    /\ peer \in {"alive", "left", "stalled", "gone"}
    /\ frames \in 0..MaxFrames
    /\ inbox \in Seq({"binary", "pong", "close"})
    /\ outbox \in Seq({"ping", "reply"}) /\ Len(outbox) <= Room
    /\ broken \in BOOLEAN
    /\ silence \in 0..(2 * IdleTicks + 1) /\ burst \in Nat

(* The Ping of every turn ends the turn, and its timeout, before it is up.  *)
NeverTimesOut == PingTicks <= IdleTicks /\ Readable => timer > 0

(* A client that only watches, and answers every Ping, is not taken for a  *)
(* dead one, however long it sends nothing and however long frames take.   *)
KeepsWhoAnswers == phase = "closed" => peer # "alive"

(* Skip: after an inference that outlasted several intervals the peer gets *)
(* one Ping and not all the missed ones at once.                           *)
NoPingBurst == burst <= 1

(* "Far too long to notice a dead client" without Pings: a peer that has   *)
(* vanished, with nothing of its own on the way, is noticed; its handler,  *)
(* and the worker connection it holds, do not stay.                        *)
HalfOpenIsNoticed == peer = "gone" ~> phase = "closed"

(* ws.rs: "If no WebSocket message (data OR pong) arrives for this long,   *)
(* the connection is considered dead and closed."  A Ping may begin the     *)
(* time anew once; twice the time is granted here.                         *)
IdleIsClosed == silence <= 2 * IdleTicks
=============================================================================
