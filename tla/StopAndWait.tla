---------------------------- MODULE StopAndWait ----------------------------
(***************************************************************************)
(* What the stream promises to its clients, with nothing of the worker,    *)
(* the lock or the processes: one message is answered before the next is   *)
(* taken, by one reply that is about it, and the Close code tells which    *)
(* message, if any, was taken and will not be answered.                    *)
(***************************************************************************)
EXTENDS Naturals, Sequences

CONSTANT Conns      \* the WebSocket connections

VARIABLES
    phase,    \* new, open or ended
    taken,    \* how many binary messages the service has taken
    answers,  \* the replies, in order
    code      \* the code of the Close frame, 0 for none

vars == <<phase, taken, answers, code>>

(* The types of error replies are told apart as far as clients must.        *)
Delivered == {"success", "error", "fatal"}

AnswerTo(c, n, b) == [id |-> <<c, n>>, of |-> <<c, n>>, body |-> b]

Waiting(c) == taken[c] = Len(answers[c]) + 1
AtRest(c)  == taken[c] = Len(answers[c])

Init ==
    /\ phase = [c \in Conns |-> "new"]
    /\ taken = [c \in Conns |-> 0]
    /\ answers = [c \in Conns |-> <<>>]
    /\ code = [c \in Conns |-> 0]

Begin(c) ==
    /\ phase[c] = "new"
    /\ phase' = [phase EXCEPT ![c] = "open"]
    /\ UNCHANGED <<taken, answers, code>>

Take(c) ==
    /\ phase[c] = "open"
    /\ AtRest(c)
    /\ taken' = [taken EXCEPT ![c] = @ + 1]
    /\ UNCHANGED <<phase, answers, code>>

Answer(c) ==
    /\ phase[c] = "open"
    /\ Waiting(c)
    /\ \E b \in Delivered :
           answers' = [answers EXCEPT ![c] = Append(@, AnswerTo(c, taken[c], b))]
    /\ UNCHANGED <<phase, taken, code>>

(* 1001 (going away) is said between two messages, 1008 (policy) of the     *)
(* message at hand, 1011 (server error) of the message at hand or before    *)
(* the first.                                                               *)
Close(c, k) ==
    /\ phase[c] = "open"
    /\ k = 1001 => AtRest(c)
    /\ k = 1008 => Waiting(c)
    /\ k = 1011 => Waiting(c) \/ taken[c] = 0
    /\ phase' = [phase EXCEPT ![c] = "ended"]
    /\ code' = [code EXCEPT ![c] = k]
    /\ UNCHANGED <<taken, answers>>

(* Connections that end without a Close frame, many at once when their      *)
(* process ends.                                                            *)
Abandon ==
    /\ \E S \in SUBSET {c \in Conns : phase[c] = "open"} :
           phase' = [c \in Conns |-> IF c \in S THEN "ended" ELSE phase[c]]
    /\ UNCHANGED <<taken, answers, code>>

Next ==
    \/ \E c \in Conns : Begin(c) \/ Take(c) \/ Answer(c)
    \/ \E c \in Conns, k \in {1001, 1008, 1011} : Close(c, k)
    \/ Abandon

Spec == Init /\ [][Next]_vars

=============================================================================
