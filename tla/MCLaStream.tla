----------------------------- MODULE MCLaStream -----------------------------
(* LaStream on small instances. *)
EXTENDS LaStream, TLC

(* The connections are interchangeable (runs without liveness only). *)
Symmetry == Permutations(Conns)

(* Clients that stay and read, no crash and nobody who stops the container: *)
(* the only reason to go down is an inference that ends the worker.  Small  *)
(* enough to let two tasks wait for the lock.                               *)
CalmNext ==
    \/ \E c \in Conns : Open(c) \/ Send(c)
    \/ \E c \in Conns : HandleWs(c) \/ HandleConnection(c)
    \/ GrantLock
    \/ \E f \in Frame, o \in {"success", "oom"} : EngineReturn(f, o)
    \/ Supervision
    \/ Down

CalmSpec == Init /\ [][CalmNext]_vars

=============================================================================
