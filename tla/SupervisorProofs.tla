-------------------------- MODULE SupervisorProofs --------------------------
(***************************************************************************)
(* One container for every length of its timers: the types; that no client *)
(* is let in before a worker accepts; and that the exit status of a        *)
(* container nobody stopped is that of the process that ended it.          *)
(***************************************************************************)
EXTENDS Supervisor, TLAPS

(* A file that accepts connections was bound by this container's worker.   *)
LiveSocketIsBound == socket = "live" => worker # "booting"

ListenerInv == LiveSocketIsBound /\ NoListenerBeforeModel

(* Without a docker stop nobody has sent SIGTERM before a child has ended, *)
(* so the first to end did so by a failure of its own; its status is       *)
(* kept while the other one is drained or killed.                          *)
FirstStatusKept ==
    Untouched =>
        /\ "bash" \notin term
        /\ bash = "waiting" =>
               /\ term = {} /\ worker # "draining" /\ frontend # "flushing"
               /\ ~WorkerAlive => workerCode \in OwnFailures
               /\ ~FrontendAlive => frontendCode \in OwnFailures
        /\ bash # "waiting" =>
               /\ code \in OwnFailures
               /\ \/ ~WorkerAlive /\ code = workerCode
                  \/ ~FrontendAlive /\ code = frontendCode

-----------------------------------------------------------------------------
LEMMA Constants ==
    /\ GraceTicks \in Nat /\ FlushTicks \in Nat /\ ProbeTicks \in Nat
    /\ MaxInference \in Nat /\ MaxInferences \in Nat
  BY TicksAssumption

ClockType == clock \in [grace : 0..GraceTicks, probe : 0..ProbeTicks, flush : 0..FlushTicks,
                        stop : 0..1]

StateType ==
    /\ bash \in {"waiting", "grace", "exited"} /\ code \in Codes
    /\ worker \in {"booting", "bound", "serving", "draining", "exited", "killed"}
    /\ workerCode \in Codes
    /\ socket \in {"none", "stale", "live"}
    /\ frontend \in {"probing", "serving", "flushing", "exited", "killed"}
    /\ frontendCode \in Codes
    /\ term \subseteq Processes
    /\ busy \in 0..MaxInference /\ started \in 0..MaxInferences

LEMMA TypeParts == TypeOK <=> StateType /\ ClockType
  BY DEF TypeOK, StateType, ClockType

LEMMA LessBound == ASSUME NEW n \in Nat, NEW k \in 0..n PROVE Less(k) \in 0..n
  BY DEF Less

(* Setting one timer to its length, or taking half a second off each.      *)
LEMMA ClockSteps ==
    ASSUME ClockType,
           \/ UNCHANGED clock
           \/ clock' = [clock EXCEPT !.grace = GraceTicks]
           \/ clock' = [clock EXCEPT !.flush = FlushTicks]
           \/ clock' = [clock EXCEPT !.stop = 0]
    PROVE  ClockType'
  BY Constants DEF ClockType

LEMMA ClockTick == ASSUME ClockType, Tick PROVE ClockType'
<1> DEFINE g == IF bash = "grace" THEN Less(clock.grace) ELSE clock.grace
           p == IF frontend = "probing" THEN Less(clock.probe) ELSE clock.probe
           f == IF frontend = "flushing" THEN Less(clock.flush) ELSE clock.flush
<1>1. /\ clock.grace \in 0..GraceTicks /\ clock.probe \in 0..ProbeTicks
      /\ clock.flush \in 0..FlushTicks
  BY DEF ClockType
<1>2. /\ g \in 0..GraceTicks /\ p \in 0..ProbeTicks
      /\ f \in 0..FlushTicks
  BY <1>1, LessBound, Constants
<1>3. clock' = [clock EXCEPT !.grace = g, !.probe = p, !.flush = f]
  BY DEF Tick
<1> HIDE DEF g, p, f
<1> QED
  BY <1>2, <1>3 DEF ClockType

LEMMA ClockStep == ASSUME ClockType, Next PROVE ClockType'
<1>1. CASE Worker
  BY <1>1, ClockSteps DEF Worker, BootFails, Bind, InstallHandlers, Infer, WorkerDies,
     WorkerTerm, Drained
<1>2. CASE Frontend
  BY <1>2, ClockSteps DEF Frontend, Probe, ProbeTimesOut, FrontendDies, FrontendTerm, Flushed
<1>3. CASE Entrypoint
  BY <1>3, ClockSteps DEF Entrypoint, Trap, ChildEnded, Exit, KillRemaining, EnterGrace
<1>4. CASE DockerStop
  BY <1>4, ClockSteps DEF DockerStop
<1>5. CASE Tick
  BY <1>5, ClockTick
<1> QED
  BY <1>1, <1>2, <1>3, <1>4, <1>5 DEF Next

LEMMA StateStep == ASSUME StateType, Next PROVE StateType'
<1> USE DEF Codes, SIGTERM, SIGKILL, EX_TEMPFAIL
<1>1. CASE BootFails \/ Bind \/ InstallHandlers \/ WorkerDies \/ Drained
  BY <1>1, Constants DEF BootFails, Bind, InstallHandlers, WorkerDies, Drained,
     WorkerExits, StateType, frontendVars
<1>2. CASE WorkerTerm
  <2>1. /\ worker' \in {"exited", "draining", worker}
        /\ workerCode' \in {SIGTERM, workerCode} /\ busy' \in {0, busy}
    BY <1>2 DEF WorkerTerm, WorkerExits, workerVars
  <2>2. 0 \in 0..MaxInference /\ term' \subseteq term
    BY <1>2, Constants DEF WorkerTerm
  <2> QED
    BY <1>2, <2>1, <2>2 DEF WorkerTerm, StateType, frontendVars
<1>3. CASE Infer
  BY <1>3, Constants DEF Infer, StateType, frontendVars
<1>4. CASE Frontend
  BY <1>4 DEF Frontend, Probe, ProbeTimesOut, FrontendDies, FrontendTerm, Flushed,
     FrontendExits, StateType, workerVars, frontendVars, Processes
<1>5. CASE Trap \/ ChildEnded
  BY <1>5 DEF Trap, ChildEnded, EnterGrace, StateType, workerVars, frontendVars, Processes
<1>6. CASE Exit
  BY <1>6, Constants DEF Exit, KillRemaining, StateType
<1>7. CASE DockerStop
  BY <1>7 DEF DockerStop, StateType, workerVars, frontendVars
<1>8. CASE Tick
  <2>1. busy' \in 0..MaxInference
    BY <1>8, LessBound, Constants DEF Tick, StateType
  <2> QED
    BY <1>8, <2>1 DEF Tick, StateType, frontendVars
<1> QED
  BY <1>1, <1>2, <1>3, <1>4, <1>5, <1>6, <1>7, <1>8 DEF Next, Worker, Entrypoint

(* Type correctness: no timer below zero or past its length, and only the  *)
(* exit statuses the code can produce.                                     *)
THEOREM TypeCorrect == Spec => []TypeOK
<1>1. Init => TypeOK
  <2> SUFFICES ASSUME Init PROVE StateType /\ ClockType
    BY TypeParts
  <2>1. StateType
    BY Constants DEF Init, StateType, Codes, Processes
  <2>2. ClockType
    BY Constants DEF Init, ClockType
  <2> QED
    BY <2>1, <2>2
<1>2. TypeOK /\ [Next]_vars => TypeOK'
  <2> SUFFICES ASSUME StateType, ClockType, [Next]_vars PROVE StateType' /\ ClockType'
    BY TypeParts DEF TypeOK, StateType, ClockType
  <2>1. CASE Next
    BY <2>1, StateStep, ClockStep
  <2>2. CASE UNCHANGED vars
    BY <2>2 DEF vars, StateType, ClockType
  <2> QED
    BY <2>1, <2>2
<1> QED
  BY <1>1, <1>2, PTL DEF Spec

-----------------------------------------------------------------------------
(* No client before a worker (main.rs, wait_for_socket before the listener *)
(* is bound): also with the socket file of an earlier container in place.  *)
THEOREM ListenerAfterModel == Spec => []NoListenerBeforeModel
<1> USE DEF ListenerInv, LiveSocketIsBound, NoListenerBeforeModel
<1>1. Init => ListenerInv
  BY DEF Init
<1>2. ListenerInv /\ [Next]_vars => ListenerInv'
  <2> SUFFICES ASSUME ListenerInv, [Next]_vars PROVE ListenerInv'
    OBVIOUS
  <2>1. CASE Worker
    BY <2>1 DEF Worker, BootFails, Bind, InstallHandlers, Infer, WorkerDies, WorkerTerm,
       Drained, WorkerExits, workerVars, frontendVars
  <2>2. CASE Frontend
    BY <2>2 DEF Frontend, Probe, ProbeTimesOut, FrontendDies, FrontendTerm, Flushed,
       FrontendExits, workerVars, frontendVars
  <2>3. CASE Entrypoint
    BY <2>3 DEF Entrypoint, Trap, ChildEnded, Exit, KillRemaining, WorkerAlive, FrontendAlive,
       workerVars, frontendVars
  <2>4. CASE DockerStop \/ Tick
    BY <2>4 DEF DockerStop, Tick, workerVars, frontendVars
  <2>5. CASE UNCHANGED vars
    BY <2>5 DEF vars
  <2> QED
    BY <2>1, <2>2, <2>3, <2>4, <2>5 DEF Next
<1> QED
  BY <1>1, <1>2, PTL DEF ListenerInv, Spec

(* Only a docker stop touches the mark that it has happened.               *)
LEMMA StopMark ==
    ASSUME ClockType, [Next]_vars
    PROVE  Untouched' => Untouched /\ ~DockerStop
<1> USE DEF Untouched, ClockType
<1>1. DockerStop => ~Untouched'
  BY DEF DockerStop
<1>2. CASE Worker
  BY <1>1, <1>2 DEF Worker, BootFails, Bind, InstallHandlers, Infer, WorkerDies, WorkerTerm, Drained
<1>3. CASE Frontend
  BY <1>1, <1>3 DEF Frontend, Probe, ProbeTimesOut, FrontendDies, FrontendTerm, Flushed
<1>4. CASE Entrypoint
  BY <1>1, <1>4 DEF Entrypoint, Trap, ChildEnded, Exit, KillRemaining, EnterGrace
<1>5. CASE Tick
  BY <1>1, <1>5 DEF Tick
<1>6. CASE UNCHANGED vars
  BY <1>1, <1>6 DEF vars
<1> QED
  BY <1>1, <1>2, <1>3, <1>4, <1>5, <1>6 DEF Next

(* entrypoint.sh, "propagate the exit code": the status of a container     *)
(* nobody stopped is that of a process that failed by itself, not the one  *)
(* with which the other took the signal.                                   *)
THEOREM StatusOfTheCause == Spec => []ExitNamesTheCause
<1>1. Init => FirstStatusKept
  BY DEF Init, FirstStatusKept, WorkerAlive, FrontendAlive
<1>2. TypeOK /\ FirstStatusKept /\ [Next]_vars => FirstStatusKept'
  <2> SUFFICES ASSUME StateType, ClockType, FirstStatusKept, [Next]_vars, Untouched'
               PROVE  FirstStatusKept'
    BY TypeParts DEF FirstStatusKept
  <2>1. Untouched /\ ~DockerStop
    BY StopMark
  <2> DEFINE Waiting == bash = "waiting"
                          => /\ term = {} /\ worker # "draining" /\ frontend # "flushing"
                             /\ ~WorkerAlive => workerCode \in OwnFailures
                             /\ ~FrontendAlive => frontendCode \in OwnFailures
             Over == bash # "waiting"
                          => /\ code \in OwnFailures
                             /\ \/ ~WorkerAlive /\ code = workerCode
                                \/ ~FrontendAlive /\ code = frontendCode
  <2>2. "bash" \notin term /\ Waiting /\ Over
    BY <2>1 DEF FirstStatusKept
  <2>3. SUFFICES "bash" \notin term' /\ Waiting' /\ Over'
    BY DEF FirstStatusKept
  <2> USE <2>2 DEF WorkerAlive, FrontendAlive, workerVars, frontendVars, OwnFailures
  <2>4. CASE BootFails \/ Bind \/ InstallHandlers \/ Infer \/ WorkerDies \/ Drained
    BY <2>4 DEF BootFails, Bind, InstallHandlers, Infer, WorkerDies, Drained, WorkerExits,
       EX_TEMPFAIL
  <2>5. CASE WorkerTerm
    BY <2>5 DEF WorkerTerm, WorkerExits
  <2>6. CASE Probe \/ ProbeTimesOut \/ FrontendDies \/ Flushed
    BY <2>6 DEF Probe, ProbeTimesOut, FrontendDies, Flushed, FrontendExits
  <2>7. CASE FrontendTerm
    BY <2>7 DEF FrontendTerm, FrontendExits
  <2>8. CASE Trap \/ ChildEnded
    BY <2>8 DEF Trap, ChildEnded, EnterGrace
  <2>9. CASE Exit
    BY <2>9 DEF Exit, KillRemaining
  <2>10. CASE Tick
    BY <2>10 DEF Tick
  <2>11. CASE UNCHANGED vars
    BY <2>11 DEF vars
  <2> QED
    BY <2>1, <2>4, <2>5, <2>6, <2>7, <2>8, <2>9, <2>10, <2>11
       DEF Next, Worker, Frontend, Entrypoint
<1>3. FirstStatusKept => ExitNamesTheCause
  BY DEF FirstStatusKept, ExitNamesTheCause
<1> QED
  BY <1>1, <1>2, <1>3, TypeCorrect, PTL DEF Spec
=============================================================================
