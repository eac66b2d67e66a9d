----------------------------- MODULE Supervisor -----------------------------
(***************************************************************************)
(* The life of one container: entrypoint.sh, the worker's main_async from  *)
(* the bind of its socket to its exit, and the frontend's main from the    *)
(* wait for that socket to its exit.  What the two do for clients in       *)
(* between is the subject of LaStream; here an inference is only the time  *)
(* it still takes.                                                         *)
(*                                                                         *)
(* Time is counted in ticks, and passes only when nothing can be done at   *)
(* once.  A process that has not installed a handler dies of SIGTERM.      *)
(***************************************************************************)
EXTENDS Naturals

CONSTANTS
    GraceTicks,      \* entrypoint.sh: ten turns of half a second
    FlushTicks,      \* main.rs: the sleep after the listener has drained
    ProbeTicks,      \* LA_WORKER_SOCKET_TIMEOUT_SECS
    MaxInference,    \* bound: ticks an inference takes
    MaxInferences    \* bound: inferences of one container

ASSUME TicksAssumption ==
    /\ {GraceTicks, FlushTicks, ProbeTicks, MaxInference} \subseteq Nat \ {0}
    /\ MaxInferences \in Nat

VARIABLES
    bash,         \* the entrypoint
    code,         \* FIRST_EXIT
    worker,       \* the Python process
    workerCode,
    socket,       \* the file at LA_IPC_SOCKET
    frontend,     \* the Rust process
    frontendCode,
    term,         \* processes SIGTERM has been sent to and not yet reached
    busy,         \* ticks left of the running inference, 0 if none runs
    started,      \* inferences begun
    clock         \* what each timer has left

vars == <<bash, code, worker, workerCode, socket, frontend, frontendCode, term, busy,
          started, clock>>
workerVars == <<worker, workerCode, busy>>
frontendVars == <<frontend, frontendCode>>

Processes == {"bash", "worker", "frontend"}
SIGTERM == 143
SIGKILL == 137
EX_TEMPFAIL == 75

WorkerAlive == worker \notin {"exited", "killed"}
FrontendAlive == frontend \notin {"exited", "killed"}

-----------------------------------------------------------------------------
(* The worker.                                                             *)

WorkerExits(status) == worker' = "exited" /\ workerCode' = status /\ busy' = 0

(* A preflight check, the load or the calibration fails. *)
BootFails ==
    /\ worker = "booting"
    /\ WorkerExits(1)
    /\ UNCHANGED <<bash, code, socket, frontendVars, term, started, clock>>

(* A stale file is removed and the socket bound; it accepts from here on. *)
Bind ==
    /\ worker = "booting"
    /\ worker' = "bound" /\ socket' = "live"
    /\ UNCHANGED <<bash, code, workerCode, busy, frontendVars, term, started, clock>>

InstallHandlers ==
    /\ worker = "bound"
    /\ worker' = "serving"
    /\ UNCHANGED <<bash, code, workerCode, busy, socket, frontendVars, term, started, clock>>

(* A handler of the frontend may have its connection to the worker open.   *)
Serves == frontend \in {"serving", "flushing"}

(* A request that is there or still comes, on a connection made before the *)
(* worker closed its listener.                                             *)
Infer ==
    /\ worker \in {"serving", "draining"} /\ Serves /\ busy = 0
    /\ started < MaxInferences
    /\ started' = started + 1
    /\ busy' \in 1..MaxInference
    /\ UNCHANGED <<bash, code, worker, workerCode, socket, frontendVars, term, clock>>

(* The restart after a timeout or an OOM, or a crash: the file stays. *)
WorkerDies ==
    /\ worker \in {"bound", "serving", "draining"}
    /\ \E status \in {EX_TEMPFAIL, 139} : WorkerExits(status)
    /\ UNCHANGED <<bash, code, socket, frontendVars, term, started, clock>>

(* stop.set closes the listener; before the handlers, the default action. *)
WorkerTerm ==
    /\ "worker" \in term
    /\ term' = term \ {"worker"}
    /\ \/ worker \in {"booting", "bound"} /\ WorkerExits(SIGTERM)
       \/ worker = "serving" /\ worker' = "draining" /\ UNCHANGED <<workerCode, busy>>
       \/ worker \in {"draining", "exited", "killed"} /\ UNCHANGED workerVars
    /\ UNCHANGED <<bash, code, socket, frontendVars, started, clock>>

(* wait_closed has seen the last connection end, with its inference; the    *)
(* lock is then free, no thread is left in the executor, and the file is   *)
(* removed.  While the frontend serves, nobody may be connected or somebody.*)
Drained ==
    /\ worker = "draining"
    /\ busy = 0
    /\ WorkerExits(0)
    /\ socket' = "none"
    /\ UNCHANGED <<bash, code, frontendVars, term, started, clock>>

-----------------------------------------------------------------------------
(* The frontend.                                                           *)

FrontendExits(status) == frontend' = "exited" /\ frontendCode' = status

ProbeFileOnly ==
    /\ frontend = "probing"
    /\ socket # "none"
    /\ frontend' = "serving"
    /\ UNCHANGED <<bash, code, workerVars, socket, frontendCode, term, started, clock>>

(* wait_for_socket: the file alone is not enough, a connection must succeed.*)
Probe ==
    /\ frontend = "probing"
    /\ socket = "live" /\ WorkerAlive
    /\ frontend' = "serving"
    /\ UNCHANGED <<bash, code, workerVars, socket, frontendCode, term, started, clock>>

ProbeForever ==
    /\ frontend = "probing" /\ clock.probe = 0
    /\ clock' = [clock EXCEPT !.probe = ProbeTicks]
    /\ UNCHANGED <<bash, code, workerVars, socket, frontendVars, term, started>>

ProbeTimesOut ==
    /\ frontend = "probing" /\ clock.probe = 0
    /\ FrontendExits(1)
    /\ UNCHANGED <<bash, code, workerVars, socket, term, started, clock>>

FrontendDies ==
    /\ frontend \in {"serving", "flushing"}
    /\ FrontendExits(134)
    /\ UNCHANGED <<bash, code, workerVars, socket, term, started, clock>>

(* The handler exists once axum serves. *)
FrontendTerm ==
    /\ "frontend" \in term
    /\ term' = term \ {"frontend"}
    /\ \/ frontend = "probing" /\ FrontendExits(SIGTERM) /\ UNCHANGED clock
       \/ /\ frontend = "serving" /\ frontend' = "flushing"
          /\ clock' = [clock EXCEPT !.flush = FlushTicks]
          /\ UNCHANGED frontendCode
       \/ /\ frontend \in {"flushing", "exited", "killed"}
          /\ UNCHANGED <<frontendVars, clock>>
    /\ UNCHANGED <<bash, code, workerVars, socket, started>>

Flushed ==
    /\ frontend = "flushing" /\ clock.flush = 0
    /\ FrontendExits(0)
    /\ UNCHANGED <<bash, code, workerVars, socket, term, started, clock>>

-----------------------------------------------------------------------------
(* The entrypoint.                                                         *)

(* docker stop: tini -g signals the whole group. *)
DockerStop ==
    /\ bash # "exited" /\ "bash" \notin term
    /\ clock.stop = 1
    /\ clock' = [clock EXCEPT !.stop = 0]
    /\ term' = Processes
    /\ UNCHANGED <<bash, code, workerVars, socket, frontendVars, started>>

EnterGrace(status) ==
    /\ bash' = "grace"
    /\ code' = status
    /\ clock' = [clock EXCEPT !.grace = GraceTicks]

(* The trap forwards the signal and interrupts wait -n; in the loop it only *)
(* forwards.                                                               *)
Trap ==
    /\ "bash" \in term /\ bash # "exited"
    /\ term' = {"worker", "frontend"}
    /\ IF bash = "waiting" THEN EnterGrace(SIGTERM) ELSE UNCHANGED <<bash, code, clock>>
    /\ UNCHANGED <<workerVars, socket, frontendVars, started>>

WaitForBoth ==
    /\ bash = "waiting"
    /\ ~WorkerAlive /\ ~FrontendAlive
    /\ EnterGrace(frontendCode)
    /\ UNCHANGED <<workerVars, socket, frontendVars, term, started>>

(* wait -n returns the status of a child that has ended, and the other one  *)
(* is sent SIGTERM.                                                        *)
ChildEnded ==
    /\ bash = "waiting"
    /\ \/ ~WorkerAlive /\ EnterGrace(workerCode)
       \/ ~FrontendAlive /\ EnterGrace(frontendCode)
    /\ term' = term \union {"worker", "frontend"}
    /\ UNCHANGED <<workerVars, socket, frontendVars, started>>

(* Both are gone, or the ten turns are over and both are killed. *)
KillRemaining ==
    /\ bash = "grace"
    /\ clock.grace = 0 \/ (~WorkerAlive /\ ~FrontendAlive)
    /\ bash' = "exited"
    /\ worker' = IF WorkerAlive THEN "killed" ELSE worker
    /\ workerCode' = IF WorkerAlive THEN SIGKILL ELSE workerCode
    /\ frontend' = IF FrontendAlive THEN "killed" ELSE frontend
    /\ frontendCode' = IF FrontendAlive THEN SIGKILL ELSE frontendCode
    /\ busy' = 0
    /\ UNCHANGED <<socket, term, started, clock>>

ExitWithLastStatus == KillRemaining /\ code' = workerCode'

(* What is reported is what wait -n returned. *)
Exit == KillRemaining /\ UNCHANGED code

-----------------------------------------------------------------------------
(* Half a second passes for everybody who waits.                           *)

Urgent ==
    \/ term # {}
    \/ bash = "waiting" /\ (~WorkerAlive \/ ~FrontendAlive)
    \/ bash = "grace" /\ (clock.grace = 0 \/ (~WorkerAlive /\ ~FrontendAlive))
    \/ worker = "bound"
    \/ worker = "draining" /\ busy = 0 /\ ~Serves
    \/ frontend = "probing" /\ ((socket = "live" /\ WorkerAlive) \/ clock.probe = 0)
    \/ frontend = "flushing" /\ clock.flush = 0

Less(n) == IF n = 0 THEN 0 ELSE n - 1

Tick ==
    /\ bash # "exited" /\ ~Urgent
    /\ busy' = Less(busy)
    /\ clock' = [clock EXCEPT
           !.grace = IF bash = "grace" THEN Less(@) ELSE @,
           !.probe = IF frontend = "probing" THEN Less(@) ELSE @,
           !.flush = IF frontend = "flushing" THEN Less(@) ELSE @]
    /\ UNCHANGED <<bash, code, worker, workerCode, socket, frontendVars, term, started>>

(* rm -f has been tried: the file of an earlier container may be there.  *)
Init ==
    /\ bash = "waiting" /\ code = 0
    /\ worker = "booting" /\ workerCode = 0
    /\ socket \in {"none", "stale"}
    /\ frontend = "probing" /\ frontendCode = 0
    /\ term = {} /\ busy = 0 /\ started = 0
    /\ clock = [grace |-> 0, probe |-> ProbeTicks, flush |-> 0, stop |-> 1]

Worker == BootFails \/ Bind \/ InstallHandlers \/ Infer \/ WorkerDies \/ WorkerTerm \/ Drained
Frontend == Probe \/ ProbeTimesOut \/ FrontendDies \/ FrontendTerm \/ Flushed
Entrypoint == Trap \/ ChildEnded \/ Exit

Next == Worker \/ Frontend \/ Entrypoint \/ DockerStop \/ Tick

Spec == Init /\ [][Next]_vars

(* Processes run and time passes.  The boot may hang, nothing need die and  *)
(* nobody need stop the container; the worker need not end before the      *)
(* frontend.                                                               *)
FairSpec ==
    /\ Spec
    /\ WF_vars(Tick)
    /\ WF_vars(InstallHandlers) /\ WF_vars(WorkerTerm) /\ WF_vars(Drained /\ ~Serves)
    /\ WF_vars(Probe) /\ WF_vars(ProbeTimesOut) /\ WF_vars(FrontendTerm) /\ WF_vars(Flushed)
    /\ WF_vars(Entrypoint)

-----------------------------------------------------------------------------
Codes == {0, 1, EX_TEMPFAIL, 134, SIGKILL, 139, SIGTERM}

TypeOK ==
    /\ bash \in {"waiting", "grace", "exited"} /\ code \in Codes
    /\ worker \in {"booting", "bound", "serving", "draining", "exited", "killed"}
    /\ workerCode \in Codes
    /\ socket \in {"none", "stale", "live"}
    /\ frontend \in {"probing", "serving", "flushing", "exited", "killed"}
    /\ frontendCode \in Codes
    /\ term \subseteq Processes
    /\ busy \in 0..MaxInference /\ started \in 0..MaxInferences
    /\ clock \in [grace : 0..GraceTicks, probe : 0..ProbeTicks, flush : 0..FlushTicks,
                  stop : 0..1]

(* main.rs, "We refuse to serve requests we cannot satisfy": no client can *)
(* reach the frontend while the model is still being loaded, a socket left *)
(* behind by an earlier container or not.                                  *)
NoListenerBeforeModel == frontend \in {"serving", "flushing"} => worker # "booting"

(* entrypoint.sh, "kill the other and propagate the exit code": unless the *)
(* container was stopped it reports a failure that a process came to by    *)
(* itself, as the first to end did, and never how the other one took the   *)
(* SIGTERM or SIGKILL that followed.                                       *)
Untouched == clock.stop = 1

OwnFailures == {1, EX_TEMPFAIL, 134, 139}

ExitNamesTheCause ==
    bash = "exited" /\ Untouched =>
        code \in OwnFailures /\ code \in {workerCode, frontendCode}

(* The end of either process is the end of the container. *)
OneDeathEndsAll == ~WorkerAlive \/ ~FrontendAlive ~> bash = "exited"

(* A worker that fails or hangs while it boots does not leave a container   *)
(* that looks alive and serves nobody.                                     *)
ServesOrEnds == <>(frontend = "serving" \/ bash = "exited")

=============================================================================
