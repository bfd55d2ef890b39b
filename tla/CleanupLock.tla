------------------------------ MODULE CleanupLock ------------------------------
(***************************************************************************)
(* The lock bridge:cleanup_lock (service/bridge.go): of all workers, the   *)
(* one that sets it sweeps the bots without a heartbeat, extends the lock  *)
(* every half TTL while it sweeps, and deletes it by a compare-and-delete. *)
(* What a sweep deletes is in BotRegistry.                                 *)
(*                                                                         *)
(* A worker here is one process; the process that replaces it is another.  *)
(* Time is counted in renewal intervals, so the TTL is Term = 2 of them.   *)
(***************************************************************************)
EXTENDS Naturals

CONSTANTS
    Workers,
    None,
    Term,       \* cleanupLockTTL in renewal intervals
    MaxMissed,  \* bound: renewals that fail or come a whole interval late
    MaxFaults,  \* bound: other commands that fail or whose reply is lost
    Mortal      \* the workers that may crash or be shut down

ASSUME CleanupAssumption ==
    /\ None \notin Workers
    /\ Term \in Nat /\ Term >= 2
    /\ MaxMissed \in Nat /\ MaxFaults \in Nat
    /\ Mortal \subseteq Workers

VARIABLES
    lock, left, \* the key's value and what is left of its TTL
    phase,      \* the worker's doCleanup
    due,        \* its renewal ticker has fired and the script has not run
    life,       \* closing: shuttingDown is set; cancelled: so is the context
    missed, faults

cleanupVars == <<lock, left, phase, due, life, missed, faults>>

CleanupInit ==
    /\ lock = None /\ left = 0
    /\ phase = [w \in Workers |-> "idle"]
    /\ due = [w \in Workers |-> FALSE]
    /\ life = [w \in Workers |-> "new"]
    /\ missed = 0 /\ faults = 0

(* Renewals and the commands of the sweep run under the bridge's context.  *)
Working(w) == life[w] \in {"up", "closing"}
Renewing(w) == phase[w] = "sweep" /\ Working(w)

Start(w) ==
    /\ life[w] = "new"
    /\ life' = [life EXCEPT ![w] = "up"]
    /\ UNCHANGED <<lock, left, phase, due, missed, faults>>

-----------------------------------------------------------------------------
(* MUTANT: without an expiry.                                              *)
AcquireForever(w) ==
    /\ Working(w) /\ phase[w] = "idle" /\ lock = None
    /\ lock' = w /\ left' = 0
    /\ phase' = [phase EXCEPT ![w] = "sweep"]
    /\ UNCHANGED <<due, life, missed, faults>>

(* The ticker of runCleanup fires and SETNX finds no key.  shuttingDown    *)
(* may be set between its check and SETNX, hence Working and not up.       *)
Acquire(w) ==
    /\ Working(w) /\ phase[w] = "idle" /\ lock = None
    /\ lock' = w /\ left' = Term
    /\ phase' = [phase EXCEPT ![w] = "sweep"]
    /\ UNCHANGED <<due, life, missed, faults>>

(* SETNX set the key and its reply was lost: the error is dropped and the  *)
(* worker takes the lock for another's.  (A SETNX that failed altogether   *)
(* changes nothing.)                                                       *)
AcquireUnheard(w) ==
    /\ Working(w) /\ phase[w] = "idle" /\ lock = None
    /\ faults < MaxFaults /\ faults' = faults + 1
    /\ lock' = w /\ left' = Term
    /\ UNCHANGED <<phase, due, life, missed>>

(* The extend script; a lock that is gone or another's is left as it is,   *)
(* and the worker is not told.                                             *)
Renew(w) ==
    /\ Renewing(w) /\ due[w]
    /\ due' = [due EXCEPT ![w] = FALSE]
    /\ left' = IF lock = w THEN Term ELSE left
    /\ UNCHANGED <<lock, phase, life, missed, faults>>

(* The script failed: a warning, and the ticker is waited for again.       *)
RenewFails(w) ==
    /\ Renewing(w) /\ due[w]
    /\ missed < MaxMissed /\ missed' = missed + 1
    /\ due' = [due EXCEPT ![w] = FALSE]
    /\ UNCHANGED <<lock, left, phase, life, faults>>

(* The sweep is over: the renewer is stopped and waited for.               *)
Finish(w) ==
    /\ phase[w] = "sweep"
    /\ phase' = [phase EXCEPT ![w] = "release"]
    /\ due' = [due EXCEPT ![w] = FALSE]
    /\ UNCHANGED <<lock, left, life, missed, faults>>

(* MUTANT: released by a plain DEL.                                        *)
ReleaseUnchecked(w) ==
    /\ phase[w] = "release"
    /\ phase' = [phase EXCEPT ![w] = "idle"]
    /\ lock' = None /\ left' = 0
    /\ UNCHANGED <<due, life, missed, faults>>

(* The release script has a context of its own: it runs after a shutdown   *)
(* has cancelled the bridge's.                                             *)
Release(w) ==
    /\ phase[w] = "release"
    /\ phase' = [phase EXCEPT ![w] = "idle"]
    /\ lock' = IF lock = w THEN None ELSE lock
    /\ left' = IF lock = w THEN 0 ELSE left
    /\ UNCHANGED <<due, life, missed, faults>>

ReleaseFails(w) ==
    /\ phase[w] = "release"
    /\ faults < MaxFaults /\ faults' = faults + 1
    /\ phase' = [phase EXCEPT ![w] = "idle"]
    /\ UNCHANGED <<lock, left, due, life, missed>>

-----------------------------------------------------------------------------
(* Shutdown sets shuttingDown, and cancels the context once the bots' keys *)
(* are removed; the process ends when the goroutines have.                 *)
Close(w) ==
    /\ w \in Mortal /\ life[w] = "up"
    /\ life' = [life EXCEPT ![w] = "closing"]
    /\ UNCHANGED <<lock, left, phase, due, missed, faults>>

Cancel(w) ==
    /\ life[w] = "closing"
    /\ life' = [life EXCEPT ![w] = "cancelled"]
    /\ due' = [due EXCEPT ![w] = FALSE]
    /\ UNCHANGED <<lock, left, phase, missed, faults>>

Exit(w) ==
    /\ life[w] = "cancelled" /\ phase[w] = "idle"
    /\ life' = [life EXCEPT ![w] = "down"]
    /\ UNCHANGED <<lock, left, phase, due, missed, faults>>

Crash(w) ==
    /\ w \in Mortal /\ life[w] # "down"
    /\ life' = [life EXCEPT ![w] = "down"]
    /\ phase' = [phase EXCEPT ![w] = "idle"]
    /\ due' = [due EXCEPT ![w] = FALSE]
    /\ UNCHANGED <<lock, left, missed, faults>>

(* MUTANT: renewed every TTL instead of every half of it.                  *)
TickSlow ==
    /\ lock # None
    /\ left' = left - 1
    /\ lock' = IF left = 1 THEN None ELSE lock
    /\ due' = [w \in Workers |-> Renewing(w) /\ left = 1]
    /\ UNCHANGED <<phase, life, missed, faults>>

(* A renewal interval passes.  The tickers fire; a renewal of the holder   *)
(* that has waited for the whole interval counts as missed.                *)
Tick ==
    /\ lock # None /\ left > 0
    /\ left' = left - 1
    /\ lock' = IF left = 1 THEN None ELSE lock
    /\ missed' = IF due[lock] THEN missed + 1 ELSE missed
    /\ missed' <= MaxMissed
    /\ due' = [w \in Workers |-> Renewing(w)]
    /\ UNCHANGED <<phase, life, faults>>

Step(w) ==
    \/ Acquire(w) \/ AcquireUnheard(w) \/ Renew(w) \/ RenewFails(w)
    \/ Finish(w) \/ Release(w) \/ ReleaseFails(w)
    \/ Close(w) \/ Cancel(w) \/ Exit(w) \/ Crash(w)

CleanupNext == Tick \/ \E w \in Workers : Start(w) \/ Step(w)

CleanupSpec == CleanupInit /\ [][CleanupNext]_cleanupVars

(* The tickers fire, commands are answered, sweeps end.                    *)
CleanupFairness ==
    /\ WF_cleanupVars(Tick)
    /\ \A w \in Workers :
        /\ WF_cleanupVars(life[w] = "up" /\ Acquire(w)) /\ WF_cleanupVars(Renew(w))
        /\ WF_cleanupVars(Finish(w)) /\ WF_cleanupVars(Release(w))
        /\ WF_cleanupVars(Cancel(w)) /\ WF_cleanupVars(Exit(w))

-----------------------------------------------------------------------------
(* The shapes of the variables.                                            *)
CleanupTypeOK ==
    /\ lock \in Workers \cup {None} /\ left \in 0 .. Term
    /\ phase \in [Workers -> {"idle", "sweep", "release"}]
    /\ due \in [Workers -> BOOLEAN]
    /\ life \in [Workers -> {"new", "up", "closing", "cancelled", "down"}]
    /\ missed \in 0 .. MaxMissed /\ faults \in 0 .. MaxFaults

(* bridge:cleanup_lock is a lease: no worker frees or extends another's,   *)
(* whatever fails, however late a release comes.  (bridge.go: the two      *)
(* scripts compare the value with the worker's id.)                        *)
Locked == INSTANCE Lease WITH
    Clients <- Workers, holder <- lock,
    believers <- {w \in Workers : phase[w] # "idle"}

CleanupIsLease == Locked!LeaseSpec

(* Two workers sweep at the same time only after the renewer of one of     *)
(* them missed a renewal: neither lost replies nor failed releases nor a   *)
(* shutdown or a crash in the middle of a sweep can do it.  (doCleanup's   *)
(* competition for the lock, bridge.go:253.)                               *)
OneSweeper ==
    missed = 0 => \A v, w \in Workers : Renewing(v) /\ Renewing(w) => v = w

(* As long as some worker stays up, bots without a heartbeat are swept     *)
(* again and again: a lock whose holder died runs out.                     *)
SweepsGoOn ==
    \A w \in Workers : <>[](life[w] = "up") => []<>(\E v \in Workers : phase[v] = "sweep")
================================================================================
