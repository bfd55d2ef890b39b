------------------------------ MODULE WorkerStart ------------------------------
(***************************************************************************)
(* A worker process from its start to its end (cmd/server/main.go), as far *)
(* as the workers share locks: RunMigrations first, and the bridge, whose  *)
(* clean-up loop competes for the cleanup lock, only when that succeeded.  *)
(* A process that fails in between exits (log.Fatal).                      *)
(***************************************************************************)
EXTENDS CleanupLock

CONSTANTS Head, OneShot, Unprivileged, StaleMarks, Old, MaxTrouble

(* What is there before the migration is part of the list of migrations.   *)
ASSUME StartAssumption == Head \in Nat /\ Old \in 0 .. Head /\ MaxTrouble \in Nat

VARIABLES mlock, done, failed, version, dirty, applied, advisory, pc, seen, trouble,
          stale, trusting, forced, overrun

Mig == INSTANCE MigrationLock

migVars == <<mlock, done, failed, version, dirty, applied, advisory, pc, seen, trouble,
             stale, trusting, forced, overrun>>
vars == <<cleanupVars, migVars>>

Init == CleanupInit /\ Mig!MigrationInit

(* bridge.Start().                                                         *)
Launch(w) == pc[w] = "ready" /\ Start(w) /\ UNCHANGED migVars

Migrate == Mig!MigrationNext /\ UNCHANGED cleanupVars

Sweep ==
    /\ \/ Tick
       \/ \E w \in Workers : pc[w] = "ready" /\ Step(w)
    /\ UNCHANGED migVars

Next == Migrate \/ Sweep \/ \E w \in Workers : Launch(w)

(* main.go runs on; see CleanupFairness and MigrationFairness.             *)
Fairness ==
    /\ CleanupFairness /\ Mig!MigrationFairness
    /\ \A w \in Workers : WF_vars(Launch(w))

Spec == Init /\ [][Next]_vars /\ Fairness

-----------------------------------------------------------------------------
(* The type invariants of the two locks.                                   *)
TypeOK == CleanupTypeOK /\ Mig!MigrationTypeOK

(* migrate:lock is a lease: a holder that lost it to its expiry does not   *)
(* free the next one's (releaseLockLua).                                   *)
MigrationIsLease == Mig!MigrationIsLease

(* The schema's version goes back only when the lock expired during a      *)
(* migration (m.Version() before m.Force() in migrate.go).                 *)
VersionGrows == Mig!VersionGrows

(* Every worker's RunMigrations returns, whoever dies holding the lock     *)
(* (waitForMigration's deadline).                                          *)
StartupEnds == Mig!StartupEnds

(* No worker's bridge runs on a schema that is not complete, even when the *)
(* lock expired under the worker that migrates, or it died or failed: the  *)
(* exceptions are a forced version, a mark the previous deployment left    *)
(* and a worker that may not migrate.  (RunMigrations before               *)
(* NewConnectionBridge in main.go; migrate.go:79-135.)                     *)
ServesOnSchema ==
    \A w \in Workers \ trusting :
        life[w] # "new" /\ ~forced => Mig!Complete
================================================================================
