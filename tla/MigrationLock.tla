----------------------------- MODULE MigrationLock -----------------------------
(***************************************************************************)
(* RunMigrations (infra/migrate.go), the part of a worker's start in which *)
(* the workers agree, through a lock and two marks in Redis, on one of     *)
(* them to bring the schema up to date.                                    *)
(*                                                                         *)
(* The library golang-migrate keeps the schema's version and a dirty flag  *)
(* in the database and takes a MySQL advisory lock for Force and for Up.   *)
(* Up marks version i dirty, runs migration i, and marks i clean: a        *)
(* process that ends or a statement that fails in between leaves i dirty.  *)
(*                                                                         *)
(* A worker is one process: a restart is the start of another one.         *)
(***************************************************************************)
EXTENDS Naturals

CONSTANTS
    Workers,
    None,
    Head,         \* the newest migration
    OneShot,      \* migrations that fail when their effect is already there
    Unprivileged, \* workers whose database user may lack DDL privileges
    StaleMarks,   \* a mark of the previous deployment may still be there
    Old,          \* the version the previous deployment left
    MaxTrouble    \* bound: crashes, failing commands and failing migrations

VARIABLES
    mlock,        \* migrate:lock
    done, failed, \* migrate:done and migrate:failed exist
    version, dirty, \* the schema_migrations row
    applied,      \* the migrations whose statements have all taken effect
    advisory,     \* the holder of the database's lock
    pc,           \* the worker's next step in RunMigrations
    seen,         \* the version its m.Version() returned
    trouble,
    stale,        \* history: migrate:done was set by the previous deployment
    trusting,     \* history: workers that went on without knowing the schema
    forced,       \* history: a Force has run
    overrun       \* history: the lock expired under its holder

keys == <<mlock, done, failed, stale>>
schema == <<version, dirty, applied>>
hist == <<trusting, forced, overrun>>
migrationVars == <<keys, schema, advisory, pc, seen, trouble, hist>>

(* Marks of the previous deployment are those of its own, shorter list.    *)
MigrationInit ==
    /\ mlock = None /\ advisory = None
    /\ done \in (IF StaleMarks THEN BOOLEAN ELSE {FALSE})
    /\ failed \in (IF StaleMarks THEN BOOLEAN ELSE {FALSE})
    /\ stale = done
    /\ version = Old /\ dirty = FALSE /\ applied = 1 .. Old
    /\ pc = [w \in Workers |-> "new"]
    /\ seen = [w \in Workers |-> 0]
    /\ trouble = 0
    /\ trusting = {} /\ forced = FALSE /\ overrun = FALSE

Goto(w, s) == pc' = [pc EXCEPT ![w] = s]
Trouble == trouble < MaxTrouble /\ trouble' = trouble + 1

(* Privileges are detected; without DDL privileges the worker goes on with *)
(* the schema as it is.  Making the library's driver takes the database's  *)
(* lock for a moment, and fails when that is not free in time.             *)
Detect(w) ==
    /\ pc[w] = "new"
    /\ \/ w \in Unprivileged /\ Goto(w, "ready") /\ trusting' = trusting \cup {w}
       \/ advisory = None /\ Goto(w, "lock") /\ UNCHANGED trusting
    /\ UNCHANGED <<keys, schema, advisory, seen, trouble, forced, overrun>>

DetectFails(w) ==
    /\ pc[w] = "new"
    /\ IF advisory # None THEN UNCHANGED trouble ELSE Trouble
    /\ Goto(w, "failed")
    /\ UNCHANGED <<keys, schema, advisory, seen, hist>>

(* MUTANT: going on whether or not the lock was acquired.                  *)
TryLockIgnored(w) ==
    /\ pc[w] = "lock"
    /\ mlock' = IF mlock = None THEN w ELSE mlock
    /\ Goto(w, "version")
    /\ UNCHANGED <<done, failed, stale, schema, advisory, seen, trouble, hist>>

(* SETNX; an error, its reply lost included, is fatal.                     *)
TryLock(w) ==
    /\ pc[w] = "lock"
    /\ mlock' = IF mlock = None THEN w ELSE mlock
    /\ Goto(w, IF mlock = None THEN "version" ELSE "wait")
    /\ UNCHANGED <<done, failed, stale, schema, advisory, seen, trouble, hist>>

TryLockFails(w) ==
    /\ pc[w] = "lock" /\ Trouble
    /\ mlock' \in {mlock, IF mlock = None THEN w ELSE mlock}
    /\ Goto(w, "failed")
    /\ UNCHANGED <<done, failed, stale, schema, advisory, seen, hist>>

(* m.Version() takes no lock of the database's.                            *)
ReadVersion(w) ==
    /\ pc[w] = "version"
    /\ seen' = [seen EXCEPT ![w] = version]
    /\ Goto(w, IF dirty THEN "force" ELSE "up")
    /\ UNCHANGED <<keys, schema, advisory, trouble, hist>>

ReadVersionFails(w) ==
    /\ pc[w] = "version" /\ Trouble
    /\ Goto(w, "abort")
    /\ UNCHANGED <<keys, schema, advisory, seen, hist>>

(* m.Force(version) declares the version clean, under the database's lock. *)
Force(w) ==
    /\ pc[w] = "force" /\ advisory = None
    /\ version' = seen[w] /\ dirty' = FALSE
    /\ forced' = TRUE
    /\ Goto(w, "up")
    /\ UNCHANGED <<keys, applied, advisory, seen, trouble, trusting, overrun>>

(* Waiting for the database's lock ends after the library's timeout.       *)
ForceTimesOut(w) ==
    /\ pc[w] = "force" /\ advisory \notin {None, w}
    /\ Goto(w, "abort")
    /\ UNCHANGED <<keys, schema, advisory, seen, trouble, hist>>

-----------------------------------------------------------------------------
(* m.Up(): a dirty version is an error, the newest one is ErrNoChange,     *)
(* which runMigrate takes for success.                                     *)
Up(w) ==
    /\ pc[w] = "up" /\ advisory = None
    /\ IF dirty \/ version = Head
         THEN Goto(w, IF dirty THEN "markfailed" ELSE "mark") /\ UNCHANGED advisory
         ELSE Goto(w, "begin") /\ advisory' = w
    /\ UNCHANGED <<keys, schema, seen, trouble, hist>>

UpTimesOut(w) ==
    /\ pc[w] = "up" /\ advisory \notin {None, w}
    /\ Goto(w, "markfailed")
    /\ UNCHANGED <<keys, schema, advisory, seen, trouble, hist>>

BeginMigration(w) ==
    /\ pc[w] = "begin"
    /\ version' = version + 1 /\ dirty' = TRUE
    /\ Goto(w, "run")
    /\ UNCHANGED <<keys, applied, advisory, seen, trouble, hist>>

RunMigration(w) ==
    /\ pc[w] = "run" /\ ~(version \in OneShot /\ version \in applied)
    /\ applied' = applied \cup {version}
    /\ Goto(w, "clean")
    /\ UNCHANGED <<keys, version, dirty, advisory, seen, trouble, hist>>

RunMigrationFails(w) ==
    /\ pc[w] = "run"
    /\ IF version \in OneShot /\ version \in applied THEN UNCHANGED trouble ELSE Trouble
    /\ advisory' = None
    /\ Goto(w, "markfailed")
    /\ UNCHANGED <<keys, schema, seen, hist>>

(* MUTANT: one migration more than there are.                              *)
EndMigrationLate(w) ==
    /\ pc[w] = "clean"
    /\ dirty' = FALSE
    /\ advisory' = IF version > Head THEN None ELSE advisory
    /\ Goto(w, IF version > Head THEN "mark" ELSE "begin")
    /\ UNCHANGED <<keys, version, applied, seen, trouble, hist>>

EndMigration(w) ==
    /\ pc[w] = "clean"
    /\ dirty' = FALSE
    /\ advisory' = IF version = Head THEN None ELSE advisory
    /\ Goto(w, IF version = Head THEN "mark" ELSE "begin")
    /\ UNCHANGED <<keys, version, applied, seen, trouble, hist>>

-----------------------------------------------------------------------------
(* The results of the SETs of the marks and of the release are dropped.    *)
MarkDone(w) ==
    /\ pc[w] = "mark"
    /\ done' = TRUE /\ stale' = FALSE
    /\ Goto(w, "release")
    /\ UNCHANGED <<mlock, failed, schema, advisory, seen, trouble, hist>>

MarkFailed(w) ==
    /\ pc[w] = "markfailed"
    /\ failed' = TRUE
    /\ Goto(w, "abort")
    /\ UNCHANGED <<mlock, done, stale, schema, advisory, seen, trouble, hist>>

MarkLost(w) ==
    /\ pc[w] \in {"mark", "markfailed"} /\ Trouble
    /\ Goto(w, IF pc[w] = "mark" THEN "release" ELSE "abort")
    /\ UNCHANGED <<keys, schema, advisory, seen, hist>>

After(w) == IF pc[w] = "release" THEN "ready" ELSE "failed"

(* MUTANT: unlocked by a plain DEL.                                        *)
UnlockUnchecked(w) ==
    /\ pc[w] \in {"release", "abort"}
    /\ mlock' = None
    /\ Goto(w, After(w))
    /\ UNCHANGED <<done, failed, stale, schema, advisory, seen, trouble, hist>>

Unlock(w) ==
    /\ pc[w] \in {"release", "abort"}
    /\ mlock' = IF mlock = w THEN None ELSE mlock
    /\ Goto(w, After(w))
    /\ UNCHANGED <<done, failed, stale, schema, advisory, seen, trouble, hist>>

UnlockFails(w) ==
    /\ pc[w] \in {"release", "abort"} /\ Trouble
    /\ Goto(w, After(w))
    /\ UNCHANGED <<keys, schema, advisory, seen, hist>>

-----------------------------------------------------------------------------
(* MUTANT: a waiter that takes a free lock for the end of the migration.   *)
SeeUnlocked(w) ==
    /\ pc[w] = "wait" /\ (done \/ mlock = None)
    /\ trusting' = IF stale THEN trusting \cup {w} ELSE trusting
    /\ Goto(w, "ready")
    /\ UNCHANGED <<keys, schema, advisory, seen, trouble, forced, overrun>>

(* waitForMigration polls: migrate:done first, then migrate:failed.        *)
SeeDone(w) ==
    /\ pc[w] = "wait" /\ done
    /\ trusting' = IF stale THEN trusting \cup {w} ELSE trusting
    /\ Goto(w, "ready")
    /\ UNCHANGED <<keys, schema, advisory, seen, trouble, forced, overrun>>

SeeFailed(w) ==
    /\ pc[w] = "wait" /\ ~done /\ failed
    /\ Goto(w, "failed")
    /\ UNCHANGED <<keys, schema, advisory, seen, trouble, hist>>

(* MUTANT: without a deadline.                                             *)
WaitOn(w) == pc[w] = "wait" /\ UNCHANGED migrationVars

WaitTimesOut(w) ==
    /\ pc[w] = "wait"
    /\ Goto(w, "failed")
    /\ UNCHANGED <<keys, schema, advisory, seen, trouble, hist>>

(* The Redis keys expire: the lock after a minute, which is under its      *)
(* holder if the migration takes longer or the holder is gone.             *)
LockExpires ==
    /\ mlock # None
    /\ mlock' = None
    /\ overrun' = (overrun \/ pc[mlock] \notin {"ready", "failed", "dead"})
    /\ UNCHANGED <<done, failed, stale, schema, advisory, pc, seen, trouble, trusting, forced>>

MarkExpires ==
    /\ \/ done /\ done' = FALSE /\ stale' = FALSE /\ UNCHANGED failed
       \/ failed /\ failed' = FALSE /\ UNCHANGED <<done, stale>>
    /\ UNCHANGED <<mlock, schema, advisory, pc, seen, trouble, hist>>

(* The process ends; the database frees its lock with the connection.      *)
Die(w) ==
    /\ pc[w] \notin {"new", "ready", "failed", "dead"} /\ Trouble
    /\ advisory' = IF advisory = w THEN None ELSE advisory
    /\ Goto(w, "dead")
    /\ UNCHANGED <<keys, schema, seen, hist>>

-----------------------------------------------------------------------------
Proceed(w) ==
    \/ TryLock(w) \/ ReadVersion(w) \/ Force(w) \/ ForceTimesOut(w)
    \/ Up(w) \/ UpTimesOut(w)
    \/ BeginMigration(w) \/ RunMigration(w) \/ RunMigrationFails(w) \/ EndMigration(w)
    \/ MarkDone(w) \/ MarkFailed(w) \/ Unlock(w)
    \/ SeeDone(w) \/ SeeFailed(w) \/ WaitTimesOut(w)

Stumble(w) ==
    DetectFails(w) \/ TryLockFails(w) \/ ReadVersionFails(w) \/ MarkLost(w) \/ UnlockFails(w) \/ Die(w)

MigrationNext ==
    \/ \E w \in Workers : Detect(w) \/ Proceed(w) \/ Stumble(w)
    \/ LockExpires \/ MarkExpires

MigrationSpec == MigrationInit /\ [][MigrationNext]_migrationVars

(* A process that runs takes its next step, and every wait has a deadline. *)
MigrationFairness == \A w \in Workers : WF_migrationVars(Proceed(w))

-----------------------------------------------------------------------------
(* The shapes of the variables.                                            *)
MigrationTypeOK ==
    /\ mlock \in Workers \cup {None} /\ advisory \in Workers \cup {None}
    /\ {done, failed, dirty, stale, forced, overrun} \subseteq BOOLEAN
    /\ version \in 0 .. Head /\ applied \subseteq 1 .. Head
    /\ trusting \subseteq Workers /\ trouble \in 0 .. MaxTrouble
    /\ seen \in [Workers -> 0 .. Head]
    /\ pc \in [Workers -> {"new", "lock", "version", "force", "up", "begin", "run",
                           "clean", "mark", "markfailed", "release", "abort", "wait",
                           "ready", "failed", "dead"}]

(* migrate:lock is a lease too: a holder that lost it to its expiry does   *)
(* not free the next one's.                                                *)
Locked == INSTANCE Lease WITH
    Clients <- Workers, Term <- 1, holder <- mlock,
    left <- IF mlock = None THEN 0 ELSE 1,
    believers <- {w \in Workers : pc[w] \notin {"new", "lock", "wait", "ready", "failed", "dead"}}

MigrationIsLease == Locked!LeaseSpec

Complete == version = Head /\ ~dirty /\ applied = 1 .. Head

(* The recorded version goes back only when the lock expired during a      *)
(* migration: Force writes the version that was read before the database's *)
(* lock was waited for (migrate.go:84, 91).                                *)
VersionGrows == [][version' < version => overrun]_version

(* Every worker's start comes to an end, whoever dies holding the lock:    *)
(* waitForMigration's deadline.                                            *)
StartupEnds ==
    \A w \in Workers : pc[w] = "lock" ~> pc[w] \in {"ready", "failed", "dead"}

(* "Database in dirty state, forcing version to retry" (migrate.go:90): a  *)
(* migration that was cut short is run again before a worker serves.       *)
ForcedIsRetried ==
    \A w \in Workers \ trusting :
        pc[w] = "ready" /\ ~overrun => applied = 1 .. Head
================================================================================
