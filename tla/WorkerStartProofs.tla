--------------------------- MODULE WorkerStartProofs ---------------------------
(***************************************************************************)
(* For any number of workers and migrations: both locks of the workers'    *)
(* start are leases, also beside each other; the recorded version of the   *)
(* schema goes back only after the lock expired under its holder; and no   *)
(* worker serves on an incomplete schema outside the named exceptions.     *)
(***************************************************************************)
EXTENDS WorkerStart, CleanupLockProofs

(* The workers between the acquisition of migrate:lock and its release.    *)
Migrating == {w \in Workers : pc[w] \notin {"new", "lock", "wait", "ready", "failed", "dead"}}

(* The database's lock is with the worker that runs a migration, who finds *)
(* the row as it left it: nobody else writes it meanwhile.                 *)
Advised ==
    \A w \in Workers :
        /\ pc[w] \in {"begin", "run", "clean"} <=> advisory = w
        /\ pc[w] = "begin" => version < Head /\ ~dirty
        /\ pc[w] \in {"run", "clean"} => version > 0 /\ dirty
        /\ pc[w] = "clean" => version \in applied

(* Until the lock expires under its holder, who migrates has it, and the   *)
(* version it read for Force is still the one in the database.             *)
Exclusive ==
    ~overrun =>
        /\ \A w \in Migrating : mlock = w
        /\ \A w \in Workers : pc[w] = "force" => seen[w] = version

(* Until a Force, every migration up to the version was run, and who got   *)
(* past Up, or saw the mark of someone who did, has the whole schema.      *)
Ran ==
    ~forced =>
        /\ 1 .. (IF dirty THEN version - 1 ELSE version) \subseteq applied
        /\ done /\ ~stale => Mig!Complete
        /\ \A w \in Workers : pc[w] \in {"mark", "release"} => Mig!Complete
        /\ \A w \in Workers \ trusting : pc[w] = "ready" => Mig!Complete

(* The bridge of a worker begins after its RunMigrations returned.         *)
Launched == \A w \in Workers : life[w] # "new" => pc[w] = "ready"

StartInv == TypeOK /\ Advised /\ Exclusive /\ Ran /\ Launched

-----------------------------------------------------------------------------
(* The migration.                                                          *)
LEMMA MigTypeStep ==
    Mig!MigrationTypeOK /\ Advised /\ [Mig!MigrationNext]_migVars => Mig!MigrationTypeOK'
<1> SUFFICES ASSUME Mig!MigrationTypeOK, Advised, [Mig!MigrationNext]_migVars
             PROVE  Mig!MigrationTypeOK'
  OBVIOUS
<1> USE StartAssumption, CleanupAssumption
    DEF Mig!MigrationTypeOK, Mig!Goto, Mig!After, Mig!Trouble, Mig!keys,
      Mig!schema, Mig!hist, Advised
<1>1. ASSUME NEW w \in Workers, Mig!Detect(w) \/ Mig!Proceed(w) \/ Mig!Stumble(w)
      PROVE  Mig!MigrationTypeOK'
  <2>1. CASE Mig!Detect(w)
    BY <2>1 DEF Mig!Detect
  <2>2. CASE Mig!DetectFails(w)
    BY <2>2 DEF Mig!DetectFails
  <2>3. CASE Mig!TryLock(w)
    BY <2>3 DEF Mig!TryLock
  <2>4. CASE Mig!TryLockFails(w)
    BY <2>4 DEF Mig!TryLockFails
  <2>5. CASE Mig!ReadVersion(w)
    BY <2>5 DEF Mig!ReadVersion
  <2>6. CASE Mig!ReadVersionFails(w)
    BY <2>6 DEF Mig!ReadVersionFails
  <2>7. CASE Mig!Force(w)
    BY <2>7 DEF Mig!Force
  <2>8. CASE Mig!ForceTimesOut(w)
    BY <2>8 DEF Mig!ForceTimesOut
  <2>9. CASE Mig!Up(w)
    BY <2>9 DEF Mig!Up
  <2>10. CASE Mig!UpTimesOut(w)
    BY <2>10 DEF Mig!UpTimesOut
  <2>11. CASE Mig!BeginMigration(w)
    BY <2>11 DEF Mig!BeginMigration
  <2>12. CASE Mig!RunMigration(w)
    BY <2>12 DEF Mig!RunMigration
  <2>13. CASE Mig!RunMigrationFails(w)
    BY <2>13 DEF Mig!RunMigrationFails
  <2>14. CASE Mig!EndMigration(w)
    BY <2>14 DEF Mig!EndMigration
  <2>15. CASE Mig!MarkDone(w)
    BY <2>15 DEF Mig!MarkDone
  <2>16. CASE Mig!MarkFailed(w)
    BY <2>16 DEF Mig!MarkFailed
  <2>17. CASE Mig!MarkLost(w)
    BY <2>17 DEF Mig!MarkLost
  <2>18. CASE Mig!Unlock(w)
    BY <2>18 DEF Mig!Unlock
  <2>19. CASE Mig!UnlockFails(w)
    BY <2>19 DEF Mig!UnlockFails
  <2>20. CASE Mig!SeeDone(w)
    BY <2>20 DEF Mig!SeeDone
  <2>21. CASE Mig!SeeFailed(w)
    BY <2>21 DEF Mig!SeeFailed
  <2>22. CASE Mig!WaitTimesOut(w)
    BY <2>22 DEF Mig!WaitTimesOut
  <2>23. CASE Mig!Die(w)
    BY <2>23 DEF Mig!Die
  <2> QED
    BY <1>1, <2>1, <2>2, <2>3, <2>4, <2>5, <2>6, <2>7, <2>8, <2>9, <2>10,
      <2>11, <2>12, <2>13, <2>14, <2>15, <2>16, <2>17, <2>18, <2>19, <2>20,
      <2>21, <2>22, <2>23 DEF Mig!Proceed, Mig!Stumble
<1>2. CASE Mig!LockExpires
  BY <1>2 DEF Mig!LockExpires
<1>3. CASE Mig!MarkExpires
  BY <1>3 DEF Mig!MarkExpires
<1>4. CASE UNCHANGED migVars
  BY <1>4 DEF migVars
<1> QED
  BY <1>1, <1>2, <1>3, <1>4 DEF Mig!MigrationNext
LEMMA AdvisedStep ==
    Mig!MigrationTypeOK /\ Advised /\ [Mig!MigrationNext]_migVars => Advised'
<1> SUFFICES ASSUME Mig!MigrationTypeOK, Advised, [Mig!MigrationNext]_migVars
             PROVE  Advised'
  OBVIOUS
<1> USE StartAssumption, CleanupAssumption
    DEF Mig!MigrationTypeOK, Mig!Goto, Mig!After, Mig!Trouble, Mig!keys,
      Mig!schema, Mig!hist, Advised
<1>1. ASSUME NEW w \in Workers, Mig!Detect(w) \/ Mig!Proceed(w) \/ Mig!Stumble(w)
      PROVE  Advised'
  <2>1. CASE Mig!Detect(w)
    BY <2>1 DEF Mig!Detect
  <2>2. CASE Mig!DetectFails(w)
    BY <2>2 DEF Mig!DetectFails
  <2>3. CASE Mig!TryLock(w)
    BY <2>3 DEF Mig!TryLock
  <2>4. CASE Mig!TryLockFails(w)
    BY <2>4 DEF Mig!TryLockFails
  <2>5. CASE Mig!ReadVersion(w)
    BY <2>5 DEF Mig!ReadVersion
  <2>6. CASE Mig!ReadVersionFails(w)
    BY <2>6 DEF Mig!ReadVersionFails
  <2>7. CASE Mig!Force(w)
    BY <2>7 DEF Mig!Force
  <2>8. CASE Mig!ForceTimesOut(w)
    BY <2>8 DEF Mig!ForceTimesOut
  <2>9. CASE Mig!Up(w)
    BY <2>9 DEF Mig!Up
  <2>10. CASE Mig!UpTimesOut(w)
    BY <2>10 DEF Mig!UpTimesOut
  <2>11. CASE Mig!BeginMigration(w)
    BY <2>11 DEF Mig!BeginMigration
  <2>12. CASE Mig!RunMigration(w)
    BY <2>12 DEF Mig!RunMigration
  <2>13. CASE Mig!RunMigrationFails(w)
    BY <2>13 DEF Mig!RunMigrationFails
  <2>14. CASE Mig!EndMigration(w)
    BY <2>14 DEF Mig!EndMigration
  <2>15. CASE Mig!MarkDone(w)
    BY <2>15 DEF Mig!MarkDone
  <2>16. CASE Mig!MarkFailed(w)
    BY <2>16 DEF Mig!MarkFailed
  <2>17. CASE Mig!MarkLost(w)
    BY <2>17 DEF Mig!MarkLost
  <2>18. CASE Mig!Unlock(w)
    BY <2>18 DEF Mig!Unlock
  <2>19. CASE Mig!UnlockFails(w)
    BY <2>19 DEF Mig!UnlockFails
  <2>20. CASE Mig!SeeDone(w)
    BY <2>20 DEF Mig!SeeDone
  <2>21. CASE Mig!SeeFailed(w)
    BY <2>21 DEF Mig!SeeFailed
  <2>22. CASE Mig!WaitTimesOut(w)
    BY <2>22 DEF Mig!WaitTimesOut
  <2>23. CASE Mig!Die(w)
    BY <2>23 DEF Mig!Die
  <2> QED
    BY <1>1, <2>1, <2>2, <2>3, <2>4, <2>5, <2>6, <2>7, <2>8, <2>9, <2>10,
      <2>11, <2>12, <2>13, <2>14, <2>15, <2>16, <2>17, <2>18, <2>19, <2>20,
      <2>21, <2>22, <2>23 DEF Mig!Proceed, Mig!Stumble
<1>2. CASE Mig!LockExpires
  BY <1>2 DEF Mig!LockExpires
<1>3. CASE Mig!MarkExpires
  BY <1>3 DEF Mig!MarkExpires
<1>4. CASE UNCHANGED migVars
  BY <1>4 DEF migVars
<1> QED
  BY <1>1, <1>2, <1>3, <1>4 DEF Mig!MigrationNext
LEMMA ExclusiveStep ==
    Mig!MigrationTypeOK /\ Exclusive /\ [Mig!MigrationNext]_migVars => Exclusive'
<1> SUFFICES ASSUME Mig!MigrationTypeOK, Exclusive, [Mig!MigrationNext]_migVars
             PROVE  Exclusive'
  OBVIOUS
<1> USE StartAssumption, CleanupAssumption
    DEF Mig!MigrationTypeOK, Mig!Goto, Mig!After, Mig!Trouble, Mig!keys,
      Mig!schema, Mig!hist, Exclusive, Migrating
<1>1. ASSUME NEW w \in Workers, Mig!Detect(w) \/ Mig!Proceed(w) \/ Mig!Stumble(w)
      PROVE  Exclusive'
  <2>1. CASE Mig!Detect(w)
    BY <2>1 DEF Mig!Detect
  <2>2. CASE Mig!DetectFails(w)
    BY <2>2 DEF Mig!DetectFails
  <2>3. CASE Mig!TryLock(w)
    BY <2>3 DEF Mig!TryLock
  <2>4. CASE Mig!TryLockFails(w)
    BY <2>4 DEF Mig!TryLockFails
  <2>5. CASE Mig!ReadVersion(w)
    BY <2>5 DEF Mig!ReadVersion
  <2>6. CASE Mig!ReadVersionFails(w)
    BY <2>6 DEF Mig!ReadVersionFails
  <2>7. CASE Mig!Force(w)
    BY <2>7 DEF Mig!Force
  <2>8. CASE Mig!ForceTimesOut(w)
    BY <2>8 DEF Mig!ForceTimesOut
  <2>9. CASE Mig!Up(w)
    BY <2>9 DEF Mig!Up
  <2>10. CASE Mig!UpTimesOut(w)
    BY <2>10 DEF Mig!UpTimesOut
  <2>11. CASE Mig!BeginMigration(w)
    BY <2>11 DEF Mig!BeginMigration
  <2>12. CASE Mig!RunMigration(w)
    BY <2>12 DEF Mig!RunMigration
  <2>13. CASE Mig!RunMigrationFails(w)
    BY <2>13 DEF Mig!RunMigrationFails
  <2>14. CASE Mig!EndMigration(w)
    BY <2>14 DEF Mig!EndMigration
  <2>15. CASE Mig!MarkDone(w)
    BY <2>15 DEF Mig!MarkDone
  <2>16. CASE Mig!MarkFailed(w)
    BY <2>16 DEF Mig!MarkFailed
  <2>17. CASE Mig!MarkLost(w)
    BY <2>17 DEF Mig!MarkLost
  <2>18. CASE Mig!Unlock(w)
    BY <2>18 DEF Mig!Unlock
  <2>19. CASE Mig!UnlockFails(w)
    BY <2>19 DEF Mig!UnlockFails
  <2>20. CASE Mig!SeeDone(w)
    BY <2>20 DEF Mig!SeeDone
  <2>21. CASE Mig!SeeFailed(w)
    BY <2>21 DEF Mig!SeeFailed
  <2>22. CASE Mig!WaitTimesOut(w)
    BY <2>22 DEF Mig!WaitTimesOut
  <2>23. CASE Mig!Die(w)
    BY <2>23 DEF Mig!Die
  <2> QED
    BY <1>1, <2>1, <2>2, <2>3, <2>4, <2>5, <2>6, <2>7, <2>8, <2>9, <2>10,
      <2>11, <2>12, <2>13, <2>14, <2>15, <2>16, <2>17, <2>18, <2>19, <2>20,
      <2>21, <2>22, <2>23 DEF Mig!Proceed, Mig!Stumble
<1>2. CASE Mig!LockExpires
  BY <1>2 DEF Mig!LockExpires
<1>3. CASE Mig!MarkExpires
  BY <1>3 DEF Mig!MarkExpires
<1>4. CASE UNCHANGED migVars
  BY <1>4 DEF migVars
<1> QED
  BY <1>1, <1>2, <1>3, <1>4 DEF Mig!MigrationNext
LEMMA RanStep ==
    Mig!MigrationTypeOK /\ Advised /\ Ran /\ [Mig!MigrationNext]_migVars => Ran'
<1> SUFFICES ASSUME Mig!MigrationTypeOK, Advised, Ran, [Mig!MigrationNext]_migVars
             PROVE  Ran'
  OBVIOUS
<1> USE StartAssumption, CleanupAssumption
    DEF Mig!MigrationTypeOK, Mig!Goto, Mig!After, Mig!Trouble, Mig!keys,
      Mig!schema, Mig!hist, Advised, Ran, Mig!Complete
<1>1. ASSUME NEW w \in Workers, Mig!Detect(w) \/ Mig!Proceed(w) \/ Mig!Stumble(w)
      PROVE  Ran'
  <2>1. CASE Mig!Detect(w)
    BY <2>1 DEF Mig!Detect
  <2>2. CASE Mig!DetectFails(w)
    BY <2>2 DEF Mig!DetectFails
  <2>3. CASE Mig!TryLock(w)
    BY <2>3 DEF Mig!TryLock
  <2>4. CASE Mig!TryLockFails(w)
    BY <2>4 DEF Mig!TryLockFails
  <2>5. CASE Mig!ReadVersion(w)
    BY <2>5 DEF Mig!ReadVersion
  <2>6. CASE Mig!ReadVersionFails(w)
    BY <2>6 DEF Mig!ReadVersionFails
  <2>7. CASE Mig!Force(w)
    BY <2>7 DEF Mig!Force
  <2>8. CASE Mig!ForceTimesOut(w)
    BY <2>8 DEF Mig!ForceTimesOut
  <2>9. CASE Mig!Up(w)
    BY <2>9 DEF Mig!Up
  <2>10. CASE Mig!UpTimesOut(w)
    BY <2>10 DEF Mig!UpTimesOut
  <2>11. CASE Mig!BeginMigration(w)
    BY <2>11 DEF Mig!BeginMigration
  <2>12. CASE Mig!RunMigration(w)
    BY <2>12 DEF Mig!RunMigration
  <2>13. CASE Mig!RunMigrationFails(w)
    BY <2>13 DEF Mig!RunMigrationFails
  <2>14. CASE Mig!EndMigration(w)
    <3>1. advisory = w /\ version > 0 /\ dirty /\ version \in applied
      BY <2>14 DEF Mig!EndMigration
    <3>2. ~forced => 1 .. version \subseteq applied
      BY <3>1
    <3>3. ~forced /\ version = Head => applied = 1 .. Head
      BY <3>2
    <3>4. UNCHANGED <<version, applied, done, stale, forced, trusting>> /\ ~dirty'
      BY <2>14 DEF Mig!EndMigration
    <3>5. ~forced' => 1 .. (IF dirty' THEN version' - 1 ELSE version') \subseteq applied'
      BY <3>2, <3>4
    <3>6. ~forced /\ version = Head => Mig!Complete'
      BY <3>3, <3>4
    <3>7. ~Mig!Complete
      BY <3>1
    <3>8. \A v \in Workers : pc'[v] # pc[v] => v = w /\ pc'[v] \in {"mark", "begin"}
      BY <2>14 DEF Mig!EndMigration
    <3>9. pc'[w] = "mark" => version = Head
      BY <2>14 DEF Mig!EndMigration
    <3> QED
      BY <3>4, <3>5, <3>6, <3>7, <3>8, <3>9
  <2>15. CASE Mig!MarkDone(w)
    BY <2>15 DEF Mig!MarkDone
  <2>16. CASE Mig!MarkFailed(w)
    BY <2>16 DEF Mig!MarkFailed
  <2>17. CASE Mig!MarkLost(w)
    BY <2>17 DEF Mig!MarkLost
  <2>18. CASE Mig!Unlock(w)
    BY <2>18 DEF Mig!Unlock
  <2>19. CASE Mig!UnlockFails(w)
    BY <2>19 DEF Mig!UnlockFails
  <2>20. CASE Mig!SeeDone(w)
    BY <2>20 DEF Mig!SeeDone
  <2>21. CASE Mig!SeeFailed(w)
    BY <2>21 DEF Mig!SeeFailed
  <2>22. CASE Mig!WaitTimesOut(w)
    BY <2>22 DEF Mig!WaitTimesOut
  <2>23. CASE Mig!Die(w)
    BY <2>23 DEF Mig!Die
  <2> QED
    BY <1>1, <2>1, <2>2, <2>3, <2>4, <2>5, <2>6, <2>7, <2>8, <2>9, <2>10,
      <2>11, <2>12, <2>13, <2>14, <2>15, <2>16, <2>17, <2>18, <2>19, <2>20,
      <2>21, <2>22, <2>23 DEF Mig!Proceed, Mig!Stumble
<1>2. CASE Mig!LockExpires
  BY <1>2 DEF Mig!LockExpires
<1>3. CASE Mig!MarkExpires
  BY <1>3 DEF Mig!MarkExpires
<1>4. CASE UNCHANGED migVars
  BY <1>4 DEF migVars
<1> QED
  BY <1>1, <1>2, <1>3, <1>4 DEF Mig!MigrationNext
-----------------------------------------------------------------------------
(* The two parts beside each other.                                        *)
LEMMA MigrationPart == [Next]_vars => [Mig!MigrationNext]_migVars
BY DEF Next, vars, migVars, Migrate, Sweep, Launch

LEMMA CleanupPart == [Next]_vars => [CleanupNext]_cleanupVars
BY DEF Next, vars, cleanupVars, Migrate, Sweep, Launch, CleanupNext

LEMMA StartInit == Init => StartInv
<1> SUFFICES ASSUME Init PROVE StartInv
  OBVIOUS
<1> USE StartAssumption, CleanupAssumption DEF Init, Mig!MigrationInit
<1>1. CleanupTypeOK
  BY TypeInit
<1>2. Mig!MigrationTypeOK
  <2>1. done \in BOOLEAN /\ failed \in BOOLEAN /\ stale \in BOOLEAN
    OBVIOUS
  <2>2. version \in 0 .. Head /\ applied \subseteq 1 .. Head /\ 0 \in 0 .. Head
    OBVIOUS
  <2>3. pc = [w \in Workers |-> "new"] /\ seen = [w \in Workers |-> 0]
    OBVIOUS
  <2>4. {done, failed, dirty, stale, forced, overrun} \subseteq BOOLEAN
    BY <2>1
  <2>5. pc \in [Workers -> {"new"}] /\ seen \in [Workers -> 0 .. Head]
    BY <2>2, <2>3
  <2>6. mlock = None /\ advisory = None /\ trusting = {} /\ trouble \in 0 .. MaxTrouble
    OBVIOUS
  <2> HIDE DEF Init, Mig!MigrationInit
  <2> QED
    BY <2>2, <2>3, <2>4, <2>5, <2>6 DEF Mig!MigrationTypeOK
<1>3. Advised /\ Exclusive /\ Ran
  BY DEF Advised, Exclusive, Migrating, Ran
<1>4. Launched
  BY DEF CleanupInit, Launched
<1> QED
  BY <1>1, <1>2, <1>3, <1>4 DEF StartInv, TypeOK

LEMMA LaunchedStep == TypeOK /\ Launched /\ [Next]_vars => Launched'
<1> SUFFICES ASSUME TypeOK, Launched, [Next]_vars PROVE Launched'
  OBVIOUS
<1> USE DEF TypeOK, CleanupTypeOK, Mig!MigrationTypeOK, Launched
<1>1. CASE Migrate
  <2>1. \A w \in Workers : pc[w] = "ready" => pc'[w] = "ready"
    <3> SUFFICES ASSUME NEW v \in Workers, pc[v] = "ready" PROVE pc'[v] = "ready"
      OBVIOUS
    <3>1. Mig!LockExpires \/ Mig!MarkExpires => pc' = pc
      BY DEF Mig!LockExpires, Mig!MarkExpires
    <3>2. ASSUME NEW w \in Workers, Mig!Detect(w) \/ Mig!Proceed(w) \/ Mig!Stumble(w)
          PROVE  pc[w] # "ready" /\ \E s : pc' = [pc EXCEPT ![w] = s]
      <4> USE <3>2 DEF Mig!Goto
      <4>1. Mig!Detect(w) => pc[w] # "ready" /\ \E s : pc' = [pc EXCEPT ![w] = s]
        BY DEF Mig!Detect
      <4>2. Mig!Proceed(w) => pc[w] # "ready" /\ \E s : pc' = [pc EXCEPT ![w] = s]
        BY DEF Mig!Proceed, Mig!TryLock, Mig!ReadVersion, Mig!Force, Mig!ForceTimesOut,
               Mig!Up, Mig!UpTimesOut, Mig!BeginMigration, Mig!RunMigration,
               Mig!RunMigrationFails, Mig!EndMigration, Mig!MarkDone, Mig!MarkFailed,
               Mig!Unlock, Mig!SeeDone, Mig!SeeFailed, Mig!WaitTimesOut
      <4>3. Mig!Stumble(w) => pc[w] # "ready" /\ \E s : pc' = [pc EXCEPT ![w] = s]
        BY DEF Mig!Stumble, Mig!DetectFails, Mig!TryLockFails, Mig!ReadVersionFails,
               Mig!MarkLost, Mig!UnlockFails, Mig!Die
      <4> QED
        BY <4>1, <4>2, <4>3
    <3> QED
      BY <1>1, <3>1, <3>2 DEF Migrate, Mig!MigrationNext
  <2> QED
    BY <1>1, <2>1 DEF Migrate, cleanupVars
<1>2. ASSUME NEW w \in Workers, Launch(w) PROVE Launched'
  BY <1>2 DEF Launch, Start, migVars
<1>3. CASE Sweep
  <2>1. pc' = pc
    BY <1>3 DEF Sweep, migVars
  <2>2. CASE Tick
    BY <2>1, <2>2 DEF Tick
  <2>3. ASSUME NEW w \in Workers, pc[w] = "ready", Step(w) PROVE Launched'
    BY <2>1, <2>3 DEF Step, Acquire, AcquireUnheard, Renew, RenewFails, Finish, Release,
       ReleaseFails, Close, Cancel, Exit, Crash
  <2> QED
    BY <1>3, <2>2, <2>3 DEF Sweep
<1>4. CASE UNCHANGED vars
  BY <1>4 DEF vars, cleanupVars, migVars
<1> QED
  BY <1>1, <1>2, <1>3, <1>4 DEF Next

LEMMA StartStep == StartInv /\ [Next]_vars => StartInv'
BY MigrationPart, CleanupPart, TypeStep, MigTypeStep, AdvisedStep, ExclusiveStep, RanStep,
   LaunchedStep DEF StartInv, TypeOK

LEMMA StartInvHolds == Spec => []StartInv
BY StartInit, StartStep, PTL DEF Spec

(* Every variable of the two locks keeps its shape while both run: no      *)
(* version past the newest migration, no advisory lock of a dead worker.   *)
THEOREM StartTypeCorrect == Spec => []TypeOK
<1>1. StartInv => TypeOK
  BY DEF StartInv
<1> QED
  BY <1>1, StartInvHolds, PTL

-----------------------------------------------------------------------------
(* What is proved of the cleanup lock holds in the composition.            *)
LEMMA CleanupRuns == Spec => CleanupSpec
<1>1. Init => CleanupInit
  BY DEF Init
<1> QED
  BY <1>1, CleanupPart, PTL DEF Spec, CleanupSpec

(* One worker sweeps at a time, also among workers that are started, shut  *)
(* down and migrate beside it, until a renewal is missed.                  *)
THEOREM StartedWorkersSweepAlone == Spec => []OneSweeper
BY CleanupRuns, OneSweeperHolds, PTL

(* bridge:cleanup_lock is a lease in the composition.                      *)
THEOREM CleanupLeaseInStart == Spec => CleanupIsLease
BY CleanupRuns, CleanupImplementsLease, PTL

-----------------------------------------------------------------------------
(* The lease of the migration, step by step.                               *)
LEMMA MigrationLeaseInit == Init => Mig!Locked!LeaseInit
BY DEF Init, Mig!MigrationInit, Mig!Locked!LeaseInit

(* The time left of migrate:lock, which nothing renews.                    *)
KeyLeft == IF mlock = None THEN 0 ELSE 1

LEMMA MigrationLeaseStep ==
    Mig!MigrationTypeOK /\ [Mig!MigrationNext]_migVars
        => [Mig!Locked!LeaseNext]_(Mig!Locked!leaseVars)
<1> DEFINE Still == UNCHANGED <<mlock, KeyLeft, Migrating>>
           Goal == Mig!Locked!LeaseNext \/ Still
<1> SUFFICES ASSUME Mig!MigrationTypeOK, [Mig!MigrationNext]_migVars PROVE Goal
  BY DEF Mig!Locked!leaseVars, KeyLeft, Migrating
<1> USE CleanupAssumption DEF Mig!MigrationTypeOK, Mig!Goto, Mig!keys
<1>0. ASSUME mlock' = mlock, Migrating' = Migrating PROVE Still
  BY <1>0 DEF KeyLeft
<1>1. ASSUME NEW w \in Workers,
             w \notin Migrating, \E s \in {"lock", "wait", "ready", "failed", "dead"} : Mig!Goto(w, s)
      PROVE  Migrating' = Migrating
  BY <1>1 DEF Migrating
<1>2. ASSUME NEW w \in Workers, w \in Migrating,
             \E s \in {"force", "up", "begin", "run", "clean", "mark", "markfailed",
                       "release", "abort"} : Mig!Goto(w, s)
      PROVE  Migrating' = Migrating
  BY <1>2 DEF Migrating
<1>3. ASSUME NEW w \in Workers, w \in Migrating,
             \E s \in {"ready", "failed", "dead"} : Mig!Goto(w, s)
      PROVE  Migrating' = Migrating \ {w}
  BY <1>3 DEF Migrating
<1>4. ASSUME NEW w \in Workers, Mig!Detect(w) \/ Mig!Proceed(w) \/ Mig!Stumble(w)
      PROVE  Goal
  <2>1. CASE Mig!Detect(w) \/ Mig!DetectFails(w) \/ Mig!SeeDone(w) \/ Mig!SeeFailed(w)
             \/ Mig!WaitTimesOut(w)
    <3>1. w \notin Migrating /\ mlock' = mlock
      BY <2>1 DEF Mig!Detect, Mig!DetectFails, Mig!SeeDone, Mig!SeeFailed,
         Mig!WaitTimesOut, Migrating
    <3>2. \E s \in {"lock", "wait", "ready", "failed", "dead"} : Mig!Goto(w, s)
      BY <2>1 DEF Mig!Detect, Mig!DetectFails, Mig!SeeDone, Mig!SeeFailed, Mig!WaitTimesOut
    <3> QED
      BY <3>1, <3>2, <1>0, <1>1
  <2>2. CASE Mig!TryLock(w)
    <3>1. CASE mlock = None
      <4>1. w \notin Migrating /\ mlock' = w /\ Migrating' = Migrating \cup {w}
        BY <2>2, <3>1 DEF Mig!TryLock, Migrating
      <4>2. Mig!Locked!Grant(w)
        BY <3>1, <4>1 DEF Mig!Locked!Grant, Migrating
      <4> QED
        BY <4>2 DEF Mig!Locked!LeaseNext
    <3>2. CASE mlock # None
      <4>1. w \notin Migrating /\ mlock' = mlock /\ Mig!Goto(w, "wait")
        BY <2>2, <3>2 DEF Mig!TryLock, Migrating
      <4> QED
        BY <4>1, <1>0, <1>1
    <3> QED
      BY <3>1, <3>2
  <2>3. CASE Mig!TryLockFails(w)
    <3>1. w \notin Migrating /\ Mig!Goto(w, "failed")
      BY <2>3 DEF Mig!TryLockFails, Migrating
    <3>2. Migrating' = Migrating
      BY <3>1, <1>1
    <3>3. CASE mlock' = mlock
      BY <3>2, <3>3, <1>0
    <3>4. CASE mlock' # mlock
      <4>1. mlock = None /\ mlock' = w
        BY <2>3, <3>4 DEF Mig!TryLockFails
      <4>2. Mig!Locked!Grant(w)
        BY <3>1, <3>2, <4>1 DEF Mig!Locked!Grant, Migrating
      <4> QED
        BY <4>2 DEF Mig!Locked!LeaseNext
    <3> QED
      BY <3>3, <3>4
  <2>4. CASE Mig!ReadVersion(w) \/ Mig!ReadVersionFails(w) \/ Mig!Force(w) \/ Mig!ForceTimesOut(w)
             \/ Mig!Up(w) \/ Mig!UpTimesOut(w) \/ Mig!BeginMigration(w) \/ Mig!RunMigration(w)
    <3>1. w \in Migrating /\ mlock' = mlock
      BY <2>4 DEF Mig!ReadVersion, Mig!ReadVersionFails, Mig!Force, Mig!ForceTimesOut, Mig!Up,
         Mig!UpTimesOut, Mig!BeginMigration, Mig!RunMigration, Migrating
    <3>2. \E s \in {"force", "up", "begin", "run", "clean", "mark", "markfailed",
                    "release", "abort"} : Mig!Goto(w, s)
      BY <2>4 DEF Mig!ReadVersion, Mig!ReadVersionFails, Mig!Force, Mig!ForceTimesOut, Mig!Up,
         Mig!UpTimesOut, Mig!BeginMigration, Mig!RunMigration
    <3> QED
      BY <3>1, <3>2, <1>0, <1>2
  <2>5. CASE Mig!RunMigrationFails(w) \/ Mig!EndMigration(w) \/ Mig!MarkDone(w)
             \/ Mig!MarkFailed(w) \/ Mig!MarkLost(w)
    <3>1. w \in Migrating /\ mlock' = mlock
      BY <2>5 DEF Mig!RunMigrationFails, Mig!EndMigration, Mig!MarkDone, Mig!MarkFailed,
         Mig!MarkLost, Migrating
    <3>2. \E s \in {"force", "up", "begin", "run", "clean", "mark", "markfailed",
                    "release", "abort"} : Mig!Goto(w, s)
      BY <2>5 DEF Mig!RunMigrationFails, Mig!EndMigration, Mig!MarkDone, Mig!MarkFailed,
         Mig!MarkLost
    <3> QED
      BY <3>1, <3>2, <1>0, <1>2
  <2>6. CASE Mig!Unlock(w)
    <3>1. w \in Migrating /\ mlock' = (IF mlock = w THEN None ELSE mlock)
      BY <2>6 DEF Mig!Unlock, Migrating
    <3>2. Migrating' = Migrating \ {w}
      BY <2>6, <3>1, <1>3 DEF Mig!Unlock, Mig!After
    <3>3. Mig!Locked!GiveUp(w)
      BY <3>1, <3>2 DEF Mig!Locked!GiveUp, Migrating
    <3> QED
      BY <3>3 DEF Mig!Locked!LeaseNext
  <2>7. CASE Mig!UnlockFails(w)
    <3>1. w \in Migrating /\ mlock' = mlock
      BY <2>7 DEF Mig!UnlockFails, Migrating
    <3>2. Migrating' = Migrating \ {w}
      BY <2>7, <3>1, <1>3 DEF Mig!UnlockFails, Mig!After
    <3>3. Mig!Locked!Forget(w)
      BY <3>1, <3>2 DEF Mig!Locked!Forget, Migrating
    <3> QED
      BY <3>3 DEF Mig!Locked!LeaseNext
  <2>8. CASE Mig!Die(w)
    <3>1. mlock' = mlock /\ Mig!Goto(w, "dead")
      BY <2>8 DEF Mig!Die
    <3>2. CASE w \in Migrating
      <4>1. Migrating' = Migrating \ {w}
        BY <3>1, <3>2, <1>3
      <4>2. Mig!Locked!Forget(w)
        BY <3>1, <3>2, <4>1 DEF Mig!Locked!Forget, Migrating
      <4> QED
        BY <4>2 DEF Mig!Locked!LeaseNext
    <3>3. CASE w \notin Migrating
      BY <3>1, <3>3, <1>0, <1>1
    <3> QED
      BY <3>2, <3>3
  <2> QED
    BY <1>4, <2>1, <2>2, <2>3, <2>4, <2>5, <2>6, <2>7, <2>8 DEF Mig!Proceed, Mig!Stumble
<1>5. CASE Mig!LockExpires
  <2>1. Mig!Locked!Pass
    BY <1>5 DEF Mig!LockExpires, Mig!Locked!Pass
  <2> QED
    BY <2>1 DEF Mig!Locked!LeaseNext
<1>6. CASE Mig!MarkExpires
  BY <1>6, <1>0 DEF Mig!MarkExpires, Migrating
<1>7. CASE UNCHANGED migVars
  BY <1>7, <1>0 DEF migVars, Migrating
<1> QED
  BY <1>4, <1>5, <1>6, <1>7 DEF Mig!MigrationNext

(* migrate:lock is a lease: nobody frees another worker's lock, whoever    *)
(* dies, fails or loses a reply (releaseLockLua in migrate.go).            *)
THEOREM MigrationLeaseInStart == Spec => MigrationIsLease
<1>1. StartInv => Mig!MigrationTypeOK
  BY DEF StartInv, TypeOK
<1> QED
  BY <1>1, MigrationLeaseInit, MigrationLeaseStep, MigrationPart, StartInvHolds, PTL
  DEF Spec, MigrationIsLease, Mig!MigrationIsLease, Mig!Locked!LeaseSpec

-----------------------------------------------------------------------------
(* A step that takes the version back is a Force after the lock expired.   *)
LEMMA BackByForce ==
    StartInv /\ [Next]_vars => [version' < version => overrun]_version
<1> SUFFICES ASSUME StartInv, [Next]_vars, version' # version PROVE version' < version => overrun
  OBVIOUS
<1> USE DEF StartInv, TypeOK, Mig!MigrationTypeOK
<1>1. PICK w \in Workers : Mig!Force(w) \/ Mig!BeginMigration(w)
  BY MigrationPart DEF migVars, Mig!MigrationNext, Mig!Proceed, Mig!Stumble, Mig!schema,
     Mig!Detect, Mig!DetectFails, Mig!TryLock, Mig!TryLockFails, Mig!ReadVersion,
     Mig!ReadVersionFails, Mig!ForceTimesOut, Mig!Up, Mig!UpTimesOut, Mig!RunMigration,
     Mig!RunMigrationFails, Mig!EndMigration, Mig!MarkDone, Mig!MarkFailed, Mig!MarkLost,
     Mig!Unlock, Mig!UnlockFails, Mig!SeeDone, Mig!SeeFailed, Mig!WaitTimesOut, Mig!Die,
     Mig!LockExpires, Mig!MarkExpires
<1>2. CASE Mig!Force(w)
  BY <1>2 DEF Mig!Force, Exclusive
<1>3. CASE Mig!BeginMigration(w)
  BY <1>3, StartAssumption DEF Mig!BeginMigration
<1> QED
  BY <1>1, <1>2, <1>3

(* The recorded version of the schema never goes back while the holder of  *)
(* migrate:lock keeps it (m.Version() before m.Force(), migrate.go:84-91). *)
THEOREM VersionOnlyGrows == Spec => VersionGrows
BY StartInvHolds, BackByForce, PTL DEF Spec, VersionGrows, Mig!VersionGrows

(* No worker's bridge runs on an incomplete schema, except after a Force,  *)
(* on a mark of the previous deployment or without DDL privileges: main.go *)
(* starts it only when RunMigrations has returned without an error.        *)
THEOREM ServersHaveSchema == Spec => []ServesOnSchema
<1>1. StartInv => ServesOnSchema
  BY DEF StartInv, Launched, Ran, ServesOnSchema
<1> QED
  BY <1>1, StartInvHolds, PTL
================================================================================
