--------------------------- MODULE CleanupLockProofs ---------------------------
(***************************************************************************)
(* For any number of workers and any TTL of at least two renewal           *)
(* intervals: bridge:cleanup_lock is a lease, and two workers sweep at the *)
(* same time only after a renewal was missed.                              *)
(***************************************************************************)
EXTENDS CleanupLock, TLAPS

-----------------------------------------------------------------------------
(* Type correctness.                                                       *)
LEMMA TypeInit == CleanupInit => CleanupTypeOK
BY CleanupAssumption DEF CleanupInit, CleanupTypeOK

LEMMA TypeStep == CleanupTypeOK /\ [CleanupNext]_cleanupVars => CleanupTypeOK'
<1> SUFFICES ASSUME CleanupTypeOK, [CleanupNext]_cleanupVars PROVE CleanupTypeOK'
  OBVIOUS
<1> USE CleanupAssumption DEF CleanupTypeOK
<1>1. CASE Tick
  <2>1. left' \in 0 .. Term /\ lock' \in Workers \cup {None}
    BY <1>1 DEF Tick
  <2>2. due' \in [Workers -> BOOLEAN]
    BY <1>1 DEF Tick, Renewing, Working
  <2>3. missed' \in 0 .. MaxMissed
    BY <1>1 DEF Tick
  <2> QED
    BY <1>1, <2>1, <2>2, <2>3 DEF Tick
<1>2. ASSUME NEW w \in Workers, Start(w) PROVE CleanupTypeOK'
  BY <1>2 DEF Start
<1>3. ASSUME NEW w \in Workers, Step(w) PROVE CleanupTypeOK'
  <2>1. CASE Acquire(w)
    BY <2>1 DEF Acquire
  <2>2. CASE AcquireUnheard(w)
    BY <2>2 DEF AcquireUnheard
  <2>3. CASE Renew(w)
    BY <2>3 DEF Renew
  <2>4. CASE RenewFails(w)
    BY <2>4 DEF RenewFails
  <2>5. CASE Finish(w)
    BY <2>5 DEF Finish
  <2>6. CASE Release(w)
    BY <2>6 DEF Release
  <2>7. CASE ReleaseFails(w)
    BY <2>7 DEF ReleaseFails
  <2>8. CASE Close(w)
    BY <2>8 DEF Close
  <2>9. CASE Cancel(w)
    BY <2>9 DEF Cancel
  <2>10. CASE Exit(w)
    BY <2>10 DEF Exit
  <2>11. CASE Crash(w)
    BY <2>11 DEF Crash
  <2> QED
    BY <1>3, <2>1, <2>2, <2>3, <2>4, <2>5, <2>6, <2>7, <2>8, <2>9, <2>10, <2>11 DEF Step
<1>4. CASE UNCHANGED cleanupVars
  BY <1>4 DEF cleanupVars
<1> QED
  BY <1>1, <1>2, <1>3, <1>4 DEF CleanupNext

(* Every variable of the cleanup lock keeps its shape: the TTL never goes  *)
(* below zero nor above what it is set to (bridge.go:249-332).             *)
THEOREM CleanupTypeCorrect == CleanupSpec => []CleanupTypeOK
BY TypeInit, TypeStep, PTL DEF CleanupSpec

-----------------------------------------------------------------------------
(* The lease: every step is one of Lease's or a stutter.                   *)
Believers == {w \in Workers : phase[w] # "idle"}

LEMMA LeaseStart == CleanupInit => Locked!LeaseInit
BY DEF CleanupInit, Locked!LeaseInit

LEMMA LeaseStep ==
    CleanupTypeOK /\ [CleanupNext]_cleanupVars => [Locked!LeaseNext]_(Locked!leaseVars)
<1> SUFFICES ASSUME CleanupTypeOK, [CleanupNext]_cleanupVars
             PROVE  Locked!LeaseNext \/ UNCHANGED <<lock, left, Believers>>
  BY DEF Locked!leaseVars, Believers
<1> USE DEF CleanupTypeOK
<1>1. CASE Tick
  <2>1. Locked!Pass
    BY <1>1 DEF Tick, Locked!Pass
  <2> QED
    BY <2>1 DEF Locked!LeaseNext
<1>2. ASSUME NEW w \in Workers, Start(w) PROVE UNCHANGED <<lock, left, Believers>>
  BY <1>2 DEF Start, Believers
<1>3. ASSUME NEW w \in Workers, Step(w)
      PROVE  Locked!LeaseNext \/ UNCHANGED <<lock, left, Believers>>
  <2>1. CASE Acquire(w)
    <3>1. Locked!Grant(w)
      BY <2>1 DEF Acquire, Locked!Grant
    <3> QED
      BY <3>1 DEF Locked!LeaseNext
  <2>2. CASE AcquireUnheard(w)
    <3>1. Locked!Grant(w)
      BY <2>2 DEF AcquireUnheard, Locked!Grant
    <3> QED
      BY <3>1 DEF Locked!LeaseNext
  <2>3. CASE Renew(w)
    <3>1. CASE lock = w
      <4>1. Locked!Extend(w)
        BY <2>3, <3>1 DEF Renew, Renewing, Locked!Extend
      <4> QED
        BY <4>1 DEF Locked!LeaseNext
    <3>2. CASE lock # w
      BY <2>3, <3>2 DEF Renew, Believers
    <3> QED
      BY <3>1, <3>2
  <2>4. CASE RenewFails(w) \/ Close(w) \/ Cancel(w) \/ Exit(w)
    BY <2>4 DEF RenewFails, Close, Cancel, Exit, Believers
  <2>5. CASE Finish(w)
    <3>1. Believers' = Believers
      BY <2>5 DEF Finish, Believers
    <3> QED
      BY <2>5, <3>1 DEF Finish
  <2>6. CASE Release(w)
    <3>1. Locked!GiveUp(w)
      BY <2>6 DEF Release, Locked!GiveUp
    <3> QED
      BY <3>1 DEF Locked!LeaseNext
  <2>7. CASE ReleaseFails(w)
    <3>1. Locked!Forget(w)
      BY <2>7 DEF ReleaseFails, Locked!Forget
    <3> QED
      BY <3>1 DEF Locked!LeaseNext
  <2>8. CASE Crash(w)
    <3>1. CASE phase[w] = "idle"
      <4>1. Believers' = Believers
        BY <2>8, <3>1 DEF Crash, Believers
      <4> QED
        BY <2>8, <4>1 DEF Crash
    <3>2. CASE phase[w] # "idle"
      <4>1. Locked!Forget(w)
        BY <2>8, <3>2 DEF Crash, Locked!Forget
      <4> QED
        BY <4>1 DEF Locked!LeaseNext
    <3> QED
      BY <3>1, <3>2
  <2> QED
    BY <1>3, <2>1, <2>2, <2>3, <2>4, <2>5, <2>6, <2>7, <2>8 DEF Step
<1>4. CASE UNCHANGED cleanupVars
  BY <1>4 DEF cleanupVars, Believers
<1> QED
  BY <1>1, <1>2, <1>3, <1>4 DEF CleanupNext

(* bridge:cleanup_lock implements the abstract lease: nobody frees or      *)
(* extends another worker's lock (the scripts of bridge.go:54-67).         *)
THEOREM CleanupImplementsLease == CleanupSpec => CleanupIsLease
<1>1. CleanupInit => Locked!LeaseInit
  BY LeaseStart
<1>2. CleanupTypeOK /\ [CleanupNext]_cleanupVars => [Locked!LeaseNext]_(Locked!leaseVars)
  BY LeaseStep
<1> QED
  BY <1>1, <1>2, CleanupTypeCorrect, PTL DEF CleanupSpec, CleanupIsLease, Locked!LeaseSpec

-----------------------------------------------------------------------------
(* One sweeper.  While no renewal was missed, who renews has the lock, and *)
(* its TTL is whole or short of one interval whose renewal is due.  A      *)
(* worker that does not renew has no renewal due, or it would begin its    *)
(* next sweep with one; one that is new has no sweep to go on with.        *)
Held ==
    missed = 0 => \A w \in Workers :
        Renewing(w) => lock = w /\ left = IF due[w] THEN Term - 1 ELSE Term

AtRest ==
    \A w \in Workers :
        /\ ~Renewing(w) => ~due[w]
        /\ life[w] = "new" => phase[w] = "idle"

SweepInv == CleanupTypeOK /\ Held /\ AtRest

LEMMA SweepInit == CleanupInit => SweepInv
BY TypeInit DEF CleanupInit, SweepInv, Held, AtRest, Renewing

LEMMA AtRestStep == SweepInv /\ [CleanupNext]_cleanupVars => AtRest'
<1> SUFFICES ASSUME SweepInv, [CleanupNext]_cleanupVars, NEW v \in Workers
             PROVE  /\ ~Renewing(v)' => ~due'[v]
                    /\ life'[v] = "new" => phase'[v] = "idle"
  BY DEF AtRest
<1> USE DEF SweepInv, CleanupTypeOK, AtRest, Renewing, Working
<1>1. CASE Tick
  BY <1>1 DEF Tick
<1>2. ASSUME NEW w \in Workers, Start(w)
      PROVE  /\ ~Renewing(v)' => ~due'[v]
             /\ life'[v] = "new" => phase'[v] = "idle"
  BY <1>2 DEF Start
<1>3. ASSUME NEW w \in Workers, Step(w)
      PROVE  /\ ~Renewing(v)' => ~due'[v]
             /\ life'[v] = "new" => phase'[v] = "idle"
  <2>1. CASE Acquire(w) \/ AcquireUnheard(w)
    BY <2>1 DEF Acquire, AcquireUnheard
  <2>2. CASE Renew(w) \/ RenewFails(w)
    BY <2>2 DEF Renew, RenewFails
  <2>3. CASE Finish(w)
    BY <2>3 DEF Finish
  <2>4. CASE Release(w) \/ ReleaseFails(w)
    BY <2>4 DEF Release, ReleaseFails
  <2>5. CASE Close(w) \/ Cancel(w) \/ Exit(w)
    BY <2>5 DEF Close, Cancel, Exit
  <2>6. CASE Crash(w)
    BY <2>6 DEF Crash
  <2> QED
    BY <1>3, <2>1, <2>2, <2>3, <2>4, <2>5, <2>6 DEF Step
<1>4. CASE UNCHANGED cleanupVars
  BY <1>4 DEF cleanupVars
<1> QED
  BY <1>1, <1>2, <1>3, <1>4 DEF CleanupNext

LEMMA HeldStep == SweepInv /\ [CleanupNext]_cleanupVars => Held'
<1> SUFFICES ASSUME SweepInv, [CleanupNext]_cleanupVars, missed' = 0,
                    NEW v \in Workers, Renewing(v)'
             PROVE  lock' = v /\ left' = IF due'[v] THEN Term - 1 ELSE Term
  BY DEF Held
<1> DEFINE Goal == lock' = v /\ left' = IF due'[v] THEN Term - 1 ELSE Term
<1> USE CleanupAssumption DEF SweepInv, CleanupTypeOK, Renewing, Working
<1>1. CASE Tick
  <2>1. Renewing(v) /\ due'[v]
    BY <1>1 DEF Tick
  <2>2. missed = 0 /\ ~due[lock]
    BY <1>1 DEF Tick
  <2>3. lock = v /\ ~due[v] /\ left = Term
    BY <1>1, <2>1, <2>2 DEF Tick, Held
  <2> QED
    BY <1>1, <2>1, <2>3 DEF Tick
<1>2. ASSUME NEW w \in Workers, Start(w) PROVE Goal
  <2>1. v # w
    BY <1>2 DEF Start, AtRest
  <2> QED
    BY <1>2, <2>1 DEF Start, Held
<1>3. ASSUME NEW w \in Workers, Step(w) PROVE Goal
  <2>1. CASE Acquire(w)
    <3>1. v = w
      BY <2>1 DEF Acquire, Held
    <3>2. ~due[w]
      BY <2>1 DEF Acquire, AtRest
    <3> QED
      BY <2>1, <3>1, <3>2 DEF Acquire
  <2>2. CASE AcquireUnheard(w)
    BY <2>2 DEF AcquireUnheard, Held
  <2>3. CASE Renew(w)
    <3>1. lock = v
      BY <2>3 DEF Renew, Held
    <3>2. lock = w
      BY <2>3 DEF Renew, Held
    <3> QED
      BY <2>3, <3>1, <3>2 DEF Renew
  <2>4. CASE RenewFails(w)
    BY <2>4 DEF RenewFails
  <2>5. CASE Finish(w)
    <3>1. v # w
      BY <2>5 DEF Finish
    <3> QED
      BY <2>5, <3>1 DEF Finish, Held
  <2>6. CASE Release(w)
    <3>1. v # w
      BY <2>6 DEF Release
    <3> QED
      BY <2>6, <3>1 DEF Release, Held
  <2>7. CASE ReleaseFails(w)
    BY <2>7 DEF ReleaseFails, Held
  <2>8. CASE Close(w) \/ Exit(w)
    BY <2>8 DEF Close, Exit, Held
  <2>9. CASE Cancel(w) \/ Crash(w)
    <3>1. v # w
      BY <2>9 DEF Cancel, Crash
    <3> QED
      BY <2>9, <3>1 DEF Cancel, Crash, Held
  <2> QED
    BY <1>3, <2>1, <2>2, <2>3, <2>4, <2>5, <2>6, <2>7, <2>8, <2>9 DEF Step
<1>4. CASE UNCHANGED cleanupVars
  BY <1>4 DEF cleanupVars, Held
<1> QED
  BY <1>1, <1>2, <1>3, <1>4 DEF CleanupNext

LEMMA HeldIsOne == SweepInv => OneSweeper
BY DEF SweepInv, Held, OneSweeper

(* Two workers sweep together only after a renewal failed or came late:    *)
(* renewing at half the TTL is enough (bridge.go:292).                     *)
THEOREM OneSweeperHolds == CleanupSpec => []OneSweeper
<1>1. SweepInv /\ [CleanupNext]_cleanupVars => SweepInv'
  BY TypeStep, AtRestStep, HeldStep DEF SweepInv
<1> QED
  BY <1>1, SweepInit, HeldIsOne, PTL DEF CleanupSpec
================================================================================
