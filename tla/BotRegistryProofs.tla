-------------------------- MODULE BotRegistryProofs --------------------------
(***************************************************************************)
(* Safety of BotRegistry for every set of workers and connections, every   *)
(* choice of which of them fail, and any number of Redis faults.           *)
(*                                                                         *)
(* TypeOK, ShutdownAdmitsNoBot, NoZombieEntry and NoOrphan are proved from *)
(* one inductive invariant.  None of the last three is inductive alone:    *)
(* that bots.Store overwrites no open connection needs regMu to exclude a  *)
(* second registration and bots to be empty between the eviction and the   *)
(* store; that an eviction loses no connection needs each evictor to hold  *)
(* at most one; and that UnregisterBot(nil) is harmless needs it to run    *)
(* for a deleted token only.                                               *)
(***************************************************************************)
EXTENDS BotRegistry, TLAPS

(* A handler that has not returned belongs to a worker. *)
HomeInv ==
    \A c \in Conns : pc[c] \in {"wait", "serving"} \cup Critical => home[c] \in Workers

(* Inside RegisterBot regMu is held, the worker is up, and nothing is      *)
(* stored for the token.                                                   *)
MutexInv ==
    \A c \in Conns : pc[c] \in Critical =>
        /\ regMu[home[c]] = c
        /\ life[home[c]] = "up"
        /\ bots[home[c]] = None

(* An evictor holds a connection only between the halves of evictLocal. *)
VictimInv ==
    \A w \in Workers :
        /\ rc[w] # "clear" => rcVictim[w] = None
        /\ ib[w] # "clear" => ibVictim[w] = None

(* The admin request runs on a worker, after the token was deleted. *)
AdminInv ==
    /\ admin # "idle" => adWorker \in Workers
    /\ adWorker # None => ~valid

(* Shared clean-up for a connection starts after its handler left bots. *)
WipeInv ==
    \A c \in Conns : wipe[c] # "idle" => pc[c] = "gone"

IInv ==
    /\ TypeOK
    /\ HomeInv
    /\ MutexInv
    /\ NoZombieEntry
    /\ VictimInv
    /\ AdminInv
    /\ WipeInv
    /\ NoOrphan

-----------------------------------------------------------------------------
USE ConstantsAssumption DEF Wipers, Critical, Scores, redis, local, rcVars, ibVars,
    conns, wipers, sweeps, admins

(* Init establishes the invariant: no connection is registered and no      *)
(* evictor is at work.                                                     *)
LEMMA InitInv == Init => IInv
<1> SUFFICES ASSUME Init PROVE IInv
  OBVIOUS
<1>1. TypeOK
  BY DEF Init, TypeOK
<1>2. HomeInv /\ MutexInv /\ NoZombieEntry
  BY DEF Init, HomeInv, MutexInv, NoZombieEntry
<1>3. VictimInv /\ AdminInv /\ WipeInv /\ NoOrphan
  BY DEF Init, VictimInv, AdminInv, WipeInv, NoOrphan
<1>4. QED
  BY <1>1, <1>2, <1>3 DEF IInv

(* An upgraded connection waits for regMu: nothing is registered for it yet. *)
LEMMA ConnectStep == ASSUME NEW c \in Conns, NEW w \in Workers, IInv, Connect(c, w) PROVE IInv'
<1>1. TypeOK'
  BY DEF IInv, TypeOK, Connect
<1>2. HomeInv'
  BY DEF IInv, TypeOK, HomeInv, WipeInv, Connect
<1>3. MutexInv'
  BY DEF IInv, TypeOK, MutexInv, HomeInv, NoZombieEntry, WipeInv, Connect
<1>4. NoZombieEntry'
  BY DEF IInv, TypeOK, NoZombieEntry, HomeInv, MutexInv, WipeInv, Connect
<1>5. WipeInv'
  BY DEF IInv, TypeOK, WipeInv, Connect
<1>6. NoOrphan'
  BY DEF IInv, TypeOK, NoOrphan, HomeInv, MutexInv, NoZombieEntry, VictimInv,
      AdminInv, WipeInv, Connect
<1>7. VictimInv' /\ AdminInv'
  BY DEF IInv, VictimInv, AdminInv, Connect
<1>8. QED
  BY <1>1, <1>2, <1>3, <1>4, <1>5, <1>6, <1>7 DEF IInv

(* A closed socket leaves the entry of bots to the deferred UnregisterBot. *)
LEMMA DropStep == ASSUME NEW c \in Conns, IInv, Drop(c) PROVE IInv'
<1>1. TypeOK'
  BY DEF IInv, TypeOK, Drop, Closed
<1>2. NoOrphan'
  BY DEF IInv, TypeOK, NoOrphan, HomeInv, MutexInv, NoZombieEntry, VictimInv,
      AdminInv, WipeInv, Drop, Closed
<1>3. HomeInv' /\ MutexInv' /\ NoZombieEntry' /\ VictimInv' /\ AdminInv' /\ WipeInv'
  BY DEF IInv, HomeInv, MutexInv, NoZombieEntry, VictimInv, AdminInv, WipeInv,
      Drop, Closed
<1>4. QED
  BY <1>1, <1>2, <1>3 DEF IInv

(* RegisterBot takes regMu; the connection it evicts is closed in the same step. *)
LEMMA RegisterLockStep == ASSUME NEW c \in Conns, IInv, RegisterLock(c) PROVE IInv'
<1>1. TypeOK'
  BY DEF IInv, TypeOK, RegisterLock, RegisterError, Finish, ForgetLocal,
      Closed
<1>2. HomeInv'
  BY DEF IInv, TypeOK, HomeInv, WipeInv, RegisterLock, RegisterError, Finish,
      ForgetLocal, Closed
<1>3. MutexInv'
  BY DEF IInv, TypeOK, MutexInv, HomeInv, NoZombieEntry, WipeInv,
      RegisterLock, RegisterError, Finish, ForgetLocal, Closed
<1>4. NoZombieEntry'
  BY DEF IInv, TypeOK, NoZombieEntry, HomeInv, MutexInv, WipeInv,
      RegisterLock, RegisterError, Finish, ForgetLocal, Closed
<1>5. WipeInv'
  BY DEF IInv, TypeOK, WipeInv, RegisterLock, RegisterError, Finish,
      ForgetLocal, Closed
<1>6. NoOrphan'
  BY DEF IInv, TypeOK, NoOrphan, HomeInv, MutexInv, NoZombieEntry, VictimInv,
      AdminInv, WipeInv, RegisterLock, RegisterError, Finish, ForgetLocal,
      Closed
<1>7. VictimInv' /\ AdminInv'
  BY DEF IInv, VictimInv, AdminInv, RegisterLock, RegisterError, Finish,
      ForgetLocal, Closed
<1>8. QED
  BY <1>1, <1>2, <1>3, <1>4, <1>5, <1>6, <1>7 DEF IInv

(* INCR bot_gen, or the error return that releases regMu. *)
LEMMA RegisterIncrStep == ASSUME NEW c \in Conns, IInv, RegisterIncr(c) PROVE IInv'
<1>1. TypeOK'
  BY DEF IInv, TypeOK, RegisterIncr, RegisterError, Finish, Works, Fails,
      Closed
<1>2. HomeInv'
  BY DEF IInv, TypeOK, HomeInv, WipeInv, RegisterIncr, RegisterError, Finish,
      Works, Fails, Closed
<1>3. MutexInv'
  BY DEF IInv, TypeOK, MutexInv, HomeInv, NoZombieEntry, WipeInv,
      RegisterIncr, RegisterError, Finish, Works, Fails, Closed
<1>4. NoZombieEntry'
  BY DEF IInv, TypeOK, NoZombieEntry, HomeInv, MutexInv, WipeInv,
      RegisterIncr, RegisterError, Finish, Works, Fails, Closed
<1>5. WipeInv'
  BY DEF IInv, TypeOK, WipeInv, RegisterIncr, RegisterError, Finish, Works,
      Fails, Closed
<1>6. NoOrphan'
  BY DEF IInv, TypeOK, NoOrphan, HomeInv, MutexInv, NoZombieEntry, VictimInv,
      AdminInv, WipeInv, RegisterIncr, RegisterError, Finish, Works, Fails,
      Closed
<1>7. VictimInv' /\ AdminInv'
  BY DEF IInv, VictimInv, AdminInv, RegisterIncr, RegisterError, Finish,
      Works, Fails, Closed
<1>8. QED
  BY <1>1, <1>2, <1>3, <1>4, <1>5, <1>6, <1>7 DEF IInv

(* ZADD bot_alive inside RegisterBot. *)
LEMMA RegisterAliveStep == ASSUME NEW c \in Conns, IInv, RegisterAlive(c) PROVE IInv'
<1>1. TypeOK'
  BY DEF IInv, TypeOK, RegisterAlive, Works, Fails, RefreshAlive
<1>2. HomeInv'
  BY DEF IInv, TypeOK, HomeInv, WipeInv, RegisterAlive, Works, Fails,
      RefreshAlive
<1>3. MutexInv'
  BY DEF IInv, TypeOK, MutexInv, HomeInv, NoZombieEntry, WipeInv,
      RegisterAlive, Works, Fails, RefreshAlive
<1>4. NoZombieEntry'
  BY DEF IInv, TypeOK, NoZombieEntry, HomeInv, MutexInv, WipeInv,
      RegisterAlive, Works, Fails, RefreshAlive
<1>5. WipeInv'
  BY DEF IInv, TypeOK, WipeInv, RegisterAlive, Works, Fails, RefreshAlive
<1>6. NoOrphan'
  BY DEF IInv, TypeOK, NoOrphan, HomeInv, MutexInv, NoZombieEntry, VictimInv,
      AdminInv, WipeInv, RegisterAlive, Works, Fails, RefreshAlive
<1>7. VictimInv' /\ AdminInv'
  BY DEF IInv, VictimInv, AdminInv, RegisterAlive, Works, Fails, RefreshAlive
<1>8. QED
  BY <1>1, <1>2, <1>3, <1>4, <1>5, <1>6, <1>7 DEF IInv

(* SET bot_owner, or the error return that releases regMu. *)
LEMMA RegisterOwnerStep == ASSUME NEW c \in Conns, IInv, RegisterOwner(c) PROVE IInv'
<1>1. TypeOK'
  BY DEF IInv, TypeOK, RegisterOwner, RegisterError, Finish, Works, Fails,
      Closed
<1>2. HomeInv'
  BY DEF IInv, TypeOK, HomeInv, WipeInv, RegisterOwner, RegisterError, Finish,
      Works, Fails, Closed
<1>3. MutexInv'
  BY DEF IInv, TypeOK, MutexInv, HomeInv, NoZombieEntry, WipeInv,
      RegisterOwner, RegisterError, Finish, Works, Fails, Closed
<1>4. NoZombieEntry'
  BY DEF IInv, TypeOK, NoZombieEntry, HomeInv, MutexInv, WipeInv,
      RegisterOwner, RegisterError, Finish, Works, Fails, Closed
<1>5. WipeInv'
  BY DEF IInv, TypeOK, WipeInv, RegisterOwner, RegisterError, Finish, Works,
      Fails, Closed
<1>6. NoOrphan'
  BY DEF IInv, TypeOK, NoOrphan, HomeInv, MutexInv, NoZombieEntry, VictimInv,
      AdminInv, WipeInv, RegisterOwner, RegisterError, Finish, Works, Fails,
      Closed
<1>7. VictimInv' /\ AdminInv'
  BY DEF IInv, VictimInv, AdminInv, RegisterOwner, RegisterError, Finish,
      Works, Fails, Closed
<1>8. QED
  BY <1>1, <1>2, <1>3, <1>4, <1>5, <1>6, <1>7 DEF IInv

(* bots.Store overwrites nothing, because regMu is held and bots is empty. *)
LEMMA RegisterStoreStep == ASSUME NEW c \in Conns, IInv, RegisterStore(c) PROVE IInv'
<1>1. TypeOK'
  BY DEF IInv, TypeOK, HomeInv, WipeInv, RegisterStore
<1>2. HomeInv'
  BY DEF IInv, TypeOK, HomeInv, WipeInv, RegisterStore
<1>3. MutexInv'
  BY DEF IInv, TypeOK, MutexInv, HomeInv, NoZombieEntry, WipeInv,
      RegisterStore
<1>4. NoZombieEntry'
  BY DEF IInv, TypeOK, NoZombieEntry, HomeInv, MutexInv, WipeInv,
      RegisterStore
<1>5. WipeInv'
  BY DEF IInv, TypeOK, WipeInv, RegisterStore
<1>6. NoOrphan'
  BY DEF IInv, TypeOK, NoOrphan, HomeInv, MutexInv, NoZombieEntry, VictimInv,
      AdminInv, WipeInv, RegisterStore
<1>7. VictimInv' /\ AdminInv'
  BY DEF IInv, VictimInv, AdminInv, RegisterStore
<1>8. QED
  BY <1>1, <1>2, <1>3, <1>4, <1>5, <1>6, <1>7 DEF IInv

(* UnregisterBot removes its own connection or nothing. *)
LEMMA UnregisterLocalStep == ASSUME NEW c \in Conns, IInv, UnregisterLocal(c) PROVE IInv'
<1>1. TypeOK'
  <2>1. CASE bots[home[c]] \notin {None, c}
    BY <2>1 DEF IInv, TypeOK, UnregisterLocal, Finish
  <2>2. CASE bots[home[c]] \in {None, c}
    <3>1. home[c] \in Workers
      BY DEF IInv, HomeInv, UnregisterLocal
    <3>2. /\ bots' = [bots EXCEPT ![home[c]] = None]
          /\ botGens' = [botGens EXCEPT ![home[c]] = 0]
          /\ tracked' = tracked \ {home[c]}
          /\ wipe' = [wipe EXCEPT ![c] = "check"]
          /\ wipeGen' = [wipeGen EXCEPT ![c] = botGens[home[c]]]
          /\ pc' = [pc EXCEPT ![c] = "gone"]
          /\ UNCHANGED <<redis, rcVars, ibVars, home, open, claim, sweeps, admins,
                         life, regMu, hb, faults>>
      BY <2>2 DEF UnregisterLocal, UnregisterBody, ForgetLocal
    <3>3. /\ bots' \in [Workers -> Conns \cup {None}]
          /\ botGens' \in [Workers -> Nat] /\ tracked' \subseteq Workers
      BY <3>2 DEF IInv, TypeOK
    <3>4. /\ wipe' \in [Wipers -> {"idle", "check", "zrem", "owner", "gen"}]
          /\ wipeGen' \in [Wipers -> Nat]
          /\ pc' \in [Conns -> {"idle", "wait", "serving", "gone"} \cup Critical]
      BY <3>1, <3>2 DEF IInv, TypeOK
    <3>5. QED
      BY <3>2, <3>3, <3>4 DEF IInv, TypeOK
  <2>3. QED
    BY <2>1, <2>2
<1>2. HomeInv'
  BY DEF IInv, TypeOK, HomeInv, WipeInv, UnregisterLocal, Finish,
      UnregisterBody, ForgetLocal
<1>3. MutexInv'
  BY DEF IInv, TypeOK, MutexInv, HomeInv, NoZombieEntry, WipeInv,
      UnregisterLocal, Finish, UnregisterBody, ForgetLocal
<1>4. NoZombieEntry'
  BY DEF IInv, TypeOK, NoZombieEntry, HomeInv, MutexInv, WipeInv,
      UnregisterLocal, Finish, UnregisterBody, ForgetLocal
<1>5. WipeInv'
  BY DEF IInv, TypeOK, WipeInv, UnregisterLocal, Finish, UnregisterBody,
      ForgetLocal
<1>6. NoOrphan'
  BY DEF IInv, TypeOK, NoOrphan, HomeInv, MutexInv, NoZombieEntry, VictimInv,
      AdminInv, WipeInv, UnregisterLocal, Finish, UnregisterBody, ForgetLocal
<1>7. VictimInv' /\ AdminInv'
  BY DEF IInv, VictimInv, AdminInv, UnregisterLocal, Finish, UnregisterBody,
      ForgetLocal
<1>8. QED
  BY <1>1, <1>2, <1>3, <1>4, <1>5, <1>6, <1>7 DEF IInv

(* The generation check ends the clean-up or lets it start. *)
LEMMA WipeCheckStep == ASSUME NEW x \in Wipers, IInv, WipeCheck(x) PROVE IInv'
<1>1. TypeOK'
  BY DEF IInv, TypeOK, WipeCheck, Works, Fails, Finish
<1>2. HomeInv'
  BY DEF IInv, TypeOK, HomeInv, WipeInv, WipeCheck, Works, Fails, Finish
<1>3. MutexInv'
  BY DEF IInv, TypeOK, MutexInv, HomeInv, NoZombieEntry, WipeInv, WipeCheck,
      Works, Fails, Finish
<1>4. NoZombieEntry'
  BY DEF IInv, TypeOK, NoZombieEntry, HomeInv, MutexInv, WipeInv, WipeCheck,
      Works, Fails, Finish
<1>5. WipeInv'
  BY DEF IInv, TypeOK, WipeInv, WipeCheck, Works, Fails, Finish
<1>6. NoOrphan'
  BY DEF IInv, TypeOK, NoOrphan, HomeInv, MutexInv, NoZombieEntry, VictimInv,
      AdminInv, WipeInv, WipeCheck, Works, Fails, Finish
<1>7. VictimInv' /\ AdminInv'
  BY DEF IInv, VictimInv, AdminInv, WipeCheck, Works, Fails, Finish
<1>8. QED
  BY <1>1, <1>2, <1>3, <1>4, <1>5, <1>6, <1>7 DEF IInv

(* ZREM bot_alive touches Redis only. *)
LEMMA WipeAliveStep == ASSUME NEW x \in Wipers, IInv, WipeAlive(x) PROVE IInv'
<1>1. TypeOK'
  BY DEF IInv, TypeOK, WipeAlive, Works, Fails
<1>2. WipeInv'
  BY DEF IInv, TypeOK, WipeInv, WipeAlive, Works, Fails
<1>3. HomeInv' /\ MutexInv' /\ NoZombieEntry' /\ VictimInv' /\ AdminInv' /\ NoOrphan'
  BY DEF IInv, HomeInv, MutexInv, NoZombieEntry, VictimInv, AdminInv,
      NoOrphan, WipeAlive, Works, Fails
<1>4. QED
  BY <1>1, <1>2, <1>3 DEF IInv

(* DEL bot_owner touches Redis only. *)
LEMMA WipeOwnerStep == ASSUME NEW x \in Wipers, IInv, WipeOwner(x) PROVE IInv'
<1>1. TypeOK'
  BY DEF IInv, TypeOK, WipeOwner, Works, Fails
<1>2. WipeInv'
  BY DEF IInv, TypeOK, WipeInv, WipeOwner, Works, Fails
<1>3. HomeInv' /\ MutexInv' /\ NoZombieEntry' /\ VictimInv' /\ AdminInv' /\ NoOrphan'
  BY DEF IInv, HomeInv, MutexInv, NoZombieEntry, VictimInv, AdminInv,
      NoOrphan, WipeOwner, Works, Fails
<1>4. QED
  BY <1>1, <1>2, <1>3 DEF IInv

(* DEL bot_gen ends the clean-up and with it the handler. *)
LEMMA WipeGenStep == ASSUME NEW x \in Wipers, IInv, WipeGen(x) PROVE IInv'
<1>1. TypeOK'
  BY DEF IInv, TypeOK, WipeGen, Works, Fails, Finish
<1>2. HomeInv'
  BY DEF IInv, TypeOK, HomeInv, WipeInv, WipeGen, Works, Fails, Finish
<1>3. MutexInv'
  BY DEF IInv, TypeOK, MutexInv, HomeInv, NoZombieEntry, WipeInv, WipeGen,
      Works, Fails, Finish
<1>4. NoZombieEntry'
  BY DEF IInv, TypeOK, NoZombieEntry, HomeInv, MutexInv, WipeInv, WipeGen,
      Works, Fails, Finish
<1>5. WipeInv'
  BY DEF IInv, TypeOK, WipeInv, WipeGen, Works, Fails, Finish
<1>6. NoOrphan'
  BY DEF IInv, TypeOK, NoOrphan, HomeInv, MutexInv, NoZombieEntry, VictimInv,
      AdminInv, WipeInv, WipeGen, Works, Fails, Finish
<1>7. VictimInv' /\ AdminInv'
  BY DEF IInv, VictimInv, AdminInv, WipeGen, Works, Fails, Finish
<1>8. QED
  BY <1>1, <1>2, <1>3, <1>4, <1>5, <1>6, <1>7 DEF IInv

(* doHeartbeat reads bots. *)
LEMMA HeartbeatSnapStep == ASSUME NEW w \in Workers, IInv, HeartbeatSnap(w) PROVE IInv'
<1>1. TypeOK'
  BY DEF IInv, TypeOK, HeartbeatSnap
<1>2. HomeInv' /\ MutexInv' /\ NoZombieEntry' /\ VictimInv' /\ AdminInv' /\ WipeInv' /\ NoOrphan'
  BY DEF IInv, HomeInv, MutexInv, NoZombieEntry, VictimInv, AdminInv, WipeInv,
      NoOrphan, HeartbeatSnap
<1>3. QED
  BY <1>1, <1>2 DEF IInv

(* doHeartbeat writes bot_alive. *)
LEMMA HeartbeatWriteStep == ASSUME NEW w \in Workers, IInv, HeartbeatWrite(w) PROVE IInv'
<1>1. TypeOK'
  BY DEF IInv, TypeOK, HeartbeatWrite, Works, Fails, RefreshAlive
<1>2. HomeInv' /\ MutexInv' /\ NoZombieEntry' /\ VictimInv' /\ AdminInv' /\ WipeInv' /\ NoOrphan'
  BY DEF IInv, HomeInv, MutexInv, NoZombieEntry, VictimInv, AdminInv, WipeInv,
      NoOrphan, HeartbeatWrite, Works, Fails, RefreshAlive
<1>3. QED
  BY <1>1, <1>2 DEF IInv

(* Time passes. *)
LEMMA ExpireStep == ASSUME IInv, Expire PROVE IInv'
<1>1. TypeOK'
  BY DEF IInv, TypeOK, Expire
<1>2. HomeInv' /\ MutexInv' /\ NoZombieEntry' /\ VictimInv' /\ AdminInv' /\ WipeInv' /\ NoOrphan'
  BY DEF IInv, HomeInv, MutexInv, NoZombieEntry, VictimInv, AdminInv, WipeInv,
      NoOrphan, Expire
<1>3. QED
  BY <1>1, <1>2 DEF IInv

(* cleanupExpiredBots finds the token expired. *)
LEMMA SweepStartStep == ASSUME NEW w \in Workers, IInv, SweepStart(w) PROVE IInv'
<1>1. TypeOK'
  BY DEF IInv, TypeOK, SweepStart
<1>2. HomeInv' /\ MutexInv' /\ NoZombieEntry' /\ VictimInv' /\ AdminInv' /\ WipeInv' /\ NoOrphan'
  BY DEF IInv, HomeInv, MutexInv, NoZombieEntry, VictimInv, AdminInv, WipeInv,
      NoOrphan, SweepStart
<1>3. QED
  BY <1>1, <1>2 DEF IInv

(* cleanupExpiredBots deletes bot_owner. *)
LEMMA SweepOwnerStep == ASSUME IInv, SweepOwner PROVE IInv'
<1>1. TypeOK'
  BY DEF IInv, TypeOK, SweepOwner, Works, Fails
<1>2. HomeInv' /\ MutexInv' /\ NoZombieEntry' /\ VictimInv' /\ AdminInv' /\ WipeInv' /\ NoOrphan'
  BY DEF IInv, HomeInv, MutexInv, NoZombieEntry, VictimInv, AdminInv, WipeInv,
      NoOrphan, SweepOwner, Works, Fails
<1>3. QED
  BY <1>1, <1>2 DEF IInv

(* cleanupExpiredBots deletes bot_gen. *)
LEMMA SweepGenStep == ASSUME IInv, SweepGen PROVE IInv'
<1>1. TypeOK'
  BY DEF IInv, TypeOK, SweepGen, Works, Fails
<1>2. HomeInv' /\ MutexInv' /\ NoZombieEntry' /\ VictimInv' /\ AdminInv' /\ WipeInv' /\ NoOrphan'
  BY DEF IInv, HomeInv, MutexInv, NoZombieEntry, VictimInv, AdminInv, WipeInv,
      NoOrphan, SweepGen, Works, Fails
<1>3. QED
  BY <1>1, <1>2 DEF IInv

(* cleanupExpiredBots removes the expired entry. *)
LEMMA SweepRangeStep == ASSUME IInv, SweepRange PROVE IInv'
<1>1. TypeOK'
  BY DEF IInv, TypeOK, SweepRange, Works, Fails, SweepOver
<1>2. HomeInv' /\ MutexInv' /\ NoZombieEntry' /\ VictimInv' /\ AdminInv' /\ WipeInv' /\ NoOrphan'
  BY DEF IInv, HomeInv, MutexInv, NoZombieEntry, VictimInv, AdminInv, WipeInv,
      NoOrphan, SweepRange, Works, Fails, SweepOver
<1>3. QED
  BY <1>1, <1>2 DEF IInv

(* doReconcile reads bot_owner. *)
LEMMA ReconcileOwnerStep == ASSUME NEW w \in Workers, IInv, ReconcileOwner(w) PROVE IInv'
<1>1. TypeOK'
  BY DEF IInv, TypeOK, ReconcileOwner, Works, Fails
<1>2. VictimInv'
  BY DEF IInv, TypeOK, VictimInv, ReconcileOwner, Works, Fails
<1>3. HomeInv' /\ MutexInv' /\ NoZombieEntry' /\ AdminInv' /\ WipeInv' /\ NoOrphan'
  BY DEF IInv, HomeInv, MutexInv, NoZombieEntry, AdminInv, WipeInv, NoOrphan,
      ReconcileOwner, Works, Fails
<1>4. QED
  BY <1>1, <1>2, <1>3 DEF IInv

(* doReconcile reads botGens. *)
LEMMA ReconcileLocalStep == ASSUME NEW w \in Workers, IInv, ReconcileLocal(w) PROVE IInv'
<1>1. TypeOK'
  BY DEF IInv, TypeOK, ReconcileLocal
<1>2. VictimInv'
  BY DEF IInv, TypeOK, VictimInv, ReconcileLocal
<1>3. HomeInv' /\ MutexInv' /\ NoZombieEntry' /\ AdminInv' /\ WipeInv' /\ NoOrphan'
  BY DEF IInv, HomeInv, MutexInv, NoZombieEntry, AdminInv, WipeInv, NoOrphan,
      ReconcileLocal
<1>4. QED
  BY <1>1, <1>2, <1>3 DEF IInv

(* doReconcile reads bot_gen. *)
LEMMA ReconcileGenStep == ASSUME NEW w \in Workers, IInv, ReconcileGen(w) PROVE IInv'
<1>1. TypeOK'
  BY DEF IInv, TypeOK, ReconcileGen, Works, Fails
<1>2. VictimInv'
  BY DEF IInv, TypeOK, VictimInv, ReconcileGen, Works, Fails
<1>3. HomeInv' /\ MutexInv' /\ NoZombieEntry' /\ AdminInv' /\ WipeInv' /\ NoOrphan'
  BY DEF IInv, HomeInv, MutexInv, NoZombieEntry, AdminInv, WipeInv, NoOrphan,
      ReconcileGen, Works, Fails
<1>4. QED
  BY <1>1, <1>2, <1>3 DEF IInv

(* evictLocal takes the connection out of bots: the evictor now holds it. *)
LEMMA ReconcileTakeStep == ASSUME NEW w \in Workers, IInv, ReconcileTake(w) PROVE IInv'
<1>1. TypeOK'
  BY DEF IInv, TypeOK, ReconcileTake
<1>2. MutexInv'
  BY DEF IInv, TypeOK, MutexInv, HomeInv, NoZombieEntry, WipeInv,
      ReconcileTake
<1>3. NoZombieEntry'
  BY DEF IInv, TypeOK, NoZombieEntry, HomeInv, MutexInv, WipeInv,
      ReconcileTake
<1>4. VictimInv'
  BY DEF IInv, TypeOK, VictimInv, ReconcileTake
<1>5. NoOrphan'
  BY DEF IInv, TypeOK, NoOrphan, HomeInv, MutexInv, NoZombieEntry, VictimInv,
      AdminInv, WipeInv, ReconcileTake
<1>6. HomeInv' /\ AdminInv' /\ WipeInv'
  BY DEF IInv, HomeInv, AdminInv, WipeInv, ReconcileTake
<1>7. QED
  BY <1>1, <1>2, <1>3, <1>4, <1>5, <1>6 DEF IInv

(* evictLocal closes the connection it took. *)
LEMMA ReconcileClearStep == ASSUME NEW w \in Workers, IInv, ReconcileClear(w) PROVE IInv'
<1>1. TypeOK'
  BY DEF IInv, TypeOK, ReconcileClear, Closed
<1>2. VictimInv'
  BY DEF IInv, TypeOK, VictimInv, ReconcileClear, Closed
<1>3. NoOrphan'
  BY DEF IInv, TypeOK, NoOrphan, HomeInv, MutexInv, NoZombieEntry, VictimInv,
      AdminInv, WipeInv, ReconcileClear, Closed
<1>4. HomeInv' /\ MutexInv' /\ NoZombieEntry' /\ AdminInv' /\ WipeInv'
  BY DEF IInv, HomeInv, MutexInv, NoZombieEntry, AdminInv, WipeInv,
      ReconcileClear, Closed
<1>5. QED
  BY <1>1, <1>2, <1>3, <1>4 DEF IInv

(* A disconnect message is consumed. *)
LEMMA InboxConsumeStep == ASSUME NEW w \in Workers, IInv, InboxConsume(w) PROVE IInv'
<1>1. TypeOK'
  BY DEF IInv, TypeOK, InboxConsume
<1>2. VictimInv'
  BY DEF IInv, TypeOK, VictimInv, InboxConsume
<1>3. HomeInv' /\ MutexInv' /\ NoZombieEntry' /\ AdminInv' /\ WipeInv' /\ NoOrphan'
  BY DEF IInv, HomeInv, MutexInv, NoZombieEntry, AdminInv, WipeInv, NoOrphan,
      InboxConsume
<1>4. QED
  BY <1>1, <1>2, <1>3 DEF IInv

(* evictLocal, called for a disconnect message, takes the connection. *)
LEMMA InboxTakeStep == ASSUME NEW w \in Workers, IInv, InboxTake(w) PROVE IInv'
<1>1. TypeOK'
  BY DEF IInv, TypeOK, InboxTake
<1>2. MutexInv'
  BY DEF IInv, TypeOK, MutexInv, HomeInv, NoZombieEntry, WipeInv, InboxTake
<1>3. NoZombieEntry'
  BY DEF IInv, TypeOK, NoZombieEntry, HomeInv, MutexInv, WipeInv, InboxTake
<1>4. VictimInv'
  BY DEF IInv, TypeOK, VictimInv, InboxTake
<1>5. NoOrphan'
  BY DEF IInv, TypeOK, NoOrphan, HomeInv, MutexInv, NoZombieEntry, VictimInv,
      AdminInv, WipeInv, InboxTake
<1>6. HomeInv' /\ AdminInv' /\ WipeInv'
  BY DEF IInv, HomeInv, AdminInv, WipeInv, InboxTake
<1>7. QED
  BY <1>1, <1>2, <1>3, <1>4, <1>5, <1>6 DEF IInv

(* evictLocal, called for a disconnect message, closes it. *)
LEMMA InboxClearStep == ASSUME NEW w \in Workers, IInv, InboxClear(w) PROVE IInv'
<1>1. TypeOK'
  BY DEF IInv, TypeOK, InboxClear, Closed
<1>2. VictimInv'
  BY DEF IInv, TypeOK, VictimInv, InboxClear, Closed
<1>3. NoOrphan'
  BY DEF IInv, TypeOK, NoOrphan, HomeInv, MutexInv, NoZombieEntry, VictimInv,
      AdminInv, WipeInv, InboxClear, Closed
<1>4. HomeInv' /\ MutexInv' /\ NoZombieEntry' /\ AdminInv' /\ WipeInv'
  BY DEF IInv, HomeInv, MutexInv, NoZombieEntry, AdminInv, WipeInv,
      InboxClear, Closed
<1>5. QED
  BY <1>1, <1>2, <1>3, <1>4 DEF IInv

(* The token is deleted and RemoveBotSessions starts. *)
LEMMA AdminDeleteStep == ASSUME NEW w \in Workers, IInv, AdminDelete(w) PROVE IInv'
<1>1. TypeOK'
  <2>1. valid' \in BOOLEAN /\ admin' \in {"local", "wipe"} /\ adWorker' \in Workers
    BY DEF AdminDelete
  <2>2. faults' \in 0 .. MaxFaults
    BY DEF IInv, TypeOK, AdminDelete, Works, Fails
  <2>3. QED
    BY <2>1, <2>2 DEF IInv, TypeOK, AdminDelete
<1>2. AdminInv'
  BY DEF IInv, TypeOK, AdminInv, AdminDelete, Works, Fails
<1>3. NoOrphan'
  BY DEF IInv, TypeOK, NoOrphan, HomeInv, MutexInv, NoZombieEntry, VictimInv,
      AdminInv, WipeInv, AdminDelete, Works, Fails
<1>4. HomeInv' /\ MutexInv' /\ NoZombieEntry' /\ VictimInv' /\ WipeInv'
  BY DEF IInv, HomeInv, MutexInv, NoZombieEntry, VictimInv, WipeInv,
      AdminDelete, Works, Fails
<1>5. QED
  BY <1>1, <1>2, <1>3, <1>4 DEF IInv

(* RemoveBotSessions closes the local connection. *)
LEMMA AdminLocalStep == ASSUME IInv, AdminLocal PROVE IInv'
<1>1. TypeOK'
  BY DEF IInv, TypeOK, AdminInv, AdminLocal, Closed
<1>2. AdminInv'
  BY DEF IInv, TypeOK, AdminInv, AdminLocal, Closed
<1>3. NoOrphan'
  BY DEF IInv, TypeOK, NoOrphan, HomeInv, MutexInv, NoZombieEntry, VictimInv,
      AdminInv, WipeInv, AdminLocal, Closed
<1>4. HomeInv' /\ MutexInv' /\ NoZombieEntry' /\ VictimInv' /\ WipeInv'
  BY DEF IInv, HomeInv, MutexInv, NoZombieEntry, VictimInv, WipeInv,
      AdminLocal, Closed
<1>5. QED
  BY <1>1, <1>2, <1>3, <1>4 DEF IInv

(* UnregisterBot(nil) runs for a deleted token only. *)
LEMMA AdminUnregisterStep == ASSUME IInv, AdminUnregister PROVE IInv'
<1>1. TypeOK'
  BY DEF IInv, TypeOK, AdminInv, AdminUnregister, UnregisterBody, ForgetLocal
<1>2. MutexInv'
  BY DEF IInv, TypeOK, MutexInv, HomeInv, NoZombieEntry, WipeInv,
      AdminUnregister, UnregisterBody, ForgetLocal
<1>3. NoZombieEntry'
  BY DEF IInv, TypeOK, NoZombieEntry, HomeInv, MutexInv, WipeInv,
      AdminUnregister, UnregisterBody, ForgetLocal
<1>4. AdminInv'
  BY DEF IInv, TypeOK, AdminInv, AdminUnregister, UnregisterBody, ForgetLocal
<1>5. WipeInv'
  BY DEF IInv, TypeOK, WipeInv, AdminUnregister, UnregisterBody, ForgetLocal
<1>6. NoOrphan'
  BY DEF IInv, TypeOK, NoOrphan, HomeInv, MutexInv, NoZombieEntry, VictimInv,
      AdminInv, WipeInv, AdminUnregister, UnregisterBody, ForgetLocal
<1>7. HomeInv' /\ VictimInv'
  BY DEF IInv, HomeInv, VictimInv, AdminUnregister, UnregisterBody,
      ForgetLocal
<1>8. QED
  BY <1>1, <1>2, <1>3, <1>4, <1>5, <1>6, <1>7 DEF IInv

(* RemoveBotSessions resolves the owner. *)
LEMMA AdminRouteStep == ASSUME IInv, AdminRoute PROVE IInv'
<1>1. TypeOK'
  BY DEF IInv, TypeOK, AdminInv, AdminRoute, Works, Fails
<1>2. AdminInv'
  BY DEF IInv, TypeOK, AdminInv, AdminRoute, Works, Fails
<1>3. WipeInv'
  BY DEF IInv, TypeOK, WipeInv, AdminRoute, Works, Fails
<1>4. HomeInv' /\ MutexInv' /\ NoZombieEntry' /\ VictimInv' /\ NoOrphan'
  BY DEF IInv, HomeInv, MutexInv, NoZombieEntry, VictimInv, NoOrphan,
      AdminRoute, Works, Fails
<1>5. QED
  BY <1>1, <1>2, <1>3, <1>4 DEF IInv

(* RemoveBotSessions publishes the disconnect message. *)
LEMMA AdminPublishStep == ASSUME IInv, AdminPublish PROVE IInv'
<1>1. TypeOK'
  BY DEF IInv, TypeOK, AdminInv, AdminPublish, Works, Fails
<1>2. AdminInv'
  BY DEF IInv, TypeOK, AdminInv, AdminPublish, Works, Fails
<1>3. WipeInv'
  BY DEF IInv, TypeOK, WipeInv, AdminPublish, Works, Fails
<1>4. HomeInv' /\ MutexInv' /\ NoZombieEntry' /\ VictimInv' /\ NoOrphan'
  BY DEF IInv, HomeInv, MutexInv, NoZombieEntry, VictimInv, NoOrphan,
      AdminPublish, Works, Fails
<1>5. QED
  BY <1>1, <1>2, <1>3, <1>4 DEF IInv

(* shuttingDown is set while no registration holds regMu. *)
LEMMA ShutdownStartStep == ASSUME NEW w \in Workers, IInv, ShutdownStart(w) PROVE IInv'
<1>1. TypeOK'
  BY DEF IInv, TypeOK, ShutdownStart
<1>2. MutexInv'
  BY DEF IInv, TypeOK, MutexInv, HomeInv, NoZombieEntry, WipeInv,
      ShutdownStart
<1>3. HomeInv' /\ NoZombieEntry' /\ VictimInv' /\ AdminInv' /\ WipeInv' /\ NoOrphan'
  BY DEF IInv, HomeInv, NoZombieEntry, VictimInv, AdminInv, WipeInv, NoOrphan,
      ShutdownStart
<1>4. QED
  BY <1>1, <1>2, <1>3 DEF IInv

(* Shutdown closes the connection and leaves it in bots. *)
LEMMA ShutdownRangeStep == ASSUME NEW w \in Workers, IInv, ShutdownRange(w) PROVE IInv'
<1>1. TypeOK'
  BY DEF IInv, TypeOK, ShutdownRange, Closed
<1>2. MutexInv'
  BY DEF IInv, TypeOK, MutexInv, HomeInv, NoZombieEntry, WipeInv,
      ShutdownRange, Closed
<1>3. WipeInv'
  BY DEF IInv, TypeOK, WipeInv, ShutdownRange, Closed
<1>4. NoOrphan'
  BY DEF IInv, TypeOK, NoOrphan, HomeInv, MutexInv, NoZombieEntry, VictimInv,
      AdminInv, WipeInv, ShutdownRange, Closed
<1>5. HomeInv' /\ NoZombieEntry' /\ VictimInv' /\ AdminInv'
  BY DEF IInv, HomeInv, NoZombieEntry, VictimInv, AdminInv, ShutdownRange,
      Closed
<1>6. QED
  BY <1>1, <1>2, <1>3, <1>4, <1>5 DEF IInv

(* A process that is gone takes its connections with it. *)
LEMMA HaltStep == ASSUME NEW w \in Workers, IInv, Halt(w) PROVE IInv'
<1>1. TypeOK'
  BY DEF IInv, TypeOK, AdminInv, Halt, ForgetLocal, SweepOver
<1>2. HomeInv'
  BY DEF IInv, TypeOK, HomeInv, WipeInv, Halt, ForgetLocal, SweepOver
<1>3. MutexInv'
  BY DEF IInv, TypeOK, MutexInv, HomeInv, NoZombieEntry, WipeInv, Halt,
      ForgetLocal, SweepOver
<1>4. NoZombieEntry'
  BY DEF IInv, TypeOK, NoZombieEntry, HomeInv, MutexInv, WipeInv, Halt,
      ForgetLocal, SweepOver
<1>5. VictimInv'
  BY DEF IInv, TypeOK, VictimInv, Halt, ForgetLocal, SweepOver
<1>6. AdminInv'
  BY DEF IInv, TypeOK, AdminInv, Halt, ForgetLocal, SweepOver
<1>7. WipeInv'
  BY DEF IInv, TypeOK, WipeInv, Halt, ForgetLocal, SweepOver
<1>8. NoOrphan'
  BY DEF IInv, TypeOK, NoOrphan, HomeInv, MutexInv, NoZombieEntry, VictimInv,
      AdminInv, WipeInv, Halt, ForgetLocal, SweepOver
<1>9. QED
  BY <1>1, <1>2, <1>3, <1>4, <1>5, <1>6, <1>7, <1>8 DEF IInv

-----------------------------------------------------------------------------
(* Every step of the system keeps the invariant. *)
LEMMA NextInv == IInv /\ [Next]_vars => IInv'
<1> SUFFICES ASSUME IInv, [Next]_vars PROVE IInv'
  OBVIOUS
<1>1. CASE UNCHANGED vars
  BY <1>1 DEF IInv, TypeOK, HomeInv, MutexInv, NoZombieEntry, VictimInv, AdminInv,
      WipeInv, NoOrphan, vars
<1>2. ASSUME NEW c \in Conns, NEW w \in Workers, Connect(c, w) PROVE IInv'
  BY <1>2, ConnectStep
<1>3. ASSUME NEW c \in Conns, Drop(c) \/ Registration(c) \/ UnregisterLocal(c)
      PROVE IInv'
  BY <1>3, DropStep, RegisterLockStep, RegisterIncrStep, RegisterAliveStep,
     RegisterOwnerStep, RegisterStoreStep, UnregisterLocalStep DEF Registration
<1>4. ASSUME NEW x \in Wipers, Wipe(x) PROVE IInv'
  BY <1>4, WipeCheckStep, WipeAliveStep, WipeOwnerStep, WipeGenStep DEF Wipe
<1>5. ASSUME NEW w \in Workers, Heartbeat(w) \/ Reconcile(w) \/ Inbox(w) PROVE IInv'
  BY <1>5, HeartbeatSnapStep, HeartbeatWriteStep, ReconcileOwnerStep,
     ReconcileLocalStep, ReconcileGenStep, ReconcileTakeStep, ReconcileClearStep,
     InboxConsumeStep, InboxTakeStep, InboxClearStep DEF Heartbeat, Reconcile, Inbox
<1>6. ASSUME NEW w \in Workers,
             AdminDelete(w) \/ ShutdownStart(w) \/ ShutdownRange(w) \/ Exit(w) \/ Crash(w)
      PROVE IInv'
  BY <1>6, AdminDeleteStep, ShutdownStartStep, ShutdownRangeStep, HaltStep
     DEF Exit, Crash
<1>7. CASE Expire
  BY <1>7, ExpireStep
<1>8. CASE Sweep
  BY <1>8, SweepStartStep, SweepOwnerStep, SweepGenStep, SweepRangeStep DEF Sweep
<1>9. CASE AdminStep
  BY <1>9, AdminLocalStep, AdminUnregisterStep, AdminRouteStep, AdminPublishStep
     DEF AdminStep
<1>10. QED
  BY <1>1, <1>2, <1>3, <1>4, <1>5, <1>6, <1>7, <1>8, <1>9 DEF Next

(* The strengthened invariant holds in every reachable state of the        *)
(* registry code.                                                          *)
LEMMA Invariance == Spec => []IInv
  BY InitInv, NextInv, PTL DEF Spec

(* The registry's variables keep their types: in particular every          *)
(* generation, message count and fault count stays in range.               *)
THEOREM TypeCorrect == Spec => []TypeOK
<1>1. IInv => TypeOK
  BY DEF IInv
<1>2. QED
  BY <1>1, Invariance, PTL

(* Shutdown and RegisterBot exclude each other: once shuttingDown is set   *)
(* no registration is in progress, on any worker.                          *)
THEOREM ShutdownSafe == Spec => []ShutdownAdmitsNoBot
<1>1. IInv => ShutdownAdmitsNoBot
  BY DEF IInv, MutexInv, ShutdownAdmitsNoBot
<1>2. QED
  BY <1>1, Invariance, PTL

(* bots never holds a connection whose handler has returned or that        *)
(* belongs to another worker.                                              *)
THEOREM ZombieFree == Spec => []NoZombieEntry
<1>1. IInv => NoZombieEntry
  BY DEF IInv
<1>2. QED
  BY <1>1, Invariance, PTL

(* No open connection of a valid token is forgotten by its worker, however *)
(* registrations, evictions, disconnects, clean-ups, crashes and Redis     *)
(* errors interleave.                                                      *)
THEOREM OrphanFree == Spec => []NoOrphan
<1>1. IInv => NoOrphan
  BY DEF IInv
<1>2. QED
  BY <1>1, Invariance, PTL

=============================================================================
