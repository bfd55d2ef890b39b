------------------------------ MODULE BotRegistry ------------------------------
(***************************************************************************)
(* Which worker holds a bot's WebSocket: ConnectionBridge.RegisterBot,     *)
(* UnregisterBot, evictLocal, RemoveBotSessions, Shutdown and the          *)
(* heartbeat, cleanup, reconcile and worker-inbox goroutines of            *)
(* backend/internal/service, with the /bridge/bot handler that calls them. *)
(*                                                                         *)
(* Every Redis key involved is a key of ONE token, so the module follows   *)
(* one token.  Each Redis command is one step; the Go statements between   *)
(* two commands are part of the step before or after them, except in       *)
(* evictLocal, which runs without regMu when reconcile or a disconnect     *)
(* message calls it and is therefore split after LoadAndDelete.            *)
(***************************************************************************)
EXTENDS Integers

CONSTANTS
    Workers,      \* backend processes (workerID)
    Conns,        \* bot WebSocket connections of the token, each used once
    Admin,        \* the admin request that deletes the token
    None,
    Droppable,    \* connections the bot or the network may close
    Beating,      \* workers whose heartbeat ticker fires
    Crashable,    \* workers that may die without a shutdown
    Stoppable,    \* workers that may be shut down
    Deletable,    \* may an admin delete the token?
    LateBeats,    \* may a held bot go BotTTL without a heartbeat?
    MaxFaults     \* bound on failing Redis commands and database deletes

ASSUME ConstantsAssumption ==
    /\ None \notin Workers \cup Conns
    /\ Admin \notin Workers \cup Conns
    /\ Workers \cap Conns = {}
    /\ Droppable \subseteq Conns
    /\ Beating \subseteq Workers
    /\ Crashable \subseteq Workers
    /\ Stoppable \subseteq Workers
    /\ Deletable \in BOOLEAN
    /\ LateBeats \in BOOLEAN
    /\ MaxFaults \in Nat

(* Whoever may run cleanupSharedBotState: the deferred UnregisterBot of a  *)
(* connection, the Shutdown of a worker, the admin request.                *)
Wipers == Conns \cup Workers \cup {Admin}

VARIABLES
    (* Redis *)
    gen,          \* bridge:bot_gen:<token>; 0 when the key is absent
    owner,        \* bridge:bot_owner:<token>
    alive,        \* the token's entry of bridge:bot_alive, see Scores
    inbox,        \* disconnect messages waiting in bridge:worker_inbox:<worker>
    (* the database *)
    valid,        \* the token exists
    (* each worker *)
    life,         \* "up", "stopping" (shuttingDown set), "closing" (bots closed), "down"
    regMu,        \* the connection whose RegisterBot holds regMu
    bots,
    botGens,      \* 0 when there is no entry
    tracked,      \* the workers that have the token in their reconcile ring
    hb,           \* the workers whose doHeartbeat has the token in its snapshot
    rc, rcGen, rcVictim,   \* doReconcile: phase, localGen, connection taken
    ib, ibVictim,          \* a worker-inbox consumer handling a disconnect
    (* each connection's handler goroutine *)
    home,         \* the worker it reached
    pc,
    open,         \* the connections whose socket is open
    claim,        \* the generation its RegisterBot claimed
    (* shared clean-up in progress *)
    wipe, wipeGen,
    (* cleanupExpiredBots, one sweep at a time under bridge:cleanup_lock *)
    sweep, sweeper,
    (* RemoveBotSessions *)
    admin, adWorker, adRoute,
    faults        \* Redis commands and database deletes that have failed so far

redis   == <<gen, owner, alive>>
local   == <<bots, botGens, tracked>>
rcVars  == <<rc, rcGen, rcVictim>>
ibVars  == <<inbox, ib, ibVictim>>
conns   == <<home, pc, open, claim>>
wipers  == <<wipe, wipeGen>>
sweeps  == <<sweep, sweeper>>
admins  == <<valid, admin, adWorker, adRoute>>

vars == <<redis, local, rcVars, ibVars, conns, wipers, sweeps, admins,
          life, regMu, hb, faults>>

(* Scores of the entry, relative to the clock: younger than BotTTL, older, *)
(* or old enough for the cutoff of the sweep that is under way.            *)
Scores == {"none", "fresh", "stale", "doomed"}

Critical == {"incr", "zadd", "set", "store"}     \* inside RegisterBot, regMu held

TypeOK ==
    /\ gen \in Nat
    /\ owner \in Workers \cup {None}
    /\ alive \in Scores
    /\ inbox \in [Workers -> Nat]
    /\ valid \in BOOLEAN
    /\ life \in [Workers -> {"up", "stopping", "closing", "down"}]
    /\ regMu \in [Workers -> Conns \cup {None}]
    /\ bots \in [Workers -> Conns \cup {None}]
    /\ botGens \in [Workers -> Nat]
    /\ tracked \subseteq Workers
    /\ hb \subseteq Workers
    /\ rc \in [Workers -> {"idle", "local", "gen", "evict", "clear"}]
    /\ rcGen \in [Workers -> Nat]
    /\ rcVictim \in [Workers -> Conns \cup {None}]
    /\ ib \in [Workers -> {"idle", "evict", "clear"}]
    /\ ibVictim \in [Workers -> Conns \cup {None}]
    /\ home \in [Conns -> Workers \cup {None}]
    /\ pc \in [Conns -> {"idle", "wait", "serving", "gone"} \cup Critical]
    /\ open \subseteq Conns
    /\ claim \in [Conns -> Nat]
    /\ wipe \in [Wipers -> {"idle", "check", "zrem", "owner", "gen"}]
    /\ wipeGen \in [Wipers -> Nat]
    /\ sweep \in {"idle", "owner", "gen", "zrem"}
    /\ sweeper \in Workers \cup {None}
    /\ admin \in {"idle", "local", "unreg", "route", "publish", "wipe"}
    /\ adWorker \in Workers \cup {None}
    /\ adRoute \in Workers \cup {None}
    /\ faults \in 0 .. MaxFaults

Init ==
    /\ gen = 0 /\ owner = None /\ alive = "none"
    /\ inbox = [w \in Workers |-> 0]
    /\ valid = TRUE
    /\ life = [w \in Workers |-> "up"]
    /\ regMu = [w \in Workers |-> None]
    /\ bots = [w \in Workers |-> None]
    /\ botGens = [w \in Workers |-> 0]
    /\ tracked = {}
    /\ hb = {}
    /\ rc = [w \in Workers |-> "idle"]
    /\ rcGen = [w \in Workers |-> 0]
    /\ rcVictim = [w \in Workers |-> None]
    /\ ib = [w \in Workers |-> "idle"]
    /\ ibVictim = [w \in Workers |-> None]
    /\ home = [c \in Conns |-> None]
    /\ pc = [c \in Conns |-> "idle"]
    /\ open = {}
    /\ claim = [c \in Conns |-> 0]
    /\ wipe = [x \in Wipers |-> "idle"]
    /\ wipeGen = [x \in Wipers |-> 0]
    /\ sweep = "idle" /\ sweeper = None
    /\ admin = "idle" /\ adWorker = None /\ adRoute = None
    /\ faults = 0

-----------------------------------------------------------------------------
(* A Redis command succeeds, or fails and the code takes its error path.   *)
Works == UNCHANGED faults
Fails == faults < MaxFaults /\ faults' = faults + 1

(* BotConn.Close of connection c, or of nothing when c is None; closed is  *)
(* a sync.Once, so closing again changes nothing.                          *)
Closed(c) == open \ {c}

(* bots.Delete, botGens.Delete and untrackReconcileToken. *)
ForgetLocal(w) ==
    /\ bots' = [bots EXCEPT ![w] = None]
    /\ botGens' = [botGens EXCEPT ![w] = 0]
    /\ tracked' = tracked \ {w}

(* ZADD bridge:bot_alive with the current time: the entry is fresh, and    *)
(* its score is above the cutoff of a sweep that is under way.             *)
RefreshAlive == alive' = "fresh"

-----------------------------------------------------------------------------
(* The /bridge/bot handler *)

(* wsBot: the token is valid and the connection is upgraded. *)
Connect(c, w) ==
    /\ pc[c] = "idle" /\ life[w] = "up" /\ valid
    /\ home' = [home EXCEPT ![c] = w]
    /\ pc' = [pc EXCEPT ![c] = "wait"]
    /\ open' = open \cup {c}
    /\ UNCHANGED <<redis, local, rcVars, ibVars, claim, wipers, sweeps, admins,
                   life, regMu, hb, faults>>

(* The bot or the network closes the connection. *)
Drop(c) ==
    /\ c \in Droppable \cap open
    /\ open' = Closed(c)
    /\ UNCHANGED <<redis, local, rcVars, ibVars, home, pc, claim, wipers, sweeps,
                   admins, life, regMu, hb, faults>>

(* The handler of x returns (x is not a connection when a shutdown or the  *)
(* admin request ends): nothing of it is left on its worker.               *)
Finish(x) == home' = [c \in Conns |-> IF c = x THEN None ELSE home[c]]

(* RegisterBot returns an error: regMu is released, wsBot closes the       *)
(* connection and returns before its deferred UnregisterBot exists.        *)
RegisterError(c) ==
    /\ Finish(c)
    /\ pc' = [pc EXCEPT ![c] = "gone"]
    /\ claim' = [claim EXCEPT ![c] = 0]
    /\ open' = Closed(c)
    /\ regMu' = [regMu EXCEPT ![home[c]] = None]

(* RegisterBot, up to the generation: the shutdown check and the eviction  *)
(* of a connection this worker already holds.                              *)
RegisterLock(c) ==
    LET w == home[c] IN
    /\ pc[c] = "wait" /\ regMu[w] = None
    /\ \/ /\ life[w] # "up"
          /\ RegisterError(c)
          /\ UNCHANGED local
       \/ /\ life[w] = "up"
          /\ regMu' = [regMu EXCEPT ![w] = c]
          /\ pc' = [pc EXCEPT ![c] = "incr"]
          /\ \/ bots[w] = None /\ UNCHANGED <<local, open>>
             \/ bots[w] # None /\ ForgetLocal(w) /\ open' = Closed(bots[w])
          /\ UNCHANGED <<home, claim>>
    /\ UNCHANGED <<redis, rcVars, ibVars, wipers, sweeps, admins, life, hb, faults>>

(* INCR bot_gen. *)
RegisterIncr(c) ==
    /\ pc[c] = "incr"
    /\ \/ /\ Works
          /\ gen' = gen + 1
          /\ claim' = [claim EXCEPT ![c] = gen + 1]
          /\ pc' = [pc EXCEPT ![c] = "zadd"]
          /\ UNCHANGED <<home, open, regMu>>
       \/ /\ Fails
          /\ RegisterError(c)
          /\ UNCHANGED gen
    /\ UNCHANGED <<owner, alive, local, rcVars, ibVars, wipers, sweeps,
                   admins, life, hb>>

(* ZADD bot_alive; its error is ignored. *)
RegisterAlive(c) ==
    /\ pc[c] = "zadd"
    /\ \/ Works /\ RefreshAlive
       \/ Fails /\ UNCHANGED alive
    /\ pc' = [pc EXCEPT ![c] = "set"]
    /\ UNCHANGED <<gen, owner, local, rcVars, ibVars, home, open, claim, wipers,
                   sweeps, admins, life, regMu, hb>>

(* SetBotOwner. *)
RegisterOwner(c) ==
    /\ pc[c] = "set"
    /\ \/ /\ Works
          /\ owner' = home[c]
          /\ pc' = [pc EXCEPT ![c] = "store"]
          /\ UNCHANGED <<home, open, claim, regMu>>
       \/ /\ Fails
          /\ RegisterError(c)
          /\ UNCHANGED owner
    /\ UNCHANGED <<gen, alive, local, rcVars, ibVars, wipers, sweeps,
                   admins, life, hb>>

(* MUTANT of RegisterStore: the deferred regMu.Unlock is missing. *)
RegisterStoreKeepsLock(c) ==
    LET w == home[c] IN
    /\ pc[c] = "store"
    /\ bots' = [bots EXCEPT ![w] = c]
    /\ botGens' = [botGens EXCEPT ![w] = claim[c]]
    /\ tracked' = tracked \cup {w}
    /\ pc' = [pc EXCEPT ![c] = "serving"]
    /\ claim' = [claim EXCEPT ![c] = 0]
    /\ UNCHANGED <<redis, rcVars, ibVars, home, open, wipers, sweeps, admins,
                   life, regMu, hb, faults>>

(* bots.Store, botGens.Store, trackReconcileToken, and regMu is released. *)
RegisterStore(c) ==
    LET w == home[c] IN
    /\ pc[c] = "store"
    /\ bots' = [bots EXCEPT ![w] = c]
    /\ botGens' = [botGens EXCEPT ![w] = claim[c]]
    /\ tracked' = tracked \cup {w}
    /\ regMu' = [regMu EXCEPT ![w] = None]
    /\ pc' = [pc EXCEPT ![c] = "serving"]
    /\ claim' = [claim EXCEPT ![c] = 0]
    /\ UNCHANGED <<redis, rcVars, ibVars, home, open, wipers, sweeps, admins,
                   life, hb, faults>>

(* MUTANT of UnregisterBody: bots.Delete is missing. *)
UnregisterBodyKeepsBot(x, w) ==
    /\ botGens' = [botGens EXCEPT ![w] = 0]
    /\ tracked' = tracked \ {w}
    /\ wipeGen' = [wipeGen EXCEPT ![x] = botGens[w]]
    /\ wipe' = [wipe EXCEPT ![x] = "check"]
    /\ UNCHANGED bots

(* The body of UnregisterBot under regMu, run by x on worker w. *)
UnregisterBody(x, w) ==
    /\ ForgetLocal(w)
    /\ wipeGen' = [wipeGen EXCEPT ![x] = botGens[w]]
    /\ wipe' = [wipe EXCEPT ![x] = "check"]

(* MUTANT of UnregisterLocal: the comparison with the current connection   *)
(* (Guard 1) is missing.                                                   *)
UnregisterLocalUnguarded(c) ==
    /\ pc[c] = "serving" /\ c \notin open /\ regMu[home[c]] = None
    /\ pc' = [pc EXCEPT ![c] = "gone"]
    /\ UnregisterBody(c, home[c])
    /\ UNCHANGED <<redis, rcVars, ibVars, home, open, claim, sweeps, admins, life,
                   regMu, hb, faults>>

(* The read loop ends and the deferred UnregisterBot(conn) takes regMu; a  *)
(* newer connection of this worker is left alone.                          *)
UnregisterLocal(c) ==
    LET w == home[c] IN
    /\ pc[c] = "serving" /\ c \notin open /\ regMu[w] = None
    /\ pc' = [pc EXCEPT ![c] = "gone"]
    /\ \/ bots[w] \notin {None, c} /\ Finish(c) /\ UNCHANGED <<local, wipers>>
       \/ bots[w] \in {None, c} /\ UnregisterBody(c, w) /\ UNCHANGED home
    /\ UNCHANGED <<redis, rcVars, ibVars, open, claim, sweeps, admins, life,
                   regMu, hb, faults>>

-----------------------------------------------------------------------------
(* shouldSkipSharedCleanup and cleanupSharedBotState, run by x *)

(* GET bot_gen: only a larger generation stops the clean-up; an absent key *)
(* (0) and an error do not.                                                *)
WipeCheck(x) ==
    /\ wipe[x] = "check"
    /\ \/ /\ Works /\ gen > wipeGen[x]
          /\ wipe' = [wipe EXCEPT ![x] = "idle"] /\ Finish(x)
       \/ /\ Works /\ gen <= wipeGen[x]
          /\ wipe' = [wipe EXCEPT ![x] = "zrem"] /\ UNCHANGED home
       \/ /\ Fails
          /\ wipe' = [wipe EXCEPT ![x] = "zrem"] /\ UNCHANGED home
    /\ wipeGen' = [wipeGen EXCEPT ![x] = 0]
    /\ UNCHANGED <<redis, local, rcVars, ibVars, pc, open, claim, sweeps, admins,
                   life, regMu, hb>>

(* ZREM bot_alive. *)
WipeAlive(x) ==
    /\ wipe[x] = "zrem"
    /\ \/ Works /\ alive' = "none"
       \/ Fails /\ UNCHANGED alive
    /\ wipe' = [wipe EXCEPT ![x] = "owner"]
    /\ UNCHANGED <<gen, owner, local, rcVars, ibVars, conns, wipeGen, sweeps,
                   admins, life, regMu, hb>>

(* DEL bot_owner. *)
WipeOwner(x) ==
    /\ wipe[x] = "owner"
    /\ \/ Works /\ owner' = None
       \/ Fails /\ UNCHANGED owner
    /\ wipe' = [wipe EXCEPT ![x] = "gen"]
    /\ UNCHANGED <<gen, alive, local, rcVars, ibVars, conns, wipeGen,
                   sweeps, admins, life, regMu, hb>>

(* DEL bot_gen. *)
WipeGen(x) ==
    /\ wipe[x] = "gen"
    /\ \/ Works /\ gen' = 0
       \/ Fails /\ UNCHANGED gen
    /\ wipe' = [wipe EXCEPT ![x] = "idle"] /\ Finish(x)
    /\ UNCHANGED <<owner, alive, local, rcVars, ibVars, pc, open, claim,
                   wipeGen, sweeps, admins, life, regMu, hb>>

-----------------------------------------------------------------------------
(* Background goroutines.  Shutdown cancels their context only after it    *)
(* has cleaned up, so they run on while the worker is stopping; the inbox  *)
(* consumers look at shuttingDown, but one that already waits in Consume   *)
(* still handles what it receives.                                         *)

(* doHeartbeat: the snapshot of bots, then one ZADD.  Its score is taken   *)
(* at the snapshot, a Redis timeout before the write at most, and so is    *)
(* well inside BotTTL when it is written.                                  *)
HeartbeatSnap(w) ==
    /\ w \in Beating /\ life[w] # "down" /\ w \notin hb /\ bots[w] # None
    /\ hb' = hb \cup {w}
    /\ UNCHANGED <<redis, local, rcVars, ibVars, conns, wipers, sweeps, admins,
                   life, regMu, faults>>

HeartbeatWrite(w) ==
    /\ w \in hb
    /\ \/ Works /\ RefreshAlive
       \/ Fails /\ UNCHANGED alive
    /\ hb' = hb \ {w}
    /\ UNCHANGED <<gen, owner, local, rcVars, ibVars, conns, wipers, sweeps,
                   admins, life, regMu>>

Unheld == \A w \in Workers : bots[w] = None /\ w \notin hb

(* BotTTL passes without a ZADD for the token: nobody is left to write it, *)
(* or the holder's heartbeats fail or come late.                           *)
Expire ==
    /\ alive = "fresh" /\ (LateBeats \/ Unheld)
    /\ alive' = "stale"
    /\ UNCHANGED <<gen, owner, local, rcVars, ibVars, conns, wipers,
                   sweeps, admins, life, regMu, hb, faults>>

(* doCleanup holds the cleanup lock and ZRANGEBYSCORE returns the token.   *)
SweepStart(w) ==
    /\ life[w] # "down" /\ sweep = "idle" /\ alive = "stale"
    /\ sweep' = "owner" /\ sweeper' = w /\ alive' = "doomed"
    /\ UNCHANGED <<gen, owner, local, rcVars, ibVars, conns, wipers,
                   admins, life, regMu, hb, faults>>

SweepOwner ==
    /\ sweep = "owner"
    /\ \/ Works /\ owner' = None
       \/ Fails /\ UNCHANGED owner
    /\ sweep' = "gen"
    /\ UNCHANGED <<gen, alive, sweeper, local, rcVars, ibVars, conns,
                   wipers, admins, life, regMu, hb>>

SweepGen ==
    /\ sweep = "gen"
    /\ \/ Works /\ gen' = 0
       \/ Fails /\ UNCHANGED gen
    /\ sweep' = "zrem"
    /\ UNCHANGED <<owner, alive, sweeper, local, rcVars, ibVars, conns,
                   wipers, admins, life, regMu, hb>>

(* The sweep ends, leaving what it found expired with the given score. *)
SweepOver(score) ==
    /\ sweep' = "idle" /\ sweeper' = None
    /\ alive' = IF alive = "doomed" THEN score ELSE alive

(* MUTANT of SweepRange: ZREMRANGEBYSCORE is missing. *)
SweepRangeMissing ==
    /\ sweep = "zrem"
    /\ Works /\ SweepOver("stale")
    /\ UNCHANGED <<gen, owner, local, rcVars, ibVars, conns, wipers, admins,
                   life, regMu, hb>>

(* ZREMRANGEBYSCORE with the cutoff of ZRANGEBYSCORE: an entry written     *)
(* since then stays.                                                       *)
SweepRange ==
    /\ sweep = "zrem"
    /\ \/ Works /\ SweepOver("none")
       \/ Fails /\ SweepOver("stale")
    /\ UNCHANGED <<gen, owner, local, rcVars, ibVars, conns, wipers, admins,
                   life, regMu, hb>>

(* MUTANT of ReconcileOwner: the owner is read and not compared. *)
ReconcileOwnerIgnored(w) ==
    /\ life[w] # "down" /\ rc[w] = "idle" /\ w \in tracked
    /\ Works \/ Fails
    /\ rc' = [rc EXCEPT ![w] = "local"]
    /\ UNCHANGED <<redis, local, rcGen, rcVictim, ibVars, conns, wipers, sweeps,
                   admins, life, regMu, hb>>

(* doReconcile: GET bot_owner for a token of the batch. *)
ReconcileOwner(w) ==
    /\ life[w] # "down" /\ rc[w] = "idle" /\ w \in tracked
    /\ \/ /\ Works
          /\ rc' = [rc EXCEPT ![w] = IF owner \notin {None, w} THEN "evict" ELSE "local"]
       \/ Fails /\ rc' = [rc EXCEPT ![w] = "local"]
    /\ UNCHANGED <<redis, local, rcGen, rcVictim, ibVars, conns, wipers, sweeps,
                   admins, life, regMu, hb>>

(* botGens.Load. *)
ReconcileLocal(w) ==
    /\ rc[w] = "local"
    /\ rc' = [rc EXCEPT ![w] = IF botGens[w] = 0 THEN "idle" ELSE "gen"]
    /\ rcGen' = [rcGen EXCEPT ![w] = botGens[w]]
    /\ UNCHANGED <<redis, local, rcVictim, ibVars, conns, wipers, sweeps, admins,
                   life, regMu, hb, faults>>

(* GET bot_gen. *)
ReconcileGen(w) ==
    /\ rc[w] = "gen"
    /\ \/ Works /\ rc' = [rc EXCEPT ![w] = IF gen > rcGen[w] THEN "evict" ELSE "idle"]
       \/ Fails /\ rc' = [rc EXCEPT ![w] = "idle"]
    /\ rcGen' = [rcGen EXCEPT ![w] = 0]
    /\ UNCHANGED <<redis, local, rcVictim, ibVars, conns, wipers, sweeps, admins,
                   life, regMu, hb>>

(* evictLocal called by doReconcile, without regMu: LoadAndDelete. *)
ReconcileTake(w) ==
    /\ rc[w] = "evict"
    /\ rcVictim' = [rcVictim EXCEPT ![w] = bots[w]]
    /\ bots' = [bots EXCEPT ![w] = None]
    /\ rc' = [rc EXCEPT ![w] = "clear"]
    /\ UNCHANGED <<redis, botGens, tracked, rcGen, ibVars, conns, wipers, sweeps,
                   admins, life, regMu, hb, faults>>

(* evictLocal, the rest: botGens.Delete, untrack, Close(4005). *)
ReconcileClear(w) ==
    /\ rc[w] = "clear"
    /\ botGens' = [botGens EXCEPT ![w] = 0]
    /\ tracked' = tracked \ {w}
    /\ open' = Closed(rcVictim[w])
    /\ rcVictim' = [rcVictim EXCEPT ![w] = None]
    /\ rc' = [rc EXCEPT ![w] = "idle"]
    /\ UNCHANGED <<redis, bots, rcGen, ibVars, home, pc, claim, wipers, sweeps,
                   admins, life, regMu, hb, faults>>

(* MUTANT of InboxConsume: an empty Consume (nil message) is handled as a  *)
(* message.                                                                *)
InboxConsumeNil(w) ==
    /\ life[w] # "down" /\ ib[w] = "idle"
    /\ inbox' = [inbox EXCEPT ![w] = @ - 1]
    /\ ib' = [ib EXCEPT ![w] = "evict"]
    /\ UNCHANGED <<redis, local, rcVars, ibVictim, conns, wipers, sweeps, admins,
                   life, regMu, hb, faults>>

(* runWorkerInboxConsumer: a disconnect message is consumed and acked. *)
InboxConsume(w) ==
    /\ life[w] # "down" /\ ib[w] = "idle" /\ inbox[w] > 0
    /\ inbox' = [inbox EXCEPT ![w] = @ - 1]
    /\ ib' = [ib EXCEPT ![w] = "evict"]
    /\ UNCHANGED <<redis, local, rcVars, ibVictim, conns, wipers, sweeps, admins,
                   life, regMu, hb, faults>>

InboxTake(w) ==
    /\ ib[w] = "evict"
    /\ ibVictim' = [ibVictim EXCEPT ![w] = bots[w]]
    /\ bots' = [bots EXCEPT ![w] = None]
    /\ ib' = [ib EXCEPT ![w] = "clear"]
    /\ UNCHANGED <<redis, botGens, tracked, rcVars, inbox, conns, wipers, sweeps,
                   admins, life, regMu, hb, faults>>

InboxClear(w) ==
    /\ ib[w] = "clear"
    /\ botGens' = [botGens EXCEPT ![w] = 0]
    /\ tracked' = tracked \ {w}
    /\ open' = Closed(ibVictim[w])
    /\ ibVictim' = [ibVictim EXCEPT ![w] = None]
    /\ ib' = [ib EXCEPT ![w] = "idle"]
    /\ UNCHANGED <<redis, bots, rcVars, inbox, home, pc, claim, wipers, sweeps,
                   admins, life, regMu, hb, faults>>

-----------------------------------------------------------------------------
(* Deleting the token: adminDeleteToken, RemoveBotSessions *)

(* TokenMgr.Remove, then RemoveBotSessions starts on worker w; when its    *)
(* RemoveSessions fails, it returns and the bot is left alone.             *)
AdminDelete(w) ==
    /\ Deletable /\ valid /\ life[w] = "up"
    /\ valid' = FALSE /\ adWorker' = w
    /\ \/ Works /\ admin' = "local"
       \/ Fails /\ admin' = "wipe"
    /\ UNCHANGED <<redis, local, rcVars, ibVars, conns, wipers, sweeps, adRoute,
                   life, regMu, hb>>

(* bots.Load: a local connection is closed with 4003. *)
AdminLocal ==
    /\ admin = "local"
    /\ admin' = IF bots[adWorker] # None THEN "unreg" ELSE "route"
    /\ open' = Closed(bots[adWorker])
    /\ UNCHANGED <<redis, local, rcVars, ibVars, home, pc, claim, wipers, sweeps,
                   valid, adWorker, adRoute, life, regMu, hb, faults>>

(* UnregisterBot(nil): whatever connection bots holds by now is forgotten. *)
AdminUnregister ==
    /\ admin = "unreg" /\ regMu[adWorker] = None
    /\ UnregisterBody(Admin, adWorker)
    /\ admin' = "wipe"
    /\ UNCHANGED <<redis, rcVars, ibVars, conns, sweeps, valid, adWorker, adRoute,
                   life, regMu, hb, faults>>

(* ResolveBotRoute; an absent owner and an error skip the message. *)
AdminRoute ==
    /\ admin = "route"
    /\ \/ Works /\ adRoute' = owner
       \/ Fails /\ UNCHANGED adRoute
    /\ \/ adRoute' = None /\ admin' = "wipe" /\ wipe' = [wipe EXCEPT ![Admin] = "zrem"]
       \/ adRoute' # None /\ admin' = "publish" /\ UNCHANGED wipe
    /\ UNCHANGED <<redis, local, rcVars, ibVars, conns, wipeGen, sweeps, valid,
                   adWorker, life, regMu, hb>>

(* PublishDisconnectToWorkerInbox; its error is ignored. *)
AdminPublish ==
    /\ admin = "publish"
    /\ \/ Works /\ inbox' = [inbox EXCEPT ![adRoute] = @ + 1]
       \/ Fails /\ UNCHANGED inbox
    /\ admin' = "wipe" /\ wipe' = [wipe EXCEPT ![Admin] = "zrem"]
    /\ UNCHANGED <<redis, local, rcVars, ib, ibVictim, conns, wipeGen, sweeps,
                   valid, adWorker, adRoute, life, regMu, hb>>

-----------------------------------------------------------------------------
(* Shutdown and crash of a worker *)

(* MUTANT of ShutdownStart: shuttingDown is set without regMu. *)
ShutdownStartUnlocked(w) ==
    /\ w \in Stoppable /\ life[w] = "up"
    /\ life' = [life EXCEPT ![w] = "stopping"]
    /\ UNCHANGED <<redis, local, rcVars, ibVars, conns, wipers, sweeps, admins,
                   regMu, hb, faults>>

(* Shutdown: shuttingDown is set under regMu. *)
ShutdownStart(w) ==
    /\ w \in Stoppable /\ life[w] = "up" /\ regMu[w] = None
    /\ life' = [life EXCEPT ![w] = "stopping"]
    /\ UNCHANGED <<redis, local, rcVars, ibVars, conns, wipers, sweeps, admins,
                   regMu, hb, faults>>

(* bots.Range: close the connection with 4000 and clean up for it; the     *)
(* entry of bots stays for the handler's own UnregisterBot.                *)
ShutdownRange(w) ==
    /\ life[w] = "stopping"
    /\ life' = [life EXCEPT ![w] = "closing"]
    /\ open' = Closed(bots[w])
    /\ \/ bots[w] = None /\ UNCHANGED wipers
       \/ /\ bots[w] # None
          /\ wipe' = [wipe EXCEPT ![w] = "check"]
          /\ wipeGen' = [wipeGen EXCEPT ![w] = botGens[w]]
    /\ UNCHANGED <<redis, local, rcVars, ibVars, home, pc, claim, sweeps, admins,
                   regMu, hb, faults>>

(* The process is gone: its memory, its goroutines and its sockets. *)
Halt(w) ==
    LET mine == {c \in Conns : home[c] = w}
        dies == mine \cup {w} \cup {x \in {Admin} : adWorker = w}
    IN
    /\ life' = [life EXCEPT ![w] = "down"]
    /\ ForgetLocal(w)
    /\ regMu' = [regMu EXCEPT ![w] = None]
    /\ hb' = hb \ {w}
    /\ rc' = [rc EXCEPT ![w] = "idle"]
    /\ rcGen' = [rcGen EXCEPT ![w] = 0]
    /\ rcVictim' = [rcVictim EXCEPT ![w] = None]
    /\ ib' = [ib EXCEPT ![w] = "idle"]
    /\ ibVictim' = [ibVictim EXCEPT ![w] = None]
    /\ home' = [c \in Conns |-> IF c \in mine THEN None ELSE home[c]]
    /\ pc' = [c \in Conns |-> IF c \in mine THEN "gone" ELSE pc[c]]
    /\ open' = open \ mine
    /\ claim' = [c \in Conns |-> IF c \in mine THEN 0 ELSE claim[c]]
    /\ wipe' = [x \in Wipers |-> IF x \in dies THEN "idle" ELSE wipe[x]]
    /\ wipeGen' = [x \in Wipers |-> IF x \in dies THEN 0 ELSE wipeGen[x]]
    /\ admin' = IF adWorker = w THEN "wipe" ELSE admin
    /\ \/ sweeper # w /\ UNCHANGED <<sweeps, alive>>
       \/ sweeper = w /\ SweepOver("stale")
    /\ UNCHANGED <<gen, owner, inbox, valid, adWorker, adRoute, faults>>

(* Shutdown returns and the process exits; the handlers' goroutines are    *)
(* not waited for (only the background loops are in the WaitGroup).        *)
Exit(w) ==
    /\ life[w] = "closing" /\ wipe[w] = "idle"
    /\ Halt(w)

Crash(w) ==
    /\ w \in Crashable /\ life[w] # "down"
    /\ Halt(w)

-----------------------------------------------------------------------------
Registration(c) ==
    \/ RegisterLock(c) \/ RegisterIncr(c) \/ RegisterAlive(c)
    \/ RegisterOwner(c) \/ RegisterStore(c)

Wipe(x) == WipeCheck(x) \/ WipeAlive(x) \/ WipeOwner(x) \/ WipeGen(x)

Heartbeat(w) == HeartbeatSnap(w) \/ HeartbeatWrite(w)

Sweep == (\E w \in Workers : SweepStart(w)) \/ SweepOwner \/ SweepGen \/ SweepRange

Reconcile(w) ==
    \/ ReconcileOwner(w) \/ ReconcileLocal(w) \/ ReconcileGen(w)
    \/ ReconcileTake(w) \/ ReconcileClear(w)

Inbox(w) == InboxConsume(w) \/ InboxTake(w) \/ InboxClear(w)

AdminStep == AdminLocal \/ AdminUnregister \/ AdminRoute \/ AdminPublish

Next ==
    \/ \E c \in Conns : \/ \E w \in Workers : Connect(c, w)
                        \/ Drop(c)
                        \/ Registration(c)
                        \/ UnregisterLocal(c)
    \/ \E x \in Wipers : Wipe(x)
    \/ \E w \in Workers : \/ Heartbeat(w)
                          \/ Reconcile(w)
                          \/ Inbox(w)
                          \/ AdminDelete(w)
                          \/ ShutdownStart(w)
                          \/ ShutdownRange(w)
                          \/ Exit(w)
                          \/ Crash(w)
    \/ Expire
    \/ Sweep
    \/ AdminStep

Spec == Init /\ [][Next]_vars

(* A command sent to Redis returns, a goroutine that can run runs, and a   *)
(* mutex is not withheld for ever from one of its waiters (Go's sync.Mutex *)
(* hands over in its starvation mode), hence strong fairness for the steps *)
(* that take regMu.  The loops are driven by tickers.  Expiry is only      *)
(* certain when nobody is left to refresh the entry.  Connecting,          *)
(* dropping, crashing, stopping and deleting are not fair.                 *)
Fairness ==
    /\ \A c \in Conns :
        /\ SF_vars(RegisterLock(c)) /\ SF_vars(UnregisterLocal(c))
        /\ WF_vars(RegisterIncr(c) \/ RegisterAlive(c) \/ RegisterOwner(c) \/ RegisterStore(c))
    /\ \A x \in Wipers : WF_vars(Wipe(x))
    /\ \A w \in Workers :
        /\ WF_vars(HeartbeatWrite(w)) /\ WF_vars(Reconcile(w)) /\ WF_vars(Inbox(w))
        /\ WF_vars(ShutdownRange(w)) /\ WF_vars(Exit(w))
    /\ WF_vars(Unheld /\ Expire)
    /\ WF_vars(Sweep)
    /\ SF_vars(AdminUnregister) /\ WF_vars(AdminStep)

FairSpec == Spec /\ Fairness

-----------------------------------------------------------------------------
(* PROPERTIES *)

(* A worker that is shutting down has no RegisterBot past its shutdown     *)
(* check: Shutdown sets shuttingDown under regMu and RegisterBot keeps     *)
(* regMu from the check to bots.Store, so bots.Range sees every bot.       *)
ShutdownAdmitsNoBot ==
    \A c \in Conns : pc[c] \in Critical => life[home[c]] = "up"

(* bots never keeps a connection whose handler has returned, nor one of    *)
(* another worker: the guard and the deletions of UnregisterBot leave no   *)
(* zombie entry for messages to be written to.                             *)
NoZombieEntry ==
    \A w \in Workers : bots[w] # None => home[bots[w]] = w /\ pc[bots[w]] = "serving"

(* While the token is valid, an open registered connection is the one its  *)
(* worker's bots map holds, or evictLocal has just taken it and is about   *)
(* to close it: no bot is left connected to a worker that forgot it.       *)
NoOrphan ==
    valid => \A c \in Conns :
                pc[c] = "serving" /\ c \in open =>
                    c \in {bots[home[c]], rcVictim[home[c]], ibVictim[home[c]]}

(* RegisterBot always returns, and so does the deferred UnregisterBot: no  *)
(* order of registrations, evictions and shutdowns blocks regMu for ever.  *)
HandlersReturn ==
    \A c \in Conns :
        /\ (pc[c] = "wait") ~> (pc[c] \in {"serving", "gone"})
        /\ (pc[c] = "serving" /\ c \notin open) ~> (pc[c] = "gone")

(* A tracked bot whose token another worker owns does not stay: doReconcile *)
(* evicts it.                                                              *)
SupersededBotLeaves ==
    \A w \in Workers :
        (w \in tracked /\ bots[w] # None /\ owner \notin {None, w})
            ~> ~(w \in tracked /\ bots[w] # None /\ owner \notin {None, w})

(* When no worker holds the bot any more, the online entry of bot_alive    *)
(* disappears for good, whatever UnregisterBot skipped, a late heartbeat   *)
(* wrote or a crash left behind: IsBotConnected does not lie for ever.     *)
GhostReclaimed ==
    <>[](\A w \in Workers : bots[w] = None) => <>[](alive = "none")
=============================================================================
