------------------------------- MODULE ChatStream -------------------------------
(***************************************************************************)
(* Chat turns of one session of one token (router/sse.go): the handler     *)
(* that sends a prompt to the bot and streams the bot's events to its      *)
(* client through a Redis stream, the chat inbox; the bot status monitor   *)
(* that ends streams whose bot left; the artifact clean-up that deletes    *)
(* the inboxes of a bot that left; and the plugin's dispatches             *)
(* (messaging/inbound.ts) that produce the events.                         *)
(*                                                                         *)
(* One Redis command is one step.  What the bot's keys go through while it *)
(* connects and leaves is the subject of BotRegistry; here bot_alive and   *)
(* bot_owner are one flag and they change in one step.                     *)
(***************************************************************************)
EXTENDS Integers, Sequences, FiniteSets, SequencesExt

CONSTANTS
    MaxTurns,   \* bound: chat requests of the session
    Nodes,      \* the workers
    None,
    MaxPieces,  \* bound: events a dispatch sends before its last one
    MaxLeaves,  \* bound: how often the bot leaves
    MaxFaults,  \* bound: failing Redis commands
    Overlap,    \* a request may be made while an earlier one still streams
    Impatient,  \* the turns whose client may go away
    Timed       \* a stream's deadline may pass

Turns == 1..MaxTurns

(* An event on its way to the session's stream.  It names the session only *)
(* in the code: "of", the turn whose dispatch sent it, and its number n    *)
(* are known to the properties alone.  "note" stands for the tool,         *)
(* thinking and media events, "blank" for a done without text.             *)
Kinds == {"chunk", "note", "done", "blank", "error"}
Event == [of : Turns, n : 0..MaxPieces, kind : Kinds]
Final(e) == e.kind \in {"done", "blank", "error"}

(* A message of a worker inbox; a cancel names the session, not the turn.  *)
Message == [to : Nodes, kind : {"prompt", "cancel"}, turn : Turns]

ASSUME ChatAssumption ==
    /\ MaxTurns \in Nat /\ MaxPieces \in Nat /\ MaxLeaves \in Nat /\ MaxFaults \in Nat
    /\ None \notin Nodes /\ None \notin Turns /\ None \notin Event
    /\ Overlap \in BOOLEAN /\ Timed \in BOOLEAN /\ Impatient \subseteq 1..MaxTurns

VARIABLES
    key,        \* the chat inbox: absent, without group "sse", or with it
    entries,    \* its entries not yet delivered to the group
    tracked,    \* the inbox is in chat_inbox_idx
    alive,      \* the token is in bot_alive and has an owner
    host,       \* the worker of the bot's last connection
    link,       \* that connection: up, lost, or down (unregistered)
    mail,       \* worker inboxes; four consumers per worker, hence no order
    active,     \* plugin: activeDispatches of the session
    run,        \* plugin: the dispatch of each turn
    said,       \* plugin: what a dispatch has sent before its last event
    wire,       \* events on the WebSocket
    pub,        \* the event sendToSession found an inbox for, not yet XADDed
    pc, home, route, \* per turn: next step, worker, owner read by SendToBot
    out,        \* the events written to the client
    hasChunks, late, told, \* per turn: flag, deadline passed, DisconnectC
    gone,       \* the client's request context is done
    old,        \* the events in the inbox when the turn purged it
    cancelling, \* turns whose SendCancelToBot goroutine has not run
    mon,        \* per worker: sseConnections of the inbox
    verdict,    \* per worker: checkAllBots found the token missing
    clean,      \* artifact clean-ups: one for each time the bot left
    faults

stream  == <<key, entries>>
bot     == <<alive, host, link>>
plugin  == <<active, run, said>>
turn    == <<pc, home, route, out, hasChunks, late, old>>
watch   == <<mon, verdict, told>>
janitor == <<tracked, clean>>
vars == <<key, entries, tracked, alive, host, link, mail, active, run, said, wire, pub,
          pc, home, route, out, hasChunks, late, told, gone, old, cancelling,
          mon, verdict, clean, faults>>

Steps == {"idle", "purge", "group", "track", "route", "send", "open",
          "top", "issue", "block", "closing", "closed"}

(* The type of every variable: what each holds across all handlers.        *)
TypeOK ==
    /\ key \in {"absent", "bare", "group"} /\ entries \in Seq(Event)
    /\ tracked \in BOOLEAN /\ alive \in BOOLEAN /\ host \in Nodes
    /\ link \in {"up", "lost", "down"} /\ mail \subseteq Message
    /\ active \in Turns \cup {None}
    /\ run \in [Turns -> {"idle", "running", "aborting", "over"}]
    /\ said \in [Turns -> Seq({"chunk", "note"})]
    /\ wire \in Seq(Event) /\ pub \in Event \cup {None}
    /\ pc \in [Turns -> Steps] /\ home \in [Turns -> Nodes]
    /\ route \in [Turns -> Nodes] /\ out \in [Turns -> Seq(Event)]
    /\ hasChunks \in [Turns -> BOOLEAN] /\ late \in [Turns -> BOOLEAN]
    /\ told \in [Turns -> BOOLEAN] /\ gone \in [Turns -> BOOLEAN]
    /\ old \in [Turns -> SUBSET Event] /\ cancelling \subseteq Turns
    /\ mon \in [Nodes -> Turns \cup {None}] /\ verdict \in [Nodes -> BOOLEAN]
    /\ clean \in [1..MaxLeaves -> {"none", "queued", "delete", "index", "over"}]
    /\ faults \in 0..MaxFaults

(* A bot is connected and no chat request has been made.                   *)
Init ==
    /\ key = "absent" /\ entries = <<>> /\ tracked = FALSE
    /\ alive = TRUE /\ host \in Nodes /\ link = "up" /\ mail = {}
    /\ active = None /\ run = [t \in Turns |-> "idle"] /\ said = [t \in Turns |-> <<>>]
    /\ wire = <<>> /\ pub = None
    /\ pc = [t \in Turns |-> "idle"] /\ home \in [Turns -> Nodes]
    /\ route = home /\ out = [t \in Turns |-> <<>>]
    /\ hasChunks = [t \in Turns |-> FALSE] /\ late = [t \in Turns |-> FALSE]
    /\ told = [t \in Turns |-> FALSE] /\ gone = [t \in Turns |-> FALSE]
    /\ old = [t \in Turns |-> {}] /\ cancelling = {}
    /\ mon = [n \in Nodes |-> None] /\ verdict = [n \in Nodes |-> FALSE]
    /\ clean = [k \in 1..MaxLeaves |-> "none"] /\ faults = 0

(* A command fails: Redis returns an error.  A command with a request      *)
(* context that is done fails before it is sent, always.                   *)
Works == UNCHANGED faults
Fails == faults < MaxFaults /\ faults' = faults + 1
CtxWorks(t) == ~gone[t] /\ Works
CtxFails(t) == \/ gone[t] /\ UNCHANGED faults
               \/ ~gone[t] /\ Fails

Goto(t, step) == pc' = [pc EXCEPT ![t] = step]

-----------------------------------------------------------------------------
(* THE CHAT HANDLER *)

(* The client may make its next request.  It never depends on the worker:  *)
(* the load balancer picks one (home).                                     *)
MayAsk(t) ==
    \A u \in 1..(t - 1) : IF Overlap THEN pc[u] # "idle" ELSE pc[u] = "closed"

(* chatSSE up to IsBotConnected; a failing ZSCORE counts as no bot.        *)
Begin(t) ==
    /\ pc[t] = "idle" /\ MayAsk(t)
    /\ \/ alive /\ Works /\ Goto(t, "purge")
       \/ ~alive /\ Works /\ Goto(t, "closed")
       \/ Fails /\ Goto(t, "closed")
    /\ UNCHANGED <<stream, bot, plugin, watch, janitor, mail, wire, pub, home, route,
                   out, hasChunks, late, old, gone, cancelling>>

(* MUTANT of Purge: the stream is not trimmed. *)
PurgeKeeps(t) ==
    /\ pc[t] = "purge" /\ Goto(t, "group")
    /\ \/ CtxWorks(t) /\ UNCHANGED entries /\ old' = [old EXCEPT ![t] = ToSet(entries)]
       \/ CtxFails(t) /\ UNCHANGED <<entries, old>>
    /\ UNCHANGED <<key, bot, plugin, watch, janitor, mail, wire, pub, home, route,
                   out, hasChunks, late, gone, cancelling>>

(* Queue.Purge: XTRIM MAXLEN 0 removes the entries and keeps the group.    *)
Purge(t) ==
    /\ pc[t] = "purge" /\ Goto(t, "group")
    /\ \/ CtxWorks(t) /\ entries' = <<>> /\ old' = [old EXCEPT ![t] = ToSet(entries)]
       \/ CtxFails(t) /\ UNCHANGED <<entries, old>>
    /\ UNCHANGED <<key, bot, plugin, watch, janitor, mail, wire, pub, home, route,
                   out, hasChunks, late, gone, cancelling>>

(* MUTANT of EnsureGroup: a group that exists is created anew. *)
EnsureNewGroup ==
    /\ key' = "group"
    /\ entries' = <<>>

(* Queue.EnsureGroup: XGROUP CREATE MKSTREAM at "$".  A group that exists  *)
(* (BUSYGROUP) stays as it is; a new one only delivers later entries.      *)
EnsureGroup ==
    /\ key' = "group"
    /\ entries' = IF key = "group" THEN entries ELSE <<>>

Group(t) ==
    /\ pc[t] = "group" /\ Goto(t, "track")
    /\ \/ CtxWorks(t) /\ EnsureGroup
       \/ CtxFails(t) /\ UNCHANGED stream
    /\ UNCHANGED <<bot, plugin, watch, janitor, mail, wire, pub, home, route,
                   out, hasChunks, late, old, gone, cancelling>>

(* TrackChatInbox: SADD chat_inbox_idx.                                    *)
Track(t) ==
    /\ pc[t] = "track" /\ Goto(t, "route")
    /\ \/ CtxWorks(t) /\ tracked' = TRUE
       \/ CtxFails(t) /\ UNCHANGED tracked
    /\ UNCHANGED <<stream, bot, plugin, watch, clean, mail, wire, pub, home, route,
                   out, hasChunks, late, old, gone, cancelling>>

(* MUTANT of Route: the error of ResolveBotRoute is ignored. *)
RouteUnchecked(t) ==
    /\ pc[t] = "route" /\ CtxWorks(t) /\ Goto(t, "send")
    /\ route' = [route EXCEPT ![t] = IF alive THEN host ELSE None]
    /\ UNCHANGED <<stream, bot, plugin, watch, janitor, mail, wire, pub, home,
                   out, hasChunks, late, old, gone, cancelling>>

(* SendToBot: ResolveBotRoute.  Without an owner the request is refused.   *)
Route(t) ==
    /\ pc[t] = "route"
    /\ \/ alive /\ CtxWorks(t) /\ Goto(t, "send") /\ route' = [route EXCEPT ![t] = host]
       \/ ~alive /\ CtxWorks(t) /\ Goto(t, "closed") /\ UNCHANGED route
       \/ CtxFails(t) /\ Goto(t, "closed") /\ UNCHANGED route
    /\ UNCHANGED <<stream, bot, plugin, watch, janitor, mail, wire, pub, home,
                   out, hasChunks, late, old, gone, cancelling>>

(* SendToBot: PublishToWorkerInbox to the owner read before.               *)
Send(t) ==
    /\ pc[t] = "send"
    /\ \/ /\ CtxWorks(t) /\ Goto(t, "open")
          /\ mail' = mail \cup {[to |-> route[t], kind |-> "prompt", turn |-> t]}
       \/ CtxFails(t) /\ Goto(t, "closed") /\ UNCHANGED mail
    /\ UNCHANGED <<stream, bot, plugin, watch, janitor, wire, pub, home, route,
                   out, hasChunks, late, old, gone, cancelling>>

(* MUTANT of Open: the stream is not registered with the monitor. *)
OpenUnwatched(t) ==
    /\ pc[t] = "open" /\ (Goto(t, "top") \/ (gone[t] /\ Goto(t, "closing")))
    /\ UNCHANGED <<stream, bot, plugin, watch, janitor, mail, wire, pub, home,
                   route, out, hasChunks, late, old, gone, cancelling, faults>>

(* MUTANT of Open: the inbox is purged after the prompt was sent, not before. *)
OpenPurges(t) ==
    /\ pc[t] = "open" /\ entries' = <<>>
    /\ mon' = [mon EXCEPT ![home[t]] = t]
    /\ (Goto(t, "top") \/ (gone[t] /\ Goto(t, "closing")))
    /\ UNCHANGED <<key, bot, plugin, verdict, told, janitor, mail, wire, pub, home,
                   route, out, hasChunks, late, old, gone, cancelling, faults>>

(* RegisterSSEConnection stores the stream under its inbox's key.          *)
Register(t) == mon' = [mon EXCEPT ![home[t]] = t]

(* RegisterSSEConnection and the session event.  The monitor knows a       *)
(* stream by its inbox, so an earlier stream of the session is replaced.   *)
(* Writing to a client that left may fail.                                 *)
Open(t) ==
    /\ pc[t] = "open"
    /\ Register(t)
    /\ \/ Goto(t, "top")
       \/ gone[t] /\ Goto(t, "closing")
    /\ UNCHANGED <<stream, bot, plugin, verdict, told, janitor, mail, wire, pub, home,
                   route, out, hasChunks, late, old, gone, cancelling, faults>>

(* The select at the head of the loop, and the same one after a read       *)
(* without an event: a client that left makes a goroutine send the cancel; *)
(* then the deadline.                                                      *)
Top(t) ==
    /\ pc[t] = "top"
    /\ \/ gone[t] /\ Goto(t, "closing") /\ cancelling' = cancelling \cup {t}
       \/ told[t] /\ Goto(t, "closing") /\ UNCHANGED cancelling
       \/ ~gone[t] /\ ~told[t] /\ late[t] /\ Goto(t, "closing") /\ UNCHANGED cancelling
       \/ ~gone[t] /\ ~told[t] /\ ~late[t] /\ Goto(t, "issue") /\ UNCHANGED cancelling
    /\ UNCHANGED <<stream, bot, plugin, watch, janitor, mail, wire, pub, home, route,
                   out, hasChunks, late, old, gone, faults>>

(* Consume takes a connection for XREADGROUP: a context that is done by    *)
(* now is an error, which ends the stream without a cancel.                *)
Issue(t) ==
    /\ pc[t] = "issue" /\ Goto(t, IF gone[t] THEN "closing" ELSE "block")
    /\ UNCHANGED <<stream, bot, plugin, watch, janitor, mail, wire, pub, home, route,
                   out, hasChunks, late, old, gone, cancelling, faults>>

(* MUTANT of Frames: no chunk is made from a done. *)
FramesPlain(t, e) == <<e>>

(* What the client is sent for an event: a done with text is preceded by a *)
(* chunk when the stream has had none.                                     *)
Frames(t, e) ==
    IF e.kind = "done" /\ ~hasChunks[t] THEN <<[e EXCEPT !.kind = "chunk"], e>> ELSE <<e>>

(* MUTANT of Deliver: the read starts at an entry already delivered ("0", not ">"). *)
DeliverAgain(t) ==
    /\ pc[t] = "block" /\ key = "group" /\ entries # <<>>
    /\ out' = [out EXCEPT ![t] = @ \o Frames(t, Head(entries))]
    /\ hasChunks' = [hasChunks EXCEPT ![t] = @ \/ Head(entries).kind = "chunk"]
    /\ late' = [late EXCEPT ![t] = FALSE]
    /\ Goto(t, IF Final(Head(entries)) THEN "closing" ELSE "top")
    /\ UNCHANGED <<stream, bot, plugin, watch, janitor, mail, wire, pub, home, route,
                   old, gone, cancelling, faults>>

(* XREADGROUP returns the next entry, which is acknowledged (nobody reads  *)
(* the pending list) and written; a done or an error ends the stream.      *)
Deliver(t) ==
    /\ pc[t] = "block" /\ key = "group" /\ entries # <<>>
    /\ LET e == Head(entries) IN
        /\ entries' = Tail(entries)
        /\ out' = [out EXCEPT ![t] = @ \o Frames(t, e)]
        /\ hasChunks' = [hasChunks EXCEPT ![t] = @ \/ e.kind = "chunk"]
        /\ late' = [late EXCEPT ![t] = FALSE]
        /\ Goto(t, IF Final(e) THEN "closing" ELSE "top")
    /\ UNCHANGED <<key, bot, plugin, watch, janitor, mail, wire, pub, home, route,
                   old, gone, cancelling, faults>>

(* XREADGROUP times out, or answers NOGROUP and the group is created.      *)
ReadNothing(t) ==
    /\ pc[t] = "block" /\ Goto(t, "top")
    /\ \/ key = "group" /\ entries = <<>> /\ UNCHANGED stream /\ Works
       \/ key # "group" /\ CtxWorks(t) /\ EnsureGroup
       \/ key # "group" /\ CtxFails(t) /\ UNCHANGED stream
    /\ UNCHANGED <<bot, plugin, watch, janitor, mail, wire, pub, home, route,
                   out, hasChunks, late, old, gone, cancelling>>

(* Any other error of XREADGROUP ends the stream.                          *)
ReadError(t) ==
    /\ pc[t] = "block" /\ Fails /\ Goto(t, "closing")
    /\ UNCHANGED <<stream, bot, plugin, watch, janitor, mail, wire, pub, home, route,
                   out, hasChunks, late, old, gone, cancelling>>

(* The deferred UnregisterSSEConnection deletes the inbox's entry.         *)
Unregister(t) == mon' = [mon EXCEPT ![home[t]] = None]

Close(t) ==
    /\ pc[t] = "closing" /\ Goto(t, "closed") /\ Unregister(t)
    /\ UNCHANGED <<stream, bot, plugin, verdict, told, janitor, mail, wire, pub, home,
                   route, out, hasChunks, late, old, gone, cancelling, faults>>

(* SendCancelToBot, in a goroutine and with a context of its own: the      *)
(* owner is read and the message published; without an owner it is lost.   *)
SendCancel(t) ==
    /\ t \in cancelling /\ cancelling' = cancelling \ {t}
    /\ \/ alive /\ mail' = mail \cup {[to |-> host, kind |-> "cancel", turn |-> t]} /\ Works
       \/ ~alive /\ UNCHANGED mail /\ Works
       \/ UNCHANGED mail /\ Fails
    /\ UNCHANGED <<stream, bot, plugin, turn, watch, janitor, wire, pub, gone>>

Streaming(t) == pc[t] \in {"top", "issue", "block"}

(* The client closes its request.                                          *)
ClientLeaves(t) ==
    /\ t \in Impatient /\ pc[t] \notin {"idle", "closing", "closed"} /\ ~gone[t]
    /\ gone' = [gone EXCEPT ![t] = TRUE]
    /\ UNCHANGED <<stream, bot, plugin, turn, watch, janitor, mail, wire, pub,
                   cancelling, faults>>

(* sseTimeout seconds have passed since the last event.                    *)
TimeUp(t) ==
    /\ Timed /\ Streaming(t) /\ ~late[t]
    /\ late' = [late EXCEPT ![t] = TRUE]
    /\ UNCHANGED <<stream, bot, plugin, pc, home, route, out, hasChunks, old, watch,
                   janitor, mail, wire, pub, gone, cancelling, faults>>

-----------------------------------------------------------------------------
(* THE BOT'S WORKER AND THE PLUGIN *)

(* A consumer of the worker inbox takes a message, acknowledges it and     *)
(* writes it to the bot's socket; it is lost when the bot is not (or no    *)
(* longer) connected to this worker.  The plugin starts a dispatch for a   *)
(* prompt and aborts the session's active dispatch for a cancel.           *)
Forward(m) ==
    /\ m \in mail /\ mail' = mail \ {m}
    /\ IF link = "up" /\ m.to = host
       THEN IF m.kind = "prompt"
            THEN run' = [run EXCEPT ![m.turn] = "running"] /\ active' = m.turn
            ELSE /\ run' = IF active = None THEN run ELSE [run EXCEPT ![active] = "aborting"]
                 /\ UNCHANGED active
       ELSE UNCHANGED <<run, active>>
    /\ UNCHANGED <<stream, bot, said, turn, watch, janitor, wire, pub, gone, cancelling, faults>>

(* The bridge client sends an event when its socket is open.               *)
Emit(t, kind) ==
    wire' = IF link = "up" THEN Append(wire, [of |-> t, n |-> Len(said[t]), kind |-> kind])
                           ELSE wire

(* onPartialReply sends the new text, unless aborted; the hooks and the    *)
(* media sender send the other events.                                     *)
Say(t, kind) ==
    /\ run[t] = "running" \/ (run[t] = "aborting" /\ kind = "note")
    /\ Len(said[t]) < MaxPieces /\ link = "up"
    /\ Emit(t, kind)
    /\ said' = [said EXCEPT ![t] = Append(@, kind)]
    /\ UNCHANGED <<stream, bot, active, run, turn, watch, janitor, mail, pub, gone,
                   cancelling, faults>>

Spoke(t) == "chunk" \in ToSet(said[t])

(* MUTANT of Finish: the dispatcher's final delivery sends a done as well. *)
FinishTwice(t) ==
    /\ run[t] \in {"running", "aborting"}
    /\ LET e == [of |-> t, n |-> Len(said[t]), kind |-> "done"]
       IN  wire' = IF link = "up" THEN wire \o <<e, e>> ELSE wire
    /\ run' = [run EXCEPT ![t] = "over"]
    /\ active' = None
    /\ UNCHANGED <<stream, bot, said, turn, watch, janitor, mail, pub, gone, cancelling, faults>>

(* The last event of a dispatch: its text after chunks; text that only the *)
(* final reply has; nothing at all, when there was no text; the partial    *)
(* text, possibly empty, when it was aborted; or the error.  The finally   *)
(* block forgets whatever dispatch the session has active.                 *)
Finish(t) ==
    /\ run[t] \in {"running", "aborting"}
    /\ \/ Emit(t, "done")
       \/ ~Spoke(t) /\ UNCHANGED wire
       \/ run[t] = "aborting" /\ ~Spoke(t) /\ Emit(t, "blank")
       \/ run[t] = "running" /\ Emit(t, "error")
    /\ run' = [run EXCEPT ![t] = "over"]
    /\ active' = None
    /\ UNCHANGED <<stream, bot, said, turn, watch, janitor, mail, pub, gone, cancelling, faults>>

(* HandleBotMessage and sendToSession: EXISTS of the inbox, then XADD.     *)
HandleBotMessage ==
    /\ wire # <<>> /\ pub = None /\ wire' = Tail(wire)
    /\ \/ key # "absent" /\ pub' = Head(wire) /\ Works
       \/ key = "absent" /\ UNCHANGED pub /\ Works
       \/ UNCHANGED pub /\ Fails
    /\ UNCHANGED <<stream, bot, plugin, turn, watch, janitor, mail, gone, cancelling>>

(* XADD creates the stream if it was deleted since; what is in a stream    *)
(* without the group is never delivered.                                   *)
Publish ==
    /\ pub # None /\ pub' = None
    /\ \/ /\ Works /\ key' = IF key = "absent" THEN "bare" ELSE key
          /\ entries' = IF key = "group" THEN Append(entries, pub) ELSE entries
       \/ Fails /\ UNCHANGED stream
    /\ UNCHANGED <<bot, plugin, turn, watch, janitor, mail, wire, gone, cancelling>>

Leaves == Cardinality({k \in 1..MaxLeaves : clean[k] # "none"})

(* The socket breaks, or the worker shuts down and sends no more events.   *)
BotLeaves ==
    /\ link = "up" /\ Leaves < MaxLeaves
    /\ link' = "lost" /\ wire' = <<>>
    /\ UNCHANGED <<stream, alive, host, plugin, turn, watch, janitor, mail, pub, gone,
                   cancelling, faults>>

(* UnregisterBot, once the handler of the socket has returned:             *)
(* cleanupSharedBotState and enqueueArtifactCleanup.                       *)
BotUnregistered ==
    /\ link = "lost" /\ pub = None
    /\ link' = "down" /\ alive' = FALSE
    /\ clean' = [clean EXCEPT ![Leaves + 1] = "queued"]
    /\ UNCHANGED <<stream, host, plugin, turn, watch, tracked, mail, wire, pub, gone,
                   cancelling, faults>>

(* The plugin reconnects, to any worker.                                   *)
BotReturns(n) ==
    /\ link = "down"
    /\ link' = "up" /\ alive' = TRUE /\ host' = n
    /\ UNCHANGED <<stream, plugin, turn, watch, janitor, mail, wire, pub, gone,
                   cancelling, faults>>

-----------------------------------------------------------------------------
(* THE MONITOR AND THE CLEAN-UP *)

(* checkAllBots reads bot_alive for the tokens of its connections.         *)
MonitorCheck(n) ==
    /\ mon[n] # None /\ ~verdict[n] /\ ~alive
    /\ verdict' = [verdict EXCEPT ![n] = TRUE]
    /\ UNCHANGED <<stream, bot, plugin, turn, mon, told, janitor, mail, wire, pub, gone,
                   cancelling, faults>>

(* notifyBotDisconnected.                                                  *)
MonitorNotify(n) ==
    /\ verdict[n] /\ verdict' = [verdict EXCEPT ![n] = FALSE]
    /\ told' = [t \in Turns |-> told[t] \/ mon[n] = t]
    /\ UNCHANGED <<stream, bot, plugin, turn, mon, janitor, mail, wire, pub, gone,
                   cancelling, faults>>

(* doArtifactCleanup and cleanupChatInboxes: SMEMBERS, DEL of the inboxes  *)
(* it named, DEL of the index.                                             *)
CleanList(k) ==
    /\ clean[k] = "queued"
    /\ \/ Works /\ clean' = [clean EXCEPT ![k] = IF tracked THEN "delete" ELSE "index"]
       \/ Fails /\ clean' = [clean EXCEPT ![k] = "over"]
    /\ UNCHANGED <<stream, tracked, bot, plugin, turn, watch, mail, wire, pub, gone, cancelling>>

CleanInbox(k) ==
    /\ clean[k] = "delete" /\ clean' = [clean EXCEPT ![k] = "index"]
    /\ \/ Works /\ key' = "absent" /\ entries' = <<>>
       \/ Fails /\ UNCHANGED stream
    /\ UNCHANGED <<tracked, bot, plugin, turn, watch, mail, wire, pub, gone, cancelling>>

CleanIndex(k) ==
    /\ clean[k] = "index" /\ clean' = [clean EXCEPT ![k] = "over"]
    /\ \/ Works /\ tracked' = FALSE
       \/ Fails /\ UNCHANGED tracked
    /\ UNCHANGED <<stream, bot, plugin, turn, watch, mail, wire, pub, gone, cancelling>>

-----------------------------------------------------------------------------
(* THE SYSTEM *)

Handler(t) ==
    \/ Purge(t) \/ Group(t) \/ Track(t) \/ Route(t) \/ Send(t) \/ Open(t)
    \/ Top(t) \/ Issue(t) \/ Deliver(t) \/ ReadNothing(t) \/ Close(t)

Cleaner(k) == CleanList(k) \/ CleanInbox(k) \/ CleanIndex(k)

Next ==
    \/ \E t \in Turns : \/ Begin(t) \/ Handler(t) \/ ReadError(t) \/ SendCancel(t)
                        \/ ClientLeaves(t) \/ TimeUp(t) \/ Finish(t)
                        \/ \E kind \in {"chunk", "note"} : Say(t, kind)
    \/ \E m \in mail : Forward(m)
    \/ HandleBotMessage \/ Publish \/ BotLeaves \/ BotUnregistered
    \/ \E n \in Nodes : BotReturns(n) \/ MonitorCheck(n) \/ MonitorNotify(n)
    \/ \E k \in 1..MaxLeaves : Cleaner(k)

Spec == Init /\ [][Next]_vars

(* Goroutines run, commands return, the monitor ticks, time passes and a   *)
(* worker notices a broken socket.  Neither clients nor the bot owe        *)
(* anything: a dispatch may take for ever and a bot may stay away.  The    *)
(* deadline is relied on only while the bot is connected.                  *)
Fairness ==
    /\ \A t \in Turns : WF_vars(Handler(t)) /\ WF_vars(SendCancel(t)) /\ WF_vars(alive /\ TimeUp(t))
    /\ \A n \in Nodes : WF_vars(MonitorCheck(n)) /\ WF_vars(MonitorNotify(n))
    /\ \A k \in 1..MaxLeaves : WF_vars(Cleaner(k))
    /\ WF_vars(HandleBotMessage) /\ WF_vars(Publish) /\ WF_vars(BotUnregistered)

FairSpec == Spec /\ Fairness

-----------------------------------------------------------------------------
(* PROPERTIES *)

(* No stream shows an event that was already in the inbox when it purged   *)
(* it, whatever was deleted, recreated or published in between.            *)
FreshOnly == \A t \in Turns : old[t] \cap ToSet(out[t]) = {}

(* Each event is shown at most once, by one stream, and the events of one  *)
(* dispatch are shown in the order in which it sent them.                  *)
InOrder ==
    /\ \A t \in Turns : \A i, j \in 1..Len(out[t]) :
        i < j /\ out[t][i].of = out[t][j].of
            => \/ out[t][i].n < out[t][j].n
               \/ out[t][i].n = out[t][j].n /\ out[t][i].kind = "chunk" /\ Final(out[t][j])
    /\ \A t, u \in Turns : t # u => ToSet(out[t]) \cap ToSet(out[u]) = {}

(* Everything a dispatch sent before its last event.                       *)
Pieces(t) == {[of |-> t, n |-> i - 1, kind |-> said[t][i]] : i \in 1..Len(said[t])}

(* While no command fails and the bot stays, no event falls between two    *)
(* steps: it is under way, in the inbox, shown, or it was discarded by the *)
(* purge of another request.  A dispatch's own request discards nothing of *)
(* it, since SendToBot comes after the inbox is emptied and has its group. *)
NothingLost ==
    faults = 0 /\ Leaves = 0 /\ link = "up" =>
        \A t \in Turns : Pieces(t) \subseteq
            ToSet(wire) \cup {pub} \cup ToSet(entries)
                \cup (UNION {ToSet(out[u]) : u \in Turns})
                \cup (UNION {old[u] : u \in Turns \ {t}})

(* A reply is shown as text before its done: in chunks, or in the one the  *)
(* handler makes from the done.                                            *)
ReplyShown ==
    \A t \in Turns : \A i \in 1..Len(out[t]) :
        out[t][i].kind = "done" => \E j \in 1..(i - 1) : out[t][j].kind = "chunk"

(* Every chat request ends, whatever the bot and the clients do: by the    *)
(* deadline while the bot is connected, and by the monitor, without any    *)
(* deadline, once the bot has left.                                        *)
StreamEnds == \A t \in Turns : pc[t] # "idle" ~> pc[t] = "closed"

(* A stream is ended by the last event of an earlier turn only after the   *)
(* stream of that turn, or of one before it, was cut short: a turn that    *)
(* was answered leaves no second last event behind ("send the single done  *)
(* event", inbound.ts:358), and what was in the inbox before is purged.    *)
(* After a cut the streams may go on one answer behind, each ended by the  *)
(* event of the turn before.  For requests made one after the other.       *)
EndedByCutTurn ==
    \A t \in Turns : \A i \in 1..Len(out[t]) :
        LET e == out[t][i]
        IN  Final(e) /\ e.of # t =>
                /\ e.of < t
                /\ \E u \in 1..e.of : \A j \in 1..Len(out[u]) : ~Final(out[u][j])

(* The chat inbox, the sockets and the dispatches are one queue, as        *)
(* EventChannel describes it: an event waits in the inbox, at the worker   *)
(* that found the inbox, or on the WebSocket, in that order.               *)
Channel == INSTANCE EventChannel WITH
    pending <- entries \o (IF pub = None THEN <<>> ELSE <<pub>>) \o wire,
    shown <- out, dropped <- old, over <- {t \in Turns : run[t] = "over"},
    calm <- faults = 0 /\ Leaves = 0 /\ link = "up"

(* No step of a handler, of sendToSession, of the plugin or of a clean-up  *)
(* duplicates or reorders an event, shows one out of turn, or drops one    *)
(* before a command has failed or the bot has left.                        *)
InboxIsChannel == Channel!ChannelSpec
=============================================================================
