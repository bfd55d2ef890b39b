--------------------------- MODULE ChatStreamProofs ---------------------------
(***************************************************************************)
(* The chat stream for any number of turns, workers, events, departures of *)
(* the bot and failing commands.                                           *)
(***************************************************************************)
EXTENDS ChatStream, FiniteSetTheorems, TLAPS

(* The parts of TypeOK, and the bound on what a dispatch sends.            *)
Flags ==
    /\ tracked \in BOOLEAN /\ alive \in BOOLEAN
    /\ hasChunks \in [Turns -> BOOLEAN] /\ late \in [Turns -> BOOLEAN]
    /\ told \in [Turns -> BOOLEAN] /\ gone \in [Turns -> BOOLEAN]
    /\ verdict \in [Nodes -> BOOLEAN]

Handlers ==
    /\ pc \in [Turns -> Steps] /\ home \in [Turns -> Nodes] /\ route \in [Turns -> Nodes]
    /\ host \in Nodes /\ link \in {"up", "lost", "down"}
    /\ mail \subseteq Message /\ cancelling \subseteq Turns

Watchers ==
    /\ mon \in [Nodes -> Turns \cup {None}]
    /\ clean \in [1..MaxLeaves -> {"none", "queued", "delete", "index", "over"}]
    /\ faults \in 0..MaxFaults

Dispatches ==
    /\ active \in Turns \cup {None}
    /\ run \in [Turns -> {"idle", "running", "aborting", "over"}]
    /\ said \in [Turns -> Seq({"chunk", "note"})]
    /\ \A t \in Turns : Len(said[t]) <= MaxPieces

Places ==
    /\ key \in {"absent", "bare", "group"} /\ entries \in Seq(Event)
    /\ wire \in Seq(Event) /\ pub \in Event \cup {None}

Shows == out \in [Turns -> Seq(Event)] /\ old \in [Turns -> SUBSET Event]

Shape == Flags /\ Handlers /\ Watchers /\ Dispatches /\ Places /\ Shows

-----------------------------------------------------------------------------
LEMMA ShapeInit == Init => Shape
<1> SUFFICES ASSUME Init PROVE Shape
  OBVIOUS
<1> USE ChatAssumption DEF Init
<1>1. Flags
  BY DEF Flags
<1>2. Handlers
  BY DEF Handlers, Steps
<1>3. Watchers
  BY DEF Watchers
<1>4. Dispatches
  BY DEF Dispatches
<1>5. Places /\ Shows
  BY DEF Places, Shows
<1> QED
  BY <1>1, <1>2, <1>3, <1>4, <1>5 DEF Shape

LEMMA FlagsStep == Flags /\ [Next]_vars => Flags'
<1> SUFFICES ASSUME Flags, [Next]_vars PROVE Flags'
  OBVIOUS
<1> USE DEF Flags, Goto, stream, bot, plugin, turn, watch, janitor
<1>1. ASSUME NEW t \in Turns,
             Begin(t) \/ Purge(t) \/ Group(t) \/ Track(t) \/ Route(t)
             \/ Send(t) \/ Open(t) \/ Top(t) \/ Issue(t) \/ Deliver(t)
             \/ ReadNothing(t) \/ Close(t) \/ ReadError(t) \/ SendCancel(t)
             \/ ClientLeaves(t) \/ TimeUp(t) \/ Finish(t)
      PROVE  Flags'
  <2>1. CASE Begin(t)
    BY <2>1 DEF Begin
  <2>2. CASE Purge(t)
    BY <2>2 DEF Purge
  <2>3. CASE Group(t)
    BY <2>3 DEF Group
  <2>4. CASE Track(t)
    BY <2>4 DEF Track
  <2>5. CASE Route(t)
    BY <2>5 DEF Route
  <2>6. CASE Send(t)
    BY <2>6 DEF Send
  <2>7. CASE Open(t)
    BY <2>7 DEF Open
  <2>8. CASE Top(t)
    BY <2>8 DEF Top
  <2>9. CASE Issue(t)
    BY <2>9 DEF Issue
  <2>10. CASE Deliver(t)
    BY <2>10 DEF Deliver
  <2>11. CASE ReadNothing(t)
    BY <2>11 DEF ReadNothing
  <2>12. CASE Close(t)
    BY <2>12 DEF Close
  <2>13. CASE ReadError(t)
    BY <2>13 DEF ReadError
  <2>14. CASE SendCancel(t)
    BY <2>14 DEF SendCancel
  <2>15. CASE ClientLeaves(t)
    BY <2>15 DEF ClientLeaves
  <2>16. CASE TimeUp(t)
    BY <2>16 DEF TimeUp
  <2>17. CASE Finish(t)
    BY <2>17 DEF Finish
  <2> QED
    BY <1>1, <2>1, <2>2, <2>3, <2>4, <2>5, <2>6, <2>7, <2>8, <2>9, <2>10,
      <2>11, <2>12, <2>13, <2>14, <2>15, <2>16, <2>17
<1>2. ASSUME NEW t \in Turns, NEW kind \in {"chunk", "note"}, Say(t, kind) PROVE Flags'
  BY <1>2 DEF Say
<1>3. ASSUME NEW m \in mail, Forward(m) PROVE Flags'
  BY <1>3 DEF Forward
<1>4. CASE HandleBotMessage
  BY <1>4 DEF HandleBotMessage
<1>5. CASE Publish
  BY <1>5 DEF Publish
<1>6. CASE BotLeaves
  BY <1>6 DEF BotLeaves
<1>7. CASE BotUnregistered
  BY <1>7 DEF BotUnregistered
<1>8. ASSUME NEW n \in Nodes, BotReturns(n) PROVE Flags'
  BY <1>8 DEF BotReturns
<1>9. ASSUME NEW n \in Nodes, MonitorCheck(n) PROVE Flags'
  BY <1>9 DEF MonitorCheck
<1>10. ASSUME NEW n \in Nodes, MonitorNotify(n) PROVE Flags'
  BY <1>10 DEF MonitorNotify
<1>11. ASSUME NEW k \in 1..MaxLeaves, CleanList(k) PROVE Flags'
  BY <1>11 DEF CleanList
<1>12. ASSUME NEW k \in 1..MaxLeaves, CleanInbox(k) PROVE Flags'
  BY <1>12 DEF CleanInbox
<1>13. ASSUME NEW k \in 1..MaxLeaves, CleanIndex(k) PROVE Flags'
  BY <1>13 DEF CleanIndex
<1>14. CASE UNCHANGED vars
  BY <1>14 DEF vars
<1> QED
  BY <1>1, <1>2, <1>3, <1>4, <1>5, <1>6, <1>7, <1>8, <1>9, <1>10, <1>11, <1>12,
      <1>13, <1>14 DEF Next, Handler, Cleaner

LEMMA HandlersStep == (Flags /\ Handlers /\ Watchers) /\ [Next]_vars => Handlers'
<1> SUFFICES ASSUME (Flags /\ Handlers /\ Watchers), [Next]_vars PROVE Handlers'
  OBVIOUS
<1> USE DEF Flags, Handlers, Watchers, Steps, Message, Goto, Register,
      Unregister, Works, Fails, CtxWorks, CtxFails, stream, bot, plugin, turn,
      watch, janitor
<1>1. ASSUME NEW t \in Turns,
             Begin(t) \/ Purge(t) \/ Group(t) \/ Track(t) \/ Route(t)
             \/ Send(t) \/ Open(t) \/ Top(t) \/ Issue(t) \/ Deliver(t)
             \/ ReadNothing(t) \/ Close(t) \/ ReadError(t) \/ SendCancel(t)
             \/ ClientLeaves(t) \/ TimeUp(t) \/ Finish(t)
      PROVE  Handlers'
  <2>1. CASE Begin(t)
    BY <2>1 DEF Begin
  <2>2. CASE Purge(t)
    BY <2>2 DEF Purge
  <2>3. CASE Group(t)
    BY <2>3 DEF Group
  <2>4. CASE Track(t)
    BY <2>4 DEF Track
  <2>5. CASE Route(t)
    BY <2>5 DEF Route
  <2>6. CASE Send(t)
    BY <2>6 DEF Send
  <2>7. CASE Open(t)
    BY <2>7 DEF Open
  <2>8. CASE Top(t)
    BY <2>8 DEF Top
  <2>9. CASE Issue(t)
    BY <2>9 DEF Issue
  <2>10. CASE Deliver(t)
    BY <2>10 DEF Deliver
  <2>11. CASE ReadNothing(t)
    BY <2>11 DEF ReadNothing
  <2>12. CASE Close(t)
    BY <2>12 DEF Close
  <2>13. CASE ReadError(t)
    BY <2>13 DEF ReadError
  <2>14. CASE SendCancel(t)
    BY <2>14 DEF SendCancel
  <2>15. CASE ClientLeaves(t)
    BY <2>15 DEF ClientLeaves
  <2>16. CASE TimeUp(t)
    BY <2>16 DEF TimeUp
  <2>17. CASE Finish(t)
    BY <2>17 DEF Finish
  <2> QED
    BY <1>1, <2>1, <2>2, <2>3, <2>4, <2>5, <2>6, <2>7, <2>8, <2>9, <2>10,
      <2>11, <2>12, <2>13, <2>14, <2>15, <2>16, <2>17
<1>2. ASSUME NEW t \in Turns, NEW kind \in {"chunk", "note"}, Say(t, kind) PROVE Handlers'
  BY <1>2 DEF Say
<1>3. ASSUME NEW m \in mail, Forward(m) PROVE Handlers'
  BY <1>3 DEF Forward
<1>4. CASE HandleBotMessage
  BY <1>4 DEF HandleBotMessage
<1>5. CASE Publish
  BY <1>5 DEF Publish
<1>6. CASE BotLeaves
  BY <1>6 DEF BotLeaves
<1>7. CASE BotUnregistered
  BY <1>7 DEF BotUnregistered
<1>8. ASSUME NEW n \in Nodes, BotReturns(n) PROVE Handlers'
  BY <1>8 DEF BotReturns
<1>9. ASSUME NEW n \in Nodes, MonitorCheck(n) PROVE Handlers'
  BY <1>9 DEF MonitorCheck
<1>10. ASSUME NEW n \in Nodes, MonitorNotify(n) PROVE Handlers'
  BY <1>10 DEF MonitorNotify
<1>11. ASSUME NEW k \in 1..MaxLeaves, CleanList(k) PROVE Handlers'
  BY <1>11 DEF CleanList
<1>12. ASSUME NEW k \in 1..MaxLeaves, CleanInbox(k) PROVE Handlers'
  BY <1>12 DEF CleanInbox
<1>13. ASSUME NEW k \in 1..MaxLeaves, CleanIndex(k) PROVE Handlers'
  BY <1>13 DEF CleanIndex
<1>14. CASE UNCHANGED vars
  BY <1>14 DEF vars
<1> QED
  BY <1>1, <1>2, <1>3, <1>4, <1>5, <1>6, <1>7, <1>8, <1>9, <1>10, <1>11, <1>12,
      <1>13, <1>14 DEF Next, Handler, Cleaner

LEMMA WatchersStep == (Handlers /\ Watchers) /\ [Next]_vars => Watchers'
<1> SUFFICES ASSUME (Handlers /\ Watchers), [Next]_vars PROVE Watchers'
  OBVIOUS
<1> USE ChatAssumption
      DEF Handlers, Watchers, Goto, Register, Unregister, Works, Fails,
      CtxWorks, CtxFails, stream, bot, plugin, turn, watch, janitor
<1>1. ASSUME NEW t \in Turns,
             Begin(t) \/ Purge(t) \/ Group(t) \/ Track(t) \/ Route(t)
             \/ Send(t) \/ Open(t) \/ Top(t) \/ Issue(t) \/ Deliver(t)
             \/ ReadNothing(t) \/ Close(t) \/ ReadError(t) \/ SendCancel(t)
             \/ ClientLeaves(t) \/ TimeUp(t) \/ Finish(t)
      PROVE  Watchers'
  <2>1. CASE Begin(t)
    BY <2>1 DEF Begin
  <2>2. CASE Purge(t)
    BY <2>2 DEF Purge
  <2>3. CASE Group(t)
    BY <2>3 DEF Group
  <2>4. CASE Track(t)
    BY <2>4 DEF Track
  <2>5. CASE Route(t)
    BY <2>5 DEF Route
  <2>6. CASE Send(t)
    BY <2>6 DEF Send
  <2>7. CASE Open(t)
    BY <2>7 DEF Open
  <2>8. CASE Top(t)
    BY <2>8 DEF Top
  <2>9. CASE Issue(t)
    BY <2>9 DEF Issue
  <2>10. CASE Deliver(t)
    BY <2>10 DEF Deliver
  <2>11. CASE ReadNothing(t)
    BY <2>11 DEF ReadNothing
  <2>12. CASE Close(t)
    BY <2>12 DEF Close
  <2>13. CASE ReadError(t)
    BY <2>13 DEF ReadError
  <2>14. CASE SendCancel(t)
    BY <2>14 DEF SendCancel
  <2>15. CASE ClientLeaves(t)
    BY <2>15 DEF ClientLeaves
  <2>16. CASE TimeUp(t)
    BY <2>16 DEF TimeUp
  <2>17. CASE Finish(t)
    BY <2>17 DEF Finish
  <2> QED
    BY <1>1, <2>1, <2>2, <2>3, <2>4, <2>5, <2>6, <2>7, <2>8, <2>9, <2>10,
      <2>11, <2>12, <2>13, <2>14, <2>15, <2>16, <2>17
<1>2. ASSUME NEW t \in Turns, NEW kind \in {"chunk", "note"}, Say(t, kind) PROVE Watchers'
  BY <1>2 DEF Say
<1>3. ASSUME NEW m \in mail, Forward(m) PROVE Watchers'
  BY <1>3 DEF Forward
<1>4. CASE HandleBotMessage
  BY <1>4 DEF HandleBotMessage
<1>5. CASE Publish
  BY <1>5 DEF Publish
<1>6. CASE BotLeaves
  BY <1>6 DEF BotLeaves
<1>7. CASE BotUnregistered
  BY <1>7 DEF BotUnregistered
<1>8. ASSUME NEW n \in Nodes, BotReturns(n) PROVE Watchers'
  BY <1>8 DEF BotReturns
<1>9. ASSUME NEW n \in Nodes, MonitorCheck(n) PROVE Watchers'
  BY <1>9 DEF MonitorCheck
<1>10. ASSUME NEW n \in Nodes, MonitorNotify(n) PROVE Watchers'
  BY <1>10 DEF MonitorNotify
<1>11. ASSUME NEW k \in 1..MaxLeaves, CleanList(k) PROVE Watchers'
  BY <1>11 DEF CleanList
<1>12. ASSUME NEW k \in 1..MaxLeaves, CleanInbox(k) PROVE Watchers'
  BY <1>12 DEF CleanInbox
<1>13. ASSUME NEW k \in 1..MaxLeaves, CleanIndex(k) PROVE Watchers'
  BY <1>13 DEF CleanIndex
<1>14. CASE UNCHANGED vars
  BY <1>14 DEF vars
<1> QED
  BY <1>1, <1>2, <1>3, <1>4, <1>5, <1>6, <1>7, <1>8, <1>9, <1>10, <1>11, <1>12,
      <1>13, <1>14 DEF Next, Handler, Cleaner

-----------------------------------------------------------------------------
(* The steps that change what is sent, under way or shown.                 *)
events == <<active, run, said, wire, pub, key, entries, out, hasChunks, old>>

Mover(t) ==
    \/ Purge(t) \/ Group(t) \/ Deliver(t) \/ ReadNothing(t) \/ Finish(t)
    \/ \E kind \in {"chunk", "note"} : Say(t, kind)

LEMMA Movers ==
    [Next]_vars =>
        \/ \E t \in Turns : Mover(t)
        \/ \E m \in mail : Forward(m)
        \/ HandleBotMessage \/ Publish \/ BotLeaves
        \/ \E k \in 1..MaxLeaves : CleanInbox(k)
        \/ UNCHANGED events
<1> SUFFICES ASSUME [Next]_vars,
                    \A t \in Turns : ~Mover(t),
                    \A m \in mail : ~Forward(m),
                    ~HandleBotMessage, ~Publish, ~BotLeaves,
                    \A k \in 1..MaxLeaves : ~CleanInbox(k)
             PROVE  UNCHANGED events
  OBVIOUS
<1> USE DEF events, stream, bot, plugin, turn, watch, janitor
<1>1. ASSUME NEW t \in Turns, Begin(t) \/ Track(t) \/ Route(t) \/ Send(t) \/ Open(t)
      PROVE  UNCHANGED events
  BY <1>1 DEF Begin, Track, Route, Send, Open
<1>2. ASSUME NEW t \in Turns,
             Top(t) \/ Issue(t) \/ Close(t) \/ ReadError(t) \/ SendCancel(t)
                \/ ClientLeaves(t) \/ TimeUp(t)
      PROVE  UNCHANGED events
  BY <1>2 DEF Top, Issue, Close, ReadError, SendCancel, ClientLeaves, TimeUp
<1>3. CASE BotUnregistered
  BY <1>3 DEF BotUnregistered
<1>4. ASSUME NEW n \in Nodes, BotReturns(n) \/ MonitorCheck(n) \/ MonitorNotify(n)
      PROVE  UNCHANGED events
  BY <1>4 DEF BotReturns, MonitorCheck, MonitorNotify
<1>5. ASSUME NEW k \in 1..MaxLeaves, CleanList(k) \/ CleanIndex(k) PROVE UNCHANGED events
  BY <1>5 DEF CleanList, CleanIndex
<1>6. CASE UNCHANGED vars
  BY <1>6 DEF vars
<1> QED
  BY <1>1, <1>2, <1>3, <1>4, <1>5, <1>6 DEF Next, Handler, Cleaner, Mover

LEMMA DispatchesStep == Handlers /\ Dispatches /\ [Next]_vars => Dispatches'
<1> SUFFICES ASSUME Handlers /\ Dispatches, [Next]_vars PROVE Dispatches'
  OBVIOUS
<1> USE ChatAssumption DEF Handlers, Dispatches, Message, Goto,
      stream, bot, plugin, turn, watch, janitor
<1>1. ASSUME NEW t \in Turns, Mover(t) PROVE Dispatches'
  <2>1. CASE Purge(t)
    BY <2>1 DEF Purge
  <2>2. CASE Group(t)
    BY <2>2 DEF Group
  <2>3. CASE Deliver(t)
    BY <2>3 DEF Deliver
  <2>4. CASE ReadNothing(t)
    BY <2>4 DEF ReadNothing
  <2>5. CASE Finish(t)
    BY <2>5 DEF Finish
  <2>6. ASSUME NEW kind \in {"chunk", "note"}, Say(t, kind) PROVE Dispatches'
    BY <2>6 DEF Say
  <2> QED
    BY <1>1, <2>1, <2>2, <2>3, <2>4, <2>5, <2>6 DEF Mover
<1>2. ASSUME NEW m \in mail, Forward(m) PROVE Dispatches'
  BY <1>2 DEF Forward
<1>3. CASE HandleBotMessage
  BY <1>3 DEF HandleBotMessage
<1>4. CASE Publish
  BY <1>4 DEF Publish
<1>5. CASE BotLeaves
  BY <1>5 DEF BotLeaves
<1>6. ASSUME NEW k \in 1..MaxLeaves, CleanInbox(k) PROVE Dispatches'
  BY <1>6 DEF CleanInbox
<1>7. CASE UNCHANGED events
  BY <1>7 DEF events
<1> QED
  BY <1>1, <1>2, <1>3, <1>4, <1>5, <1>6, <1>7, Movers

LEMMA EmptyQueue == <<>> \in Seq(Event)
OBVIOUS

(* What Emit appends is an event of its dispatch.                          *)
LEMMA EmitStep ==
    ASSUME Dispatches, Places, NEW t \in Turns, NEW kind \in Kinds, Emit(t, kind)
    PROVE  wire' \in Seq(Event)
<1>1. [of |-> t, n |-> Len(said[t]), kind |-> kind] \in Event
  BY ChatAssumption DEF Dispatches, Event
<1> QED
  BY <1>1 DEF Emit, Places

LEMMA PlacesStep == Dispatches /\ Places /\ [Next]_vars => Places'
<1> SUFFICES ASSUME Dispatches /\ Places, [Next]_vars PROVE Places'
  OBVIOUS
<1> USE EmptyQueue DEF Places, EnsureGroup, stream, bot, plugin, turn, watch, janitor
<1>1. ASSUME NEW t \in Turns, Mover(t) PROVE Places'
  <2>1. CASE Purge(t)
    BY <2>1 DEF Purge
  <2>2. CASE Group(t)
    BY <2>2 DEF Group
  <2>3. CASE Deliver(t)
    BY <2>3 DEF Deliver
  <2>4. CASE ReadNothing(t)
    BY <2>4 DEF ReadNothing
  <2>5. CASE Finish(t)
    <3>1. (\E kind \in Kinds : Emit(t, kind)) \/ UNCHANGED wire
      BY <2>5 DEF Finish, Kinds
    <3>2. wire' \in Seq(Event)
      BY <3>1, EmitStep
    <3> QED
      BY <2>5, <3>2 DEF Finish
  <2>6. ASSUME NEW kind \in {"chunk", "note"}, Say(t, kind) PROVE Places'
    <3>1. kind \in Kinds
      BY DEF Kinds
    <3> QED
      BY <2>6, <3>1, EmitStep DEF Say
  <2> QED
    BY <1>1, <2>1, <2>2, <2>3, <2>4, <2>5, <2>6 DEF Mover
<1>2. ASSUME NEW m \in mail, Forward(m) PROVE Places'
  BY <1>2 DEF Forward
<1>3. CASE HandleBotMessage
  BY <1>3 DEF HandleBotMessage
<1>4. CASE Publish
  BY <1>4 DEF Publish
<1>5. CASE BotLeaves
  BY <1>5 DEF BotLeaves
<1>6. ASSUME NEW k \in 1..MaxLeaves, CleanInbox(k) PROVE Places'
  BY <1>6 DEF CleanInbox
<1>7. CASE UNCHANGED events
  BY <1>7 DEF events
<1> QED
  BY <1>1, <1>2, <1>3, <1>4, <1>5, <1>6, <1>7, Movers

LEMMA FramesType ==
    ASSUME NEW t \in Turns, NEW e \in Event
    PROVE  Frames(t, e) \in Seq(Event)
<1>1. [e EXCEPT !.kind = "chunk"] \in Event
  BY DEF Event, Kinds
<1>2. \A c, d \in Event : <<d>> \in Seq(Event) /\ <<c, d>> \in Seq(Event)
  OBVIOUS
<1> QED
  BY <1>1, <1>2 DEF Frames

LEMMA ShowsStep == Places /\ Shows /\ [Next]_vars => Shows'
<1> SUFFICES ASSUME Places /\ Shows, [Next]_vars PROVE Shows'
  OBVIOUS
<1> USE DEF Places, Shows, stream, bot, plugin, turn, watch, janitor
<1>1. ASSUME NEW t \in Turns, Mover(t) PROVE Shows'
  <2>1. CASE Purge(t)
    <3>1. ToSet(entries) \subseteq Event
      BY DEF ToSet
    <3>2. UNCHANGED out
      BY <2>1 DEF Purge
    <3>3. CASE old' = [old EXCEPT ![t] = ToSet(entries)]
      BY <3>1, <3>2, <3>3
    <3>4. CASE UNCHANGED old
      BY <3>2, <3>4
    <3> QED
      BY <2>1, <3>3, <3>4 DEF Purge
  <2>2. CASE Group(t)
    BY <2>2 DEF Group
  <2>3. CASE Deliver(t)
    <3>1. Head(entries) \in Event
      BY <2>3 DEF Deliver
    <3>2. out[t] \o Frames(t, Head(entries)) \in Seq(Event)
      BY <3>1, FramesType
    <3> QED
      BY <2>3, <3>2 DEF Deliver
  <2>4. CASE ReadNothing(t)
    BY <2>4 DEF ReadNothing
  <2>5. CASE Finish(t)
    BY <2>5 DEF Finish
  <2>6. ASSUME NEW kind \in {"chunk", "note"}, Say(t, kind) PROVE Shows'
    BY <2>6 DEF Say
  <2> QED
    BY <1>1, <2>1, <2>2, <2>3, <2>4, <2>5, <2>6 DEF Mover
<1>2. ASSUME NEW m \in mail, Forward(m) PROVE Shows'
  BY <1>2 DEF Forward
<1>3. CASE HandleBotMessage
  BY <1>3 DEF HandleBotMessage
<1>4. CASE Publish
  BY <1>4 DEF Publish
<1>5. CASE BotLeaves
  BY <1>5 DEF BotLeaves
<1>6. ASSUME NEW k \in 1..MaxLeaves, CleanInbox(k) PROVE Shows'
  BY <1>6 DEF CleanInbox
<1>7. CASE UNCHANGED events
  BY <1>7 DEF events
<1> QED
  BY <1>1, <1>2, <1>3, <1>4, <1>5, <1>6, <1>7, Movers

LEMMA ShapeStep == Shape /\ [Next]_vars => Shape'
BY FlagsStep, HandlersStep, WatchersStep, DispatchesStep, PlacesStep, ShowsStep DEF Shape

-----------------------------------------------------------------------------
(* A request whose prompt may be under way, and one that comes after all   *)
(* others have ended.                                                      *)
Sent == {"open", "top", "issue", "block", "closing", "closed"}

Serial ==
    Overlap \/ \A t \in Turns : pc[t] # "idle" => \A u \in 1..(t - 1) : pc[u] = "closed"

(* The steps between the creation of the group and the prompt.             *)
Prepared == {"track", "route", "send"}

(* A stream that was not opened discarded and showed nothing.              *)
Unopened == \A t \in Turns : pc[t] \in {"idle", "purge"} => old[t] = {} /\ out[t] = <<>>

(* Every prompt is sent once and starts one dispatch.                      *)
Prompts ==
    /\ \A m \in mail : m.kind = "prompt" => run[m.turn] = "idle" /\ pc[m.turn] \in Sent
    /\ \A l, m \in mail : l.kind = "prompt" /\ m.kind = "prompt" /\ l.turn = m.turn => l = m
    /\ \A t \in Turns : run[t] # "idle" => pc[t] \in Sent
    /\ \A t \in Turns : run[t] = "idle" => said[t] = <<>>
    /\ active # None => run[active] \in {"running", "aborting"}

(* How a chat request moves on.                                            *)
Advances(t, s) ==
    /\ pc[t] # "closed" /\ pc' = [pc EXCEPT ![t] = s]
    /\ pc[t] = "idle" => MayAsk(t)
    /\ pc[t] \in Sent => s \in Sent
    /\ s = "purge" => pc[t] = "idle"
    /\ s \in Prepared => pc[t] \in Prepared \/ gone[t] \/ key' = "group" \/ faults' # 0

LEMMA Advance ==
    Handlers /\ Watchers /\ [Next]_vars =>
        UNCHANGED pc \/ \E t \in Turns, s \in Steps \ {"idle"} : Advances(t, s)
<1> SUFFICES ASSUME Handlers, Watchers, [Next]_vars
             PROVE  UNCHANGED pc \/ \E t \in Turns, s \in Steps \ {"idle"} : Advances(t, s)
  OBVIOUS
<1> USE DEF turn
<1>1. ASSUME NEW t \in Turns, Begin(t) \/ Purge(t) \/ Group(t)
      PROVE  \E s \in Steps \ {"idle"} : Advances(t, s)
  <2>1. CASE Begin(t)
    <3>1. pc[t] = "idle" /\ (pc' = [pc EXCEPT ![t] = "purge"] \/ pc' = [pc EXCEPT ![t] = "closed"])
      BY <2>1 DEF Begin, Goto
    <3>2. MayAsk(t)
      BY <2>1 DEF Begin
    <3>3. CASE pc' = [pc EXCEPT ![t] = "purge"]
      <4>1. Advances(t, "purge") /\ "purge" \in Steps \ {"idle"}
        BY <3>1, <3>2, <3>3 DEF Advances, Sent, Prepared, Steps
      <4> QED
        BY <4>1
    <3>4. CASE pc' = [pc EXCEPT ![t] = "closed"]
      <4>1. Advances(t, "closed") /\ "closed" \in Steps \ {"idle"}
        BY <3>1, <3>2, <3>4 DEF Advances, Sent, Prepared, Steps
      <4> QED
        BY <4>1
    <3> QED
      BY <3>1, <3>3, <3>4
  <2>2. CASE Purge(t)
    <3>1. pc[t] = "purge" /\ pc' = [pc EXCEPT ![t] = "group"]
      BY <2>2 DEF Purge, Goto
    <3>3. CASE pc' = [pc EXCEPT ![t] = "group"]
      <4>1. Advances(t, "group") /\ "group" \in Steps \ {"idle"}
        BY <3>1, <3>3 DEF Advances, Sent, Prepared, Steps
      <4> QED
        BY <4>1
    <3> QED
      BY <3>1, <3>3
  <2>3. CASE Group(t)
    <3>1. pc[t] = "group" /\ pc' = [pc EXCEPT ![t] = "track"]
      BY <2>3 DEF Group, Goto
    <3>2. gone[t] \/ key' = "group" \/ faults' # 0
      BY <2>3, ChatAssumption DEF Group, CtxWorks, CtxFails, Fails, EnsureGroup, Watchers
    <3>3. CASE pc' = [pc EXCEPT ![t] = "track"]
      <4>1. Advances(t, "track") /\ "track" \in Steps \ {"idle"}
        BY <3>1, <3>2, <3>3 DEF Advances, Sent, Prepared, Steps
      <4> QED
        BY <4>1
    <3> QED
      BY <3>1, <3>3
  <2> QED
    BY <1>1, <2>1, <2>2, <2>3
<1>2. ASSUME NEW t \in Turns, Track(t) \/ Route(t) \/ Send(t)
      PROVE  \E s \in Steps \ {"idle"} : Advances(t, s)
  <2>1. CASE Track(t)
    <3>1. pc[t] = "track" /\ pc' = [pc EXCEPT ![t] = "route"]
      BY <2>1 DEF Track, Goto
    <3>3. CASE pc' = [pc EXCEPT ![t] = "route"]
      <4>1. Advances(t, "route") /\ "route" \in Steps \ {"idle"}
        BY <3>1, <3>3 DEF Advances, Sent, Prepared, Steps
      <4> QED
        BY <4>1
    <3> QED
      BY <3>1, <3>3
  <2>2. CASE Route(t)
    <3>1. pc[t] = "route" /\ (pc' = [pc EXCEPT ![t] = "send"] \/ pc' = [pc EXCEPT ![t] = "closed"])
      BY <2>2 DEF Route, Goto
    <3>3. CASE pc' = [pc EXCEPT ![t] = "send"]
      <4>1. Advances(t, "send") /\ "send" \in Steps \ {"idle"}
        BY <3>1, <3>3 DEF Advances, Sent, Prepared, Steps
      <4> QED
        BY <4>1
    <3>4. CASE pc' = [pc EXCEPT ![t] = "closed"]
      <4>1. Advances(t, "closed") /\ "closed" \in Steps \ {"idle"}
        BY <3>1, <3>4 DEF Advances, Sent, Prepared, Steps
      <4> QED
        BY <4>1
    <3> QED
      BY <3>1, <3>3, <3>4
  <2>3. CASE Send(t)
    <3>1. pc[t] = "send" /\ (pc' = [pc EXCEPT ![t] = "open"] \/ pc' = [pc EXCEPT ![t] = "closed"])
      BY <2>3 DEF Send, Goto
    <3>3. CASE pc' = [pc EXCEPT ![t] = "open"]
      <4>1. Advances(t, "open") /\ "open" \in Steps \ {"idle"}
        BY <3>1, <3>3 DEF Advances, Sent, Prepared, Steps
      <4> QED
        BY <4>1
    <3>4. CASE pc' = [pc EXCEPT ![t] = "closed"]
      <4>1. Advances(t, "closed") /\ "closed" \in Steps \ {"idle"}
        BY <3>1, <3>4 DEF Advances, Sent, Prepared, Steps
      <4> QED
        BY <4>1
    <3> QED
      BY <3>1, <3>3, <3>4
  <2> QED
    BY <1>2, <2>1, <2>2, <2>3
<1>3. ASSUME NEW t \in Turns, Open(t) \/ Top(t) \/ Issue(t)
      PROVE  \E s \in Steps \ {"idle"} : Advances(t, s)
  <2>1. CASE Open(t)
    <3>1. pc[t] = "open" /\ (pc' = [pc EXCEPT ![t] = "top"] \/ pc' = [pc EXCEPT ![t] = "closing"])
      BY <2>1 DEF Open, Goto
    <3>3. CASE pc' = [pc EXCEPT ![t] = "top"]
      <4>1. Advances(t, "top") /\ "top" \in Steps \ {"idle"}
        BY <3>1, <3>3 DEF Advances, Sent, Prepared, Steps
      <4> QED
        BY <4>1
    <3>4. CASE pc' = [pc EXCEPT ![t] = "closing"]
      <4>1. Advances(t, "closing") /\ "closing" \in Steps \ {"idle"}
        BY <3>1, <3>4 DEF Advances, Sent, Prepared, Steps
      <4> QED
        BY <4>1
    <3> QED
      BY <3>1, <3>3, <3>4
  <2>2. CASE Top(t)
    <3>1. pc[t] = "top" /\ (pc' = [pc EXCEPT ![t] = "closing"] \/ pc' = [pc EXCEPT ![t] = "issue"])
      BY <2>2 DEF Top, Goto
    <3>3. CASE pc' = [pc EXCEPT ![t] = "closing"]
      <4>1. Advances(t, "closing") /\ "closing" \in Steps \ {"idle"}
        BY <3>1, <3>3 DEF Advances, Sent, Prepared, Steps
      <4> QED
        BY <4>1
    <3>4. CASE pc' = [pc EXCEPT ![t] = "issue"]
      <4>1. Advances(t, "issue") /\ "issue" \in Steps \ {"idle"}
        BY <3>1, <3>4 DEF Advances, Sent, Prepared, Steps
      <4> QED
        BY <4>1
    <3> QED
      BY <3>1, <3>3, <3>4
  <2>3. CASE Issue(t)
    <3>1. pc[t] = "issue" /\ (pc' = [pc EXCEPT ![t] = "closing"] \/ pc' = [pc EXCEPT ![t] = "block"])
      BY <2>3 DEF Issue, Goto
    <3>3. CASE pc' = [pc EXCEPT ![t] = "closing"]
      <4>1. Advances(t, "closing") /\ "closing" \in Steps \ {"idle"}
        BY <3>1, <3>3 DEF Advances, Sent, Prepared, Steps
      <4> QED
        BY <4>1
    <3>4. CASE pc' = [pc EXCEPT ![t] = "block"]
      <4>1. Advances(t, "block") /\ "block" \in Steps \ {"idle"}
        BY <3>1, <3>4 DEF Advances, Sent, Prepared, Steps
      <4> QED
        BY <4>1
    <3> QED
      BY <3>1, <3>3, <3>4
  <2> QED
    BY <1>3, <2>1, <2>2, <2>3
<1>4. ASSUME NEW t \in Turns, Deliver(t) \/ ReadNothing(t)
      PROVE  \E s \in Steps \ {"idle"} : Advances(t, s)
  <2>1. CASE Deliver(t)
    <3>1. pc[t] = "block" /\ (pc' = [pc EXCEPT ![t] = "closing"] \/ pc' = [pc EXCEPT ![t] = "top"])
      BY <2>1 DEF Deliver, Goto
    <3>3. CASE pc' = [pc EXCEPT ![t] = "closing"]
      <4>1. Advances(t, "closing") /\ "closing" \in Steps \ {"idle"}
        BY <3>1, <3>3 DEF Advances, Sent, Prepared, Steps
      <4> QED
        BY <4>1
    <3>4. CASE pc' = [pc EXCEPT ![t] = "top"]
      <4>1. Advances(t, "top") /\ "top" \in Steps \ {"idle"}
        BY <3>1, <3>4 DEF Advances, Sent, Prepared, Steps
      <4> QED
        BY <4>1
    <3> QED
      BY <3>1, <3>3, <3>4
  <2>2. CASE ReadNothing(t)
    <3>1. pc[t] = "block" /\ pc' = [pc EXCEPT ![t] = "top"]
      BY <2>2 DEF ReadNothing, Goto
    <3>3. CASE pc' = [pc EXCEPT ![t] = "top"]
      <4>1. Advances(t, "top") /\ "top" \in Steps \ {"idle"}
        BY <3>1, <3>3 DEF Advances, Sent, Prepared, Steps
      <4> QED
        BY <4>1
    <3> QED
      BY <3>1, <3>3
  <2> QED
    BY <1>4, <2>1, <2>2
<1>5. ASSUME NEW t \in Turns, Close(t) \/ ReadError(t)
      PROVE  \E s \in Steps \ {"idle"} : Advances(t, s)
  <2>1. CASE Close(t)
    <3>1. pc[t] = "closing" /\ pc' = [pc EXCEPT ![t] = "closed"]
      BY <2>1 DEF Close, Goto
    <3>3. CASE pc' = [pc EXCEPT ![t] = "closed"]
      <4>1. Advances(t, "closed") /\ "closed" \in Steps \ {"idle"}
        BY <3>1, <3>3 DEF Advances, Sent, Prepared, Steps
      <4> QED
        BY <4>1
    <3> QED
      BY <3>1, <3>3
  <2>2. CASE ReadError(t)
    <3>1. pc[t] = "block" /\ pc' = [pc EXCEPT ![t] = "closing"]
      BY <2>2 DEF ReadError, Goto
    <3>3. CASE pc' = [pc EXCEPT ![t] = "closing"]
      <4>1. Advances(t, "closing") /\ "closing" \in Steps \ {"idle"}
        BY <3>1, <3>3 DEF Advances, Sent, Prepared, Steps
      <4> QED
        BY <4>1
    <3> QED
      BY <3>1, <3>3
  <2> QED
    BY <1>5, <2>1, <2>2
<1>6. ASSUME NEW t \in Turns, SendCancel(t) \/ ClientLeaves(t) \/ TimeUp(t) \/ Finish(t)
      PROVE  UNCHANGED pc
  BY <1>6 DEF SendCancel, ClientLeaves, TimeUp, Finish
<1>7. ASSUME NEW t \in Turns, NEW kind \in {"chunk", "note"}, Say(t, kind) PROVE UNCHANGED pc
  BY <1>7 DEF Say
<1>8. ASSUME NEW m \in mail, Forward(m) PROVE UNCHANGED pc
  BY <1>8 DEF Forward
<1>9. CASE HandleBotMessage \/ Publish \/ BotLeaves \/ BotUnregistered \/ UNCHANGED vars
  BY <1>9 DEF HandleBotMessage, Publish, BotLeaves, BotUnregistered, vars
<1>10. ASSUME NEW n \in Nodes, BotReturns(n) \/ MonitorCheck(n) \/ MonitorNotify(n)
       PROVE  UNCHANGED pc
  BY <1>10 DEF BotReturns, MonitorCheck, MonitorNotify
<1>11. ASSUME NEW k \in 1..MaxLeaves, Cleaner(k) PROVE UNCHANGED pc
  BY <1>11 DEF Cleaner, CleanList, CleanInbox, CleanIndex
<1> QED
  BY <1>1, <1>2, <1>3, <1>4, <1>5, <1>6, <1>7, <1>8, <1>9, <1>10, <1>11 DEF Next, Handler

LEMMA Posts ==
    [Next]_vars =>
        \/ \E t \in Turns : Send(t) \/ SendCancel(t)
        \/ \E m \in mail : Forward(m)
        \/ UNCHANGED mail
<1> SUFFICES ASSUME [Next]_vars, \A t \in Turns : ~Send(t) /\ ~SendCancel(t),
                    \A m \in mail : ~Forward(m)
             PROVE  UNCHANGED mail
  OBVIOUS
<1>1. ASSUME NEW t \in Turns,
             Begin(t) \/ Purge(t) \/ Group(t) \/ Track(t) \/ Route(t) \/ Open(t) \/ Top(t)
      PROVE  UNCHANGED mail
  BY <1>1 DEF Begin, Purge, Group, Track, Route, Open, Top
<1>2. ASSUME NEW t \in Turns, Issue(t) \/ Deliver(t) \/ ReadNothing(t) \/ Close(t) \/ ReadError(t)
      PROVE  UNCHANGED mail
  BY <1>2 DEF Issue, Deliver, ReadNothing, Close, ReadError
<1>3. ASSUME NEW t \in Turns, ClientLeaves(t) \/ TimeUp(t) \/ Finish(t) PROVE UNCHANGED mail
  BY <1>3 DEF ClientLeaves, TimeUp, Finish
<1>4. ASSUME NEW t \in Turns, NEW kind \in {"chunk", "note"}, Say(t, kind) PROVE UNCHANGED mail
  BY <1>4 DEF Say
<1>5. CASE HandleBotMessage \/ Publish \/ BotLeaves \/ BotUnregistered \/ UNCHANGED vars
  BY <1>5 DEF HandleBotMessage, Publish, BotLeaves, BotUnregistered, vars
<1>6. ASSUME NEW n \in Nodes, BotReturns(n) \/ MonitorCheck(n) \/ MonitorNotify(n)
      PROVE  UNCHANGED mail
  BY <1>6 DEF BotReturns, MonitorCheck, MonitorNotify
<1>7. ASSUME NEW k \in 1..MaxLeaves, Cleaner(k) PROVE UNCHANGED mail
  BY <1>7 DEF Cleaner, CleanList, CleanInbox, CleanIndex
<1> QED
  BY <1>1, <1>2, <1>3, <1>4, <1>5, <1>6, <1>7 DEF Next, Handler

LEMMA SerialStep == Handlers /\ Watchers /\ Serial /\ [Next]_vars => Serial'
<1> SUFFICES ASSUME Handlers, Watchers, Serial, [Next]_vars, ~Overlap PROVE Serial'
  BY DEF Serial
<1>1. CASE UNCHANGED pc
  BY <1>1 DEF Serial
<1>2. ASSUME NEW t \in Turns, NEW s \in Steps \ {"idle"}, Advances(t, s) PROVE Serial'
  <2> SUFFICES ASSUME NEW v \in Turns, pc'[v] # "idle", NEW u \in 1..(v - 1)
               PROVE  pc'[u] = "closed"
    BY DEF Serial
  <2>1. u \in Turns /\ u < v
    BY ChatAssumption DEF Turns
  <2>2. pc[u] = "closed"
    BY <1>2, <2>1 DEF Advances, Serial, MayAsk, Handlers
  <2> QED
    BY <1>2, <2>1, <2>2 DEF Advances, Handlers
<1> QED
  BY <1>1, <1>2, Advance

LEMMA PromptsStep ==
    Handlers /\ Watchers /\ Dispatches /\ Prompts /\ [Next]_vars => Prompts'
<1> SUFFICES ASSUME Handlers, Watchers, Dispatches, Prompts, [Next]_vars PROVE Prompts'
  OBVIOUS
<1>1. \A t \in Turns : pc[t] \in Sent => pc'[t] \in Sent
  BY Advance DEF Advances, Handlers
<1> USE ChatAssumption DEF Handlers, Dispatches, Message, plugin
<1>2. ASSUME NEW t \in Turns, Send(t) PROVE Prompts'
  <2>1. run[t] = "idle" /\ \A m \in mail : m.kind = "prompt" => m.turn # t
    BY <1>2 DEF Send, Prompts, Sent
  <2>2. pc[t] = "send" /\ UNCHANGED <<active, run, said>>
    BY <1>2 DEF Send
  <2>3. CASE mail' = mail \cup {[to |-> route[t], kind |-> "prompt", turn |-> t]} /\ Goto(t, "open")
    BY <1>1, <2>1, <2>2, <2>3 DEF Prompts, Goto, Sent
  <2>4. CASE UNCHANGED mail
    BY <1>1, <2>2, <2>4 DEF Prompts
  <2> QED
    BY <1>2, <2>3, <2>4 DEF Send
<1>3. ASSUME NEW t \in Turns, SendCancel(t) PROVE Prompts'
  <2>1. CASE mail' = mail \cup {[to |-> host, kind |-> "cancel", turn |-> t]}
    BY <1>1, <1>3, <2>1 DEF SendCancel, Prompts
  <2>2. CASE UNCHANGED mail
    BY <1>1, <1>3, <2>2 DEF SendCancel, Prompts
  <2> QED
    BY <1>3, <2>1, <2>2 DEF SendCancel
<1>4. ASSUME NEW m \in mail, Forward(m) PROVE Prompts'
  <2>1. mail' = mail \ {m} /\ UNCHANGED said
    BY <1>4 DEF Forward
  <2>2. CASE m.kind = "prompt" /\ run' = [run EXCEPT ![m.turn] = "running"] /\ active' = m.turn
    BY <1>1, <2>1, <2>2 DEF Prompts
  <2>3. CASE active # None /\ run' = [run EXCEPT ![active] = "aborting"] /\ UNCHANGED active
    BY <1>1, <2>1, <2>3 DEF Prompts
  <2>4. CASE UNCHANGED <<run, active>>
    BY <1>1, <2>1, <2>4 DEF Prompts
  <2> QED
    BY <1>4, <2>2, <2>3, <2>4 DEF Forward
<1>5. CASE UNCHANGED mail
  <2>1. ASSUME NEW t \in Turns, NEW kind \in {"chunk", "note"}, Say(t, kind) PROVE Prompts'
    BY <1>1, <1>5, <2>1 DEF Say, Prompts
  <2>2. ASSUME NEW t \in Turns, Finish(t) PROVE Prompts'
    BY <1>1, <1>5, <2>2 DEF Finish, Prompts
  <2>3. CASE UNCHANGED <<active, run, said>>
    BY <1>1, <1>5, <2>3 DEF Prompts
  <2>4. ASSUME NEW t \in Turns, Purge(t) \/ Group(t) \/ Deliver(t) \/ ReadNothing(t)
        PROVE  UNCHANGED <<active, run, said>>
    BY <2>4 DEF Purge, Group, Deliver, ReadNothing
  <2>5. ASSUME NEW k \in 1..MaxLeaves, CleanInbox(k) PROVE UNCHANGED <<active, run, said>>
    BY <2>5 DEF CleanInbox
  <2>6. CASE HandleBotMessage \/ Publish \/ BotLeaves \/ UNCHANGED events
    BY <2>3, <2>6 DEF HandleBotMessage, Publish, BotLeaves, events
  <2> QED
    BY <1>4, <2>1, <2>2, <2>3, <2>4, <2>5, <2>6, Movers DEF Mover
<1> QED
  BY <1>2, <1>3, <1>4, <1>5, Posts

-----------------------------------------------------------------------------
(* The events of one dispatch are numbered in the order it sent them.      *)
Before(e, f) == e.of = f.of => e.n < f.n
Same(e, f) == e.of = f.of /\ e.n = f.n
Increasing(s) == \A i, j \in 1..Len(s) : i < j => Before(s[i], s[j])

(* The events on their way to a stream, and those that were there: shown,  *)
(* or discarded when the stream was opened.                                *)
Held == {pub} \ {None}
UnderWay == ToSet(entries) \cup Held \cup ToSet(wire)
Taken(t) == old[t] \cup ToSet(out[t])

(* An event has a number its dispatch has used, and only the last one has  *)
(* the number after its pieces.                                            *)
Numbered(e) ==
    /\ Final(e) => e.n = Len(said[e.of])
    /\ e.n < Len(said[e.of]) \/ (e.n = Len(said[e.of]) /\ run[e.of] = "over")

Counted ==
    /\ \A e \in UnderWay : Numbered(e)
    /\ \A t \in Turns : \A e \in Taken(t) : Numbered(e)

(* The way from the plugin to the streams is one queue.                    *)
Ordered ==
    /\ Increasing(wire) /\ Increasing(entries)
    /\ \A e \in ToSet(entries), f \in Held \cup ToSet(wire) : Before(e, f)
    /\ \A e \in Held, f \in ToSet(wire) : Before(e, f)
    /\ \A t \in Turns : \A e \in Taken(t), f \in UnderWay : Before(e, f)

(* What leaves the queue goes to one place.                                *)
Apart ==
    /\ \A t \in Turns : \A e \in old[t], f \in ToSet(out[t]) : ~Same(e, f)
    /\ \A t, u \in Turns :
           t # u => \A e \in ToSet(out[t]), f \in ToSet(out[u]) : ~Same(e, f)

-----------------------------------------------------------------------------
(* Sequences as sets.                                                      *)
LEMMA SetOfEmpty == ToSet(<<>>) = {}
BY DEF ToSet

LEMMA SetOfAppend ==
    ASSUME NEW S, NEW s \in Seq(S), NEW e
    PROVE  ToSet(Append(s, e)) = ToSet(s) \cup {e}
<1>1. /\ Append(s, e) \in Seq(S \cup {e}) /\ Len(Append(s, e)) = Len(s) + 1
      /\ \A i \in 1..Len(s) : Append(s, e)[i] = s[i]
      /\ Append(s, e)[Len(s) + 1] = e
  OBVIOUS
<1>2. DOMAIN s = 1..Len(s) /\ DOMAIN Append(s, e) = 1..(Len(s) + 1) /\ Len(s) \in Nat
  BY <1>1
<1> QED
  BY <1>1, <1>2 DEF ToSet

LEMMA SetOfTail ==
    ASSUME NEW S, NEW s \in Seq(S), s # <<>>
    PROVE  /\ Head(s) \in ToSet(s) /\ Tail(s) \in Seq(S)
           /\ ToSet(s) = {Head(s)} \cup ToSet(Tail(s))
<1>1. /\ Tail(s) \in Seq(S) /\ Len(Tail(s)) = Len(s) - 1 /\ Len(s) \in Nat \ {0}
      /\ \A i \in 1..(Len(s) - 1) : Tail(s)[i] = s[i + 1]
      /\ Head(s) = s[1]
  OBVIOUS
<1>2. DOMAIN s = 1..Len(s) /\ DOMAIN Tail(s) = 1..(Len(s) - 1)
  BY <1>1
<1>3. Head(s) \in ToSet(s) /\ ToSet(Tail(s)) \subseteq ToSet(s)
  BY <1>1, <1>2 DEF ToSet
<1>4. ASSUME NEW e \in ToSet(s), e # Head(s) PROVE e \in ToSet(Tail(s))
  <2>1. PICK i \in 1..Len(s) : e = s[i]
    BY <1>2 DEF ToSet
  <2>2. i - 1 \in 1..(Len(s) - 1) /\ Tail(s)[i - 1] = e
    BY <1>1, <1>4, <2>1
  <2> QED
    BY <1>2, <2>2 DEF ToSet
<1> QED
  BY <1>1, <1>3, <1>4

LEMMA SetOfTwo ==
    ASSUME NEW S, NEW s \in Seq(S), NEW d \in S, NEW e \in S
    PROVE  /\ s \o <<e>> = Append(s, e)
           /\ s \o <<d, e>> = Append(Append(s, d), e)
OBVIOUS

LEMMA IncreasingAppend ==
    ASSUME NEW S, NEW s \in Seq(S), NEW e, Increasing(s), \A d \in ToSet(s) : Before(d, e)
    PROVE  Increasing(Append(s, e))
BY DEF Increasing, ToSet, Before

LEMMA IncreasingTail ==
    ASSUME NEW S, NEW s \in Seq(S), s # <<>>, Increasing(s)
    PROVE  /\ Increasing(Tail(s))
           /\ \A e \in ToSet(Tail(s)) : Before(Head(s), e)
<1>1. /\ Tail(s) \in Seq(S) /\ Len(Tail(s)) = Len(s) - 1 /\ Len(s) \in Nat \ {0}
      /\ \A i \in 1..(Len(s) - 1) : Tail(s)[i] = s[i + 1]
      /\ Head(s) = s[1]
  OBVIOUS
<1>2. DOMAIN Tail(s) = 1..(Len(s) - 1)
  BY <1>1
<1>3. Increasing(Tail(s))
  BY <1>1 DEF Increasing
<1>4. \A i \in 1..(Len(s) - 1) : Before(Head(s), Tail(s)[i])
  BY <1>1 DEF Increasing
<1> QED
  BY <1>2, <1>3, <1>4 DEF ToSet

-----------------------------------------------------------------------------
(* What each step does to the queue, in terms of sets.                     *)
LEMMA EmitAppends ==
    ASSUME Shape, NEW t \in Turns, NEW kind \in Kinds, Emit(t, kind)
    PROVE  LET e == [of |-> t, n |-> Len(said[t]), kind |-> kind]
           IN  \/ UNCHANGED wire
               \/ wire' = Append(wire, e) /\ ToSet(wire') = ToSet(wire) \cup {e}
BY SetOfAppend DEF Emit, Shape, Places

LEMMA DeliverMoves ==
    ASSUME Shape, NEW t \in Turns, Deliver(t)
    PROVE  LET e == Head(entries)
               c == [e EXCEPT !.kind = "chunk"]
           IN  /\ e \in Event /\ c \in Event /\ Same(c, e)
               /\ entries' = Tail(entries) /\ entries # <<>>
               /\ ToSet(entries) = {e} \cup ToSet(entries')
               /\ UNCHANGED <<active, run, said, wire, pub, key, old>>
               /\ \/ /\ out' = [out EXCEPT ![t] = Append(out[t], e)]
                     /\ ToSet(out'[t]) = ToSet(out[t]) \cup {e}
                     /\ e.kind = "done" => hasChunks[t]
                  \/ /\ out' = [out EXCEPT ![t] = Append(Append(out[t], c), e)]
                     /\ ToSet(out'[t]) = ToSet(out[t]) \cup {c, e}
                     /\ e.kind = "done"
<1> DEFINE e == Head(entries)
<1> DEFINE c == [e EXCEPT !.kind = "chunk"]
<1> USE DEF Shape, Places, Shows
<1>1. /\ entries' = Tail(entries) /\ entries # <<>> /\ e \in Event
      /\ out' = [out EXCEPT ![t] = out[t] \o Frames(t, e)]
      /\ UNCHANGED <<active, run, said, wire, pub, key, old>>
  BY DEF Deliver, plugin, turn
<1>2. c \in Event /\ Same(c, e)
  BY <1>1 DEF Event, Kinds, Same
<1>3. ToSet(entries) = {e} \cup ToSet(entries')
  BY <1>1, SetOfTail
<1> HIDE DEF e, c
<1>4. CASE Frames(t, e) = <<e>> /\ (e.kind = "done" => hasChunks[t])
  <2>0. out[t] \o <<e>> = Append(out[t], e)
    BY <1>1, SetOfTwo
  <2>1. out' = [out EXCEPT ![t] = Append(out[t], e)]
    BY <1>1, <1>4, <2>0
  <2>2. out'[t] = Append(out[t], e) /\ ToSet(out'[t]) = ToSet(out[t]) \cup {e}
    BY <2>1, SetOfAppend
  <2> QED
    BY <1>1, <1>2, <1>3, <1>4, <2>1, <2>2 DEF e, c
<1>5. CASE Frames(t, e) = <<c, e>> /\ e.kind = "done"
  <2>0. out[t] \o <<c, e>> = Append(Append(out[t], c), e)
    BY <1>1, <1>2, SetOfTwo
  <2>1. out' = [out EXCEPT ![t] = Append(Append(out[t], c), e)]
    BY <1>1, <1>5, <2>0
  <2>2. Append(out[t], c) \in Seq(Event) /\ ToSet(Append(out[t], c)) = ToSet(out[t]) \cup {c}
    BY <1>2, SetOfAppend
  <2>3. ToSet(Append(Append(out[t], c), e)) = ToSet(Append(out[t], c)) \cup {e}
    BY <2>2, SetOfAppend
  <2>4. out'[t] = Append(Append(out[t], c), e)
    BY <2>1
  <2> QED
    BY <1>1, <1>2, <1>3, <1>5, <2>1, <2>2, <2>3, <2>4 DEF e, c
<1> QED
  BY <1>4, <1>5 DEF Frames, e, c

LEMMA PurgeMoves ==
    ASSUME Shape, NEW t \in Turns, Purge(t)
    PROVE  /\ UNCHANGED <<active, run, said, wire, pub, key, out>>
           /\ \/ /\ entries' = <<>> /\ ToSet(entries') = {}
                 /\ old' = [old EXCEPT ![t] = ToSet(entries)]
              \/ UNCHANGED <<entries, old>>
BY SetOfEmpty DEF Purge, plugin, turn

LEMMA GroupMoves ==
    ASSUME NEW t \in Turns, Group(t) \/ ReadNothing(t)
    PROVE  /\ UNCHANGED <<active, run, said, wire, pub, out, old>>
           /\ \/ UNCHANGED <<key, entries>>
              \/ key' = "group" /\ key = "group" /\ UNCHANGED entries
              \/ key' = "group" /\ key # "group" /\ entries' = <<>> /\ ToSet(entries') = {}
<1>1. CASE Group(t)
  BY <1>1, SetOfEmpty DEF Group, EnsureGroup, plugin, turn, stream
<1>2. CASE ReadNothing(t)
  BY <1>2, SetOfEmpty DEF ReadNothing, EnsureGroup, plugin, turn, stream
<1> QED
  BY <1>1, <1>2

LEMMA HandleMoves ==
    ASSUME Shape, HandleBotMessage
    PROVE  /\ UNCHANGED <<active, run, said, entries, key, out, old>>
           /\ wire # <<>> /\ wire' = Tail(wire) /\ pub = None
           /\ ToSet(wire) = {Head(wire)} \cup ToSet(wire')
           /\ pub' = Head(wire) \/ UNCHANGED pub
           /\ pub' = Head(wire) \/ key = "absent" \/ faults' # 0
<1>1. faults \in Nat
  BY ChatAssumption DEF Shape, Watchers
<1> QED
  BY <1>1, SetOfTail DEF HandleBotMessage, Fails, plugin, turn, stream, Shape, Places

LEMMA PublishMoves ==
    ASSUME Shape, Publish
    PROVE  /\ UNCHANGED <<active, run, said, wire, out, old>>
           /\ pub # None /\ pub' = None
           /\ \/ /\ key = "group" /\ key' = "group"
                 /\ entries' = Append(entries, pub)
                 /\ ToSet(entries') = ToSet(entries) \cup {pub}
              \/ UNCHANGED <<key, entries>> /\ faults' # 0
              \/ key # "group" /\ key' # "group" /\ UNCHANGED entries
<1>1. faults \in Nat /\ entries \in Seq(Event)
  BY ChatAssumption DEF Shape, Watchers, Places
<1>2. pub # None /\ pub' = None /\ UNCHANGED <<active, run, said, wire, out, old>>
  BY DEF Publish, plugin, turn
<1>3. CASE key = "group" /\ key' = "group" /\ entries' = Append(entries, pub)
  BY <1>1, <1>2, <1>3, SetOfAppend
<1>4. CASE key # "group" /\ key' # "group" /\ UNCHANGED entries
  BY <1>2, <1>4
<1>5. CASE Fails /\ UNCHANGED stream
  BY <1>1, <1>2, <1>5 DEF Fails, stream
<1> QED
  BY <1>3, <1>4, <1>5 DEF Publish

LEMMA LeaveMoves ==
    ASSUME BotLeaves
    PROVE  /\ UNCHANGED <<active, run, said, entries, pub, key, out, old>>
           /\ wire' = <<>> /\ ToSet(wire') = {}
BY SetOfEmpty DEF BotLeaves, plugin, turn, stream

LEMMA CleanMoves ==
    ASSUME NEW k \in 1..MaxLeaves, CleanInbox(k)
    PROVE  /\ UNCHANGED <<active, run, said, wire, pub, out, old>>
           /\ \/ entries' = <<>> /\ ToSet(entries') = {}
              \/ UNCHANGED entries
BY SetOfEmpty DEF CleanInbox, plugin, turn, stream

LEMMA SayMoves ==
    ASSUME Shape, NEW t \in Turns, NEW kind \in {"chunk", "note"}, Say(t, kind)
    PROVE  LET e == [of |-> t, n |-> Len(said[t]), kind |-> kind]
           IN  /\ UNCHANGED <<active, run, entries, pub, key, out, old>>
               /\ run[t] \in {"running", "aborting"} /\ link = "up"
               /\ said' = [said EXCEPT ![t] = Append(said[t], kind)]
               /\ wire' = Append(wire, e) /\ ToSet(wire') = ToSet(wire) \cup {e}
BY SetOfAppend DEF Say, Emit, turn, stream, Shape, Places

LEMMA FinishMoves ==
    ASSUME Shape, NEW t \in Turns, Finish(t)
    PROVE  /\ UNCHANGED <<said, entries, pub, key, out, old>>
           /\ run[t] \in {"running", "aborting"} /\ run' = [run EXCEPT ![t] = "over"]
           /\ \/ UNCHANGED wire
              \/ \E e \in Event :
                    /\ e.of = t /\ e.n = Len(said[t])
                    /\ wire' = Append(wire, e) /\ ToSet(wire') = ToSet(wire) \cup {e}
<1>1. /\ UNCHANGED <<said, entries, pub, key, out, old>>
      /\ run[t] \in {"running", "aborting"} /\ run' = [run EXCEPT ![t] = "over"]
      /\ UNCHANGED wire \/ \E kind \in Kinds : Emit(t, kind)
  BY DEF Finish, Kinds, turn, stream
<1>2. ASSUME NEW kind \in Kinds, Emit(t, kind)
      PROVE  \/ UNCHANGED wire
             \/ \E e \in Event :
                   /\ e.of = t /\ e.n = Len(said[t])
                   /\ wire' = Append(wire, e) /\ ToSet(wire') = ToSet(wire) \cup {e}
  <2> DEFINE e == [of |-> t, n |-> Len(said[t]), kind |-> kind]
  <2>1. e \in Event /\ e.of = t /\ e.n = Len(said[t])
    BY ChatAssumption DEF Shape, Dispatches, Event
  <2>2. UNCHANGED wire \/ (wire' = Append(wire, e) /\ ToSet(wire') = ToSet(wire) \cup {e})
    BY <1>2, EmitAppends
  <2> HIDE DEF e
  <2> QED
    BY <2>1, <2>2
<1> QED
  BY <1>1, <1>2

LEMMA ForwardMoves ==
    ASSUME Shape, Prompts, NEW m \in mail, Forward(m)
    PROVE  /\ UNCHANGED <<said, entries, wire, pub, key, out, old>>
           /\ \A t \in Turns :
                 run'[t] = run[t] \/ run[t] = "idle" \/ (run[t] # "over" /\ run'[t] = "aborting")
BY DEF Forward, Prompts, Shape, Dispatches, Handlers, Message, turn, stream

LEMMA AllEvents == Shape => UnderWay \subseteq Event /\ \A t \in Turns : Taken(t) \subseteq Event
<1>1. \A s \in Seq(Event) : ToSet(s) \subseteq Event
  BY DEF ToSet
<1> QED
  BY <1>1 DEF Shape, Places, Shows, UnderWay, Held, Taken

-----------------------------------------------------------------------------
(* An event that has its number keeps it.                                  *)
LEMMA NumberedStays ==
    ASSUME Shape, Prompts, [Next]_vars, NEW e \in Event, Numbered(e)
    PROVE  Numbered(e)'
<1> USE DEF Numbered, Shape, Dispatches
<1>1. e.of \in Turns /\ e.n \in Nat
  BY ChatAssumption DEF Event
<1>2. CASE run[e.of] = "idle"
  <2>1. Len(said[e.of]) = 0
    BY <1>1, <1>2 DEF Prompts
  <2> QED
    BY <1>1, <1>2, <2>1
<1>3. CASE UNCHANGED <<run, said>>
  BY <1>3
<1>4. ASSUME NEW t \in Turns, NEW kind \in {"chunk", "note"}, Say(t, kind) PROVE Numbered(e)'
  <2>1. /\ run' = run /\ run[t] # "over" /\ said' = [said EXCEPT ![t] = Append(said[t], kind)]
    BY <1>4, SayMoves
  <2>2. Len(Append(said[t], kind)) = Len(said[t]) + 1 /\ Len(said[t]) \in Nat
    BY <1>4
  <2> QED
    BY <1>1, <2>1, <2>2
<1>5. ASSUME NEW t \in Turns, Finish(t) PROVE Numbered(e)'
  BY <1>1, <1>5, FinishMoves
<1>6. ASSUME NEW m \in mail, Forward(m) PROVE Numbered(e)'
  BY <1>1, <1>2, <1>6, ForwardMoves
<1>7. ASSUME NEW t \in Turns, Purge(t) \/ Group(t) \/ Deliver(t) \/ ReadNothing(t)
      PROVE  UNCHANGED <<run, said>>
  BY <1>7 DEF Purge, Group, Deliver, ReadNothing, plugin
<1>8. ASSUME NEW k \in 1..MaxLeaves, CleanInbox(k) PROVE UNCHANGED <<run, said>>
  BY <1>8 DEF CleanInbox, plugin
<1>9. CASE HandleBotMessage \/ Publish \/ BotLeaves \/ UNCHANGED events
  BY <1>3, <1>9 DEF HandleBotMessage, Publish, BotLeaves, events, plugin
<1> HIDE DEF Numbered, Shape
<1> QED
  BY <1>3, <1>4, <1>5, <1>6, <1>7, <1>8, <1>9, Movers DEF Mover

LEMMA CountedStep == Shape /\ Prompts /\ Counted /\ [Next]_vars => Counted'
<1> SUFFICES ASSUME Shape /\ Prompts /\ Counted, [Next]_vars PROVE Counted'
  OBVIOUS
<1> USE DEF UnderWay, Held, Taken
<1>a. /\ \A e \in UnderWay : Numbered(e)'
      /\ \A t \in Turns : \A e \in Taken(t) : Numbered(e)'
  BY AllEvents, NumberedStays DEF Counted
<1>1. ASSUME NEW t \in Turns, Mover(t) PROVE Counted'
  <2>1. CASE Purge(t)
    BY <2>1, PurgeMoves, <1>a DEF Counted, Shape, Shows
  <2>2. CASE Group(t)
    BY <2>2, GroupMoves, <1>a DEF Counted, Shape, Shows
  <2>3. CASE Deliver(t)
    <3>1. PICK e \in Event, c \in Event :
              e = Head(entries) /\ c = [e EXCEPT !.kind = "chunk"]
      BY <2>3, DeliverMoves
    <3>2. /\ e.of = c.of /\ e.n = c.n /\ c.kind = "chunk"
          /\ entries' = Tail(entries) /\ entries # <<>>
          /\ ToSet(entries) = {e} \cup ToSet(entries')
          /\ UNCHANGED <<wire, pub, old>>
          /\ \A u \in Turns : u # t => out'[u] = out[u]
          /\ ToSet(out'[t]) \subseteq ToSet(out[t]) \cup {c, e}
      BY <2>3, <3>1, DeliverMoves DEF Same, Shape, Shows
    <3>3. Numbered(c)
      BY <3>2 DEF Counted, Numbered, Final
    <3>4. Numbered(c)'
      BY <3>3, NumberedStays
    <3> QED
      BY <1>a, <3>2, <3>4 DEF Counted
  <2>4. CASE ReadNothing(t)
    BY <2>4, GroupMoves, <1>a DEF Counted, Shape, Shows
  <2>5. CASE Finish(t)
    <3>1. ASSUME NEW e \in Event, e.of = t, e.n = Len(said[t]) PROVE Numbered(e)'
      BY <2>5, <3>1, FinishMoves DEF Numbered, Shape, Dispatches
    <3> QED
      BY <2>5, <1>a, <3>1, FinishMoves DEF Counted
  <2>6. ASSUME NEW kind \in {"chunk", "note"}, Say(t, kind) PROVE Counted'
    <3>0. [of |-> t, n |-> Len(said[t]), kind |-> kind] \in Event
      <4>1. Len(said[t]) \in 0..MaxPieces /\ kind \in Kinds
        BY ChatAssumption DEF Shape, Dispatches, Kinds
      <4> QED
        BY <4>1 DEF Event
    <3>1. PICK e \in Event : e = [of |-> t, n |-> Len(said[t]), kind |-> kind]
      BY <3>0
    <3>2. /\ run[t] \in {"running", "aborting"} /\ e.of = t /\ e.n = Len(said[t])
          /\ wire' = Append(wire, e) /\ ToSet(wire') = ToSet(wire) \cup {e}
          /\ UNCHANGED <<run, entries, pub, out, old>>
      BY <2>6, <3>1, SayMoves
    <3>3. said' = [said EXCEPT ![t] = Append(said[t], kind)] /\ e.kind = kind
      BY <2>6, <3>1, SayMoves
    <3>4. Numbered(e)'
      <4>1. Len(Append(said[t], kind)) = Len(said[t]) + 1 /\ Len(said[t]) \in Nat
        BY DEF Shape, Dispatches
      <4> QED
        BY <3>2, <3>3, <4>1 DEF Numbered, Final, Shape, Dispatches
    <3> QED
      BY <1>a, <3>2, <3>4 DEF Counted
  <2> QED
    BY <1>1, <2>1, <2>2, <2>3, <2>4, <2>5, <2>6 DEF Mover
<1>2. ASSUME NEW m \in mail, Forward(m) PROVE Counted'
  BY <1>2, ForwardMoves, <1>a DEF Counted, Shape, Shows
<1>3. CASE HandleBotMessage
  BY <1>3, HandleMoves, <1>a DEF Counted, Shape, Shows
<1>4. CASE Publish
  BY <1>4, PublishMoves, <1>a DEF Counted, Shape, Shows
<1>5. CASE BotLeaves
  BY <1>5, LeaveMoves, <1>a DEF Counted, Shape, Shows
<1>6. ASSUME NEW k \in 1..MaxLeaves, CleanInbox(k) PROVE Counted'
  BY <1>6, CleanMoves, <1>a DEF Counted, Shape, Shows
<1>7. CASE UNCHANGED events
  BY <1>7, <1>a DEF Counted, events
<1> QED
  BY <1>1, <1>2, <1>3, <1>4, <1>5, <1>6, <1>7, Movers
(* What a dispatch sends next comes after all it sent before.              *)
LEMMA Newest ==
    ASSUME Shape, Counted, NEW t \in Turns, run[t] \in {"running", "aborting"},
           NEW e, e.of = t, e.n = Len(said[t])
    PROVE  /\ \A d \in UnderWay : Before(d, e)
           /\ \A u \in Turns : \A d \in Taken(u) : Before(d, e)
BY DEF Counted, Numbered, Before

LEMMA OrderedStep == Shape /\ Prompts /\ Counted /\ Ordered /\ [Next]_vars => Ordered'
<1> SUFFICES ASSUME Shape /\ Prompts /\ Counted /\ Ordered, [Next]_vars PROVE Ordered'
  OBVIOUS
<1>a. Increasing(<<>>)
  BY DEF Increasing
<1>1. ASSUME NEW t \in Turns, Mover(t) PROVE Ordered'
  <2>1. CASE Purge(t)
    <3>1. CASE entries' = <<>> /\ old' = [old EXCEPT ![t] = ToSet(entries)]
      BY <2>1, <3>1, <1>a, PurgeMoves, SetOfEmpty DEF Ordered, UnderWay, Held, Taken, Shape, Shows
    <3> QED
      BY <2>1, <3>1, PurgeMoves DEF Ordered, UnderWay, Held, Taken
  <2>2. CASE Group(t)
    BY <2>2, GroupMoves, <1>a DEF Ordered, UnderWay, Held, Taken
  <2>3. CASE Deliver(t)
    <3>1. PICK e \in Event, c \in Event :
              e = Head(entries) /\ c = [e EXCEPT !.kind = "chunk"]
      BY <2>3, DeliverMoves
    <3>2. /\ e.of = c.of /\ e.n = c.n /\ c.kind = "chunk"
          /\ entries' = Tail(entries) /\ entries # <<>>
          /\ ToSet(entries) = {e} \cup ToSet(entries')
          /\ UNCHANGED <<wire, pub, old>>
          /\ \A u \in Turns : u # t => out'[u] = out[u]
          /\ ToSet(out'[t]) \subseteq ToSet(out[t]) \cup {c, e}
      BY <2>3, <3>1, DeliverMoves DEF Same, Shape, Shows
    <3>3. Increasing(entries') /\ \A f \in ToSet(entries') : Before(e, f)
      BY <3>1, <3>2, IncreasingTail DEF Ordered, Shape, Places
    <3>4. \A f \in UnderWay' : Before(e, f) /\ Before(c, f)
      BY <3>2, <3>3 DEF Ordered, UnderWay, Held, Before
    <3>5. UnderWay' \subseteq UnderWay
      BY <3>2 DEF UnderWay, Held
    <3>6. \A u \in Turns : Taken(u)' \subseteq Taken(u) \cup {c, e}
      BY <3>2 DEF Taken
    <3> QED
      BY <3>2, <3>3, <3>4, <3>5, <3>6 DEF Ordered, Held
  <2>4. CASE ReadNothing(t)
    BY <2>4, GroupMoves, <1>a DEF Ordered, UnderWay, Held, Taken
  <2>5. CASE Finish(t)
    <3>1. CASE UNCHANGED wire
      BY <2>5, <3>1, FinishMoves DEF Ordered, UnderWay, Held, Taken
    <3>2. ASSUME NEW e \in Event, e.of = t, e.n = Len(said[t]),
                 wire' = Append(wire, e), ToSet(wire') = ToSet(wire) \cup {e}
          PROVE  Ordered'
      <4>1. run[t] \in {"running", "aborting"} /\ UNCHANGED <<entries, pub, out, old>>
        BY <2>5, FinishMoves
      <4>2. /\ \A d \in UnderWay : Before(d, e)
            /\ \A u \in Turns : \A d \in Taken(u) : Before(d, e)
        BY <3>2, <4>1, Newest
      <4>3. Increasing(wire')
        BY <3>2, <4>2, IncreasingAppend DEF Ordered, UnderWay, Shape, Places
      <4>4. UnderWay' = UnderWay \cup {e} /\ Held' = Held /\ \A u \in Turns : Taken(u)' = Taken(u)
        BY <3>2, <4>1 DEF UnderWay, Held, Taken
      <4> QED
        BY <3>2, <4>1, <4>2, <4>3, <4>4 DEF Ordered, UnderWay
    <3> QED
      BY <2>5, <3>1, <3>2, FinishMoves
  <2>6. ASSUME NEW kind \in {"chunk", "note"}, Say(t, kind) PROVE Ordered'
    <3>0. [of |-> t, n |-> Len(said[t]), kind |-> kind] \in Event
      <4>1. Len(said[t]) \in 0..MaxPieces /\ kind \in Kinds
        BY ChatAssumption DEF Shape, Dispatches, Kinds
      <4> QED
        BY <4>1 DEF Event
    <3>1. PICK e \in Event : e = [of |-> t, n |-> Len(said[t]), kind |-> kind]
      BY <3>0
    <3>2. /\ run[t] \in {"running", "aborting"} /\ e.of = t /\ e.n = Len(said[t])
          /\ wire' = Append(wire, e) /\ ToSet(wire') = ToSet(wire) \cup {e}
          /\ UNCHANGED <<run, entries, pub, out, old>>
      BY <2>6, <3>1, SayMoves
    <3>3. /\ \A d \in UnderWay : Before(d, e)
          /\ \A u \in Turns : \A d \in Taken(u) : Before(d, e)
      BY <3>2, Newest
    <3>4. Increasing(wire')
      BY <3>2, <3>3, IncreasingAppend DEF Ordered, UnderWay, Shape, Places
    <3>5. UnderWay' = UnderWay \cup {e} /\ Held' = Held /\ \A u \in Turns : Taken(u)' = Taken(u)
      BY <3>2 DEF UnderWay, Held, Taken
    <3> QED
      BY <3>2, <3>3, <3>4, <3>5 DEF Ordered, UnderWay
  <2> QED
    BY <1>1, <2>1, <2>2, <2>3, <2>4, <2>5, <2>6 DEF Mover
<1>2. ASSUME NEW m \in mail, Forward(m) PROVE Ordered'
  BY <1>2, ForwardMoves, <1>a DEF Ordered, UnderWay, Held, Taken
<1>3. CASE HandleBotMessage
  <2>1. PICK h : h = Head(wire)
    OBVIOUS
  <2>2. Increasing(wire') /\ \A f \in ToSet(wire') : Before(h, f)
    BY <1>3, <2>1, HandleMoves, IncreasingTail DEF Ordered, Shape, Places
  <2>3. Held = {} /\ Held' \subseteq {h} /\ ToSet(wire) = {h} \cup ToSet(wire')
    BY <1>3, <2>1, HandleMoves DEF Held
  <2>4. UNCHANGED <<entries, old, out>>
    BY <1>3, HandleMoves
  <2> QED
    BY <2>2, <2>3, <2>4 DEF Ordered, UnderWay, Taken
<1>4. CASE Publish
  <2>1. PICK p \in Event : p = pub
    BY <1>4, PublishMoves DEF Shape, Places
  <2>2. Held = {p} /\ Held' = {} /\ UNCHANGED <<wire, out, old>>
    BY <1>4, <2>1, PublishMoves DEF Held
  <2>3. CASE entries' = Append(entries, p) /\ ToSet(entries') = ToSet(entries) \cup {p}
    <3>1. Increasing(entries')
      BY <2>2, <2>3, IncreasingAppend DEF Ordered, Shape, Places
    <3> QED
      BY <2>2, <2>3, <3>1 DEF Ordered, UnderWay, Taken
  <2>4. CASE UNCHANGED entries
    BY <2>2, <2>4 DEF Ordered, UnderWay, Taken
  <2> QED
    BY <1>4, <2>1, <2>3, <2>4, PublishMoves
<1>5. CASE BotLeaves
  BY <1>5, LeaveMoves, <1>a DEF Ordered, UnderWay, Held, Taken
<1>6. ASSUME NEW k \in 1..MaxLeaves, CleanInbox(k) PROVE Ordered'
  BY <1>6, CleanMoves, <1>a DEF Ordered, UnderWay, Held, Taken
<1>7. CASE UNCHANGED events
  BY <1>7 DEF Ordered, UnderWay, Held, Taken, events
<1> QED
  BY <1>1, <1>2, <1>3, <1>4, <1>5, <1>6, <1>7, Movers

LEMMA ApartStep == Shape /\ Prompts /\ Ordered /\ Apart /\ [Next]_vars => Apart'
<1> SUFFICES ASSUME Shape /\ Prompts /\ Ordered /\ Apart, [Next]_vars PROVE Apart'
  OBVIOUS
<1> USE ChatAssumption
<1>1. ASSUME NEW t \in Turns, Mover(t) PROVE Apart'
  <2>1. CASE Purge(t)
    <3>1. CASE old' = [old EXCEPT ![t] = ToSet(entries)]
      <4>1. \A d \in ToSet(entries), e \in ToSet(out[t]) : ~Same(d, e)
        <5>1. \A d \in ToSet(entries), e \in ToSet(out[t]) :
                 Before(e, d) /\ d \in Event /\ e \in Event
          BY AllEvents DEF Ordered, UnderWay, Taken
        <5> QED
          BY <5>1 DEF Before, Same, Event
      <4> QED
        BY <2>1, <3>1, <4>1, PurgeMoves DEF Apart, Shape, Shows
    <3> QED
      BY <2>1, <3>1, PurgeMoves DEF Apart
  <2>2. CASE Group(t)
    BY <2>2, GroupMoves DEF Apart
  <2>3. CASE Deliver(t)
    <3>1. PICK e \in Event, c \in Event :
              e = Head(entries) /\ c = [e EXCEPT !.kind = "chunk"]
      BY <2>3, DeliverMoves
    <3>2. /\ e.of = c.of /\ e.n = c.n /\ c.kind = "chunk"
          /\ entries' = Tail(entries) /\ entries # <<>>
          /\ ToSet(entries) = {e} \cup ToSet(entries')
          /\ UNCHANGED <<wire, pub, old>>
          /\ \A u \in Turns : u # t => out'[u] = out[u]
          /\ ToSet(out'[t]) \subseteq ToSet(out[t]) \cup {c, e}
      BY <2>3, <3>1, DeliverMoves DEF Same, Shape, Shows
    <3>3. \A u \in Turns : \A d \in Taken(u) : ~Same(d, e) /\ ~Same(d, c)
      <4>1. e \in UnderWay
        BY <3>2 DEF UnderWay
      <4>2. \A u \in Turns : \A d \in Taken(u) : Before(d, e) /\ d \in Event
        BY <4>1, AllEvents DEF Ordered
      <4> QED
        BY <3>2, <4>2 DEF Before, Same, Event
    <3> QED
      BY <3>2, <3>3 DEF Apart, Taken, Same
  <2>4. CASE ReadNothing(t)
    BY <2>4, GroupMoves DEF Apart
  <2>5. CASE Finish(t)
    BY <2>5, FinishMoves DEF Apart
  <2>6. ASSUME NEW kind \in {"chunk", "note"}, Say(t, kind) PROVE Apart'
    BY <2>6, SayMoves DEF Apart
  <2> QED
    BY <1>1, <2>1, <2>2, <2>3, <2>4, <2>5, <2>6 DEF Mover
<1>2. ASSUME NEW m \in mail, Forward(m) PROVE Apart'
  BY <1>2, ForwardMoves DEF Apart
<1>3. CASE HandleBotMessage
  BY <1>3, HandleMoves DEF Apart
<1>4. CASE Publish
  BY <1>4, PublishMoves DEF Apart
<1>5. CASE BotLeaves
  BY <1>5, LeaveMoves DEF Apart
<1>6. ASSUME NEW k \in 1..MaxLeaves, CleanInbox(k) PROVE Apart'
  BY <1>6, CleanMoves DEF Apart
<1>7. CASE UNCHANGED events
  BY <1>7 DEF Apart, events
<1> QED
  BY <1>1, <1>2, <1>3, <1>4, <1>5, <1>6, <1>7, Movers

-----------------------------------------------------------------------------
LEMMA UnopenedStep == Shape /\ Unopened /\ [Next]_vars => Unopened'
<1> SUFFICES ASSUME Shape, Unopened, [Next]_vars PROVE Unopened'
  OBVIOUS
<1>1. \A t \in Turns : pc'[t] \in {"idle", "purge"} => pc[t] \in {"idle", "purge"}
  BY Advance DEF Advances, Shape, Handlers
<1>2. ASSUME NEW t \in Turns, Purge(t) PROVE Unopened'
  BY <1>1, <1>2 DEF Purge, Goto, turn, Unopened, Shape, Handlers, Shows
<1>3. ASSUME NEW t \in Turns, Deliver(t) PROVE Unopened'
  BY <1>1, <1>3, DeliverMoves DEF Unopened, Deliver, Shape, Handlers, Shows
<1>4. CASE UNCHANGED <<out, old>>
  BY <1>1, <1>4 DEF Unopened
<1>5. ASSUME NEW t \in Turns, Group(t) \/ ReadNothing(t) \/ Finish(t) PROVE UNCHANGED <<out, old>>
  BY <1>5 DEF Group, ReadNothing, Finish, turn
<1>6. ASSUME NEW t \in Turns, NEW kind \in {"chunk", "note"}, Say(t, kind)
      PROVE  UNCHANGED <<out, old>>
  BY <1>6 DEF Say, turn
<1>7. ASSUME NEW m \in mail, Forward(m) PROVE UNCHANGED <<out, old>>
  BY <1>7 DEF Forward, turn
<1>8. CASE HandleBotMessage \/ Publish \/ BotLeaves \/ UNCHANGED events
  BY <1>4, <1>8 DEF HandleBotMessage, Publish, BotLeaves, events, turn
<1>9. ASSUME NEW k \in 1..MaxLeaves, CleanInbox(k) PROVE UNCHANGED <<out, old>>
  BY <1>9 DEF CleanInbox, turn
<1> QED
  BY <1>2, <1>3, <1>4, <1>5, <1>6, <1>7, <1>8, <1>9, Movers DEF Mover

-----------------------------------------------------------------------------
(* The frames of a stream, in order.                                       *)
Follows(d, e) ==
    d.of = e.of => d.n < e.n \/ (d.n = e.n /\ d.kind = "chunk" /\ Final(e))

InRow == \A t \in Turns : \A i, j \in 1..Len(out[t]) : i < j => Follows(out[t][i], out[t][j])

(* hasChunks is true of a stream that has had a chunk, and of no other.    *)
Spoken == \A t \in Turns : hasChunks[t] => \E i \in 1..Len(out[t]) : out[t][i].kind = "chunk"

(* The entries of a stream after one more.                                 *)
LEMMA Appended ==
    ASSUME NEW S, NEW s \in Seq(S), NEW e
    PROVE  /\ Len(Append(s, e)) = Len(s) + 1 /\ Len(s) \in Nat
           /\ \A i \in 1..Len(s) : Append(s, e)[i] = s[i] /\ s[i] \in ToSet(s)
           /\ Append(s, e)[Len(s) + 1] = e
BY DEF ToSet

(* Only Deliver writes to a stream.                                        *)
LEMMA Writers ==
    Shape /\ [Next]_vars => UNCHANGED <<out, hasChunks>> \/ \E t \in Turns : Deliver(t)
<1> SUFFICES ASSUME Shape, [Next]_vars, \A t \in Turns : ~Deliver(t)
             PROVE  UNCHANGED <<out, hasChunks>>
  OBVIOUS
<1>1. ASSUME NEW t \in Turns, Purge(t) \/ Group(t) \/ ReadNothing(t) \/ Finish(t)
      PROVE  UNCHANGED <<out, hasChunks>>
  BY <1>1 DEF Purge, Group, ReadNothing, Finish, turn
<1>2. ASSUME NEW t \in Turns, NEW kind \in {"chunk", "note"}, Say(t, kind)
      PROVE  UNCHANGED <<out, hasChunks>>
  BY <1>2 DEF Say, turn
<1>3. ASSUME NEW m \in mail, Forward(m) PROVE UNCHANGED <<out, hasChunks>>
  BY <1>3 DEF Forward, turn
<1>4. CASE HandleBotMessage \/ Publish \/ BotLeaves \/ UNCHANGED events
  BY <1>4 DEF HandleBotMessage, Publish, BotLeaves, events, turn
<1>5. ASSUME NEW k \in 1..MaxLeaves, CleanInbox(k) PROVE UNCHANGED <<out, hasChunks>>
  BY <1>5 DEF CleanInbox, turn
<1> QED
  BY <1>1, <1>2, <1>3, <1>4, <1>5, Movers DEF Mover

(* What Deliver appends to the stream s of turn t.                         *)
Written(t, s, e, c) ==
    \/ out'[t] = Append(s, e) /\ (e.kind = "done" => hasChunks[t])
    \/ out'[t] = Append(Append(s, c), e) /\ e.kind = "done"

LEMMA Writes ==
    ASSUME Shape, NEW t \in Turns, Deliver(t)
    PROVE  \E e, c \in Event :
              /\ e \in UnderWay /\ c.of = e.of /\ c.n = e.n /\ c.kind = "chunk"
              /\ Written(t, out[t], e, c)
              /\ \A u \in Turns \ {t} : out'[u] = out[u] /\ hasChunks'[u] = hasChunks[u]
              /\ hasChunks'[t] => hasChunks[t] \/ e.kind = "chunk"
<1>1. PICK e \in Event, c \in Event : e = Head(entries) /\ c = [e EXCEPT !.kind = "chunk"]
  BY DeliverMoves
<1>2. hasChunks' = [hasChunks EXCEPT ![t] = hasChunks[t] \/ e.kind = "chunk"]
  BY <1>1 DEF Deliver
<1>3. /\ hasChunks'[t] => hasChunks[t] \/ e.kind = "chunk"
      /\ \A u \in Turns \ {t} : hasChunks'[u] = hasChunks[u]
  BY <1>2 DEF Shape, Flags
<1>4. c.of = e.of /\ c.n = e.n /\ c.kind = "chunk"
  BY <1>1 DEF Event
<1>5. /\ e \in UnderWay
      /\ Written(t, out[t], e, c)
      /\ \A u \in Turns \ {t} : out'[u] = out[u]
  BY <1>1, DeliverMoves DEF UnderWay, Written, Shape, Shows
<1> QED
  BY <1>3, <1>4, <1>5

LEMMA InRowStep == Shape /\ Ordered /\ InRow /\ [Next]_vars => InRow'
<1> SUFFICES ASSUME Shape, Ordered, InRow, [Next]_vars PROVE InRow'
  OBVIOUS
<1>1. CASE UNCHANGED out
  BY <1>1 DEF InRow
<1>2. ASSUME NEW t \in Turns, Deliver(t) PROVE InRow'
  <2>1. PICK e, c \in Event :
              /\ e \in UnderWay /\ c.of = e.of /\ c.n = e.n /\ c.kind = "chunk"
              /\ Written(t, out[t], e, c)
              /\ \A u \in Turns \ {t} : out'[u] = out[u]
    BY <1>2, Writes
  <2>2. \A d \in ToSet(out[t]) : Follows(d, e) /\ Follows(d, c)
    BY <2>1 DEF Ordered, Taken, Before, Follows
  <2>3. out[t] \in Seq(Event)
    BY DEF Shape, Shows
  <2>4. CASE out'[t] = Append(out[t], e)
    <3> DEFINE s == out[t]
    <3>1. /\ Len(out'[t]) = Len(s) + 1 /\ Len(s) \in Nat
          /\ \A i \in 1..Len(s) : out'[t][i] = s[i] /\ s[i] \in ToSet(s)
          /\ out'[t][Len(s) + 1] = e
      <4>1. /\ Len(Append(s, e)) = Len(s) + 1 /\ Len(s) \in Nat
            /\ \A i \in 1..Len(s) : Append(s, e)[i] = s[i] /\ s[i] \in ToSet(s)
            /\ Append(s, e)[Len(s) + 1] = e
        BY <2>3, Appended
      <4> QED
        BY <2>4, <4>1
    <3>2. \A i, j \in 1..Len(s) : i < j => Follows(s[i], s[j])
      BY DEF InRow
    <3>3. \A i \in 1..Len(s) : Follows(s[i], e)
      BY <2>2, <3>1
    <3> HIDE DEF s
    <3>4. \A i, j \in 1..Len(out'[t]) : i < j => Follows(out'[t][i], out'[t][j])
      BY <3>1, <3>2, <3>3
    <3> QED
      BY <2>1, <3>4 DEF InRow
  <2>5. CASE out'[t] = Append(Append(out[t], c), e) /\ e.kind = "done"
    <3> DEFINE s == Append(out[t], c)
    <3>1. /\ s \in Seq(Event) /\ Len(s) = Len(out[t]) + 1 /\ Len(out[t]) \in Nat
          /\ \A i \in 1..Len(out[t]) : s[i] = out[t][i] /\ s[i] \in ToSet(out[t])
          /\ s[Len(out[t]) + 1] = c
      <4>1. s \in Seq(Event)
        BY <2>3
      <4>2. /\ Len(Append(out[t], c)) = Len(out[t]) + 1 /\ Len(out[t]) \in Nat
            /\ \A i \in 1..Len(out[t]) :
                   Append(out[t], c)[i] = out[t][i] /\ out[t][i] \in ToSet(out[t])
            /\ Append(out[t], c)[Len(out[t]) + 1] = c
        BY <2>3, Appended
      <4> QED
        BY <4>1, <4>2
    <3> HIDE DEF s
    <3>2. \A i, j \in 1..Len(s) : i < j => Follows(s[i], s[j])
      BY <2>2, <3>1 DEF InRow
    <3>3. Follows(c, e)
      BY <2>1, <2>5 DEF Follows, Final
    <3>4. \A i \in 1..Len(s) : Follows(s[i], e)
      BY <2>2, <3>1, <3>3
    <3>5. /\ Len(out'[t]) = Len(s) + 1 /\ Len(s) \in Nat
          /\ \A i \in 1..Len(s) : out'[t][i] = s[i]
          /\ out'[t][Len(s) + 1] = e
      BY <2>5, <3>1, Appended DEF s
    <3>6. \A i, j \in 1..Len(out'[t]) : i < j => Follows(out'[t][i], out'[t][j])
      BY <3>2, <3>4, <3>5
    <3> QED
      BY <2>1, <3>6 DEF InRow
  <2> QED
    BY <2>1, <2>4, <2>5 DEF Written
<1> QED
  BY <1>1, <1>2, Writers

LEMMA SpokenStep ==
    Shape /\ Spoken /\ ReplyShown /\ [Next]_vars => Spoken' /\ ReplyShown'
<1> SUFFICES ASSUME Shape, Spoken, ReplyShown, [Next]_vars PROVE Spoken' /\ ReplyShown'
  OBVIOUS
<1>1. CASE UNCHANGED <<out, hasChunks>>
  BY <1>1 DEF Spoken, ReplyShown
<1>2. ASSUME NEW t \in Turns, Deliver(t) PROVE Spoken' /\ ReplyShown'
  <2>1. PICK e, c \in Event :
              /\ c.kind = "chunk" /\ Written(t, out[t], e, c)
              /\ \A u \in Turns \ {t} : out'[u] = out[u] /\ hasChunks'[u] = hasChunks[u]
              /\ hasChunks'[t] => hasChunks[t] \/ e.kind = "chunk"
    BY <1>2, Writes
  <2> DEFINE s == out[t]
  <2>2. s \in Seq(Event) /\ Len(s) \in Nat
    BY DEF Shape, Shows
  <2>3. hasChunks[t] => \E i \in 1..Len(s) : s[i].kind = "chunk"
    BY DEF Spoken
  <2>4. \A i \in 1..Len(s) : s[i].kind = "done" => \E j \in 1..(i - 1) : s[j].kind = "chunk"
    BY DEF ReplyShown
  <2>5. CASE out'[t] = Append(s, e) /\ (e.kind = "done" => hasChunks[t])
    <3>1. /\ Len(out'[t]) = Len(s) + 1 /\ out'[t][Len(s) + 1] = e
          /\ \A i \in 1..Len(s) : out'[t][i] = s[i]
      BY <2>2, <2>5, Appended
    <3> HIDE DEF s
    <3>2. hasChunks'[t] => \E i \in 1..Len(out'[t]) : out'[t][i].kind = "chunk"
      BY <2>1, <2>2, <2>3, <3>1
    <3>3. \A i \in 1..Len(out'[t]) :
             out'[t][i].kind = "done" => \E j \in 1..(i - 1) : out'[t][j].kind = "chunk"
      BY <2>2, <2>3, <2>4, <2>5, <3>1
    <3> QED
      BY <2>1, <3>2, <3>3 DEF Spoken, ReplyShown
  <2>6. CASE out'[t] = Append(Append(s, c), e) /\ e.kind = "done"
    <3>1. /\ Append(s, c) \in Seq(Event) /\ Len(Append(s, c)) = Len(s) + 1
          /\ \A i \in 1..Len(s) : Append(s, c)[i] = s[i]
          /\ Append(s, c)[Len(s) + 1] = c
      BY <2>2, Appended
    <3>2. /\ Len(out'[t]) = Len(s) + 2
          /\ \A i \in 1..Len(s) : out'[t][i] = s[i]
          /\ out'[t][Len(s) + 1] = c
      BY <2>2, <2>6, <3>1, Appended
    <3> HIDE DEF s
    <3>3. hasChunks'[t] => \E i \in 1..Len(out'[t]) : out'[t][i].kind = "chunk"
      BY <2>1, <2>2, <3>2
    <3>4. \A i \in 1..Len(out'[t]) :
             out'[t][i].kind = "done" => \E j \in 1..(i - 1) : out'[t][j].kind = "chunk"
      <4> SUFFICES ASSUME NEW i \in 1..Len(out'[t]), out'[t][i].kind = "done"
                   PROVE  \E j \in 1..(i - 1) : out'[t][j].kind = "chunk"
        OBVIOUS
      <4>1. CASE i \in 1..Len(s)
        <5>1. PICK j \in 1..(i - 1) : s[j].kind = "chunk"
          BY <2>4, <3>2, <4>1
        <5>2. j \in 1..Len(s) /\ out'[t][j] = s[j]
          BY <2>2, <3>2, <4>1
        <5> QED
          BY <5>1, <5>2
      <4>2. CASE i = Len(s) + 2
        BY <2>1, <2>2, <3>2, <4>2
      <4>3. i # Len(s) + 1
        BY <2>1, <3>2
      <4> QED
        BY <2>2, <3>2, <4>1, <4>2, <4>3
    <3> QED
      BY <2>1, <3>3, <3>4 DEF Spoken, ReplyShown
  <2> QED
    BY <2>1, <2>5, <2>6 DEF Written
<1> QED
  BY <1>1, <1>2, Writers

-----------------------------------------------------------------------------
(* A dispatch that sent an event was started, by a prompt.                 *)
LEMMA Started ==
    ASSUME Shape, Prompts, Counted, NEW e \in UnderWay
    PROVE  e \in Event /\ e.of \in Turns /\ run[e.of] # "idle"
<1>1. e \in Event /\ e.of \in Turns /\ e.n \in Nat
  BY AllEvents, ChatAssumption DEF Event
<1>2. Len(<<>>) = 0
  OBVIOUS
<1> QED
  BY <1>1, <1>2 DEF Counted, Numbered, Prompts

Unended(s) == \A j \in 1..Len(s) : ~Final(s[j])

(* The stream that Deliver writes to is the last one opened, and the event *)
(* is of its own turn or of an earlier one.                                *)
LEMMA LastStream ==
    ASSUME ~Overlap, Shape, Serial, Prompts, Counted, Unopened,
           NEW t \in Turns, pc[t] = "block", NEW e \in UnderWay
    PROVE  /\ \A v \in Turns : v > t => out[v] = <<>>
           /\ e.of \in 1..t
<1>1. \A v \in Turns : v > t => pc[v] = "idle"
  <2> SUFFICES ASSUME NEW v \in Turns, v > t, pc[v] # "idle" PROVE FALSE
    OBVIOUS
  <2>1. t \in 1..(v - 1)
    BY ChatAssumption DEF Turns
  <2> QED
    BY <2>1 DEF Serial
<1>2. \A v \in Turns : v > t => out[v] = <<>>
  BY <1>1 DEF Unopened
<1>3. e.of \in Turns /\ pc[e.of] \in Sent
  BY Started DEF Prompts
<1>4. ~(e.of > t)
  BY <1>1, <1>3 DEF Sent
<1> QED
  BY <1>2, <1>3, <1>4, ChatAssumption DEF Turns

LEMMA EndedStep ==
    ASSUME ~Overlap, Shape, Serial, Prompts, Counted, Ordered, Unopened,
           EndedByCutTurn, [Next]_vars
    PROVE  EndedByCutTurn'
<1>1. CASE UNCHANGED out
  BY <1>1 DEF EndedByCutTurn
<1>2. ASSUME NEW t \in Turns, Deliver(t) PROVE EndedByCutTurn'
  <2>1. PICK e, c \in Event :
              /\ e \in UnderWay /\ c.kind = "chunk"
              /\ Written(t, out[t], e, c)
              /\ \A u \in Turns \ {t} : out'[u] = out[u]
    BY <1>2, Writes
  <2>2. /\ \A v \in Turns : v > t => out[v] = <<>>
        /\ e.of \in 1..t /\ t \in Nat
    BY <1>2, <2>1, LastStream, ChatAssumption DEF Deliver, Turns
  <2>3. \A v \in Turns : out[v] \in Seq(Event) /\ Len(out[v]) \in Nat
    BY DEF Shape, Shows
  <2>4. \A i \in 1..Len(out'[t]) :
           (i \in 1..Len(out[t]) /\ out'[t][i] = out[t][i]) \/ out'[t][i] \in {c, e}
    <3>1. CASE out'[t] = Append(out[t], e)
      BY <2>3, <3>1, Appended
    <3>2. CASE out'[t] = Append(Append(out[t], c), e)
      <4>1. /\ Append(out[t], c) \in Seq(Event) /\ Len(Append(out[t], c)) = Len(out[t]) + 1
            /\ \A i \in 1..Len(out[t]) : Append(out[t], c)[i] = out[t][i]
            /\ Append(out[t], c)[Len(out[t]) + 1] = c
        BY <2>3, Appended
      <4>2. /\ Len(out'[t]) = Len(out[t]) + 2
            /\ \A i \in 1..(Len(out[t]) + 1) : out'[t][i] = Append(out[t], c)[i]
            /\ out'[t][Len(out[t]) + 2] = e
        BY <2>3, <3>2, <4>1, Appended
      <4> QED
        BY <2>3, <4>1, <4>2
    <3> QED
      BY <2>1, <3>1, <3>2 DEF Written
  <2>5. ASSUME Final(e), e.of # t
        PROVE  e.of < t /\ \E u \in 1..e.of : Unended(out[u])
    <3> DEFINE v == e.of
    <3>1. v \in Turns /\ v < t /\ v \in 1..v
      BY <2>2, <2>5, ChatAssumption DEF Turns
    <3>2. CASE Unended(out[v])
      BY <3>1, <3>2
    <3>3. ASSUME NEW j \in 1..Len(out[v]), Final(out[v][j])
          PROVE  \E u \in 1..v : Unended(out[u])
      <4> DEFINE f == out[v][j]
      <4>1. f \in Taken(v) /\ f \in Event
        BY <2>3, <3>1, <3>3 DEF Taken, ToSet
      <4>2. f.n = Len(said[f.of]) /\ e.n = Len(said[e.of]) /\ Before(f, e)
        BY <2>1, <2>5, <3>1, <3>3, <4>1 DEF Counted, Numbered, Ordered
      <4>3. f.of # v
        BY <4>1, <4>2, ChatAssumption DEF Before, Event
      <4>4. f.of < v /\ \E u \in 1..f.of : Unended(out[u])
        BY <3>1, <3>3, <4>3 DEF EndedByCutTurn, Unended
      <4>5. f.of \in Nat /\ v \in Nat
        BY <3>1, <4>1, ChatAssumption DEF Event, Turns
      <4> QED
        BY <4>4, <4>5
    <3> QED
      BY <3>1, <3>2, <3>3 DEF Unended
  <2> SUFFICES ASSUME NEW v \in Turns, NEW i \in 1..Len(out'[v]),
                      Final(out'[v][i]), out'[v][i].of # v
               PROVE  /\ out'[v][i].of < v
                      /\ \E u \in 1..(out'[v][i].of) : Unended(out'[u])
    BY DEF EndedByCutTurn, Unended, Final
  <2>6. v \in Nat /\ v <= MaxTurns /\ MaxTurns \in Nat
    BY ChatAssumption DEF Turns
  <2>7. CASE i \in 1..Len(out[v]) /\ out'[v][i] = out[v][i]
    <3>1. v <= t
      BY <2>2, <2>3, <2>6, <2>7
    <3>2. out[v][i] \in Event
      BY <2>3, <2>7
    <3>3. out[v][i].of \in Nat
      BY <3>2, ChatAssumption DEF Event, Turns
    <3>4. out[v][i].of < v /\ \E u \in 1..out[v][i].of : Unended(out[u])
      BY <2>7 DEF EndedByCutTurn, Unended
    <3>5. \A u \in 1..out[v][i].of : u \in Turns \ {t}
      BY <2>2, <2>6, <3>1, <3>3, <3>4 DEF Turns
    <3> QED
      BY <2>1, <2>7, <3>4, <3>5
  <2>8. CASE v = t /\ out'[v][i] \in {c, e}
    <3>1. out'[v][i] = e
      BY <2>1, <2>8 DEF Final
    <3>2. e.of < t /\ \E u \in 1..e.of : Unended(out[u])
      BY <2>5, <2>8, <3>1
    <3>3. \A u \in 1..e.of : u \in Turns \ {t}
      BY <2>2, <2>6, <2>8, <3>2 DEF Turns
    <3> QED
      BY <2>1, <2>8, <3>1, <3>2, <3>3
  <2> QED
    BY <2>1, <2>4, <2>7, <2>8
<1> QED
  BY <1>1, <1>2, Writers

-----------------------------------------------------------------------------
(* No clean-up has been asked for, and no command has failed.              *)
NoLeave == \A k \in 1..MaxLeaves : clean[k] = "none"
Calm == faults = 0 /\ NoLeave

(* Only a bot that has left has a broken or no connection.                 *)
Linked == (link = "lost" => MaxLeaves > 0) /\ (link = "down" => ~NoLeave)

(* A stream without the group delivers nothing.                            *)
Emptied == key # "group" => entries = <<>>

(* The prompt of turn t has been sent.                                     *)
Posted(t) == run[t] # "idle" \/ \E m \in mail : m.kind = "prompt" /\ m.turn = t

(* In calm, the group is there before a prompt is sent and from then on.   *)
Grouped ==
    Calm => \A t \in Turns : /\ pc[t] \in Prepared => gone[t] \/ key = "group"
                             /\ Posted(t) => key = "group"

(* What no step takes back.                                                *)
Steady ==
    /\ faults' = 0 => faults = 0
    /\ NoLeave' => NoLeave
    /\ \A t \in Turns : gone[t] => gone'[t]
    /\ link' = "up" /\ NoLeave' => link = "up"

LEMMA NoneLeft ==
    ASSUME NEW f
    PROVE  (\A k \in 1..MaxLeaves : f[k] = "none")
               <=> Cardinality({k \in 1..MaxLeaves : f[k] # "none"}) = 0
<1> DEFINE S == {k \in 1..MaxLeaves : f[k] # "none"}
<1>1. IsFiniteSet(1..MaxLeaves)
  BY ChatAssumption, FS_Interval
<1>2. IsFiniteSet(S)
  BY <1>1, FS_Subset
<1>3. Cardinality(S) = 0 <=> S = {}
  BY <1>2, FS_EmptySet
<1> QED
  BY <1>3

LEMMA CalmLeaves == NoLeave <=> Leaves = 0
BY NoneLeft DEF NoLeave, Leaves

LEMMA SteadyStep == (Flags /\ Watchers /\ Handlers /\ Linked) /\ [Next]_vars => Steady /\ Linked'
<1> SUFFICES ASSUME (Flags /\ Watchers /\ Handlers /\ Linked), [Next]_vars PROVE Steady /\ Linked'
  OBVIOUS
<1> USE ChatAssumption
      DEF Steady, Linked, NoLeave, Flags, Watchers, Handlers, Works, Fails, CtxWorks,
      CtxFails, stream, bot, plugin, turn, watch, janitor
<1>1. ASSUME NEW t \in Turns,
             Begin(t) \/ Purge(t) \/ Group(t) \/ Track(t) \/ Route(t)
             \/ Send(t) \/ Open(t) \/ Top(t) \/ Issue(t) \/ Deliver(t)
             \/ ReadNothing(t) \/ Close(t) \/ ReadError(t) \/ SendCancel(t)
             \/ ClientLeaves(t) \/ TimeUp(t) \/ Finish(t)
      PROVE  Steady /\ Linked'
  <2>1. CASE Begin(t)
    BY <2>1 DEF Begin
  <2>2. CASE Purge(t)
    BY <2>2 DEF Purge
  <2>3. CASE Group(t)
    BY <2>3 DEF Group
  <2>4. CASE Track(t)
    BY <2>4 DEF Track
  <2>5. CASE Route(t)
    BY <2>5 DEF Route
  <2>6. CASE Send(t)
    BY <2>6 DEF Send
  <2>7. CASE Open(t)
    BY <2>7 DEF Open
  <2>8. CASE Top(t)
    BY <2>8 DEF Top
  <2>9. CASE Issue(t)
    BY <2>9 DEF Issue
  <2>10. CASE Deliver(t)
    BY <2>10 DEF Deliver
  <2>11. CASE ReadNothing(t)
    BY <2>11 DEF ReadNothing
  <2>12. CASE Close(t)
    BY <2>12 DEF Close
  <2>13. CASE ReadError(t)
    BY <2>13 DEF ReadError
  <2>14. CASE SendCancel(t)
    BY <2>14 DEF SendCancel
  <2>15. CASE ClientLeaves(t)
    BY <2>15 DEF ClientLeaves
  <2>16. CASE TimeUp(t)
    BY <2>16 DEF TimeUp
  <2>17. CASE Finish(t)
    BY <2>17 DEF Finish
  <2> QED
    BY <1>1, <2>1, <2>2, <2>3, <2>4, <2>5, <2>6, <2>7, <2>8, <2>9, <2>10,
      <2>11, <2>12, <2>13, <2>14, <2>15, <2>16, <2>17
<1>2. ASSUME NEW t \in Turns, NEW kind \in {"chunk", "note"}, Say(t, kind) PROVE Steady /\ Linked'
  BY <1>2 DEF Say
<1>3. ASSUME NEW m \in mail, Forward(m) PROVE Steady /\ Linked'
  BY <1>3 DEF Forward
<1>4. CASE HandleBotMessage
  BY <1>4 DEF HandleBotMessage
<1>5. CASE Publish
  BY <1>5 DEF Publish
<1>6. CASE BotLeaves
  <2>1. MaxLeaves = 0 => Leaves = 0
    BY CalmLeaves DEF NoLeave
  <2>2. MaxLeaves > 0
    BY <1>6, <2>1 DEF BotLeaves
  <2> QED
    BY <1>6, <2>2 DEF BotLeaves
<1>7. CASE BotUnregistered
  <2>1. CASE NoLeave
    <3>1. 1 \in 1..MaxLeaves
      BY <1>7, <2>1 DEF BotUnregistered
    <3>2. Leaves = 0
      BY <2>1, CalmLeaves DEF NoLeave
    <3>3. clean'[1] = "queued"
      BY <1>7, <3>1, <3>2 DEF BotUnregistered
    <3> QED
      BY <1>7, <3>1, <3>3 DEF BotUnregistered, Steady
  <2>2. CASE ~NoLeave
    <3>1. PICK k \in 1..MaxLeaves : clean[k] # "none"
      BY <2>2
    <3>2. clean'[k] # "none"
      BY <1>7, <3>1 DEF BotUnregistered
    <3> QED
      BY <1>7, <3>1, <3>2 DEF BotUnregistered, Steady
  <2> QED
    BY <2>1, <2>2
<1>8. ASSUME NEW n \in Nodes, BotReturns(n) PROVE Steady /\ Linked'
  BY <1>8 DEF BotReturns
<1>9. ASSUME NEW n \in Nodes, MonitorCheck(n) PROVE Steady /\ Linked'
  BY <1>9 DEF MonitorCheck
<1>10. ASSUME NEW n \in Nodes, MonitorNotify(n) PROVE Steady /\ Linked'
  BY <1>10 DEF MonitorNotify
<1>11. ASSUME NEW k \in 1..MaxLeaves, CleanList(k) PROVE Steady /\ Linked'
  BY <1>11 DEF CleanList
<1>12. ASSUME NEW k \in 1..MaxLeaves, CleanInbox(k) PROVE Steady /\ Linked'
  BY <1>12 DEF CleanInbox
<1>13. ASSUME NEW k \in 1..MaxLeaves, CleanIndex(k) PROVE Steady /\ Linked'
  BY <1>13 DEF CleanIndex
<1>14. CASE UNCHANGED vars
  BY <1>14 DEF vars
<1> QED
  BY <1>1, <1>2, <1>3, <1>4, <1>5, <1>6, <1>7, <1>8, <1>9, <1>10, <1>11, <1>12,
      <1>13, <1>14 DEF Next, Handler, Cleaner

LEMMA EmptiedStep == Shape /\ Emptied /\ [Next]_vars => Emptied'
<1> SUFFICES ASSUME Shape /\ Emptied, [Next]_vars PROVE Emptied'
  OBVIOUS
<1>1. ASSUME NEW t \in Turns, Mover(t) PROVE Emptied'
  <2>1. CASE Purge(t)
    BY <2>1, PurgeMoves DEF Emptied
  <2>2. CASE Group(t)
    BY <2>2, GroupMoves DEF Emptied
  <2>3. CASE Deliver(t)
    BY <2>3, DeliverMoves DEF Emptied
  <2>4. CASE ReadNothing(t)
    BY <2>4, GroupMoves DEF Emptied
  <2>5. CASE Finish(t)
    BY <2>5, FinishMoves DEF Emptied
  <2>6. ASSUME NEW kind \in {"chunk", "note"}, Say(t, kind) PROVE Emptied'
    BY <2>6, SayMoves DEF Emptied
  <2> QED
    BY <1>1, <2>1, <2>2, <2>3, <2>4, <2>5, <2>6 DEF Mover
<1>2. ASSUME NEW m \in mail, Forward(m) PROVE Emptied'
  BY <1>2 DEF Emptied, Forward, stream
<1>3. CASE HandleBotMessage
  BY <1>3, HandleMoves DEF Emptied
<1>4. CASE Publish
  BY <1>4, PublishMoves DEF Emptied
<1>5. CASE BotLeaves
  BY <1>5, LeaveMoves DEF Emptied
<1>6. ASSUME NEW k \in 1..MaxLeaves, CleanInbox(k) PROVE Emptied'
  BY <1>6 DEF Emptied, CleanInbox, stream
<1>7. CASE UNCHANGED events
  BY <1>7 DEF Emptied, events
<1> QED
  BY <1>1, <1>2, <1>3, <1>4, <1>5, <1>6, <1>7, Movers
(* Once there, the group stays until a clean-up deletes the inbox.         *)
LEMMA GroupStays == Shape /\ NoLeave /\ key = "group" /\ [Next]_vars => key' = "group"
<1> SUFFICES ASSUME Shape, NoLeave, key = "group", [Next]_vars PROVE key' = "group"
  OBVIOUS
<1>1. ASSUME NEW t \in Turns, Mover(t) PROVE key' = "group"
  BY <1>1, PurgeMoves, GroupMoves, DeliverMoves, FinishMoves, SayMoves DEF Mover
<1>2. ASSUME NEW m \in mail, Forward(m) PROVE key' = "group"
  BY <1>2 DEF Forward, stream
<1>3. CASE HandleBotMessage \/ Publish \/ BotLeaves \/ UNCHANGED events
  BY <1>3, HandleMoves, PublishMoves, LeaveMoves DEF events
<1>4. ASSUME NEW k \in 1..MaxLeaves, CleanInbox(k) PROVE FALSE
  BY <1>4 DEF CleanInbox, NoLeave
<1> QED
  BY <1>1, <1>2, <1>3, <1>4, Movers

(* A prompt is sent by SendToBot, with a request context that is not done. *)
LEMMA PostedBack ==
    Shape /\ Prompts /\ [Next]_vars =>
        \A t \in Turns : Posted(t)' => Posted(t) \/ (pc[t] \in Prepared /\ ~gone[t])
<1> SUFFICES ASSUME Shape, Prompts, [Next]_vars, NEW t \in Turns, Posted(t)'
             PROVE  Posted(t) \/ (pc[t] \in Prepared /\ ~gone[t])
  OBVIOUS
<1> USE DEF Posted, plugin
<1>1. ASSUME NEW u \in Turns, Send(u) PROVE Posted(t) \/ (pc[t] \in Prepared /\ ~gone[t])
  <2>1. CASE UNCHANGED mail
    BY <1>1, <2>1 DEF Send
  <2>2. CASE CtxWorks(u) /\ mail' = mail \cup {[to |-> route[u], kind |-> "prompt", turn |-> u]}
    BY <1>1, <2>2 DEF Send, CtxWorks, Prepared
  <2> QED
    BY <1>1, <2>1, <2>2 DEF Send
<1>2. ASSUME NEW u \in Turns, SendCancel(u) PROVE Posted(t)
  <2>1. CASE UNCHANGED mail
    BY <1>2, <2>1 DEF SendCancel
  <2>2. CASE mail' = mail \cup {[to |-> host, kind |-> "cancel", turn |-> u]}
    BY <1>2, <2>2 DEF SendCancel
  <2> QED
    BY <1>2, <2>1, <2>2 DEF SendCancel
<1>3. ASSUME NEW m \in mail, Forward(m) PROVE Posted(t)
  <2>1. mail' = mail \ {m}
    BY <1>3 DEF Forward
  <2>2. run'[t] # "idle" => Posted(t)
    BY <1>3 DEF Forward, Shape, Dispatches, Handlers, Message, Prompts
  <2> QED
    BY <2>1, <2>2
<1>4. CASE UNCHANGED mail
  <2>1. ASSUME NEW u \in Turns, Mover(u) PROVE run'[t] # "idle" => run[t] # "idle"
    BY <2>1, PurgeMoves, GroupMoves, DeliverMoves, FinishMoves, SayMoves
       DEF Mover, Shape, Dispatches
  <2>2. ASSUME NEW m \in mail, Forward(m) PROVE FALSE
    BY <1>4, <2>2 DEF Forward
  <2>3. HandleBotMessage \/ Publish \/ BotLeaves \/ UNCHANGED events => UNCHANGED run
    BY HandleMoves, PublishMoves, LeaveMoves DEF events
  <2>4. ASSUME NEW k \in 1..MaxLeaves, CleanInbox(k) PROVE UNCHANGED run
    BY <2>4, CleanMoves
  <2> QED
    BY <1>4, <2>1, <2>2, <2>3, <2>4, Movers
<1> QED
  BY <1>1, <1>2, <1>3, <1>4, Posts

LEMMA GroupedStep ==
    Shape /\ Prompts /\ Linked /\ Grouped /\ [Next]_vars => Grouped'
<1> SUFFICES ASSUME Shape, Prompts, Linked, Grouped, [Next]_vars, Calm', NEW t \in Turns
             PROVE  /\ pc'[t] \in Prepared => gone'[t] \/ key' = "group"
                    /\ Posted(t)' => key' = "group"
  BY DEF Grouped
<1>1. Steady /\ faults' = 0
  BY SteadyStep DEF Shape, Calm
<1>2. Calm
  BY <1>1 DEF Steady, Calm
<1>3. key = "group" => key' = "group"
  BY <1>2, GroupStays DEF Calm
<1>4. pc'[t] \in Prepared => gone'[t] \/ key' = "group"
  <2>1. CASE pc[t] \in Prepared
    BY <1>1, <1>2, <1>3, <2>1 DEF Grouped, Steady
  <2>2. CASE pc[t] \notin Prepared /\ pc'[t] \in Prepared
    <3>1. gone[t] \/ key' = "group" \/ faults' # 0
      BY <2>2, Advance DEF Shape, Handlers, Advances
    <3> QED
      BY <1>1, <3>1 DEF Steady
  <2> QED
    BY <2>1, <2>2
<1>5. Posted(t)' => key' = "group"
  BY <1>2, <1>3, PostedBack DEF Grouped
<1> QED
  BY <1>4, <1>5

-----------------------------------------------------------------------------
(* Where the events of turn t are found while nothing is lost.             *)
Kept(t) ==
    ToSet(wire) \cup {pub} \cup ToSet(entries)
        \cup (UNION {ToSet(out[u]) : u \in Turns})
        \cup (UNION {old[u] : u \in Turns \ {t}})

Safe == Calm /\ link = "up" => \A t \in Turns : Pieces(t) \subseteq Kept(t)

LEMMA SafeIsNothingLost == Safe <=> NothingLost
BY CalmLeaves DEF Safe, NothingLost, Calm, Kept

(* In calm, the inbox of a dispatch that has sent something has its group. *)
LEMMA GroupedEvent ==
    ASSUME Shape, Prompts, Counted, Grouped, Calm, NEW e \in UnderWay
    PROVE  key = "group"
BY Started DEF Grouped, Posted

LEMMA SafeStep ==
    Shape /\ Prompts /\ Unopened /\ Counted /\ Linked /\ Emptied /\ Grouped /\ Safe
        /\ [Next]_vars => Safe'
<1> SUFFICES ASSUME Shape, Prompts, Unopened, Counted, Linked, Emptied, Grouped, Safe,
                    [Next]_vars, Calm', link' = "up"
             PROVE  \A t \in Turns : Pieces(t)' \subseteq Kept(t)'
  BY DEF Safe
<1>1. Steady /\ faults' = 0
  BY SteadyStep DEF Shape, Calm
<1>2. Calm /\ link = "up"
  BY <1>1 DEF Steady, Calm
<1>3. \A t \in Turns : Pieces(t) \subseteq Kept(t)
  BY <1>2 DEF Safe
<1>4. UNCHANGED said => \A t \in Turns : Pieces(t)' = Pieces(t)
  BY DEF Pieces
<1>5. ASSUME UNCHANGED said, \A t \in Turns : Kept(t) \subseteq Kept(t)'
      PROVE  \A t \in Turns : Pieces(t)' \subseteq Kept(t)'
  BY <1>3, <1>4, <1>5
<1>6. ASSUME NEW t \in Turns, Purge(t) PROVE \A u \in Turns : Pieces(u)' \subseteq Kept(u)'
  <2>1. pc[t] = "purge" /\ old[t] = {}
    BY <1>6 DEF Purge, Unopened
  <2>2. Pieces(t) = {}
    <3>1. said[t] = <<>>
      BY <2>1 DEF Prompts, Sent
    <3> QED
      BY <3>1 DEF Pieces
  <2>3. UNCHANGED said
    BY <1>6, PurgeMoves
  <2>4. ASSUME NEW u \in Turns, u # t PROVE Kept(u) \subseteq Kept(u)'
    <3>1. UNCHANGED <<wire, pub, out>>
      BY <1>6, PurgeMoves
    <3>2. CASE UNCHANGED <<entries, old>>
      BY <3>1, <3>2 DEF Kept
    <3>3. CASE old' = [old EXCEPT ![t] = ToSet(entries)]
      <4>1. old'[t] = ToSet(entries) /\ \A v \in Turns : old[v] \subseteq old'[v]
        BY <2>1, <3>3 DEF Shape, Shows
      <4>2. ToSet(entries) \subseteq UNION {old'[v] : v \in Turns \ {u}}
        BY <2>4, <4>1
      <4> DEFINE shown == UNION {ToSet(out[v]) : v \in Turns}
      <4> DEFINE dropped == UNION {old[v] : v \in Turns \ {u}}
      <4>3. Kept(u) = ToSet(wire) \cup {pub} \cup ToSet(entries) \cup shown \cup dropped
        BY DEF Kept
      <4>4. ToSet(wire) \cup {pub} \cup shown \cup dropped' \subseteq Kept(u)'
        BY <3>1 DEF Kept
      <4>5. dropped \subseteq dropped'
        <5> SUFFICES ASSUME NEW v \in Turns \ {u} PROVE old[v] \subseteq dropped'
          OBVIOUS
        <5> QED
          BY <4>1
      <4> HIDE DEF shown, dropped
      <4> QED
        BY <4>2, <4>3, <4>4, <4>5 DEF dropped
    <3> QED
      BY <1>6, <3>2, <3>3, PurgeMoves
  <2> QED
    BY <1>3, <1>4, <2>2, <2>3, <2>4
<1>7. ASSUME NEW t \in Turns, Group(t) \/ ReadNothing(t)
      PROVE  \A u \in Turns : Pieces(u)' \subseteq Kept(u)'
  <2>1. UNCHANGED <<said, wire, pub, entries, out, old>>
    BY <1>7, GroupMoves DEF Emptied
  <2> QED
    BY <1>5, <2>1 DEF Kept
<1>8. ASSUME NEW t \in Turns, Deliver(t) PROVE \A u \in Turns : Pieces(u)' \subseteq Kept(u)'
  <2>1. UNCHANGED <<said, wire, pub, old>>
    BY <1>8, DeliverMoves
  <2>2. ToSet(out[t]) \subseteq ToSet(out'[t]) /\ ToSet(entries) \subseteq ToSet(entries') \cup ToSet(out'[t])
    BY <1>8, DeliverMoves
  <2>3. \A u \in Turns : u # t => out'[u] = out[u]
    BY <1>8, DeliverMoves DEF Shape, Shows
  <2>4. \A u \in Turns : Kept(u) \subseteq Kept(u)'
    BY <2>1, <2>2, <2>3 DEF Kept
  <2> QED
    BY <1>5, <2>1, <2>4
<1>9. ASSUME NEW t \in Turns, Finish(t) PROVE \A u \in Turns : Pieces(u)' \subseteq Kept(u)'
  <2>1. UNCHANGED <<said, entries, pub, out, old>> /\ ToSet(wire) \subseteq ToSet(wire')
    BY <1>9, FinishMoves
  <2> QED
    BY <1>5, <2>1 DEF Kept
<1>10. ASSUME NEW t \in Turns, NEW kind \in {"chunk", "note"}, Say(t, kind)
       PROVE  \A u \in Turns : Pieces(u)' \subseteq Kept(u)'
  <2> DEFINE e == [of |-> t, n |-> Len(said[t]), kind |-> kind]
  <2>1. /\ UNCHANGED <<entries, pub, out, old>>
        /\ said' = [said EXCEPT ![t] = Append(said[t], kind)]
        /\ ToSet(wire') = ToSet(wire) \cup {e}
    BY <1>10, SayMoves
  <2>2. \A u \in Turns : Kept(u)' = Kept(u) \cup {e}
    BY <2>1 DEF Kept
  <2>3. \A u \in Turns : u # t => Pieces(u)' = Pieces(u)
    BY <2>1 DEF Pieces, Shape, Dispatches
  <2>4. Pieces(t)' \subseteq Pieces(t) \cup {e}
    <3>1. said'[t] = Append(said[t], kind) /\ said[t] \in Seq({"chunk", "note"})
      BY <2>1 DEF Shape, Dispatches
    <3>2. /\ Len(said'[t]) = Len(said[t]) + 1 /\ Len(said[t]) \in Nat
          /\ \A i \in 1..Len(said[t]) : said'[t][i] = said[t][i]
          /\ said'[t][Len(said[t]) + 1] = kind
      BY <3>1, Appended
    <3>3. ASSUME NEW i \in 1..Len(said'[t])
          PROVE  [of |-> t, n |-> i - 1, kind |-> said'[t][i]] \in Pieces(t) \cup {e}
      <4>1. CASE i \in 1..Len(said[t])
        BY <3>2, <4>1 DEF Pieces
      <4>2. CASE i = Len(said[t]) + 1
        <5>1. i - 1 = Len(said[t])
          BY <3>2, <4>2
        <5> QED
          BY <3>2, <4>2, <5>1
      <4> QED
        BY <3>2, <4>1, <4>2
    <3> HIDE DEF e
    <3> QED
      BY <3>3 DEF Pieces
  <2> HIDE DEF e
  <2> QED
    BY <1>3, <2>2, <2>3, <2>4
<1>11. ASSUME NEW m \in mail, Forward(m) PROVE \A u \in Turns : Pieces(u)' \subseteq Kept(u)'
  <2>1. UNCHANGED <<said, entries, wire, pub, out, old>>
    BY <1>11, ForwardMoves
  <2> QED
    BY <1>5, <2>1 DEF Kept
<1>12. CASE HandleBotMessage
  <2>1. /\ UNCHANGED <<said, entries, out, old>> /\ pub = None
        /\ ToSet(wire) = {Head(wire)} \cup ToSet(wire')
        /\ pub' = Head(wire) \/ key = "absent"
    BY <1>1, <1>12, HandleMoves
  <2>2. Head(wire) \in UnderWay
    BY <2>1 DEF UnderWay
  <2>3. pub' = Head(wire)
    BY <1>2, <2>1, <2>2, GroupedEvent
  <2>4. \A u \in Turns : None \notin Pieces(u)
    <3>1. \A u \in Turns : Pieces(u) \subseteq Event
      BY ChatAssumption DEF Pieces, Event, Kinds, Shape, Dispatches
    <3> QED
      BY <3>1, ChatAssumption
  <2>5. \A u \in Turns : Kept(u) \subseteq Kept(u)' \cup {None}
    BY <2>1, <2>3 DEF Kept
  <2> QED
    BY <1>3, <1>4, <2>1, <2>4, <2>5
<1>13. CASE Publish
  <2>1. pub \in UnderWay
    BY <1>13, PublishMoves DEF UnderWay, Held
  <2>2. key = "group"
    BY <1>2, <2>1, GroupedEvent
  <2>3. /\ UNCHANGED <<said, wire, out, old>>
        /\ ToSet(entries') = ToSet(entries) \cup {pub}
    BY <1>1, <1>13, <2>2, PublishMoves
  <2> QED
    BY <1>5, <2>3 DEF Kept
<1>14. ~BotLeaves
  BY DEF BotLeaves
<1>15. ASSUME NEW k \in 1..MaxLeaves, CleanInbox(k) PROVE FALSE
  BY <1>2, <1>15 DEF CleanInbox, Calm, NoLeave
<1>16. CASE UNCHANGED events
  BY <1>5, <1>16 DEF Kept, events
<1> QED
  BY <1>6, <1>7, <1>8, <1>9, <1>10, <1>11, <1>12, <1>13, <1>14, <1>15, <1>16, Movers DEF Mover

-----------------------------------------------------------------------------
(* The inductive invariant.  The properties follow from its parts: what is *)
(* under way forms one queue in the order of sending (Ordered), which no   *)
(* event leaves to two places (Apart), and which is created before the     *)
(* prompt that fills it (Grouped).                                         *)
ChatInv ==
    /\ Shape /\ Serial /\ Unopened /\ Prompts
    /\ Counted /\ Ordered /\ Apart /\ InRow /\ Spoken /\ ReplyShown
    /\ Linked /\ Emptied /\ Grouped /\ Safe

LEMMA ChatInit == Init => ChatInv /\ EndedByCutTurn
<1> SUFFICES ASSUME Init PROVE ChatInv /\ EndedByCutTurn
  OBVIOUS
<1> USE DEF Init
<1>1. Shape
  BY ShapeInit
<1>2. Serial /\ Unopened /\ Prompts
  BY DEF Serial, Unopened, Prompts
<1>3. UnderWay = {} /\ Held = {} /\ \A t \in Turns : Taken(t) = {}
  BY SetOfEmpty DEF UnderWay, Held, Taken
<1>4. Len(<<>>) = 0 /\ ToSet(<<>>) = {}
  BY SetOfEmpty
<1>5. Counted /\ Ordered /\ Apart
  BY <1>3, <1>4 DEF Counted, Ordered, Apart, Increasing
<1>6. InRow /\ Spoken /\ ReplyShown /\ EndedByCutTurn
  BY <1>4 DEF InRow, Spoken, ReplyShown, EndedByCutTurn
<1>7. Linked /\ Emptied /\ Grouped
  BY DEF Linked, Emptied, Grouped, Prepared, Posted
<1>8. Safe
  <2>1. \A t \in Turns : Pieces(t) = {}
    BY <1>4 DEF Pieces
  <2> QED
    BY <2>1 DEF Safe
<1> QED
  BY <1>1, <1>2, <1>5, <1>6, <1>7, <1>8 DEF ChatInv

LEMMA ChatStep == ChatInv /\ [Next]_vars => ChatInv'
<1> SUFFICES ASSUME ChatInv, [Next]_vars PROVE ChatInv'
  OBVIOUS
<1> USE DEF ChatInv
<1>1. Shape' /\ Serial' /\ Unopened' /\ Prompts'
  BY ShapeStep, SerialStep, UnopenedStep, PromptsStep DEF Shape
<1>2. Counted' /\ Ordered' /\ Apart'
  BY CountedStep, OrderedStep, ApartStep
<1>3. InRow' /\ Spoken' /\ ReplyShown'
  BY InRowStep, SpokenStep
<1>4. Linked' /\ Emptied' /\ Grouped' /\ Safe'
  BY SteadyStep, EmptiedStep, GroupedStep, SafeStep DEF Shape
<1> QED
  BY <1>1, <1>2, <1>3, <1>4

LEMMA ChatAlways == Spec => []ChatInv
<1>1. Init => ChatInv
  BY ChatInit
<1> QED
  BY <1>1, ChatStep, PTL DEF Spec

(* TypeOK: every variable keeps its type, across handlers, plugin, monitor *)
(* and clean-up.                                                           *)
THEOREM ChatTypeCorrect == Spec => []TypeOK
<1>1. ChatInv => TypeOK
  BY DEF ChatInv, Shape, Flags, Handlers, Watchers, Dispatches, Places, Shows, TypeOK
<1> QED
  BY <1>1, ChatAlways, PTL

(* FreshOnly: Queue.Purge works.  Whatever is deleted, recreated or        *)
(* published in between, no stream shows an event that was in the inbox    *)
(* when it purged it.                                                      *)
THEOREM StreamsAreFresh == Spec => []FreshOnly
<1>1. ChatInv => FreshOnly
  BY DEF ChatInv, Apart, Same, FreshOnly
<1> QED
  BY <1>1, ChatAlways, PTL

(* InOrder: XREADGROUP with ">" by handlers that share one group shows an  *)
(* event at most once, in one stream, and the events of a dispatch in the  *)
(* order in which sendToSession got them.                                  *)
THEOREM EventsInOrder == Spec => []InOrder
<1>1. ChatInv => InOrder
  BY DEF ChatInv, Apart, Same, InRow, Follows, InOrder
<1> QED
  BY <1>1, ChatAlways, PTL

(* NothingLost: while no command fails and the bot stays, every event of a *)
(* dispatch is under way, in the inbox, shown, or discarded by another     *)
(* request's purge: SendToBot comes after the group was created.           *)
THEOREM NoEventIsLost == Spec => []NothingLost
<1>1. ChatInv => NothingLost
  BY SafeIsNothingLost DEF ChatInv
<1> QED
  BY <1>1, ChatAlways, PTL

(* ReplyShown: a done is shown after a chunk, one of the dispatch's or the *)
(* one the handler makes from it.                                          *)
THEOREM RepliesShown == Spec => []ReplyShown
<1>1. ChatInv => ReplyShown
  BY DEF ChatInv
<1> QED
  BY <1>1, ChatAlways, PTL

(* EndedByCutTurn: with requests made one after the other, a stream ended  *)
(* by an earlier turn's last event follows a stream that was cut short,    *)
(* that turn's or an earlier one's.                                        *)
THEOREM LateEndsFollowACut ==
    ASSUME ~Overlap
    PROVE  Spec => []EndedByCutTurn
<1>1. Init => EndedByCutTurn
  BY ChatInit
<1>2. ChatInv /\ EndedByCutTurn /\ [Next]_vars => EndedByCutTurn'
  BY EndedStep DEF ChatInv
<1> QED
  BY <1>1, <1>2, ChatAlways, PTL DEF Spec
===============================================================================
