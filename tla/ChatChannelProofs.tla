--------------------------- MODULE ChatChannelProofs ---------------------------
(***************************************************************************)
(* The chat inbox implements EventChannel: for any number of turns,        *)
(* events, departures of the bot and failing commands, what lies between   *)
(* the bot's dispatches and the streams of a session is one queue.         *)
(***************************************************************************)
EXTENDS ChatStreamProofs, SequenceTheorems

-----------------------------------------------------------------------------
(* Queues made of parts.                                                   *)

(* What is left of a sequence beyond its first part.                       *)
LEMMA FirstPart ==
    ASSUME NEW S, NEW a \in Seq(S), NEW b \in Seq(S)
    PROVE  /\ a \o b \in Seq(S) /\ Len(a) \in 0..Len(a \o b)
           /\ SubSeq(a \o b, 1, Len(a)) = a
           /\ SubSeq(a \o b, Len(a) + 1, Len(a \o b)) = b
           /\ ToSet(a) = {(a \o b)[j] : j \in 1..Len(a)}
<1> DEFINE q == a \o b
<1>1. /\ q \in Seq(S) /\ Len(q) = Len(a) + Len(b) /\ Len(a) \in Nat /\ Len(b) \in Nat
      /\ \A i \in 1..(Len(a) + Len(b)) : q[i] = IF i <= Len(a) THEN a[i] ELSE b[i - Len(a)]
      /\ \A i \in 1..(Len(a) + Len(b)) : q[i] \in S
  BY ConcatProperties, LenProperties, ElementOfSeq
<1> HIDE DEF q
<1>2. SubSeq(q, 1, Len(a)) = a
  <2> DEFINE p == SubSeq(q, 1, Len(a))
  <2>1. \A i \in 1..Len(a) : q[i] \in S
    BY <1>1
  <2>2. /\ p \in Seq(S) /\ Len(p) = IF 1 <= Len(a) THEN Len(a) - 1 + 1 ELSE 0
        /\ \A i \in 1..(Len(a) - 1 + 1) : p[i] = q[1 + i - 1]
    BY <1>1, <2>1, SubSeqProperties
  <2>3. Len(p) = Len(a) /\ \A i \in 1..Len(p) : p[i] = a[i]
    BY <1>1, <2>2
  <2> QED
    BY <2>2, <2>3, SeqEqual
<1>3. SubSeq(q, Len(a) + 1, Len(q)) = b
  <2> DEFINE p == SubSeq(q, Len(a) + 1, Len(q))
  <2>1. \A i \in (Len(a) + 1)..Len(q) : q[i] \in S
    BY <1>1
  <2>2. /\ p \in Seq(S)
        /\ Len(p) = IF Len(a) + 1 <= Len(q) THEN Len(q) - (Len(a) + 1) + 1 ELSE 0
        /\ \A i \in 1..(Len(q) - (Len(a) + 1) + 1) : p[i] = q[Len(a) + 1 + i - 1]
    BY <1>1, <2>1, SubSeqProperties
  <2> HIDE DEF p
  <2>3. Len(p) = Len(b)
    BY <1>1, <2>2
  <2>4. ASSUME NEW i \in 1..Len(b) PROVE p[i] = b[i]
    <3>1. i \in 1..(Len(q) - (Len(a) + 1) + 1) /\ Len(a) + 1 + i - 1 = Len(a) + i
      BY <1>1
    <3>2. q[Len(a) + i] = b[i]
      <4>1. Len(a) + i \in 1..(Len(a) + Len(b)) /\ ~(Len(a) + i <= Len(a))
        BY <1>1
      <4>2. Len(a) + i - Len(a) = i
        BY <1>1
      <4> QED
        BY <1>1, <4>1, <4>2
    <3> QED
      BY <2>2, <3>1, <3>2
  <2>5. p = b
    BY <2>2, <2>3, <2>4, SeqEqual
  <2> QED
    BY <2>5 DEF p
<1>4. DOMAIN a = 1..Len(a) /\ \A j \in 1..Len(a) : q[j] = a[j]
  BY <1>1
<1> QED
  BY <1>1, <1>2, <1>3, <1>4 DEF ToSet, q

(* A part between two others falls out.                                    *)
Cut(q, p) ==
    \E i \in 0..Len(q) : \E j \in i..Len(q) :
        p = SubSeq(q, 1, i) \o SubSeq(q, j + 1, Len(q))

LEMMA CutOut ==
    ASSUME NEW S, NEW a \in Seq(S), NEW b \in Seq(S), NEW c \in Seq(S)
    PROVE  Cut((a \o b) \o c, a \o c)
<1> DEFINE q == (a \o b) \o c
<1>1. /\ a \o b \in Seq(S) /\ b \o c \in Seq(S)
      /\ Len(a) \in Nat /\ Len(b) \in Nat /\ Len(a \o b) = Len(a) + Len(b)
  BY ConcatProperties, LenProperties
<1>2. q = a \o (b \o c)
  BY ConcatAssociative
<1>3. SubSeq(q, 1, Len(a)) = a
  BY <1>1, <1>2, FirstPart
<1>4. SubSeq(q, Len(a \o b) + 1, Len(q)) = c /\ Len(a \o b) \in 0..Len(q)
  BY <1>1, FirstPart
<1>5. Len(a) \in 0..Len(q) /\ Len(a \o b) \in Len(a)..Len(q)
  BY <1>1, <1>4
<1> HIDE DEF q
<1>6. Cut(q, a \o c)
  BY <1>3, <1>4, <1>5 DEF Cut
<1> QED
  BY <1>6 DEF q

(* An entry is added to the last part, or taken from the first.            *)
LEMMA AddLast ==
    ASSUME NEW S, NEW a \in Seq(S), NEW b \in Seq(S), NEW e \in S
    PROVE  a \o Append(b, e) = Append(a \o b, e)
<1>1. <<e>> \in Seq(S) /\ a \o b \in Seq(S)
  BY ConcatProperties
<1>2. Append(b, e) = b \o <<e>> /\ Append(a \o b, e) = (a \o b) \o <<e>>
  BY <1>1, AppendIsConcat
<1> QED
  BY <1>1, <1>2, ConcatAssociative

LEMMA FirstOut ==
    ASSUME NEW S, NEW a \in Seq(S), a # <<>>
    PROVE  Tail(a) \in Seq(S) /\ <<Head(a)>> \in Seq(S) /\ a = <<Head(a)>> \o Tail(a)
<1>1. Head(a) \in S /\ Tail(a) \in Seq(S) /\ <<Head(a)>> \in Seq(S)
  BY HeadTailProperties
<1>2. /\ Len(a) \in Nat \ {0} /\ Len(Tail(a)) = Len(a) - 1
      /\ Head(a) = a[1] /\ \A i \in 1..Len(Tail(a)) : Tail(a)[i] = a[i + 1]
  BY HeadTailProperties, EmptySeq
<1> DEFINE q == <<Head(a)>> \o Tail(a)
<1>3. q \in Seq(S) /\ Len(q) = Len(a)
  BY <1>1, <1>2, ConcatProperties
<1>4. \A i \in 1..Len(a) : q[i] = a[i]
  BY <1>1, <1>2, ConcatProperties
<1>5. q = a
  BY <1>3, <1>4, SeqEqual
<1> QED
  BY <1>1, <1>5

LEMMA TakeFirst ==
    ASSUME NEW S, NEW a \in Seq(S), NEW b \in Seq(S), a # <<>>
    PROVE  /\ a \o b # <<>> /\ Head(a \o b) = Head(a)
           /\ Tail(a \o b) = Tail(a) \o b
<1> DEFINE q == Tail(a) \o b
<1>1. Tail(a) \in Seq(S) /\ <<Head(a)>> \in Seq(S) /\ a = <<Head(a)>> \o Tail(a)
  BY FirstOut
<1>2. q \in Seq(S) /\ a \o b = <<Head(a)>> \o q
  BY <1>1, ConcatAssociative, ConcatProperties
<1>3. Head(a) \in S
  BY HeadTailProperties
<1> HIDE DEF q
<1>4. ASSUME NEW h \in S
      PROVE  /\ <<h>> \o q # <<>> /\ Head(<<h>> \o q) = h
             /\ Tail(<<h>> \o q) = q
  <2> DEFINE r == <<h>> \o q
  <2>1. <<h>> \in Seq(S) /\ Len(<<h>>) = 1 /\ <<h>>[1] = h
    OBVIOUS
  <2>2. /\ r \in Seq(S) /\ Len(r) = Len(q) + 1 /\ Len(q) \in Nat
        /\ \A i \in 1..(1 + Len(q)) : r[i] = IF i <= 1 THEN <<h>>[i] ELSE q[i - 1]
    BY <1>2, <2>1, ConcatProperties, LenProperties
  <2> HIDE DEF r
  <2>3. r # <<>> /\ Head(r) = h
    BY <2>1, <2>2
  <2>4. /\ Tail(r) \in Seq(S) /\ Len(Tail(r)) = Len(q)
        /\ \A i \in 1..Len(q) : Tail(r)[i] = r[i + 1]
    BY <2>2, <2>3, HeadTailProperties
  <2>5. ASSUME NEW i \in 1..Len(q) PROVE Tail(r)[i] = q[i]
    <3>1. i + 1 \in 1..(1 + Len(q)) /\ ~(i + 1 <= 1) /\ i + 1 - 1 = i
      BY <2>2
    <3>2. r[i + 1] = q[i]
      BY <2>2, <3>1
    <3> QED
      BY <2>4, <3>2
  <2>6. Tail(r) = q
    BY <1>2, <2>4, <2>5, SeqEqual
  <2> QED
    BY <2>3, <2>6 DEF r
<1> QED
  BY <1>2, <1>3, <1>4 DEF q

-----------------------------------------------------------------------------
(* The queue of the chat stream, and when it is calm.                      *)
Hand == IF pub = None THEN <<>> ELSE <<pub>>
Queue == entries \o Hand \o wire
Over == {t \in Turns : run[t] = "over"}
Quiet == faults = 0 /\ Leaves = 0 /\ link = "up"

(* A stream that has shown a last event takes no other.                    *)
Ended(t) == pc[t] \in {"closing", "closed"}
EndsOnce == \A t \in Turns : ~Ended(t) => Unended(out[t])

LEMMA EndedStays ==
    Handlers /\ [Next]_vars => \A t \in Turns : Ended(t) => Ended(t)'
<1> SUFFICES ASSUME Handlers, [Next]_vars, NEW t \in Turns, Ended(t) PROVE Ended(t)'
  OBVIOUS
<1> USE DEF Ended, Handlers, Goto, turn
<1>1. ASSUME NEW u \in Turns,
             Begin(u) \/ Purge(u) \/ Group(u) \/ Track(u) \/ Route(u) \/ Send(u) \/ Open(u)
      PROVE  Ended(t)'
  <2>1. CASE Begin(u) \/ Purge(u) \/ Group(u)
    BY <2>1 DEF Begin, Purge, Group
  <2>2. CASE Track(u) \/ Route(u)
    BY <2>2 DEF Track, Route
  <2>3. CASE Send(u) \/ Open(u)
    BY <2>3 DEF Send, Open
  <2> QED
    BY <1>1, <2>1, <2>2, <2>3
<1>2. ASSUME NEW u \in Turns,
             Top(u) \/ Issue(u) \/ Deliver(u) \/ ReadNothing(u) \/ Close(u) \/ ReadError(u)
      PROVE  Ended(t)'
  <2>1. CASE Top(u) \/ Issue(u)
    BY <2>1 DEF Top, Issue
  <2>2. CASE Deliver(u)
    BY <2>2 DEF Deliver
  <2>3. CASE ReadNothing(u) \/ Close(u) \/ ReadError(u)
    BY <2>3 DEF ReadNothing, Close, ReadError
  <2> QED
    BY <1>2, <2>1, <2>2, <2>3
<1>3. ASSUME NEW u \in Turns, SendCancel(u) \/ ClientLeaves(u) \/ TimeUp(u) \/ Finish(u)
      PROVE  Ended(t)'
  BY <1>3 DEF SendCancel, ClientLeaves, TimeUp, Finish
<1>4. ASSUME NEW u \in Turns, NEW kind \in {"chunk", "note"}, Say(u, kind) PROVE Ended(t)'
  BY <1>4 DEF Say
<1>5. ASSUME NEW m \in mail, Forward(m) PROVE Ended(t)'
  BY <1>5 DEF Forward
<1>6. CASE HandleBotMessage \/ Publish \/ BotLeaves \/ BotUnregistered \/ UNCHANGED vars
  BY <1>6 DEF HandleBotMessage, Publish, BotLeaves, BotUnregistered, vars
<1>7. ASSUME NEW n \in Nodes, BotReturns(n) \/ MonitorCheck(n) \/ MonitorNotify(n)
      PROVE  Ended(t)'
  BY <1>7 DEF BotReturns, MonitorCheck, MonitorNotify
<1>8. ASSUME NEW k \in 1..MaxLeaves, Cleaner(k) PROVE Ended(t)'
  BY <1>8 DEF Cleaner, CleanList, CleanInbox, CleanIndex
<1> QED
  BY <1>1, <1>2, <1>3, <1>4, <1>5, <1>6, <1>7, <1>8 DEF Next, Handler

LEMMA EndsOnceStep == Shape /\ EndsOnce /\ [Next]_vars => EndsOnce'
<1> SUFFICES ASSUME Shape, EndsOnce, [Next]_vars, NEW t \in Turns, ~Ended(t)'
             PROVE  Unended(out'[t])
  BY DEF EndsOnce, Unended
<1>1. Unended(out[t]) /\ out[t] \in Seq(Event)
  BY EndedStays DEF EndsOnce, Shape, Shows
<1>2. CASE UNCHANGED out
  BY <1>1, <1>2
<1>3. ASSUME NEW u \in Turns, Deliver(u) PROVE Unended(out'[t])
  <2>1. CASE u # t
    BY <1>1, <1>3, <2>1, DeliverMoves DEF Shape, Shows
  <2>2. CASE u = t
    <3> DEFINE e == Head(entries)
    <3>1. ~Final(e)
      BY <1>3, <2>2 DEF Deliver, Goto, Ended, Shape, Handlers
    <3>2. Frames(t, e) = <<e>> /\ e \in Event
      BY <1>3, <3>1, DeliverMoves DEF Frames, Final
    <3>3. out'[t] = Append(out[t], e)
      BY <1>1, <1>3, <2>2, <3>2, SetOfTwo DEF Deliver, Shape, Shows
    <3> HIDE DEF e
    <3> QED
      BY <1>1, <3>1, <3>3, Appended DEF Unended
  <2> QED
    BY <2>1, <2>2
<1> QED
  BY <1>2, <1>3, Writers

-----------------------------------------------------------------------------
(* How each step of the chat stream moves the queue.                       *)
LEMMA QueueType == Shape => /\ Hand \in Seq(Event) /\ Queue \in Seq(Event)
                            /\ entries \in Seq(Event) /\ wire \in Seq(Event)
<1> SUFFICES ASSUME Shape
             PROVE  /\ Hand \in Seq(Event) /\ Queue \in Seq(Event)
                    /\ entries \in Seq(Event) /\ wire \in Seq(Event)
  OBVIOUS
<1>1. Hand \in Seq(Event) /\ entries \in Seq(Event) /\ wire \in Seq(Event)
  BY DEF Shape, Places, Hand
<1> QED
  BY <1>1, ConcatProperties DEF Queue

(* What Quiet says now and says next; it does not come back.               *)
LEMMA QuietIsCalm ==
    /\ Quiet <=> Calm /\ link = "up"
    /\ Quiet' <=> Calm' /\ link' = "up"
<1>1. Leaves = 0 <=> NoLeave
  BY NoneLeft DEF Leaves, NoLeave
<1>2. Leaves' = 0 <=> NoLeave'
  BY NoneLeft DEF Leaves, NoLeave
<1> QED
  BY <1>1, <1>2 DEF Quiet, Calm

LEMMA QuietBefore == Shape /\ Linked /\ [Next]_vars /\ Quiet' => Quiet
BY SteadyStep, QuietIsCalm DEF Steady, Shape, Calm

-----------------------------------------------------------------------------
(* Steps of the channel.  One that does not touch the queue may end the    *)
(* calm; one that loses a part of the queue shows that the calm is over.   *)
ChannelView == <<Queue, out, old, said, Over, Quiet>>

LEMMA Loses ==
    ASSUME Quiet' = FALSE, UNCHANGED <<out, old, said, Over>>,
           NEW a \in Seq(Event), NEW b \in Seq(Event), NEW c \in Seq(Event),
           Queue = (a \o b) \o c, Queue' = a \o c
    PROVE  Channel!Lose
<1>1. Cut(Queue, Queue')
  BY CutOut, Zenon
<1> QED
  BY <1>1 DEF Channel!Lose, Cut, Queue, Hand, Over, Quiet

LEMMA Stays ==
    ASSUME Shape, Linked, [Next]_vars, UNCHANGED <<Queue, out, old, said, Over>>
    PROVE  Channel!Lose \/ UNCHANGED ChannelView
<1>1. Quiet \in BOOLEAN /\ Quiet' \in BOOLEAN /\ (Quiet' => Quiet)
  BY QuietBefore DEF Quiet
<1>2. CASE Quiet' = Quiet
  BY <1>2 DEF ChannelView
<1>3. CASE Quiet' = FALSE
  <2>1. <<>> \in Seq(Event) /\ Queue \in Seq(Event)
    BY QueueType
  <2>2. Queue = (Queue \o <<>>) \o <<>> /\ Queue' = Queue \o <<>>
    BY <2>1, ConcatEmptySeq
  <2> QED
    BY <1>3, <2>1, <2>2, Loses
<1> QED
  BY <1>1, <1>2, <1>3

LEMMA SayIsSend ==
    ASSUME Shape, Prompts, NEW t \in Turns, NEW kind \in {"chunk", "note"}, Say(t, kind)
    PROVE  Channel!Send(t, kind)
<1> DEFINE e == [of |-> t, n |-> Len(said[t]), kind |-> kind]
<1>1. /\ UNCHANGED <<run, entries, pub, out, old>> /\ run[t] # "over"
      /\ said' = [said EXCEPT ![t] = Append(said[t], kind)]
      /\ wire' = Append(wire, e) /\ e \in Event
  <2>1. e \in Event
    BY ChatAssumption DEF Say, Shape, Dispatches, Event, Kinds
  <2> QED
    BY <2>1, SayMoves
<1>2. Queue' = Append(Queue, e)
  <2> HIDE DEF e
  <2>1. entries \o Hand \in Seq(Event) /\ wire \in Seq(Event)
    BY QueueType, ConcatProperties
  <2>2. Queue' = (entries \o Hand) \o Append(wire, e)
    BY <1>1 DEF Queue, Hand
  <2> QED
    BY <1>1, <2>1, <2>2, AddLast DEF Queue
<1>3. UNCHANGED <<Over, Quiet>>
  BY <1>1 DEF Say, Over, Quiet, Leaves, bot, janitor
<1>4. t \notin Over
  BY <1>1 DEF Over
<1> QED
  BY <1>1, <1>2, <1>3, <1>4 DEF Channel!Send, Channel!Queued, Queue, Hand, Over, Quiet

LEMMA FinishIsEnd ==
    ASSUME Shape, NEW t \in Turns, Finish(t)
    PROVE  Channel!End(t)
<1>1. /\ UNCHANGED <<said, entries, pub, out, old>>
      /\ run[t] \in {"running", "aborting"} /\ run' = [run EXCEPT ![t] = "over"]
  BY FinishMoves
<1>2. UNCHANGED <<Quiet>>
  BY DEF Finish, Quiet, Leaves, bot, janitor
<1>3. t \notin Over /\ Over' = Over \cup {t}
  BY <1>1 DEF Over, Shape, Dispatches
<1>4. CASE \E kind \in {"done", "blank", "error"} :
              wire' = Append(wire, [of |-> t, n |-> Len(said[t]), kind |-> kind])
  <2>1. PICK kind \in {"done", "blank", "error"} :
            wire' = Append(wire, [of |-> t, n |-> Len(said[t]), kind |-> kind])
    BY <1>4
  <2> DEFINE e == [of |-> t, n |-> Len(said[t]), kind |-> kind]
  <2>2. wire' = Append(wire, e)
    BY <2>1
  <2>3. e \in Event
    BY ChatAssumption DEF Shape, Dispatches, Event, Kinds
  <2>4. Queue' = Append(Queue, e)
    <3> HIDE DEF e
    <3>1. entries \o Hand \in Seq(Event) /\ wire \in Seq(Event)
      BY QueueType, ConcatProperties
    <3>2. Queue' = (entries \o Hand) \o Append(wire, e)
      BY <1>1, <2>2 DEF Queue, Hand
    <3> QED
      BY <2>3, <3>1, <3>2, AddLast DEF Queue
  <2> QED
    BY <1>1, <1>2, <1>3, <2>4 DEF Channel!End, Channel!Queued, Queue, Hand, Over, Quiet
<1>5. CASE UNCHANGED wire /\ (Quiet => ~Spoke(t))
  <2>1. Queue' = Queue
    BY <1>1, <1>5 DEF Queue, Hand
  <2>2. Quiet => \A i \in 1..Len(said[t]) : said[t][i] # "chunk"
    BY <1>5 DEF Spoke, ToSet, Shape, Dispatches
  <2> QED
    BY <1>1, <1>2, <1>3, <2>1, <2>2 DEF Channel!End, Queue, Hand, Over, Quiet
<1> QED
  BY <1>4, <1>5 DEF Finish, Emit, Quiet

(* XTRIM: a request's own dispatch has sent nothing when it empties the    *)
(* inbox, and its client was sent nothing.                                 *)
LEMMA PurgeIsDiscard ==
    ASSUME Shape, Linked, Prompts, Unopened, [Next]_vars, NEW t \in Turns, Purge(t)
    PROVE  Channel!Discard(t) \/ Channel!Lose \/ UNCHANGED ChannelView
<1>1. /\ pc[t] = "purge" /\ out[t] = <<>> /\ old[t] = {}
      /\ run[t] = "idle" /\ said[t] = <<>>
  BY DEF Purge, Unopened, Prompts, Sent
<1>2. UNCHANGED <<run, said, wire, pub, out>>
  BY PurgeMoves
<1>3. CASE UNCHANGED <<entries, old>>
  <2>1. UNCHANGED <<Queue, Over>>
    BY <1>2, <1>3 DEF Queue, Hand, Over
  <2> QED
    BY <1>2, <1>3, <2>1, Stays
<1>4. CASE entries' = <<>> /\ old' = [old EXCEPT ![t] = ToSet(entries)] /\ Works
  <2> DEFINE rest == Hand \o wire
  <2>1. entries \in Seq(Event) /\ rest \in Seq(Event) /\ Queue = entries \o rest
    BY QueueType, ConcatProperties, ConcatAssociative DEF Queue
  <2>2. Queue' = rest
    <3>1. Queue' = (<<>> \o Hand) \o wire
      BY <1>2, <1>4 DEF Queue, Hand
    <3> QED
      BY <3>1, QueueType, ConcatEmptySeq
  <2> HIDE DEF rest
  <2>3. /\ Len(entries) \in 0..Len(Queue)
        /\ rest = SubSeq(Queue, Len(entries) + 1, Len(Queue))
        /\ ToSet(entries) = {Queue[j] : j \in 1..Len(entries)}
    <3> DEFINE q == entries \o rest
    <3>1. Len(entries) \in 0..Len(q)
      BY <2>1, FirstPart
    <3>2. rest = SubSeq(q, Len(entries) + 1, Len(q))
      BY <2>1, FirstPart
    <3>3. ToSet(entries) = {q[j] : j \in 1..Len(entries)}
      BY <2>1, FirstPart
    <3> QED
      BY <2>1, <3>1, <3>2, <3>3, Zenon
  <2>4. \E i \in 0..Len(Queue) :
            /\ old' = [old EXCEPT ![t] = {Queue[j] : j \in 1..i}]
            /\ Queue' = SubSeq(Queue, i + 1, Len(Queue))
    BY <1>4, <2>2, <2>3
  <2>5. UNCHANGED <<Over, Quiet>> /\ t \notin Over
    BY <1>1, <1>2, <1>4 DEF Purge, Works, Over, Quiet, Leaves, bot, janitor
  <2> QED
    BY <1>1, <1>2, <2>4, <2>5 DEF Channel!Discard, Queue, Hand, Over, Quiet
<1> QED
  BY <1>3, <1>4 DEF Purge, CtxWorks

(* XREADGROUP hands out the head of the queue.                             *)
LEMMA DeliverIsShow ==
    ASSUME Shape, Spoken, EndsOnce, NEW t \in Turns, Deliver(t)
    PROVE  Channel!Show(t)
<1> DEFINE rest == Hand \o wire
<1> DEFINE e == Head(entries)
<1> DEFINE text == [e EXCEPT !.kind = "chunk"]
<1>1. /\ entries' = Tail(entries) /\ entries # <<>>
      /\ UNCHANGED <<run, said, wire, pub, old>>
      /\ \/ /\ out' = [out EXCEPT ![t] = Append(out[t], e)]
            /\ e.kind = "done" => hasChunks[t]
         \/ /\ out' = [out EXCEPT ![t] = Append(Append(out[t], text), e)]
            /\ e.kind = "done"
  BY DeliverMoves
<1>2. rest \in Seq(Event) /\ Queue = entries \o rest
  BY QueueType, ConcatProperties, ConcatAssociative DEF Queue
<1>3. Queue # <<>> /\ Head(Queue) = e /\ Tail(Queue) = Tail(entries) \o rest
  <2> HIDE DEF rest
  <2> QED
    BY <1>1, <1>2, QueueType, TakeFirst, Zenon
<1>4. Queue' = Tail(Queue)
  <2>1. Queue' = (Tail(entries) \o Hand) \o wire
    BY <1>1 DEF Queue, Hand
  <2>2. Tail(entries) \in Seq(Event)
    BY <1>1, QueueType, HeadTailProperties
  <2>3. (Tail(entries) \o Hand) \o wire = Tail(entries) \o rest
    BY <2>2, QueueType, ConcatAssociative
  <2> QED
    BY <1>3, <2>1, <2>3
<1>5. UNCHANGED <<Over, Quiet>>
  BY <1>1 DEF Deliver, Over, Quiet, Leaves, bot, janitor
<1>6. \A i \in 1..Len(out[t]) : out[t][i].kind \notin {"done", "blank", "error"}
  BY DEF Deliver, EndsOnce, Ended, Unended, Final
<1>7. hasChunks[t] => \E i \in 1..Len(out[t]) : out[t][i].kind = "chunk"
  BY DEF Spoken
<1>8. ~Channel!Answered(out[t]) /\ (hasChunks[t] => Channel!HasText(out[t]))
  BY <1>6, <1>7 DEF Channel!Answered, Channel!HasText
<1> HIDE DEF rest, e
<1>9. \/ /\ Head(Queue).kind = "done" => Channel!HasText(out[t])
         /\ out' = [out EXCEPT ![t] = Append(out[t], Head(Queue))]
      \/ /\ Head(Queue).kind = "done"
         /\ out' = [out EXCEPT ![t] = Append(Append(out[t], [Head(Queue) EXCEPT !.kind = "chunk"]), Head(Queue))]
  BY <1>1, <1>3, <1>8
<1> QED
  BY <1>1, <1>3, <1>4, <1>5, <1>8, <1>9 DEF Channel!Show, Queue, Hand, Over, Quiet

(* A new group delivers nothing older, but there was nothing to deliver.   *)
LEMMA GroupStaysPut ==
    ASSUME Shape, Linked, Emptied, [Next]_vars, NEW t \in Turns, Group(t) \/ ReadNothing(t)
    PROVE  Channel!Lose \/ UNCHANGED ChannelView
<1>1. UNCHANGED <<run, said, wire, pub, entries, out, old>>
  BY GroupMoves DEF Emptied
<1>2. UNCHANGED <<Queue, Over>>
  BY <1>1 DEF Queue, Hand, Over
<1> QED
  BY <1>1, <1>2, Stays

(* sendToSession takes the event at the head of the WebSocket into its     *)
(* hand, or loses it: not in calm, when the inbox is there.                *)
LEMMA HandleKeepsOrLoses ==
    ASSUME Shape, Linked, Prompts, Counted, Grouped, [Next]_vars, HandleBotMessage
    PROVE  Channel!Lose \/ UNCHANGED ChannelView
<1> DEFINE e == Head(wire)
<1>1. /\ UNCHANGED <<run, said, entries, key, out, old, Over>>
      /\ wire # <<>> /\ wire' = Tail(wire) /\ pub = None
      /\ e \in ToSet(wire)
      /\ pub' = e \/ (pub' = None /\ (key = "absent" \/ faults' # 0))
  BY HandleMoves DEF Over
<1>2. /\ Tail(wire) \in Seq(Event) /\ <<e>> \in Seq(Event)
      /\ wire = <<e>> \o Tail(wire) /\ e # None
  <2>1. wire \in Seq(Event)
    BY QueueType
  <2>2. e \in Event
    BY <1>1, <2>1, HeadTailProperties
  <2>3. Tail(wire) \in Seq(Event) /\ <<e>> \in Seq(Event) /\ wire = <<e>> \o Tail(wire)
    BY <1>1, <2>1, FirstOut
  <2> QED
    BY <2>2, <2>3, ChatAssumption
<1> HIDE DEF e
<1>3. Queue = (entries \o <<>>) \o (<<e>> \o Tail(wire))
  BY <1>1, <1>2 DEF Queue, Hand
<1>4. Queue = (entries \o <<e>>) \o Tail(wire)
  <2>1. entries \o <<>> = entries /\ entries \in Seq(Event)
    BY QueueType, ConcatEmptySeq
  <2> QED
    BY <1>2, <1>3, <2>1, ConcatAssociative
<1>5. CASE pub' = e
  <2>1. Queue' = (entries \o <<e>>) \o Tail(wire)
    BY <1>1, <1>2, <1>5 DEF Queue, Hand
  <2> QED
    BY <1>1, <1>4, <2>1, Stays
<1>6. CASE pub' = None /\ (key = "absent" \/ faults' # 0)
  <2>1. Quiet' = FALSE
    <3> SUFFICES ASSUME Quiet' PROVE FALSE
      BY DEF Quiet
    <3>1. Calm /\ faults' = 0
      BY QuietBefore, QuietIsCalm DEF Quiet
    <3>2. e \in UnderWay
      BY <1>1 DEF UnderWay
    <3>3. key = "group"
      BY <3>1, <3>2, GroupedEvent
    <3> QED
      BY <1>6, <3>1, <3>3
  <2>2. Queue' = entries \o Tail(wire)
    <3>1. Queue' = (entries \o <<>>) \o Tail(wire)
      BY <1>1, <1>6 DEF Queue, Hand
    <3> QED
      BY <3>1, QueueType, ConcatEmptySeq
  <2> QED
    BY <1>1, <1>2, <1>4, <2>1, <2>2, QueueType, Loses
<1> QED
  BY <1>1, <1>5, <1>6

(* XADD moves the event from the hand to the end of the inbox, or loses    *)
(* it: not in calm, when the group is there.                               *)
LEMMA PublishKeepsOrLoses ==
    ASSUME Shape, Linked, Prompts, Counted, Grouped, [Next]_vars, Publish
    PROVE  Channel!Lose \/ UNCHANGED ChannelView
<1>1. /\ UNCHANGED <<run, said, wire, out, old, Over>>
      /\ pub # None /\ pub' = None
      /\ \/ entries' = Append(entries, pub)
         \/ UNCHANGED entries /\ (key # "group" \/ faults' # 0)
  BY PublishMoves DEF Over
<1>2. pub \in Event /\ <<pub>> \in Seq(Event)
  BY <1>1 DEF Shape, Places
<1>3. Queue = (entries \o <<pub>>) \o wire
  BY <1>1 DEF Queue, Hand
<1>4. Queue' = entries' \o wire
  <2>1. entries' \in Seq(Event)
    BY ShapeStep DEF Shape, Places
  <2>2. Queue' = (entries' \o <<>>) \o wire
    BY <1>1 DEF Queue, Hand
  <2> QED
    BY <2>1, <2>2, ConcatEmptySeq
<1>5. CASE entries' = Append(entries, pub)
  <2>1. entries' = entries \o <<pub>>
    BY <1>2, <1>5, QueueType, AppendIsConcat
  <2> QED
    BY <1>1, <1>3, <1>4, <2>1, Stays
<1>6. CASE UNCHANGED entries /\ (key # "group" \/ faults' # 0)
  <2>1. Quiet' = FALSE
    <3> SUFFICES ASSUME Quiet' PROVE FALSE
      BY DEF Quiet
    <3>1. Calm /\ faults' = 0
      BY QuietBefore, QuietIsCalm DEF Quiet
    <3>2. pub \in UnderWay
      BY <1>1 DEF UnderWay, Held
    <3>3. key = "group"
      BY <3>1, <3>2, GroupedEvent
    <3> QED
      BY <1>6, <3>1, <3>3
  <2> QED
    BY <1>1, <1>2, <1>3, <1>4, <1>6, <2>1, QueueType, Loses
<1> QED
  BY <1>1, <1>5, <1>6

(* A socket that breaks loses the end of the queue, a clean-up that        *)
(* deletes the inbox its beginning.                                        *)
LEMMA LeaveLoses ==
    ASSUME Shape, BotLeaves
    PROVE  Channel!Lose
<1>1. UNCHANGED <<run, said, entries, pub, out, old, Over>> /\ wire' = <<>>
  BY LeaveMoves DEF BotLeaves, plugin, Over
<1>2. Quiet' = FALSE
  BY DEF BotLeaves, Quiet
<1>3. entries \o Hand \in Seq(Event) /\ <<>> \in Seq(Event)
  BY QueueType, ConcatProperties
<1>4. Queue' = (entries \o Hand) \o <<>>
  BY <1>1 DEF Queue, Hand
<1>5. Queue = ((entries \o Hand) \o wire) \o <<>>
  BY QueueType, ConcatEmptySeq DEF Queue
<1> QED
  BY <1>1, <1>2, <1>3, <1>4, <1>5, QueueType, Loses

LEMMA CleanLoses ==
    ASSUME Shape, Linked, [Next]_vars, NEW k \in 1..MaxLeaves, CleanInbox(k)
    PROVE  Channel!Lose \/ UNCHANGED ChannelView
<1>1. UNCHANGED <<run, said, wire, pub, out, old, Over>> /\ (entries' = <<>> \/ UNCHANGED entries)
  BY CleanMoves DEF Over
<1>2. CASE UNCHANGED entries
  <2>1. Queue' = Queue
    BY <1>1, <1>2 DEF Queue, Hand
  <2> QED
    BY <1>1, <2>1, Stays
<1>3. CASE entries' = <<>>
  <2>1. Quiet' = FALSE
    <3>1. ~NoLeave
      BY DEF CleanInbox, NoLeave
    <3> QED
      BY <3>1, QuietBefore, QuietIsCalm DEF Calm, Quiet
  <2>2. Hand \o wire \in Seq(Event) /\ <<>> \in Seq(Event)
    BY QueueType, ConcatProperties
  <2>3. Queue = (<<>> \o entries) \o (Hand \o wire)
    BY QueueType, ConcatEmptySeq, ConcatAssociative DEF Queue
  <2>4. Queue' = <<>> \o (Hand \o wire)
    <3>1. Queue' = (<<>> \o Hand) \o wire
      BY <1>1, <1>3 DEF Queue, Hand
    <3> QED
      BY <2>2, <3>1, QueueType, ConcatEmptySeq
  <2> QED
    BY <1>1, <2>1, <2>2, <2>3, <2>4, QueueType, Loses
<1> QED
  BY <1>1, <1>2, <1>3

-----------------------------------------------------------------------------
(* The refinement.                                                         *)
LEMMA ChannelStart == Init => Channel!ChannelInit /\ EndsOnce
<1> SUFFICES ASSUME Init PROVE Channel!ChannelInit /\ EndsOnce
  OBVIOUS
<1>1. Queue = <<>> /\ Over = {} /\ Leaves = 0
  <2>1. Queue = (<<>> \o <<>>) \o <<>>
    BY DEF Init, Queue, Hand
  <2>2. Queue = <<>>
    BY <2>1, EmptyQueue, ConcatEmptySeq
  <2>3. Leaves = 0
    BY CalmLeaves DEF Init, NoLeave
  <2> QED
    BY <2>2, <2>3 DEF Init, Over
<1>2. Channel!ChannelInit
  BY <1>1 DEF Init, Channel!ChannelInit, Queue, Hand, Over
<1>3. EndsOnce
  BY DEF Init, EndsOnce, Unended
<1> QED
  BY <1>2, <1>3

LEMMA ChannelStep ==
    ChatInv /\ EndsOnce /\ [Next]_vars => [Channel!ChannelNext]_(Channel!channelVars)
<1> SUFFICES ASSUME ChatInv, EndsOnce, [Next]_vars
             PROVE  Channel!ChannelNext \/ UNCHANGED ChannelView
  BY DEF Channel!channelVars, ChannelView, Queue, Hand, Over, Quiet
<1> USE DEF ChatInv
<1>1. ASSUME NEW t \in Turns, Mover(t) PROVE Channel!ChannelNext \/ UNCHANGED ChannelView
  <2>1. CASE Purge(t)
    BY <2>1, PurgeIsDiscard DEF Channel!ChannelNext
  <2>2. CASE Group(t) \/ ReadNothing(t)
    BY <2>2, GroupStaysPut DEF Channel!ChannelNext
  <2>3. CASE Deliver(t)
    BY <2>3, DeliverIsShow DEF Channel!ChannelNext
  <2>4. CASE Finish(t)
    BY <2>4, FinishIsEnd DEF Channel!ChannelNext
  <2>5. ASSUME NEW kind \in {"chunk", "note"}, Say(t, kind) PROVE Channel!ChannelNext
    BY <2>5, SayIsSend DEF Channel!ChannelNext
  <2> QED
    BY <1>1, <2>1, <2>2, <2>3, <2>4, <2>5 DEF Mover
<1>2. ASSUME NEW m \in mail, Forward(m) PROVE Channel!Lose \/ UNCHANGED ChannelView
  <2>1. UNCHANGED <<said, entries, wire, pub, out, old>>
    BY <1>2, ForwardMoves
  <2>2. \A t \in Turns : run'[t] = "over" <=> run[t] = "over"
    BY <1>2 DEF Forward, Prompts, Shape, Dispatches, Handlers, Message
  <2>3. UNCHANGED <<Queue, Over>>
    BY <2>1, <2>2 DEF Queue, Hand, Over
  <2> QED
    BY <2>1, <2>3, Stays
<1>3. CASE HandleBotMessage \/ Publish
  BY <1>3, HandleKeepsOrLoses, PublishKeepsOrLoses DEF Channel!ChannelNext
<1>4. CASE BotLeaves
  BY <1>4, LeaveLoses DEF Channel!ChannelNext
<1>5. ASSUME NEW k \in 1..MaxLeaves, CleanInbox(k) PROVE Channel!Lose \/ UNCHANGED ChannelView
  BY <1>5, CleanLoses
<1>6. CASE UNCHANGED events
  <2>1. UNCHANGED <<Queue, out, old, said, Over>>
    BY <1>6 DEF events, Queue, Hand, Over
  <2> QED
    BY <2>1, Stays DEF Channel!ChannelNext
<1> QED
  BY <1>1, <1>2, <1>3, <1>4, <1>5, <1>6, Movers DEF Channel!ChannelNext

(* InboxIsChannel: the inbox, the sockets and the steps of sendToSession   *)
(* between them are one queue of events.  Handlers that share the inbox,   *)
(* retries, clean-ups and returning bots neither duplicate nor reorder     *)
(* what is in it, and lose of it only when the calm is over.               *)
THEOREM InboxImplementsChannel == Spec => InboxIsChannel
<1>1. Init => Channel!ChannelInit /\ EndsOnce
  BY ChannelStart
<1>2. ChatInv /\ EndsOnce /\ [Next]_vars => EndsOnce'
  BY EndsOnceStep DEF ChatInv
<1>3. ChatInv /\ EndsOnce /\ [Next]_vars => [Channel!ChannelNext]_(Channel!channelVars)
  BY ChannelStep
<1> QED
  BY <1>1, <1>2, <1>3, ChatAlways, PTL DEF Spec, InboxIsChannel, Channel!ChannelSpec

=============================================================================
