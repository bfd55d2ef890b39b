--------------------------- MODULE TokenStoreProofs ---------------------------
(***************************************************************************)
(* For any number of requests and sessions: what the deletion of a token   *)
(* leaves behind is due to a request that was under way as it passed, and  *)
(* a session that was created is in the reply of its creation unless       *)
(* another request still held older rows.                                  *)
(***************************************************************************)
EXTENDS TokenStore, TLAPS

(* The parts of TypeOK.                                                    *)
Flags ==
    /\ auth \in BOOLEAN /\ timed \in BOOLEAN /\ cln \in BOOLEAN /\ broken \in BOOLEAN
    /\ shown \in [Requests -> BOOLEAN]

Stores ==
    /\ row \in {"none", "live", "expired", "deleted"} /\ next \in 1 .. MaxSessions + 1
    /\ rows \subseteq Ids /\ list \in [Ids -> Nat]

Handlers ==
    /\ pc \in [Requests -> {"idle", "validate", "fill", "insert", "del", "range", "query",
                            "clear", "push", "expire", "reply"}]
    /\ mine \in [Requests -> 0 .. MaxSessions]
    /\ snap \in [Requests -> SUBSET Ids]

Pending == \A r \in Requests : pc[r] \in {"clear", "push"} => snap[r] # {}

Records ==
    /\ del \in {"idle", "auth", "rows", "list", "again", "gone"}
    /\ late \subseteq {"auth", "rows", "list"} /\ beaten \subseteq Requests
    /\ faults \in 0 .. MaxFaults

Shape == Flags /\ Stores /\ Handlers /\ Pending /\ Records

(* A token that is being deleted, or was, never comes back.                *)
RowGone == del # "idle" => row = "deleted"

(* What may still bring the auth cache, the rows and the list back after   *)
(* the deletion went over them, if nothing failed.                         *)
AuthPassed ==
    del = "gone" /\ (auth \/ At({"fill"})) => "auth" \in late

RowsPassed ==
    del \in {"list", "again", "gone"} /\ (rows # {} \/ auth \/ At({"fill", "insert"}))
        => "rows" \in late

ListPassed ==
    del \in {"again", "gone"} /\ (list # Empty \/ At({"clear", "push"}))
        => late \cap {"rows", "list"} # {}

Passed == RowGone /\ (faults = 0 => AuthPassed /\ RowsPassed /\ ListPassed)

(* Names of sessions are not given twice, and a request that has not made  *)
(* a session names none.                                                   *)
Named ==
    \A r \in Requests :
        /\ mine[r] < next
        /\ pc[r] \in {"idle", "validate", "fill", "insert"} => mine[r] = 0

(* Until a request that created a session reads the list, the list has the *)
(* session or is empty, and so has whoever is about to fill it; after      *)
(* that, its reply shows it.                                               *)
Ahead(r) ==
    /\ list = Empty \/ mine[r] \in Listed
    /\ \A q \in Requests : pc[q] \in {"clear", "push"} => mine[r] \in snap[q]

Created ==
    faults = 0 =>
        \A r \in Requests : mine[r] \in rows /\ r \notin beaten =>
            /\ pc[r] = "range" => Ahead(r)
            /\ pc[r] \in {"clear", "push", "expire", "reply"} => shown[r]

StoreInv == Shape /\ Passed /\ Named /\ Created

-----------------------------------------------------------------------------
LEMMA InvInit == Init => StoreInv
<1> SUFFICES ASSUME Init PROVE StoreInv
  OBVIOUS
<1> USE TokenAssumption DEF Init, Ids, Empty
<1>1. Flags
  BY DEF Flags
<1>2. Stores
  BY DEF Stores
<1>3. Handlers /\ Pending /\ Records
  BY DEF Handlers, Pending, Records
<1>4. Passed
  BY DEF Passed, RowGone, AuthPassed, RowsPassed, ListPassed
<1>5. Named /\ Created
  BY DEF Named, Created
<1> QED
  BY <1>1, <1>2, <1>3, <1>4, <1>5 DEF StoreInv, Shape

LEMMA FlagsStep == Flags /\ [Next]_vars => Flags'
<1> SUFFICES ASSUME Flags, [Next]_vars PROVE Flags'
  OBVIOUS
<1> USE DEF Flags, Serve, DelAuth, DelList, Goto, Return, Fault, At, Empty,
      Listed, Ids, store, request, admin, hist
<1>1. ASSUME NEW r \in Requests, Ask(r) \/ Handle(r) \/ QueryFails(r) \/ PipelineFails(r)
      PROVE  Flags'
  <2>1. CASE Ask(r)
    BY <2>1 DEF Ask
  <2>2. CASE Validate(r)
    BY <2>2 DEF Validate
  <2>3. CASE Fill(r)
    BY <2>3 DEF Fill
  <2>4. CASE Insert(r)
    BY <2>4 DEF Insert
  <2>5. CASE Invalidate(r)
    BY <2>5 DEF Invalidate
  <2>6. CASE Range(r)
    BY <2>6 DEF Range
  <2>7. CASE Query(r)
    BY <2>7 DEF Query
  <2>8. CASE Clear(r)
    BY <2>8 DEF Clear
  <2>9. CASE Push(r)
    BY <2>9 DEF Push
  <2>10. CASE SetExpiry(r)
    BY <2>10 DEF SetExpiry
  <2>11. CASE Reply(r)
    BY <2>11 DEF Reply
  <2>12. CASE QueryFails(r)
    BY <2>12 DEF QueryFails
  <2>13. CASE PipelineFails(r)
    BY <2>13 DEF PipelineFails
  <2> QED
    BY <1>1, <2>1, <2>2, <2>3, <2>4, <2>5, <2>6, <2>7, <2>8, <2>9, <2>10,
      <2>11, <2>12, <2>13 DEF Handle
<1>2. CASE Generate \/ Expire \/ Update \/ CleanupExpired
  BY <1>2 DEF Generate, Expire, Update, CleanupExpired
<1>3. CASE AuthExpires
  BY <1>3 DEF AuthExpires
<1>4. CASE ListExpires
  BY <1>4 DEF ListExpires
<1>5. CASE DeleteRow
  BY <1>5 DEF DeleteRow
<1>6. CASE DeleteAuth
  BY <1>6 DEF DeleteAuth
<1>7. CASE DeleteRows
  BY <1>7 DEF DeleteRows
<1>8. CASE DeleteList
  BY <1>8 DEF DeleteList
<1>9. CASE DeleteAgain
  BY <1>9 DEF DeleteAgain
<1>10. CASE CleanupList
  BY <1>10 DEF CleanupList
<1>11. ASSUME NEW i \in Ids, CleanupOldSessions(i) PROVE Flags'
  BY <1>11 DEF CleanupOldSessions
<1>12. CASE UNCHANGED vars
  BY <1>12 DEF vars
<1> QED
  BY <1>1, <1>2, <1>3, <1>4, <1>5, <1>6, <1>7, <1>8, <1>9, <1>10, <1>11, <1>12 DEF Next, Administer

LEMMA StoresStep == Stores /\ Handlers /\ [Next]_vars => Stores'
<1> SUFFICES ASSUME Stores /\ Handlers, [Next]_vars PROVE Stores'
  OBVIOUS
<1> USE TokenAssumption
      DEF Stores, Handlers, Serve, DelAuth, DelList, Goto, Return, Fault, At,
      Empty, Listed, Ids, store, request, admin, hist
<1>1. ASSUME NEW r \in Requests, Ask(r) \/ Handle(r) \/ QueryFails(r) \/ PipelineFails(r)
      PROVE  Stores'
  <2>1. CASE Ask(r)
    BY <2>1 DEF Ask
  <2>2. CASE Validate(r)
    BY <2>2 DEF Validate
  <2>3. CASE Fill(r)
    BY <2>3 DEF Fill
  <2>4. CASE Insert(r)
    <3>1. CASE next \in Ids /\ Goto(r, "del") /\ rows' = rows \cup {next}
               /\ next' = next + 1 /\ mine' = [mine EXCEPT ![r] = next]
      BY <2>4, <3>1 DEF Insert
    <3>2. CASE Goto(r, "idle") /\ UNCHANGED <<rows, next, mine>>
      BY <2>4, <3>2 DEF Insert
    <3> QED
      BY <2>4, <3>1, <3>2 DEF Insert
  <2>5. CASE Invalidate(r)
    <3>1. CASE pc' = [pc EXCEPT ![r] = "range"] /\ UNCHANGED mine
      BY <2>5, <3>1 DEF Invalidate
    <3>2. CASE pc' = [pc EXCEPT ![r] = "idle"] /\ mine' = [mine EXCEPT ![r] = 0]
      BY <2>5, <3>2 DEF Invalidate
    <3> QED
      BY <2>5, <3>1, <3>2 DEF Invalidate
  <2>6. CASE Range(r)
    BY <2>6 DEF Range
  <2>7. CASE Query(r)
    BY <2>7 DEF Query
  <2>8. CASE Clear(r)
    BY <2>8 DEF Clear
  <2>9. CASE Push(r)
    BY <2>9 DEF Push
  <2>10. CASE SetExpiry(r)
    BY <2>10 DEF SetExpiry
  <2>11. CASE Reply(r)
    BY <2>11 DEF Reply
  <2>12. CASE QueryFails(r)
    BY <2>12 DEF QueryFails
  <2>13. CASE PipelineFails(r)
    BY <2>13 DEF PipelineFails
  <2> QED
    BY <1>1, <2>1, <2>2, <2>3, <2>4, <2>5, <2>6, <2>7, <2>8, <2>9, <2>10,
      <2>11, <2>12, <2>13 DEF Handle
<1>2. CASE Generate \/ Expire \/ Update \/ CleanupExpired
  BY <1>2 DEF Generate, Expire, Update, CleanupExpired
<1>3. CASE AuthExpires
  BY <1>3 DEF AuthExpires
<1>4. CASE ListExpires
  BY <1>4 DEF ListExpires
<1>5. CASE DeleteRow
  BY <1>5 DEF DeleteRow
<1>6. CASE DeleteAuth
  BY <1>6 DEF DeleteAuth
<1>7. CASE DeleteRows
  BY <1>7 DEF DeleteRows
<1>8. CASE DeleteList
  BY <1>8 DEF DeleteList
<1>9. CASE DeleteAgain
  BY <1>9 DEF DeleteAgain
<1>10. CASE CleanupList
  BY <1>10 DEF CleanupList
<1>11. ASSUME NEW i \in Ids, CleanupOldSessions(i) PROVE Stores'
  BY <1>11 DEF CleanupOldSessions
<1>12. CASE UNCHANGED vars
  BY <1>12 DEF vars
<1> QED
  BY <1>1, <1>2, <1>3, <1>4, <1>5, <1>6, <1>7, <1>8, <1>9, <1>10, <1>11, <1>12 DEF Next, Administer

LEMMA HandlersStep == Stores /\ Handlers /\ [Next]_vars => Handlers'
<1> SUFFICES ASSUME Stores /\ Handlers, [Next]_vars PROVE Handlers'
  OBVIOUS
<1> USE TokenAssumption
      DEF Stores, Handlers, Serve, DelAuth, DelList, Goto, Return, Fault, At,
      Empty, Listed, Ids, store, request, admin, hist
<1>1. ASSUME NEW r \in Requests, Ask(r) \/ Handle(r) \/ QueryFails(r) \/ PipelineFails(r)
      PROVE  Handlers'
  <2>1. CASE Ask(r)
    BY <2>1 DEF Ask
  <2>2. CASE Validate(r)
    BY <2>2 DEF Validate
  <2>3. CASE Fill(r)
    BY <2>3 DEF Fill
  <2>4. CASE Insert(r)
    <3>1. CASE next \in Ids /\ Goto(r, "del") /\ rows' = rows \cup {next}
               /\ next' = next + 1 /\ mine' = [mine EXCEPT ![r] = next]
      BY <2>4, <3>1 DEF Insert
    <3>2. CASE Goto(r, "idle") /\ UNCHANGED <<rows, next, mine>>
      BY <2>4, <3>2 DEF Insert
    <3> QED
      BY <2>4, <3>1, <3>2 DEF Insert
  <2>5. CASE Invalidate(r)
    <3>1. CASE pc' = [pc EXCEPT ![r] = "range"] /\ UNCHANGED mine
      BY <2>5, <3>1 DEF Invalidate
    <3>2. CASE pc' = [pc EXCEPT ![r] = "idle"] /\ mine' = [mine EXCEPT ![r] = 0]
      BY <2>5, <3>2 DEF Invalidate
    <3> QED
      BY <2>5, <3>1, <3>2 DEF Invalidate
  <2>6. CASE Range(r)
    BY <2>6 DEF Range
  <2>7. CASE Query(r)
    BY <2>7 DEF Query
  <2>8. CASE Clear(r)
    BY <2>8 DEF Clear
  <2>9. CASE Push(r)
    BY <2>9 DEF Push
  <2>10. CASE SetExpiry(r)
    BY <2>10 DEF SetExpiry
  <2>11. CASE Reply(r)
    BY <2>11 DEF Reply
  <2>12. CASE QueryFails(r)
    BY <2>12 DEF QueryFails
  <2>13. CASE PipelineFails(r)
    BY <2>13 DEF PipelineFails
  <2> QED
    BY <1>1, <2>1, <2>2, <2>3, <2>4, <2>5, <2>6, <2>7, <2>8, <2>9, <2>10,
      <2>11, <2>12, <2>13 DEF Handle
<1>2. CASE Generate \/ Expire \/ Update \/ CleanupExpired
  BY <1>2 DEF Generate, Expire, Update, CleanupExpired
<1>3. CASE AuthExpires
  BY <1>3 DEF AuthExpires
<1>4. CASE ListExpires
  BY <1>4 DEF ListExpires
<1>5. CASE DeleteRow
  BY <1>5 DEF DeleteRow
<1>6. CASE DeleteAuth
  BY <1>6 DEF DeleteAuth
<1>7. CASE DeleteRows
  BY <1>7 DEF DeleteRows
<1>8. CASE DeleteList
  BY <1>8 DEF DeleteList
<1>9. CASE DeleteAgain
  BY <1>9 DEF DeleteAgain
<1>10. CASE CleanupList
  BY <1>10 DEF CleanupList
<1>11. ASSUME NEW i \in Ids, CleanupOldSessions(i) PROVE Handlers'
  BY <1>11 DEF CleanupOldSessions
<1>12. CASE UNCHANGED vars
  BY <1>12 DEF vars
<1> QED
  BY <1>1, <1>2, <1>3, <1>4, <1>5, <1>6, <1>7, <1>8, <1>9, <1>10, <1>11, <1>12 DEF Next, Administer

LEMMA PendingStep == Handlers /\ Pending /\ [Next]_vars => Pending'
<1> SUFFICES ASSUME Handlers /\ Pending, [Next]_vars PROVE Pending'
  OBVIOUS
<1> USE DEF Handlers, Pending, Serve, DelAuth, DelList, Goto, Return, Fault,
      At, Empty, Listed, Ids, store, request, admin, hist
<1>1. ASSUME NEW r \in Requests, Ask(r) \/ Handle(r) \/ QueryFails(r) \/ PipelineFails(r)
      PROVE  Pending'
  <2>1. CASE Ask(r)
    BY <2>1 DEF Ask
  <2>2. CASE Validate(r)
    BY <2>2 DEF Validate
  <2>3. CASE Fill(r)
    BY <2>3 DEF Fill
  <2>4. CASE Insert(r)
    BY <2>4 DEF Insert
  <2>5. CASE Invalidate(r)
    BY <2>5 DEF Invalidate
  <2>6. CASE Range(r)
    BY <2>6 DEF Range
  <2>7. CASE Query(r)
    BY <2>7 DEF Query
  <2>8. CASE Clear(r)
    BY <2>8 DEF Clear
  <2>9. CASE Push(r)
    BY <2>9 DEF Push
  <2>10. CASE SetExpiry(r)
    BY <2>10 DEF SetExpiry
  <2>11. CASE Reply(r)
    BY <2>11 DEF Reply
  <2>12. CASE QueryFails(r)
    BY <2>12 DEF QueryFails
  <2>13. CASE PipelineFails(r)
    BY <2>13 DEF PipelineFails
  <2> QED
    BY <1>1, <2>1, <2>2, <2>3, <2>4, <2>5, <2>6, <2>7, <2>8, <2>9, <2>10,
      <2>11, <2>12, <2>13 DEF Handle
<1>2. CASE Generate \/ Expire \/ Update \/ CleanupExpired
  BY <1>2 DEF Generate, Expire, Update, CleanupExpired
<1>3. CASE AuthExpires
  BY <1>3 DEF AuthExpires
<1>4. CASE ListExpires
  BY <1>4 DEF ListExpires
<1>5. CASE DeleteRow
  BY <1>5 DEF DeleteRow
<1>6. CASE DeleteAuth
  BY <1>6 DEF DeleteAuth
<1>7. CASE DeleteRows
  BY <1>7 DEF DeleteRows
<1>8. CASE DeleteList
  BY <1>8 DEF DeleteList
<1>9. CASE DeleteAgain
  BY <1>9 DEF DeleteAgain
<1>10. CASE CleanupList
  BY <1>10 DEF CleanupList
<1>11. ASSUME NEW i \in Ids, CleanupOldSessions(i) PROVE Pending'
  BY <1>11 DEF CleanupOldSessions
<1>12. CASE UNCHANGED vars
  BY <1>12 DEF vars
<1> QED
  BY <1>1, <1>2, <1>3, <1>4, <1>5, <1>6, <1>7, <1>8, <1>9, <1>10, <1>11, <1>12 DEF Next, Administer

LEMMA RecordsStep == Records /\ [Next]_vars => Records'
<1> SUFFICES ASSUME Records, [Next]_vars PROVE Records'
  OBVIOUS
<1> USE TokenAssumption
      DEF Records, Serve, DelAuth, DelList, Goto, Return, Fault, At, Empty,
      Listed, Ids, store, request, admin, hist
<1>1. ASSUME NEW r \in Requests, Ask(r) \/ Handle(r) \/ QueryFails(r) \/ PipelineFails(r)
      PROVE  Records'
  <2>1. CASE Ask(r)
    BY <2>1 DEF Ask
  <2>2. CASE Validate(r)
    BY <2>2 DEF Validate
  <2>3. CASE Fill(r)
    BY <2>3 DEF Fill
  <2>4. CASE Insert(r)
    BY <2>4 DEF Insert
  <2>5. CASE Invalidate(r)
    BY <2>5 DEF Invalidate
  <2>6. CASE Range(r)
    BY <2>6 DEF Range
  <2>7. CASE Query(r)
    BY <2>7 DEF Query
  <2>8. CASE Clear(r)
    BY <2>8 DEF Clear
  <2>9. CASE Push(r)
    BY <2>9 DEF Push
  <2>10. CASE SetExpiry(r)
    BY <2>10 DEF SetExpiry
  <2>11. CASE Reply(r)
    BY <2>11 DEF Reply
  <2>12. CASE QueryFails(r)
    BY <2>12 DEF QueryFails
  <2>13. CASE PipelineFails(r)
    BY <2>13 DEF PipelineFails
  <2> QED
    BY <1>1, <2>1, <2>2, <2>3, <2>4, <2>5, <2>6, <2>7, <2>8, <2>9, <2>10,
      <2>11, <2>12, <2>13 DEF Handle
<1>2. CASE Generate \/ Expire \/ Update \/ CleanupExpired
  BY <1>2 DEF Generate, Expire, Update, CleanupExpired
<1>3. CASE AuthExpires
  BY <1>3 DEF AuthExpires
<1>4. CASE ListExpires
  BY <1>4 DEF ListExpires
<1>5. CASE DeleteRow
  BY <1>5 DEF DeleteRow
<1>6. CASE DeleteAuth
  BY <1>6 DEF DeleteAuth
<1>7. CASE DeleteRows
  BY <1>7 DEF DeleteRows
<1>8. CASE DeleteList
  BY <1>8 DEF DeleteList
<1>9. CASE DeleteAgain
  BY <1>9 DEF DeleteAgain
<1>10. CASE CleanupList
  BY <1>10 DEF CleanupList
<1>11. ASSUME NEW i \in Ids, CleanupOldSessions(i) PROVE Records'
  BY <1>11 DEF CleanupOldSessions
<1>12. CASE UNCHANGED vars
  BY <1>12 DEF vars
<1> QED
  BY <1>1, <1>2, <1>3, <1>4, <1>5, <1>6, <1>7, <1>8, <1>9, <1>10, <1>11, <1>12 DEF Next, Administer

LEMMA PassedStep == Shape /\ Passed /\ [Next]_vars => Passed'
<1> SUFFICES ASSUME Shape /\ Passed, [Next]_vars PROVE Passed'
  OBVIOUS
<1> USE TokenAssumption
      DEF Shape, Flags, Stores, Handlers, Pending, Records, Passed, RowGone,
      AuthPassed, RowsPassed, ListPassed, Serve, DelAuth, DelList, Goto,
      Return, Fault, At, store, request, admin, hist
<1>1. ASSUME NEW r \in Requests, Ask(r) \/ Handle(r) \/ QueryFails(r) \/ PipelineFails(r)
      PROVE  Passed'
  <2>1. CASE Ask(r)
    BY <2>1 DEF Ask
  <2>2. CASE Validate(r)
    BY <2>2 DEF Validate
  <2>3. CASE Fill(r)
    BY <2>3 DEF Fill
  <2>4. CASE Insert(r)
    BY <2>4 DEF Insert
  <2>5. CASE Invalidate(r)
    BY <2>5 DEF Invalidate
  <2>6. CASE Range(r)
    BY <2>6 DEF Range
  <2>7. CASE Query(r)
    BY <2>7 DEF Query
  <2>8. CASE Clear(r)
    BY <2>8 DEF Clear
  <2>9. CASE Push(r)
    BY <2>9 DEF Push
  <2>10. CASE SetExpiry(r)
    BY <2>10 DEF SetExpiry
  <2>11. CASE Reply(r)
    BY <2>11 DEF Reply
  <2>12. CASE QueryFails(r)
    BY <2>12 DEF QueryFails
  <2>13. CASE PipelineFails(r)
    BY <2>13 DEF PipelineFails
  <2> QED
    BY <1>1, <2>1, <2>2, <2>3, <2>4, <2>5, <2>6, <2>7, <2>8, <2>9, <2>10,
      <2>11, <2>12, <2>13 DEF Handle
<1>2. CASE Generate \/ Expire \/ Update \/ CleanupExpired
  BY <1>2 DEF Generate, Expire, Update, CleanupExpired
<1>3. CASE AuthExpires
  BY <1>3 DEF AuthExpires
<1>4. CASE ListExpires
  BY <1>4 DEF ListExpires
<1>5. CASE DeleteRow
  BY <1>5 DEF DeleteRow
<1>6. CASE DeleteAuth
  BY <1>6 DEF DeleteAuth
<1>7. CASE DeleteRows
  BY <1>7 DEF DeleteRows
<1>8. CASE DeleteList
  BY <1>8 DEF DeleteList
<1>9. CASE DeleteAgain
  BY <1>9 DEF DeleteAgain
<1>10. CASE CleanupList
  BY <1>10 DEF CleanupList
<1>11. ASSUME NEW i \in Ids, CleanupOldSessions(i) PROVE Passed'
  BY <1>11 DEF CleanupOldSessions
<1>12. CASE UNCHANGED vars
  BY <1>12 DEF vars
<1> QED
  BY <1>1, <1>2, <1>3, <1>4, <1>5, <1>6, <1>7, <1>8, <1>9, <1>10, <1>11, <1>12 DEF Next, Administer

LEMMA NamedStep == Stores /\ Handlers /\ Named /\ [Next]_vars => Named'
<1> SUFFICES ASSUME Stores /\ Handlers /\ Named, [Next]_vars PROVE Named'
  OBVIOUS
<1> USE TokenAssumption
      DEF Stores, Handlers, Named, Serve, DelAuth, DelList, Goto, Return, Fault,
      At, Empty, Listed, Ids, store, request, admin, hist
<1>1. ASSUME NEW r \in Requests, Ask(r) \/ Handle(r) \/ QueryFails(r) \/ PipelineFails(r)
      PROVE  Named'
  <2>1. CASE Ask(r)
    BY <2>1 DEF Ask
  <2>2. CASE Validate(r)
    BY <2>2 DEF Validate
  <2>3. CASE Fill(r)
    BY <2>3 DEF Fill
  <2>4. CASE Insert(r)
    BY <2>4 DEF Insert
  <2>5. CASE Invalidate(r)
    <3>1. UNCHANGED <<rows, next>> /\ pc[r] = "del"
      BY <2>5 DEF Invalidate
    <3>2. CASE Goto(r, "range") /\ UNCHANGED mine
      BY <3>1, <3>2
    <3>3. CASE Goto(r, "idle") /\ mine' = [mine EXCEPT ![r] = 0]
      <4>1. 0 < next
        BY <3>1
      <4> QED
        BY <3>1, <3>3, <4>1
    <3> QED
      BY <2>5, <3>2, <3>3 DEF Invalidate
  <2>6. CASE Range(r)
    BY <2>6 DEF Range
  <2>7. CASE Query(r)
    BY <2>7 DEF Query
  <2>8. CASE Clear(r)
    BY <2>8 DEF Clear
  <2>9. CASE Push(r)
    BY <2>9 DEF Push
  <2>10. CASE SetExpiry(r)
    BY <2>10 DEF SetExpiry
  <2>11. CASE Reply(r)
    BY <2>11 DEF Reply
  <2>12. CASE QueryFails(r)
    BY <2>12 DEF QueryFails
  <2>13. CASE PipelineFails(r)
    BY <2>13 DEF PipelineFails
  <2> QED
    BY <1>1, <2>1, <2>2, <2>3, <2>4, <2>5, <2>6, <2>7, <2>8, <2>9, <2>10,
      <2>11, <2>12, <2>13 DEF Handle
<1>2. CASE Generate \/ Expire \/ Update \/ CleanupExpired
  BY <1>2 DEF Generate, Expire, Update, CleanupExpired
<1>3. CASE AuthExpires
  BY <1>3 DEF AuthExpires
<1>4. CASE ListExpires
  BY <1>4 DEF ListExpires
<1>5. CASE DeleteRow
  BY <1>5 DEF DeleteRow
<1>6. CASE DeleteAuth
  BY <1>6 DEF DeleteAuth
<1>7. CASE DeleteRows
  BY <1>7 DEF DeleteRows
<1>8. CASE DeleteList
  BY <1>8 DEF DeleteList
<1>9. CASE DeleteAgain
  BY <1>9 DEF DeleteAgain
<1>10. CASE CleanupList
  BY <1>10 DEF CleanupList
<1>11. ASSUME NEW i \in Ids, CleanupOldSessions(i) PROVE Named'
  BY <1>11 DEF CleanupOldSessions
<1>12. CASE UNCHANGED vars
  BY <1>12 DEF vars
<1> QED
  BY <1>1, <1>2, <1>3, <1>4, <1>5, <1>6, <1>7, <1>8, <1>9, <1>10, <1>11, <1>12 DEF Next, Administer

LEMMA CreatedStep == Shape /\ Named /\ Created /\ [Next]_vars => Created'
<1> SUFFICES ASSUME Shape /\ Named /\ Created, [Next]_vars PROVE Created'
  OBVIOUS
<1> USE TokenAssumption
      DEF Shape, Flags, Stores, Handlers, Records, Named, Created, Ahead, Serve,
      DelAuth, DelList, Goto, Return, Fault, Empty, Listed, Ids, store,
      request, admin, hist
<1>1. ASSUME NEW r \in Requests, Ask(r) \/ Handle(r) \/ QueryFails(r) \/ PipelineFails(r)
      PROVE  Created'
  <2>1. CASE Ask(r)
    BY <2>1 DEF Ask
  <2>2. CASE Validate(r)
    BY <2>2 DEF Validate
  <2>3. CASE Fill(r)
    BY <2>3 DEF Fill
  <2>4. CASE Insert(r)
    <3>1. CASE next \in Ids /\ Goto(r, "del") /\ rows' = rows \cup {next}
               /\ next' = next + 1 /\ mine' = [mine EXCEPT ![r] = next]
      BY <2>4, <3>1 DEF Insert
    <3>2. CASE Goto(r, "idle") /\ UNCHANGED <<rows, next, mine>>
      BY <2>4, <3>2 DEF Insert
    <3> QED
      BY <2>4, <3>1, <3>2 DEF Insert
  <2>5. CASE Invalidate(r)
    BY <2>5 DEF Invalidate
  <2>6. CASE Range(r)
    <3> SUFFICES ASSUME faults' = 0, NEW q \in Requests,
                        (mine[q] \in rows)', (q \notin beaten)'
                 PROVE  /\ (pc[q] = "range")' => Ahead(q)'
                        /\ (pc[q] \in {"clear", "push", "expire", "reply"})' => shown'[q]
      OBVIOUS
    <3>1. faults = 0 /\ mine[q] \in rows /\ q \notin beaten
      BY <2>6 DEF Range
    <3>2. CASE q = r
      <4>1. mine[r] \in Listed \/ Listed = {}
        BY <2>6, <3>1, <3>2 DEF Range
      <4>2. pc' = [pc EXCEPT ![r] = IF Listed # {} THEN "reply" ELSE "query"]
        BY <2>6, <3>1, <3>2 DEF Range
      <4>3. shown'[r] = (mine[r] \in Listed)
        BY <2>6 DEF Range
      <4> QED
        BY <2>6, <3>1, <3>2, <4>1, <4>2, <4>3
    <3>3. CASE q # r
      BY <2>6, <3>1, <3>3 DEF Range
    <3> QED
      BY <3>2, <3>3
  <2>7. CASE Query(r)
    <3> SUFFICES ASSUME faults' = 0, NEW q \in Requests,
                        (mine[q] \in rows)', (q \notin beaten)'
                 PROVE  /\ (pc[q] = "range")' => Ahead(q)'
                        /\ (pc[q] \in {"clear", "push", "expire", "reply"})' => shown'[q]
      OBVIOUS
    <3>1. faults = 0 /\ mine[q] \in rows /\ q \notin beaten
      BY <2>7 DEF Query
    <3>2. CASE q = r
      BY <2>7, <3>1, <3>2 DEF Query
    <3>3. CASE q # r
      BY <2>7, <3>1, <3>3 DEF Query
    <3> QED
      BY <3>2, <3>3
  <2>8. CASE Clear(r)
    BY <2>8 DEF Clear
  <2>9. CASE Push(r)
    BY <2>9 DEF Push
  <2>10. CASE SetExpiry(r)
    BY <2>10 DEF SetExpiry
  <2>11. CASE Reply(r)
    BY <2>11 DEF Reply
  <2>12. CASE QueryFails(r)
    BY <2>12 DEF QueryFails
  <2>13. CASE PipelineFails(r)
    BY <2>13 DEF PipelineFails
  <2> QED
    BY <1>1, <2>1, <2>2, <2>3, <2>4, <2>5, <2>6, <2>7, <2>8, <2>9, <2>10,
      <2>11, <2>12, <2>13 DEF Handle
<1>2. CASE Generate \/ Expire \/ Update \/ CleanupExpired
  BY <1>2 DEF Generate, Expire, Update, CleanupExpired
<1>3. CASE AuthExpires
  BY <1>3 DEF AuthExpires
<1>4. CASE ListExpires
  BY <1>4 DEF ListExpires
<1>5. CASE DeleteRow
  BY <1>5 DEF DeleteRow
<1>6. CASE DeleteAuth
  BY <1>6 DEF DeleteAuth
<1>7. CASE DeleteRows
  BY <1>7 DEF DeleteRows
<1>8. CASE DeleteList
  BY <1>8 DEF DeleteList
<1>9. CASE DeleteAgain
  BY <1>9 DEF DeleteAgain
<1>10. CASE CleanupList
  BY <1>10 DEF CleanupList
<1>11. ASSUME NEW i \in Ids, CleanupOldSessions(i) PROVE Created'
  BY <1>11 DEF CleanupOldSessions
<1>12. CASE UNCHANGED vars
  BY <1>12 DEF vars
<1> QED
  BY <1>1, <1>2, <1>3, <1>4, <1>5, <1>6, <1>7, <1>8, <1>9, <1>10, <1>11, <1>12 DEF Next, Administer
-----------------------------------------------------------------------------
LEMMA InvStep == StoreInv /\ [Next]_vars => StoreInv'
BY FlagsStep, StoresStep, HandlersStep, PendingStep, RecordsStep, PassedStep, NamedStep,
   CreatedStep DEF StoreInv, Shape

LEMMA InvHolds == Spec => []StoreInv
BY InvInit, InvStep, PTL DEF Spec

(* repopulateCache is never given no rows (GetSessions returns early), and *)
(* nothing else leaves its type, for any number of requests.               *)
THEOREM TokenTypeCorrect == Spec => []TypeOK
<1>1. StoreInv => TypeOK
  BY DEF StoreInv, Shape, Flags, Stores, Handlers, Pending, Records, TypeOK
<1> QED
  BY <1>1, InvHolds, PTL

(* adminDeleteToken: with no failure, an auth cache, a row or a list left  *)
(* behind was used or filled by a request under way as it passed.          *)
THEOREM DeletionLeavesNothing == Spec => []DeleteLeavesNothing
<1>1. StoreInv => DeleteLeavesNothing
  BY DEF StoreInv, Passed, AuthPassed, RowsPassed, ListPassed, DeleteLeavesNothing
<1> QED
  BY <1>1, InvHolds, PTL

(* createSession's reply lists the new session, for any number of requests *)
(* that fill and invalidate the list at the same time.                     *)
THEOREM CreatedSessionIsListed == Spec => []CreatedIsListed
<1>1. StoreInv => CreatedIsListed
  BY DEF StoreInv, Created, CreatedIsListed
<1> QED
  BY <1>1, InvHolds, PTL
================================================================================
