------------------------------- MODULE TokenStore -------------------------------
(***************************************************************************)
(* One token and its chat sessions: the rows in MySQL, the two caches of   *)
(* them in Redis (token_auth:<token> and bridge:sessions:<token>), the     *)
(* requests that read and fill the caches (middleware/token_auth.go,       *)
(* service/session_store.go, the session handlers of router/sse.go), and   *)
(* the administration that changes the rows and deletes the cached copies  *)
(* (router/admin.go, service/token_manager.go).                            *)
(*                                                                         *)
(* One SQL statement or one Redis command is one step: the three commands  *)
(* of repopulateCache are a pipeline, which is not a transaction.  What    *)
(* the deletion of a token does to its bot is in BotRegistry.              *)
(***************************************************************************)
EXTENDS Naturals

CONSTANTS
    Requests,    \* concurrent requests that carry the token, one at a time each
    Creators,    \* those that may create sessions
    MaxSessions, \* bound: sessions that are created
    MaxFaults    \* bound: statements and commands that fail

ASSUME TokenAssumption ==
    Creators \subseteq Requests /\ MaxSessions \in Nat /\ MaxFaults \in Nat

Ids == 1 .. MaxSessions

VARIABLES
    row,        \* the token's row
    auth,       \* token_auth:<token> is "1"
    rows,       \* its chat_sessions, named in the order of their creation
    next,       \* the next session's name
    list,       \* bridge:sessions:<token>: how often each session is in it
    timed,      \* that list has an expiry
    pc, mine, snap, \* per request: next step, session created, rows it read
    shown,      \* its reply lists the session it created
    del,        \* adminDeleteToken: the next step, "gone" when it is over
    cln,        \* CleanupOldSessions has deleted rows and not yet the list
    faults,
    late,       \* history: what a request was about to use or fill again as
                \* the deletion passed over it
    beaten,     \* history: at its DEL another request held older rows
    broken      \* history: a pipeline failed before its EXPIRE

store == <<row, auth, rows, next, list, timed>>
request == <<pc, mine, snap, shown>>
admin == <<del, cln>>
hist == <<late, beaten, broken>>
vars == <<store, request, admin, faults, hist>>

Empty == [i \in Ids |-> 0]
Listed == {i \in Ids : list[i] > 0}

Init ==
    /\ row = "none" /\ auth = FALSE /\ rows = {} /\ next = 1
    /\ list = Empty /\ timed = FALSE
    /\ pc = [r \in Requests |-> "idle"] /\ mine = [r \in Requests |-> 0]
    /\ snap = [r \in Requests |-> {}] /\ shown = [r \in Requests |-> FALSE]
    /\ del = "idle" /\ cln = FALSE
    /\ faults = 0 /\ late = {} /\ beaten = {} /\ broken = FALSE

Goto(r, s) == pc' = [pc EXCEPT ![r] = s]
(* Only the reply of createSession is looked at.                           *)
Return(r) == Goto(r, IF mine[r] = 0 THEN "idle" ELSE "reply")
At(S) == {r \in Requests : pc[r] \in S} # {}
Fault == faults < MaxFaults /\ faults' = faults + 1

(* The DELs of the two caches; nobody acts on their errors.                *)
DelAuth == \/ auth' = FALSE /\ UNCHANGED faults
           \/ auth /\ Fault /\ UNCHANGED auth
DelList == \/ list' = Empty /\ timed' = FALSE /\ UNCHANGED faults
           \/ list # Empty /\ Fault /\ UNCHANGED <<list, timed>>

-----------------------------------------------------------------------------
(* The token: created, expiring, changed, swept when expired.              *)
Generate ==
    /\ row = "none"
    /\ row' = "live"
    /\ UNCHANGED <<auth, rows, next, list, timed, request, admin, faults, hist>>

Expire ==
    /\ row = "live"
    /\ row' = "expired"
    /\ UNCHANGED <<auth, rows, next, list, timed, request, admin, faults, hist>>

(* Update gives a row another expiry, and tells no cache.                  *)
Update ==
    /\ row = "expired"
    /\ row' = "live"
    /\ UNCHANGED <<auth, rows, next, list, timed, request, admin, faults, hist>>

CleanupExpired ==
    /\ row = "expired"
    /\ row' = "deleted"
    /\ UNCHANGED <<auth, rows, next, list, timed, request, admin, faults, hist>>

AuthExpires ==
    /\ auth
    /\ auth' = FALSE
    /\ UNCHANGED <<row, rows, next, list, timed, request, admin, faults, hist>>

ListExpires ==
    /\ list # Empty /\ timed
    /\ list' = Empty /\ timed' = FALSE
    /\ UNCHANGED <<row, auth, rows, next, request, admin, faults, hist>>

-----------------------------------------------------------------------------
(* What a request that is let in goes on to: listSessions, createSession,  *)
(* or a chat request in a new session or in one of the token's             *)
(* (GetSession).                                                           *)
Serve(r) ==
    \/ Goto(r, "range")
    \/ r \in Creators /\ next \in Ids /\ Goto(r, "insert")
    \/ rows # {} /\ Goto(r, "idle")

(* validateCached: the cache, then the database, then the cache is filled. *)
Ask(r) ==
    /\ pc[r] = "idle" /\ row # "none"
    /\ IF auth THEN Serve(r) ELSE Goto(r, "validate")
    /\ UNCHANGED <<store, mine, snap, shown, admin, faults, hist>>

(* MUTANT: without the comparison with expires_at.                         *)
ValidateUndated(r) ==
    /\ pc[r] = "validate"
    /\ Goto(r, IF row \in {"live", "expired"} THEN "fill" ELSE "idle")
    /\ UNCHANGED <<store, mine, snap, shown, admin, faults, hist>>

Validate(r) ==
    /\ pc[r] = "validate"
    /\ Goto(r, IF row = "live" THEN "fill" ELSE "idle")
    /\ UNCHANGED <<store, mine, snap, shown, admin, faults, hist>>

Fill(r) ==
    /\ pc[r] = "fill"
    /\ auth' = TRUE
    /\ Serve(r)
    /\ UNCHANGED <<row, rows, next, list, timed, mine, snap, shown, admin, faults, hist>>

(* CreateSession inserts a row ...                                         *)
Insert(r) ==
    /\ pc[r] = "insert"
    /\ \/ /\ next \in Ids
          /\ rows' = rows \cup {next} /\ next' = next + 1
          /\ mine' = [mine EXCEPT ![r] = next]
          /\ Goto(r, "del") /\ UNCHANGED faults
       \/ (next \in Ids => Fault) /\ (next \notin Ids => UNCHANGED faults)
          /\ Goto(r, "idle") /\ UNCHANGED <<rows, next, mine>>
    /\ UNCHANGED <<row, auth, list, timed, snap, shown, admin, hist>>

(* MUTANT: no invalidation.                                                *)
InvalidateNot(r) ==
    /\ pc[r] = "del"
    /\ Goto(r, "range")
    /\ UNCHANGED <<store, mine, snap, shown, admin, faults, hist>>

(* ... and deletes the list.  createSession goes on to read it, a chat     *)
(* request is done with it.                                                *)
Invalidate(r) ==
    /\ pc[r] = "del"
    /\ DelList
    /\ \/ Goto(r, "range") /\ UNCHANGED mine
       \/ Goto(r, "idle") /\ mine' = [mine EXCEPT ![r] = 0]
    /\ beaten' = IF \E q \in Requests : pc[q] \in {"clear", "push"} /\ mine[r] \notin snap[q]
                   THEN beaten \cup {r} ELSE beaten \ {r}
    /\ UNCHANGED <<row, auth, rows, next, snap, shown, admin, late, broken>>

(* GetSessions: the cached list when there is one ...                      *)
Range(r) ==
    /\ pc[r] = "range"
    /\ shown' = [shown EXCEPT ![r] = mine[r] \in Listed]
    /\ IF Listed # {} THEN Return(r) ELSE Goto(r, "query")
    /\ UNCHANGED <<store, mine, snap, admin, faults, hist>>

(* MUTANT: no early return when there are no rows.                         *)
QueryAlways(r) ==
    /\ pc[r] = "query"
    /\ shown' = [shown EXCEPT ![r] = mine[r] \in rows]
    /\ snap' = [snap EXCEPT ![r] = rows]
    /\ Goto(r, "clear")
    /\ UNCHANGED <<store, mine, admin, faults, hist>>

(* ... or the rows, which then become the list.                            *)
Query(r) ==
    /\ pc[r] = "query"
    /\ shown' = [shown EXCEPT ![r] = mine[r] \in rows]
    /\ snap' = [snap EXCEPT ![r] = rows]
    /\ IF rows = {} THEN Return(r) ELSE Goto(r, "clear")
    /\ UNCHANGED <<store, mine, admin, faults, hist>>

(* A failing SELECT ends the request with an error.                        *)
QueryFails(r) ==
    /\ pc[r] = "query" /\ Fault
    /\ Goto(r, "idle")
    /\ mine' = [mine EXCEPT ![r] = 0] /\ shown' = [shown EXCEPT ![r] = FALSE]
    /\ UNCHANGED <<store, snap, admin, hist>>

Clear(r) ==
    /\ pc[r] = "clear"
    /\ list' = Empty /\ timed' = FALSE
    /\ Goto(r, "push")
    /\ UNCHANGED <<row, auth, rows, next, mine, snap, shown, admin, faults, hist>>

(* MUTANT: pushed without an expiry.                                       *)
PushForever(r) ==
    /\ pc[r] = "push"
    /\ list' = [i \in Ids |-> IF i \in snap[r] THEN list[i] + 1 ELSE list[i]]
    /\ snap' = [snap EXCEPT ![r] = {}]
    /\ Return(r)
    /\ UNCHANGED <<row, auth, rows, next, timed, mine, shown, admin, faults, hist>>

Push(r) ==
    /\ pc[r] = "push"
    /\ list' = [i \in Ids |-> IF i \in snap[r] THEN list[i] + 1 ELSE list[i]]
    /\ snap' = [snap EXCEPT ![r] = {}]
    /\ Goto(r, "expire")
    /\ UNCHANGED <<row, auth, rows, next, timed, mine, shown, admin, faults, hist>>

SetExpiry(r) ==
    /\ pc[r] = "expire"
    /\ timed' = (list # Empty)
    /\ Return(r)
    /\ UNCHANGED <<row, auth, rows, next, list, mine, snap, shown, admin, faults, hist>>

(* The pipeline breaks before one of its commands; the reply is given.     *)
PipelineFails(r) ==
    /\ pc[r] \in {"clear", "push", "expire"} /\ Fault
    /\ broken' = (broken \/ pc[r] = "expire")
    /\ snap' = [snap EXCEPT ![r] = {}]
    /\ Return(r)
    /\ UNCHANGED <<store, mine, shown, admin, late, beaten>>

Reply(r) ==
    /\ pc[r] = "reply"
    /\ Goto(r, "idle")
    /\ mine' = [mine EXCEPT ![r] = 0] /\ shown' = [shown EXCEPT ![r] = FALSE]
    /\ snap' = [snap EXCEPT ![r] = {}]
    /\ beaten' = beaten \ {r}
    /\ UNCHANGED <<store, admin, faults, late, broken>>

-----------------------------------------------------------------------------
(* adminDeleteToken.  Remove: the row, then the auth cache.                *)
DeleteRow ==
    /\ del = "idle" /\ row \in {"live", "expired"}
    /\ row' = "deleted" /\ del' = "auth"
    /\ UNCHANGED <<auth, rows, next, list, timed, request, cln, faults, hist>>

DeleteAuth ==
    /\ del = "auth"
    /\ DelAuth /\ del' = "rows"
    /\ UNCHANGED <<row, rows, next, list, timed, request, cln, hist>>

(* RemoveSessions: the rows, then the list.  When the rows cannot be       *)
(* deleted the list and the bot are left alone.                            *)
DeleteRows ==
    /\ del = "rows"
    /\ \/ rows' = {} /\ del' = "list" /\ UNCHANGED faults
       \/ Fault /\ del' = "again" /\ UNCHANGED rows
    /\ late' = IF auth \/ At({"fill", "insert"}) THEN late \cup {"rows"} ELSE late
    /\ UNCHANGED <<row, auth, next, list, timed, request, cln, beaten, broken>>

DeleteList ==
    /\ del = "list"
    /\ DelList /\ del' = "again"
    /\ late' = IF At({"clear", "push"}) THEN late \cup {"list"} ELSE late
    /\ UNCHANGED <<row, auth, rows, next, request, cln, beaten, broken>>

(* MUTANT: without InvalidateTokenCache.                                   *)
DeleteDone ==
    /\ del = "again"
    /\ del' = "gone"
    /\ late' = IF At({"fill"}) THEN late \cup {"auth"} ELSE late
    /\ UNCHANGED <<store, request, cln, faults, beaten, broken>>

(* InvalidateTokenCache: the auth cache once more.                         *)
DeleteAgain ==
    /\ del = "again"
    /\ DelAuth /\ del' = "gone"
    /\ late' = IF At({"fill"}) THEN late \cup {"auth"} ELSE late
    /\ UNCHANGED <<row, rows, next, list, timed, request, cln, beaten, broken>>

(* CleanupOldSessions, the sessions made before some time; then the list.  *)
CleanupOldSessions(i) ==
    /\ ~cln /\ rows \cap 1 .. i # {}
    /\ rows' = rows \ 1 .. i /\ cln' = TRUE
    /\ UNCHANGED <<row, auth, next, list, timed, request, del, faults, hist>>

CleanupList ==
    /\ cln
    /\ DelList /\ cln' = FALSE
    /\ UNCHANGED <<row, auth, rows, next, request, del, hist>>

-----------------------------------------------------------------------------
Handle(r) ==
    \/ Validate(r) \/ Fill(r) \/ Insert(r) \/ Invalidate(r) \/ Range(r)
    \/ Query(r) \/ Clear(r) \/ Push(r) \/ SetExpiry(r) \/ Reply(r)

Administer ==
    \/ DeleteAuth \/ DeleteRows \/ DeleteList \/ DeleteAgain \/ CleanupList

Next ==
    \/ Generate \/ Expire \/ Update \/ CleanupExpired \/ AuthExpires \/ ListExpires
    \/ \E r \in Requests : Ask(r) \/ Handle(r) \/ QueryFails(r) \/ PipelineFails(r)
    \/ DeleteRow \/ Administer \/ \E i \in Ids : CleanupOldSessions(i)

(* Handlers run to their end and keys with an expiry expire; nobody needs  *)
(* to ask.                                                                 *)
Fairness ==
    /\ WF_vars(AuthExpires) /\ WF_vars(ListExpires) /\ WF_vars(Administer)
    /\ \A r \in Requests : WF_vars(Handle(r))

Spec == Init /\ [][Next]_vars /\ Fairness

-----------------------------------------------------------------------------
(* The shapes of the variables; repopulateCache is never given no rows.    *)
TypeOK ==
    /\ row \in {"none", "live", "expired", "deleted"} /\ next \in 1 .. MaxSessions + 1
    /\ auth \in BOOLEAN /\ timed \in BOOLEAN /\ cln \in BOOLEAN /\ broken \in BOOLEAN
    /\ rows \subseteq Ids /\ list \in [Ids -> Nat]
    /\ pc \in [Requests -> {"idle", "validate", "fill", "insert", "del", "range", "query",
                            "clear", "push", "expire", "reply"}]
    /\ \A r \in Requests : pc[r] \in {"clear", "push"} => snap[r] # {}
    /\ mine \in [Requests -> 0 .. MaxSessions]
    /\ snap \in [Requests -> SUBSET Ids] /\ shown \in [Requests -> BOOLEAN]
    /\ del \in {"idle", "auth", "rows", "list", "again", "gone"}
    /\ late \subseteq {"auth", "rows", "list"} /\ beaten \subseteq Requests
    /\ faults \in 0 .. MaxFaults

(* A token that is deleted or has expired for good is refused in the end,  *)
(* however its requests interleave with the deletion and whatever fails:   *)
(* a positive answer cached too late is not renewed (token_auth.go:94).    *)
TokenRetires ==
    <>[](row \in {"expired", "deleted"}) => <>[](\A r \in Requests : pc[r] \in {"idle", "validate"})

(* What adminDeleteToken leaves behind, if nothing fails, is due to a      *)
(* request that was on its way to use it or to fill it as the deletion     *)
(* passed, or to an answer cached again between the deletions of the row   *)
(* and of the sessions.  The second invalidation of the auth cache         *)
(* (admin.go:221) catches every answer that was filled in between.         *)
DeleteLeavesNothing ==
    del = "gone" /\ faults = 0 =>
        /\ auth => "auth" \in late
        /\ rows # {} => "rows" \in late
        /\ list # Empty => late \cap {"rows", "list"} # {}

(* createSession's reply shows the session it made ("sessions", the list   *)
(* after the update), unless another request still held rows read before   *)
(* it, a command failed, or the session was deleted meanwhile.             *)
CreatedIsListed ==
    \A r \in Requests :
        pc[r] = "reply" /\ mine[r] \in rows /\ faults = 0 => shown[r] \/ r \in beaten

(* A cached list that is not the rows' does not stay: no order of fills    *)
(* and invalidations leaves it without an expiry, except a pipeline that   *)
(* failed between RPUSH and EXPIRE (session_store.go:190-200).             *)
StaleListEnds ==
    (list # Empty /\ Listed # rows) ~> (list = Empty \/ Listed = rows \/ broken)
================================================================================
