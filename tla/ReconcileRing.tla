----------------------------- MODULE ReconcileRing -----------------------------
(***************************************************************************)
(* The ring of locally held tokens that doReconcile walks in batches       *)
(* (backend/internal/service/bridge_reconcile.go): reconcileTokens, a      *)
(* slice, reconcileTokenPos, the index of each token in it, and            *)
(* reconcileCursor, the next index to visit.  The three functions run      *)
(* under reconcileMu, so each is one step.                                 *)
(***************************************************************************)
EXTENDS Integers, FiniteSets

CONSTANTS
    Tokens,
    BatchSize     \* reconcileBatchSize

ASSUME BatchAssumption == BatchSize \in Nat

VARIABLES
    len,          \* len(reconcileTokens)
    tokens,       \* reconcileTokens, indexed from 0
    pos,          \* reconcileTokenPos
    cursor,       \* reconcileCursor
    batch,        \* the indices the last nextReconcileBatch visited, in order
    calls, seen   \* history: batches taken and tokens visited since the ring changed

ring == <<len, tokens, pos>>
vars == <<ring, cursor, batch, calls, seen>>

TypeOK ==
    /\ len \in Nat
    /\ tokens \in [0 .. len - 1 -> Tokens]
    /\ \E tracked \in SUBSET Tokens : pos \in [tracked -> 0 .. len - 1]
    /\ cursor \in 0 .. len

Init ==
    /\ len = 0
    /\ tokens = [i \in 0 .. -1 |-> 0]
    /\ pos = [t \in {} |-> 0]
    /\ cursor = 0
    /\ batch = <<>>
    /\ calls = 0 /\ seen = {}

(* A change of the ring starts the history afresh. *)
Forget == batch' = <<>> /\ calls' = 0 /\ seen' = {}

(* trackReconcileToken: append, unless the token is there. *)
Track(t) ==
    /\ t \notin DOMAIN pos
    /\ len' = len + 1
    /\ tokens' = [i \in 0 .. len |-> IF i = len THEN t ELSE tokens[i]]
    /\ pos' = [u \in DOMAIN pos \cup {t} |-> IF u = t THEN len ELSE pos[u]]
    /\ UNCHANGED cursor
    /\ Forget

(* MUTANT of CursorAfterRemoval: the cursor is not corrected. *)
CursorAfterRemovalUncorrected(idx, left) == cursor

(* The cursor after index idx was given up and left the ring `left` long:  *)
(* what is behind idx has moved one place closer, and past the end the     *)
(* cursor starts again.                                                    *)
CursorAfterRemoval(idx, left) ==
    LET moved == IF cursor > idx THEN cursor - 1 ELSE cursor IN
    IF moved >= left THEN 0 ELSE moved

(* MUTANT of Untrack: the index of the moved token is not updated. *)
UntrackKeepsIndex(t) ==
    LET idx  == pos[t]
        last == tokens[len - 1]
    IN
    /\ t \in DOMAIN pos
    /\ len' = len - 1
    /\ tokens' = [i \in 0 .. len - 2 |-> IF i = idx THEN last ELSE tokens[i]]
    /\ pos' = [u \in DOMAIN pos \ {t} |-> pos[u]]
    /\ cursor' = CursorAfterRemoval(idx, len - 1)
    /\ Forget

(* untrackReconcileToken: the last token takes the place of the removed    *)
(* one, whose index is deleted after the last token's is written.          *)
Untrack(t) ==
    LET idx  == pos[t]
        last == tokens[len - 1]
    IN
    /\ t \in DOMAIN pos
    /\ len' = len - 1
    /\ tokens' = [i \in 0 .. len - 2 |-> IF i = idx THEN last ELSE tokens[i]]
    /\ pos' = [u \in DOMAIN pos \ {t} |-> IF u = last THEN idx ELSE pos[u]]
    /\ cursor' = CursorAfterRemoval(idx, len - 1)
    /\ Forget

(* The cursor after i iterations of the loop of nextReconcileBatch; the    *)
(* i-th iteration visits the index before it.                              *)
CursorAfter(n) ==
    LET after[i \in 0 .. n] ==
            IF i = 0 THEN cursor
            ELSE (IF after[i - 1] >= len THEN 0 ELSE after[i - 1]) + 1
    IN after

(* MUTANT of NextBatch: the cursor is not stored, every batch starts at    *)
(* the same index.                                                         *)
NextBatchKeepsCursor ==
    LET limit == IF BatchSize > len THEN len ELSE BatchSize
        after == CursorAfter(limit)
    IN
    /\ BatchSize > 0 /\ len > 0
    /\ batch' = [i \in 1 .. limit |-> after[i] - 1]
    /\ calls' = IF calls * BatchSize >= len THEN calls ELSE calls + 1
    /\ seen' = seen \cup {tokens[after[i] - 1] : i \in 1 .. limit}
    /\ UNCHANGED <<ring, cursor>>

(* MUTANT of NextBatch: the batch is not limited to the length of the ring. *)
NextBatchUnlimited ==
    LET after == CursorAfter(BatchSize) IN
    /\ BatchSize > 0 /\ len > 0
    /\ cursor' = after[BatchSize]
    /\ batch' = [i \in 1 .. BatchSize |-> after[i] - 1]
    /\ calls' = IF calls * BatchSize >= len THEN calls ELSE calls + 1
    /\ seen' = seen \cup {tokens[after[i] - 1] : i \in 1 .. BatchSize}
    /\ UNCHANGED ring

(* nextReconcileBatch: at most BatchSize tokens, each once. *)
NextBatch ==
    LET limit == IF BatchSize > len THEN len ELSE BatchSize
        after == CursorAfter(limit)
    IN
    /\ BatchSize > 0 /\ len > 0
    /\ cursor' = after[limit]
    /\ batch' = [i \in 1 .. limit |-> after[i] - 1]
    /\ calls' = IF calls * BatchSize >= len THEN calls ELSE calls + 1
    /\ seen' = seen \cup {tokens[after[i] - 1] : i \in 1 .. limit}
    /\ UNCHANGED ring

Next ==
    \/ \E t \in Tokens : Track(t) \/ Untrack(t)
    \/ NextBatch

Spec == Init /\ [][Next]_vars

-----------------------------------------------------------------------------
(* PROPERTIES *)

(* The slice and the index map describe each other after any sequence of   *)
(* appends and swap-removals, the removal of the last token included: no   *)
(* token is listed twice, lost, or found at a wrong index.                 *)
PosIsInverse ==
    /\ \A i \in 0 .. len - 1 : tokens[i] \in DOMAIN pos /\ pos[tokens[i]] = i
    /\ \A t \in DOMAIN pos : pos[t] \in 0 .. len - 1 /\ tokens[pos[t]] = t

(* While no bot comes or goes, len/BatchSize batches (rounded up) visit    *)
(* every token, wherever the cursor was left by earlier removals: a stale  *)
(* bot is found within one round.                                          *)
QuietRoundCoversAll ==
    calls * BatchSize >= len => seen = DOMAIN pos

(* One batch checks no token twice. *)
BatchHasNoRepeats ==
    \A i, j \in DOMAIN batch : i # j => batch[i] # batch[j]
=============================================================================
