-------------------------- MODULE ReconcileRingProofs --------------------------
(***************************************************************************)
(* The slice and the index map of the reconcile ring stay inverse to each  *)
(* other, for any set of tokens and any batch size.  The invariant adds    *)
(* the shapes of the slice and of the map to PosIsInverse: without them    *)
(* the entry a swap-removal moves could lie outside the slice.             *)
(*                                                                         *)
(* Of the batches: the loop of nextReconcileBatch, a recursive function,   *)
(* is shown equal to a closed form by the least counterexample; after that *)
(* a round is a window of places before the cursor that grows with every   *)
(* batch.                                                                  *)
(***************************************************************************)
EXTENDS ReconcileRing, WellFoundedInduction, TLAPS

RingShape ==
    /\ len \in Nat
    /\ tokens \in [0 .. len - 1 -> Tokens]
    /\ DOMAIN pos \subseteq Tokens
    /\ pos = [t \in DOMAIN pos |-> pos[t]]

RingInv == RingShape /\ PosIsInverse

(* trackReconcileToken appends a token the map does not have, at the index *)
(* the map records for it.                                                 *)
LEMMA TrackStep == ASSUME NEW t \in Tokens, RingInv, Track(t) PROVE RingInv'
<1>1. /\ len' = len + 1
      /\ tokens' = [i \in 0 .. len |-> IF i = len THEN t ELSE tokens[i]]
      /\ pos' = [u \in DOMAIN pos \cup {t} |-> IF u = t THEN len ELSE pos[u]]
      /\ t \notin DOMAIN pos
  BY DEF Track
<1>2. RingShape'
  BY <1>1 DEF RingInv, RingShape
<1>3. PosIsInverse'
  <2>1. ASSUME NEW i \in 0 .. len' - 1
        PROVE  tokens'[i] \in DOMAIN pos' /\ pos'[tokens'[i]] = i
    BY <1>1, <2>1 DEF RingInv, RingShape, PosIsInverse
  <2>2. ASSUME NEW u \in DOMAIN pos'
        PROVE  pos'[u] \in 0 .. len' - 1 /\ tokens'[pos'[u]] = u
    BY <1>1, <2>2 DEF RingInv, RingShape, PosIsInverse
  <2>3. QED
    BY <2>1, <2>2 DEF PosIsInverse
<1>4. QED
  BY <1>2, <1>3 DEF RingInv

(* untrackReconcileToken moves the last token into the hole and moves its  *)
(* index with it; when the removed token is the last one, the index that   *)
(* was written for it is the one deleted.                                  *)
LEMMA UntrackStep == ASSUME NEW t \in Tokens, RingInv, Untrack(t) PROVE RingInv'
<1> DEFINE idx == pos[t]
<1> DEFINE last == tokens[len - 1]
<1>1. /\ len' = len - 1
      /\ tokens' = [i \in 0 .. len - 2 |-> IF i = idx THEN last ELSE tokens[i]]
      /\ pos' = [u \in DOMAIN pos \ {t} |-> IF u = last THEN idx ELSE pos[u]]
      /\ t \in DOMAIN pos
  BY DEF Untrack
<1>2. /\ idx \in 0 .. len - 1 /\ tokens[idx] = t
      /\ last \in DOMAIN pos /\ pos[last] = len - 1
      /\ len \in Nat \ {0}
  BY <1>1 DEF RingInv, RingShape, PosIsInverse
<1> HIDE DEF idx, last
<1>3. RingShape'
  BY <1>1, <1>2 DEF RingInv, RingShape
<1>4. PosIsInverse'
  <2>1. ASSUME NEW i \in 0 .. len' - 1
        PROVE  tokens'[i] \in DOMAIN pos' /\ pos'[tokens'[i]] = i
    <3>1. CASE i = idx
      BY <1>1, <1>2, <2>1, <3>1 DEF RingInv, RingShape, PosIsInverse, idx
    <3>2. CASE i # idx
      BY <1>1, <1>2, <2>1, <3>2 DEF RingInv, RingShape, PosIsInverse, idx
    <3>3. QED
      BY <3>1, <3>2
  <2>2. ASSUME NEW u \in DOMAIN pos'
        PROVE  pos'[u] \in 0 .. len' - 1 /\ tokens'[pos'[u]] = u
    <3>1. CASE u = last
      BY <1>1, <1>2, <2>2, <3>1 DEF RingInv, RingShape, PosIsInverse, idx
    <3>2. CASE u # last
      BY <1>1, <1>2, <2>2, <3>2 DEF RingInv, RingShape, PosIsInverse, idx, last
    <3>3. QED
      BY <3>1, <3>2
  <2>3. QED
    BY <2>1, <2>2 DEF PosIsInverse
<1>5. QED
  BY <1>3, <1>4 DEF RingInv

(* The reconcile ring is consistent after every trackReconcileToken,       *)
(* untrackReconcileToken and nextReconcileBatch.                           *)
THEOREM RingConsistent == Spec => []PosIsInverse
<1>1. Init => RingInv
  BY DEF Init, RingInv, RingShape, PosIsInverse
<1>2. RingInv /\ [Next]_vars => RingInv'
  <2> SUFFICES ASSUME RingInv, [Next]_vars PROVE RingInv'
    OBVIOUS
  <2>1. ASSUME NEW t \in Tokens, Track(t) \/ Untrack(t) PROVE RingInv'
    BY <2>1, TrackStep, UntrackStep
  <2>2. CASE NextBatch \/ UNCHANGED vars
    BY <2>2 DEF NextBatch, vars, ring, RingInv, RingShape, PosIsInverse
  <2>3. QED
    BY <2>1, <2>2 DEF Next
<1>3. RingInv => PosIsInverse
  BY DEF RingInv
<1>4. QED
  BY <1>1, <1>2, <1>3, PTL DEF Spec

-----------------------------------------------------------------------------
(* The indices the last v visits were made at: the v places before the     *)
(* cursor, round the ring.                                                 *)
Window(v) ==
    {i \in 0 .. len - 1 : IF i < cursor THEN cursor - i <= v ELSE cursor + len - i <= v}

Visited == IF calls * BatchSize >= len THEN len ELSE calls * BatchSize

Placed == cursor \in 0 .. len
Walked == calls \in Nat /\ seen = {tokens[i] : i \in Window(Visited)}

RoundInv == RingInv /\ Placed /\ Walked /\ BatchHasNoRepeats

(* Induction by the least counterexample.                                  *)
LEMMA LeastNumber ==
    ASSUME NEW T \in SUBSET Nat, T # {}
    PROVE  \E x \in T : \A y \in T : x <= y
<1> DEFINE R == OpToRel(<, Nat)
<1>1. \A x, y \in Nat : <<x, y>> \in R <=> x < y
  BY DEF OpToRel
<1>2. IsWellFoundedOn(R, Nat)
  BY NatLessThanWellFounded
<1> HIDE DEF R
<1>3. T \subseteq Nat
  OBVIOUS
<1>4. PICK x \in T : \A y \in T : ~ (<<y, x>> \in R)
  BY <1>2, <1>3, WFMin
<1>5. ASSUME NEW y \in T PROVE x <= y
  <2>1. x \in Nat /\ y \in Nat /\ ~ (y < x)
    BY <1>1, <1>3, <1>4
  <2> QED
    BY <2>1
<1> QED
  BY <1>5

(* Where the loop of nextReconcileBatch is after i iterations.             *)
Place(i) ==
    LET first == IF cursor >= len THEN 0 ELSE cursor
    IN  IF i = 0 THEN cursor ELSE IF first + i <= len THEN first + i ELSE first + i - len

LEMMA CursorAfterIsPlace ==
    ASSUME len \in Nat \ {0}, Placed, NEW n \in 0 .. len
    PROVE  CursorAfter(n) = [i \in 0 .. n |-> Place(i)]
<1> DEFINE after == CursorAfter(n)
<1> DEFINE walk == [i \in 0 .. n |-> Place(i)]
<1> DEFINE Following(f, i) ==
               IF i = 0 THEN cursor ELSE (IF f[i - 1] >= len THEN 0 ELSE f[i - 1]) + 1
<1>1. walk = [i \in 0 .. n |-> Following(walk, i)]
  <2>1. ASSUME NEW i \in 0 .. n PROVE Place(i) = Following(walk, i)
    BY DEF Place, Placed
  <2> QED
    BY <2>1
<1>2. after = [i \in 0 .. n |-> Following(after, i)]
  <2> HIDE DEF walk
  <2> QED
    BY <1>1 DEF CursorAfter
<1> HIDE DEF after
<1> DEFINE Wrong == {i \in 0 .. n : after[i] # walk[i]}
<1>3. Wrong = {}
  <2> SUFFICES ASSUME Wrong # {} PROVE FALSE
    OBVIOUS
  <2>0. Wrong \in SUBSET Nat
    OBVIOUS
  <2> HIDE DEF Wrong
  <2>1. PICK i \in Wrong : \A j \in Wrong : i <= j
    BY <2>0, LeastNumber
  <2> USE DEF Wrong
  <2>2. i # 0 /\ i - 1 \in 0 .. n /\ i - 1 \notin Wrong
    BY <1>2, <2>1 DEF Place
  <2>3. after[i - 1] = walk[i - 1]
    BY <2>2
  <2>4. after[i] = Following(after, i)
    BY <1>2, <2>1
  <2>5. walk[i] = Following(walk, i)
    BY <1>1, <2>1
  <2> HIDE DEF walk
  <2> QED
    BY <2>1, <2>2, <2>3, <2>4, <2>5
<1> QED
  BY <1>2, <1>3 DEF after

-----------------------------------------------------------------------------
LEMMA RoundInit == Init => RoundInv
<1> SUFFICES ASSUME Init PROVE RoundInv
  OBVIOUS
<1>1. RingInv /\ Placed /\ BatchHasNoRepeats
  BY DEF Init, RingInv, RingShape, PosIsInverse, Placed, BatchHasNoRepeats
<1>2. Walked
  BY BatchAssumption DEF Init, Walked, Window, Visited
<1> QED
  BY <1>1, <1>2 DEF RoundInv

(* A change of the ring starts a round.                                    *)
LEMMA ForgetStep ==
    ASSUME RingShape', Forget, Placed'
    PROVE  Walked' /\ BatchHasNoRepeats'
<1>1. BatchHasNoRepeats'
  BY DEF Forget, BatchHasNoRepeats
<1>2. Visited' = 0
  BY BatchAssumption DEF Forget, Visited, RingShape
<1>3. Window(0)' = {}
  BY DEF Window, Placed, RingShape
<1> QED
  BY <1>1, <1>2, <1>3 DEF Walked, Forget

(* nextReconcileBatch visits the places that follow those of the batches   *)
(* before it.                                                              *)
LEMMA NextBatchStep == ASSUME RoundInv, NextBatch PROVE RoundInv'
<1> DEFINE limit == IF BatchSize > len THEN len ELSE BatchSize
<1> DEFINE visits == {Place(i) - 1 : i \in 1 .. limit}
<1>1. /\ len \in Nat \ {0} /\ BatchSize \in Nat \ {0} /\ limit \in 1 .. len
      /\ cursor \in 0 .. len /\ calls \in Nat
  BY BatchAssumption DEF NextBatch, RoundInv, RingInv, RingShape, Placed, Walked
<1>2. /\ cursor' = Place(limit)
      /\ batch' = [i \in 1 .. limit |-> Place(i) - 1]
      /\ calls' = IF calls * BatchSize >= len THEN calls ELSE calls + 1
      /\ seen' = seen \cup {tokens[j] : j \in visits}
      /\ UNCHANGED <<len, tokens, pos>>
  <2>1. CursorAfter(limit) = [i \in 0 .. limit |-> Place(i)]
    BY <1>1, CursorAfterIsPlace DEF Placed
  <2>2. \A i \in 1 .. limit : CursorAfter(limit)[i] = Place(i)
    BY <1>1, <2>1
  <2>3. limit \in 1 .. limit
    BY <1>1
  <2> QED
    BY <2>2, <2>3 DEF NextBatch, ring
<1> HIDE DEF limit
<1>3. RingInv'
  BY <1>2 DEF RoundInv, RingInv, RingShape, PosIsInverse
<1>4. Placed'
  BY <1>1, <1>2 DEF Placed, Place
<1>5. BatchHasNoRepeats'
  BY <1>1, <1>2 DEF BatchHasNoRepeats, Place
<1>6. Walked'
  <2> DEFINE done == calls * BatchSize
  <2>1. done \in Nat /\ (calls + 1) * BatchSize = done + BatchSize
    BY <1>1
  <2>2. calls' \in Nat
    BY <1>1, <1>2
  <2>3. Visited' = IF done + BatchSize >= len THEN len ELSE done + BatchSize
    BY <1>1, <1>2, <2>1 DEF Visited
  <2> HIDE DEF done
  <2>4. Window(Visited)' = Window(Visited) \cup visits
    <3> DEFINE first == IF cursor >= len THEN 0 ELSE cursor
    <3> DEFINE turn(j) == IF j < first THEN j + 1 - first + len ELSE j + 1 - first
    <3>1. ASSUME NEW j \in 0 .. len - 1, turn(j) <= limit PROVE j \in visits
      <4>1. turn(j) \in 1 .. limit /\ Place(turn(j)) - 1 = j
        BY <1>1, <3>1 DEF Place
      <4> QED
        BY <4>1
    <3>2. ASSUME NEW i \in 1 .. limit
          PROVE  Place(i) - 1 \in 0 .. len - 1 /\ turn(Place(i) - 1) = i
      BY <1>1 DEF Place
    <3>3. visits = {j \in 0 .. len - 1 : turn(j) <= limit}
      BY <1>1, <3>1, <3>2
    <3> HIDE DEF visits
    <3>4. ASSUME NEW j \in 0 .. len - 1
          PROVE  j \in Window(Visited)' <=> j \in Window(Visited) \/ turn(j) <= limit
      BY <1>1, <1>2, <2>1, <2>3 DEF Window, Visited, Place, limit, done
    <3> QED
      BY <1>2, <3>3, <3>4 DEF Window
  <2> QED
    BY <1>2, <2>2, <2>4 DEF RoundInv, Walked
<1> QED
  BY <1>3, <1>4, <1>5, <1>6 DEF RoundInv

LEMMA RoundStep == RoundInv /\ [Next]_vars => RoundInv'
<1> SUFFICES ASSUME RoundInv, [Next]_vars PROVE RoundInv'
  OBVIOUS
<1>1. ASSUME NEW t \in Tokens, Track(t) PROVE RoundInv'
  <2>1. RingInv'
    BY <1>1, TrackStep DEF RoundInv
  <2>2. Placed'
    BY <1>1 DEF Track, RoundInv, RingInv, RingShape, Placed
  <2> QED
    BY <1>1, <2>1, <2>2, ForgetStep DEF RoundInv, RingInv, Track
<1>2. ASSUME NEW t \in Tokens, Untrack(t) PROVE RoundInv'
  <2>1. RingInv'
    BY <1>2, UntrackStep DEF RoundInv
  <2>2. Placed'
    BY <1>2, <2>1 DEF Untrack, CursorAfterRemoval, RoundInv, RingInv, RingShape,
       PosIsInverse, Placed
  <2> QED
    BY <1>2, <2>1, <2>2, ForgetStep DEF RoundInv, RingInv, Untrack
<1>3. CASE NextBatch
  BY <1>3, NextBatchStep
<1>4. CASE UNCHANGED vars
  BY <1>4 DEF vars, ring, RoundInv, RingInv, RingShape, PosIsInverse, Placed, Walked,
     Window, Visited, BatchHasNoRepeats
<1> QED
  BY <1>1, <1>2, <1>3, <1>4 DEF Next

LEMMA RoundHolds == Spec => []RoundInv
BY RoundInit, RoundStep, PTL DEF Spec

(* The cursor never leaves the slice by more than its end: what is read at *)
(* it is a token that is held, after any removals.                         *)
THEOREM RingTypeCorrect == Spec => []TypeOK
<1>1. RoundInv => TypeOK
  <2> SUFFICES ASSUME RoundInv PROVE TypeOK
    OBVIOUS
  <2>1. pos \in [DOMAIN pos -> 0 .. len - 1] /\ DOMAIN pos \in SUBSET Tokens
    BY DEF RoundInv, RingInv, RingShape, PosIsInverse
  <2> QED
    BY <2>1 DEF RoundInv, RingInv, RingShape, Placed, TypeOK
<1> QED
  BY <1>1, RoundHolds, PTL

(* nextReconcileBatch checks no token twice in a batch, for any batch size.*)
THEOREM BatchesDoNotRepeat == Spec => []BatchHasNoRepeats
<1>1. RoundInv => BatchHasNoRepeats
  BY DEF RoundInv
<1> QED
  BY <1>1, RoundHolds, PTL

(* While no bot comes or goes, as many batches as cover the ring's length  *)
(* visit every token, wherever the removals before left the cursor.        *)
THEOREM QuietRoundsCover == Spec => []QuietRoundCoversAll
<1>1. RoundInv => QuietRoundCoversAll
  <2> SUFFICES ASSUME RoundInv, calls * BatchSize >= len PROVE seen = DOMAIN pos
    BY DEF QuietRoundCoversAll
  <2>1. Window(len) = 0 .. len - 1
    BY DEF Window, RoundInv, Placed, RingInv, RingShape
  <2>2. seen = {tokens[i] : i \in 0 .. len - 1}
    BY <2>1 DEF RoundInv, Walked, Visited
  <2>3. ASSUME NEW t \in DOMAIN pos PROVE pos[t] \in 0 .. len - 1 /\ tokens[pos[t]] = t
    BY DEF RoundInv, RingInv, PosIsInverse
  <2>4. \A i \in 0 .. len - 1 : tokens[i] \in DOMAIN pos
    BY DEF RoundInv, RingInv, PosIsInverse
  <2> QED
    BY <2>2, <2>3, <2>4
<1> QED
  BY <1>1, RoundHolds, PTL
=============================================================================
