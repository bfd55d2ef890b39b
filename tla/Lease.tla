--------------------------------- MODULE Lease ---------------------------------
(***************************************************************************)
(* What a lock kept in a Redis key with an expiry promises, whatever its   *)
(* clients do: it is granted only while it is free, it is extended only    *)
(* for its holder, it is freed only by its holder or by the passing of     *)
(* Term units of time, and a client that acts as if it held the lock was   *)
(* granted it.  It does not promise that only one client acts so: a lease  *)
(* that ran out leaves its holder a believer.                              *)
(***************************************************************************)
EXTENDS Naturals

CONSTANTS Clients, None, Term

VARIABLES
    holder,     \* the client named in the key, None when there is no key
    left,       \* time until the key expires
    believers   \* clients that act as holders

leaseVars == <<holder, left, believers>>

LeaseInit == holder = None /\ left = 0 /\ believers = {}

(* The reply may be lost: then the client does not know it has the lock.   *)
Grant(c) ==
    /\ holder = None /\ c \notin believers
    /\ holder' = c /\ left' = Term
    /\ believers' \in {believers, believers \cup {c}}

Extend(c) ==
    /\ holder = c /\ c \in believers
    /\ left' = Term
    /\ UNCHANGED <<holder, believers>>

(* Giving the lock up frees it only for the one who has it.                *)
GiveUp(c) ==
    /\ c \in believers
    /\ believers' = believers \ {c}
    /\ holder' = IF holder = c THEN None ELSE holder
    /\ left' = IF holder = c THEN 0 ELSE left

(* A crash, or a release that failed: the key stays.                       *)
Forget(c) ==
    /\ c \in believers
    /\ believers' = believers \ {c}
    /\ UNCHANGED <<holder, left>>

Pass ==
    /\ left > 0
    /\ left' = left - 1
    /\ holder' = IF left = 1 THEN None ELSE holder
    /\ UNCHANGED believers

LeaseNext ==
    \/ \E c \in Clients : Grant(c) \/ Extend(c) \/ GiveUp(c) \/ Forget(c)
    \/ Pass

LeaseSpec == LeaseInit /\ [][LeaseNext]_leaseVars
================================================================================
