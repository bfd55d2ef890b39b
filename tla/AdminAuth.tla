------------------------------- MODULE AdminAuth -------------------------------
(***************************************************************************)
(* The administrator's password and sessions (service/admin_auth.go,       *)
(* router/admin_auth.go): two rows of admin_config, password_salt and      *)
(* password_hash, one Redis key per session, and an index set of the       *)
(* sessions, from which a new password deletes them.                       *)
(*                                                                         *)
(* A request is made once and creates at most one session, which has its   *)
(* name.  One SQL statement or Redis command is one step, a transaction is *)
(* its first read and its commit.  A hash is the scheme and the password   *)
(* it was made of.                                                         *)
(***************************************************************************)
EXTENDS Naturals

CONSTANTS
    Requests,
    Passwords,
    Old,        \* a session from before the deployment that knows bcrypt
    None,
    MaxFaults   \* bound: statements and commands that fail

ASSUME AdminAssumption ==
    /\ Old \notin Requests /\ MaxFaults \in Nat
    /\ None \notin [scheme : {"legacy", "bcrypt"}, pw : Passwords]

VARIABLES
    salt,       \* none, legacy (a random salt) or bcrypt
    hash,       \* None or [scheme, pw]
    keys,       \* the sessions whose key exists
    idx,        \* admin:sessions, the index
    pc, kind, pw, \* per request: next step, setup or login, its password
    got,        \* what it read last: salt, or whether the rows exist
    targets,    \* the sessions its SMEMBERS returned
    faults,
    torn,       \* history: logins whose two reads a commit came between
    right,      \* history: refused logins that had the stored password
    slipped,    \* history: sessions put into an index about to be deleted
    before,     \* history: sessions there were at its commit
    rivals      \* history: setups past their check at the first commit

config == <<salt, hash>>
sessions == <<keys, idx>>
local == <<got, targets>>
hist == <<torn, right, slipped, before, rivals>>
vars == <<config, sessions, pc, kind, pw, local, faults, hist>>

Init ==
    /\ \/ salt = "none" /\ hash = None /\ keys = {} /\ idx = {}
       \/ /\ salt = "legacy" /\ \E p \in Passwords : hash = [scheme |-> "legacy", pw |-> p]
          /\ keys = {Old} /\ idx = {Old}
    /\ pc = [r \in Requests |-> "idle"] /\ kind = [r \in Requests |-> None]
    /\ pw = [r \in Requests |-> None] /\ got = [r \in Requests |-> None]
    /\ targets = [r \in Requests |-> {}] /\ before = [r \in Requests |-> {}]
    /\ faults = 0 /\ torn = {} /\ right = {} /\ slipped = {} /\ rivals = {}

Goto(r, s) == pc' = [pc EXCEPT ![r] = s]
At(S) == {r \in Requests : pc[r] \in S}
Fault == faults < MaxFaults /\ faults' = faults + 1

(* A request for a session with key r passes AdminAuth.                    *)
ValidateSession(r) == r \in keys
IsPasswordSet == hash # None

-----------------------------------------------------------------------------
(* MUTANT: adminAuthSetup without its check.                               *)
SetupAnyway(r) ==
    /\ pc[r] = "idle"
    /\ \E p \in Passwords : pw' = [pw EXCEPT ![r] = p]
    /\ kind' = [kind EXCEPT ![r] = "setup"]
    /\ Goto(r, "begin")
    /\ UNCHANGED <<config, sessions, local, faults, hist>>

(* adminAuthSetup: refused when a password is set.                         *)
Setup(r) ==
    /\ pc[r] = "idle"
    /\ \E p \in Passwords : pw' = [pw EXCEPT ![r] = p]
    /\ kind' = [kind EXCEPT ![r] = "setup"]
    /\ Goto(r, IF IsPasswordSet THEN "exists" ELSE "begin")
    /\ UNCHANGED <<config, sessions, local, faults, hist>>

(* adminAuthLogin, VerifyPassword: password_salt is read ...               *)
ReadSalt(r) ==
    /\ pc[r] = "idle"
    /\ \E p \in Passwords : pw' = [pw EXCEPT ![r] = p]
    /\ kind' = [kind EXCEPT ![r] = "login"]
    /\ got' = [got EXCEPT ![r] = salt]
    /\ Goto(r, IF salt = "none" THEN "refused" ELSE "hash")
    /\ UNCHANGED <<config, sessions, targets, faults, hist>>

(* ... then password_hash, and compared as the salt says.  A hash of the   *)
(* wrong scheme is an error for bcrypt and a mismatch for SHA-256; a match *)
(* with SHA-256 is upgraded first.                                         *)
Compare(r) ==
    /\ pc[r] = "hash"
    /\ LET match == hash = [scheme |-> got[r], pw |-> pw[r]]
       IN  Goto(r, CASE match /\ got[r] = "bcrypt" -> "create"
                     [] match /\ got[r] = "legacy" -> "begin"
                     [] ~match /\ got[r] = "bcrypt" /\ hash.scheme = "legacy" -> "error"
                     [] OTHER -> "refused")
    /\ right' = IF hash.pw = pw[r] THEN right \cup {r} ELSE right
    /\ UNCHANGED <<config, sessions, kind, pw, local, faults, torn, slipped, before, rivals>>

-----------------------------------------------------------------------------
(* SetPassword: each upsert looks for its row, ...                         *)
Begin(r) ==
    /\ pc[r] = "begin"
    /\ got' = [got EXCEPT ![r] = IF IsPasswordSet THEN "rows" ELSE "norows"]
    /\ Goto(r, "commit")
    /\ UNCHANGED <<config, sessions, kind, pw, targets, faults, hist>>

(* MUTANT: the salt without the hash.                                      *)
CommitSalt(r) ==
    /\ pc[r] = "commit" /\ ~(got[r] = "norows" /\ IsPasswordSet)
    /\ salt' = "bcrypt" /\ hash' = IF IsPasswordSet THEN hash ELSE [scheme |-> "bcrypt", pw |-> pw[r]]
    /\ torn' = torn \cup At({"hash"})
    /\ before' = [before EXCEPT ![r] = keys \ At({"index"})]
    /\ rivals' = IF IsPasswordSet THEN rivals ELSE At({"begin", "commit"}) \ {r}
    /\ Goto(r, "members")
    /\ UNCHANGED <<sessions, kind, pw, local, faults, right, slipped>>

(* ... and updates it, or inserts it.                                      *)
Commit(r) ==
    /\ pc[r] = "commit" /\ ~(got[r] = "norows" /\ IsPasswordSet)
    /\ salt' = "bcrypt" /\ hash' = [scheme |-> "bcrypt", pw |-> pw[r]]
    /\ torn' = torn \cup At({"hash"})
    /\ before' = [before EXCEPT ![r] = keys \ At({"index"})]
    /\ rivals' = IF IsPasswordSet THEN rivals ELSE At({"begin", "commit"}) \ {r}
    /\ Goto(r, "members")
    /\ UNCHANGED <<sessions, kind, pw, local, faults, right, slipped>>

(* A transaction that fails: the insert of a row another one inserted, or  *)
(* any error.  An upgrade that failed lets the login go on.                *)
CommitFails(r) ==
    /\ pc[r] = "commit"
    /\ IF got[r] = "norows" /\ IsPasswordSet THEN UNCHANGED faults ELSE Fault
    /\ Goto(r, IF kind[r] = "setup" THEN "error" ELSE "create")
    /\ UNCHANGED <<config, sessions, kind, pw, local, hist>>

(* invalidateAllSessions: SMEMBERS, the keys' DELs, the index's DEL.       *)
ReadIndex(r) ==
    /\ pc[r] = "members"
    /\ targets' = [targets EXCEPT ![r] = idx]
    /\ Goto(r, IF idx = {} THEN "unindex" ELSE "wipe")
    /\ UNCHANGED <<config, sessions, kind, pw, got, faults, hist>>

ReadIndexFails(r) ==
    /\ pc[r] = "members" /\ Fault
    /\ Goto(r, "create")
    /\ UNCHANGED <<config, sessions, kind, pw, local, hist>>

(* MUTANT: the keys are not deleted.                                       *)
WipeNot(r) ==
    /\ pc[r] = "wipe"
    /\ Goto(r, "unindex")
    /\ UNCHANGED <<config, sessions, kind, pw, local, faults, hist>>

Wipe(r) ==
    /\ pc[r] = "wipe"
    /\ keys' = keys \ targets[r]
    /\ Goto(r, "unindex")
    /\ UNCHANGED <<config, idx, kind, pw, local, faults, hist>>

(* The pipeline breaks somewhere among the keys, or before the index.      *)
WipeFails(r) ==
    /\ pc[r] = "wipe" /\ Fault
    /\ \E S \in SUBSET targets[r] : keys' = keys \ S
    /\ Goto(r, "create")
    /\ UNCHANGED <<config, idx, kind, pw, local, hist>>

Unindex(r) ==
    /\ pc[r] = "unindex"
    /\ idx' = {}
    /\ Goto(r, "create")
    /\ UNCHANGED <<config, keys, kind, pw, local, faults, hist>>

-----------------------------------------------------------------------------
(* CreateSession: the key, ...                                             *)
Create(r) ==
    /\ pc[r] = "create"
    /\ keys' = keys \cup {r}
    /\ Goto(r, "index")
    /\ UNCHANGED <<config, idx, kind, pw, local, faults, hist>>

CreateFails(r) ==
    /\ pc[r] = "create" /\ Fault
    /\ Goto(r, "error")
    /\ UNCHANGED <<config, sessions, kind, pw, local, hist>>

(* ... then the index, whose error is dropped.  A session is slipped when  *)
(* another request has read the index and not yet deleted it.              *)
Index(r) ==
    /\ pc[r] = "index"
    /\ idx' = idx \cup {r}
    /\ slipped' = IF At({"wipe", "unindex"}) # {} THEN slipped \cup {r} ELSE slipped
    /\ Goto(r, "done")
    /\ UNCHANGED <<config, keys, kind, pw, local, faults, torn, right, before, rivals>>

IndexFails(r) ==
    /\ pc[r] = "index" /\ Fault
    /\ Goto(r, "done")
    /\ UNCHANGED <<config, sessions, kind, pw, local, hist>>

(* adminAuthLogout of the session r, two commands whose errors are dropped.*)
Logout(r) ==
    /\ pc[r] = "done"
    /\ keys' = keys \ {r}
    /\ Goto(r, "out")
    /\ UNCHANGED <<config, idx, kind, pw, local, faults, hist>>

(* MUTANT: the whole index instead of the one entry.                       *)
RemoveIndex(r) ==
    /\ pc[r] = "out"
    /\ idx' = {}
    /\ Goto(r, "end")
    /\ UNCHANGED <<config, keys, kind, pw, local, faults, hist>>

RemoveEntry(r) ==
    /\ pc[r] = "out"
    /\ idx' = idx \ {r}
    /\ Goto(r, "end")
    /\ UNCHANGED <<config, keys, kind, pw, local, faults, hist>>

(* A session's key expires, its entry in the index does not.               *)
SessionExpires(r) ==
    /\ r \in keys
    /\ keys' = keys \ {r}
    /\ UNCHANGED <<config, idx, pc, kind, pw, local, faults, hist>>

-----------------------------------------------------------------------------
Next ==
    \/ \E r \in Requests :
        \/ Setup(r) \/ ReadSalt(r) \/ Compare(r) \/ Begin(r) \/ Commit(r) \/ CommitFails(r)
        \/ ReadIndex(r) \/ ReadIndexFails(r) \/ Wipe(r) \/ WipeFails(r) \/ Unindex(r)
        \/ Create(r) \/ CreateFails(r) \/ Index(r) \/ IndexFails(r)
        \/ Logout(r) \/ RemoveEntry(r)
    \/ \E r \in Requests \cup {Old} : SessionExpires(r)

Spec == Init /\ [][Next]_vars

-----------------------------------------------------------------------------
(* The shapes of the variables; the two rows are of one scheme.            *)
TypeOK ==
    /\ salt \in {"none", "legacy", "bcrypt"}
    /\ hash = None \/ hash \in [scheme : {"legacy", "bcrypt"}, pw : Passwords]
    /\ IF IsPasswordSet THEN hash.scheme = salt ELSE salt = "none"
    /\ keys \subseteq Requests \cup {Old} /\ idx \subseteq Requests \cup {Old}
    /\ targets \in [Requests -> SUBSET (Requests \cup {Old})]
    /\ faults \in 0 .. MaxFaults

(* A login with the stored password is turned down only if a new password  *)
(* was committed between its reads of salt and hash: the two rows change   *)
(* together (the transaction of SetPassword).                              *)
DeniedOnlyIfWrong ==
    \A r \in right : pc[r] \in {"refused", "error"} /\ faults = 0 => r \in torn

(* A session that is logged in is in the index, from which the next new    *)
(* password ends it, unless it was put there while the index was being     *)
(* deleted (admin_auth.go:168-178) or a command failed.                    *)
IndexComplete ==
    \A r \in Requests :
        pc[r] = "done" /\ ValidateSession(r) /\ faults = 0 => r \in idx \/ r \in slipped

(* "Invalidate all existing admin sessions" (admin_auth.go:74): when       *)
(* SetPassword returns, the sessions there were at its commit are gone,    *)
(* up to those IndexComplete excepts.                                      *)
OldSessionsEnd ==
    \A r \in Requests :
        pc[r] \in {"create", "index", "done"} /\ faults = 0 =>
            \A s \in before[r] : ValidateSession(s) => s \in slipped

(* A password that is set is changed only by a setup that found none set   *)
(* before the first one committed (router/admin_auth.go:35-43): of the     *)
(* rivals, those whose transaction began later.  An upgrade keeps it.      *)
PasswordKept ==
    [][IsPasswordSet /\ hash'.pw # hash.pw =>
        \E r \in rivals : pc[r] = "commit" /\ hash'.pw = pw[r]]_hash
================================================================================
