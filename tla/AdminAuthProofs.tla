---------------------------- MODULE AdminAuthProofs ----------------------------
(***************************************************************************)
(* For any number of concurrent setups, logins and logouts, and any        *)
(* passwords: a correct password is refused only by a torn read, sessions  *)
(* stay in the index that ends them, a new password ends the sessions      *)
(* there were, and a password that is set is changed only by a rival of    *)
(* the first setup.                                                        *)
(***************************************************************************)
EXTENDS AdminAuth, TLAPS

Sessions == Requests \cup {Old}

Steps == {"idle", "exists", "refused", "error", "hash", "begin", "commit", "members",
          "wipe", "unindex", "create", "index", "done", "out", "end"}

(* The type of every variable the proofs look at, the history included.    *)
Shape ==
    /\ TypeOK
    /\ pc \in [Requests -> Steps]
    /\ kind \in [Requests -> {"setup", "login", None}]
    /\ pw \in [Requests -> Passwords \cup {None}]
    /\ \A r \in Requests : pc[r] # "idle" => pw[r] \in Passwords
    /\ got \in [Requests -> {"none", "legacy", "bcrypt", "rows", "norows", None}]
    /\ before \in [Requests -> SUBSET Sessions]

(* A login between its reads still has the salt of the stored hash, unless *)
(* a commit came between; one that compared equal is never turned down     *)
(* again without a failure.                                                *)
ReadsMatch ==
    /\ \A r \in Requests :
        pc[r] = "hash" =>
            IsPasswordSet /\ kind[r] = "login" /\ (r \in torn \/ got[r] = salt)
    /\ \A r \in right : r \in Requests /\ pc[r] \notin {"idle", "hash"} /\ kind[r] = "login"
    /\ DeniedOnlyIfWrong

(* Either no password was set at the beginning, and every transaction that *)
(* is on its way when one is set is a rival's; or the old password was,    *)
(* and only upgrades of it are on their way.                               *)
OnTheWay == At({"begin", "commit"})

FreshOrigin ==
    /\ salt # "legacy"
    /\ \A r \in Requests : pc[r] = "hash" => got[r] = "bcrypt"
    /\ IsPasswordSet => OnTheWay \subseteq rivals

LegacyOrigin ==
    /\ IsPasswordSet
    /\ \A r \in OnTheWay : hash.pw = pw[r]

Origin == FreshOrigin \/ LegacyOrigin

(* The sessions that are in place: their key was made and put in the index.*)
Placed(s) == s = Old \/ pc[s] = "done"

(* Without failures: a session in place that has its key is in the index   *)
(* or slipped; a request about to delete the index has it among the keys   *)
(* it deletes first, or has deleted it.                                    *)
Indexed ==
    faults = 0 => \A s \in keys : Placed(s) => s \in idx \/ s \in slipped

Wiping ==
    faults = 0 =>
        \A r \in Requests : \A s \in keys :
            Placed(s) /\ pc[r] \in {"wipe", "unindex"} =>
                s \in slipped \/ (pc[r] = "wipe" /\ s \in targets[r])

(* A key is made after "create" and is gone after a logout.  What was      *)
(* there at a commit was in place then, and once the request that          *)
(* committed has deleted the index, only slipped sessions of it are left.  *)
Phases ==
    /\ \A s \in keys : s = Old \/ pc[s] \in {"index", "done"}
    /\ \A r \in Requests : \A s \in before[r] :
        s = Old \/ pc[s] \in {"done", "out", "end"}
    /\ \A r \in Requests :
        pc[r] \in {"idle", "exists", "hash", "begin", "commit"} => before[r] = {}

Ended ==
    faults = 0 =>
        \A r \in Requests :
            pc[r] \in {"create", "index", "done"} => before[r] \cap keys \subseteq slipped

AdminInv == Shape /\ ReadsMatch /\ Origin /\ Phases /\ Indexed /\ Wiping /\ Ended

-----------------------------------------------------------------------------
LEMMA InvInit == Init => AdminInv
<1> SUFFICES ASSUME Init PROVE AdminInv
  OBVIOUS
<1> USE AdminAssumption
<1>1. Shape
  BY DEF Init, Shape, TypeOK, IsPasswordSet, Steps, Sessions
<1>2. ReadsMatch /\ Phases /\ Indexed /\ Wiping /\ Ended
  BY DEF Init, ReadsMatch, DeniedOnlyIfWrong, Phases, Indexed, Wiping, Ended, Placed
<1>3. Origin
  BY DEF Init, Origin, FreshOrigin, LegacyOrigin, OnTheWay, At, IsPasswordSet
<1> QED
  BY <1>1, <1>2, <1>3 DEF AdminInv

LEMMA ShapeStep == Shape /\ [Next]_vars => Shape'
<1> SUFFICES ASSUME Shape, [Next]_vars PROVE Shape'
  OBVIOUS
<1> USE AdminAssumption DEF Shape, TypeOK, Steps, Sessions, IsPasswordSet, Goto, Fault,
      config, sessions, local, hist
<1>1. ASSUME NEW r \in Requests,
            Setup(r) \/ ReadSalt(r) \/ Compare(r) \/ Begin(r) \/ Commit(r)
             \/ CommitFails(r) \/ ReadIndex(r) \/ ReadIndexFails(r) \/ Wipe(r)
             \/ WipeFails(r) \/ Unindex(r) \/ Create(r) \/ CreateFails(r)
             \/ Index(r) \/ IndexFails(r) \/ Logout(r) \/ RemoveEntry(r)
      PROVE  Shape'
  <2>1. CASE Setup(r)
    BY <2>1 DEF Setup
  <2>2. CASE ReadSalt(r)
    BY <2>2 DEF ReadSalt
  <2>3. CASE Compare(r)
    BY <2>3 DEF Compare
  <2>4. CASE Begin(r)
    BY <2>4 DEF Begin
  <2>5. CASE Commit(r)
    BY <2>5 DEF Commit
  <2>6. CASE CommitFails(r)
    BY <2>6 DEF CommitFails
  <2>7. CASE ReadIndex(r)
    BY <2>7 DEF ReadIndex
  <2>8. CASE ReadIndexFails(r)
    BY <2>8 DEF ReadIndexFails
  <2>9. CASE Wipe(r)
    BY <2>9 DEF Wipe
  <2>10. CASE WipeFails(r)
    BY <2>10 DEF WipeFails
  <2>11. CASE Unindex(r)
    BY <2>11 DEF Unindex
  <2>12. CASE Create(r)
    BY <2>12 DEF Create
  <2>13. CASE CreateFails(r)
    BY <2>13 DEF CreateFails
  <2>14. CASE Index(r)
    BY <2>14 DEF Index
  <2>15. CASE IndexFails(r)
    BY <2>15 DEF IndexFails
  <2>16. CASE Logout(r)
    BY <2>16 DEF Logout
  <2>17. CASE RemoveEntry(r)
    BY <2>17 DEF RemoveEntry
  <2> QED
    BY <1>1, <2>1, <2>2, <2>3, <2>4, <2>5, <2>6, <2>7, <2>8, <2>9, <2>10,
      <2>11, <2>12, <2>13, <2>14, <2>15, <2>16, <2>17
<1>2. ASSUME NEW s \in Sessions, SessionExpires(s) PROVE Shape'
  BY <1>2 DEF SessionExpires
<1>3. CASE UNCHANGED vars
  BY <1>3 DEF vars, config, sessions, local, hist
<1> QED
  BY <1>1, <1>2, <1>3 DEF Next, Sessions
LEMMA ReadsStep == (Shape /\ ReadsMatch) /\ [Next]_vars => ReadsMatch'
<1> SUFFICES ASSUME (Shape /\ ReadsMatch), [Next]_vars PROVE ReadsMatch'
  OBVIOUS
<1> USE AdminAssumption DEF Shape, TypeOK, Steps, Sessions, IsPasswordSet, Goto, Fault, config, sessions,
      local, hist, ReadsMatch,
      DeniedOnlyIfWrong, At
<1>1. ASSUME NEW r \in Requests,
            Setup(r) \/ ReadSalt(r) \/ Compare(r) \/ Begin(r) \/ Commit(r)
             \/ CommitFails(r) \/ ReadIndex(r) \/ ReadIndexFails(r) \/ Wipe(r)
             \/ WipeFails(r) \/ Unindex(r) \/ Create(r) \/ CreateFails(r)
             \/ Index(r) \/ IndexFails(r) \/ Logout(r) \/ RemoveEntry(r)
      PROVE  ReadsMatch'
  <2>1. CASE Setup(r)
    BY <2>1 DEF Setup
  <2>2. CASE ReadSalt(r)
    BY <2>2 DEF ReadSalt
  <2>3. CASE Compare(r)
    BY <2>3 DEF Compare
  <2>4. CASE Begin(r)
    BY <2>4 DEF Begin
  <2>5. CASE Commit(r)
    BY <2>5 DEF Commit
  <2>6. CASE CommitFails(r)
    BY <2>6 DEF CommitFails
  <2>7. CASE ReadIndex(r)
    BY <2>7 DEF ReadIndex
  <2>8. CASE ReadIndexFails(r)
    BY <2>8 DEF ReadIndexFails
  <2>9. CASE Wipe(r)
    BY <2>9 DEF Wipe
  <2>10. CASE WipeFails(r)
    BY <2>10 DEF WipeFails
  <2>11. CASE Unindex(r)
    BY <2>11 DEF Unindex
  <2>12. CASE Create(r)
    BY <2>12 DEF Create
  <2>13. CASE CreateFails(r)
    BY <2>13 DEF CreateFails
  <2>14. CASE Index(r)
    BY <2>14 DEF Index
  <2>15. CASE IndexFails(r)
    BY <2>15 DEF IndexFails
  <2>16. CASE Logout(r)
    BY <2>16 DEF Logout
  <2>17. CASE RemoveEntry(r)
    BY <2>17 DEF RemoveEntry
  <2> QED
    BY <1>1, <2>1, <2>2, <2>3, <2>4, <2>5, <2>6, <2>7, <2>8, <2>9, <2>10,
      <2>11, <2>12, <2>13, <2>14, <2>15, <2>16, <2>17
<1>2. ASSUME NEW s \in Sessions, SessionExpires(s) PROVE ReadsMatch'
  BY <1>2 DEF SessionExpires
<1>3. CASE UNCHANGED vars
  BY <1>3 DEF vars, config, sessions, local, hist
<1> QED
  BY <1>1, <1>2, <1>3 DEF Next, Sessions
LEMMA OriginStep == (Shape /\ ReadsMatch /\ Origin) /\ [Next]_vars => Origin'
<1> SUFFICES ASSUME (Shape /\ ReadsMatch /\ Origin), [Next]_vars PROVE Origin'
  OBVIOUS
<1> USE AdminAssumption DEF Shape, TypeOK, Steps, Sessions, IsPasswordSet, Goto, Fault, config, sessions,
      local, hist, ReadsMatch, Origin,
      FreshOrigin, LegacyOrigin, OnTheWay, At
<1>1. ASSUME NEW r \in Requests,
            Setup(r) \/ ReadSalt(r) \/ Compare(r) \/ Begin(r) \/ Commit(r)
             \/ CommitFails(r) \/ ReadIndex(r) \/ ReadIndexFails(r) \/ Wipe(r)
             \/ WipeFails(r) \/ Unindex(r) \/ Create(r) \/ CreateFails(r)
             \/ Index(r) \/ IndexFails(r) \/ Logout(r) \/ RemoveEntry(r)
      PROVE  Origin'
  <2>1. CASE Setup(r)
    BY <2>1 DEF Setup
  <2>2. CASE ReadSalt(r)
    BY <2>2 DEF ReadSalt
  <2>3. CASE Compare(r)
    BY <2>3 DEF Compare
  <2>4. CASE Begin(r)
    BY <2>4 DEF Begin
  <2>5. CASE Commit(r)
    BY <2>5 DEF Commit
  <2>6. CASE CommitFails(r)
    BY <2>6 DEF CommitFails
  <2>7. CASE ReadIndex(r)
    BY <2>7 DEF ReadIndex
  <2>8. CASE ReadIndexFails(r)
    BY <2>8 DEF ReadIndexFails
  <2>9. CASE Wipe(r)
    BY <2>9 DEF Wipe
  <2>10. CASE WipeFails(r)
    BY <2>10 DEF WipeFails
  <2>11. CASE Unindex(r)
    BY <2>11 DEF Unindex
  <2>12. CASE Create(r)
    BY <2>12 DEF Create
  <2>13. CASE CreateFails(r)
    BY <2>13 DEF CreateFails
  <2>14. CASE Index(r)
    BY <2>14 DEF Index
  <2>15. CASE IndexFails(r)
    BY <2>15 DEF IndexFails
  <2>16. CASE Logout(r)
    BY <2>16 DEF Logout
  <2>17. CASE RemoveEntry(r)
    BY <2>17 DEF RemoveEntry
  <2> QED
    BY <1>1, <2>1, <2>2, <2>3, <2>4, <2>5, <2>6, <2>7, <2>8, <2>9, <2>10,
      <2>11, <2>12, <2>13, <2>14, <2>15, <2>16, <2>17
<1>2. ASSUME NEW s \in Sessions, SessionExpires(s) PROVE Origin'
  BY <1>2 DEF SessionExpires
<1>3. CASE UNCHANGED vars
  BY <1>3 DEF vars, config, sessions, local, hist
<1> QED
  BY <1>1, <1>2, <1>3 DEF Next, Sessions
LEMMA PhasesStep == (Shape /\ Phases) /\ [Next]_vars => Phases'
<1> SUFFICES ASSUME (Shape /\ Phases), [Next]_vars PROVE Phases'
  OBVIOUS
<1> USE AdminAssumption DEF Shape, TypeOK, Steps, Sessions, IsPasswordSet, Goto, Fault, config, sessions,
      local, hist, Phases, At
<1>1. ASSUME NEW r \in Requests,
            Setup(r) \/ ReadSalt(r) \/ Compare(r) \/ Begin(r) \/ Commit(r)
             \/ CommitFails(r) \/ ReadIndex(r) \/ ReadIndexFails(r) \/ Wipe(r)
             \/ WipeFails(r) \/ Unindex(r) \/ Create(r) \/ CreateFails(r)
             \/ Index(r) \/ IndexFails(r) \/ Logout(r) \/ RemoveEntry(r)
      PROVE  Phases'
  <2>1. CASE Setup(r)
    BY <2>1 DEF Setup
  <2>2. CASE ReadSalt(r)
    BY <2>2 DEF ReadSalt
  <2>3. CASE Compare(r)
    BY <2>3 DEF Compare
  <2>4. CASE Begin(r)
    BY <2>4 DEF Begin
  <2>5. CASE Commit(r)
    BY <2>5 DEF Commit
  <2>6. CASE CommitFails(r)
    BY <2>6 DEF CommitFails
  <2>7. CASE ReadIndex(r)
    BY <2>7 DEF ReadIndex
  <2>8. CASE ReadIndexFails(r)
    BY <2>8 DEF ReadIndexFails
  <2>9. CASE Wipe(r)
    BY <2>9 DEF Wipe
  <2>10. CASE WipeFails(r)
    BY <2>10 DEF WipeFails
  <2>11. CASE Unindex(r)
    BY <2>11 DEF Unindex
  <2>12. CASE Create(r)
    BY <2>12 DEF Create
  <2>13. CASE CreateFails(r)
    BY <2>13 DEF CreateFails
  <2>14. CASE Index(r)
    BY <2>14 DEF Index
  <2>15. CASE IndexFails(r)
    BY <2>15 DEF IndexFails
  <2>16. CASE Logout(r)
    BY <2>16 DEF Logout
  <2>17. CASE RemoveEntry(r)
    BY <2>17 DEF RemoveEntry
  <2> QED
    BY <1>1, <2>1, <2>2, <2>3, <2>4, <2>5, <2>6, <2>7, <2>8, <2>9, <2>10,
      <2>11, <2>12, <2>13, <2>14, <2>15, <2>16, <2>17
<1>2. ASSUME NEW s \in Sessions, SessionExpires(s) PROVE Phases'
  BY <1>2 DEF SessionExpires
<1>3. CASE UNCHANGED vars
  BY <1>3 DEF vars, config, sessions, local, hist
<1> QED
  BY <1>1, <1>2, <1>3 DEF Next, Sessions
LEMMA IndexedStep == (Shape /\ Phases /\ Indexed /\ Wiping) /\ [Next]_vars => Indexed'
<1> SUFFICES ASSUME (Shape /\ Phases /\ Indexed /\ Wiping), [Next]_vars PROVE Indexed'
  OBVIOUS
<1> USE AdminAssumption DEF Shape, TypeOK, Steps, Sessions, IsPasswordSet, Goto, Fault, config, sessions,
      local, hist, Phases, Indexed, Wiping,
      Placed, At
<1>1. ASSUME NEW r \in Requests,
            Setup(r) \/ ReadSalt(r) \/ Compare(r) \/ Begin(r) \/ Commit(r)
             \/ CommitFails(r) \/ ReadIndex(r) \/ ReadIndexFails(r) \/ Wipe(r)
             \/ WipeFails(r) \/ Unindex(r) \/ Create(r) \/ CreateFails(r)
             \/ Index(r) \/ IndexFails(r) \/ Logout(r) \/ RemoveEntry(r)
      PROVE  Indexed'
  <2>1. CASE Setup(r)
    BY <2>1 DEF Setup
  <2>2. CASE ReadSalt(r)
    BY <2>2 DEF ReadSalt
  <2>3. CASE Compare(r)
    BY <2>3 DEF Compare
  <2>4. CASE Begin(r)
    BY <2>4 DEF Begin
  <2>5. CASE Commit(r)
    BY <2>5 DEF Commit
  <2>6. CASE CommitFails(r)
    BY <2>6 DEF CommitFails
  <2>7. CASE ReadIndex(r)
    BY <2>7 DEF ReadIndex
  <2>8. CASE ReadIndexFails(r)
    BY <2>8 DEF ReadIndexFails
  <2>9. CASE Wipe(r)
    BY <2>9 DEF Wipe
  <2>10. CASE WipeFails(r)
    BY <2>10 DEF WipeFails
  <2>11. CASE Unindex(r)
    BY <2>11 DEF Unindex
  <2>12. CASE Create(r)
    BY <2>12 DEF Create
  <2>13. CASE CreateFails(r)
    BY <2>13 DEF CreateFails
  <2>14. CASE Index(r)
    BY <2>14 DEF Index
  <2>15. CASE IndexFails(r)
    BY <2>15 DEF IndexFails
  <2>16. CASE Logout(r)
    BY <2>16 DEF Logout
  <2>17. CASE RemoveEntry(r)
    BY <2>17 DEF RemoveEntry
  <2> QED
    BY <1>1, <2>1, <2>2, <2>3, <2>4, <2>5, <2>6, <2>7, <2>8, <2>9, <2>10,
      <2>11, <2>12, <2>13, <2>14, <2>15, <2>16, <2>17
<1>2. ASSUME NEW s \in Sessions, SessionExpires(s) PROVE Indexed'
  BY <1>2 DEF SessionExpires
<1>3. CASE UNCHANGED vars
  BY <1>3 DEF vars, config, sessions, local, hist
<1> QED
  BY <1>1, <1>2, <1>3 DEF Next, Sessions
LEMMA WipingStep == (Shape /\ Phases /\ Indexed /\ Wiping) /\ [Next]_vars => Wiping'
<1> SUFFICES ASSUME (Shape /\ Phases /\ Indexed /\ Wiping), [Next]_vars PROVE Wiping'
  OBVIOUS
<1> USE AdminAssumption DEF Shape, TypeOK, Steps, Sessions, IsPasswordSet, Goto, Fault, config, sessions,
      local, hist, Phases, Indexed, Wiping,
      Placed, At
<1>1. ASSUME NEW r \in Requests,
            Setup(r) \/ ReadSalt(r) \/ Compare(r) \/ Begin(r) \/ Commit(r)
             \/ CommitFails(r) \/ ReadIndex(r) \/ ReadIndexFails(r) \/ Wipe(r)
             \/ WipeFails(r) \/ Unindex(r) \/ Create(r) \/ CreateFails(r)
             \/ Index(r) \/ IndexFails(r) \/ Logout(r) \/ RemoveEntry(r)
      PROVE  Wiping'
  <2>1. CASE Setup(r)
    BY <2>1 DEF Setup
  <2>2. CASE ReadSalt(r)
    BY <2>2 DEF ReadSalt
  <2>3. CASE Compare(r)
    BY <2>3 DEF Compare
  <2>4. CASE Begin(r)
    BY <2>4 DEF Begin
  <2>5. CASE Commit(r)
    BY <2>5 DEF Commit
  <2>6. CASE CommitFails(r)
    BY <2>6 DEF CommitFails
  <2>7. CASE ReadIndex(r)
    BY <2>7 DEF ReadIndex
  <2>8. CASE ReadIndexFails(r)
    BY <2>8 DEF ReadIndexFails
  <2>9. CASE Wipe(r)
    BY <2>9 DEF Wipe
  <2>10. CASE WipeFails(r)
    BY <2>10 DEF WipeFails
  <2>11. CASE Unindex(r)
    BY <2>11 DEF Unindex
  <2>12. CASE Create(r)
    BY <2>12 DEF Create
  <2>13. CASE CreateFails(r)
    BY <2>13 DEF CreateFails
  <2>14. CASE Index(r)
    BY <2>14 DEF Index
  <2>15. CASE IndexFails(r)
    BY <2>15 DEF IndexFails
  <2>16. CASE Logout(r)
    BY <2>16 DEF Logout
  <2>17. CASE RemoveEntry(r)
    BY <2>17 DEF RemoveEntry
  <2> QED
    BY <1>1, <2>1, <2>2, <2>3, <2>4, <2>5, <2>6, <2>7, <2>8, <2>9, <2>10,
      <2>11, <2>12, <2>13, <2>14, <2>15, <2>16, <2>17
<1>2. ASSUME NEW s \in Sessions, SessionExpires(s) PROVE Wiping'
  BY <1>2 DEF SessionExpires
<1>3. CASE UNCHANGED vars
  BY <1>3 DEF vars, config, sessions, local, hist
<1> QED
  BY <1>1, <1>2, <1>3 DEF Next, Sessions
LEMMA EndedStep == (Shape /\ Phases /\ Wiping /\ Ended) /\ [Next]_vars => Ended'
<1> SUFFICES ASSUME (Shape /\ Phases /\ Wiping /\ Ended), [Next]_vars PROVE Ended'
  OBVIOUS
<1> USE AdminAssumption DEF Shape, TypeOK, Steps, Sessions, IsPasswordSet, Goto, Fault, config, sessions,
      local, hist, Phases, Wiping, Ended,
      Placed, At
<1>1. ASSUME NEW r \in Requests,
            Setup(r) \/ ReadSalt(r) \/ Compare(r) \/ Begin(r) \/ Commit(r)
             \/ CommitFails(r) \/ ReadIndex(r) \/ ReadIndexFails(r) \/ Wipe(r)
             \/ WipeFails(r) \/ Unindex(r) \/ Create(r) \/ CreateFails(r)
             \/ Index(r) \/ IndexFails(r) \/ Logout(r) \/ RemoveEntry(r)
      PROVE  Ended'
  <2>1. CASE Setup(r)
    BY <2>1 DEF Setup
  <2>2. CASE ReadSalt(r)
    BY <2>2 DEF ReadSalt
  <2>3. CASE Compare(r)
    BY <2>3 DEF Compare
  <2>4. CASE Begin(r)
    BY <2>4 DEF Begin
  <2>5. CASE Commit(r)
    BY <2>5 DEF Commit
  <2>6. CASE CommitFails(r)
    BY <2>6 DEF CommitFails
  <2>7. CASE ReadIndex(r)
    BY <2>7 DEF ReadIndex
  <2>8. CASE ReadIndexFails(r)
    BY <2>8 DEF ReadIndexFails
  <2>9. CASE Wipe(r)
    BY <2>9 DEF Wipe
  <2>10. CASE WipeFails(r)
    BY <2>10 DEF WipeFails
  <2>11. CASE Unindex(r)
    BY <2>11 DEF Unindex
  <2>12. CASE Create(r)
    BY <2>12 DEF Create
  <2>13. CASE CreateFails(r)
    BY <2>13 DEF CreateFails
  <2>14. CASE Index(r)
    BY <2>14 DEF Index
  <2>15. CASE IndexFails(r)
    BY <2>15 DEF IndexFails
  <2>16. CASE Logout(r)
    BY <2>16 DEF Logout
  <2>17. CASE RemoveEntry(r)
    BY <2>17 DEF RemoveEntry
  <2> QED
    BY <1>1, <2>1, <2>2, <2>3, <2>4, <2>5, <2>6, <2>7, <2>8, <2>9, <2>10,
      <2>11, <2>12, <2>13, <2>14, <2>15, <2>16, <2>17
<1>2. ASSUME NEW s \in Sessions, SessionExpires(s) PROVE Ended'
  BY <1>2 DEF SessionExpires
<1>3. CASE UNCHANGED vars
  BY <1>3 DEF vars, config, sessions, local, hist
<1> QED
  BY <1>1, <1>2, <1>3 DEF Next, Sessions
-----------------------------------------------------------------------------
LEMMA InvStep == AdminInv /\ [Next]_vars => AdminInv'
BY ShapeStep, ReadsStep, OriginStep, PhasesStep, IndexedStep, WipingStep, EndedStep
DEF AdminInv

LEMMA InvHolds == Spec => []AdminInv
BY InvInit, InvStep, PTL DEF Spec

(* The rows of the salt and of the hash are of one scheme in every state   *)
(* between two statements (the transaction of SetPassword).                *)
THEOREM AdminTypeCorrect == Spec => []TypeOK
<1>1. AdminInv => TypeOK
  BY DEF AdminInv, Shape
<1> QED
  BY <1>1, InvHolds, PTL

LEMMA NoWrongDenial == AdminInv => DeniedOnlyIfWrong
BY DEF AdminInv, ReadsMatch

(* VerifyPassword turns a correct password down only when a commit came    *)
(* between its two reads.                                                  *)
THEOREM DenialIsTorn == Spec => []DeniedOnlyIfWrong
BY InvHolds, NoWrongDenial, PTL

(* No interleaving of creations, logouts and deletions of the index leaves *)
(* a session in place that the next new password does not end, except one  *)
(* put in between SMEMBERS and the deletion of the index.                  *)
THEOREM IndexStaysComplete == Spec => []IndexComplete
<1>1. AdminInv => IndexComplete
  BY DEF AdminInv, Indexed, Placed, IndexComplete, ValidateSession
<1> QED
  BY <1>1, InvHolds, PTL

(* SetPassword ends the sessions there were at its commit, up to those.    *)
THEOREM NewPasswordEndsSessions == Spec => []OldSessionsEnd
<1>1. AdminInv => OldSessionsEnd
  BY DEF AdminInv, Ended, OldSessionsEnd, ValidateSession
<1> QED
  BY <1>1, InvHolds, PTL

-----------------------------------------------------------------------------
(* A step that changes the hash of a set password is the commit of a rival.*)
LEMMA CommitOfRival ==
    AdminInv /\ [Next]_vars =>
        [IsPasswordSet /\ hash'.pw # hash.pw =>
            \E r \in rivals : pc[r] = "commit" /\ hash'.pw = pw[r]]_hash
<1> SUFFICES ASSUME AdminInv, [Next]_vars, hash' # hash, IsPasswordSet, hash'.pw # hash.pw
             PROVE  \E r \in rivals : pc[r] = "commit" /\ hash'.pw = pw[r]
  OBVIOUS
<1>1. PICK r \in Requests : Commit(r)
  BY DEF Next, vars, config, sessions, local, hist, Setup, ReadSalt, Compare, Begin,
         CommitFails, ReadIndex, ReadIndexFails, Wipe, WipeFails, Unindex, Create,
         CreateFails, Index, IndexFails, Logout, RemoveEntry, SessionExpires
<1>2. pc[r] = "commit" /\ hash'.pw = pw[r] /\ r \in OnTheWay
  BY <1>1 DEF Commit, OnTheWay, At
<1>3. r \in rivals
  BY <1>2 DEF AdminInv, Origin, FreshOrigin, LegacyOrigin
<1> QED
  BY <1>2, <1>3

(* A password that is set is changed only by a setup that found none set   *)
(* and lost the race to the first one; upgrades keep it (adminAuthSetup).  *)
THEOREM PasswordIsKept == Spec => PasswordKept
BY InvHolds, CommitOfRival, PTL DEF Spec, PasswordKept
================================================================================
