------------------------- MODULE UserCreationProofs -------------------------
(***************************************************************************)
(* What holds of UserCreation for every set of requests, keys, bodies and  *)
(* users, every window and every number of attempts.                       *)
(***************************************************************************)
EXTENDS UserCreation, FiniteSetTheorems, WellFoundedInduction, TLAPS

-----------------------------------------------------------------------------
(***************************************************************************)
(* Type correctness                                                        *)
(***************************************************************************)
\* Ending a transaction keeps the types of its variables.
LEMMA EndTxnType ==
  ASSUME NEW r \in Creates, TypeOK, EndTxn(r)
  PROVE  /\ now' \in [Creates -> Nat] /\ tries' \in [Creates -> Nat]
         /\ claim' \in [Creates -> SUBSET LedgerRow]
         /\ claimedAt' \in [Creates -> Nat]
         /\ born' \in [Creates -> SUBSET UserRow]
  BY DEF TypeOK, EndTxn

\* Ending with a rollback, whatever the reason given.
LEMMA FailType ==
  ASSUME NEW r \in Creates, NEW why \in Answers, TypeOK, Fail(r, why),
         UNCHANGED <<mutation, clock, request, attempt>>, faults' \in Nat
  PROVE  TypeOK'
  <1>1. Rollback(r) /\ EndTxn(r)
    BY DEF Fail, Rollback
  <1>2. found' \in [Creates -> UserIds \union {NoUser}]
    BY <1>1 DEF Rollback, TypeOK
  <1>3. pc' \in [Requests -> CreatePlaces \union MutatorPlaces]
    BY DEF Fail, Goto, TypeOK, CreatePlaces
  <1>4. answer' \in [Requests -> Answers]
    BY DEF Fail, TypeOK
  <1> QED
    BY <1>1, <1>2, <1>3, <1>4, EndTxnType DEF TypeOK, Rollback, database, mutation

\* Committed rows and births are made of the transaction's own rows.
LEMMA PublishType ==
  ASSUME NEW r \in Creates, TypeOK, Publish(r)
  PROVE  users' \subseteq UserRow /\ ledger' \subseteq LedgerRow /\ births' \subseteq Birth
  <1>1. users' \subseteq UserRow /\ ledger' \subseteq LedgerRow
    BY DEF Publish, TypeOK
  <1>2. ASSUME NEW b \in born[r]
        PROVE  [id |-> b.id, key |-> request[r].key, fp |-> request[r].fp,
                at |-> claimedAt[r], exp |-> now[r] + TTL] \in Birth
    BY Numbers DEF TypeOK, Birth, UserRow
  <1>3. births' \subseteq Birth
    BY <1>2 DEF Publish, TypeOK
  <1> QED
    BY <1>1, <1>3

\* The rows a create writes are rows of its tables.
LEMMA RowTypes ==
  ASSUME TypeOK, NEW r \in Creates
  PROVE  /\ Email(r) \in Emails
         /\ IsKeyed(r) => ClaimRow(r) \in LedgerRow
         /\ IsKeyed(r) <=> request[r].key \in Keys
  BY Shapes, Sentinels, Numbers DEF TypeOK, Email, ClaimRow, LedgerRow, IsKeyed

LEMMA CreateStepType ==
  ASSUME TypeOK, NEW r \in Creates, CreateStep(r),
         pc[r] \in {"reclaim", "insert", "select"} => IsKeyed(r)
  PROVE  TypeOK'
  <1> USE DEF database, txn, mutation
  <1>0. r \in Requests /\ ClaimAttempts \in Nat /\ faults \in Nat
    BY Numbers DEF Requests, TypeOK
  <1>1. CASE Receive(r)
    BY <1>1, <1>0 DEF Receive, Goto, TypeOK, CreatePlaces
  <1>2. CASE CleanupIfDue(r)
    <2>1. ledger' \subseteq ledger
      BY <1>2 DEF CleanupIfDue
    <2> QED
      BY <1>2, <1>0, <2>1 DEF CleanupIfDue, Goto, TypeOK, CreatePlaces, InTxn
  <1>3. CASE Begin(r)
    BY <1>3, <1>0 DEF Begin, Goto, TypeOK, CreatePlaces, InTxn
  <1>4. ASSUME Claimed(r), IsKeyed(r),
               UNCHANGED <<database, now, tries, born, found, mutation, clock, faults,
                           request, attempt, answer>>
        PROVE  TypeOK'
    BY <1>4, <1>0, RowTypes DEF Claimed, Goto, TypeOK, CreatePlaces, InTxn
  <1>5. CASE Reclaim(r)
    <2>1. CASE Claimed(r)
      BY <1>4, <1>5, <2>1 DEF Reclaim
    <2>2. CASE Goto(r, "insert") /\ UNCHANGED <<claim, claimedAt>>
      BY <1>5, <1>0, <2>2 DEF Reclaim, Goto, TypeOK, CreatePlaces, InTxn
    <2> QED BY <1>5, <2>1, <2>2 DEF Reclaim
  <1>6. CASE Insert(r)
    <2>1. CASE Claimed(r)
      BY <1>4, <1>6, <2>1 DEF Insert
    <2>2. CASE Goto(r, "select") /\ UNCHANGED <<claim, claimedAt>>
      BY <1>6, <1>0, <2>2 DEF Insert, Goto, TypeOK, CreatePlaces, InTxn
    <2> QED BY <1>6, <2>1, <2>2 DEF Insert
  <1>7. CASE SelectActive(r)
    <2>1. CASE \E why \in {"mismatch", "orphan", "exhausted"} : Fail(r, why)
      BY <1>7, <1>0, <2>1, FailType DEF SelectActive, Answers
    <2>2. ASSUME NEW l \in ActiveRows(request[r].key, now[r]), l.user # NoUser,
                 found' = [found EXCEPT ![r] = l.user], Goto(r, "replay"),
                 UNCHANGED <<database, now, tries, claim, claimedAt, born, answer>>
          PROVE  TypeOK'
      <3>1. l.user \in UserIds
        BY <2>2 DEF ActiveRows, TypeOK, LedgerRow
      <3> QED
        BY <1>7, <1>0, <2>2, <3>1 DEF SelectActive, Goto, TypeOK, CreatePlaces, InTxn
    <2>3. CASE /\ tries' = [tries EXCEPT ![r] = tries[r] + 1]
               /\ Goto(r, "reclaim")
               /\ UNCHANGED <<database, now, claim, claimedAt, born, found, answer>>
      BY <1>7, <1>0, <2>3 DEF SelectActive, Goto, TypeOK, CreatePlaces, InTxn
    <2> QED BY <1>7, <2>1, <2>2, <2>3 DEF SelectActive
  <1>8. CASE Replay(r)
    <2>1. CASE Fail(r, "vanished")
      BY <1>8, <1>0, <2>1, FailType DEF Replay, Answers
    <2>2. CASE Goto(r, "commit") /\ UNCHANGED <<database, txn, answer>>
      BY <1>8, <1>0, <2>2 DEF Replay, Goto, TypeOK, CreatePlaces, InTxn
    <2> QED BY <1>8, <2>1, <2>2 DEF Replay
  <1>9. CASE Lookup(r)
    <2>1. CASE Fail(r, "conflict")
      BY <1>9, <1>0, <2>1, FailType DEF Lookup, Answers
    <2>2. CASE Goto(r, "create") /\ UNCHANGED <<database, txn, answer>>
      BY <1>9, <1>0, <2>2 DEF Lookup, Goto, TypeOK, CreatePlaces, InTxn
    <2> QED BY <1>9, <2>1, <2>2 DEF Lookup
  <1>10. CASE Create(r)
    <2>1. CASE Fail(r, "conflict")
      BY <1>10, <1>0, <2>1, FailType DEF Create, Answers
    <2>2. ASSUME NEW id \in FreshIds,
                 born' = [born EXCEPT ![r] = {[id |-> id, email |-> Email(r),
                                               version |-> 1]}],
                 Goto(r, IF IsKeyed(r) THEN "complete" ELSE "commit"),
                 UNCHANGED <<database, now, tries, claim, claimedAt, found, answer>>
          PROVE  TypeOK'
      <3>1. [id |-> id, email |-> Email(r), version |-> 1] \in UserRow
        BY <2>2, RowTypes DEF UserRow, FreshIds
      <3> QED
        BY <1>10, <1>0, <2>2, <3>1 DEF Create, Goto, TypeOK, CreatePlaces, InTxn
    <2> QED BY <1>10, <2>1, <2>2 DEF Create
  <1>11. CASE Complete(r)
    <2>1. CASE Fail(r, "incomplete")
      BY <1>11, <1>0, <2>1, FailType DEF Complete, Answers
    <2>2. ASSUME NEW c \in claim[r], NEW b \in born[r],
                 claim' = [claim EXCEPT ![r] = {[c EXCEPT !.user = b.id]}],
                 Goto(r, "commit"),
                 UNCHANGED <<database, now, tries, claimedAt, born, found, answer>>
          PROVE  TypeOK'
      <3>1. [c EXCEPT !.user = b.id] \in LedgerRow
        <4>1. c \in LedgerRow /\ b.id \in UserIds
          BY DEF TypeOK, UserRow
        <4> QED BY <4>1 DEF LedgerRow
      <3> QED
        BY <1>11, <1>0, <2>2, <3>1 DEF Complete, Goto, TypeOK, CreatePlaces, InTxn
    <2> QED BY <1>11, <2>1, <2>2 DEF Complete
  <1>12. CASE Commit(r)
    <2>1. EndTxn(r) /\ Publish(r)
      BY <1>12 DEF Commit, Publish
    <2>2. answer' \in [Requests -> Answers]
      BY <1>12, <1>0 DEF Commit, TypeOK, Answers
    <2>3. found' \in [Creates -> UserIds \union {NoUser}]
      BY <1>12 DEF Commit, TypeOK, UserRow
    <2> QED
      BY <1>12, <1>0, <2>1, <2>2, <2>3, EndTxnType, PublishType
      DEF Commit, Goto, TypeOK, CreatePlaces
  <1> QED
    BY <1>1, <1>2, <1>3, <1>5, <1>6, <1>7, <1>8, <1>9, <1>10, <1>11, <1>12
    DEF CreateStep

LEMMA AbortType ==
  ASSUME TypeOK, NEW r \in Creates, AbortRetryably(r), faults' \in Nat
  PROVE  TypeOK'
  <1>1. EndTxn(r) /\ r \in Requests
    BY DEF AbortRetryably, Rollback, Requests
  <1>2. attempt' \in [Creates -> Nat]
    BY DEF AbortRetryably, TypeOK
  <1>3. pc' \in [Requests -> CreatePlaces \union MutatorPlaces]
    BY <1>1 DEF AbortRetryably, Goto, TypeOK, CreatePlaces
  <1>4. answer' \in [Requests -> Answers]
    BY <1>1 DEF AbortRetryably, TypeOK, Answers
  <1>5. found' \in [Creates -> UserIds \union {NoUser}]
    BY DEF AbortRetryably, Rollback, TypeOK
  <1> QED
    BY <1>1, <1>2, <1>3, <1>4, <1>5, EndTxnType
    DEF AbortRetryably, Rollback, TypeOK, database, mutation

LEMMA CreateFaultType ==
  ASSUME TypeOK, NEW r \in Creates, CreateFault(r)
  PROVE  TypeOK'
  <1>1. faults' \in Nat
    BY DEF CreateFault, AbortInjected, ConnectionLost, CommitAckLost, Inject, TypeOK
  <1>2. CASE AbortInjected(r)
    BY <1>1, <1>2, AbortType DEF AbortInjected
  <1>3. CASE ConnectionLost(r)
    BY <1>1, <1>3, FailType DEF ConnectionLost, Answers
  <1>4. CASE CommitAckLost(r)
    <2>1. EndTxn(r) /\ Publish(r)
      BY <1>4 DEF CommitAckLost, Publish
    <2> QED
      BY <1>1, <1>4, <2>1, EndTxnType, PublishType
      DEF CommitAckLost, Goto, TypeOK, CreatePlaces, Answers, Requests, mutation
  <1> QED BY <1>2, <1>3, <1>4 DEF CreateFault

LEMMA MutatorStepType ==
  ASSUME TypeOK, NEW m \in Mutators, MutatorStep(m)
  PROVE  TypeOK'
  <1> USE DEF database, txn, mutation
  <1>0. m \in Requests
    BY DEF Requests
  <1>1. CASE Mutate(m)
    <2>1. target' \in [Mutators -> UserIds \union {NoUser}] /\ ifMatch' \in [Mutators -> SUBSET Nat]
      BY <1>1, Shapes DEF Mutate, TypeOK
    <2>2. newEmail' \in [Mutators -> SUBSET Emails]
      BY <1>1 DEF Mutate, TypeOK
    <2>3. pc' \in [Requests -> CreatePlaces \union MutatorPlaces] /\ answer' \in [Requests -> Answers]
      BY <1>1, <1>0 DEF Mutate, FinishMutation, Goto, TypeOK, CreatePlaces, MutatorPlaces, Answers
    <2> QED BY <1>1, <2>1, <2>2, <2>3 DEF Mutate, TypeOK
  <1>2. CASE LockRow(m)
    BY <1>2, <1>0 DEF LockRow, FinishMutation, Goto, TypeOK, CreatePlaces, MutatorPlaces, Answers
  <1>3. CASE Delete(m)
    BY <1>3, <1>0 DEF Delete, FinishMutation, Goto, TypeOK, CreatePlaces, MutatorPlaces, Answers
  <1>4. CASE Patch(m)
    <2>1. ASSUME NEW u \in users PROVE Patched(m, u) \in UserRow
      <3>1. newEmail[m] # {} => (CHOOSE e \in newEmail[m] : TRUE) \in Emails
        BY DEF TypeOK
      <3> QED BY <3>1 DEF Patched, TypeOK, UserRow
    <2>2. users' \subseteq UserRow
      BY <1>4, <2>1 DEF Patch, TypeOK
    <2> QED
      BY <1>4, <1>0, <2>2
      DEF Patch, FinishMutation, Goto, TypeOK, CreatePlaces, MutatorPlaces, Answers
  <1> QED BY <1>1, <1>2, <1>3, <1>4 DEF MutatorStep

-----------------------------------------------------------------------------
(***************************************************************************)
(* The inductive invariant                                                 *)
(***************************************************************************)
\* Only a request with a key goes through the ledger, and a transaction never
\* started in the future.
Places ==
  \A r \in Creates :
    /\ pc[r] \in {"cleanup", "reclaim", "insert", "select", "replay", "complete"} => IsKeyed(r)
    /\ now[r] <= clock

\* What a create's private rows are, at each of its places.
Pending(r) ==
  /\ pc[r] \notin {"lookup", "create", "complete", "commit"} => claim[r] = {}
  /\ pc[r] \notin {"complete", "commit"} => born[r] = {}
  /\ pc[r] \in {"lookup", "create", "complete"} /\ IsKeyed(r) => claim[r] # {}
  /\ pc[r] = "commit" /\ IsKeyed(r) /\ born[r] # {} => claim[r] # {}
  /\ pc[r] = "commit" => \A c \in claim[r] : \E b \in born[r] : b.id = c.user
  /\ \A c \in claim[r] : /\ c.key = request[r].key /\ c.fp = request[r].fp
                         /\ c.exp = now[r] + TTL
  /\ \A c, d \in claim[r] : c = d
  /\ \A b, d \in born[r] : b = d

PendingRows == \A r \in Creates : Pending(r)

\* A user id belongs to one creation, committed or not.
FreshRows ==
  /\ \A r \in Creates : \A b \in born[r], a \in births : a.id # b.id
  /\ \A r, q \in Creates : r # q => \A b \in born[r], d \in born[q] : b.id # d.id
  /\ \A u \in users : \E a \in births : a.id = u.id
  /\ \A a, b \in births : a.id = b.id => a = b

\* A key is claimed by one transaction at a time and has one row.
KeysExclusive ==
  /\ \A r, q \in Creates : r # q => \A c \in claim[r], d \in claim[q] : c.key # d.key
  /\ \A l, m \in ledger : l.key = m.key => l = m

\* The user of an open window has its ledger row, so whoever claims the key
\* claims it after the windows of all its living users.
Windows ==
  /\ \A r \in Creates : claimedAt[r] <= clock
  /\ \A a \in births, u \in users :
       a.id = u.id /\ a.key # NoKey /\ a.exp > clock =>
         \E l \in ledger : l.key = a.key /\ l.user = a.id
  /\ \A r \in Creates : claim[r] # {} =>
       \A a \in births, u \in users :
         a.id = u.id /\ a.key = request[r].key => a.exp <= claimedAt[r]

\* The user a request has resolved to was born under its key with its payload.
Resolutions ==
  \A r \in Creates :
    /\ found[r] # NoUser => \E b \in births : /\ b.id = found[r]
                                              /\ b.key = request[r].key
                                              /\ b.fp = request[r].fp
    /\ pc[r] = "replay" => found[r] # NoUser
    /\ pc[r] = "commit" /\ born[r] = {} => found[r] # NoUser
    /\ answer[r] \in {"created", "replayed"} => found[r] # NoUser
    /\ answer[r] # "none" => pc[r] = "done"

TypeInv == TypeOK /\ Places
DataInv == FreshRows /\ KeysExclusive /\ Windows /\ LedgerComplete /\ OneUserPerActiveKey
IInv    == TypeInv /\ PendingRows /\ DataInv /\ Resolutions /\ AnnouncedOnce

-----------------------------------------------------------------------------
LEMMA InitInv == Init => IInv
  <1> SUFFICES ASSUME Init PROVE IInv
    OBVIOUS
  <1>1. TypeInv
    <2>1. TypeOK
      BY DEF Init, TypeOK, CreatePlaces, MutatorPlaces, Answers
    <2>2. Places
      BY DEF Init, Places, Requests
    <2> QED BY <2>1, <2>2 DEF TypeInv
  <1>2. PendingRows
    BY DEF Init, PendingRows, Pending, Requests
  <1>3. DataInv
    BY DEF Init, DataInv, FreshRows, KeysExclusive, Windows, LedgerComplete, OneUserPerActiveKey
  <1>4. Resolutions /\ AnnouncedOnce
    BY DEF Init, Resolutions, AnnouncedOnce, Requests
  <1> QED BY <1>1, <1>2, <1>3, <1>4 DEF IInv

LEMMA TypeInvStep ==
  ASSUME TypeInv, Next
  PROVE  TypeInv'
  <1> USE DEF TypeInv
  <1>1. ASSUME NEW r \in Creates, CreateStep(r)
        PROVE  TypeInv'
    <2>1. TypeOK'
      BY <1>1, CreateStepType DEF Places
    <2>2. UNCHANGED <<request, clock>>
      BY <1>1 DEF CreateStep, Receive, CleanupIfDue, Begin, Reclaim, Insert, SelectActive,
                  Replay, Lookup, Create, Complete, Commit
    <2>3. now' = now \/ now' = [now EXCEPT ![r] = 0] \/ now' = [now EXCEPT ![r] = clock]
      BY <1>1 DEF CreateStep, Receive, CleanupIfDue, Begin, Reclaim, Insert, SelectActive,
                  Replay, Lookup, Create, Complete, Commit, Publish, Fail, Rollback, EndTxn,
                  txn, Claimed
    <2>4. \E place \in CreatePlaces :
             /\ pc' = [pc EXCEPT ![r] = place]
             /\ place \in {"cleanup", "reclaim", "insert", "select", "replay", "complete"}
                  => IsKeyed(r)
      BY <1>1 DEF CreateStep, Receive, CleanupIfDue, Begin, Reclaim, Insert, SelectActive,
                  Replay, Lookup, Create, Complete, Commit, Fail, Claimed, Goto, Places,
                  CreatePlaces, InTxn
    <2>5. Places'
      BY <2>1, <2>2, <2>3, <2>4 DEF Places, IsKeyed, TypeOK, Requests
    <2> QED BY <2>1, <2>5
  <1>2. ASSUME NEW r \in Creates, AbortRetryably(r), faults' \in Nat
        PROVE  TypeInv'
    <2>1. TypeOK'
      BY <1>2, AbortType
    <2> QED
      BY <1>2, <2>1 DEF AbortRetryably, Rollback, EndTxn, Goto, Places, IsKeyed, TypeOK, Requests
  <1>3. ASSUME NEW r \in Creates, CreateFault(r)
        PROVE  TypeInv'
    <2>1. TypeOK'
      BY <1>3, CreateFaultType
    <2>2. CASE AbortInjected(r)
      BY <1>2, <2>1, <2>2 DEF AbortInjected, TypeOK
    <2>3. CASE ConnectionLost(r) \/ CommitAckLost(r)
      <3>1. /\ now' = [now EXCEPT ![r] = 0] /\ pc' = [pc EXCEPT ![r] = "done"]
            /\ UNCHANGED <<clock, request>>
        BY <2>3 DEF ConnectionLost, CommitAckLost, Fail, Rollback, Publish, EndTxn, Goto
      <3> QED
        BY <2>1, <3>1 DEF Places, IsKeyed, TypeOK, Requests
    <2> QED BY <1>3, <2>2, <2>3 DEF CreateFault
  <1>4. ASSUME NEW m \in Mutators, MutatorStep(m)
        PROVE  TypeInv'
    <2>1. TypeOK'
      BY <1>4, MutatorStepType
    <2>2. UNCHANGED <<request, clock, now>>
      BY <1>4 DEF MutatorStep, Mutate, LockRow, Delete, Patch, txn
    <2>3. \A r \in Creates : pc'[r] = pc[r]
      BY <1>4, RequestKinds DEF MutatorStep, Mutate, LockRow, Delete, Patch, FinishMutation, Goto,
                                TypeOK, Requests
    <2> QED BY <2>1, <2>2, <2>3 DEF Places, IsKeyed
  <1>5. CASE BreakDeadlock
    <2>1. PICK r \in Requests : \/ r \in Creates /\ AbortRetryably(r)
                                \/ r \in Mutators /\ AbortMutation(r)
      BY <1>5 DEF BreakDeadlock, Deadlocks
    <2>2. CASE r \in Creates /\ AbortRetryably(r)
      BY <1>2, <1>5, <2>2 DEF BreakDeadlock, TypeOK
    <2>3. CASE r \in Mutators /\ AbortMutation(r)
      <3>1. \A q \in Creates : pc'[q] = pc[q]
        BY <2>3, RequestKinds DEF AbortMutation, FinishMutation, Goto, TypeOK
      <3>2. /\ pc' \in [Requests -> CreatePlaces \union MutatorPlaces]
            /\ answer' \in [Requests -> Answers]
        BY <2>3 DEF AbortMutation, FinishMutation, Goto, TypeOK, CreatePlaces, Answers
      <3>3. UNCHANGED <<faults, users, ledger, births, now, tries, claim, claimedAt, born,
                        found, target, ifMatch, newEmail, clock, request, attempt>>
        BY <1>5, <2>3 DEF BreakDeadlock, AbortMutation, database, txn, mutation
      <3> QED
        BY <3>1, <3>2, <3>3
        DEF TypeOK, Places, IsKeyed
    <2> QED BY <2>1, <2>2, <2>3
  <1>6. CASE Tick
    BY <1>6, Numbers DEF Tick, TypeOK, Places, IsKeyed, database, txn, mutation
  <1>7. CASE Finished
    BY <1>7 DEF Finished, vars, TypeOK, Places, IsKeyed
  <1> QED BY <1>1, <1>3, <1>4, <1>5, <1>6, <1>7 DEF Next

-----------------------------------------------------------------------------
(***************************************************************************)
(* The private rows                                                        *)
(***************************************************************************)
\* A step of a create writes its own entries only.
LEMMA OwnEntries ==
  ASSUME TypeOK, NEW r \in Creates, CreateStep(r) \/ CreateFault(r)
  PROVE  /\ UNCHANGED request
         /\ \A q \in Creates : q # r =>
              /\ pc'[q] = pc[q] /\ now'[q] = now[q] /\ claim'[q] = claim[q]
              /\ claimedAt'[q] = claimedAt[q] /\ born'[q] = born[q]
              /\ found'[q] = found[q] /\ answer'[q] = answer[q]
  <1> DEFINE Own(f, g) == \A q \in Creates : q # r => g[q] = f[q]
             Six == /\ Own(now, now') /\ Own(claim, claim') /\ Own(claimedAt, claimedAt')
                    /\ Own(born, born') /\ Own(found, found') /\ Own(answer, answer')
  <1>1. UNCHANGED request
    BY DEF CreateStep, Receive, CleanupIfDue, Begin, Reclaim, Insert, SelectActive, Replay,
           Lookup, Create, Complete, Commit, CreateFault, AbortInjected, AbortRetryably,
           ConnectionLost, CommitAckLost
  <1>2. Own(pc, pc')
    <2>1. \E place : Goto(r, place)
      BY DEF CreateStep, Receive, CleanupIfDue, Begin, Reclaim, Insert, SelectActive, Replay,
             Lookup, Create, Complete, Commit, CreateFault, AbortInjected, AbortRetryably,
             ConnectionLost, CommitAckLost, Fail, Claimed
    <2> QED BY <2>1 DEF Goto, TypeOK
  <1>3. ASSUME EndTxn(r)
        PROVE  /\ Own(now, now') /\ Own(claim, claim') /\ Own(claimedAt, claimedAt')
               /\ Own(born, born')
    BY <1>3 DEF EndTxn, TypeOK
  <1>4. ASSUME NEW why, Fail(r, why) PROVE Six
    <2>1. EndTxn(r) /\ Own(found, found') /\ Own(answer, answer')
      BY <1>4 DEF Fail, Rollback, TypeOK
    <2> QED BY <1>3, <2>1
  <1>5. ASSUME Claimed(r) PROVE Own(claim, claim') /\ Own(claimedAt, claimedAt')
    BY <1>5 DEF Claimed, TypeOK
  <1>6. Six
    <2>1. CASE Receive(r) \/ CleanupIfDue(r) \/ Begin(r)
      BY <2>1 DEF Receive, CleanupIfDue, Begin, TypeOK, txn
    <2>2. CASE Reclaim(r) \/ Insert(r)
      BY <1>5, <2>2 DEF Reclaim, Insert
    <2>3. CASE SelectActive(r)
      BY <1>4, <2>3 DEF SelectActive, TypeOK
    <2>4. CASE Replay(r) \/ Lookup(r)
      BY <1>4, <2>4 DEF Replay, Lookup, txn
    <2>5. CASE Create(r)
      BY <1>4, <2>5 DEF Create, TypeOK
    <2>6. CASE Complete(r)
      <3>1. CASE \E why : Fail(r, why)
        BY <1>4, <3>1
      <3>2. CASE \E S : claim' = [claim EXCEPT ![r] = S]
        BY <1>4, <2>6, <3>2 DEF Complete, TypeOK
      <3> QED BY <2>6, <3>1, <3>2 DEF Complete
    <2>7. CASE Commit(r) \/ CommitAckLost(r)
      <3>1. EndTxn(r)
        BY <2>7 DEF Commit, CommitAckLost, Publish
      <3>2. Own(found, found') /\ Own(answer, answer')
        BY <2>7 DEF Commit, CommitAckLost, TypeOK, Requests
      <3> QED BY <1>3, <3>1, <3>2
    <2>8. CASE AbortInjected(r)
      <3>1. EndTxn(r)
        BY <2>8 DEF AbortInjected, AbortRetryably, Rollback
      <3>2. Own(found, found') /\ Own(answer, answer')
        BY <2>8 DEF AbortInjected, AbortRetryably, Rollback, TypeOK, Requests
      <3> QED BY <1>3, <3>1, <3>2
    <2>9. CASE ConnectionLost(r)
      BY <1>4, <2>9 DEF ConnectionLost
    <2> QED
      BY <2>1, <2>2, <2>3, <2>4, <2>5, <2>6, <2>7, <2>8, <2>9 DEF CreateStep, CreateFault
  <1> QED BY <1>1, <1>2, <1>6

LEMMA PendingCreateStep ==
  ASSUME TypeInv, PendingRows, NEW r \in Creates, CreateStep(r) \/ CreateFault(r)
  PROVE  PendingRows'
  <1> USE DEF TypeInv
  <1>0. r \in Requests /\ Pending(r) /\ UNCHANGED request
    BY OwnEntries DEF Requests, PendingRows
  <1>1. SUFFICES Pending(r)'
    BY OwnEntries DEF PendingRows, Pending, IsKeyed
  <1> USE DEF Pending, IsKeyed
  <1>2. ASSUME EndTxn(r), pc'[r] \in {"begin", "done"} PROVE Pending(r)'
    BY <1>0, <1>2 DEF EndTxn, TypeOK
  <1>3. CASE CreateFault(r)
    <2>1. EndTxn(r)
      BY <1>3 DEF CreateFault, AbortInjected, AbortRetryably, ConnectionLost, CommitAckLost,
                  Fail, Rollback, Publish
    <2>2. pc'[r] \in {"begin", "done"}
      BY <1>0, <1>3 DEF CreateFault, AbortInjected, AbortRetryably, ConnectionLost,
                        CommitAckLost, Fail, Goto, TypeOK
    <2> QED BY <1>2, <2>1, <2>2
  <1>4. ASSUME NEW why, Fail(r, why) PROVE Pending(r)'
    BY <1>0, <1>2, <1>4 DEF Fail, Rollback, Goto, TypeOK
  <1>5. CASE Receive(r) \/ CleanupIfDue(r) \/ Begin(r)
    BY <1>0, <1>5 DEF Receive, CleanupIfDue, Begin, Goto, TypeOK, txn
  <1>6. CASE Reclaim(r) \/ Insert(r)
    <2>1. CASE Claimed(r)
      <3>1. pc[r] \in {"reclaim", "insert"} /\ UNCHANGED <<now, born>>
        BY <1>6 DEF Reclaim, Insert
      <3>2. claim'[r] = {ClaimRow(r)} /\ pc'[r] = "lookup"
        BY <1>0, <2>1 DEF Claimed, Goto, TypeOK
      <3>3. /\ ClaimRow(r).key = request[r].key /\ ClaimRow(r).fp = request[r].fp
            /\ ClaimRow(r).exp = now[r] + TTL
        BY DEF ClaimRow
      <3> QED BY <1>0, <3>1, <3>2, <3>3
    <2>2. CASE (Goto(r, "insert") \/ Goto(r, "select")) /\ UNCHANGED claim
      <3>1. pc[r] \in {"reclaim", "insert"} /\ UNCHANGED <<now, born>>
        BY <1>6 DEF Reclaim, Insert
      <3> QED BY <1>0, <2>2, <3>1 DEF Goto, TypeOK
    <2> QED BY <1>6, <2>1, <2>2 DEF Reclaim, Insert
  <1>7. CASE SelectActive(r)
    <2>1. CASE \E why : Fail(r, why)
      BY <1>4, <2>1
    <2>2. CASE UNCHANGED <<now, claim, born>> /\ (Goto(r, "replay") \/ Goto(r, "reclaim"))
      BY <1>0, <1>7, <2>2 DEF SelectActive, Goto, TypeOK
    <2> QED BY <1>7, <2>1, <2>2 DEF SelectActive
  <1>8. CASE Replay(r) \/ Lookup(r)
    <2>1. CASE \E why : Fail(r, why)
      BY <1>4, <2>1
    <2>2. CASE /\ UNCHANGED txn
               /\ \/ pc[r] = "replay" /\ Goto(r, "commit")
                  \/ pc[r] = "lookup" /\ Goto(r, "create")
      BY <1>0, <2>2 DEF Goto, TypeOK, txn
    <2> QED BY <1>8, <2>1, <2>2 DEF Replay, Lookup
  <1>9. CASE Create(r)
    <2>1. CASE \E why : Fail(r, why)
      BY <1>4, <2>1
    <2>2. CASE /\ pc[r] = "create"
               /\ \E b : born' = [born EXCEPT ![r] = {b}]
               /\ Goto(r, IF IsKeyed(r) THEN "complete" ELSE "commit")
               /\ UNCHANGED <<now, claim>>
      <3>1. ~IsKeyed(r) => claim[r] = {}
        BY <1>0, Sentinels DEF TypeOK, LedgerRow
      <3> QED
        BY <1>0, <2>2, <3>1 DEF Goto, TypeOK
    <2> QED BY <1>9, <2>1, <2>2 DEF Create
  <1>10. CASE Complete(r)
    <2>1. CASE \E why : Fail(r, why)
      BY <1>4, <2>1
    <2>2. ASSUME NEW c \in claim[r], NEW b \in born[r],
                 claim' = [claim EXCEPT ![r] = {[c EXCEPT !.user = b.id]}],
                 Goto(r, "commit"), UNCHANGED <<now, born>>
          PROVE  Pending(r)'
      <3> DEFINE d == [c EXCEPT !.user = b.id]
      <3>1. d.key = c.key /\ d.fp = c.fp /\ d.exp = c.exp /\ d.user = b.id
        BY DEF TypeOK, LedgerRow
      <3>2. claim'[r] = {d} /\ pc'[r] = "commit" /\ born'[r] = born[r] /\ now'[r] = now[r]
        BY <1>0, <2>2 DEF Goto, TypeOK
      <3> HIDE DEF d
      <3> QED
        BY <1>0, <3>1, <3>2
    <2> QED BY <1>10, <2>1, <2>2 DEF Complete
  <1>11. CASE Commit(r)
    BY <1>0, <1>2, <1>11 DEF Commit, Publish, Goto, TypeOK
  <1> QED BY <1>3, <1>5, <1>6, <1>7, <1>8, <1>9, <1>10, <1>11 DEF CreateStep

\* Steps of the others leave a create's private rows alone.
LEMMA PendingStep ==
  ASSUME TypeInv, PendingRows, Next
  PROVE  PendingRows'
  <1> USE DEF TypeInv
  <1>1. ASSUME NEW r \in Creates, AbortRetryably(r) PROVE PendingRows'
    <2>1. /\ EndTxn(r) /\ UNCHANGED request
          /\ \E place \in {"begin", "done"} : Goto(r, place)
      BY <1>1 DEF AbortRetryably, Rollback
    <2>2. pc'[r] \in {"begin", "done"} /\ \A q \in Creates : q # r => pc'[q] = pc[q]
      BY <2>1 DEF Goto, TypeOK, Requests
    <2> QED BY <2>1, <2>2 DEF EndTxn, PendingRows, Pending, IsKeyed, TypeOK
  <1>2. ASSUME UNCHANGED <<request, now, claim, born>>, \A r \in Creates : pc'[r] = pc[r]
        PROVE  PendingRows'
    BY <1>2 DEF PendingRows, Pending, IsKeyed
  <1>3. ASSUME NEW m \in Mutators, MutatorStep(m) \/ AbortMutation(m) PROVE PendingRows'
    <2>1. UNCHANGED <<request, now, claim, born>>
      BY <1>3 DEF MutatorStep, Mutate, LockRow, Delete, Patch, AbortMutation, txn
    <2>2. (\E place : Goto(m, place)) /\ m \notin Creates
      BY <1>3, RequestKinds DEF MutatorStep, Mutate, LockRow, Delete, Patch, AbortMutation,
                                FinishMutation
    <2> QED BY <1>2, <2>1, <2>2 DEF Goto, TypeOK, Requests
  <1>4. CASE BreakDeadlock
    BY <1>1, <1>3, <1>4 DEF BreakDeadlock
  <1>5. CASE Tick \/ Finished
    BY <1>2, <1>5 DEF Tick, Finished, vars, txn
  <1> QED BY <1>3, <1>4, <1>5, PendingCreateStep DEF Next

-----------------------------------------------------------------------------
(***************************************************************************)
(* What a step does to the rows, whoever takes it                          *)
(***************************************************************************)
rows == <<users, ledger, births, claim, claimedAt, born>>

ClaimKey(r) ==
  /\ IsKeyed(r)
  /\ claim' = [claim EXCEPT ![r] = {ClaimRow(r)}]
  /\ claimedAt' = [claimedAt EXCEPT ![r] = clock]
  /\ KeyHolders(request[r].key) \subseteq {r}
  /\ \/ \A l \in ledger : l.key # request[r].key
     \/ \E l \in ledger : l.key = request[r].key /\ l.exp <= clock
  /\ UNCHANGED <<users, ledger, births, born, clock>>

BearUser(r) ==
  /\ \E id \in FreshIds :
       born' = [born EXCEPT ![r] = {[id |-> id, email |-> Email(r), version |-> 1]}]
  /\ UNCHANGED <<users, ledger, births, claim, claimedAt, clock>>

CompleteClaim(r) ==
  /\ \E c \in claim[r], d \in LedgerRow :
       d.key = c.key /\ claim' = [claim EXCEPT ![r] = {d}]
  /\ UNCHANGED <<users, ledger, births, born, claimedAt, clock>>

Drop(r) == EndTxn(r) /\ UNCHANGED <<users, ledger, births, clock>>

PublishRows(r) == pc[r] = "commit" /\ Publish(r) /\ UNCHANGED clock

CleanRows ==
  /\ ledger' \subseteq ledger
  /\ \A l \in ledger \ ledger' : l.exp <= clock
  /\ UNCHANGED <<users, births, claim, claimedAt, born, clock>>

DeleteRows(u) ==
  /\ users' = {x \in users : x.id # u}
  /\ ledger' = {l \in ledger : l.user # u}
  /\ UNCHANGED <<births, claim, claimedAt, born, clock>>

PatchRows ==
  /\ {u.id : u \in users'} = {u.id : u \in users}
  /\ UNCHANGED <<ledger, births, claim, claimedAt, born, clock>>

\* Every step does one of these to the rows, or nothing.
RowStep ==
  \/ \E r \in Creates : \/ ClaimKey(r) \/ BearUser(r) \/ CompleteClaim(r)
                        \/ Drop(r) \/ PublishRows(r)
  \/ CleanRows
  \/ \E u : DeleteRows(u)
  \/ PatchRows
  \/ UNCHANGED rows /\ clock' >= clock

LEMMA RowSteps ==
  ASSUME TypeInv, [Next]_vars
  PROVE  RowStep
  <1> USE DEF TypeInv, database, txn
  <1>0. CASE UNCHANGED rows /\ UNCHANGED clock
    BY <1>0 DEF TypeOK, RowStep
  <1>1. ASSUME NEW r \in Creates, CreateStep(r) PROVE RowStep
    <2>1. CASE \E why : Fail(r, why) /\ UNCHANGED clock
      BY <2>1 DEF Fail, Rollback, Drop, RowStep
    <2>2. CASE Receive(r) \/ Begin(r)
      BY <1>0, <2>2 DEF Receive, Begin, rows
    <2>3. CASE CleanupIfDue(r)
      <3>1. ASSUME NEW batch \in CleanupRows \union {{}}, NEW l \in batch
            PROVE  l.exp <= clock
        BY <3>1 DEF CleanupRows
      <3>2. CleanRows
        BY <2>3, <3>1 DEF CleanupIfDue, CleanRows
      <3> QED BY <3>2 DEF RowStep
    <2>4. CASE Reclaim(r)
      <3>1. CASE Claimed(r) /\ ExpiredRows(request[r].key, now[r]) # {}
        <4>1. KeyHolders(request[r].key) \subseteq {r}
          BY <2>4, <3>1 DEF Reclaim, Blockers
        <4>2. \E l \in ledger : l.key = request[r].key /\ l.exp <= clock
          <5>1. PICK l \in ledger : l.key = request[r].key /\ l.exp <= now[r]
            BY <3>1 DEF ExpiredRows
          <5> QED BY <5>1 DEF Places, TypeOK, LedgerRow
        <4> QED
          BY <2>4, <3>1, <4>1, <4>2 DEF Reclaim, Claimed, ClaimKey, RowStep, Places
      <3>2. CASE UNCHANGED <<claim, claimedAt>>
        BY <1>0, <2>4, <3>2 DEF Reclaim, rows
      <3> QED BY <2>4, <3>1, <3>2 DEF Reclaim
    <2>5. CASE Insert(r)
      <3>1. CASE Claimed(r) /\ \A l \in ledger : l.key # request[r].key
        <4>1. KeyHolders(request[r].key) \subseteq {r}
          BY <2>5 DEF Insert, Blockers
        <4> QED
          BY <2>5, <3>1, <4>1 DEF Insert, Claimed, ClaimKey, RowStep, Places
      <3>2. CASE UNCHANGED <<claim, claimedAt>>
        BY <1>0, <2>5, <3>2 DEF Insert, rows
      <3> QED BY <2>5, <3>1, <3>2 DEF Insert
    <2>6. CASE SelectActive(r) \/ Replay(r) \/ Lookup(r)
      BY <1>0, <2>1, <2>6 DEF SelectActive, Replay, Lookup, rows
    <2>7. CASE Create(r)
      BY <2>1, <2>7 DEF Create, BearUser, RowStep
    <2>8. CASE Complete(r)
      <3>1. ASSUME NEW c \in claim[r], NEW b \in born[r],
                   claim' = [claim EXCEPT ![r] = {[c EXCEPT !.user = b.id]}]
            PROVE  \E d \in LedgerRow : d.key = c.key /\ claim' = [claim EXCEPT ![r] = {d}]
        <4>1. c \in LedgerRow /\ b.id \in UserIds
          BY <1>1 DEF TypeOK, UserRow
        <4>2. [c EXCEPT !.user = b.id] \in LedgerRow /\ [c EXCEPT !.user = b.id].key = c.key
          BY <4>1 DEF LedgerRow
        <4> QED BY <3>1, <4>2
      <3> QED
        BY <2>1, <2>8, <3>1 DEF Complete, CompleteClaim, RowStep
    <2>9. CASE Commit(r)
      BY <2>9 DEF Commit, PublishRows, RowStep
    <2> QED
      BY <1>1, <2>2, <2>3, <2>4, <2>5, <2>6, <2>7, <2>8, <2>9 DEF CreateStep
  <1>2. ASSUME NEW r \in Creates, AbortRetryably(r) PROVE RowStep
    BY <1>2 DEF AbortRetryably, Rollback, Drop, RowStep
  <1>3. ASSUME NEW r \in Creates, CreateFault(r) PROVE RowStep
    <2>1. CASE ConnectionLost(r)
      BY <2>1 DEF ConnectionLost, Fail, Rollback, Drop, RowStep
    <2>2. CASE CommitAckLost(r)
      BY <2>2 DEF CommitAckLost, PublishRows, RowStep
    <2> QED BY <1>2, <1>3, <2>1, <2>2 DEF CreateFault, AbortInjected
  <1>4. ASSUME NEW m \in Mutators, MutatorStep(m) \/ AbortMutation(m) PROVE RowStep
    <2>1. CASE Mutate(m) \/ LockRow(m) \/ AbortMutation(m)
      BY <1>0, <2>1 DEF Mutate, LockRow, AbortMutation, rows
    <2>2. CASE Delete(m)
      BY <2>2 DEF Delete, DeleteRows, RowStep
    <2>3. CASE Patch(m)
      <3>1. \A u \in users : Patched(m, u).id = u.id
        BY DEF Patched
      <3>2. {u.id : u \in users'} = {u.id : u \in users}
        BY <2>3, <3>1 DEF Patch
      <3> QED BY <2>3, <3>2 DEF Patch, PatchRows, RowStep
    <2> QED BY <1>4, <2>1, <2>2, <2>3 DEF MutatorStep
  <1>5. CASE BreakDeadlock
    BY <1>2, <1>4, <1>5 DEF BreakDeadlock
  <1>6. CASE Tick
    BY <1>6 DEF Tick, TypeOK, RowStep, rows
  <1>7. CASE UNCHANGED vars
    BY <1>0, <1>7 DEF vars, rows
  <1> QED BY <1>1, <1>3, <1>4, <1>5, <1>6, <1>7 DEF Next, Finished
-----------------------------------------------------------------------------
(***************************************************************************)
(* The committed rows                                                      *)
(***************************************************************************)
\* The windows of a ledger row and of the birth it points to are the same.
LEMMA SameWindow ==
  ASSUME FreshRows, LedgerComplete, NEW l \in ledger, NEW a \in births, l.user = a.id
  PROVE  l.exp = a.exp
  BY DEF FreshRows, LedgerComplete

LEMMA ClaimKeyData ==
  ASSUME TypeInv, PendingRows, DataInv, NEW r \in Creates, ClaimKey(r), UNCHANGED request
  PROVE  DataInv'
  <1> USE DEF TypeInv, DataInv, ClaimKey
  <1>1. FreshRows'
    BY DEF FreshRows
  <1>2. /\ claim'[r] = {ClaimRow(r)} /\ claimedAt'[r] = clock
        /\ \A q \in Creates : q # r => claim'[q] = claim[q] /\ claimedAt'[q] = claimedAt[q]
        /\ ClaimRow(r).key = request[r].key
    BY DEF TypeOK, ClaimRow
  <1>3. KeysExclusive'
    <2>1. \A q \in Creates : q # r => \A c \in claim[q] : c.key # request[r].key
      BY DEF KeyHolders
    <2> QED BY <1>2, <2>1 DEF KeysExclusive
  <1>4. ASSUME NEW a \in births, NEW u \in users, a.id = u.id, a.key = request[r].key
        PROVE  a.exp <= clock
    <2> SUFFICES ASSUME a.exp > clock PROVE FALSE
      BY DEF TypeOK, Birth
    <2>1. PICK l \in ledger : l.key = a.key /\ l.user = a.id
      BY <1>4 DEF Windows, IsKeyed
    <2>2. l.exp = a.exp
      BY <2>1, SameWindow
    <2>3. l.exp <= clock
      BY <1>4, <2>1 DEF KeysExclusive
    <2> QED BY <2>2, <2>3 DEF TypeOK, LedgerRow
  <1>5. Windows'
    <2>1. \A q \in Creates : claimedAt'[q] <= clock
      BY <1>2 DEF Windows, TypeOK
    <2> QED BY <1>2, <1>4, <2>1 DEF Windows
  <1>6. LedgerComplete' /\ OneUserPerActiveKey'
    BY DEF LedgerComplete, OneUserPerActiveKey
  <1> QED BY <1>1, <1>3, <1>5, <1>6

LEMMA BearUserData ==
  ASSUME TypeInv, PendingRows, DataInv, NEW r \in Creates, BearUser(r), UNCHANGED request
  PROVE  DataInv'
  <1> USE DEF TypeInv, DataInv, BearUser
  <1>1. PICK id \in FreshIds :
          born' = [born EXCEPT ![r] = {[id |-> id, email |-> Email(r), version |-> 1]}]
    OBVIOUS
  <1>2. /\ \A d \in born'[r] : d.id = id
        /\ \A q \in Creates : q # r => born'[q] = born[q]
    BY <1>1 DEF TypeOK
  <1>3. /\ \A a \in births : a.id # id
        /\ \A q \in Creates : \A d \in born[q] : d.id # id
    BY DEF FreshIds
  <1>4. FreshRows'
    BY <1>2, <1>3 DEF FreshRows
  <1>5. KeysExclusive' /\ Windows' /\ LedgerComplete' /\ OneUserPerActiveKey'
    BY DEF KeysExclusive, Windows, LedgerComplete, OneUserPerActiveKey
  <1> QED BY <1>4, <1>5

LEMMA CompleteClaimData ==
  ASSUME TypeInv, PendingRows, DataInv, NEW r \in Creates, CompleteClaim(r),
         UNCHANGED request
  PROVE  DataInv'
  <1> USE DEF TypeInv, DataInv, CompleteClaim
  <1>1. PICK c \in claim[r], d \in LedgerRow :
          d.key = c.key /\ claim' = [claim EXCEPT ![r] = {d}]
    OBVIOUS
  <1>2. claim'[r] = {d} /\ \A q \in Creates : q # r => claim'[q] = claim[q]
    BY <1>1 DEF TypeOK
  <1>3. KeysExclusive'
    BY <1>1, <1>2 DEF KeysExclusive
  <1>4. Windows'
    BY <1>2 DEF Windows
  <1>5. FreshRows' /\ LedgerComplete' /\ OneUserPerActiveKey'
    BY DEF FreshRows, LedgerComplete, OneUserPerActiveKey
  <1> QED BY <1>3, <1>4, <1>5

\* What EndTxn leaves of the private rows.
LEMMA Ended ==
  ASSUME TypeOK, NEW r \in Creates, EndTxn(r)
  PROVE  /\ claim'[r] = {} /\ born'[r] = {} /\ claimedAt'[r] = 0
         /\ \A q \in Creates : q # r => /\ claim'[q] = claim[q] /\ born'[q] = born[q]
                                        /\ claimedAt'[q] = claimedAt[q]
  BY DEF EndTxn, TypeOK

LEMMA DropData ==
  ASSUME TypeInv, PendingRows, DataInv, NEW r \in Creates, Drop(r), UNCHANGED request
  PROVE  DataInv'
  <1> USE DEF TypeInv, DataInv, Drop
  <1>1. FreshRows' /\ KeysExclusive'
    BY Ended DEF FreshRows, KeysExclusive
  <1>2. Windows'
    <2>1. \A q \in Creates : claimedAt'[q] <= clock'
      BY Ended DEF Windows, TypeOK
    <2> QED BY <2>1, Ended DEF Windows
  <1>3. LedgerComplete' /\ OneUserPerActiveKey'
    BY DEF LedgerComplete, OneUserPerActiveKey
  <1> QED BY <1>1, <1>2, <1>3

\* Committing: a claim outlives every window of its key, so the new binding
\* takes the key from nobody who still holds it.
LEMMA PublishData ==
  ASSUME TypeInv, PendingRows, DataInv, NEW r \in Creates, PublishRows(r),
         UNCHANGED request
  PROVE  DataInv'
  <1> USE DEF TypeInv, DataInv
  <1> DEFINE New(b) == [id |-> b.id, key |-> request[r].key, fp |-> request[r].fp,
                        at |-> claimedAt[r], exp |-> now[r] + TTL]
  <1>1. /\ users' = users \union born[r]
        /\ ledger' = {l \in ledger : \A c \in claim[r] : l.key # c.key} \union claim[r]
        /\ births' = births \union {New(b) : b \in born[r]}
        /\ clock' = clock /\ EndTxn(r) /\ pc[r] = "commit"
    BY DEF PublishRows, Publish
  <1>2. ASSUME NEW b
        PROVE  /\ New(b).id = b.id /\ New(b).key = request[r].key /\ New(b).fp = request[r].fp
               /\ New(b).at = claimedAt[r] /\ New(b).exp = now[r] + TTL
    OBVIOUS
  <1> HIDE DEF New
  <1>3. Pending(r)
    BY DEF PendingRows
  <1>4. ASSUME NEW a \in births', a \notin births
        PROVE  \E b \in born[r] : a = New(b)
    BY <1>1, <1>4
  <1>5. ASSUME NEW c \in claim[r]
        PROVE  /\ c.key = request[r].key /\ c.fp = request[r].fp /\ c.exp = now[r] + TTL
               /\ c.key # NoKey /\ \E b \in born[r] : b.id = c.user
    BY <1>1, <1>3, Sentinels DEF Pending, TypeOK, LedgerRow
  <1>6. IsKeyed(r) /\ born[r] # {} => claim[r] # {}
    BY <1>1, <1>3 DEF Pending
  <1>7. FreshRows'
    <2>1. \A q \in Creates : \A b \in born'[q], a \in births' : a.id # b.id
      <3> SUFFICES ASSUME NEW q \in Creates, NEW b \in born'[q], NEW a \in births'
                   PROVE  a.id # b.id
        OBVIOUS
      <3>1. q # r /\ b \in born[q]
        BY <1>1, Ended
      <3>2. CASE a \in births
        BY <3>1, <3>2 DEF FreshRows
      <3>3. CASE a \notin births
        BY <1>2, <1>4, <3>1, <3>3 DEF FreshRows
      <3> QED BY <3>2, <3>3
    <2>2. \A p, q \in Creates : p # q => \A b \in born'[p], d \in born'[q] : b.id # d.id
      BY <1>1, Ended DEF FreshRows
    <2>3. \A u \in users' : \E a \in births' : a.id = u.id
      <3> SUFFICES ASSUME NEW u \in users' PROVE \E a \in births' : a.id = u.id
        OBVIOUS
      <3>1. CASE u \in users
        BY <1>1, <3>1 DEF FreshRows
      <3>2. CASE u \in born[r]
        BY <1>1, <1>2, <3>2
      <3> QED BY <1>1, <3>1, <3>2
    <2>4. \A a, b \in births' : a.id = b.id => a = b
      <3> SUFFICES ASSUME NEW a \in births', NEW b \in births', a.id = b.id PROVE a = b
        OBVIOUS
      <3>1. CASE a \in births /\ b \in births
        BY <3>1 DEF FreshRows
      <3>2. CASE a \in births /\ b \notin births
        BY <1>2, <1>4, <3>2 DEF FreshRows
      <3>3. CASE a \notin births /\ b \in births
        BY <1>2, <1>4, <3>3 DEF FreshRows
      <3>4. CASE a \notin births /\ b \notin births
        BY <1>3, <1>4, <3>4 DEF Pending
      <3> QED BY <3>1, <3>2, <3>3, <3>4
    <2> QED BY <2>1, <2>2, <2>3, <2>4 DEF FreshRows
  <1>8. KeysExclusive'
    <2>1. \A l, m \in ledger' : l.key = m.key => l = m
      <3>1. \A c, d \in claim[r] : c = d
        BY <1>3 DEF Pending
      <3> QED BY <1>1, <3>1 DEF KeysExclusive
    <2> QED BY <1>1, <2>1, Ended DEF KeysExclusive
  <1>9. ASSUME NEW a \in births', NEW u \in users', a.id = u.id
        PROVE  \/ a \in births /\ u \in users
               \/ u \in born[r] /\ a = New(u)
    <2>1. CASE a \in births /\ u \in born[r]
      BY <1>9, <2>1 DEF FreshRows
    <2>2. CASE a \notin births
      <3>1. PICK b \in born[r] : a = New(b) /\ b.id = u.id
        BY <1>2, <1>4, <1>9, <2>2
      <3>2. u \notin users
        BY <3>1 DEF FreshRows
      <3> QED BY <1>1, <1>3, <3>1, <3>2 DEF Pending
    <2> QED BY <1>1, <2>1, <2>2
  <1>10. Windows'
    <2>1. \A q \in Creates : claimedAt'[q] <= clock'
      BY <1>1, Ended DEF Windows, TypeOK
    <2>2. ASSUME NEW a \in births', NEW u \in users',
                 a.id = u.id, a.key # NoKey, a.exp > clock
          PROVE  \E l \in ledger' : l.key = a.key /\ l.user = a.id
      <3>1. CASE a \in births /\ u \in users
        <4>1. PICK l \in ledger : l.key = a.key /\ l.user = a.id
          BY <2>2, <3>1 DEF Windows
        <4>2. ASSUME NEW c \in claim[r], l.key = c.key PROVE FALSE
          <5>1. a.exp <= claimedAt[r] /\ claimedAt[r] <= clock
            BY <1>5, <2>2, <3>1, <4>1, <4>2 DEF Windows
          <5> QED BY <2>2, <3>1, <5>1 DEF TypeOK, Birth
        <4> QED BY <1>1, <4>1, <4>2
      <3>2. CASE u \in born[r] /\ a = New(u)
        <4>1. PICK c \in claim[r] : TRUE
          BY <1>2, <1>6, <2>2, <3>2 DEF IsKeyed
        <4>2. c.key = a.key /\ c.user = a.id
          BY <1>2, <1>3, <1>5, <3>2 DEF Pending
        <4> QED BY <1>1, <4>1, <4>2
      <3> QED BY <1>9, <2>2, <3>1, <3>2
    <2>3. ASSUME NEW q \in Creates, claim'[q] # {}, NEW a \in births', NEW u \in users',
                 a.id = u.id, a.key = request[q].key
          PROVE  a.exp <= claimedAt'[q]
      <3>1. q # r /\ claim[q] # {} /\ claimedAt'[q] = claimedAt[q]
        BY <1>1, <2>3, Ended
      <3>2. PICK c \in claim[q] : c.key = request[q].key /\ c.key # NoKey
        BY <3>1, Sentinels DEF PendingRows, Pending, TypeOK, LedgerRow
      <3>3. CASE a \in births /\ u \in users
        BY <2>3, <3>1, <3>3 DEF Windows
      <3>4. CASE u \in born[r] /\ a = New(u)
        <4>1. request[r].key = request[q].key /\ claim[r] # {}
          BY <1>2, <1>6, <2>3, <3>2, <3>4 DEF IsKeyed
        <4> QED BY <1>5, <3>1, <3>2, <4>1 DEF KeysExclusive
      <3> QED BY <1>9, <2>3, <3>3, <3>4
    <2> QED BY <1>1, <2>1, <2>2, <2>3 DEF Windows
  <1>11. LedgerComplete'
    <2> SUFFICES ASSUME NEW l \in ledger'
                 PROVE  \E u \in users', b \in births' :
                          /\ u.id = l.user
                          /\ b.id = l.user /\ b.key = l.key /\ b.fp = l.fp /\ b.exp = l.exp
      BY DEF LedgerComplete
    <2>1. CASE l \in ledger
      BY <1>1, <2>1 DEF LedgerComplete
    <2>2. CASE l \in claim[r]
      <3>1. PICK b \in born[r] : b.id = l.user
        BY <1>5, <2>2
      <3>2. b \in users' /\ New(b) \in births'
        BY <1>1
      <3>3. /\ New(b).id = l.user /\ New(b).key = l.key /\ New(b).fp = l.fp
            /\ New(b).exp = l.exp
        BY <1>2, <1>5, <2>2, <3>1
      <3> QED BY <3>1, <3>2, <3>3
    <2> QED BY <1>1, <2>1, <2>2
  <1>12. OneUserPerActiveKey'
    <2> SUFFICES ASSUME NEW a \in births', NEW b \in births', a.key = b.key, a.key # NoKey,
                        NEW u \in users', NEW x \in users', u.id = a.id, x.id = b.id
                 PROVE  a = b \/ a.exp <= b.at \/ b.exp <= a.at
      BY DEF OneUserPerActiveKey
    <2>1. CASE a \in births /\ u \in users /\ b \in births /\ x \in users
      BY <2>1 DEF OneUserPerActiveKey
    <2>2. CASE u \in born[r] /\ a = New(u) /\ x \in born[r] /\ b = New(x)
      BY <1>3, <2>2 DEF Pending
    <2>3. CASE u \in born[r] /\ a = New(u) /\ b \in births /\ x \in users
      <3>1. request[r].key = b.key /\ claim[r] # {}
        BY <1>2, <1>6, <2>3 DEF IsKeyed
      <3> QED BY <1>2, <2>3, <3>1 DEF Windows
    <2>4. CASE a \in births /\ u \in users /\ x \in born[r] /\ b = New(x)
      <3>1. request[r].key = a.key /\ claim[r] # {}
        BY <1>2, <1>6, <2>4 DEF IsKeyed
      <3> QED BY <1>2, <2>4, <3>1 DEF Windows
    <2> QED BY <1>9, <2>1, <2>2, <2>3, <2>4
  <1> QED BY <1>7, <1>8, <1>10, <1>11, <1>12

LEMMA CleanData ==
  ASSUME TypeInv, DataInv, CleanRows, UNCHANGED request
  PROVE  DataInv'
  <1> USE DEF TypeInv, DataInv, CleanRows
  <1>1. FreshRows' /\ KeysExclusive' /\ LedgerComplete' /\ OneUserPerActiveKey'
    BY DEF FreshRows, KeysExclusive, LedgerComplete, OneUserPerActiveKey
  <1>2. ASSUME NEW a \in births, NEW u \in users, a.id = u.id, a.key # NoKey, a.exp > clock
        PROVE  \E l \in ledger' : l.key = a.key /\ l.user = a.id
    <2>1. PICK l \in ledger : l.key = a.key /\ l.user = a.id
      BY <1>2 DEF Windows
    <2>2. l.exp = a.exp
      BY <2>1, SameWindow
    <2>3. l \in ledger'
      BY <1>2, <2>2 DEF TypeOK, LedgerRow
    <2> QED BY <2>1, <2>3
  <1>3. Windows'
    BY <1>2 DEF Windows
  <1> QED BY <1>1, <1>3

LEMMA DeleteData ==
  ASSUME DataInv, NEW v, DeleteRows(v), UNCHANGED request
  PROVE  DataInv'
  <1> USE DEF DataInv, DeleteRows
  <1>1. FreshRows' /\ KeysExclusive' /\ OneUserPerActiveKey'
    BY DEF FreshRows, KeysExclusive, OneUserPerActiveKey
  <1>2. Windows'
    BY DEF Windows
  <1>3. LedgerComplete'
    BY DEF LedgerComplete
  <1> QED BY <1>1, <1>2, <1>3

LEMMA PatchData ==
  ASSUME DataInv, PatchRows, UNCHANGED request
  PROVE  DataInv'
  <1> USE DEF DataInv, PatchRows
  <1>1. /\ \A u \in users' : \E x \in users : x.id = u.id
        /\ \A x \in users : \E u \in users' : u.id = x.id
    <2>1. \A u \in users' : u.id \in {x.id : x \in users}
      OBVIOUS
    <2>2. \A x \in users : x.id \in {u.id : u \in users'}
      OBVIOUS
    <2> QED BY <2>1, <2>2
  <1>2. FreshRows' /\ KeysExclusive'
    BY <1>1 DEF FreshRows, KeysExclusive
  <1>3. Windows'
    BY <1>1 DEF Windows
  <1>4. LedgerComplete'
    BY <1>1 DEF LedgerComplete
  <1>5. OneUserPerActiveKey'
    <2> SUFFICES ASSUME NEW a \in births, NEW b \in births, a.key = b.key, a.key # NoKey,
                        NEW u \in users', NEW x \in users', u.id = a.id, x.id = b.id
                 PROVE  a = b \/ a.exp <= b.at \/ b.exp <= a.at
      BY DEF OneUserPerActiveKey
    <2>1. {a.id, b.id} \subseteq {y.id : y \in users}
      BY <1>1
    <2> QED BY <2>1 DEF OneUserPerActiveKey
  <1> QED BY <1>2, <1>3, <1>4, <1>5

LEMMA DataInvStep ==
  ASSUME TypeInv, TypeInv', PendingRows, DataInv, [Next]_vars
  PROVE  DataInv'
  <1>1. UNCHANGED request
    BY OwnEntries DEF Next, vars, MutatorStep, Mutate, LockRow, Delete, Patch, BreakDeadlock,
       AbortRetryably, AbortMutation, Tick, Finished, TypeInv
  <1>2. CASE UNCHANGED rows /\ clock' >= clock
    <2>1. FreshRows' /\ KeysExclusive' /\ LedgerComplete' /\ OneUserPerActiveKey'
      BY <1>2 DEF rows, DataInv, FreshRows, KeysExclusive, LedgerComplete, OneUserPerActiveKey
    <2>2. /\ \A r \in Creates : claimedAt[r] <= clock'
          /\ \A a \in births : a.exp > clock' => a.exp > clock
      BY <1>2 DEF DataInv, Windows, TypeInv, TypeOK, Birth
    <2>3. Windows'
      BY <1>1, <1>2, <2>2 DEF rows, DataInv, Windows
    <2> QED BY <2>1, <2>3 DEF DataInv
  <1> QED
    BY <1>1, <1>2, RowSteps, ClaimKeyData, BearUserData, CompleteClaimData, DropData,
       PublishData, CleanData, DeleteData, PatchData
    DEF RowStep
-----------------------------------------------------------------------------
(***************************************************************************)
(* The answers                                                             *)
(***************************************************************************)
\* Births are never taken back.
LEMMA BirthsGrow ==
  ASSUME TypeInv, [Next]_vars
  PROVE  births \subseteq births'
  BY RowSteps DEF RowStep, rows, ClaimKey, BearUser, CompleteClaim, Drop, PublishRows, Publish,
     CleanRows, DeleteRows, PatchRows

Resolved(r) ==
  /\ found[r] # NoUser => \E b \in births : /\ b.id = found[r]
                                            /\ b.key = request[r].key
                                            /\ b.fp = request[r].fp
  /\ pc[r] = "replay" => found[r] # NoUser
  /\ pc[r] = "commit" /\ born[r] = {} => found[r] # NoUser
  /\ answer[r] \in {"created", "replayed"} => found[r] # NoUser
  /\ answer[r] # "none" => pc[r] = "done"

LEMMA ResolvedOwnStep ==
  ASSUME TypeInv, PendingRows, DataInv, Resolutions,
         NEW r \in Creates, CreateStep(r) \/ CreateFault(r)
  PROVE  Resolved(r)'
  <1> USE DEF TypeInv
  <1>0. r \in Requests /\ Resolved(r) /\ UNCHANGED request /\ Pending(r)
    BY OwnEntries DEF Requests, Resolutions, Resolved, PendingRows
  <1>1. births \subseteq births'
    BY BirthsGrow DEF Next
  <1> USE DEF Resolved
  <1>2. ASSUME Rollback(r), pc'[r] \in {"begin", "done"},
               \/ answer'[r] \notin {"created", "replayed", "none"} /\ pc'[r] = "done"
               \/ answer'[r] = "none"
        PROVE  Resolved(r)'
    <2>1. found'[r] = NoUser
      BY <1>2 DEF Rollback, TypeOK
    <2> QED BY <1>2, <2>1
  <1>3. ASSUME NEW why \in Answers \ {"created", "replayed", "none"}, Fail(r, why)
        PROVE  Resolved(r)'
    BY <1>0, <1>2, <1>3 DEF Fail, Goto, TypeOK
  <1>4. ASSUME AbortRetryably(r) PROVE Resolved(r)'
    <2>1. Rollback(r) /\ pc[r] # "done"
      BY <1>4 DEF AbortRetryably, InTxn
    <2>2. \/ pc'[r] = "begin" /\ answer'[r] = answer[r]
          \/ pc'[r] = "done" /\ answer'[r] = "busy"
      BY <1>0, <1>4 DEF AbortRetryably, Goto, TypeOK
    <2> QED BY <1>0, <1>2, <2>1, <2>2
  <1>5. CASE CreateFault(r)
    <2>1. CASE ConnectionLost(r)
      BY <1>3, <2>1 DEF ConnectionLost, Answers
    <2>2. CASE CommitAckLost(r)
      <3>1. found'[r] = NoUser /\ answer'[r] = "unavailable" /\ pc'[r] = "done"
        BY <1>0, <2>2 DEF CommitAckLost, Goto, TypeOK
      <3> QED BY <3>1
    <2> QED BY <1>4, <1>5, <2>1, <2>2 DEF CreateFault, AbortInjected
  <1>6. ASSUME NEW place \in CreatePlaces \ {"replay", "commit", "done"}, Goto(r, place),
               UNCHANGED <<found, answer>>, pc[r] # "done"
        PROVE  Resolved(r)'
    BY <1>0, <1>1, <1>6 DEF Goto, TypeOK, CreatePlaces
  <1>7. CASE Receive(r) \/ CleanupIfDue(r) \/ Begin(r) \/ Reclaim(r) \/ Insert(r)
    <2>1. UNCHANGED <<found, answer>> /\ pc[r] # "done"
      BY <1>7 DEF Receive, CleanupIfDue, Begin, Reclaim, Insert, txn
    <2>2. \E place \in CreatePlaces \ {"replay", "commit", "done"} : Goto(r, place)
      BY <1>7 DEF Receive, CleanupIfDue, Begin, Reclaim, Insert, Claimed, CreatePlaces, InTxn
    <2> QED BY <1>6, <2>1, <2>2
  <1>8. CASE SelectActive(r)
    <2>1. CASE \E why \in {"mismatch", "orphan", "exhausted"} : Fail(r, why)
      BY <1>3, <2>1 DEF Answers
    <2>2. ASSUME NEW l \in ActiveRows(request[r].key, now[r]), l.fp = request[r].fp,
                 l.user # NoUser, found' = [found EXCEPT ![r] = l.user],
                 Goto(r, "replay"), UNCHANGED answer, pc[r] = "select"
          PROVE  Resolved(r)'
      <3>1. l \in ledger /\ l.key = request[r].key
        BY DEF ActiveRows
      <3>2. PICK b \in births : b.id = l.user /\ b.key = l.key /\ b.fp = l.fp
        BY <3>1 DEF DataInv, LedgerComplete
      <3>3. found'[r] = l.user /\ pc'[r] = "replay" /\ answer'[r] = answer[r]
        BY <1>0, <2>2 DEF Goto, TypeOK
      <3> QED BY <1>0, <1>1, <2>2, <3>1, <3>2, <3>3
    <2>3. CASE Goto(r, "reclaim") /\ UNCHANGED <<found, answer>>
      BY <1>6, <1>8, <2>3 DEF SelectActive, CreatePlaces, InTxn
    <2> QED BY <1>8, <2>1, <2>2, <2>3 DEF SelectActive
  <1>9. CASE Replay(r)
    <2>1. CASE Fail(r, "vanished")
      BY <1>3, <2>1 DEF Answers
    <2>2. CASE Goto(r, "commit") /\ UNCHANGED <<found, answer, born>> /\ pc[r] = "replay"
      BY <1>0, <1>1, <2>2 DEF Goto, TypeOK
    <2> QED BY <1>9, <2>1, <2>2 DEF Replay, txn
  <1>10. CASE Lookup(r)
    <2>1. CASE Fail(r, "conflict")
      BY <1>3, <2>1 DEF Answers
    <2>2. CASE Goto(r, "create") /\ UNCHANGED <<found, answer>> /\ pc[r] = "lookup"
      BY <1>6, <2>2 DEF CreatePlaces, InTxn
    <2> QED BY <1>10, <2>1, <2>2 DEF Lookup, txn
  <1>11. CASE Create(r)
    <2>1. CASE Fail(r, "conflict")
      BY <1>3, <2>1 DEF Answers
    <2>2. CASE /\ \E b : born' = [born EXCEPT ![r] = {b}]
               /\ \E place \in {"complete", "commit"} : Goto(r, place)
               /\ UNCHANGED <<found, answer>> /\ pc[r] = "create"
      <3>1. born'[r] # {} /\ pc'[r] \in {"complete", "commit"}
        BY <1>0, <2>2 DEF Goto, TypeOK
      <3>2. found'[r] = found[r] /\ answer'[r] = answer[r]
        BY <2>2
      <3> QED BY <1>0, <1>1, <2>2, <3>1, <3>2
    <2> QED BY <1>11, <2>1, <2>2 DEF Create
  <1>12. CASE Complete(r)
    <2>1. CASE Fail(r, "incomplete")
      BY <1>3, <2>1 DEF Answers
    <2>2. CASE /\ born[r] # {} /\ Goto(r, "commit") /\ pc[r] = "complete"
               /\ UNCHANGED <<found, answer, born>>
      BY <1>0, <1>1, <2>2 DEF Goto, TypeOK
    <2> QED BY <1>12, <2>1, <2>2 DEF Complete
  <1>13. CASE Commit(r)
    <2>1. pc'[r] = "done" /\ answer'[r] \in {"created", "replayed"}
      BY <1>0, <1>13 DEF Commit, Goto, TypeOK
    <2>2. CASE born[r] = {} /\ UNCHANGED found
      BY <1>0, <1>1, <1>13, <2>1, <2>2 DEF Commit
    <2>3. ASSUME NEW b \in born[r], found' = [found EXCEPT ![r] = b.id]
          PROVE  Resolved(r)'
      <3>1. b.id \in UserIds /\ found'[r] = b.id
        BY <2>3 DEF TypeOK, UserRow
      <3>2. \E a \in births' : a.id = b.id /\ a.key = request[r].key /\ a.fp = request[r].fp
        <4> DEFINE a == [id |-> b.id, key |-> request[r].key, fp |-> request[r].fp,
                         at |-> claimedAt[r], exp |-> now[r] + TTL]
        <4>1. a \in births'
          BY <1>13 DEF Commit, Publish
        <4>2. a.id = b.id /\ a.key = request[r].key /\ a.fp = request[r].fp
          OBVIOUS
        <4> QED BY <4>1, <4>2
      <3> QED BY <1>0, <2>1, <3>1, <3>2, Sentinels
    <2> QED BY <1>13, <2>2, <2>3 DEF Commit
  <1> QED
    BY <1>5, <1>7, <1>8, <1>9, <1>10, <1>11, <1>12, <1>13 DEF CreateStep

\* No other step touches what a create has resolved to.
LEMMA ResolutionsStep ==
  ASSUME TypeInv, PendingRows, DataInv, Resolutions, [Next]_vars
  PROVE  Resolutions'
  <1> USE DEF TypeInv
  <1>0. births \subseteq births'
    BY BirthsGrow
  <1>1. ASSUME NEW q \in Creates, UNCHANGED request,
               pc'[q] = pc[q], found'[q] = found[q], born'[q] = born[q], answer'[q] = answer[q]
        PROVE  Resolved(q)'
    BY <1>0, <1>1 DEF Resolutions, Resolved
  <1>2. ASSUME NEW r \in Creates, CreateStep(r) \/ CreateFault(r) PROVE Resolutions'
    <2>1. \A q \in Creates : Resolved(q)'
      BY <1>1, <1>2, OwnEntries, ResolvedOwnStep
    <2> QED BY <2>1 DEF Resolutions, Resolved
  <1>3. ASSUME NEW r \in Creates, AbortRetryably(r) PROVE Resolutions'
    <2>1. /\ Rollback(r) /\ UNCHANGED request /\ pc[r] # "done"
          /\ \/ Goto(r, "begin") /\ UNCHANGED answer
             \/ Goto(r, "done") /\ answer' = [answer EXCEPT ![r] = "busy"]
      BY <1>3 DEF AbortRetryably, InTxn
    <2>2. \A q \in Creates : q # r => /\ pc'[q] = pc[q] /\ found'[q] = found[q]
                                     /\ born'[q] = born[q] /\ answer'[q] = answer[q]
      BY <2>1 DEF Rollback, EndTxn, Goto, TypeOK, Requests
    <2>3. /\ found'[r] = NoUser
          /\ \/ pc'[r] = "begin" /\ answer'[r] = answer[r]
             \/ pc'[r] = "done" /\ answer'[r] = "busy"
      BY <2>1 DEF Rollback, Goto, TypeOK, Requests
    <2>4. answer[r] = "none"
      BY <2>1 DEF Resolutions
    <2>5. Resolved(r)'
      BY <2>3, <2>4 DEF Resolved
    <2>6. \A q \in Creates : Resolved(q)'
      BY <1>1, <2>1, <2>2, <2>5
    <2> QED BY <2>6 DEF Resolutions, Resolved
  <1>4. ASSUME UNCHANGED <<request, found, born>>,
               \A q \in Creates : pc'[q] = pc[q] /\ answer'[q] = answer[q]
        PROVE  Resolutions'
    <2>1. \A q \in Creates : Resolved(q)'
      BY <1>1, <1>4
    <2> QED BY <2>1 DEF Resolutions, Resolved
  <1>5. ASSUME NEW m \in Mutators, MutatorStep(m) \/ AbortMutation(m) PROVE Resolutions'
    <2>1. UNCHANGED <<request, found, born>>
      BY <1>5 DEF MutatorStep, Mutate, LockRow, Delete, Patch, AbortMutation, txn
    <2>2. /\ m \notin Creates
          /\ \E place : Goto(m, place)
          /\ UNCHANGED answer \/ \E how : answer' = [answer EXCEPT ![m] = how]
      BY <1>5, RequestKinds DEF MutatorStep, Mutate, LockRow, Delete, Patch, AbortMutation,
                                FinishMutation
    <2>3. \A q \in Creates : pc'[q] = pc[q] /\ answer'[q] = answer[q]
      BY <2>2 DEF Goto, TypeOK, Requests
    <2> QED BY <1>4, <2>1, <2>3
  <1>6. CASE BreakDeadlock
    BY <1>3, <1>5, <1>6 DEF BreakDeadlock
  <1>7. CASE Tick \/ UNCHANGED vars
    BY <1>4, <1>7 DEF Tick, vars, txn
  <1> QED BY <1>2, <1>5, <1>6, <1>7 DEF Next, Finished
\* A create is newly answered "created" only by the commit of its own row.
LEMMA CreatedStep ==
  ASSUME TypeInv, Resolutions, NEW r \in Creates, CreateStep(r) \/ CreateFault(r),
         answer'[r] = "created"
  PROVE  \/ answer[r] = "created" /\ found'[r] = found[r]
         \/ \E b \in born[r] : found'[r] = b.id
  <1> USE DEF TypeInv
  <1>0. r \in Requests /\ pc[r] # "done" /\ answer[r] = "none"
    <2>1. pc[r] # "done"
      BY DEF CreateStep, Receive, CleanupIfDue, Begin, Reclaim, Insert, SelectActive, Replay,
             Lookup, Create, Complete, Commit, CreateFault, AbortInjected, AbortRetryably,
             ConnectionLost, CommitAckLost, InTxn
    <2> QED BY <2>1 DEF Resolutions, Requests
  <1>1. CASE Commit(r)
    BY <1>0, <1>1 DEF Commit, TypeOK
  <1>2. ASSUME NEW why \in Answers \ {"created"}, Fail(r, why) PROVE FALSE
    BY <1>0, <1>2 DEF Fail, TypeOK
  <1>3. CASE UNCHANGED answer
    BY <1>0, <1>3
  <1>4. CASE Receive(r) \/ CleanupIfDue(r) \/ Begin(r) \/ Reclaim(r) \/ Insert(r)
    BY <1>3, <1>4 DEF Receive, CleanupIfDue, Begin, Reclaim, Insert
  <1>5. CASE SelectActive(r) \/ Replay(r) \/ Lookup(r) \/ Create(r) \/ Complete(r)
    <2>1. \/ UNCHANGED answer
          \/ \E why \in Answers \ {"created"} : Fail(r, why)
      BY <1>5 DEF SelectActive, Replay, Lookup, Create, Complete, Answers
    <2> QED BY <1>2, <1>3, <2>1
  <1>6. CASE CreateFault(r)
    <2>1. answer' = answer \/ \E how \in Answers \ {"created"} : answer' = [answer EXCEPT ![r] = how]
      BY <1>6 DEF CreateFault, AbortInjected, AbortRetryably, ConnectionLost, CommitAckLost,
                  Fail, Answers
    <2> QED BY <1>0, <1>3, <2>1 DEF TypeOK
  <1> QED BY <1>1, <1>4, <1>5, <1>6 DEF CreateStep

LEMMA AnnouncedOnceStep ==
  ASSUME TypeInv, DataInv, Resolutions, AnnouncedOnce, [Next]_vars
  PROVE  AnnouncedOnce'
  <1> USE DEF TypeInv
  <1>1. ASSUME NEW r \in Creates, CreateStep(r) \/ CreateFault(r) PROVE AnnouncedOnce'
    <2>1. \A q \in Creates : q # r => answer'[q] = answer[q] /\ found'[q] = found[q]
      BY <1>1, OwnEntries
    <2>2. ASSUME NEW q \in Creates, q # r, answer'[q] = "created", answer'[r] = "created"
          PROVE  found'[q] # found'[r]
      <3>1. CASE answer[r] = "created" /\ found'[r] = found[r]
        BY <2>1, <2>2, <3>1 DEF AnnouncedOnce
      <3>2. ASSUME NEW b \in born[r], found'[r] = b.id PROVE found'[q] # found'[r]
        <4>1. \E a \in births : a.id = found[q]
          BY <2>1, <2>2 DEF Resolutions
        <4> QED BY <2>1, <2>2, <3>2, <4>1 DEF DataInv, FreshRows
      <3> QED BY <1>1, <2>2, <3>1, <3>2, CreatedStep
    <2> QED BY <2>1, <2>2 DEF AnnouncedOnce
  <1>2. ASSUME \A q \in Creates :
                 answer'[q] = "created" => answer[q] = "created" /\ found'[q] = found[q]
        PROVE  AnnouncedOnce'
    BY <1>2 DEF AnnouncedOnce
  <1>3. ASSUME NEW r \in Creates, AbortRetryably(r) PROVE AnnouncedOnce'
    <2>1. answer[r] = "none"
      BY <1>3 DEF AbortRetryably, InTxn, Resolutions
    <2>2. Rollback(r) /\ (UNCHANGED answer \/ answer' = [answer EXCEPT ![r] = "busy"])
      BY <1>3 DEF AbortRetryably
    <2> QED BY <1>2, <2>1, <2>2 DEF Rollback, TypeOK, Requests
  <1>4. ASSUME NEW m \in Mutators, MutatorStep(m) \/ AbortMutation(m) PROVE AnnouncedOnce'
    <2>1. UNCHANGED found /\ m \notin Creates
      BY <1>4, RequestKinds DEF MutatorStep, Mutate, LockRow, Delete, Patch, AbortMutation, txn
    <2>2. UNCHANGED answer \/ \E how : answer' = [answer EXCEPT ![m] = how]
      BY <1>4 DEF MutatorStep, Mutate, LockRow, Delete, Patch, AbortMutation, FinishMutation
    <2> QED BY <1>2, <2>1, <2>2 DEF TypeOK, Requests
  <1>5. CASE BreakDeadlock
    BY <1>3, <1>4, <1>5 DEF BreakDeadlock
  <1>6. CASE Tick \/ UNCHANGED vars
    BY <1>2, <1>6 DEF Tick, vars, txn
  <1> QED BY <1>1, <1>4, <1>5, <1>6 DEF Next, Finished

-----------------------------------------------------------------------------
(***************************************************************************)
(* The results                                                             *)
(***************************************************************************)
LEMMA IInvStep == IInv /\ [Next]_vars => IInv'
  <1> SUFFICES ASSUME IInv, [Next]_vars PROVE IInv'
    OBVIOUS
  <1> USE DEF IInv
  <1>1. TypeInv' /\ PendingRows'
    <2>1. CASE Next
      BY <2>1, TypeInvStep, PendingStep
    <2>2. CASE UNCHANGED vars
      BY <2>2 DEF vars, TypeInv, TypeOK, Places, IsKeyed, PendingRows, Pending
    <2> QED BY <2>1, <2>2
  <1>2. DataInv'
    BY <1>1, DataInvStep
  <1>3. Resolutions' /\ AnnouncedOnce'
    BY ResolutionsStep, AnnouncedOnceStep
  <1> QED BY <1>1, <1>2, <1>3

LEMMA Inductive == Spec => []IInv
  BY InitInv, IInvStep, PTL DEF Spec

\* Every variable keeps the shape of its column or field, in the runs of the
\* create, update and delete statements of any number of requests.
THEOREM TypeCorrect == Spec => []TypeOK
  <1>1. IInv => TypeOK
    BY DEF IInv, TypeInv
  <1> QED BY <1>1, Inductive, PTL

\* No interruption of createIdempotently and no cascade of deleteById leaves a
\* ledger row that is incomplete or points at nobody.
THEOREM LedgerIsComplete == Spec => []LedgerComplete
  <1>1. IInv => LedgerComplete
    BY DEF IInv, DataInv
  <1> QED BY <1>1, Inductive, PTL

\* claim() gives a key to one living user per window, for any number of racing
\* creates, of transaction attempts, and of cleanup batches of any size.
THEOREM KeyCreatesOneUser == Spec => []OneUserPerActiveKey
  <1>1. IInv => OneUserPerActiveKey
    BY DEF IInv, DataInv
  <1> QED BY <1>1, Inductive, PTL

\* The user a 201 names was created under the request's key with its payload.
THEOREM AnswersAreOwn == Spec => []AnswersOwnUser
  <1>1. IInv => AnswersOwnUser
    BY DEF IInv, Resolutions, AnswersOwnUser
  <1> QED BY <1>1, Inductive, PTL

\* execute() announces a user once at most: a replay is silent.
THEOREM CreationAnnouncedOnce == Spec => []AnnouncedOnce
  <1>1. IInv => AnnouncedOnce
    BY DEF IInv
  <1> QED BY <1>1, Inductive, PTL
LEMMA KeyBindingKept ==
  ASSUME TypeInv, PendingRows, DataInv, [Next]_vars
  PROVE  KeyBindingStep
  <1> USE DEF DataInv
  <1>1. ASSUME NEW r \in Creates, PublishRows(r) PROVE KeyBindingStep
    <2>1. /\ users' = users \union born[r]
          /\ ledger' = {l \in ledger : \A c \in claim[r] : l.key # c.key} \union claim[r]
          /\ Pending(r) /\ pc[r] = "commit"
      BY <1>1 DEF PublishRows, Publish, PendingRows
    <2>2. ASSUME NEW l \in ledger' \ ledger
          PROVE  (\A u \in users : u.id # l.user) /\ \E u \in users' : u.id = l.user
      <3>1. PICK b \in born[r] : b.id = l.user
        BY <2>1, <2>2 DEF Pending
      <3> QED BY <1>1, <2>1, <3>1 DEF FreshRows
    <2>3. ASSUME NEW l \in ledger \ ledger', l.exp > clock PROVE FALSE
      <3>1. claim[r] # {} /\ l.key = request[r].key
        BY <2>1, <2>3 DEF Pending
      <3>2. PICK u \in users, a \in births :
              u.id = l.user /\ a.id = l.user /\ a.key = l.key /\ a.exp = l.exp
        BY <2>3 DEF LedgerComplete
      <3>3. a.exp <= claimedAt[r] /\ claimedAt[r] <= clock
        BY <1>1, <3>1, <3>2 DEF Windows
      <3> QED BY <2>3, <3>2, <3>3 DEF TypeInv, TypeOK, LedgerRow
    <2> QED BY <2>2, <2>3 DEF KeyBindingStep
  <1>2. CASE CleanRows
    BY <1>2 DEF CleanRows, TypeInv, TypeOK, LedgerRow, KeyBindingStep
  <1>3. CASE \E v : DeleteRows(v)
    BY <1>3 DEF DeleteRows, KeyBindingStep
  <1>4. CASE ledger' = ledger
    BY <1>4 DEF KeyBindingStep
  <1> QED
    BY <1>1, <1>2, <1>3, <1>4, RowSteps
    DEF RowStep, rows, ClaimKey, BearUser, CompleteClaim, Drop, PatchRows

\* claim(), the cleanup and the cascade change the ledger and the users together:
\* a binding appears with its user and outlives its window unless the user goes.
THEOREM KeyStaysBound == Spec => KeyBinding
  <1>1. IInv /\ [Next]_vars => [KeyBindingStep]_vars
    BY KeyBindingKept DEF IInv
  <1> QED BY <1>1, Inductive, PTL DEF Spec, KeyBinding
-----------------------------------------------------------------------------
(***************************************************************************)
(* What a create must never answer                                         *)
(***************************************************************************)
\* A claim is incomplete until complete() points it at the user.
Unfinished(r) ==
  pc[r] \in {"lookup", "create", "complete"} => \A c \in claim[r] : c.user = NoUser

\* A user was born under the request's key with its payload and is no more.
Gone(r) ==
  \E b \in births : /\ b.key = request[r].key /\ b.fp = request[r].fp
                    /\ b.id \notin {u.id : u \in users}

\* The part of ClaimNeverLost that is about one create.
NeverLost(r) ==
  /\ answer[r] \notin {"orphan", "incomplete"}
  /\ answer[r] = "vanished" => Gone(r)

ClaimInv == \A r \in Creates : Unfinished(r) /\ NeverLost(r)

\* Ids are not reused: a user that is gone stays gone.
LEMMA GoneStays ==
  ASSUME IInv, [Next]_vars, NEW b \in births, b.id \notin {u.id : u \in users}
  PROVE  b \in births' /\ b.id \notin {u.id : u \in users'}
  <1> USE DEF IInv, DataInv
  <1>1. b \in births'
    BY BirthsGrow
  <1>2. ASSUME NEW r \in Creates, PublishRows(r) PROVE b.id \notin {u.id : u \in users'}
    <2>1. users' = users \union born[r]
      BY <1>2 DEF PublishRows, Publish
    <2>2. \A d \in born[r] : b.id # d.id
      BY DEF FreshRows
    <2> QED BY <2>1, <2>2
  <1>3. CASE \E v : DeleteRows(v)
    BY <1>1, <1>3 DEF DeleteRows
  <1>4. CASE {u.id : u \in users'} = {u.id : u \in users}
    BY <1>1, <1>4
  <1> QED
    BY <1>1, <1>2, <1>3, <1>4, RowSteps
    DEF RowStep, rows, ClaimKey, BearUser, CompleteClaim, Drop, CleanRows, PatchRows

\* What a create's own step makes of its claim and its answer.
LEMMA ClaimInvOwnStep ==
  ASSUME IInv, ClaimInv, NEW r \in Creates, CreateStep(r) \/ CreateFault(r)
  PROVE  /\ Unfinished(r)'
         /\ answer'[r] \notin {"orphan", "incomplete"}
         /\ answer'[r] = "vanished" => Gone(r)
  <1> USE DEF IInv, TypeInv
  <1> DEFINE Fine == /\ answer'[r] \notin {"orphan", "incomplete"}
                     /\ answer'[r] = "vanished" => Gone(r)
  <1>0. /\ r \in Requests /\ Unfinished(r) /\ NeverLost(r) /\ Pending(r)
        /\ UNCHANGED request
    BY OwnEntries DEF ClaimInv, Requests, PendingRows
  <1>1. ASSUME NEW why \in Answers \ {"orphan", "incomplete", "vanished"}, Fail(r, why)
        PROVE  Unfinished(r)' /\ Fine
    BY <1>0, <1>1 DEF Fail, Goto, TypeOK, Unfinished
  <1>2. CASE UNCHANGED <<claim, answer>> /\ \E place \in {"cleanup", "begin", "reclaim", "insert",
                                                "select", "replay", "commit"} : Goto(r, place)
    BY <1>0, <1>2 DEF Goto, TypeOK, Unfinished, NeverLost
  <1>3. CASE Receive(r) \/ CleanupIfDue(r)
    BY <1>2, <1>3 DEF Receive, CleanupIfDue, txn
  <1>4. CASE Begin(r)
    <2>1. pc[r] = "begin" /\ claim' = claim /\ answer' = answer
      BY <1>4 DEF Begin
    <2> QED BY <1>0, <2>1 DEF Unfinished, NeverLost, Pending
  <1>5. ASSUME Claimed(r), UNCHANGED answer PROVE Unfinished(r)' /\ Fine
    <2>1. claim'[r] = {ClaimRow(r)} /\ ClaimRow(r).user = NoUser
      BY <1>5 DEF Claimed, ClaimRow, TypeOK
    <2> QED BY <1>0, <1>5, <2>1 DEF Unfinished, NeverLost
  <1>6. CASE Reclaim(r) \/ Insert(r)
    <2>1. UNCHANGED answer
      BY <1>6 DEF Reclaim, Insert
    <2>2. Claimed(r) \/ (UNCHANGED claim /\ Goto(r, "insert")) \/ (UNCHANGED claim /\ Goto(r, "select"))
      BY <1>6, Zenon DEF Reclaim, Insert
    <2> QED BY <1>2, <1>5, <2>1, <2>2
  <1>7. CASE SelectActive(r)
    <2>1. CASE \E why \in {"mismatch", "exhausted"} : Fail(r, why)
      BY <1>1, <2>1 DEF Answers
    <2>2. ASSUME NEW l \in ActiveRows(request[r].key, now[r]), l.user = NoUser PROVE FALSE
      <3>1. l \in ledger
        BY DEF ActiveRows
      <3>2. PICK u \in users : u.id = l.user
        BY <3>1 DEF DataInv, LedgerComplete
      <3> QED BY <2>2, <3>2, Sentinels DEF TypeOK, UserRow
    <2>3. CASE UNCHANGED <<claim, answer>> /\ (Goto(r, "replay") \/ Goto(r, "reclaim"))
      BY <1>2, <2>3
    <2> QED BY <1>7, <2>1, <2>2, <2>3 DEF SelectActive
  <1>8. CASE Replay(r)
    <2>1. CASE Fail(r, "vanished") /\ \A u \in users : u.id # found[r]
      <3>1. answer'[r] = "vanished" /\ pc'[r] = "done"
        BY <1>0, <2>1 DEF Fail, Goto, TypeOK
      <3>2. Gone(r)
        BY <1>8, <2>1 DEF Replay, Resolutions, Gone
      <3> QED BY <3>1, <3>2 DEF Unfinished
    <2>2. CASE Goto(r, "commit") /\ UNCHANGED <<claim, answer>>
      BY <1>2, <2>2
    <2> QED BY <1>8, <2>1, <2>2 DEF Replay, txn
  <1>9. CASE Lookup(r)
    <2>1. CASE Fail(r, "conflict")
      BY <1>1, <2>1 DEF Answers
    <2>2. CASE Goto(r, "create") /\ UNCHANGED <<claim, answer>> /\ pc[r] = "lookup"
      BY <1>0, <2>2 DEF Unfinished, NeverLost
    <2> QED BY <1>9, <2>1, <2>2 DEF Lookup, txn
  <1>10. CASE Create(r)
    <2>1. CASE Fail(r, "conflict")
      BY <1>1, <2>1 DEF Answers
    <2>2. CASE UNCHANGED <<claim, answer>> /\ pc[r] = "create"
      BY <1>0, <2>2 DEF Unfinished, NeverLost
    <2> QED BY <1>10, <2>1, <2>2 DEF Create
  <1>11. CASE Complete(r)
    <2>1. \E c \in claim[r] : c.key = request[r].key /\ c.fp = request[r].fp /\ c.user = NoUser
      <3>1. pc[r] = "complete" /\ IsKeyed(r)
        BY <1>11 DEF Complete, Places
      <3>2. claim[r] # {}
        BY <1>0, <3>1 DEF Pending
      <3> QED BY <1>0, <3>1, <3>2 DEF Pending, Unfinished
    <2>2. UNCHANGED answer /\ Goto(r, "commit")
      BY <1>11, <2>1 DEF Complete
    <2> QED BY <1>0, <2>2 DEF Goto, TypeOK, Unfinished, NeverLost
  <1>12. CASE Commit(r)
    BY <1>0, <1>12 DEF Commit, Goto, TypeOK, Unfinished
  <1>13. ASSUME AbortRetryably(r) PROVE Unfinished(r)' /\ Fine
    <2>1. pc'[r] \in {"begin", "done"} /\ (answer' = answer \/ answer'[r] = "busy")
      BY <1>0, <1>13 DEF AbortRetryably, Goto, TypeOK
    <2> QED BY <1>0, <2>1 DEF Unfinished, NeverLost
  <1>14. CASE CreateFault(r)
    <2>1. CASE ConnectionLost(r)
      BY <1>1, <2>1 DEF ConnectionLost, Answers
    <2>2. CASE CommitAckLost(r)
      BY <1>0, <2>2 DEF CommitAckLost, Goto, TypeOK, Unfinished
    <2> QED BY <1>13, <1>14, <2>1, <2>2 DEF CreateFault, AbortInjected
  <1> QED
    BY <1>3, <1>4, <1>6, <1>7, <1>8, <1>9, <1>10, <1>11, <1>12, <1>14 DEF CreateStep

LEMMA ClaimInvStep == IInv /\ ClaimInv /\ [Next]_vars => ClaimInv'
  <1> SUFFICES ASSUME IInv, ClaimInv, [Next]_vars PROVE ClaimInv'
    OBVIOUS
  <1> USE DEF IInv, TypeInv
  <1>1. ASSUME UNCHANGED request, NEW q \in Creates, Gone(q) PROVE Gone(q)'
    BY <1>1, GoneStays DEF Gone
  <1>2. ASSUME UNCHANGED request, NEW q \in Creates, pc'[q] = pc[q], claim'[q] = claim[q],
               answer'[q] = answer[q]
        PROVE  Unfinished(q)' /\ NeverLost(q)'
    <2>1. Unfinished(q) /\ NeverLost(q)
      BY DEF ClaimInv
    <2> QED BY <1>1, <1>2, <2>1 DEF Unfinished, NeverLost
  <1>3. ASSUME NEW r \in Creates, CreateStep(r) \/ CreateFault(r) PROVE ClaimInv'
    <2>1. Unfinished(r)' /\ NeverLost(r)'
      BY <1>1, <1>3, OwnEntries, ClaimInvOwnStep DEF NeverLost
    <2>2. \A q \in Creates : q # r => Unfinished(q)' /\ NeverLost(q)'
      BY <1>2, <1>3, OwnEntries
    <2> QED BY <2>1, <2>2 DEF ClaimInv
  <1>4. ASSUME NEW r \in Creates, AbortRetryably(r) PROVE ClaimInv'
    <2>1. Rollback(r) /\ EndTxn(r) /\ UNCHANGED request
      BY <1>4 DEF AbortRetryably, Rollback
    <2>2. /\ pc'[r] \in {"begin", "done"} /\ (answer' = answer \/ answer'[r] = "busy")
          /\ \A q \in Creates : q # r => pc'[q] = pc[q] /\ answer'[q] = answer[q]
      BY <1>4 DEF AbortRetryably, Goto, TypeOK, Requests
    <2>3. \A q \in Creates : q # r => claim'[q] = claim[q]
      BY <2>1 DEF EndTxn, TypeOK
    <2>4. NeverLost(r) /\ Unfinished(r)'
      BY <2>2 DEF ClaimInv, Unfinished
    <2>5. NeverLost(r)'
      BY <1>1, <2>1, <2>2, <2>4 DEF NeverLost
    <2> QED BY <1>2, <2>1, <2>2, <2>3, <2>4, <2>5 DEF ClaimInv
  <1>5. ASSUME UNCHANGED <<request, claim>>, \A q \in Creates : pc'[q] = pc[q] /\ answer'[q] = answer[q]
        PROVE  ClaimInv'
    BY <1>2, <1>5 DEF ClaimInv
  <1>6. ASSUME NEW m \in Mutators, MutatorStep(m) \/ AbortMutation(m) PROVE ClaimInv'
    <2>1. UNCHANGED <<request, claim>>
      BY <1>6 DEF MutatorStep, Mutate, LockRow, Delete, Patch, AbortMutation, txn
    <2>2. /\ m \notin Creates
          /\ \E place : Goto(m, place)
          /\ UNCHANGED answer \/ \E how : answer' = [answer EXCEPT ![m] = how]
      BY <1>6, RequestKinds DEF MutatorStep, Mutate, LockRow, Delete, Patch, AbortMutation,
                                FinishMutation
    <2>3. \A q \in Creates : pc'[q] = pc[q] /\ answer'[q] = answer[q]
      BY <2>2 DEF Goto, TypeOK, Requests
    <2> QED BY <1>5, <2>1, <2>3
  <1>7. CASE BreakDeadlock
    BY <1>4, <1>6, <1>7 DEF BreakDeadlock
  <1>8. CASE Tick \/ UNCHANGED vars
    BY <1>5, <1>8 DEF Tick, vars, txn
  <1> QED BY <1>3, <1>6, <1>7, <1>8 DEF Next, Finished

\* createIdempotently meets none of the states that it calls inconsistent, but for a
\* user that a delete has taken between the two reads of a replay.
THEOREM ClaimsAreNeverLost == Spec => []ClaimNeverLost
  <1>1. Init => ClaimInv
    BY DEF Init, ClaimInv, Unfinished, NeverLost, Requests
  <1>2. ClaimInv => ClaimNeverLost
    BY DEF ClaimInv, NeverLost, Gone, ClaimNeverLost
  <1> QED BY <1>1, <1>2, Inductive, ClaimInvStep, PTL DEF Spec
-----------------------------------------------------------------------------
(***************************************************************************)
(* What an update or a delete must never overwrite                         *)
(***************************************************************************)
\* Whoever has locked a row has locked a version that it accepts.
Aimed(m) ==
  pc[m] = "held" => \E x \in users : x.id = target[m] /\ x.version \in ifMatch[m]

\* Whoever has changed a user has left no row of it with the version it met.
Spent(m) ==
  answer[m] = "changed" =>
    /\ pc[m] = "done"
    /\ \E b \in births : b.id = target[m]
    /\ \E v \in ifMatch[m] : \A x \in users : x.id = target[m] => x.version > v

\* A row is locked by one statement, and an id names one row.
Alone == \A m, n \in Mutators :
           pc[m] = "held" /\ pc[n] = "held" /\ target[m] = target[n] => m = n
DistinctIds == \A x, y \in users : x.id = y.id => x = y

WriterInv ==
  /\ \A m \in Mutators : Aimed(m) /\ Spent(m)
  /\ Alone /\ DistinctIds /\ NoLostUpdate

\* New rows, with new ids, are all that a create changes for the others.
LEMMA WritersKept ==
  ASSUME WriterInv, UNCHANGED <<target, ifMatch>>, births \subseteq births',
         \A m \in Mutators : pc'[m] = pc[m] /\ answer'[m] = answer[m],
         users \subseteq users', DistinctIds',
         \A x \in users' \ users, b \in births : x.id # b.id
  PROVE  WriterInv'
  <1>1. \A m \in Mutators : Aimed(m)'
    BY DEF WriterInv, Aimed
  <1>2. ASSUME NEW m \in Mutators PROVE Spent(m)'
    BY DEF WriterInv, Spent
  <1>3. Alone' /\ NoLostUpdate'
    BY DEF WriterInv, Alone, NoLostUpdate
  <1> QED BY <1>1, <1>2, <1>3 DEF WriterInv

\* An answer without effect concerns nobody else.
LEMMA AnsweredIdle ==
  ASSUME WriterInv, NEW m \in Mutators, UNCHANGED <<users, births>>,
         pc'[m] # "held", answer'[m] # "changed",
         \A n \in Mutators : n # m =>
           /\ pc'[n] = pc[n] /\ answer'[n] = answer[n]
           /\ target'[n] = target[n] /\ ifMatch'[n] = ifMatch[n]
  PROVE  WriterInv'
  <1>1. \A n \in Mutators : Aimed(n)' /\ Spent(n)'
    BY DEF WriterInv, Aimed, Spent
  <1>2. Alone' /\ DistinctIds'
    BY DEF WriterInv, Alone, DistinctIds
  <1>3. NoLostUpdate'
    BY DEF WriterInv, NoLostUpdate
  <1> QED BY <1>1, <1>2, <1>3 DEF WriterInv

\* The holder of a row removes it or raises its version.
LEMMA RowWritten ==
  ASSUME TypeOK, FreshRows, WriterInv, NEW m \in Mutators, pc[m] = "held",
         UNCHANGED <<target, ifMatch, births>>, FinishMutation(m, "changed"), DistinctIds',
         \A x \in users : x.id # target[m] => x \in users',
         \A y \in users' : \/ y \in users /\ y.id # target[m]
                           \/ \E x \in users : /\ x.id = target[m] /\ y.id = x.id
                                               /\ y.version = x.version + 1
  PROVE  WriterInv'
  <1>0. /\ pc'[m] = "done" /\ answer'[m] = "changed"
        /\ \A n \in Mutators : n # m => pc'[n] = pc[n] /\ answer'[n] = answer[n]
    BY DEF FinishMutation, Goto, TypeOK, Requests
  <1>1. PICK x \in users : x.id = target[m] /\ x.version \in ifMatch[m]
    BY DEF WriterInv, Aimed
  <1>2. \A y \in users : y.version \in Nat
    BY DEF TypeOK, UserRow
  <1>3. \A y \in users' : y.id = target[m] => y.version = x.version + 1
    BY <1>1 DEF WriterInv, DistinctIds
  <1>4. ASSUME NEW n \in Mutators PROVE Aimed(n)'
    <2> SUFFICES ASSUME n # m, pc[n] = "held"
                 PROVE  \E y \in users' : y.id = target[n] /\ y.version \in ifMatch[n]
      BY <1>0 DEF Aimed
    <2>1. target[n] # target[m]
      BY DEF WriterInv, Alone
    <2>2. PICK y \in users : y.id = target[n] /\ y.version \in ifMatch[n]
      BY DEF WriterInv, Aimed
    <2> QED BY <2>1, <2>2
  <1>5. Spent(m)'
    <2>1. \E b \in births : b.id = target[m]
      BY <1>1 DEF FreshRows
    <2>2. \A y \in users' : y.id = target[m] => y.version > x.version
      BY <1>1, <1>2, <1>3
    <2> QED BY <1>0, <1>1, <2>1, <2>2 DEF Spent
  <1>6. ASSUME NEW n \in Mutators, n # m PROVE Spent(n)'
    <2> SUFFICES ASSUME answer[n] = "changed" PROVE Spent(n)'
      BY <1>0, <1>6 DEF Spent
    <2>1. /\ pc[n] = "done" /\ \E b \in births : b.id = target[n]
      BY DEF WriterInv, Spent
    <2>2. PICK v \in ifMatch[n] : \A y \in users : y.id = target[n] => y.version > v
      BY DEF WriterInv, Spent
    <2>3. v \in Nat
      BY <2>2 DEF TypeOK
    <2>4. \A y \in users' : y.id = target[n] => y.version > v
      BY <1>2, <2>2, <2>3
    <2> QED BY <1>0, <1>6, <2>1, <2>2, <2>4 DEF Spent
  <1>7. Alone'
    BY <1>0 DEF WriterInv, Alone
  <1>8. NoLostUpdate'
    <2>1. ASSUME NEW n \in Mutators, n # m, answer[n] = "changed", target[n] = target[m],
                 NEW v, ifMatch[m] = {v}, ifMatch[n] = {v}
          PROVE  FALSE
      <3>1. x.version = v
        BY <1>1, <2>1
      <3>2. x.version > v
        BY <1>1, <2>1 DEF WriterInv, Spent
      <3> QED BY <1>2, <3>1, <3>2
    <2> QED BY <1>0, <2>1 DEF WriterInv, NoLostUpdate
  <1> QED BY <1>4, <1>5, <1>6, <1>7, <1>8 DEF WriterInv

\* Every statement of an update or a delete is one of these.
LEMMA WriterMutatorStep ==
  ASSUME IInv, WriterInv, NEW m \in Mutators, MutatorStep(m) \/ AbortMutation(m)
  PROVE  WriterInv'
  <1> USE DEF IInv, TypeInv
  <1>0. m \in Requests /\ \A n \in Mutators : n \in Requests
    BY DEF Requests
  <1>1. ASSUME NEW how, how # "changed", FinishMutation(m, how), UNCHANGED <<users, births>>,
               \A n \in Mutators : n # m => target'[n] = target[n] /\ ifMatch'[n] = ifMatch[n]
        PROVE  WriterInv'
    <2>1. /\ pc'[m] = "done" /\ answer'[m] = how
          /\ \A n \in Mutators : n # m => pc'[n] = pc[n] /\ answer'[n] = answer[n]
      BY <1>0, <1>1 DEF FinishMutation, Goto, TypeOK
    <2> QED BY <1>1, <2>1, AnsweredIdle
  <1>2. CASE AbortMutation(m)
    BY <1>1, <1>2 DEF AbortMutation, database, mutation
  <1>3. CASE Mutate(m)
    <2>1. /\ UNCHANGED <<users, births>> /\ pc[m] = "idle"
          /\ \A n \in Mutators : n # m => target'[n] = target[n] /\ ifMatch'[n] = ifMatch[n]
      BY <1>3 DEF Mutate, database, TypeOK
    <2>2. CASE \E how \in {"missing", "stale"} : FinishMutation(m, how)
      BY <1>1, <2>1, <2>2
    <2>3. CASE Goto(m, "row") /\ UNCHANGED answer
      <3>1. answer[m] # "changed"
        BY <2>1 DEF WriterInv, Spent
      <3>2. pc'[m] = "row" /\ \A n \in Mutators : n # m => pc'[n] = pc[n]
        BY <1>0, <2>3 DEF Goto, TypeOK
      <3> QED BY <2>1, <2>3, <3>1, <3>2, AnsweredIdle
    <2> QED BY <1>3, <2>2, <2>3 DEF Mutate
  <1>4. CASE LockRow(m)
    <2>1. UNCHANGED <<users, births, target, ifMatch>> /\ pc[m] = "row"
      BY <1>4 DEF LockRow, database, mutation
    <2>2. CASE FinishMutation(m, "stale")
      BY <1>1, <2>1, <2>2
    <2>3. ASSUME Goto(m, "held"), UNCHANGED answer,
                 \E x \in users : x.id = target[m] /\ x.version \in ifMatch[m]
          PROVE  WriterInv'
      <3>1. pc'[m] = "held" /\ \A n \in Mutators : n # m => pc'[n] = pc[n]
        BY <1>0, <2>3 DEF Goto, TypeOK
      <3>2. \A n \in Mutators : n # m => ~(pc[n] = "held" /\ target[n] = target[m])
        BY <1>4, <2>1 DEF LockRow, Blockers, RowHolders
      <3>3. \A n \in Mutators : Aimed(n)'
        BY <2>1, <2>3, <3>1 DEF WriterInv, Aimed
      <3>4. \A n \in Mutators : Spent(n)'
        BY <2>1, <2>3, <3>1 DEF WriterInv, Spent
      <3>5. Alone'
        BY <2>1, <3>1, <3>2 DEF WriterInv, Alone
      <3>6. DistinctIds' /\ NoLostUpdate'
        BY <2>1, <2>3 DEF WriterInv, DistinctIds, NoLostUpdate
      <3> QED BY <3>3, <3>4, <3>5, <3>6 DEF WriterInv
    <2> QED BY <1>4, <2>2, <2>3 DEF LockRow
  <1>5. CASE Delete(m)
    <2>1. /\ users' = {u \in users : u.id # target[m]} /\ pc[m] = "held"
          /\ FinishMutation(m, "changed") /\ UNCHANGED <<births, target, ifMatch>>
      BY <1>5 DEF Delete, mutation
    <2>2. DistinctIds'
      BY <2>1 DEF WriterInv, DistinctIds
    <2> QED BY <2>1, <2>2, RowWritten DEF DataInv
  <1>6. CASE Patch(m)
    <2>1. pc[m] = "held" /\ UNCHANGED <<births, target, ifMatch>>
      BY <1>6 DEF Patch, mutation
    <2>2. CASE FinishMutation(m, "conflict") /\ UNCHANGED users
      BY <1>1, <2>1, <2>2
    <2>3. ASSUME users' = {IF u.id = target[m] THEN Patched(m, u) ELSE u : u \in users},
                 FinishMutation(m, "changed")
          PROVE  WriterInv'
      <3>1. \A u \in users : Patched(m, u).id = u.id /\ Patched(m, u).version = u.version + 1
        BY DEF Patched
      <3>2. DistinctIds'
        BY <2>3, <3>1 DEF WriterInv, DistinctIds
      <3>3. \A u \in users : u.id # target[m] => u \in users'
        BY <2>3
      <3>4. ASSUME NEW y \in users'
            PROVE  \/ y \in users /\ y.id # target[m]
                   \/ \E x \in users : /\ x.id = target[m] /\ y.id = x.id
                                       /\ y.version = x.version + 1
        BY <2>3, <3>1
      <3> QED BY <2>1, <2>3, <3>2, <3>3, <3>4, RowWritten DEF DataInv
    <2> QED BY <1>6, <2>2, <2>3 DEF Patch
  <1> QED BY <1>2, <1>3, <1>4, <1>5, <1>6 DEF MutatorStep

\* A create leaves the updates and the deletes alone.
LEMMA WriterCreateStep ==
  ASSUME IInv, WriterInv, NEW r \in Creates,
         CreateStep(r) \/ CreateFault(r) \/ (AbortRetryably(r) /\ UNCHANGED faults)
  PROVE  WriterInv'
  <1> USE DEF IInv, TypeInv
  <1>0. r \in Requests /\ r \notin Mutators
    BY RequestKinds DEF Requests
  <1>1. UNCHANGED <<target, ifMatch>>
    BY DEF mutation, CreateStep, Receive, CleanupIfDue, Begin, Reclaim, Insert, SelectActive,
           Replay, Lookup, Create, Complete, Commit, CreateFault, AbortInjected,
           AbortRetryably, ConnectionLost, CommitAckLost
  <1>2. /\ \E place : Goto(r, place)
        /\ UNCHANGED answer \/ \E how : answer' = [answer EXCEPT ![r] = how]
    BY DEF CreateStep, Receive, CleanupIfDue, Begin, Reclaim, Insert, SelectActive, Replay,
           Lookup, Create, Complete, Commit, CreateFault, AbortInjected, AbortRetryably,
           ConnectionLost, CommitAckLost, Fail, Claimed, txn
  <1>3. \A m \in Mutators : pc'[m] = pc[m] /\ answer'[m] = answer[m]
    BY <1>0, <1>2 DEF Goto, TypeOK, Requests
  <1>4. UNCHANGED <<users, births>> \/ Publish(r)
    BY DEF database, CreateStep, Receive, CleanupIfDue, Begin, Reclaim, Insert, SelectActive,
           Replay, Lookup, Create, Complete, Commit, CreateFault, AbortInjected,
           AbortRetryably, ConnectionLost, CommitAckLost, Fail, Rollback, Claimed
  <1>5. CASE UNCHANGED <<users, births>>
    <2>1. DistinctIds'
      BY <1>5 DEF WriterInv, DistinctIds
    <2> QED BY <1>1, <1>3, <1>5, <2>1, WritersKept
  <1>6. CASE Publish(r)
    <2>1. users' = users \union born[r] /\ births \subseteq births'
      BY <1>6 DEF Publish
    <2>2. \A x \in born[r], b \in births : x.id # b.id
      BY DEF DataInv, FreshRows
    <2>3. \A x, y \in born[r] : x = y
      BY DEF PendingRows, Pending
    <2>4. DistinctIds'
      BY <2>1, <2>2, <2>3 DEF WriterInv, DistinctIds, DataInv, FreshRows
    <2> QED BY <1>1, <1>3, <2>1, <2>2, <2>4, WritersKept
  <1> QED BY <1>4, <1>5, <1>6

LEMMA WriterInvStep == IInv /\ WriterInv /\ [Next]_vars => WriterInv'
  <1> SUFFICES ASSUME IInv, WriterInv, [Next]_vars PROVE WriterInv'
    OBVIOUS
  <1>1. CASE Tick \/ UNCHANGED vars
    <2>1. UNCHANGED <<users, births, target, ifMatch, pc, answer>>
      BY <1>1 DEF Tick, vars, database, mutation
    <2>2. DistinctIds'
      BY <2>1 DEF WriterInv, DistinctIds
    <2> QED BY <2>1, <2>2, WritersKept
  <1> QED
    BY <1>1, WriterMutatorStep, WriterCreateStep DEF Next, Finished, BreakDeadlock

\* Two writers that name the same version of a user do not both take effect: the
\* later one finds, when it gets the row, that the version has moved on.
THEOREM NoUpdateIsLost == Spec => []NoLostUpdate
  <1>1. Init => WriterInv
    BY DEF Init, WriterInv, Aimed, Spent, Alone, DistinctIds, NoLostUpdate, Requests
  <1>2. WriterInv => NoLostUpdate
    BY DEF WriterInv
  <1> QED BY <1>1, <1>2, Inductive, WriterInvStep, PTL DEF Spec
-----------------------------------------------------------------------------
(***************************************************************************)
(* The promise of the Idempotency-Key                                      *)
(***************************************************************************)
\* A create that is on its way to a new user has not resolved to an older one.
Unresolved(r) ==
  pc[r] \notin {"replay", "commit", "done"} \/ (pc[r] = "commit" /\ born[r] # {})
    => found[r] = NoUser

UnresolvedInv == \A r \in Creates : Unresolved(r)

LEMMA UnresolvedOwnStep ==
  ASSUME IInv, UnresolvedInv, NEW r \in Creates, CreateStep(r) \/ CreateFault(r)
  PROVE  Unresolved(r)'
  <1> USE DEF IInv, TypeInv
  <1>0. r \in Requests /\ Unresolved(r) /\ Pending(r)
    BY DEF UnresolvedInv, Requests, PendingRows
  <1>1. CASE found'[r] = NoUser
    BY <1>1 DEF Unresolved
  <1>2. CASE \E place \in {"replay", "done"} : Goto(r, place)
    BY <1>0, <1>2 DEF Unresolved, Goto, TypeOK
  <1>3. CASE UNCHANGED found /\ pc[r] \notin {"replay", "commit", "done"}
    BY <1>0, <1>1, <1>3 DEF Unresolved
  <1>4. ASSUME NEW why, Fail(r, why) PROVE Unresolved(r)'
    BY <1>2, <1>4 DEF Fail
  <1>5. CASE Receive(r) \/ CleanupIfDue(r) \/ Begin(r) \/ Reclaim(r) \/ Insert(r)
    BY <1>3, <1>5 DEF Receive, CleanupIfDue, Begin, Reclaim, Insert, txn
  <1>6. CASE SelectActive(r)
    BY <1>2, <1>3, <1>4, <1>6 DEF SelectActive
  <1>7. CASE Replay(r)
    <2>1. CASE Goto(r, "commit") /\ UNCHANGED born /\ pc[r] = "replay"
      BY <1>0, <2>1 DEF Unresolved, Pending, Goto, TypeOK
    <2> QED BY <1>4, <1>7, <2>1 DEF Replay, txn
  <1>8. CASE Lookup(r) \/ Create(r) \/ Complete(r)
    BY <1>3, <1>4, <1>8 DEF Lookup, Create, Complete, txn
  <1>9. CASE Commit(r) \/ CommitAckLost(r)
    BY <1>2, <1>9 DEF Commit, CommitAckLost
  <1>10. CASE AbortInjected(r)
    BY <1>1, <1>10 DEF AbortInjected, AbortRetryably, Rollback, TypeOK
  <1>11. CASE ConnectionLost(r)
    BY <1>4, <1>11 DEF ConnectionLost
  <1> QED
    BY <1>5, <1>6, <1>7, <1>8, <1>9, <1>10, <1>11 DEF CreateStep, CreateFault

LEMMA UnresolvedStep == IInv /\ UnresolvedInv /\ [Next]_vars => UnresolvedInv'
  <1> SUFFICES ASSUME IInv, UnresolvedInv, [Next]_vars PROVE UnresolvedInv'
    OBVIOUS
  <1> USE DEF IInv, TypeInv
  <1>1. ASSUME NEW q \in Creates, pc'[q] = pc[q], found'[q] = found[q], born'[q] = born[q]
        PROVE  Unresolved(q)'
    BY <1>1 DEF UnresolvedInv, Unresolved
  <1>2. ASSUME NEW r \in Creates, CreateStep(r) \/ CreateFault(r) PROVE UnresolvedInv'
    BY <1>1, <1>2, OwnEntries, UnresolvedOwnStep DEF UnresolvedInv
  <1>3. ASSUME NEW r \in Creates, AbortRetryably(r) PROVE UnresolvedInv'
    <2>1. Rollback(r) /\ \E place : Goto(r, place)
      BY <1>3 DEF AbortRetryably
    <2>2. found'[r] = NoUser
      BY <2>1 DEF Rollback, TypeOK
    <2>3. \A q \in Creates : q # r => pc'[q] = pc[q] /\ found'[q] = found[q] /\ born'[q] = born[q]
      BY <2>1 DEF Rollback, EndTxn, Goto, TypeOK, Requests
    <2>4. Unresolved(r)'
      BY <2>2 DEF Unresolved
    <2> QED BY <1>1, <2>3, <2>4 DEF UnresolvedInv
  <1>4. ASSUME NEW m \in Mutators, MutatorStep(m) \/ AbortMutation(m) PROVE UnresolvedInv'
    <2>1. UNCHANGED <<found, born>>
      BY <1>4 DEF MutatorStep, Mutate, LockRow, Delete, Patch, AbortMutation, txn
    <2>2. m \notin Creates /\ \E place : Goto(m, place)
      BY <1>4, RequestKinds DEF MutatorStep, Mutate, LockRow, Delete, Patch, AbortMutation,
                                FinishMutation
    <2>3. \A q \in Creates : pc'[q] = pc[q]
      BY <2>2 DEF Goto, TypeOK, Requests
    <2> QED BY <1>1, <2>1, <2>3 DEF UnresolvedInv
  <1>5. CASE BreakDeadlock
    BY <1>3, <1>4, <1>5 DEF BreakDeadlock
  <1>6. CASE Tick \/ UNCHANGED vars
    BY <1>1, <1>6 DEF Tick, vars, txn, UnresolvedInv
  <1> QED BY <1>2, <1>4, <1>5, <1>6 DEF Next, Finished

\* COMMIT is the one step in which the promise creates a user and binds its key.
LEMMA PublishCreates ==
  ASSUME IInv, UnresolvedInv, NEW r \in Creates, pc[r] = "commit", Publish(r), NEW d \in born[r],
         found' = [found EXCEPT ![r] = d.id] \/ found' = [found EXCEPT ![r] = NoUser],
         UNCHANGED <<clock, request>>
  PROVE  Promise!CreateUser(r)
  <1> USE DEF IInv, TypeInv, DataInv
  <1>0. Pending(r) /\ born[r] = {d} /\ d.id \in UserIds /\ found[r] = NoUser
    BY DEF PendingRows, Pending, UnresolvedInv, Unresolved, TypeOK, UserRow
  <1>1. d.id \in UserIds \ {b.id : b \in births}
    BY <1>0 DEF FreshRows
  <1>2. {u.id : u \in users'} = {u.id : u \in users} \union {d.id}
    BY <1>0 DEF Publish
  <1>3. {b.id : b \in births'} = {b.id : b \in births} \union {d.id}
    <2> DEFINE New == [id |-> d.id, key |-> request[r].key, fp |-> request[r].fp,
                       at |-> claimedAt[r], exp |-> now[r] + TTL]
    <2>1. births' = births \union {New}
      BY <1>0 DEF Publish
    <2>2. New.id = d.id
      OBVIOUS
    <2> HIDE DEF New
    <2> QED BY <2>1, <2>2
  <1>4. found' \in {found, [found EXCEPT ![r] = d.id]}
    BY <1>0 DEF TypeOK
  <1>5. CASE request[r].key = NoKey
    <2>1. claim[r] = {}
      BY <1>0, <1>5, Sentinels DEF Pending, TypeOK, LedgerRow
    <2>2. UNCHANGED ledger
      BY <2>1 DEF Publish
    <2> QED BY <1>1, <1>2, <1>3, <1>4, <1>5, <2>2 DEF Promise!CreateUser
  <1>6. CASE request[r].key # NoKey
    <2>1. PICK c \in claim[r] : claim[r] = {c}
      BY <1>0, <1>6 DEF Pending, IsKeyed
    <2>2. c = [key |-> request[r].key, fp |-> request[r].fp, user |-> d.id, exp |-> now[r] + TTL]
      BY <1>0, <2>1 DEF Pending, TypeOK, LedgerRow
    <2>3. ledger' = {b \in ledger : b.key # request[r].key} \union {c}
      BY <1>0, <2>1 DEF Publish, Pending
    <2>4. ASSUME NEW b \in ledger, b.key = request[r].key PROVE b.exp <= clock
      <3>1. PICK u \in users, a \in births :
              u.id = b.user /\ a.id = b.user /\ a.key = b.key /\ a.exp = b.exp
        BY DEF LedgerComplete
      <3>2. a.exp <= claimedAt[r] /\ claimedAt[r] <= clock
        BY <2>1, <2>4, <3>1 DEF Windows
      <3> QED BY <3>1, <3>2 DEF TypeOK, Birth
    <2>5. now[r] \in 0 .. clock
      BY DEF TypeOK, Places
    <2> QED BY <1>1, <1>2, <1>3, <1>4, <1>6, <2>2, <2>3, <2>4, <2>5 DEF Promise!CreateUser
  <1> QED BY <1>5, <1>6

\* What a create's own step is in the terms of the promise.
LEMMA PromiseOwnStep ==
  ASSUME IInv, UnresolvedInv, NEW r \in Creates, CreateStep(r) \/ CreateFault(r)
  PROVE  [Promise!Next]_(Promise!vars)
  <1> USE DEF IInv, TypeInv
  <1>0. UNCHANGED request /\ Pending(r)
    BY OwnEntries DEF PendingRows
  <1>1. CASE UNCHANGED <<users, births, ledger, clock, found>>
    BY <1>0, <1>1 DEF Promise!vars
  <1>2. ASSUME UNCHANGED <<users, births, ledger, clock>>, found' = [found EXCEPT ![r] = NoUser]
        PROVE  Promise!Next
    BY <1>0, <1>2 DEF Promise!Next, Promise!GiveUp
  <1>3. ASSUME NEW why, Fail(r, why), UNCHANGED clock PROVE Promise!Next
    BY <1>2, <1>3 DEF Fail, Rollback, database
  <1>4. CASE CleanupIfDue(r)
    <2>1. PICK batch \in CleanupRows \union {{}} : ledger' = ledger \ batch
      BY <1>4 DEF CleanupIfDue
    <2>2. (batch \intersect ledger) \in SUBSET {b \in ledger : b.exp <= clock}
      BY <2>1 DEF CleanupRows
    <2>3. ledger' = ledger \ (batch \intersect ledger)
      BY <2>1
    <2>4. UNCHANGED <<users, births, clock, found>>
      BY <1>4 DEF CleanupIfDue, txn
    <2>5. Promise!Expire
      BY <1>0, <2>2, <2>3, <2>4 DEF Promise!Expire
    <2> QED BY <2>5 DEF Promise!Next
  <1>5. CASE Receive(r) \/ Begin(r) \/ Reclaim(r) \/ Insert(r)
    BY <1>1, <1>5 DEF Receive, Begin, Reclaim, Insert, database, txn
  <1>6. CASE SelectActive(r)
    <2>1. UNCHANGED clock
      BY <1>6 DEF SelectActive
    <2>2. ASSUME NEW l \in ActiveRows(request[r].key, now[r]), l.fp = request[r].fp,
                 found' = [found EXCEPT ![r] = l.user], UNCHANGED database
          PROVE  Promise!Next
      <3>1. l \in ledger /\ l.key = request[r].key
        BY DEF ActiveRows
      <3>2. Promise!Resolve(r)
        BY <1>0, <2>1, <2>2, <3>1 DEF Promise!Resolve, database
      <3> QED BY <3>2 DEF Promise!Next
    <2>3. CASE UNCHANGED <<database, found>>
      BY <1>1, <2>1, <2>3 DEF database
    <2> QED BY <1>3, <1>6, <2>1, <2>2, <2>3 DEF SelectActive
  <1>7. CASE Replay(r) \/ Lookup(r) \/ Create(r) \/ Complete(r)
    <2>1. UNCHANGED clock /\ ((\E why : Fail(r, why)) \/ UNCHANGED <<database, found>>)
      BY <1>7 DEF Replay, Lookup, Create, Complete, txn
    <2> QED BY <1>1, <1>3, <2>1 DEF database
  <1>8. CASE Commit(r) \/ CommitAckLost(r)
    <2>1. pc[r] = "commit" /\ Publish(r) /\ UNCHANGED clock
      BY <1>8 DEF Commit, CommitAckLost
    <2>2. ASSUME NEW d \in born[r] PROVE Promise!Next
      <3>1. \A b \in born[r] : b = d
        BY <1>0 DEF Pending
      <3>2. \/ found' = [found EXCEPT ![r] = d.id]
            \/ found' = [found EXCEPT ![r] = NoUser]
        BY <1>8, <3>1 DEF Commit, CommitAckLost
      <3>3. Promise!CreateUser(r)
        BY <1>0, <2>1, <3>2, PublishCreates
      <3> QED BY <3>3 DEF Promise!Next
    <2>3. CASE born[r] = {}
      <3>1. claim[r] = {}
        BY <1>0, <2>1, <2>3 DEF Pending
      <3>2. UNCHANGED <<users, births, ledger>>
        BY <2>1, <2>3, <3>1 DEF Publish
      <3> QED BY <1>1, <1>2, <1>8, <2>1, <2>3, <3>2 DEF Commit, CommitAckLost
    <2> QED BY <2>2, <2>3
  <1>9. CASE AbortInjected(r)
    BY <1>2, <1>9 DEF AbortInjected, AbortRetryably, Rollback, database
  <1>10. CASE ConnectionLost(r)
    BY <1>3, <1>10 DEF ConnectionLost
  <1> QED
    BY <1>4, <1>5, <1>6, <1>7, <1>8, <1>9, <1>10 DEF CreateStep, CreateFault

LEMMA PromiseMutatorStep ==
  ASSUME IInv, NEW m \in Mutators, MutatorStep(m) \/ AbortMutation(m)
  PROVE  [Promise!Next]_(Promise!vars)
  <1> USE DEF IInv, DataInv
  <1>0. UNCHANGED <<births, clock, request, found>>
    BY DEF MutatorStep, Mutate, LockRow, Delete, Patch, AbortMutation, database, txn
  <1>1. CASE Mutate(m) \/ LockRow(m) \/ AbortMutation(m)
    BY <1>0, <1>1 DEF Mutate, LockRow, AbortMutation, database, Promise!vars
  <1>2. CASE Delete(m)
    <2>1. /\ users' = {u \in users : u.id # target[m]}
          /\ ledger' = {l \in ledger : l.user # target[m]}
      BY <1>2 DEF Delete
    <2>2. CASE target[m] \in {u.id : u \in users}
      <3>1. {u.id : u \in users'} = {u.id : u \in users} \ {target[m]}
        BY <2>1
      <3>2. Promise!DeleteUser
        BY <1>0, <2>1, <2>2, <3>1 DEF Promise!DeleteUser
      <3> QED BY <3>2 DEF Promise!Next
    <2>3. CASE target[m] \notin {u.id : u \in users}
      <3>1. UNCHANGED <<users, ledger>>
        BY <2>1, <2>3 DEF LedgerComplete
      <3> QED BY <1>0, <3>1 DEF Promise!vars
    <2> QED BY <2>2, <2>3
  <1>3. CASE Patch(m)
    <2>1. \A u \in users : Patched(m, u).id = u.id
      BY DEF Patched
    <2>2. {u.id : u \in users'} = {u.id : u \in users} /\ UNCHANGED ledger
      BY <1>3, <2>1 DEF Patch
    <2> QED BY <1>0, <2>2 DEF Promise!vars
  <1> QED BY <1>1, <1>2, <1>3 DEF MutatorStep

LEMMA PromiseStep == IInv /\ UnresolvedInv /\ [Next]_vars => [Promise!Next]_(Promise!vars)
  <1> SUFFICES ASSUME IInv, UnresolvedInv, [Next]_vars PROVE [Promise!Next]_(Promise!vars)
    OBVIOUS
  <1>1. ASSUME NEW r \in Creates, AbortRetryably(r) PROVE [Promise!Next]_(Promise!vars)
    <2>1. Promise!GiveUp(r)
      BY <1>1 DEF AbortRetryably, Rollback, database, Promise!GiveUp
    <2> QED BY <2>1 DEF Promise!Next
  <1>2. CASE BreakDeadlock
    BY <1>1, <1>2, PromiseMutatorStep DEF BreakDeadlock
  <1>3. CASE Tick
    BY <1>3 DEF Tick, database, txn, Promise!Next, Promise!Tick
  <1>4. CASE UNCHANGED vars
    BY <1>4 DEF vars, Promise!vars
  <1> QED
    BY <1>2, <1>3, <1>4, PromiseOwnStep, PromiseMutatorStep DEF Next, Finished

\* CreateUserService over PostgreSQL implements the promise: every step of it creates
\* a user with its binding, resolves a key, expires or deletes a binding, or is
\* invisible from outside.
THEOREM PromiseIsKept == Spec => PromiseKept
  <1>1. Init => Promise!Init /\ UnresolvedInv
    BY DEF Init, Promise!Init, UnresolvedInv, Unresolved
  <1> QED
    BY <1>1, Inductive, UnresolvedStep, PromiseStep, PTL DEF Spec, PromiseKept, Promise!Spec

-----------------------------------------------------------------------------
(***************************************************************************)
(* Every request comes to an end                                           *)
(*                                                                         *)
(* Three facts without fairness: nobody waits for ever unless the deadlock *)
(* detector has work, creates alone give it none, and a request has so many*)
(* steps and no more.                                                      *)
(***************************************************************************)
\* The most statements of one attempt: BEGIN, three per round of claim(), the lookup,
\* the insert, the completion and COMMIT.
Round == 5 + 3 * ClaimAttempts

\* How many steps a request can still take, however often its transaction is retried.
StepsLeft(r) ==
  CASE pc[r] = "done" -> 0
    [] pc[r] = "idle" -> IF r \in Creates THEN MaxAttempts * Round + 2 ELSE 3
    [] pc[r] = "row"  -> 2
    [] pc[r] = "held" -> 1
    [] OTHER ->
         (MaxAttempts - attempt[r]) * Round
           + CASE pc[r] = "cleanup" -> Round + 1
               [] pc[r] = "begin"   -> Round
               [] pc[r] = "reclaim" -> 3 * (ClaimAttempts - tries[r]) + 7
               [] pc[r] = "insert"  -> 3 * (ClaimAttempts - tries[r]) + 6
               [] pc[r] = "select"  -> 3 * (ClaimAttempts - tries[r]) + 5
               [] pc[r] = "lookup"  -> 4
               [] pc[r] = "create"  -> 3
               [] pc[r] \in {"complete", "replay"} -> 2
               [] OTHER -> 1

\* A create keeps to the places of a create, its attempts and its rounds.
Bounded(r) ==
  /\ pc[r] \in CreatePlaces
  /\ pc[r] # "idle" => attempt[r] \in 1 .. MaxAttempts
  /\ pc[r] = "idle" => attempt[r] = 0
  /\ pc[r] \in {"reclaim", "insert", "select"} => tries[r] \in 1 .. ClaimAttempts

BoundedInv == /\ \A r \in Creates : Bounded(r)
              /\ \A m \in Mutators : pc[m] \in MutatorPlaces

LEMMA Rounds ==
  /\ Round \in Nat /\ Round >= 8
  /\ \A n \in Nat : n * Round \in Nat /\ (n + 1) * Round = n * Round + Round
  <1>1. Round \in Nat /\ Round >= 8
    BY Numbers DEF Round
  <1> QED BY <1>1

\* The places a create passes, and when an attempt or a round is counted.
Moves(r) ==
  \/ pc[r] \notin {"idle", "done"} /\ pc'[r] = "done" /\ attempt'[r] = attempt[r]
  \/ pc[r] = "idle" /\ pc'[r] \in {"cleanup", "begin"} /\ attempt'[r] = 1
  \/ /\ pc[r] \in InTxn /\ pc'[r] = "begin"
     /\ attempt[r] < MaxAttempts /\ attempt'[r] = attempt[r] + 1
  \/ /\ attempt'[r] = attempt[r]
     /\ \/ pc[r] = "cleanup" /\ pc'[r] = "begin"
        \/ pc[r] = "begin" /\ pc'[r] = "reclaim" /\ tries'[r] = 1
        \/ pc[r] = "reclaim" /\ pc'[r] = "insert" /\ tries'[r] = tries[r]
        \/ pc[r] = "insert" /\ pc'[r] = "select" /\ tries'[r] = tries[r]
        \/ /\ pc[r] = "select" /\ pc'[r] = "reclaim"
           /\ tries[r] < ClaimAttempts /\ tries'[r] = tries[r] + 1
        \/ pc[r] \in {"begin", "reclaim", "insert"} /\ pc'[r] = "lookup"
        \/ pc[r] = "select" /\ pc'[r] = "replay"
        \/ pc[r] = "lookup" /\ pc'[r] = "create"
        \/ pc[r] = "create" /\ pc'[r] = "complete"
        \/ pc[r] \in {"replay", "create", "complete"} /\ pc'[r] = "commit"

\* The step is one of r alone.
Others(r) == \A q \in Requests \ {r} :
  /\ pc'[q] = pc[q]
  /\ q \in Creates => attempt'[q] = attempt[q] /\ tries'[q] = tries[q]

LEMMA CreateMoves ==
  ASSUME TypeOK, NEW r \in Creates, CreateStep(r)
  PROVE  Moves(r) /\ Others(r)
  <1>1. /\ r \in Requests /\ pc \in [Requests -> CreatePlaces \union MutatorPlaces]
        /\ tries \in [Creates -> Nat] /\ attempt \in [Creates -> Nat]
    BY DEF TypeOK, Requests
  <1>2. ASSUME NEW place, Goto(r, place)
        PROVE  pc'[r] = place /\ \A q \in Requests \ {r} : pc'[q] = pc[q]
    BY <1>1, <1>2 DEF Goto
  <1>3. ASSUME NEW why, Fail(r, why), pc[r] \notin {"idle", "done"}, UNCHANGED attempt
        PROVE  Moves(r) /\ Others(r)
    <2>1. Goto(r, "done") /\ EndTxn(r)
      BY <1>3 DEF Fail, Rollback
    <2>2. \A q \in Creates : q # r => tries'[q] = tries[q]
      BY <1>1, <2>1 DEF EndTxn
    <2> QED BY <1>2, <1>3, <2>1, <2>2 DEF Moves, Others
  <1>4. CASE Receive(r)
    <2>1. \E place \in {"cleanup", "begin"} : Goto(r, place)
      BY <1>4 DEF Receive
    <2> QED BY <1>1, <1>2, <1>4, <2>1 DEF Receive, txn, Moves, Others
  <1>5. CASE CleanupIfDue(r)
    BY <1>1, <1>2, <1>5 DEF CleanupIfDue, txn, Moves, Others
  <1>6. CASE Begin(r)
    <2>1. \E place \in {"reclaim", "lookup"} : Goto(r, place)
      BY <1>6 DEF Begin
    <2> QED BY <1>1, <1>2, <1>6, <2>1 DEF Begin, Moves, Others
  <1>7. CASE Reclaim(r)
    <2>1. \E place \in {"insert", "lookup"} : Goto(r, place)
      BY <1>7 DEF Reclaim, Claimed
    <2> QED BY <1>1, <1>2, <1>7, <2>1 DEF Reclaim, Moves, Others
  <1>8. CASE Insert(r)
    <2>1. \E place \in {"select", "lookup"} : Goto(r, place)
      BY <1>8 DEF Insert, Claimed
    <2> QED BY <1>1, <1>2, <1>8, <2>1 DEF Insert, Moves, Others
  <1>9. CASE SelectActive(r)
    <2>1. pc[r] = "select" /\ UNCHANGED attempt
      BY <1>9 DEF SelectActive
    <2>2. CASE \E why : Fail(r, why)
      BY <1>3, <2>1, <2>2
    <2>3. CASE Goto(r, "replay") /\ UNCHANGED tries
      BY <1>2, <2>1, <2>3 DEF Moves, Others
    <2>4. CASE /\ Goto(r, "reclaim") /\ tries[r] < ClaimAttempts
               /\ tries' = [tries EXCEPT ![r] = tries[r] + 1]
      BY <1>1, <1>2, <2>1, <2>4 DEF Moves, Others
    <2> QED BY <1>9, <2>2, <2>3, <2>4 DEF SelectActive
  <1>10. CASE Replay(r)
    <2>1. CASE Goto(r, "commit") /\ UNCHANGED tries
      BY <1>2, <1>10, <2>1 DEF Replay, Moves, Others
    <2> QED BY <1>3, <1>10, <2>1 DEF Replay, txn
  <1>11. CASE Lookup(r)
    <2>1. CASE Goto(r, "create") /\ UNCHANGED tries
      BY <1>2, <1>11, <2>1 DEF Lookup, Moves, Others
    <2> QED BY <1>3, <1>11, <2>1 DEF Lookup, txn
  <1>12. CASE Create(r)
    <2>1. CASE UNCHANGED tries /\ \E place \in {"complete", "commit"} : Goto(r, place)
      BY <1>2, <1>12, <2>1 DEF Create, Moves, Others
    <2> QED BY <1>3, <1>12, <2>1 DEF Create
  <1>13. CASE Complete(r)
    <2>1. CASE Goto(r, "commit") /\ UNCHANGED tries
      BY <1>2, <1>13, <2>1 DEF Complete, Moves, Others
    <2> QED BY <1>3, <1>13, <2>1 DEF Complete
  <1>14. CASE Commit(r)
    <2>1. pc[r] = "commit" /\ Goto(r, "done") /\ EndTxn(r) /\ UNCHANGED attempt
      BY <1>14 DEF Commit, Publish
    <2>2. \A q \in Creates : q # r => tries'[q] = tries[q]
      BY <1>1, <2>1 DEF EndTxn
    <2> QED BY <1>2, <2>1, <2>2 DEF Moves, Others
  <1> QED BY <1>4, <1>5, <1>6, <1>7, <1>8, <1>9, <1>10, <1>11, <1>12, <1>13, <1>14
          DEF CreateStep

LEMMA FaultMoves ==
  ASSUME TypeOK, NEW r \in Creates, CreateFault(r) \/ AbortRetryably(r)
  PROVE  Moves(r) /\ Others(r)
  <1>1. /\ r \in Requests /\ pc \in [Requests -> CreatePlaces \union MutatorPlaces]
        /\ tries \in [Creates -> Nat] /\ attempt \in [Creates -> Nat]
    BY DEF TypeOK, Requests
  <1>2. EndTxn(r) /\ (Goto(r, "begin") \/ Goto(r, "done"))
    BY DEF CreateFault, AbortInjected, AbortRetryably, ConnectionLost, CommitAckLost, Fail,
       Rollback, Publish
  <1>3. \A q \in Requests \ {r} : /\ pc'[q] = pc[q]
                                  /\ q \in Creates => tries'[q] = tries[q]
    BY <1>1, <1>2 DEF EndTxn, Goto
  <1>4. pc[r] \in InTxn \union {"begin"} /\ pc[r] \notin {"idle", "done"}
    BY DEF CreateFault, AbortInjected, AbortRetryably, ConnectionLost, CommitAckLost, InTxn
  <1>5. CASE Goto(r, "done") /\ UNCHANGED attempt
    BY <1>1, <1>3, <1>4, <1>5 DEF Moves, Others, Goto
  <1>6. CASE /\ Goto(r, "begin") /\ pc[r] \in InTxn /\ attempt[r] < MaxAttempts
             /\ attempt' = [attempt EXCEPT ![r] = attempt[r] + 1]
    BY <1>1, <1>3, <1>6 DEF Moves, Others, Goto
  <1> QED BY <1>5, <1>6 DEF CreateFault, AbortInjected, AbortRetryably, ConnectionLost,
             CommitAckLost, Fail

LEMMA MutatorMoves ==
  ASSUME TypeOK, NEW m \in Mutators, MutatorStep(m)
  PROVE  /\ Others(m)
         /\ \/ pc[m] = "idle" /\ pc'[m] \in {"row", "done"}
            \/ pc[m] = "row" /\ pc'[m] \in {"held", "done"}
            \/ pc[m] = "held" /\ pc'[m] = "done"
  <1>1. m \in Requests /\ pc \in [Requests -> CreatePlaces \union MutatorPlaces]
    BY DEF TypeOK, Requests
  <1>2. UNCHANGED <<attempt, tries>>
    BY DEF MutatorStep, Mutate, LockRow, Delete, Patch, txn
  <1>3. \/ pc[m] = "idle" /\ \E place \in {"row", "done"} : Goto(m, place)
        \/ pc[m] = "row" /\ \E place \in {"held", "done"} : Goto(m, place)
        \/ pc[m] = "held" /\ Goto(m, "done")
    BY DEF MutatorStep, Mutate, LockRow, Delete, Patch, FinishMutation
  <1>4. ASSUME NEW place, Goto(m, place)
        PROVE  pc'[m] = place /\ \A q \in Requests \ {m} : pc'[q] = pc[q]
    BY <1>1, <1>4 DEF Goto
  <1> QED BY <1>2, <1>3, <1>4 DEF Others

\* What is left of the place a create is at, in its attempt.
Retries(n) == (MaxAttempts - n) * Round

LEMMA RetriesCount ==
  ASSUME NEW n \in 1 .. MaxAttempts
  PROVE  /\ Retries(n) \in Nat
         /\ n < MaxAttempts => Retries(n) = Retries(n + 1) + Round
         /\ n = 1 => MaxAttempts * Round = Retries(n) + Round
         /\ Retries(n) + Round <= MaxAttempts * Round
  <1>1. MaxAttempts \in Nat /\ (MaxAttempts - n) \in Nat
    BY Numbers
  <1>2. Retries(n) \in Nat
    BY <1>1, Rounds DEF Retries
  <1>3. ASSUME n < MaxAttempts PROVE Retries(n) = Retries(n + 1) + Round
    <2>1. (MaxAttempts - (n + 1)) \in Nat /\ MaxAttempts - n = (MaxAttempts - (n + 1)) + 1
      BY <1>1, <1>3
    <2> QED BY <2>1, Rounds DEF Retries
  <1>4. ASSUME n = 1 PROVE MaxAttempts * Round = Retries(n) + Round
    <2>1. (MaxAttempts - 1) \in Nat /\ MaxAttempts = (MaxAttempts - 1) + 1
      BY <1>1, <1>4
    <2> QED BY <1>4, <2>1, Rounds DEF Retries
  <1>5. Retries(n) + Round <= MaxAttempts * Round
    <2>1. (n - 1) * Round \in Nat /\ MaxAttempts = (MaxAttempts - n) + 1 + (n - 1)
      BY <1>1, Rounds
    <2>2. MaxAttempts * Round = (MaxAttempts - n) * Round + Round + (n - 1) * Round
      BY <1>1, <2>1, Rounds
    <2> QED BY <1>2, <2>1, <2>2, Rounds DEF Retries
  <1> QED BY <1>2, <1>3, <1>4, <1>5

LEMMA LeftOf ==
  ASSUME NEW r \in Creates, Bounded(r)
  PROVE  /\ StepsLeft(r) \in Nat
         /\ StepsLeft(r) = 0 <=> pc[r] = "done"
         /\ StepsLeft(r) <= MaxAttempts * Round + 2
  <1>1. Round \in Nat /\ Round >= 8 /\ ClaimAttempts \in Nat /\ MaxAttempts * Round \in Nat
    BY Rounds, Numbers
  <1>2. pc[r] # "idle" => /\ Retries(attempt[r]) \in Nat
                          /\ Retries(attempt[r]) + Round <= MaxAttempts * Round
    BY RetriesCount DEF Bounded
  <1>3. Round = 5 + 3 * ClaimAttempts
    BY DEF Round
  <1>4. CASE pc[r] \in {"reclaim", "insert", "select"}
    BY <1>1, <1>2, <1>3, <1>4 DEF StepsLeft, Bounded, Retries
  <1>5. CASE pc[r] \notin {"reclaim", "insert", "select"}
    BY <1>1, <1>2, <1>5 DEF StepsLeft, Bounded, Retries, CreatePlaces, InTxn
  <1> QED BY <1>4, <1>5

\* A create that moves has fewer steps left.
LEMMA MovesCount ==
  ASSUME NEW r \in Creates, Bounded(r), Moves(r)
  PROVE  Bounded(r)' /\ StepsLeft(r)' < StepsLeft(r)
  <1>1. /\ Round \in Nat /\ Round >= 8 /\ Round = 5 + 3 * ClaimAttempts
        /\ ClaimAttempts \in Nat \ {0} /\ MaxAttempts \in Nat \ {0}
    BY Rounds, Numbers DEF Round
  <1>2. /\ StepsLeft(r) \in Nat
        /\ StepsLeft(r) = 0 <=> pc[r] = "done"
        /\ pc[r] # "idle" => attempt[r] \in 1 .. MaxAttempts
        /\ pc[r] \in {"reclaim", "insert", "select"} => tries[r] \in 1 .. ClaimAttempts
    BY LeftOf DEF Bounded
  <1>3. CASE pc[r] \notin {"idle", "done"} /\ pc'[r] = "done" /\ attempt'[r] = attempt[r]
    <2>1. StepsLeft(r)' = 0
      BY <1>3 DEF StepsLeft
    <2>2. StepsLeft(r) > 0
      BY <1>2, <1>3
    <2>3. Bounded(r)'
      BY <1>2, <1>3 DEF Bounded, CreatePlaces
    <2> QED BY <2>1, <2>2, <2>3
  <1>4. CASE pc[r] = "idle" /\ pc'[r] \in {"cleanup", "begin"} /\ attempt'[r] = 1
    <2>1. MaxAttempts * Round = Retries(1) + Round /\ Retries(1) \in Nat
      BY <1>1, RetriesCount
    <2>2. Bounded(r)'
      BY <1>1, <1>4 DEF Bounded, CreatePlaces
    <2>3. StepsLeft(r) = MaxAttempts * Round + 2
      BY <1>4 DEF StepsLeft
    <2>4. StepsLeft(r)' <= Retries(1) + Round + 1 /\ StepsLeft(r)' \in Int
      BY <1>1, <1>4, <2>1 DEF StepsLeft, Retries
    <2> QED BY <1>1, <2>1, <2>2, <2>3, <2>4
  <1>5. CASE /\ pc[r] \in InTxn /\ pc'[r] = "begin"
             /\ attempt[r] < MaxAttempts /\ attempt'[r] = attempt[r] + 1
    <2>0. attempt[r] \in 1 .. MaxAttempts /\ attempt[r] + 1 \in 1 .. MaxAttempts
      BY <1>1, <1>2, <1>5 DEF InTxn
    <2>1. /\ Retries(attempt[r]) = Retries(attempt[r] + 1) + Round
          /\ Retries(attempt[r] + 1) \in Nat
      BY <1>5, <2>0, RetriesCount
    <2>2. attempt'[r] \in 1 .. MaxAttempts
      BY <1>5, <2>0
    <2>3. StepsLeft(r)' = Retries(attempt[r] + 1) + Round
      BY <1>5 DEF StepsLeft, Retries
    <2>4. StepsLeft(r) > Retries(attempt[r])
      BY <1>1, <1>2, <1>5, <2>1 DEF StepsLeft, Retries, InTxn
    <2> QED BY <1>1, <1>2, <1>5, <2>1, <2>2, <2>3, <2>4 DEF Bounded, CreatePlaces
  <1>6. CASE attempt'[r] = attempt[r] /\ pc[r] \notin {"idle", "done"} /\ pc'[r] # "done"
    <2>1. Retries(attempt[r]) \in Nat /\ Retries(attempt'[r]) = Retries(attempt[r])
      BY <1>2, <1>6, RetriesCount
    <2>2. Bounded(r)'
      BY <1>1, <1>2, <1>6 DEF Moves, Bounded, CreatePlaces, InTxn
    <2> QED BY <1>1, <1>2, <1>6, <2>1, <2>2 DEF Moves, StepsLeft, Retries, InTxn
  <1> QED BY <1>2, <1>3, <1>4, <1>5, <1>6 DEF Moves

\* A step of one request: it brings the request closer to its end, and no other one
\* further from it.
OneStep(r) ==
  /\ StepsLeft(r)' < StepsLeft(r)
  /\ \A q \in Requests \ {r} : StepsLeft(q)' = StepsLeft(q)

LEMMA CreateCounts ==
  ASSUME TypeOK, BoundedInv, NEW r \in Creates, Moves(r), Others(r)
  PROVE  BoundedInv' /\ OneStep(r)
  <1>1. Creates \subseteq Requests /\ Mutators \subseteq Requests /\ r \notin Mutators
    BY RequestKinds DEF Requests
  <1>2. Bounded(r)' /\ StepsLeft(r)' < StepsLeft(r)
    BY MovesCount DEF BoundedInv
  <1>3. \A q \in Creates : q # r => Bounded(q)' /\ StepsLeft(q)' = StepsLeft(q)
    BY <1>1 DEF Others, BoundedInv, Bounded, StepsLeft
  <1>4. \A m \in Mutators : pc'[m] \in MutatorPlaces /\ StepsLeft(m)' = StepsLeft(m)
    BY <1>1, RequestKinds DEF Others, BoundedInv, StepsLeft, MutatorPlaces
  <1> QED BY <1>1, <1>2, <1>3, <1>4 DEF BoundedInv, OneStep, Requests

LEMMA MutatorCounts ==
  ASSUME TypeOK, BoundedInv, NEW m \in Mutators, Others(m),
         \/ pc[m] = "idle" /\ pc'[m] \in {"row", "done"}
         \/ pc[m] = "row" /\ pc'[m] \in {"held", "done"}
         \/ pc[m] = "held" /\ pc'[m] = "done"
  PROVE  BoundedInv' /\ OneStep(m)
  <1>1. Creates \subseteq Requests /\ Mutators \subseteq Requests /\ m \notin Creates
    BY RequestKinds DEF Requests
  <1>2. pc'[m] \in MutatorPlaces /\ StepsLeft(m)' < StepsLeft(m)
    BY <1>1 DEF StepsLeft, MutatorPlaces
  <1>3. \A q \in Creates : Bounded(q)' /\ StepsLeft(q)' = StepsLeft(q)
    BY <1>1 DEF Others, BoundedInv, Bounded, StepsLeft
  <1>4. \A n \in Mutators : n # m => pc'[n] \in MutatorPlaces /\ StepsLeft(n)' = StepsLeft(n)
    BY <1>1, RequestKinds DEF Others, BoundedInv, StepsLeft, MutatorPlaces
  <1> QED BY <1>1, <1>2, <1>3, <1>4 DEF BoundedInv, OneStep, Requests

\* An update or a delete that waits has a row in view or in hand.
LEMMA WaitingMutator ==
  ASSUME BoundedInv, NEW m \in Mutators, Blockers(m) # {}
  PROVE  pc[m] \in {"row", "held"}
  BY DEF BoundedInv, Blockers, MutatorPlaces

LEMMA VictimMoves ==
  ASSUME TypeOK, BoundedInv, NEW m \in Mutators, Blockers(m) # {}, AbortMutation(m)
  PROVE  BoundedInv' /\ OneStep(m)
  <1>1. m \in Requests /\ pc \in [Requests -> CreatePlaces \union MutatorPlaces]
    BY DEF TypeOK, Requests
  <1>2. Others(m) /\ pc'[m] = "done"
    BY <1>1 DEF AbortMutation, FinishMutation, Goto, txn, Others
  <1> QED BY <1>2, WaitingMutator, MutatorCounts

\* Every step is the step of a request, a tick of the clock, or nothing.
LEMMA NextCounts ==
  ASSUME TypeOK, BoundedInv, [Next]_vars
  PROVE  /\ BoundedInv'
         /\ \/ \E r \in Requests : OneStep(r)
            \/ Tick \/ UNCHANGED vars
  <1>1. Creates \subseteq Requests /\ Mutators \subseteq Requests
    BY DEF Requests
  <1>2. ASSUME NEW r \in Creates, CreateStep(r) \/ CreateFault(r)
        PROVE  BoundedInv' /\ OneStep(r)
    BY <1>2, CreateMoves, FaultMoves, CreateCounts
  <1>3. ASSUME NEW m \in Mutators, MutatorStep(m) PROVE BoundedInv' /\ OneStep(m)
    BY <1>3, MutatorMoves, MutatorCounts
  <1>4. CASE BreakDeadlock
    <2>1. PICK S \in Deadlocks : \E r \in S : \/ r \in Creates /\ AbortRetryably(r)
                                              \/ r \in Mutators /\ AbortMutation(r)
      BY <1>4 DEF BreakDeadlock
    <2>3. PICK r \in S : \/ r \in Creates /\ AbortRetryably(r)
                         \/ r \in Mutators /\ AbortMutation(r)
      BY <2>1
    <2>2. r \in Requests /\ Blockers(r) # {}
      BY DEF Deadlocks, Waiting
    <2> QED BY <2>2, <2>3, FaultMoves, CreateCounts, VictimMoves
  <1>5. CASE Tick \/ UNCHANGED vars
    <2>1. UNCHANGED <<pc, attempt, tries>>
      BY <1>5 DEF Tick, vars, txn
    <2> QED BY <1>5, <2>1 DEF BoundedInv, Bounded
  <1> QED BY <1>1, <1>2, <1>3, <1>4, <1>5 DEF Next, Finished

LEMMA Counted == Spec => [](TypeOK /\ BoundedInv)
  <1>1. Init => BoundedInv
    BY DEF Init, BoundedInv, Bounded, Requests, CreatePlaces, MutatorPlaces
  <1>2. TypeOK /\ BoundedInv /\ [Next]_vars => BoundedInv'
    BY NextCounts
  <1> QED BY <1>1, <1>2, TypeCorrect, PTL DEF Spec

\* A create makes at most MaxAttempts attempts of at most ClaimAttempts rounds, and
\* from wherever it is it has only so many steps left.
THEOREM RetriesAreBounded ==
  Spec => [](\A r \in Creates :
               /\ attempt[r] <= MaxAttempts
               /\ pc[r] \in {"reclaim", "insert", "select"} => tries[r] <= ClaimAttempts
               /\ StepsLeft(r) \in 0 .. MaxAttempts * Round + 2)
  <1>1. ASSUME BoundedInv, NEW r \in Creates
        PROVE  /\ attempt[r] <= MaxAttempts
               /\ pc[r] \in {"reclaim", "insert", "select"} => tries[r] <= ClaimAttempts
               /\ StepsLeft(r) \in 0 .. MaxAttempts * Round + 2
    <2>1. Bounded(r) /\ MaxAttempts * Round \in Nat
      BY <1>1, Rounds, Numbers DEF BoundedInv
    <2> QED BY <2>1, LeftOf, Numbers DEF Bounded
  <1>2. BoundedInv => \A r \in Creates :
               /\ attempt[r] <= MaxAttempts
               /\ pc[r] \in {"reclaim", "insert", "select"} => tries[r] <= ClaimAttempts
               /\ StepsLeft(r) \in 0 .. MaxAttempts * Round + 2
    BY <1>1
  <1> QED BY <1>2, Counted, PTL

\* Whatever a request does, be it a step, a retry or an abort, brings it closer to
\* its end and no other one further from it: only the clock moves otherwise.
THEOREM EveryStepCounts ==
  Spec => [][\/ \E r \in Requests : OneStep(r)
             \/ Tick]_vars
  <1>1. TypeOK /\ BoundedInv /\ [Next]_vars => [(\E r \in Requests : OneStep(r)) \/ Tick]_vars
    BY NextCounts
  <1> QED BY <1>1, Counted, PTL DEF Spec

\* Who is waited for: a create with private rows, or a statement that holds a row.
LEMMA WaitedFor ==
  ASSUME PendingRows, NEW r \in Requests, NEW q \in Blockers(r)
  PROVE  /\ q \in Requests
         /\ \/ q \in Creates /\ pc[q] \in {"lookup", "create", "complete", "commit"}
            \/ q \in Mutators /\ pc[q] = "held"
         /\ pc[r] = "create" /\ q \in Creates => pc[q] \in {"complete", "commit"}
  <1>1. \A k : \A h \in KeyHolders(k) :
          h \in Creates /\ pc[h] \in {"lookup", "create", "complete", "commit"}
    BY DEF KeyHolders, PendingRows, Pending
  <1>2. \A u : \A h \in RowHolders(u) : h \in Mutators /\ pc[h] = "held"
    BY DEF RowHolders
  <1>3. \A e : \A h \in EmailHolders(e) :
          \/ h \in Creates /\ pc[h] \in {"complete", "commit"}
          \/ h \in Mutators /\ pc[h] = "held"
    BY <1>2 DEF EmailHolders, PendingRows, Pending
  <1>4. \/ \E k : q \in KeyHolders(k)
        \/ \E u : q \in RowHolders(u)
        \/ \E e : q \in EmailHolders(e)
    BY DEF Blockers
  <1>5. pc[r] = "create" => q \in EmailHolders(Email(r))
    BY DEF Blockers
  <1>6. q \in Creates => q \notin Mutators
    BY RequestKinds
  <1> QED BY <1>1, <1>2, <1>3, <1>4, <1>5, <1>6 DEF Requests

\* A create that is past its insert waits for nobody.
LEMMA WritersDoNotWait ==
  ASSUME NEW r \in Requests, pc[r] \in {"lookup", "complete", "commit", "idle", "done"}
  PROVE  Blockers(r) = {}
  BY DEF Blockers

LEMMA CyclesMeetMutators ==
  ASSUME PendingRows, BoundedInv, NEW S \in SUBSET Requests, Waiting(S)
  PROVE  S \intersect Mutators # {}
  <1> SUFFICES ASSUME S \subseteq Creates PROVE FALSE
    BY DEF Requests
  <1>1. \A r \in S : \E q \in S : q \in Blockers(r)
    BY DEF Waiting
  <1>2. \A r \in S : r \notin Mutators /\ r \in Requests
    BY RequestKinds
  <1>3. PICK r \in S : TRUE
    BY DEF Waiting
  <1>4. PICK q \in S : q \in Blockers(r)
    BY <1>1
  <1>5. PICK h \in S : h \in Blockers(q)
    BY <1>1
  <1>6. pc[q] = "create"
    BY <1>2, <1>4, <1>5, WaitedFor, WritersDoNotWait
  <1>7. pc[h] \in {"complete", "commit"}
    BY <1>2, <1>5, <1>6, WaitedFor
  <1>8. Blockers(h) = {}
    BY <1>2, <1>7, WritersDoNotWait
  <1> QED BY <1>1, <1>8

\* Creates alone never deadlock: a create locks its key before its email and asks
\* for nothing after them, so every cycle of waits goes through an update or a delete.
THEOREM CreatesNeverDeadlock ==
  Spec => [](\A S \in Deadlocks : S \intersect Mutators # {})
  <1>1. PendingRows /\ BoundedInv => \A S \in Deadlocks : S \intersect Mutators # {}
    BY CyclesMeetMutators DEF Deadlocks
  <1>2. IInv => PendingRows
    BY DEF IInv
  <1> QED BY <1>1, <1>2, Inductive, Counted, PTL

\* Among the sets of requests that wait for each other, finitely many, one is smallest.
LEMMA SmallestCycle ==
  ASSUME IsFiniteSet(Requests), NEW F \in SUBSET Requests, Waiting(F)
  PROVE  Deadlocks # {}
  <1> DEFINE T == {S \in SUBSET Requests : Waiting(S)}
  <1>1. IsWellFoundedOn(StrictSubsetOrdering(Requests), SUBSET Requests)
    BY FS_StrictSubsetOrderingWellFounded, FS_FiniteSubsetsOfFinite
  <1>2. T \subseteq SUBSET Requests /\ T # {}
    OBVIOUS
  <1>3. PICK S \in T : \A U \in T : <<U, S>> \notin StrictSubsetOrdering(Requests)
    <2> HIDE DEF T
    <2> QED BY <1>1, <1>2, WFMin
  <1>4. \A U \in SUBSET S : Waiting(U) => U = S
    <2> SUFFICES ASSUME NEW U \in SUBSET S, Waiting(U), U # S PROVE FALSE
      OBVIOUS
    <2>1. U \in T /\ <<U, S>> \in (SUBSET Requests) \X (SUBSET Requests)
      OBVIOUS
    <2>2. <<U, S>> \in StrictSubsetOrdering(Requests)
      BY <2>1 DEF StrictSubsetOrdering
    <2> QED BY <1>3, <2>1, <2>2
  <1> QED BY <1>3, <1>4 DEF Deadlocks

\* The server never stands still with work left: while a request is unanswered,
\* some unanswered request waits for nobody, or the detector has a cycle to break.
THEOREM NoStandstill ==
  ASSUME IsFiniteSet(Requests)
  PROVE  Spec => [](\/ Quiescent
                    \/ \E r \in Requests : pc[r] # "done" /\ Blockers(r) = {}
                    \/ Deadlocks # {})
  <1> DEFINE F == {r \in Requests : pc[r] # "done"}
  <1>1. ASSUME PendingRows
        PROVE  \/ Quiescent
               \/ \E r \in Requests : pc[r] # "done" /\ Blockers(r) = {}
               \/ Deadlocks # {}
    <2>1. SUFFICES ASSUME ~Quiescent, \A r \in F : Blockers(r) # {} PROVE Deadlocks # {}
      OBVIOUS
    <2>2. F \in SUBSET Requests /\ F # {}
      BY <2>1 DEF Quiescent
    <2>3. \A r \in F : Blockers(r) \subseteq F
      BY <1>1, WaitedFor
    <2>4. Waiting(F)
      BY <2>1, <2>2, <2>3 DEF Waiting
    <2> QED BY <2>2, <2>4, SmallestCycle
  <1>2. IInv => PendingRows
    BY DEF IInv
  <1>3. IInv => \/ Quiescent
                \/ \E r \in Requests : pc[r] # "done" /\ Blockers(r) = {}
                \/ Deadlocks # {}
    BY <1>1, <1>2
  <1> QED BY <1>3, Inductive, PTL

\* A create that is retried or given up on has met a failure, or an update or a
\* delete that ran beside it.
Disturbed == faults > 0 \/ \E m \in Mutators : pc[m] # "idle"

Calm == ~Disturbed => \A r \in Creates : attempt[r] <= 1 /\ answer[r] # "busy"

LEMMA CalmCreateStep ==
  ASSUME TypeOK, BoundedInv, Calm, NEW r \in Creates, CreateStep(r)
  PROVE  Calm'
  <1>1. /\ answer \in [Requests -> Answers] /\ attempt \in [Creates -> Nat]
        /\ r \in Requests
    BY DEF TypeOK, Requests
  <1>2. UNCHANGED faults
    BY DEF CreateStep, Receive, CleanupIfDue, Begin, Reclaim, Insert, SelectActive, Replay,
           Lookup, Create, Complete, Commit
  <1>3. \A m \in Mutators : pc'[m] = pc[m]
    BY CreateMoves, RequestKinds DEF Others, Requests
  <1>4. Disturbed' <=> Disturbed
    BY <1>2, <1>3 DEF Disturbed
  <1>5. attempt' = attempt \/ attempt' = [attempt EXCEPT ![r] = 1]
    BY DEF CreateStep, Receive, CleanupIfDue, Begin, Reclaim, Insert, SelectActive, Replay,
           Lookup, Create, Complete, Commit
  <1>6. \A q \in Creates : attempt'[q] = attempt[q] \/ attempt'[q] = 1
    BY <1>1, <1>5
  <1>7. answer' = answer \/ \E why : why # "busy" /\ answer' = [answer EXCEPT ![r] = why]
    BY DEF CreateStep, Receive, CleanupIfDue, Begin, Reclaim, Insert, SelectActive, Replay,
           Lookup, Create, Complete, Commit, Fail, txn
  <1>8. \A q \in Creates : answer'[q] = answer[q] \/ answer'[q] # "busy"
    BY <1>1, <1>7 DEF Requests
  <1> QED BY <1>1, <1>4, <1>6, <1>8 DEF Calm

LEMMA CalmStep == IInv /\ BoundedInv /\ Calm /\ [Next]_vars => Calm'
  <1> SUFFICES ASSUME IInv, BoundedInv, Calm, [Next]_vars PROVE Calm'
    OBVIOUS
  <1>0. TypeOK /\ PendingRows
    BY DEF IInv, TypeInv
  <1>1. ASSUME NEW r \in Creates, CreateStep(r) PROVE Calm'
    BY <1>0, <1>1, CalmCreateStep
  <1>2. ASSUME NEW r \in Creates, CreateFault(r) PROVE Calm'
    <2>1. faults' > 0
      BY <1>0, <1>2 DEF CreateFault, AbortInjected, ConnectionLost, CommitAckLost, Inject, TypeOK
    <2> QED BY <2>1 DEF Calm, Disturbed
  <1>3. ASSUME NEW m \in Mutators, MutatorStep(m) PROVE Calm'
    <2>1. pc'[m] # "idle"
      BY <1>0, <1>3, MutatorMoves
    <2> QED BY <2>1 DEF Calm, Disturbed
  <1>4. CASE BreakDeadlock
    <2>1. PICK S \in Deadlocks : \E r \in S : \/ r \in Creates /\ AbortRetryably(r)
                                              \/ r \in Mutators /\ AbortMutation(r)
      BY <1>4 DEF BreakDeadlock
    <2>2. PICK r \in S : \/ r \in Creates /\ AbortRetryably(r)
                         \/ r \in Mutators /\ AbortMutation(r)
      BY <2>1
    <2>3. S \in SUBSET Requests /\ Waiting(S)
      BY DEF Deadlocks
    <2>4. PICK m \in S : m \in Mutators
      BY <1>0, <2>3, CyclesMeetMutators
    <2>5. Blockers(m) # {}
      BY <2>3 DEF Waiting
    <2>6. pc[m] # "idle"
      BY <2>4, <2>5, WaitingMutator
    <2>7. \E place : place # "idle" /\ Goto(r, place)
      BY <2>2 DEF AbortRetryably, AbortMutation, FinishMutation
    <2>8. pc'[m] # "idle"
      BY <1>0, <2>3, <2>6, <2>7 DEF Goto, TypeOK
    <2> QED BY <2>4, <2>8 DEF Calm, Disturbed
  <1>5. CASE Tick \/ UNCHANGED vars
    BY <1>5 DEF Tick, vars, Calm, Disturbed
  <1> QED BY <1>1, <1>2, <1>3, <1>4, <1>5 DEF Next, Finished

\* With no failure and no update or delete about, every create runs its transaction
\* once, however many race for one key or one email, and none is answered 503.
THEOREM CreatesAloneNeverAbort ==
  Spec => [](\A r \in Creates : attempt[r] > 1 \/ answer[r] = "busy" => Disturbed)
  <1>1. Init => Calm
    BY DEF Init, Calm, Requests
  <1>2. TypeOK /\ Calm =>
          \A r \in Creates : attempt[r] > 1 \/ answer[r] = "busy" => Disturbed
    BY DEF Calm, TypeOK
  <1> QED BY <1>1, <1>2, CalmStep, Inductive, Counted, PTL DEF Spec

=============================================================================
