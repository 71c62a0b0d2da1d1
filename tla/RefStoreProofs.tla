--------------------------- MODULE RefStoreProofs ---------------------------
(***************************************************************************)
(* The safety of the Ref store for every set of Refs, commits,             *)
(* connections, preconditions and archives.  The inductive invariant:      *)
(* the tables stay well formed, the writer lock belongs to the one open    *)
(* transaction, and what that transaction has written extends what it      *)
(* found.  Then the consistency of its reads, for every number of database *)
(* pages and every page limit: a copy is bounded by the version that was   *)
(* committed when it was complete, and a reflog read has returned what     *)
(* lies up to its cursor.                                                  *)
(***************************************************************************)
EXTENDS RefStore, RefReads, FiniteSetTheorems, TLAPS

\* Leaves are first-order; those about numbers, records and sequences cite SMT.
USE ZenonT(40)

InTransaction == {"guard", "compare", "load", "commit"}

Updating == {"validate", "begin", "guard", "compare"}

Restoring == {"validate_archive", "begin_restore", "load"}

\* the connection inside BEGIN IMMEDIATE is the one that holds the lock
LockHeld == \A c \in Clients : pc[c] \in InTransaction <=> writer = c

\* a call's request has the shape its next step reads; an archive that
\* prepare_archive let through is well formed
RequestFits ==
    \A c \in Clients :
        /\ pc[c] \in Updating => req[c] \in RefUpdate
        /\ pc[c] \in Restoring => req[c] \in Tables /\ WellFormed(req[c])

\* until it writes, the transaction reads the committed tables
TxUnwritten ==
    \A c \in Clients :
        pc[c] \in {"guard", "compare", "load"}
            => tx = [refs |-> refs, reflog |-> reflog]

\* t continues the committed log
Extends(t) ==
    /\ Len(t.reflog) >= Len(reflog)
    /\ \A i \in 1..Len(reflog) : t.reflog[i] = reflog[i]

\* what is about to be committed is well formed and continues the log
TxWritten ==
    \A c \in Clients : pc[c] = "commit" => WellFormed(tx) /\ Extends(tx)

\* every head of t was accepted by the validator
HeadsAccepted(t) ==
    /\ \A r \in Refs : t.refs[r].head \in accepted \cup {NoHead}
    /\ \A i \in 1..Len(t.reflog) :
          t.reflog[i].old \in accepted \cup {NoHead}
          /\ t.reflog[i].new \in accepted \cup {NoHead}

IInv ==
    /\ TypeOK
    /\ LockHeld
    /\ RequestFits
    /\ TxUnwritten
    /\ TxWritten
    /\ ReflogExplainsRefs

-----------------------------------------------------------------------------
(* Facts about logs *)

\* The tables of an empty database are well formed.
LEMMA EmptyWellFormed == EmptyTables \in Tables /\ WellFormed(EmptyTables)
<1>1. EmptyTables \in Tables
  BY SMTT(30) DEF EmptyTables, Tables, RefRecord, NoRef, Heads
<1>2. WellFormed(EmptyTables)
  BY SMTT(30) DEF EmptyTables, WellFormed, IdsIncrease, ChainsLinked, RefsReplay,
         Untouched, NoRef
<1> QED BY <1>1, <1>2

\* What prepare_archive lets through is a pair of well formed tables.
LEMMA PreparedWellFormed ==
    ASSUME NEW a \in RefArchive, NEW t \in prepare_archive(a)
    PROVE  t \in Tables /\ WellFormed(t)
<1>1. WellFormed(t)
  BY DEF prepare_archive
<1>2. PICK log \in Orders(a.reflog) : t = [refs |-> a.refs, reflog |-> log]
  BY DEF prepare_archive
<1>3. PICK p \in Bijection(1..Len(a.reflog), 1..Len(a.reflog)) :
          log = [i \in 1..Len(a.reflog) |-> a.reflog[p[i]]]
  BY <1>2 DEF Orders
<1>4. p \in [1..Len(a.reflog) -> 1..Len(a.reflog)]
  BY DEF Bijection, Injection
<1>5. a.reflog \in Seq(ReflogEntry) /\ Len(a.reflog) \in Nat
  BY SMTT(30) DEF RefArchive
<1>6. \A i \in 1..Len(a.reflog) : a.reflog[p[i]] \in ReflogEntry
  BY <1>4, <1>5, SMTT(30)
<1>7. log \in [1..Len(a.reflog) -> ReflogEntry]
  BY <1>3, <1>6
<1>8. log \in Seq(ReflogEntry)
  BY <1>5, <1>7, SMTT(30)
<1> QED BY <1>1, <1>2, <1>8 DEF Tables, RefArchive

\* The rowid AUTOINCREMENT assigns is larger than every id in the log.
LEMMA NextIdLarger ==
    ASSUME NEW log \in Seq(ReflogEntry), IdsIncrease(log)
    PROVE  /\ NextEventId(log) \in Nat
           /\ NextEventId(log) > 0
           /\ \A i \in 1..Len(log) : log[i].id < NextEventId(log)
<1>1. \A i \in 1..Len(log) : log[i].id \in Nat
  <2>1. \A i \in 1..Len(log) : log[i] \in ReflogEntry
    BY SMTT(30)
  <2> QED BY <2>1 DEF ReflogEntry
<1>2. CASE log = <<>>
  BY <1>2, SMTT(30) DEF NextEventId
<1>3. CASE log # <<>>
  <2>1. Len(log) \in 1..Len(log)
    BY <1>3, SMTT(30)
  <2>2. NextEventId(log) = log[Len(log)].id + 1
    BY <1>3 DEF NextEventId
  <2>3. \A i \in 1..Len(log) : log[i].id <= log[Len(log)].id
    BY <1>1, <2>1, SMTT(30) DEF IdsIncrease
  <2> QED BY <1>1, <2>1, <2>2, <2>3, SMTT(30)
<1> QED BY <1>2, <1>3

\* Writing the event of a successful comparison keeps the tables well formed:
\* the new event starts from the head the replay left, has a larger id, and
\* is now the newest event of its Ref.
LEMMA AdvanceWellFormed ==
    ASSUME NEW t \in Tables, WellFormed(t), NEW r \in Refs, NEW n \in Commits
    PROVE  LET id == NextEventId(t.reflog)
               e  == [id |-> id, ref |-> r, old |-> t.refs[r].head, new |-> n]
               w  == [refs |-> [t.refs EXCEPT ![r] =
                                  [head |-> n, event |-> id]],
                      reflog |-> Append(t.reflog, e)]
           IN w \in Tables /\ WellFormed(w)
<1> DEFINE id == NextEventId(t.reflog)
           e  == [id |-> id, ref |-> r, old |-> t.refs[r].head, new |-> n]
           log == t.reflog
           new == Append(log, e)
           rs  == [t.refs EXCEPT ![r] = [head |-> n, event |-> id]]
           w   == [refs |-> rs, reflog |-> new]
<1>1. /\ log \in Seq(ReflogEntry) /\ Len(log) \in Nat
      /\ t.refs \in [Refs -> RefRecord]
  BY SMTT(30) DEF Tables
<1>2. IdsIncrease(log) /\ ChainsLinked(log) /\ RefsReplay(t.refs, log)
  BY DEF WellFormed
<1>3. id \in Nat /\ id > 0 /\ \A i \in 1..Len(log) : log[i].id < id
  BY <1>1, <1>2, NextIdLarger
<1>4. e \in ReflogEntry
  BY <1>1, <1>3 DEF ReflogEntry, RefRecord
<1>5. rs \in [Refs -> RefRecord]
  BY <1>1, <1>3 DEF RefRecord, Heads
<1> HIDE DEF id
<1>6. /\ new \in Seq(ReflogEntry)
      /\ Len(new) = Len(log) + 1
      /\ new[Len(log) + 1] = e
      /\ \A i \in 1..Len(log) : new[i] = log[i]
  BY <1>1, <1>4, SMTT(30)
<1>7. w \in Tables
  BY <1>5, <1>6 DEF Tables
<1>8. e.id = id /\ e.ref = r /\ e.old = t.refs[r].head /\ e.new = n
  OBVIOUS
<1> HIDE DEF new, e
<1>9. IdsIncrease(new)
  <2>1. \A i \in 1..Len(log) : log[i].id > 0
    BY <1>2 DEF IdsIncrease
  <2>2. \A i \in 1..Len(new) : new[i].id > 0
    BY <1>1, <1>3, <1>6, <1>8, <2>1, SMTT(30)
  <2>3. ASSUME NEW i \in 1..Len(new), NEW j \in 1..Len(new), i < j
        PROVE  new[i].id < new[j].id
    BY SMTT(60), <1>1, <1>2, <1>3, <1>6, <1>8, <2>3 DEF IdsIncrease
  <2> QED BY <2>2, <2>3 DEF IdsIncrease
<1>10. \A q \in Refs, m \in 0..Len(log) :
          /\ Untouched(new, m, q) <=> Untouched(log, m, q)
          /\ \A k \in 1..m : IsLatest(new, m, q, k) <=> IsLatest(log, m, q, k)
  <2> SUFFICES ASSUME NEW q \in Refs, NEW m \in 0..Len(log)
               PROVE  /\ Untouched(new, m, q) <=> Untouched(log, m, q)
                      /\ \A k \in 1..m : IsLatest(new, m, q, k)
                                            <=> IsLatest(log, m, q, k)
    OBVIOUS
  <2>1. \A j \in 1..m : new[j] = log[j]
    BY <1>1, <1>6, SMTT(30)
  <2>2. Untouched(new, m, q) <=> Untouched(log, m, q)
    BY <2>1 DEF Untouched
  <2>3. ASSUME NEW k \in 1..m
        PROVE  IsLatest(new, m, q, k) <=> IsLatest(log, m, q, k)
    <3>1. \A j \in (k + 1)..m : j \in 1..m
      BY <1>1, SMTT(30)
    <3> QED BY <2>1, <3>1 DEF IsLatest
  <2> QED BY <2>2, <2>3
<1>11. ChainsLinked(new)
  <2> SUFFICES ASSUME NEW i \in 1..Len(new)
               PROVE  \/ new[i].old = NoHead /\ Untouched(new, i - 1, new[i].ref)
                      \/ \E k \in 1..(i - 1) :
                            /\ IsLatest(new, i - 1, new[i].ref, k)
                            /\ new[i].old = new[k].new
    BY DEF ChainsLinked
  <2>1. CASE i \in 1..Len(log)
    <3>1. new[i] = log[i] /\ log[i].ref \in Refs /\ i - 1 \in 0..Len(log)
      <4>1. log[i] \in ReflogEntry
        BY <1>1, <2>1, SMTT(30)
      <4> QED BY SMTT(60), <1>1, <1>6, <2>1, <4>1 DEF ReflogEntry
    <3>2. CASE log[i].old = NoHead /\ Untouched(log, i - 1, log[i].ref)
      BY <1>10, <3>1, <3>2
    <3>3. CASE \E k \in 1..(i - 1) : /\ IsLatest(log, i - 1, log[i].ref, k)
                                      /\ log[i].old = log[k].new
      <4>1. PICK k \in 1..(i - 1) : /\ IsLatest(log, i - 1, log[i].ref, k)
                                    /\ log[i].old = log[k].new
        BY <3>3
      <4>2. new[k] = log[k]
        BY <1>1, <1>6, <2>1, SMTT(30)
      <4> QED BY <1>10, <3>1, <4>1, <4>2
    <3> QED BY <1>2, <2>1, <3>2, <3>3 DEF ChainsLinked
  <2>2. CASE i = Len(log) + 1
    <3>1. new[i] = e /\ i - 1 = Len(log)
      BY <1>1, <1>6, <2>2, SMTT(30)
    <3>2. CASE t.refs[r] = NoRef /\ Untouched(log, Len(log), r)
      <4>1. e.old = NoHead
        BY <1>8, <3>2, SMTT(30) DEF NoRef
      <4>2. Untouched(new, Len(log), r)
        BY <1>1, <1>10, <3>2, SMTT(30)
      <4> QED BY <1>8, <3>1, <4>1, <4>2
    <3>3. CASE \E k \in 1..Len(log) :
                  /\ IsLatest(log, Len(log), r, k)
                  /\ t.refs[r] = [head |-> log[k].new, event |-> log[k].id]
      <4>1. PICK k \in 1..Len(log) :
                  /\ IsLatest(log, Len(log), r, k)
                  /\ t.refs[r] = [head |-> log[k].new, event |-> log[k].id]
        BY <3>3
      <4>2. new[k] = log[k] /\ e.old = log[k].new
        BY <1>6, <1>8, <4>1, SMTT(30)
      <4> QED BY <1>1, <1>8, <1>10, <3>1, <4>1, <4>2, SMTT(60)
    <3> QED BY <1>2, <3>2, <3>3 DEF RefsReplay
  <2> QED BY <1>1, <1>6, <2>1, <2>2, SMTT(30)
<1>12. RefsReplay(rs, new)
  <2> SUFFICES ASSUME NEW q \in Refs
               PROVE  \/ rs[q] = NoRef /\ Untouched(new, Len(new), q)
                      \/ \E k \in 1..Len(new) :
                            /\ IsLatest(new, Len(new), q, k)
                            /\ rs[q] = [head |-> new[k].new,
                                        event |-> new[k].id]
    BY DEF RefsReplay
  <2>1. CASE q = r
    <3>1. rs[q] = [head |-> new[Len(new)].new, event |-> new[Len(new)].id]
      BY <1>1, <1>6, <1>8, <2>1
    <3>2. IsLatest(new, Len(new), q, Len(new))
      BY <1>1, <1>6, <1>8, <2>1, SMTT(30) DEF IsLatest
    <3> QED BY <1>1, <1>6, <3>1, <3>2, SMTT(30)
  <2>2. CASE q # r
    <3>1. rs[q] = t.refs[q]
      BY <1>1, <2>2
    <3>2. CASE t.refs[q] = NoRef /\ Untouched(log, Len(log), q)
      BY SMTT(60), <1>1, <1>6, <1>8, <2>2, <3>1, <3>2 DEF Untouched
    <3>3. CASE \E k \in 1..Len(log) :
                  /\ IsLatest(log, Len(log), q, k)
                  /\ t.refs[q] = [head |-> log[k].new, event |-> log[k].id]
      <4>1. PICK k \in 1..Len(log) :
                  /\ IsLatest(log, Len(log), q, k)
                  /\ t.refs[q] = [head |-> log[k].new, event |-> log[k].id]
        BY <3>3
      <4>2. IsLatest(new, Len(new), q, k)
        <5>1. new[k].ref = q
          BY <1>6, <4>1 DEF IsLatest
        <5>2. ASSUME NEW j \in (k + 1)..Len(new) PROVE new[j].ref # q
          <6>1. CASE j = Len(log) + 1
            BY <1>6, <1>8, <2>2, <6>1
          <6>2. CASE j \in (k + 1)..Len(log)
            BY <1>1, <1>6, <4>1, <6>2, SMTT(30) DEF IsLatest
          <6> QED BY <1>1, <1>6, <6>1, <6>2, SMTT(30)
        <5> QED BY <1>1, <1>6, <5>1, <5>2, SMTT(30) DEF IsLatest
      <4>3. new[k] = log[k] /\ k \in 1..Len(new)
        BY <1>1, <1>6, <4>1, SMTT(30)
      <4> QED BY <3>1, <4>1, <4>2, <4>3
    <3> QED BY <1>2, <3>2, <3>3 DEF RefsReplay
  <2> QED BY <2>1, <2>2
<1> QED BY <1>7, <1>9, <1>11, <1>12 DEF WellFormed, id, new, e

-----------------------------------------------------------------------------
(* The inductive invariant *)

\* The empty database satisfies the invariant.
LEMMA InitIInv == Init => IInv
<1> SUFFICES ASSUME Init PROVE IInv
  OBVIOUS
<1>1. TypeOK
  BY EmptyWellFormed, RefStoreAssumption DEF Init, TypeOK, Calls, Tables
<1>2. LockHeld /\ RequestFits /\ TxUnwritten /\ TxWritten
  BY RefStoreAssumption
  DEF Init, LockHeld, RequestFits, TxUnwritten, TxWritten, InTransaction,
      Updating, Restoring
<1>3. ReflogExplainsRefs
  BY EmptyWellFormed DEF Init, ReflogExplainsRefs, EmptyTables
<1> QED BY <1>1, <1>2, <1>3 DEF IInv

\* Dropping a transaction keeps the invariant: nothing it wrote was visible.
LEMMA RollbackIInv ==
    ASSUME IInv, NEW c \in Clients, Rollback(c)
    PROVE  IInv'
<1> USE DEF IInv
<1>1. TypeOK'
  BY EmptyWellFormed DEF Rollback, TypeOK, Calls
<1>2. LockHeld'
  BY RefStoreAssumption
  DEF Rollback, LockHeld, TypeOK, InTransaction
<1>3. RequestFits'
  BY DEF Rollback, RequestFits, TypeOK, Updating, Restoring
<1>4. TxUnwritten' /\ TxWritten'
  BY RefStoreAssumption
  DEF Rollback, TxUnwritten, TxWritten, LockHeld, TypeOK, InTransaction,
      Extends
<1>5. ReflogExplainsRefs'
  BY DEF Rollback, ReflogExplainsRefs
<1> QED BY <1>1, <1>2, <1>3, <1>4, <1>5

\* Every step of every connection keeps the invariant.
LEMMA NextIInv == IInv /\ [Next]_vars => IInv'
<1> SUFFICES ASSUME IInv, [Next]_vars PROVE IInv'
  OBVIOUS
<1> USE DEF IInv
<1>1. ASSUME NEW c \in Clients, NEW r \in Refs, NEW e \in Heads,
             NEW n \in Commits, NEW p \in Preconditions,
             StartUpdate(c, [ref |-> r, expected |-> e, new |-> n, pre |-> p])
      PROVE  IInv'
  <2> DEFINE u == [ref |-> r, expected |-> e, new |-> n, pre |-> p]
  <2>1. u \in RefUpdate
    BY RefStoreAssumption DEF RefUpdate
  <2> HIDE DEF u
  <2>2. StartUpdate(c, u)
    BY <1>1 DEF u
  <2>3. TypeOK'
    BY <2>1, <2>2 DEF StartUpdate, TypeOK, Calls
  <2>4. LockHeld' /\ TxUnwritten' /\ TxWritten'
    BY <2>2 DEF StartUpdate, TypeOK, LockHeld, TxUnwritten, TxWritten,
                InTransaction, Extends
  <2>5. RequestFits'
    BY <2>1, <2>2 DEF StartUpdate, TypeOK, RequestFits, Updating, Restoring
  <2>6. ReflogExplainsRefs'
    BY <2>2 DEF StartUpdate, ReflogExplainsRefs
  <2> QED BY <2>3, <2>4, <2>5, <2>6
<1>2. ASSUME NEW c \in Clients, NEW a \in Archives, StartRestore(c, a)
      PROVE  IInv'
  <2>1. PICK t \in prepare_archive(a) : req' = [req EXCEPT ![c] = t]
    BY <1>2 DEF StartRestore
  <2>2. t \in Tables /\ WellFormed(t)
    BY PreparedWellFormed, RefStoreAssumption
  <2>3. TypeOK'
    BY <1>2, <2>1, <2>2 DEF StartRestore, TypeOK, Calls
  <2>4. LockHeld' /\ TxUnwritten' /\ TxWritten'
    BY <1>2 DEF StartRestore, TypeOK, LockHeld, TxUnwritten, TxWritten,
                InTransaction, Extends
  <2>5. RequestFits'
    BY <1>2, <2>1, <2>2
    DEF StartRestore, TypeOK, RequestFits, Updating, Restoring
  <2>6. ReflogExplainsRefs'
    BY <1>2 DEF StartRestore, ReflogExplainsRefs
  <2> QED BY <2>3, <2>4, <2>5, <2>6
<1>3. ASSUME NEW c \in Clients, Validate(c) PROVE IInv'
  <2>1. accepted' \subseteq Commits
    <3>1. CASE pc[c] = "validate"
      BY <1>3, <3>1, SMTT(30) DEF Validate, TypeOK, RequestFits, Updating, RefUpdate
    <3>2. CASE pc[c] = "validate_archive"
      <4>1. req[c].reflog \in Seq(ReflogEntry)
        BY <3>2 DEF RequestFits, Restoring, Tables
      <4>2. \A i \in 1..Len(req[c].reflog) : req[c].reflog[i] \in ReflogEntry
        BY <4>1, SMTT(30)
      <4>3. ArchiveHeads(req[c]) \subseteq Commits
        BY <4>2 DEF ArchiveHeads, ReflogEntry
      <4> QED BY <1>3, <3>2, <4>3 DEF Validate, TypeOK
    <3> QED BY <1>3, <3>1, <3>2 DEF Validate
  <2>2. TypeOK'
    BY <1>3, <2>1 DEF Validate, TypeOK, Calls
  <2>3. LockHeld' /\ TxUnwritten' /\ TxWritten' /\ ReflogExplainsRefs'
    BY <1>3 DEF Validate, TypeOK, LockHeld, TxUnwritten, TxWritten,
                InTransaction, Extends, ReflogExplainsRefs
  <2>4. RequestFits'
    BY <1>3 DEF Validate, TypeOK, RequestFits, Updating, Restoring
  <2> QED BY <2>2, <2>3, <2>4
<1>4. ASSUME NEW c \in Clients, Rejected(c) PROVE IInv'
  <2>1. Rollback(c)
    BY <1>4, RefStoreAssumption
    DEF Rejected, Rollback, LockHeld, InTransaction, TypeOK
  <2> QED BY <2>1, RollbackIInv
<1>5. ASSUME NEW c \in Clients, BeginImmediate(c) PROVE IInv'
  <2>1. TypeOK'
    BY <1>5 DEF BeginImmediate, TypeOK, Calls, Tables
  <2>2. \A d \in Clients : pc[d] \notin InTransaction
    BY <1>5, RefStoreAssumption DEF BeginImmediate, LockHeld
  <2>3. LockHeld'
    BY <1>5, <2>2, RefStoreAssumption
    DEF BeginImmediate, LockHeld, TypeOK, InTransaction
  <2>4. RequestFits'
    BY <1>5 DEF BeginImmediate, RequestFits, TypeOK, Updating, Restoring
  <2>5. TxUnwritten' /\ TxWritten'
    BY <1>5, <2>2
    DEF BeginImmediate, TxUnwritten, TxWritten, TypeOK, InTransaction
  <2>6. ReflogExplainsRefs'
    BY <1>5 DEF BeginImmediate, ReflogExplainsRefs
  <2> QED BY <2>1, <2>3, <2>4, <2>5, <2>6
<1>6. ASSUME NEW c \in Clients, BusyTimeout(c) PROVE IInv'
  <2>1. Rollback(c)
    BY <1>6, RefStoreAssumption
    DEF BusyTimeout, Rollback, LockHeld, InTransaction, TypeOK
  <2> QED BY <2>1, RollbackIInv
<1>7. ASSUME NEW c \in Clients, GuardPasses(c) PROVE IInv'
  <2>1. TypeOK'
    BY <1>7 DEF GuardPasses, TypeOK, Calls
  <2>2. LockHeld' /\ RequestFits' /\ TxUnwritten' /\ TxWritten'
    BY <1>7
    DEF GuardPasses, TypeOK, LockHeld, RequestFits, TxUnwritten, TxWritten,
        InTransaction, Updating, Restoring, Extends
  <2>3. ReflogExplainsRefs'
    BY <1>7 DEF GuardPasses, ReflogExplainsRefs
  <2> QED BY <2>1, <2>2, <2>3
<1>8. ASSUME NEW c \in Clients,
             GuardFails(c) \/ CompareFails(c) \/ LoadFails(c) \/ Crash(c)
      PROVE  IInv'
  BY <1>8, RollbackIInv DEF GuardFails, CompareFails, LoadFails, Crash
<1>9. ASSUME NEW c \in Clients, CompareAndWrite(c) PROVE IInv'
  <2>1. /\ req[c] \in RefUpdate
        /\ tx = [refs |-> refs, reflog |-> reflog]
        /\ writer = c
    BY <1>9
    DEF CompareAndWrite, RequestFits, TxUnwritten, LockHeld, Updating,
        InTransaction
  <2>2. tx \in Tables /\ WellFormed(tx)
    BY <2>1 DEF TypeOK, ReflogExplainsRefs
  <2>3. req[c].ref \in Refs /\ req[c].new \in Commits
    BY <2>1 DEF RefUpdate
  <2>4. tx' \in Tables /\ WellFormed(tx')
    BY <1>9, <2>2, <2>3, AdvanceWellFormed DEF CompareAndWrite
  <2>5. TypeOK'
    BY <1>9, <2>4 DEF CompareAndWrite, TypeOK, Calls
  <2>6. \A d \in Clients : d # c => pc[d] \notin InTransaction
    BY <2>1 DEF LockHeld
  <2>7. LockHeld' /\ RequestFits' /\ TxUnwritten'
    BY <1>9, <2>6
    DEF CompareAndWrite, TypeOK, LockHeld, RequestFits, TxUnwritten,
        InTransaction, Updating, Restoring
  <2>8. Extends(tx)'
    <3>1. PICK e : tx'.reflog = Append(reflog, e)
      BY <1>9, <2>1 DEF CompareAndWrite
    <3>2. reflog' = reflog /\ reflog \in Seq(ReflogEntry)
      BY <1>9 DEF CompareAndWrite, TypeOK
    <3> QED BY <3>1, <3>2, SMTT(30) DEF Extends
  <2>9. TxWritten'
    BY <1>9, <2>4, <2>8 DEF CompareAndWrite, TxWritten, WellFormed
  <2>10. ReflogExplainsRefs'
    BY <1>9 DEF CompareAndWrite, ReflogExplainsRefs
  <2> QED BY <2>5, <2>7, <2>9, <2>10
<1>10. ASSUME NEW c \in Clients, LoadArchive(c) PROVE IInv'
  <2>1. /\ req[c] \in Tables /\ WellFormed(req[c])
        /\ tx = [refs |-> refs, reflog |-> reflog]
        /\ writer = c
    BY <1>10
    DEF LoadArchive, RequestFits, TxUnwritten, LockHeld, Restoring,
        InTransaction
  <2>2. tx' = req[c]
    BY <1>10, <2>1 DEF LoadArchive, Tables
  <2>3. reflog = <<>> /\ reflog' = reflog
    BY <1>10, <2>1, SMTT(30) DEF LoadArchive, EmptyTables
  <2>4. TypeOK'
    BY <1>10, <2>1, <2>2 DEF LoadArchive, TypeOK, Calls
  <2>5. \A d \in Clients : d # c => pc[d] \notin InTransaction
    BY <2>1 DEF LockHeld
  <2>6. LockHeld' /\ RequestFits' /\ TxUnwritten'
    BY <1>10, <2>5
    DEF LoadArchive, TypeOK, LockHeld, RequestFits, TxUnwritten,
        InTransaction, Updating, Restoring
  <2>7. Extends(tx)'
    BY <2>1, <2>2, <2>3, SMTT(30) DEF Extends, Tables
  <2>8. TxWritten'
    BY <1>10, <2>1, <2>2, <2>7 DEF LoadArchive, TxWritten, WellFormed
  <2>9. ReflogExplainsRefs'
    BY <1>10 DEF LoadArchive, ReflogExplainsRefs
  <2> QED BY <2>4, <2>6, <2>8, <2>9
<1>11. ASSUME NEW c \in Clients, Commit(c) PROVE IInv'
  <2>1. writer = c /\ WellFormed(tx)
    BY <1>11 DEF Commit, LockHeld, TxWritten, InTransaction
  <2>2. \A d \in Clients : d # c => pc[d] \notin InTransaction
    BY <2>1 DEF LockHeld
  <2>3. TypeOK'
    BY <1>11, EmptyWellFormed DEF Commit, TypeOK, Calls, Tables
  <2>4. LockHeld' /\ RequestFits' /\ TxUnwritten' /\ TxWritten'
    BY <1>11, <2>2, RefStoreAssumption
    DEF Commit, TypeOK, LockHeld, RequestFits, TxUnwritten, TxWritten,
        InTransaction, Updating, Restoring
  <2>5. ReflogExplainsRefs'
    BY <1>11, <2>1 DEF Commit, ReflogExplainsRefs, WellFormed
  <2> QED BY <2>3, <2>4, <2>5
<1>12. ASSUME UNCHANGED vars PROVE IInv'
  BY <1>12
  DEF vars, TypeOK, LockHeld, RequestFits, TxUnwritten, TxWritten, Extends,
      ReflogExplainsRefs, WellFormed
<1> QED
  BY <1>1, <1>2, <1>3, <1>4, <1>5, <1>6, <1>7, <1>8, <1>9, <1>10, <1>11, <1>12
  DEF Next, Call

\* The invariant holds of every reachable state.
THEOREM Invariance == Spec => []IInv
<1>1. Init => IInv
  BY InitIInv
<1>2. IInv /\ [Next]_vars => IInv'
  BY NextIInv
<1> QED BY <1>1, <1>2, PTL DEF Spec

-----------------------------------------------------------------------------
(* The theorems *)

\* Type correctness of the store and of every call in progress.
THEOREM TypeCorrect == Spec => []TypeOK
<1>1. IInv => TypeOK
  BY DEF IInv
<1> QED BY <1>1, Invariance, PTL

\* However many connections compare, write, restore, time out and die, the
\* committed refs table is the replay of the committed reflog.
THEOREM ReflogAlwaysExplainsRefs == Spec => []ReflogExplainsRefs
<1>1. IInv => ReflogExplainsRefs
  BY DEF IInv
<1> QED BY <1>1, Invariance, PTL

\* Only COMMIT changes the log, and what it publishes continues the log.
LEMMA StepGrowsLog ==
    ASSUME IInv, [Next]_vars
    PROVE  \A i \in 1..Len(reflog) : i <= Len(reflog') /\ reflog'[i] = reflog[i]
<1>1. reflog \in Seq(ReflogEntry)
  BY DEF IInv, TypeOK
<1>2. CASE reflog' = reflog
  BY <1>1, <1>2, SMTT(30)
<1>3. ASSUME NEW c \in Clients, Commit(c)
      PROVE  \A i \in 1..Len(reflog) : i <= Len(reflog') /\ reflog'[i] = reflog[i]
  <2>1. Extends(tx) /\ reflog' = tx.reflog
    BY <1>3 DEF Commit, IInv, TxWritten
  <2>2. tx.reflog \in Seq(ReflogEntry)
    BY DEF IInv, TypeOK, Tables
  <2>3. Len(reflog) \in Nat /\ Len(reflog') \in Nat
    BY <1>1, <2>1, <2>2, SMTT(30)
  <2> QED BY <2>1, <2>3, SMTT(30) DEF Extends
<1> QED
  BY <1>2, <1>3
  DEF Next, Call, vars, StartUpdate, StartRestore, Validate, Rejected,
      BeginImmediate, BusyTimeout, GuardPasses, GuardFails, CompareFails,
      CompareAndWrite, LoadFails, LoadArchive, Crash, Rollback

\* No reachable step removes, rewrites or reorders a committed event.
THEOREM LogIsAppendOnly == Spec => ReflogOnlyGrows
<1>1. IInv /\ [Next]_vars =>
        [\A i \in 1..Len(reflog) :
            i <= Len(reflog') /\ reflog'[i] = reflog[i]]_vars
  BY StepGrowsLog
<1> QED BY <1>1, Invariance, PTL DEF Spec, ReflogOnlyGrows

-----------------------------------------------------------------------------
(* Validation *)

\* what each stage of a call has shown to the validator
AcceptedSoFar ==
    \A c \in Clients :
        /\ pc[c] \in {"begin", "guard", "compare"} => req[c].new \in accepted
        /\ pc[c] \in {"begin_restore", "load"}
              => ArchiveHeads(req[c]) \subseteq accepted
        /\ pc[c] = "commit" => HeadsAccepted(tx)

VInv == AcceptedSoFar /\ HeadsAccepted([refs |-> refs, reflog |-> reflog])

\* If the new heads of well formed tables were accepted then so was every
\* head in them: old heads and Ref heads are earlier new heads.
LEMMA NewHeadsSuffice ==
    ASSUME NEW t \in Tables, WellFormed(t), ArchiveHeads(t) \subseteq accepted
    PROVE  HeadsAccepted(t)
<1>1. \A i \in 1..Len(t.reflog) : t.reflog[i].new \in accepted
  BY DEF ArchiveHeads
<1>2. Len(t.reflog) \in Nat
  BY SMTT(30) DEF Tables
<1>3. \A i \in 1..Len(t.reflog) : t.reflog[i].old \in accepted \cup {NoHead}
  <2> SUFFICES ASSUME NEW i \in 1..Len(t.reflog)
               PROVE  t.reflog[i].old \in accepted \cup {NoHead}
    OBVIOUS
  <2>1. \/ t.reflog[i].old = NoHead
        \/ \E k \in 1..(i - 1) : t.reflog[i].old = t.reflog[k].new
    BY DEF WellFormed, ChainsLinked
  <2>2. \A k \in 1..(i - 1) : k \in 1..Len(t.reflog)
    BY <1>2, SMTT(30)
  <2> QED BY <1>1, <2>1, <2>2
<1>4. \A r \in Refs : t.refs[r].head \in accepted \cup {NoHead}
  <2> SUFFICES ASSUME NEW r \in Refs
               PROVE  t.refs[r].head \in accepted \cup {NoHead}
    OBVIOUS
  <2>1. \/ t.refs[r] = NoRef
        \/ \E k \in 1..Len(t.reflog) :
              t.refs[r] = [head |-> t.reflog[k].new, event |-> t.reflog[k].id]
    BY DEF WellFormed, RefsReplay
  <2>2. CASE t.refs[r] = NoRef
    BY <2>2, SMTT(30) DEF NoRef
  <2>3. ASSUME NEW k \in 1..Len(t.reflog),
               t.refs[r] = [head |-> t.reflog[k].new, event |-> t.reflog[k].id]
        PROVE  t.refs[r].head \in accepted \cup {NoHead}
    BY <1>1, <2>3, SMTT(30)
  <2> QED BY <2>1, <2>2, <2>3
<1> QED BY <1>1, <1>3, <1>4 DEF HeadsAccepted

\* Only c's call moves: another's part of the validation invariant stays, for
\* nothing that was accepted is forgotten.
LEMMA OthersVInv ==
    ASSUME VInv, NEW c \in Clients, UNCHANGED <<refs, reflog>>, accepted \subseteq accepted',
           \A d \in Clients : d # c => pc'[d] = pc[d] /\ req'[d] = req[d],
           tx' = tx \/ \A d \in Clients : d # c => pc[d] # "commit",
           pc'[c] \in {"begin", "guard", "compare"} => req'[c].new \in accepted',
           pc'[c] \in {"begin_restore", "load"} => ArchiveHeads(req'[c]) \subseteq accepted',
           pc'[c] = "commit" => HeadsAccepted(tx)'
    PROVE  VInv'
<1>1. HeadsAccepted([refs |-> refs, reflog |-> reflog])'
  BY DEF VInv, HeadsAccepted
<1>2. tx' = tx /\ HeadsAccepted(tx) => HeadsAccepted(tx)'
  BY DEF HeadsAccepted
<1>3. ASSUME NEW d \in Clients, d # c
      PROVE  /\ pc'[d] \in {"begin", "guard", "compare"} => req'[d].new \in accepted'
             /\ pc'[d] \in {"begin_restore", "load"} => ArchiveHeads(req'[d]) \subseteq accepted'
             /\ pc'[d] = "commit" => HeadsAccepted(tx)'
  BY <1>2, <1>3 DEF VInv, AcceptedSoFar
<1>4. AcceptedSoFar'
  BY <1>3 DEF AcceptedSoFar
<1> QED BY <1>1, <1>4 DEF VInv

\* The validation invariant is inductive relative to IInv.
LEMMA NextVInv == IInv /\ VInv /\ [Next]_vars => VInv'
<1> SUFFICES ASSUME IInv, VInv, [Next]_vars PROVE VInv'
  OBVIOUS
<1>1. TypeOK /\ LockHeld /\ RequestFits /\ TxUnwritten
  BY DEF IInv
<1>a. ASSUME NEW c \in Clients, NEW v, NEW r, pc' = [pc EXCEPT ![c] = v],
             req' = [req EXCEPT ![c] = r] \/ UNCHANGED req
      PROVE  /\ pc'[c] = v /\ (req'[c] = r \/ req'[c] = req[c])
             /\ \A d \in Clients : d # c => pc'[d] = pc[d] /\ req'[d] = req[d]
  BY <1>1, <1>a DEF TypeOK
<1>2. ASSUME NEW c \in Clients, Rollback(c) PROVE VInv'
  <2>1. /\ pc'[c] = "idle" /\ UNCHANGED <<refs, reflog, accepted>>
        /\ \A d \in Clients : d # c => pc'[d] = pc[d] /\ req'[d] = req[d]
    BY <1>2, <1>a DEF Rollback
  <2>2. tx' = tx \/ \A d \in Clients : d # c => pc[d] # "commit"
    BY <1>1, <1>2 DEF Rollback, LockHeld, InTransaction
  <2> QED BY <2>1, <2>2, OthersVInv
<1>3. ASSUME NEW c \in Clients, NEW u, StartUpdate(c, u) PROVE VInv'
  <2>1. /\ pc'[c] = "validate" /\ UNCHANGED <<refs, reflog, accepted, tx>>
        /\ \A d \in Clients : d # c => pc'[d] = pc[d] /\ req'[d] = req[d]
    BY <1>3, <1>a DEF StartUpdate
  <2> QED BY <2>1, OthersVInv
<1>4. ASSUME NEW c \in Clients, NEW a, StartRestore(c, a) PROVE VInv'
  <2>1. /\ pc'[c] = "validate_archive" /\ UNCHANGED <<refs, reflog, accepted, tx>>
        /\ \A d \in Clients : d # c => pc'[d] = pc[d] /\ req'[d] = req[d]
    BY <1>4, <1>a DEF StartRestore
  <2> QED BY <2>1, OthersVInv
<1>5. ASSUME NEW c \in Clients, Validate(c) PROVE VInv'
  <2>1. /\ UNCHANGED <<refs, reflog, req, tx>> /\ accepted \subseteq accepted'
        /\ \/ pc'[c] = "begin" /\ req[c].new \in accepted'
           \/ pc'[c] = "begin_restore" /\ ArchiveHeads(req[c]) \subseteq accepted'
        /\ \A d \in Clients : d # c => pc'[d] = pc[d] /\ req'[d] = req[d]
    BY <1>5, <1>a DEF Validate
  <2> QED BY <2>1, OthersVInv
<1>6. ASSUME NEW c \in Clients, Rejected(c) \/ BusyTimeout(c) PROVE VInv'
  <2>1. /\ pc'[c] = "idle" /\ UNCHANGED <<refs, reflog, accepted, tx>>
        /\ \A d \in Clients : d # c => pc'[d] = pc[d] /\ req'[d] = req[d]
    BY <1>6, <1>a DEF Rejected, BusyTimeout
  <2> QED BY <2>1, OthersVInv
<1>7. ASSUME NEW c \in Clients, BeginImmediate(c) PROVE VInv'
  <2>1. \A d \in Clients : pc[d] # "commit"
    BY <1>1, <1>7, RefStoreAssumption
    DEF BeginImmediate, LockHeld, InTransaction
  <2>2. /\ UNCHANGED <<refs, reflog, accepted, req>>
        /\ \/ pc[c] = "begin" /\ pc'[c] = "guard"
           \/ pc[c] = "begin_restore" /\ pc'[c] = "load"
        /\ \A d \in Clients : d # c => pc'[d] = pc[d] /\ req'[d] = req[d]
    BY <1>7, <1>a DEF BeginImmediate
  <2> QED BY <2>1, <2>2, OthersVInv DEF VInv, AcceptedSoFar
<1>8. ASSUME NEW c \in Clients, GuardPasses(c) PROVE VInv'
  <2>1. /\ pc[c] = "guard" /\ pc'[c] = "compare" /\ UNCHANGED <<refs, reflog, accepted, req, tx>>
        /\ \A d \in Clients : d # c => pc'[d] = pc[d] /\ req'[d] = req[d]
    BY <1>8, <1>a DEF GuardPasses
  <2> QED BY <2>1, OthersVInv DEF VInv, AcceptedSoFar
<1>9. ASSUME NEW c \in Clients, CompareAndWrite(c) PROVE VInv'
  <2>1. /\ req[c] \in RefUpdate /\ req[c].ref \in Refs
        /\ tx = [refs |-> refs, reflog |-> reflog]
        /\ req[c].new \in accepted
    BY <1>1, <1>9
    DEF CompareAndWrite, RequestFits, TxUnwritten, Updating, RefUpdate,
        VInv, AcceptedSoFar
  <2>2. tx \in Tables /\ HeadsAccepted(tx)
    BY <1>1, <2>1 DEF TypeOK, VInv
  <2> DEFINE id == NextEventId(tx.reflog)
             e  == [id |-> id, ref |-> req[c].ref,
                    old |-> tx.refs[req[c].ref].head, new |-> req[c].new]
  <2>3. /\ tx'.refs = [tx.refs EXCEPT ![req[c].ref] =
                           [head |-> req[c].new, event |-> id]]
        /\ tx'.reflog = Append(tx.reflog, e)
        /\ accepted' = accepted
    BY <1>9 DEF CompareAndWrite
  <2>4. e.old \in accepted \cup {NoHead} /\ e.new \in accepted \cup {NoHead}
    BY <2>1, <2>2 DEF HeadsAccepted
  <2> HIDE DEF e, id
  <2>5. \A r \in Refs : tx'.refs[r].head \in accepted \cup {NoHead}
    BY <2>1, <2>2, <2>3, SMTT(30) DEF HeadsAccepted, Tables
  <2>6. \A i \in 1..Len(tx'.reflog) :
            tx'.reflog[i] = e \/ \E k \in 1..Len(tx.reflog) :
                                    tx'.reflog[i] = tx.reflog[k]
    BY <2>2, <2>3, SMTT(30) DEF Tables
  <2>7. HeadsAccepted(tx)'
    BY <2>2, <2>3, <2>4, <2>5, <2>6 DEF HeadsAccepted
  <2>8. /\ pc'[c] = "commit" /\ UNCHANGED <<refs, reflog, accepted, req>>
        /\ \A d \in Clients : d # c => pc'[d] = pc[d] /\ req'[d] = req[d]
    BY <1>9, <1>a DEF CompareAndWrite
  <2>9. \A d \in Clients : d # c => pc[d] # "commit"
    BY <1>1, <1>9 DEF CompareAndWrite, LockHeld, InTransaction
  <2> QED BY <2>7, <2>8, <2>9, OthersVInv
<1>10. ASSUME NEW c \in Clients, LoadArchive(c) PROVE VInv'
  <2>1. /\ req[c] \in Tables /\ WellFormed(req[c])
        /\ ArchiveHeads(req[c]) \subseteq accepted
    BY <1>1, <1>10 DEF LoadArchive, RequestFits, Restoring, VInv, AcceptedSoFar
  <2>2. HeadsAccepted(req[c])
    BY <2>1, NewHeadsSuffice
  <2>3. HeadsAccepted(tx)'
    BY <1>10, <2>2 DEF LoadArchive, HeadsAccepted
  <2>4. /\ pc'[c] = "commit" /\ UNCHANGED <<refs, reflog, accepted, req>>
        /\ \A d \in Clients : d # c => pc'[d] = pc[d] /\ req'[d] = req[d]
    BY <1>10, <1>a DEF LoadArchive
  <2>5. \A d \in Clients : d # c => pc[d] # "commit"
    BY <1>1, <1>10 DEF LoadArchive, LockHeld, InTransaction
  <2> QED BY <2>3, <2>4, <2>5, OthersVInv
<1>11. ASSUME NEW c \in Clients, Commit(c) PROVE VInv'
  <2>1. HeadsAccepted(tx)
    BY <1>11 DEF Commit, VInv, AcceptedSoFar
  <2>2. \A d \in Clients : d # c => pc[d] # "commit"
    BY <1>1, <1>11 DEF Commit, LockHeld, InTransaction
  <2> QED BY <1>1, <1>11, <2>1, <2>2
          DEF Commit, VInv, AcceptedSoFar, HeadsAccepted, TypeOK
<1>12. CASE UNCHANGED vars
  BY <1>12 DEF vars, VInv, AcceptedSoFar, HeadsAccepted
<1> QED
  BY <1>2, <1>3, <1>4, <1>5, <1>6, <1>7, <1>8, <1>9, <1>10, <1>11, <1>12
  DEF Next, Call, GuardFails, CompareFails, LoadFails, Crash

\* No CAS and no restore has a path around the RefTargetValidator.
THEOREM EveryHeadWasValidated == Spec => []OnlyValidatedHeads
<1>1. Init => VInv
  <2> SUFFICES ASSUME Init PROVE VInv
    OBVIOUS
  <2>1. AcceptedSoFar
    BY DEF Init, AcceptedSoFar
  <2>2. \A r \in Refs : refs[r].head = NoHead
    BY DEF Init, EmptyTables, NoRef
  <2>3. reflog = <<>> /\ 1..Len(<<>>) = {}
    BY SMTT(30) DEF Init, EmptyTables
  <2> QED BY <2>1, <2>2, <2>3 DEF VInv, HeadsAccepted
<1>2. IInv /\ VInv /\ [Next]_vars => VInv'
  BY NextVInv
<1>3. VInv => OnlyValidatedHeads
  BY DEF VInv, HeadsAccepted, OnlyValidatedHeads
<1> QED BY <1>1, <1>2, <1>3, Invariance, PTL DEF Spec

-----------------------------------------------------------------------------
(* Compare-and-swap, and refinement *)

\* the transaction holds exactly what update u writes to the committed tables
Swapped(u) ==
    LET id == NextEventId(reflog)
    IN /\ \A p \in u.pre : refs[p.ref].head = p.head
       /\ refs[u.ref].head = u.expected
       /\ tx = [refs |-> [refs EXCEPT ![u.ref] =
                             [head |-> u.new, event |-> id]],
                reflog |-> Append(reflog, [id |-> id, ref |-> u.ref,
                                           old |-> refs[u.ref].head,
                                           new |-> u.new])]

\* the transaction holds an archive and the committed tables are empty
Loaded == refs = EmptyTables.refs /\ reflog = <<>>

CInv ==
    \A c \in Clients :
        /\ pc[c] \in Updating => req[c].pre \in Preconditions
        /\ pc[c] = "commit" =>
              \/ /\ req[c] \in RefUpdate /\ req[c].pre \in Preconditions
                 /\ Swapped(req[c])
              \/ req[c] \in Tables /\ Loaded

\* No request is both an update and a pair of tables.
LEMMA RequestsDiffer == \A q : ~(q \in RefUpdate /\ q \in Tables)
<1> SUFFICES ASSUME NEW q, q \in RefUpdate, q \in Tables PROVE FALSE
  OBVIOUS
<1>1. "new" \in DOMAIN q
  BY DEF RefUpdate
<1>2. DOMAIN q = {"refs", "reflog"}
  BY DEF Tables
<1> QED BY <1>1, <1>2

\* Only c's call moves and it does not get to its commit: another's part of the
\* invariant stays.
LEMMA OthersCInv ==
    ASSUME CInv, NEW c \in Clients, UNCHANGED <<refs, reflog, tx>>,
           \A d \in Clients : d # c => pc'[d] = pc[d] /\ req'[d] = req[d],
           pc'[c] # "commit", pc'[c] \in Updating => req'[c].pre \in Preconditions
    PROVE  CInv'
<1>1. ASSUME NEW d \in Clients, req'[d] = req[d], Swapped(req[d]) PROVE Swapped(req[d])'
  BY <1>1 DEF Swapped
<1>2. Loaded => Loaded'
  BY DEF Loaded
<1> QED BY <1>1, <1>2 DEF CInv

\* What a transaction is about to commit was computed from the committed
\* tables as they still are.
LEMMA NextCInv == IInv /\ CInv /\ [Next]_vars => CInv'
<1> SUFFICES ASSUME IInv, CInv, [Next]_vars PROVE CInv'
  OBVIOUS
<1>1. TypeOK /\ LockHeld /\ RequestFits /\ TxUnwritten
  BY DEF IInv
<1>a. ASSUME NEW c \in Clients, NEW v, NEW r, pc' = [pc EXCEPT ![c] = v],
             req' = [req EXCEPT ![c] = r] \/ UNCHANGED req
      PROVE  /\ pc'[c] = v /\ (req'[c] = r \/ req'[c] = req[c])
             /\ \A d \in Clients : d # c => pc'[d] = pc[d] /\ req'[d] = req[d]
  BY <1>1, <1>a DEF TypeOK
<1>b. ASSUME NEW c \in Clients, NEW r, req' = [req EXCEPT ![c] = r] PROVE req'[c] = r
  BY <1>1, <1>b DEF TypeOK
<1> USE DEF CInv, Updating
<1>2. ASSUME NEW c \in Clients, Rollback(c) PROVE CInv'
  BY <1>1, <1>2
  DEF Rollback, Swapped, Loaded, LockHeld, InTransaction, TypeOK
<1>3. ASSUME NEW c \in Clients, NEW r, NEW e, NEW n, NEW p \in Preconditions,
             StartUpdate(c, [ref |-> r, expected |-> e, new |-> n, pre |-> p])
      PROVE  CInv'
  <2> DEFINE u == [ref |-> r, expected |-> e, new |-> n, pre |-> p]
  <2>1. u.pre \in Preconditions
    OBVIOUS
  <2> HIDE DEF u
  <2>2. StartUpdate(c, u)
    BY <1>3 DEF u
  <2>3. /\ pc'[c] = "validate" /\ req'[c] = u /\ UNCHANGED <<refs, reflog, tx>>
        /\ \A d \in Clients : d # c => pc'[d] = pc[d] /\ req'[d] = req[d]
    BY <2>2, <1>a, <1>b DEF StartUpdate
  <2> QED BY <2>1, <2>3, OthersCInv
<1>4. ASSUME NEW c \in Clients, NEW a, StartRestore(c, a) PROVE CInv'
  <2>1. /\ pc'[c] = "validate_archive" /\ UNCHANGED <<refs, reflog, tx>>
        /\ \A d \in Clients : d # c => pc'[d] = pc[d] /\ req'[d] = req[d]
    BY <1>4, <1>a DEF StartRestore
  <2> QED BY <2>1, OthersCInv
<1>5. ASSUME NEW c \in Clients, Validate(c) PROVE CInv'
  <2>1. /\ UNCHANGED <<refs, reflog, req, tx>>
        /\ \/ pc[c] = "validate" /\ pc'[c] = "begin"
           \/ pc'[c] = "begin_restore"
        /\ \A d \in Clients : d # c => pc'[d] = pc[d] /\ req'[d] = req[d]
    BY <1>5, <1>a DEF Validate
  <2> QED BY <2>1, OthersCInv
<1>6. ASSUME NEW c \in Clients, Rejected(c) \/ BusyTimeout(c) PROVE CInv'
  <2>1. /\ pc'[c] = "idle" /\ UNCHANGED <<refs, reflog, tx>>
        /\ \A d \in Clients : d # c => pc'[d] = pc[d] /\ req'[d] = req[d]
    BY <1>6, <1>a DEF Rejected, BusyTimeout
  <2> QED BY <2>1, OthersCInv
<1>7. ASSUME NEW c \in Clients, BeginImmediate(c) PROVE CInv'
  <2>1. \A d \in Clients : pc[d] # "commit"
    BY <1>1, <1>7, RefStoreAssumption
    DEF BeginImmediate, LockHeld, InTransaction
  <2> QED BY <1>1, <1>7, <2>1 DEF BeginImmediate, TypeOK
<1>8. ASSUME NEW c \in Clients, GuardPasses(c) PROVE CInv'
  BY <1>1, <1>8 DEF GuardPasses, Swapped, Loaded, TypeOK
<1>9. ASSUME NEW c \in Clients, CompareAndWrite(c) PROVE CInv'
  <2>1. /\ req[c] \in RefUpdate /\ req[c].pre \in Preconditions
        /\ tx = [refs |-> refs, reflog |-> reflog]
    BY <1>1, <1>9 DEF CompareAndWrite, RequestFits, TxUnwritten
  <2>2. refs = tx.refs /\ reflog = tx.reflog
    BY <2>1
  <2>3. Swapped(req[c])'
    BY <1>9, <2>2
    DEF CompareAndWrite, Swapped, PreconditionsHold, TargetMatches
  <2>4. \A d \in Clients : d # c => pc[d] # "commit"
    BY <1>1, <1>9 DEF CompareAndWrite, LockHeld, InTransaction
  <2> QED BY <1>1, <1>9, <2>1, <2>3, <2>4 DEF CompareAndWrite, TypeOK
<1>10. ASSUME NEW c \in Clients, LoadArchive(c) PROVE CInv'
  <2>1. /\ req[c] \in Tables
        /\ refs = EmptyTables.refs /\ reflog = <<>>
    BY <1>1, <1>10
    DEF LoadArchive, RequestFits, TxUnwritten, Restoring, EmptyTables
  <2>2. \A d \in Clients : d # c => pc[d] # "commit"
    BY <1>1, <1>10 DEF LoadArchive, LockHeld, InTransaction
  <2> QED BY <1>1, <1>10, <2>1, <2>2 DEF LoadArchive, Loaded, TypeOK
<1>11. ASSUME NEW c \in Clients, Commit(c) PROVE CInv'
  <2>1. \A d \in Clients : d # c => pc[d] # "commit"
    BY <1>1, <1>11 DEF Commit, LockHeld, InTransaction
  <2> QED BY <1>1, <1>11, <2>1 DEF Commit, TypeOK
<1>12. CASE UNCHANGED vars
  BY <1>12 DEF vars, Swapped, Loaded
<1> QED
  BY <1>2, <1>3, <1>4, <1>5, <1>6, <1>7, <1>8, <1>9, <1>10, <1>11, <1>12
  DEF Next, Call, GuardFails, CompareFails, LoadFails, Crash

\* The compare-and-swap invariant holds of every reachable state.
LEMMA CInvInvariance == Spec => []CInv
<1>1. Init => CInv
  BY DEF Init, CInv, Updating
<1> QED BY <1>1, NextCInv, Invariance, PTL DEF Spec

\* Of all steps only a COMMIT changes the committed tables.
LEMMA OnlyCommitWrites ==
    ASSUME [Next]_vars, <<refs, reflog>>' # <<refs, reflog>>
    PROVE  \E c \in Clients : Commit(c)
BY DEF Next, Call, vars, StartUpdate, StartRestore, Validate, Rejected,
       BeginImmediate, BusyTimeout, GuardPasses, GuardFails, CompareFails,
       CompareAndWrite, LoadFails, LoadArchive, Crash, Rollback

\* A committed update found its expected head and every precondition true in
\* the very state it replaced.
THEOREM UpdatesCompareAndSwap == Spec => UpdateIsCompareAndSwap
<1> DEFINE Swap(c) ==
        (pc[c] = "commit" /\ reflog' # reflog /\ req[c] \in RefUpdate
            /\ writer = c)
        => /\ refs[req[c].ref].head = req[c].expected
           /\ \A p \in req[c].pre : refs[p.ref].head = p.head
           /\ refs' = [refs EXCEPT ![req[c].ref] =
                          [head |-> req[c].new,
                           event |-> reflog'[Len(reflog')].id]]
<1>1. ASSUME IInv, CInv, [Next]_vars, NEW c \in Clients PROVE Swap(c)
  <2> SUFFICES ASSUME pc[c] = "commit", reflog' # reflog,
                      req[c] \in RefUpdate, writer = c
               PROVE  /\ refs[req[c].ref].head = req[c].expected
                      /\ \A p \in req[c].pre : refs[p.ref].head = p.head
                      /\ refs' = [refs EXCEPT ![req[c].ref] =
                                     [head |-> req[c].new,
                                      event |-> reflog'[Len(reflog')].id]]
    OBVIOUS
  <2>1. Swapped(req[c])
    BY <1>1, RequestsDiffer DEF CInv
  <2>2. PICK d \in Clients : Commit(d)
    BY <1>1, OnlyCommitWrites
  <2>3. refs' = tx.refs /\ reflog' = tx.reflog
    BY <2>2 DEF Commit
  <2>4. reflog \in Seq(ReflogEntry)
    BY <1>1 DEF IInv, TypeOK
  <2>5. reflog'[Len(reflog')].id = NextEventId(reflog)
    BY <2>1, <2>3, <2>4, SMTT(30) DEF Swapped
  <2> QED BY <2>1, <2>3, <2>5 DEF Swapped
<1>2. IInv /\ CInv /\ [Next]_vars => [\A c \in Clients : Swap(c)]_vars
  BY <1>1
<1> QED BY <1>2, Invariance, CInvInvariance, PTL
        DEF Spec, UpdateIsCompareAndSwap

\* COMMIT is one abstract step, every other step changes nothing a caller of
\* the abstract store can see.
LEMMA StepRefines ==
    ASSUME IInv, CInv, [Next]_vars
    PROVE  [H!Next]_<<refs, reflog>>
<1>1. ASSUME NEW c \in Clients, Commit(c) PROVE [H!Next]_<<refs, reflog>>
  <2>1. refs' = tx.refs /\ reflog' = tx.reflog /\ pc[c] = "commit"
    BY <1>1 DEF Commit
  <2>2. CASE /\ req[c] \in RefUpdate /\ req[c].pre \in Preconditions
             /\ Swapped(req[c])
    <3>1. req[c].ref \in Refs /\ req[c].new \in Commits
      BY <2>2 DEF RefUpdate
    <3>2. H!Advance(req[c].ref, req[c].new, req[c].pre)
      BY <2>1, <2>2 DEF Swapped, H!Advance, NextEventId
    <3> QED BY <2>2, <3>1, <3>2 DEF H!Next
  <2>3. CASE Loaded
    <3>1. tx \in Tables /\ WellFormed(tx)
      BY <2>1 DEF IInv, TypeOK, TxWritten
    <3>2. H!Empty /\ reflog = <<>>
      BY <2>3 DEF Loaded, H!Empty, EmptyTables, NoRef
    <3>3. CASE tx.reflog = <<>>
      <4>1. \A r \in Refs : tx.refs[r] = NoRef
        BY <3>1, <3>3, SMTT(30) DEF WellFormed, RefsReplay
      <4>2. tx.refs = refs
        BY <2>3, <3>1, <4>1 DEF Loaded, EmptyTables, Tables
      <4> QED BY <2>1, <3>2, <3>3, <4>2
    <3>4. CASE tx.reflog # <<>>
      <4>1. Len(reflog') > 0
        BY <2>1, <3>1, <3>4, SMTT(30) DEF Tables
      <4> QED BY <3>2, <4>1 DEF H!Next, H!Load
    <3> QED BY <3>3, <3>4
  <2> QED BY <2>1, <2>2, <2>3 DEF CInv
<1>2. CASE <<refs, reflog>>' # <<refs, reflog>>
  BY <1>1, <1>2, OnlyCommitWrites
<1> QED BY <1>2

\* The connections together implement the abstract Ref history: each call
\* takes effect at one point or not at all.
THEOREM RefStoreImplementsHistory == Spec => ImplementsRefHistory
<1>1. Init => H!Init
  BY DEF Init, EmptyTables, NoRef, H!Init, H!Empty
<1>2. IInv /\ CInv /\ [Next]_vars => [H!Next]_<<refs, reflog>>
  BY StepRefines
<1> QED BY <1>1, <1>2, Invariance, CInvInvariance, PTL
        DEF Spec, ImplementsRefHistory, H!Spec

-----------------------------------------------------------------------------
(* Reads of the database file while it is written *)

\* the copy is complete
Captured == {"digest", "compare", "last_check", "open"}

ReadTypeOK ==
    /\ main \in [Pages -> Nat] /\ sidecars \in BOOLEAN /\ version \in Nat /\ floor \in Nat
    /\ open \in {"idle", "copy", "busy", "changed"} \cup Captured
    /\ DOMAIN copy \subseteq Pages /\ \A p \in DOMAIN copy : copy[p] \in Nat
    /\ DOMAIN digest \subseteq Pages /\ \A p \in DOMAIN digest : digest[p] \in Nat

\* the main file is behind the last commit, and no further when nobody writes
MainFits ==
    /\ floor <= version
    /\ \A p \in Pages : main[p] <= version
    /\ ~sidecars => \A p \in Pages : main[p] = version

\* when the copy was complete and nobody wrote, every page was of version v: the
\* copy is not newer, what is hashed afterwards not older
Between(v) ==
    /\ floor <= v
    /\ \A p \in Pages : copy[p] <= v /\ v <= main[p]
    /\ \A p \in DOMAIN digest : v <= digest[p]

CopyFits ==
    /\ open = "idle" => copy = NoPages
    /\ open \in {"idle", "copy"} => digest = NoPages
    /\ open = "copy" => \A p \in DOMAIN copy : copy[p] <= version
    /\ open \in Captured => DOMAIN copy = Pages /\ \E v \in Nat : Between(v)
    /\ open \in Captured \ {"digest"} => DOMAIN digest = Pages
    /\ open \in {"last_check", "open"} => copy = digest

FileInv == ReadTypeOK /\ MainFits /\ CopyFits

\* A writer's step moves pages forward only, and leaves the reader alone.
Written ==
    /\ main' \in [Pages -> Nat] /\ sidecars' \in BOOLEAN /\ version' \in Nat
    /\ \A p \in Pages : main[p] <= main'[p]
    /\ version <= version'
    /\ UNCHANGED <<open, copy, digest, floor>>

\* Whatever the writers do, the reader's part of the invariant stays.
LEMMA WritersSpareCopy ==
    ASSUME FileInv, Written, MainFits'
    PROVE  FileInv'
<1> USE DEF FileInv
<1>1. ReadTypeOK'
  BY DEF ReadTypeOK, Written
<1>2. ASSUME NEW v \in Nat, Between(v) PROVE Between(v)'
  BY <1>2, SMTT(30) DEF Between, Written, ReadTypeOK
<1>3. open \in Captured => \E v \in Nat : Between(v)'
  BY <1>2 DEF CopyFits
<1>4. open = "copy" => \A p \in DOMAIN copy : copy[p] <= version'
  BY SMTT(30) DEF CopyFits, Written, ReadTypeOK
<1>5. CopyFits'
  BY <1>3, <1>4 DEF CopyFits, Written
<1> QED BY <1>1, <1>5

\* The three reads of the sidecars find them absent, or the open is given up.
LEMMA CheckKeeps ==
    ASSUME FileInv, NEW from, NEW to, Check(from, to), UNCHANGED floor,
           to \in Captured,
           ~sidecars => CopyFits'
    PROVE  FileInv'
<1> USE DEF FileInv
<1>1. UNCHANGED <<main, sidecars, version, copy, digest, floor>>
  BY DEF Check
<1>2. open' = "busy" \/ (open' = to /\ ~sidecars)
  BY DEF Check
<1>3. ReadTypeOK' /\ MainFits'
  BY <1>1, <1>2 DEF ReadTypeOK, MainFits
<1>4. CopyFits'
  BY <1>2 DEF CopyFits, Captured
<1> QED BY <1>3, <1>4

\* Every step on the file keeps the invariant.
LEMMA FileStep == FileInv /\ FileNext => FileInv'
<1> SUFFICES ASSUME FileInv, FileNext PROVE FileInv'
  OBVIOUS
<1> USE DEF FileInv
<1>0. NoPages = [p \in {} |-> 0] /\ DOMAIN NoPages = {}
  BY DEF NoPages
<1>1. CASE OpenWriter
  <2>0. sidecars' \in BOOLEAN
    BY <1>1 DEF OpenWriter
  <2>1. Written
    BY <1>1, <2>0, SMTT(30) DEF OpenWriter, Written, ReadTypeOK
  <2>2. MainFits'
    BY <1>1 DEF OpenWriter, MainFits
  <2> QED BY <2>1, <2>2, WritersSpareCopy
<1>2. CASE CommitVersion
  <2>1. Written
    BY <1>2, SMTT(30) DEF CommitVersion, Written, ReadTypeOK
  <2>2. MainFits'
    BY <1>2, SMTT(30) DEF CommitVersion, MainFits, ReadTypeOK
  <2> QED BY <2>1, <2>2, WritersSpareCopy
<1>3. CASE CloseWriter
  <2>0. sidecars' \in BOOLEAN
    BY <1>3 DEF CloseWriter
  <2>1. Written
    BY <1>3, <2>0, SMTT(30) DEF CloseWriter, Written, ReadTypeOK
  <2>2. MainFits'
    BY <1>3 DEF CloseWriter, MainFits
  <2> QED BY <2>1, <2>2, WritersSpareCopy
<1>4. ASSUME NEW p \in Pages, CheckpointPage(p) PROVE FileInv'
  <2>1. Written
    BY <1>4, SMTT(30) DEF CheckpointPage, Written, ReadTypeOK, MainFits
  <2>2. MainFits'
    BY <1>4, SMTT(30) DEF CheckpointPage, MainFits, ReadTypeOK
  <2> QED BY <2>1, <2>2, WritersSpareCopy
<1>5. CASE open_existing_read_only
  <2>1. /\ UNCHANGED <<main, sidecars, version, copy, digest>> /\ floor' = version
        /\ open = "idle" /\ open' \in {"busy", "copy"}
    BY <1>5 DEF open_existing_read_only, Check
  <2>2. ReadTypeOK'
    BY <2>1 DEF ReadTypeOK
  <2>3. MainFits'
    BY <2>1, SMTT(30) DEF MainFits, ReadTypeOK
  <2>4. CopyFits'
    BY <1>0, <2>1 DEF CopyFits, Captured
  <2> QED BY <2>2, <2>3, <2>4
<1>6. ASSUME NEW p \in Pages, copy_database_with_digest(p) PROVE FileInv'
  <2>1. /\ open = "copy" /\ UNCHANGED <<main, sidecars, version, open, digest, floor>>
        /\ DOMAIN copy' = DOMAIN copy \cup {p}
        /\ \A q \in DOMAIN copy' : copy'[q] = main[p] \/ (q \in DOMAIN copy /\ copy'[q] = copy[q])
    BY <1>6 DEF copy_database_with_digest
  <2>2. main[p] \in Nat /\ main[p] <= version
    BY DEF MainFits, ReadTypeOK
  <2>3. ReadTypeOK'
    BY <2>1, <2>2 DEF ReadTypeOK
  <2>4. MainFits'
    BY <2>1 DEF MainFits
  <2>5. CopyFits'
    BY <2>1, <2>2 DEF CopyFits, Captured
  <2> QED BY <2>3, <2>4, <2>5
<1>7. CASE CheckAfterCopy
  <2>1. /\ open = "copy" /\ DOMAIN copy = Pages /\ UNCHANGED <<main, copy, digest, floor>>
        /\ open' = IF sidecars THEN "busy" ELSE "digest"
    BY <1>7 DEF CheckAfterCopy, Check
  <2>2. ASSUME ~sidecars PROVE CopyFits'
    <3>1. digest' = NoPages
      BY <2>1 DEF CopyFits
    <3>2. \A p \in Pages : copy'[p] <= version /\ version <= main'[p]
      BY <2>1, <2>2, SMTT(30) DEF CopyFits, MainFits, ReadTypeOK
    <3>4. \E v \in Nat : Between(v)'
      <4>1. version \in Nat /\ floor' <= version
        BY <2>1 DEF MainFits, ReadTypeOK
      <4> QED BY <1>0, <3>1, <3>2, <4>1 DEF Between
    <3> QED BY <2>1, <2>2, <3>4 DEF CopyFits, Captured
  <2> QED BY <1>7, <2>2, CheckKeeps DEF CheckAfterCopy, Captured
<1>8. ASSUME NEW p \in Pages, digest_database(p) PROVE FileInv'
  <2>1. /\ open = "digest" /\ UNCHANGED <<main, sidecars, version, open, copy, floor>>
        /\ DOMAIN digest' = DOMAIN digest \cup {p}
        /\ \A q \in DOMAIN digest' :
              digest'[q] = main[p] \/ (q \in DOMAIN digest /\ digest'[q] = digest[q])
    BY <1>8 DEF digest_database
  <2>2. main[p] \in Nat
    BY DEF ReadTypeOK
  <2>3. ReadTypeOK'
    BY <2>1, <2>2 DEF ReadTypeOK
  <2>4. MainFits'
    BY <2>1 DEF MainFits
  <2>5. PICK v \in Nat : Between(v)
    BY <2>1 DEF CopyFits, Captured
  <2>6. Between(v)'
    BY <2>1, <2>5 DEF Between
  <2>7. CopyFits'
    BY <2>1, <2>6 DEF CopyFits, Captured
  <2> QED BY <2>3, <2>4, <2>7
<1>9. CASE CheckAfterDigest
  <2>1. /\ open = "digest" /\ DOMAIN digest = Pages /\ UNCHANGED <<main, copy, digest, floor>>
        /\ open' = IF sidecars THEN "busy" ELSE "compare"
    BY <1>9 DEF CheckAfterDigest, Check
  <2>2. ASSUME ~sidecars PROVE CopyFits'
    <3>1. \E v \in Nat : Between(v)'
      BY <2>1 DEF CopyFits, Captured, Between
    <3> QED BY <2>1, <2>2, <3>1 DEF CopyFits, Captured
  <2> QED BY <1>9, <2>2, CheckKeeps DEF CheckAfterDigest, Captured
<1>10. CASE CompareDigests
  <2>1. /\ open = "compare" /\ UNCHANGED <<main, sidecars, version, copy, digest, floor>>
        /\ open' = IF copy = digest THEN "last_check" ELSE "changed"
    BY <1>10 DEF CompareDigests
  <2>2. ReadTypeOK' /\ MainFits'
    BY <2>1 DEF ReadTypeOK, MainFits, Captured
  <2>3. \E v \in Nat : Between(v)'
    BY <2>1 DEF CopyFits, Captured, Between
  <2>4. CopyFits'
    BY <2>1, <2>3 DEF CopyFits, Captured
  <2> QED BY <2>2, <2>4
<1>11. CASE LastCheck
  <2>1. /\ open = "last_check" /\ UNCHANGED <<main, copy, digest, floor>>
        /\ open' = IF sidecars THEN "busy" ELSE "open"
    BY <1>11 DEF LastCheck, Check
  <2>2. ASSUME ~sidecars PROVE CopyFits'
    <3>1. \E v \in Nat : Between(v)'
      BY <2>1 DEF CopyFits, Captured, Between
    <3> QED BY <2>1, <2>2, <3>1 DEF CopyFits, Captured
  <2> QED BY <1>11, <2>2, CheckKeeps DEF LastCheck, Captured
<1>12. CASE Retry
  <2>1. UNCHANGED <<main, sidecars, version, floor>> /\ open' = "idle"
        /\ copy' = NoPages /\ digest' = NoPages
    BY <1>12 DEF Retry
  <2> QED BY <1>0, <2>1 DEF ReadTypeOK, MainFits, CopyFits, Captured
<1> QED BY <1>1, <1>2, <1>3, <1>4, <1>5, <1>6, <1>7, <1>8, <1>9, <1>10, <1>11, <1>12
        DEF FileNext

\* A copy that is opened is one commit.
LEMMA FileInvSuffices == FileInv => SnapshotIsOneCommit
<1> SUFFICES ASSUME FileInv, open = "open" 
             PROVE  /\ \A p, q \in Pages : copy[p] = copy[q]
                    /\ \A p \in Pages : copy[p] >= floor
  BY DEF SnapshotIsOneCommit
<1>1. DOMAIN copy = Pages /\ copy = digest /\ \E v \in Nat : Between(v)
  BY DEF FileInv, CopyFits, Captured
<1>2. PICK v \in Nat : Between(v)
  BY <1>1
<1>3. \A p \in Pages : copy[p] \in Nat /\ copy[p] <= v /\ v <= copy[p]
  BY <1>1, <1>2 DEF Between, FileInv, ReadTypeOK
<1>4. \A p \in Pages : copy[p] = v
  BY <1>3, SMTT(30)
<1>5. floor \in Nat /\ floor <= v
  BY <1>2 DEF Between, FileInv, ReadTypeOK
<1> QED BY <1>4, <1>5, SMTT(30)

-----------------------------------------------------------------------------
(* The pages of the reflog *)

\* Every nonempty set of numbers up to a bound has a largest and a smallest one.
LEMMA HasEnds ==
    ASSUME NEW n \in Nat, NEW S \in SUBSET (1..n), S # {}
    PROVE  /\ Max(S) \in S /\ \A i \in S : i <= Max(S)
           /\ \E m \in S : \A i \in S : m <= i
<1>1. ASSUME NEW T \in SUBSET Nat, T # {} PROVE \E m \in T : \A i \in T : m <= i
  <2>1. \E m \in T : \A i \in T : ~ (<<i, m>> \in OpToRel(<, Nat))
    BY <1>1, WFMin, NatLessThanWellFounded
  <2>2. PICK m \in T : \A i \in T : ~ (<<i, m>> \in OpToRel(<, Nat))
    BY <2>1
  <2>3. \A i \in T : ~ (i < m)
    BY <2>2 DEF OpToRel
  <2> QED BY <2>3, SMTT(30)
<1>2. S \subseteq Nat
  BY SMTT(30)
<1> DEFINE Above == {n - i : i \in S}
<1>3. Above \subseteq Nat /\ Above # {}
  <2>1. \A i \in S : n - i \in Nat
    BY SMTT(30)
  <2> QED BY <2>1
<1>4. PICK k \in Above : \A i \in Above : k <= i
  BY <1>1, <1>3
<1>5. PICK m \in S : k = n - m
  BY <1>4
<1>6. \A i \in S : i <= m
  BY <1>2, <1>4, <1>5, SMTT(30)
<1>7. \E x \in S : \A y \in S : x >= y
  BY <1>2, <1>5, <1>6, SMTT(30)
<1>8. Max(S) \in S /\ \A y \in S : Max(S) >= y
  BY <1>7 DEF Max
<1> QED BY <1>1, <1>2, <1>8, SMTT(30)

\* the ids up to n that the read asks for
Upto(n) == {i \in 1..n : events[i] \in page.filter}

\* what was returned is what lies up to the cursor, and in the end up to the
\* transaction's view; the log is never shorter than either
PageInv ==
    /\ events \in Seq(Names)
    /\ page \in [filter : SUBSET Names, after : Nat, view : Nat,
                 state : {"idle", "reading", "end"}]
    /\ page.after <= Len(events) /\ page.view <= Len(events)
    /\ page.state = "reading" => page.after <= page.view
    /\ page.state # "end" => collected = Upto(page.after)
    /\ page.state = "end" => collected = Upto(page.view)
    /\ repeated = {}

\* The rows of a page are an initial part of what is left, all of it if they
\* are no more than the limit.
LEMMA RowsFit ==
    ASSUME NEW n \in Nat, NEW M \in SUBSET (1..n), NEW R, R = Limited(M)
    PROVE  /\ IsFiniteSet(R) /\ Cardinality(R) \in Nat
           /\ \A i, j \in M : i <= j /\ j \in R => i \in R
           /\ Cardinality(R) <= PageLimit => R = M
<1> USE RefReadsAssumption
<1>1. \A S \in SUBSET (1..n) : IsFiniteSet(S) /\ Cardinality(S) \in Nat
  <2>1. IsFiniteSet(1..n)
    <3>1. 1 \in Int /\ n \in Int
      BY SMTT(30)
    <3> QED BY <3>1, FS_Interval
  <2>2. ASSUME NEW S \in SUBSET (1..n) PROVE IsFiniteSet(S) /\ Cardinality(S) \in Nat
    <3>1. IsFiniteSet(S)
      BY <2>1, <2>2, FS_Subset
    <3> QED BY <3>1, FS_CardinalityType
  <2> QED BY <2>2
<1>2. R \subseteq M /\ R \in SUBSET (1..n) /\ \A i \in M : i \in R <=> Rank(M, i) <= PageLimit + 1
  BY DEF Limited
<1>3. \A i \in M : {j \in M : j <= i} \in SUBSET (1..n)
  OBVIOUS
<1>4. ASSUME NEW i \in M, NEW j \in M, i <= j, j \in R PROVE i \in R
  <2>1. {k \in M : k <= i} \subseteq {k \in M : k <= j}
    <3>1. ASSUME NEW k \in M, k <= i PROVE k <= j
      BY <1>4, <3>1, SMTT(30)
    <3> QED BY <3>1
  <2>2. Rank(M, i) <= Rank(M, j)
    BY <1>1, <1>3, <2>1, FS_Subset DEF Rank
  <2>3. Rank(M, i) \in Nat /\ Rank(M, j) \in Nat
    BY <1>1, <1>3 DEF Rank
  <2>4. Rank(M, j) <= PageLimit + 1
    BY <1>2, <1>4
  <2>5. Rank(M, i) <= PageLimit + 1
    BY <2>2, <2>3, <2>4, SMTT(30)
  <2> QED BY <1>2, <2>5
<1>5. ASSUME Cardinality(R) <= PageLimit, R # M PROVE FALSE
  <2>1. PICK m \in M \ R : \A i \in M \ R : m <= i
    <3>1. M \ R \in SUBSET (1..n) /\ M \ R # {}
      BY <1>2, <1>5
    <3> QED BY <3>1, HasEnds
  <2>2. {j \in M : j <= m} \subseteq R \cup {m}
    <3>1. ASSUME NEW j \in M, j <= m, j \notin R PROVE j = m
      <4>1. m <= j
        BY <2>1, <3>1
      <4>2. j \in Int /\ m \in Int
        BY SMTT(30)
      <4> QED BY <3>1, <4>1, <4>2, SMTT(30)
    <3> QED BY <3>1
  <2>3. IsFiniteSet(R \cup {m}) /\ Cardinality(R \cup {m}) = Cardinality(R) + 1
    BY <1>1, <1>2, <2>1, FS_AddElement
  <2>4. Rank(M, m) <= Cardinality(R) + 1
    <3> DEFINE B == {j \in M : j <= m}
    <3>1. B \in SUBSET (R \cup {m})
      BY <2>2
    <3> HIDE DEF B
    <3>2. Cardinality(B) <= Cardinality(R \cup {m})
      BY <2>3, <3>1, FS_Subset
    <3> QED BY <2>3, <3>2 DEF Rank, B
  <2>5. Rank(M, m) \in Nat /\ Cardinality(R) \in Nat
    BY <1>1, <1>2, <1>3, <2>1 DEF Rank
  <2>6. Rank(M, m) <= PageLimit + 1
    BY <1>5, <2>4, <2>5, SMTT(30)
  <2> QED BY <1>2, <2>1, <2>6
<1> QED BY <1>1, <1>2, <1>4, <1>5

\* A page that does not reach beyond the limit returns everything that is left.
LEMMA LastPageFits ==
    ASSUME NEW n \in Nat, NEW M \in SUBSET (1..n), NEW R, R = Limited(M),
           ~ (Cardinality(R) > PageLimit)
    PROVE  R = M
<1>1. Cardinality(R) \in Nat /\ (Cardinality(R) <= PageLimit => R = M)
  BY RowsFit
<1> QED BY <1>1, RefReadsAssumption, SMTT(30)

\* A page that is not the last returns exactly the ids up to its cursor.
LEMMA PageFits ==
    ASSUME NEW n \in Nat, NEW M \in SUBSET (1..n), NEW R, R = Limited(M),
           Cardinality(R) > PageLimit
    PROVE  /\ Cursor(R) \in M
           /\ R \ {Max(R)} = {i \in M : i <= Cursor(R)}
<1> USE RefReadsAssumption
<1>1. IsFiniteSet(R) /\ Cardinality(R) \in Nat /\ \A i, j \in M : i <= j /\ j \in R => i \in R
  BY RowsFit
<1>2. R # {} /\ R \ {Max(R)} # {}
  <2>1. Cardinality(R) > 1
    BY <1>1, SMTT(30)
  <2>2. Cardinality(R) # 0
    BY <2>1, SMTT(30)
  <2>3. R # {}
    BY <2>2, FS_EmptySet
  <2>4. Max(R) \in R
    <3>1. R \in SUBSET (1..n)
      BY DEF Limited
    <3> QED BY <2>3, <3>1, HasEnds
  <2>5. Cardinality(R \ {Max(R)}) = Cardinality(R) - 1
    BY <1>1, <2>4, FS_RemoveElement
  <2>6. Cardinality(R \ {Max(R)}) # 0
    BY <1>1, <2>1, <2>5, SMTT(30)
  <2> QED BY <2>3, <2>6, FS_EmptySet
<1> DEFINE K == R \ {Max(R)}
<1>3. R \in SUBSET (1..n) /\ K \in SUBSET (1..n) /\ R \subseteq M
  BY DEF Limited
<1>4. Max(R) \in R /\ \A i \in R : i <= Max(R)
  BY <1>2, <1>3, HasEnds
<1>5. Cursor(R) \in K /\ \A i \in K : i <= Cursor(R)
  BY <1>2, <1>3, HasEnds DEF Cursor
<1>6. ASSUME NEW i \in M, i <= Cursor(R) PROVE i \in K
  <2>1. i \in R
    BY <1>1, <1>3, <1>5, <1>6
  <2>2. Cursor(R) # Max(R) /\ Cursor(R) <= Max(R)
    BY <1>4, <1>5
  <2>3. i \in Int /\ Cursor(R) \in Int /\ Max(R) \in Int
    BY <1>3, <1>4, <1>5, SMTT(30)
  <2>4. i # Max(R)
    BY <1>6, <2>2, <2>3, SMTT(30)
  <2> QED BY <2>1, <2>4
<1> QED BY <1>3, <1>5, <1>6

\* Every step of the reads and of the writers keeps the pages joined: a page
\* adds what lies behind the cursor, up to the next cursor or to the end.
LEMMA PageStep == PageInv /\ PageNext => PageInv'
<1> SUFFICES ASSUME PageInv, PageNext PROVE PageInv'
  OBVIOUS
<1> USE DEF PageInv
<1>0. Len(events) \in Nat
  BY SMTT(30)
<1>1. ASSUME NEW n \in Names, AppendEvent(n) PROVE PageInv'
  <2>1. events' = Append(events, n) /\ UNCHANGED <<page, collected, repeated>>
    BY <1>1 DEF AppendEvent
  <2>2. events' \in Seq(Names) /\ Len(events') = Len(events) + 1
        /\ \A i \in 1..Len(events) : events'[i] = events[i]
    BY <2>1, SMTT(30)
  <2>3. ASSUME NEW k \in Nat, k <= Len(events) PROVE Upto(k)' = Upto(k)
    <3>1. \A i \in 1..k : events'[i] = events[i]
      BY <1>0, <2>2, <2>3, SMTT(30)
    <3> QED BY <2>1, <3>1 DEF Upto
  <2>4. page.after \in Nat /\ page.view \in Nat
    OBVIOUS
  <2>5. page.after <= Len(events') /\ page.view <= Len(events')
    BY <1>0, <2>2, <2>4, SMTT(30)
  <2>6. Upto(page.after)' = Upto(page.after) /\ Upto(page.view)' = Upto(page.view)
    <3> DEFINE a == page.after
               b == page.view
    <3>1. a' = a /\ b' = b
      BY <2>1
    <3>2. \A i \in 1..a : events'[i] = events[i]
      BY <1>0, <2>2, <2>4, SMTT(30)
    <3>3. \A i \in 1..b : events'[i] = events[i]
      BY <1>0, <2>2, <2>4, SMTT(30)
    <3> QED BY <2>1, <3>1, <3>2, <3>3 DEF Upto
  <2> QED BY <2>1, <2>2, <2>5, <2>6
<1>2. CASE load_snapshot
  <2>1. /\ page.state = "idle" /\ page'.state = "reading" /\ page'.view = Len(events)
        /\ page'.after = page.after /\ page'.filter = page.filter
        /\ UNCHANGED <<events, collected, repeated>>
    BY <1>2, SMTT(30) DEF load_snapshot
  <2>2. page' \in [filter : SUBSET Names, after : Nat, view : Nat,
                   state : {"idle", "reading", "end"}]
    <3>1. page' = [page EXCEPT !.state = "reading", !.view = Len(events)] /\ Len(events) \in Nat
      BY <1>0, <1>2, SMTT(30) DEF load_snapshot
    <3> QED BY <3>1
  <2>3. Upto(page.after)' = Upto(page.after)
    BY <2>1 DEF Upto
  <2>4. Len(events) <= Len(events)
    BY <1>0, SMTT(30)
  <2> QED BY <2>1, <2>2, <2>3, <2>4
<1>3. CASE load_reflog_page
  <2> DEFINE n == page.view
             M == Matching(page.view)
             R == Rows(page.view)
  <2>1. n \in Nat /\ page.after \in Nat /\ page.state = "reading" /\ page.after <= n
    BY <1>3 DEF load_reflog_page
  <2>2. M \in SUBSET (1..n) /\ R = Limited(M)
    BY DEF Matching, Rows
  <2>3. \A i : i \in M <=> i \in 1..n /\ i > page.after /\ events[i] \in page.filter
    BY DEF Matching
  <2>4. UNCHANGED events /\ collected = Upto(page.after) /\ page'.filter = page.filter
        /\ page'.view = page.view
    BY <1>3, <2>1, SMTT(30) DEF load_reflog_page
  <2>5. ASSUME NEW c \in Nat, page.after <= c, c <= n
        PROVE  /\ Upto(c) = Upto(page.after) \cup {i \in M : i <= c}
               /\ Upto(page.after) \cap {i \in M : i <= c} = {}
    <3>1. \A i : i \in 1..c <=> i \in 1..page.after \/ (i \in 1..n /\ i > page.after /\ i <= c)
      BY <2>1, <2>5, SMTT(30)
    <3>2. \A i \in 1..page.after : ~ (i > page.after)
      BY <2>1, SMTT(30)
    <3> QED BY <2>3, <3>1, <3>2 DEF Upto
  <2>6. CASE Cardinality(R) > PageLimit
    <3> DEFINE c == Cursor(R)
    <3>1. c \in M /\ R \ {Max(R)} = {i \in M : i <= c}
      BY <2>1, <2>2, <2>6, PageFits
    <3>2. /\ collected' = collected \cup (R \ {Max(R)})
          /\ repeated' = repeated \cup (collected \cap (R \ {Max(R)}))
          /\ page' = [page EXCEPT !.after = c, !.state = "idle"]
      BY <1>3, <2>6 DEF load_reflog_page
    <3>3. c \in 1..n /\ c > page.after
      BY <2>3, <3>1
    <3> HIDE DEF c, M, R
    <3>4. c \in Nat /\ page.after <= c /\ c <= n /\ c <= Len(events)
      BY <1>0, <2>1, <3>3, SMTT(30)
    <3>5. Upto(c) = collected' /\ repeated' = {}
      BY <2>4, <2>5, <3>1, <3>2, <3>4
    <3>6. page'.after = c /\ page'.state = "idle"
      BY <3>2
    <3>7. page' \in [filter : SUBSET Names, after : Nat, view : Nat,
                     state : {"idle", "reading", "end"}]
      BY <3>2, <3>4
    <3>8. Upto(page.after)' = Upto(c)
      BY <2>4, <3>6 DEF Upto
    <3> QED BY <2>4, <3>4, <3>5, <3>6, <3>7, <3>8
  <2>7. CASE ~ (Cardinality(R) > PageLimit)
    <3>1. R = M
      BY <2>1, <2>2, <2>7, LastPageFits
    <3>2. /\ collected' = collected \cup R /\ repeated' = repeated \cup (collected \cap R)
          /\ page' = [page EXCEPT !.state = "end"]
      BY <1>3, <2>7 DEF load_reflog_page
    <3>3. {i \in M : i <= n} = M
      BY <2>1, <2>2, SMTT(30)
    <3> HIDE DEF M, R
    <3>4. n <= n
      BY <2>1, SMTT(30)
    <3>5. Upto(n) = collected' /\ repeated' = {}
      BY <2>1, <2>4, <2>5, <3>1, <3>2, <3>3, <3>4
    <3>6. page'.after = page.after /\ page'.state = "end"
      BY <3>2
    <3>7. page' \in [filter : SUBSET Names, after : Nat, view : Nat,
                     state : {"idle", "reading", "end"}]
      BY <3>2, SMTT(30)
    <3>8. Upto(page.view)' = Upto(n)
      BY <2>4 DEF Upto
    <3> QED BY <2>4, <3>5, <3>6, <3>7, <3>8
  <2> QED BY <2>6, <2>7
<1> QED BY <1>1, <1>2, <1>3 DEF PageNext

\* What the invariant says of the pages is what PagesJoin says.
LEMMA PageInvSuffices == PageInv => PagesJoin
<1> SUFFICES ASSUME PageInv PROVE PagesJoin
  OBVIOUS
<1>1. ASSUME NEW k \in Nat, k <= Len(events)
      PROVE  Upto(k) = {i \in 1..Len(events) : i <= k /\ events[i] \in page.filter}
  <2>1. \A i : i \in 1..k <=> i \in 1..Len(events) /\ i <= k
    <3>1. Len(events) \in Nat
      BY SMTT(30) DEF PageInv
    <3> QED BY <1>1, <3>1, SMTT(30)
  <2> QED BY <2>1 DEF Upto
<1> QED BY <1>1 DEF PageInv, PagesJoin

-----------------------------------------------------------------------------

\* Readers of a database that is written see one history: a private copy that is
\* opened is one committed state and none from before the open, and the pages of
\* the reflog join without gap or repetition, for any number of database pages,
\* Refs, commits and events and every page limit.
THEOREM ReadsStayConsistent == ReadSpec => []ReadsAreConsistent
<1>1. ReadInit => FileInv /\ PageInv
  <2> SUFFICES ASSUME ReadInit PROVE FileInv /\ PageInv
    OBVIOUS
  <2>1. FileInv
    <3>1. sidecars \in BOOLEAN /\ DOMAIN copy = {} /\ DOMAIN digest = {}
      BY DEF ReadInit, NoPages
    <3>2. ReadTypeOK
      BY <3>1, SMTT(30) DEF ReadInit, ReadTypeOK
    <3>3. MainFits
      BY SMTT(30) DEF ReadInit, MainFits
    <3> QED BY <3>2, <3>3 DEF ReadInit, FileInv, CopyFits, Captured
  <2>2. PageInv
    <3>1. page.after = 0 /\ page.view = 0 /\ page.state = "idle" /\ page.filter \in SUBSET Names
      BY SMTT(30) DEF ReadInit
    <3>2. page \in [filter : SUBSET Names, after : Nat, view : Nat,
                    state : {"idle", "reading", "end"}]
      BY SMTT(30) DEF ReadInit
    <3>3. events \in Seq(Names) /\ Len(events) = 0 /\ 0 <= 0 /\ 1..0 = {}
      BY SMTT(30) DEF ReadInit
    <3> QED BY <3>1, <3>2, <3>3 DEF ReadInit, PageInv, Upto
  <2> QED BY <2>1, <2>2
<1>2. FileInv /\ PageInv /\ [FileNext \/ PageNext]_readVars => (FileInv /\ PageInv)'
  <2> SUFFICES ASSUME FileInv, PageInv, [FileNext \/ PageNext]_readVars
               PROVE  FileInv' /\ PageInv'
    OBVIOUS
  <2>1. ASSUME UNCHANGED fileVars PROVE FileInv'
    BY <2>1 DEF fileVars, FileInv, ReadTypeOK, MainFits, CopyFits, Between
  <2>2. ASSUME UNCHANGED pageVars PROVE PageInv'
    BY <2>2 DEF pageVars, PageInv, Upto
  <2>3. CASE FileNext
    <3>1. UNCHANGED pageVars
      BY <2>3
      DEF FileNext, OpenWriter, CommitVersion, CloseWriter, CheckpointPage,
          copy_database_with_digest, digest_database, open_existing_read_only, CheckAfterCopy,
          CheckAfterDigest, CompareDigests, LastCheck, Retry, Check
    <3> QED BY <2>2, <2>3, <3>1, FileStep
  <2>4. CASE PageNext
    <3>1. UNCHANGED fileVars
      BY <2>4 DEF PageNext, load_snapshot, load_reflog_page, AppendEvent
    <3> QED BY <2>1, <2>4, <3>1, PageStep
  <2>5. CASE UNCHANGED readVars
    BY <2>1, <2>2, <2>5 DEF readVars, fileVars, pageVars
  <2> QED BY <2>3, <2>4, <2>5
<1>3. FileInv /\ PageInv => ReadsAreConsistent
  BY FileInvSuffices, PageInvSuffices DEF ReadsAreConsistent
<1> QED BY <1>1, <1>2, <1>3, PTL DEF ReadSpec
=============================================================================
