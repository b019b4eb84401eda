------------------------ MODULE SqliteJournal_proofs ------------------------
(***************************************************************************)
(* The journal for any number of writers, events and rows: the chain       *)
(* always verifies, no writer acts on a stale tip, what append returned    *)
(* stays stored, and the store implements the atomic log of Journal.       *)
(***************************************************************************)
EXTENDS SqliteJournal, SequenceTheorems, TLAPS

InTransaction == {"tip", "insert", "commit"}

\* An event committed but not yet returned is stored as it will be returned.
CommittedIsStored ==
  \A w \in Writer : pc[w] = "committed" =>
    tip[w].seq \in DOMAIN table /\ table[tip[w].seq] = Row(w)

Inv ==
  /\ TypeOK
  /\ ChainVerifies
  /\ LockIsInUse
  /\ TipIsFresh
  /\ CommittedIsStored
  /\ ReturnedIsStored

\* The numbers of a table that is a sequence, and the last of them, in
\* particular the CHOOSE of _tip.
LEMMA TipOfSequence ==
  ASSUME table \in Seq(Rows)
  PROVE  /\ DOMAIN table = 1 .. Len(table)
         /\ Len(table) \in Nat
         /\ table = << >> => Tip = [seq |-> 1, prev |-> Genesis]
         /\ Len(table) > 0 =>
              Tip = [seq |-> Len(table) + 1, prev |-> table[Len(table)].hash]
         /\ Tip.seq = Len(table) + 1
         /\ Tip \in [seq : Nat \ {0}, prev : Digests]
<1> DEFINE n == Len(table)
<1>1. n \in Nat /\ DOMAIN table = 1 .. n
  OBVIOUS
<1>2. CASE n = 0
  <2>1. DOMAIN table = {} /\ table = << >>
    BY <1>1, <1>2
  <2>2. Genesis \in Digests
    BY DEF Genesis, Digests
  <2> QED
    BY <1>1, <1>2, <2>1, <2>2 DEF Tip
<1>3. CASE n > 0
  <2> DEFINE last == CHOOSE k \in DOMAIN table : \A j \in DOMAIN table : j <= k
  <2>1. n \in DOMAIN table /\ \A j \in DOMAIN table : j <= n
    BY <1>1, <1>3
  <2>2. last \in DOMAIN table /\ \A j \in DOMAIN table : j <= last
    BY <2>1
  <2>3. last = n
    BY <1>1, <2>1, <2>2
  <2>4. Tip = [seq |-> n + 1, prev |-> table[n].hash]
    BY <2>1, <2>3 DEF Tip
  <2>5. table[n] \in Rows
    BY <2>1
  <2>6. table[n].hash \in Digests
    BY <2>5 DEF Rows
  <2> QED
    BY <1>1, <1>3, <2>4, <2>6
<1> QED
  BY <1>1, <1>2, <1>3

\* A transaction that commits holds the lock and a fresh tip, so what it
\* writes is one more row at the end.
LEMMA CommitAppends ==
  ASSUME Inv, NEW w \in Writer, Commit(w)
  PROVE  /\ tip[w].seq = Len(table) + 1
         /\ Row(w) \in Rows
         /\ table' = Append(table, Row(w))
<1>1. tip[w] = Tip /\ table \in Seq(Rows)
  BY DEF Inv, TipIsFresh, TypeOK, Commit
<1>2. /\ DOMAIN table = 1 .. Len(table) /\ Len(table) \in Nat
      /\ Tip.seq = Len(table) + 1
      /\ Tip \in [seq : Nat \ {0}, prev : Digests]
  BY <1>1, TipOfSequence
<1>3. Row(w) \in Rows
  <2>1. event[w] \in Event
    BY DEF Inv, TypeOK
  <2>2. <<tip[w].seq, event[w]>> \in (Nat \ {0}) \X Event
    BY <1>1, <1>2, <2>1
  <2>3. Append(tip[w].prev, <<tip[w].seq, event[w]>>) \in Digests
    BY <1>1, <1>2, <2>2 DEF Digests
  <2> QED
    BY <1>1, <1>2, <2>1, <2>3 DEF Row, Finalize, Digest, Rows
<1>4. DOMAIN table \cup {tip[w].seq} = 1 .. Len(table) + 1
  BY <1>1, <1>2
<1>5. table' = [k \in 1 .. Len(table) + 1 |->
                  IF k = tip[w].seq THEN Row(w) ELSE table[k]]
  BY <1>4 DEF Commit
<1>6. table' = Append(table, Row(w))
  <2> DEFINE longer == Append(table, Row(w))
  <2>1. /\ longer \in Seq(Rows) /\ Len(longer) = Len(table) + 1
        /\ \A k \in 1 .. Len(table) : longer[k] = table[k]
        /\ longer[Len(table) + 1] = Row(w)
    BY <1>1, <1>2, <1>3, AppendProperties
  <2>2. longer = [k \in 1 .. Len(table) + 1 |-> longer[k]]
    BY <2>1, LenProperties, Zenon
  <2> HIDE DEF longer
  <2>3. \A k \in 1 .. Len(table) + 1 :
          longer[k] = IF k = tip[w].seq THEN Row(w) ELSE table[k]
    BY <1>1, <1>2, <2>1
  <2>4. table' = longer
    BY <1>5, <2>2, <2>3
  <2> QED
    BY <2>4 DEF longer
<1> QED
  BY <1>1, <1>2, <1>3, <1>6

\* The tip depends on the table alone.
LEMMA TipUnchanged ==
  ASSUME UNCHANGED table
  PROVE  Tip' = Tip
BY DEF Tip

LEMMA InitInv == Init => Inv
<1> SUFFICES ASSUME Init PROVE Inv
  OBVIOUS
<1>1. TypeOK
  <2>1. NoTip \in [seq : Nat \ {0}, prev : Digests]
    BY DEF NoTip, Genesis, Digests
  <2> QED
    BY <2>1 DEF Init, TypeOK, PC
<1>2. DOMAIN table = {}
  BY DEF Init
<1>3. ChainVerifies
  BY <1>2 DEF ChainVerifies, VerifyChain
<1>4. LockIsInUse
  BY SqliteAssumption DEF Init, LockIsInUse
<1> QED
  BY <1>1, <1>3, <1>4 DEF Init, Inv, TipIsFresh, CommittedIsStored, ReturnedIsStored

\* A step that leaves the table and what was returned alone, and moves one
\* writer to a place where it has committed nothing, keeps what is stored.
LEMMA QuietStep ==
  ASSUME Inv, NEW w \in Writer,
         UNCHANGED <<table, returned>>,
         NEW place \in PC \ {"committed"},
         pc' = [pc EXCEPT ![w] = place],
         \A v \in Writer \ {w} : event'[v] = event[v] /\ tip'[v] = tip[v]
  PROVE  ChainVerifies' /\ CommittedIsStored' /\ ReturnedIsStored'
<1>1. ChainVerifies'
  BY DEF Inv, ChainVerifies, VerifyChain
<1>2. ReturnedIsStored'
  BY DEF Inv, ReturnedIsStored
<1>3. CommittedIsStored'
  <2> SUFFICES ASSUME NEW v \in Writer, pc'[v] = "committed"
               PROVE  /\ tip'[v].seq \in DOMAIN table'
                      /\ table'[tip'[v].seq] = Finalize(event'[v], tip'[v])
    BY DEF CommittedIsStored, Row
  <2>1. v # w /\ pc[v] = "committed"
    BY DEF Inv, TypeOK
  <2> QED
    BY <2>1 DEF Inv, CommittedIsStored, Row
<1> QED
  BY <1>1, <1>2, <1>3

LEMMA NextInv == Inv /\ [Next]_vars => Inv'
<1> SUFFICES ASSUME Inv, [Next]_vars PROVE Inv'
  OBVIOUS
<1> USE DEF PC
<1>0. TypeOK /\ ChainVerifies /\ LockIsInUse /\ TipIsFresh
      /\ CommittedIsStored /\ ReturnedIsStored
  BY DEF Inv
<1>t. /\ table \in Seq(Rows) /\ lock \in Writer \cup {NoWriter}
      /\ pc \in [Writer -> PC] /\ event \in [Writer -> Event]
      /\ tip \in [Writer -> [seq : Nat \ {0}, prev : Digests]]
      /\ returned \in SUBSET [seq : Nat \ {0}, row : Rows]
  BY <1>0 DEF TypeOK
<1>1. ASSUME NEW w \in Writer, NEW e \in Event, CallAppend(w, e) PROVE Inv'
  <2>1. TypeOK'
    BY <1>t, <1>1 DEF CallAppend, TypeOK
  <2>2. LockIsInUse'
    BY <1>0, <1>t, <1>1 DEF CallAppend, LockIsInUse
  <2>3. TipIsFresh'
    BY <1>0, <1>t, <1>1, TipUnchanged DEF CallAppend, TipIsFresh
  <2>4. ChainVerifies' /\ CommittedIsStored' /\ ReturnedIsStored'
    BY <1>t, <1>1, QuietStep DEF CallAppend
  <2> QED
    BY <2>1, <2>2, <2>3, <2>4 DEF Inv
<1>2. ASSUME NEW w \in Writer, BeginImmediate(w) PROVE Inv'
  <2>1. TypeOK'
    BY <1>t, <1>2 DEF BeginImmediate, TypeOK
  <2>2. LockIsInUse'
    BY <1>0, <1>t, <1>2, SqliteAssumption DEF BeginImmediate, LockIsInUse
  <2>3. TipIsFresh'
    BY <1>0, <1>t, <1>2, TipUnchanged DEF BeginImmediate, TipIsFresh
  <2>4. ChainVerifies' /\ CommittedIsStored' /\ ReturnedIsStored'
    BY <1>t, <1>2, QuietStep DEF BeginImmediate
  <2> QED
    BY <2>1, <2>2, <2>3, <2>4 DEF Inv
<1>3. ASSUME NEW w \in Writer, BusyTimeout(w) PROVE Inv'
  <2>1. TypeOK'
    BY <1>t, <1>3 DEF BusyTimeout, TypeOK
  <2>2. LockIsInUse'
    BY <1>0, <1>t, <1>3 DEF BusyTimeout, LockIsInUse
  <2>3. TipIsFresh'
    BY <1>0, <1>t, <1>3, TipUnchanged DEF BusyTimeout, TipIsFresh
  <2>4. ChainVerifies' /\ CommittedIsStored' /\ ReturnedIsStored'
    BY <1>t, <1>3, QuietStep DEF BusyTimeout
  <2> QED
    BY <2>1, <2>2, <2>3, <2>4 DEF Inv
<1>4. ASSUME NEW w \in Writer, ReadTip(w) PROVE Inv'
  <2>0. Tip \in [seq : Nat \ {0}, prev : Digests]
    BY <1>t, TipOfSequence
  <2>1. TypeOK'
    BY <1>t, <1>4, <2>0 DEF ReadTip, TypeOK
  <2>2. LockIsInUse'
    BY <1>0, <1>t, <1>4 DEF ReadTip, LockIsInUse
  <2>3. TipIsFresh'
    <3> SUFFICES ASSUME NEW v \in Writer, pc'[v] \in {"insert", "commit"}
                 PROVE  tip'[v] = Tip'
      BY DEF TipIsFresh
    <3>1. Tip' = Tip
      BY <1>4, TipUnchanged DEF ReadTip
    <3> QED
      BY <1>0, <1>t, <1>4, <3>1 DEF ReadTip, TipIsFresh
  <2>4. ChainVerifies' /\ CommittedIsStored' /\ ReturnedIsStored'
    BY <1>t, <1>4, QuietStep DEF ReadTip
  <2> QED
    BY <2>1, <2>2, <2>3, <2>4 DEF Inv
<1>5. ASSUME NEW w \in Writer, Insert(w) PROVE Inv'
  <2>1. TypeOK'
    BY <1>t, <1>5 DEF Insert, TypeOK
  <2>2. LockIsInUse'
    BY <1>0, <1>t, <1>5 DEF Insert, LockIsInUse
  <2>3. TipIsFresh'
    <3>1. Tip' = Tip
      BY <1>5, TipUnchanged DEF Insert
    <3> QED
      BY <1>0, <1>t, <1>5, <3>1 DEF Insert, TipIsFresh
  <2>4. ChainVerifies' /\ CommittedIsStored' /\ ReturnedIsStored'
    BY <1>t, <1>5, QuietStep DEF Insert
  <2> QED
    BY <2>1, <2>2, <2>3, <2>4 DEF Inv
<1>6. ASSUME NEW w \in Writer, Commit(w) PROVE Inv'
  <2> DEFINE n == Len(table)
  <2>1. /\ tip[w].seq = n + 1 /\ Row(w) \in Rows
        /\ table' = Append(table, Row(w))
    BY <1>6, CommitAppends
  <2>2. /\ DOMAIN table = 1 .. n /\ n \in Nat
        /\ n = 0 => Tip = [seq |-> 1, prev |-> Genesis]
        /\ n > 0 => Tip = [seq |-> n + 1, prev |-> table[n].hash]
    <3>1. table = << >> <=> n = 0
      BY <1>t
    <3> QED
      BY <1>t, <3>1, TipOfSequence
  <2>3. /\ DOMAIN table' = 1 .. n + 1
        /\ table'[n + 1] = Row(w)
        /\ \A k \in 1 .. n : table'[k] = table[k]
    BY <1>t, <2>1, <2>2
  <2>4. TypeOK'
    <3>1. table' \in Seq(Rows)
      BY <1>t, <2>1
    <3>2. lock' \in Writer \cup {NoWriter}
      BY <1>t, <1>6 DEF Commit, Release
    <3> QED
      BY <1>t, <1>6, <3>1, <3>2 DEF Commit, TypeOK
  <2>5. ChainVerifies'
    <3>1. tip[w] = Tip
      BY <1>0, <1>6 DEF Commit, TipIsFresh
    <3>2. /\ Row(w).prev = IF n + 1 = 1 THEN Genesis ELSE table[n].hash
          /\ Row(w).hash = Digest(n + 1, Row(w).what, Row(w).prev)
      BY <2>1, <2>2, <3>1 DEF Row, Finalize
    <3> SUFFICES ASSUME NEW k \in 1 .. n + 1
                 PROVE  /\ k = 1 \/ k - 1 \in 1 .. n + 1
                        /\ table'[k].prev = IF k = 1 THEN Genesis ELSE table'[k - 1].hash
                        /\ table'[k].hash = Digest(k, table'[k].what, table'[k].prev)
      BY <2>3 DEF ChainVerifies, VerifyChain, Digest
    <3>3. k = 1 \/ k - 1 \in 1 .. n
      BY <2>2
    <3>4. CASE k = n + 1
      BY <2>2, <2>3, <3>2, <3>3, <3>4
    <3>5. CASE k # n + 1
      <4>1. k \in 1 .. n
        BY <2>2, <3>5
      <4>2. /\ table[k].prev = IF k = 1 THEN Genesis ELSE table[k - 1].hash
            /\ table[k].hash = Digest(k, table[k].what, table[k].prev)
        BY <1>0, <2>2, <4>1 DEF ChainVerifies, VerifyChain
      <4> QED
        BY <2>2, <2>3, <3>3, <4>1, <4>2
    <3> QED
      BY <3>4, <3>5
  <2>6. lock = w /\ \A v \in Writer \ {w} : pc[v] \notin InTransaction
    BY <1>0, <1>6 DEF Commit, LockIsInUse, InTransaction
  <2>7. LockIsInUse'
    BY <1>0, <1>t, <1>6, <2>6, SqliteAssumption
    DEF Commit, Release, LockIsInUse, InTransaction
  <2>8. TipIsFresh'
    BY <1>t, <1>6, <2>6 DEF Commit, TipIsFresh, InTransaction
  <2>9. CommittedIsStored'
    <3> SUFFICES ASSUME NEW v \in Writer, pc'[v] = "committed"
                 PROVE  /\ tip[v].seq \in 1 .. n + 1
                        /\ table'[tip[v].seq] = Row(v)
      BY <1>6, <2>3 DEF Commit, CommittedIsStored, Row
    <3>1. CASE v = w
      BY <2>1, <2>2, <2>3, <3>1
    <3>2. CASE v # w
      <4>1. tip[v].seq \in 1 .. n /\ table[tip[v].seq] = Row(v)
        BY <1>0, <1>t, <1>6, <2>2, <3>2 DEF Commit, CommittedIsStored
      <4> QED
        BY <2>2, <2>3, <4>1
    <3> QED
      BY <3>1, <3>2
  <2>10. ReturnedIsStored'
    BY <1>0, <1>6, <2>2, <2>3 DEF Commit, ReturnedIsStored
  <2> QED
    BY <2>4, <2>5, <2>7, <2>8, <2>9, <2>10 DEF Inv
<1>7. ASSUME NEW w \in Writer, Rollback(w) PROVE Inv'
  <2>1. TypeOK'
    BY <1>t, <1>7 DEF Rollback, Release, TypeOK
  <2>2. LockIsInUse'
    BY <1>0, <1>t, <1>7, SqliteAssumption DEF Rollback, Release, LockIsInUse
  <2>3. TipIsFresh'
    BY <1>0, <1>t, <1>7, TipUnchanged DEF Rollback, TipIsFresh
  <2>4. ChainVerifies' /\ CommittedIsStored' /\ ReturnedIsStored'
    BY <1>t, <1>7, QuietStep DEF Rollback
  <2> QED
    BY <2>1, <2>2, <2>3, <2>4 DEF Inv
<1>8. ASSUME NEW w \in Writer, ReturnRow(w) PROVE Inv'
  <2>1. tip[w].seq \in DOMAIN table /\ table[tip[w].seq] = Row(w)
    BY <1>0, <1>8 DEF ReturnRow, CommittedIsStored
  <2>2. tip[w].seq \in Nat \ {0} /\ Row(w) \in Rows
    BY <1>t, <2>1
  <2>3. TypeOK'
    BY <1>t, <1>8, <2>2 DEF ReturnRow, TypeOK
  <2>4. LockIsInUse'
    BY <1>0, <1>t, <1>8 DEF ReturnRow, LockIsInUse
  <2>5. TipIsFresh'
    BY <1>0, <1>t, <1>8, TipUnchanged DEF ReturnRow, TipIsFresh
  <2>6. ChainVerifies'
    BY <1>0, <1>8 DEF ReturnRow, ChainVerifies, VerifyChain
  <2>7. CommittedIsStored'
    BY <1>0, <1>t, <1>8 DEF ReturnRow, CommittedIsStored, Row
  <2>8. ReturnedIsStored'
    BY <1>0, <1>8, <2>1 DEF ReturnRow, ReturnedIsStored
  <2> QED
    BY <2>3, <2>4, <2>5, <2>6, <2>7, <2>8 DEF Inv
<1>9. ASSUME NEW w \in Writer, Die(w) PROVE Inv'
  <2>1. TypeOK'
    BY <1>t, <1>9 DEF Die, Release, TypeOK
  <2>2. LockIsInUse'
    BY <1>0, <1>t, <1>9, SqliteAssumption DEF Die, Release, LockIsInUse
  <2>3. TipIsFresh'
    BY <1>0, <1>t, <1>9, TipUnchanged DEF Die, TipIsFresh
  <2>4. ChainVerifies' /\ CommittedIsStored' /\ ReturnedIsStored'
    BY <1>t, <1>9, QuietStep DEF Die
  <2> QED
    BY <2>1, <2>2, <2>3, <2>4 DEF Inv
<1>10. CASE UNCHANGED vars
  BY <1>0, <1>10, TipUnchanged
  DEF vars, Inv, TypeOK, ChainVerifies, VerifyChain, LockIsInUse, TipIsFresh,
      CommittedIsStored, Row, ReturnedIsStored
<1> QED
  BY <1>1, <1>2, <1>3, <1>4, <1>5, <1>6, <1>7, <1>8, <1>9, <1>10 DEF Next

\* The inductive invariant holds of every behaviour.
THEOREM Invariance == Spec => []Inv
BY InitInv, NextInv, PTL DEF Spec

\* Every variable keeps its type, and the table stays numbered from 1.
THEOREM TypeCorrect == Spec => []TypeOK
BY Invariance, PTL DEF Inv

\* Readers always find a chain that verifies.
THEOREM ChainAlwaysVerifies == Spec => []ChainVerifies
BY Invariance, PTL DEF Inv

\* The write lock is held exactly by the writer inside a transaction.
THEOREM LockAlwaysInUse == Spec => []LockIsInUse
BY Invariance, PTL DEF Inv

\* A writer inserts and commits on the tip as it is, not as it was.
THEOREM TipAlwaysFresh == Spec => []TipIsFresh
BY Invariance, PTL DEF Inv

\* No row that append returned is ever lost or rewritten.
THEOREM ReturnedAlwaysStored == Spec => []ReturnedIsStored
BY Invariance, PTL DEF Inv

\* BEGIN IMMEDIATE leaves one way to violate a UNIQUE constraint: an event_id
\* the caller chose, and chose before.
OnlyNamedEventsCollide ==
  \A w \in Writer : pc[w] = "insert" /\ Collides(w) => IdIsTaken(event[w])

THEOREM SequenceNeverCollides == Spec => []OnlyNamedEventsCollide
<1>1. Inv => OnlyNamedEventsCollide
  <2> SUFFICES ASSUME Inv, NEW w \in Writer, pc[w] = "insert"
               PROVE  tip[w].seq \notin DOMAIN table
    BY DEF OnlyNamedEventsCollide, Collides
  <2>1. tip[w] = Tip /\ table \in Seq(Rows)
    BY DEF Inv, TipIsFresh, TypeOK
  <2> QED
    BY <2>1, TipOfSequence
<1> QED
  BY <1>1, Invariance, PTL

-----------------------------------------------------------------------------
(* Refinement: a commit appends to the abstract log, and is where the call *)
(* takes effect; a return, a raise and a death leave the log alone; every  *)
(* other step is a stutter.                                                *)

calls == [w \in Writer |-> CallOf(w)]

LEMMA InitRefines == Init => Abstract!Init
<1> SUFFICES ASSUME Init PROVE EventsInOrder = << >> /\ calls = [w \in Writer |-> Abstract!NoCall]
  BY DEF Abstract!Init, calls
<1>1. EventsInOrder = << >>
  BY DEF Init, EventsInOrder
<1>2. calls = [w \in Writer |-> Abstract!NoCall]
  BY DEF Init, calls, CallOf, Abstract!NoCall
<1> QED
  BY <1>1, <1>2

\* One writer's place changes, and with it its call alone.
LEMMA OneCallChanges ==
  ASSUME Inv, NEW w \in Writer, NEW place \in PC,
         pc' = [pc EXCEPT ![w] = place],
         \A v \in Writer \ {w} : event'[v] = event[v]
  PROVE  /\ calls' = [calls EXCEPT ![w] = CallOf(w)']
         /\ calls[w] = CallOf(w)
         /\ pc'[w] = place
<1>1. pc \in [Writer -> PC]
  BY DEF Inv, TypeOK
<1>2. pc'[w] = place /\ \A v \in Writer \ {w} : pc'[v] = pc[v]
  BY <1>1
<1>3. \A v \in Writer \ {w} : CallOf(v)' = CallOf(v)
  BY <1>2 DEF CallOf
<1> QED
  BY <1>2, <1>3 DEF calls

LEMMA StepRefines == Inv /\ [Next]_vars => [Abstract!Next]_<<EventsInOrder, calls>>
<1> SUFFICES ASSUME Inv, [Next]_vars
             PROVE  Abstract!Next \/ UNCHANGED <<EventsInOrder, calls>>
  OBVIOUS
<1>t. pc \in [Writer -> PC] /\ event \in [Writer -> Event] /\ table \in Seq(Rows)
  BY DEF Inv, TypeOK
<1> USE DEF PC
<1>1. ASSUME NEW w \in Writer, NEW e \in Event, CallAppend(w, e)
      PROVE  Abstract!CallAppend(w, e)
  <2>1. calls' = [calls EXCEPT ![w] = CallOf(w)'] /\ calls[w] = CallOf(w) /\ pc'[w] = "begin"
    BY <1>1, <1>t, OneCallChanges DEF CallAppend
  <2>2. event'[w] = e /\ pc[w] = "idle" /\ UNCHANGED table
    BY <1>1, <1>t DEF CallAppend
  <2>3. CallOf(w) = Abstract!NoCall /\ CallOf(w)' = Abstract!Called(e)
    BY <2>1, <2>2 DEF CallOf, Abstract!NoCall, Abstract!Called
  <2> QED
    BY <2>1, <2>2, <2>3 DEF Abstract!CallAppend, calls, EventsInOrder
<1>2. ASSUME NEW w \in Writer, BeginImmediate(w) \/ ReadTip(w) \/ Insert(w)
      PROVE  UNCHANGED <<EventsInOrder, calls>>
  <2>1. UNCHANGED <<table, event>> /\ pc[w] \in {"begin", "tip", "insert"}
        /\ \E place \in {"tip", "insert", "commit"} : pc' = [pc EXCEPT ![w] = place]
    BY <1>2 DEF BeginImmediate, ReadTip, Insert
  <2>2. \A v \in Writer : CallOf(v)' = CallOf(v)
    BY <1>t, <2>1 DEF CallOf
  <2> QED
    BY <2>1, <2>2 DEF EventsInOrder, calls
<1>3. ASSUME NEW w \in Writer, BusyTimeout(w) \/ Rollback(w)
      PROVE  Abstract!Raise(w, event[w])
  <2>1. UNCHANGED <<table, event>> /\ pc[w] \in {"begin", "tip", "insert", "commit"}
        /\ pc' = [pc EXCEPT ![w] = "idle"]
    BY <1>3 DEF BusyTimeout, Rollback
  <2>2. calls' = [calls EXCEPT ![w] = CallOf(w)'] /\ calls[w] = CallOf(w) /\ pc'[w] = "idle"
    BY <2>1, <1>t, OneCallChanges
  <2>3. CallOf(w) = Abstract!Called(event[w]) /\ CallOf(w)' = Abstract!NoCall
    BY <2>1, <2>2 DEF CallOf, Abstract!NoCall, Abstract!Called
  <2> QED
    BY <2>1, <2>2, <2>3 DEF Abstract!Raise, calls, EventsInOrder
<1>4. ASSUME NEW w \in Writer, Commit(w)
      PROVE  Abstract!Apply(w, event[w])
  <2>1. calls' = [calls EXCEPT ![w] = CallOf(w)'] /\ calls[w] = CallOf(w) /\ pc'[w] = "committed"
    BY <1>4, <1>t, OneCallChanges DEF Commit
  <2>2. UNCHANGED event /\ pc[w] = "commit"
    BY <1>4 DEF Commit
  <2>3. CallOf(w) = Abstract!Called(event[w]) /\ CallOf(w)' = Abstract!Applied(event[w])
    BY <2>1, <2>2 DEF CallOf, Abstract!Called, Abstract!Applied
  <2>4. EventsInOrder' = Append(EventsInOrder, event[w])
    <3>1. table' = Append(table, Row(w)) /\ Row(w) \in Rows /\ Row(w).what = event[w]
      BY <1>4, CommitAppends DEF Row, Finalize
    <3> QED
      BY <1>t, <3>1 DEF EventsInOrder
  <2> QED
    BY <2>1, <2>3, <2>4 DEF Abstract!Apply, calls
<1>5. ASSUME NEW w \in Writer, ReturnRow(w)
      PROVE  Abstract!Return(w, event[w])
  <2>1. UNCHANGED <<table, event>> /\ pc[w] = "committed" /\ pc' = [pc EXCEPT ![w] = "idle"]
    BY <1>5 DEF ReturnRow
  <2>2. calls' = [calls EXCEPT ![w] = CallOf(w)'] /\ calls[w] = CallOf(w) /\ pc'[w] = "idle"
    BY <2>1, <1>t, OneCallChanges
  <2>3. CallOf(w) = Abstract!Applied(event[w]) /\ CallOf(w)' = Abstract!NoCall
    BY <2>1, <2>2 DEF CallOf, Abstract!NoCall, Abstract!Applied
  <2> QED
    BY <2>1, <2>2, <2>3 DEF Abstract!Return, calls, EventsInOrder
<1>6. ASSUME NEW w \in Writer, Die(w)
      PROVE  Abstract!Die(w)
  <2>1. UNCHANGED <<table, event>> /\ pc' = [pc EXCEPT ![w] = "idle"]
    BY <1>6 DEF Die
  <2>2. calls' = [calls EXCEPT ![w] = CallOf(w)'] /\ pc'[w] = "idle"
    BY <2>1, <1>t, OneCallChanges
  <2>3. CallOf(w)' = Abstract!NoCall
    BY <2>2 DEF CallOf, Abstract!NoCall
  <2> QED
    BY <2>1, <2>2, <2>3 DEF Abstract!Die, calls, EventsInOrder
<1>7. CASE UNCHANGED vars
  BY <1>7 DEF vars, EventsInOrder, calls, CallOf
<1> QED
  BY <1>1, <1>2, <1>3, <1>4, <1>5, <1>6, <1>7, <1>t DEF Next, Abstract!Next

\* SqliteJournalStore implements the atomic log: to its writers, appends of
\* processes that race, time out, fail and die are appends one at a time.
THEOREM Refinement == Spec => ImplementsJournal
<1>1. Abstract!Spec <=> Abstract!Init /\ [][Abstract!Next]_<<EventsInOrder, calls>>
  BY DEF Abstract!Spec, calls
<1> QED
  BY <1>1, InitRefines, StepRefines, Invariance, PTL DEF Spec, ImplementsJournal
=============================================================================
