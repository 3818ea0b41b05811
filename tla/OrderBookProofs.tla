-------------------------- MODULE OrderBookProofs --------------------------
(***************************************************************************)
(* What holds of the order book for any number of goroutines, prices and   *)
(* messages.  The inductive invariant has several parts.  Exclusive says   *)
(* what muLockToUpdateHandler gives: a goroutine that changes the book     *)
(* holds the lock, and no other does.  Typed bounds what the messages and  *)
(* the levels may be, so that their SeqIDs can be compared.  That the book *)
(* follows the exchange's rests on five more, from Queue to Following. The *)
(* queries are right on any side (BookQueriesProofs), so all they need of  *)
(* the book is that its sides are well typed.                              *)
(***************************************************************************)
EXTENDS MCOrderBook, BookQueriesProofs, TLAPS

Inside(h) == work[h].at \in {"apply", "publish"}

Exclusive ==
    /\ DOMAIN work = Handlers
    /\ \A h \in Handlers : Inside(h) => lock
    /\ \A h, k \in Handlers : Inside(h) /\ Inside(k) => h = k

Volumes == UNION {[P -> Nat] : P \in SUBSET Prices}
Data == [type : {"snapshot", "delta"}, seq : Nat, levels : [Sides -> Volumes]]

Typed ==
    /\ rows \in [Sides -> [Prices -> Level]]
    /\ exchange \in [Sides -> [Prices -> Nat]]
    /\ seq \in Nat
    /\ taken \in Nat
    /\ sent \in Seq(Data)
    /\ \A h \in Handlers : work[h].at \in {"lock", "apply", "publish"} => work[h].data \in Data

(* Message m says what the volume at a price is: a delta of the prices it   *)
(* lists, a snapshot of every price.  The messages after the i-th are quiet *)
(* about a price when none of them does.                                    *)
Touches(m, s, p) == m.type = "snapshot" \/ p \in DOMAIN m.levels[s]
Volume(m, s, p) == IF p \in DOMAIN m.levels[s] THEN m.levels[s][p] ELSE 0
Quiet(i, s, p) == \A k \in i + 1 .. Len(sent) : ~Touches(sent[k], s, p)

(* Every goroutine works on the message it has taken, and the last message  *)
(* taken is applied or still in the hands of a goroutine that will.         *)
Queue ==
    /\ taken \in 0 .. Len(sent) /\ applied \in 0 .. taken
    /\ \A h \in Handlers : work[h] # Idle =>
          /\ work[h].at \in {"lock", "apply", "publish"}
          /\ work[h].n \in 1 .. taken /\ work[h].data = sent[work[h].n]
    /\ taken > applied =>
          \E h \in Handlers : work[h].at \in {"lock", "apply"} /\ work[h].n = taken

(* The exchange numbers its messages upward, a delta above all before it,   *)
(* and no level of the book is newer than the last message applied.         *)
Ascending ==
    /\ \A i \in 1 .. Len(sent) : sent[i].seq <= seq
    /\ \A i, j \in 1 .. Len(sent) : i < j =>
          /\ sent[i].seq <= sent[j].seq
          /\ sent[j].type = "delta" => sent[i].seq < sent[j].seq

NoneNewer ==
    \A s \in Sides, p \in Prices :
        rows[s][p].vol > 0 => applied > 0 /\ rows[s][p].seq <= sent[applied].seq

(* Neither side of the exchange's book is empty, in its snapshots either.   *)
Full ==
    \A s \in Sides :
        /\ \E p \in Prices : exchange[s][p] > 0
        /\ \A i \in 1 .. Len(sent) : sent[i].type = "snapshot" => DOMAIN sent[i].levels[s] # {}

(* The last message that says something of a price tells the exchange's     *)
(* volume.                                                                  *)
LastTells ==
    \A s \in Sides, p \in Prices, i \in 1 .. Len(sent) :
        Touches(sent[i], s, p) /\ Quiet(i, s, p) => exchange[s][p] = Volume(sent[i], s, p)

(* In sync, the book has the exchange's volume at every price of which no   *)
(* message is still to be applied.                                          *)
Following ==
    inSync => \A s \in Sides, p \in Prices :
                  Quiet(applied, s, p) => rows[s][p].vol = exchange[s][p]

-----------------------------------------------------------------------------
(* Mutual exclusion of the update handlers. *)

(* No goroutine is inside when the book is created. *)
LEMMA ExclusiveInit == Init => Exclusive
BY DEF Init, Exclusive, Inside, Idle

(* Every step keeps the handlers apart: Lock needs the lock free, Publish  *)
(* is of the only goroutine inside.                                        *)
LEMMA ExclusiveStep == Exclusive /\ [Next]_vars => Exclusive'
<1> SUFFICES ASSUME Exclusive, [Next]_vars PROVE Exclusive'
    BY Zenon
<1>1. CASE UNCHANGED <<work, lock>>
    BY <1>1, Zenon DEF Exclusive, Inside
<1>2. ASSUME NEW h \in Handlers, Take(h) PROVE Exclusive'
    BY <1>2, Zenon DEF Take, Exclusive, Inside, Idle
<1>3. ASSUME NEW h \in Handlers, Lock(h) PROVE Exclusive'
    BY <1>3 DEF Lock, Exclusive, Inside
<1>4. ASSUME NEW h \in Handlers, Apply(h) PROVE Exclusive'
    BY <1>4 DEF Apply, Exclusive, Inside
<1>5. ASSUME NEW h \in Handlers, Publish(h) PROVE Exclusive'
    BY <1>5, Zenon DEF Publish, Exclusive, Inside, Idle
<1>6. ASSUME NEW s \in Sides, NEW p \in Prices, NEW v \in 0 .. MaxVolume, Change(s, p, v)
      PROVE UNCHANGED <<work, lock>>
    BY <1>6, Zenon DEF Change
<1>7. Snapshot \/ Lose \/ UNCHANGED vars => UNCHANGED <<work, lock>>
    BY Zenon DEF Snapshot, Lose, vars
<1> QED
    BY <1>1, <1>2, <1>3, <1>4, <1>5, <1>6, <1>7, Zenon DEF Next

(* The cached best levels are the best of the maps whenever no goroutine   *)
(* is inside UpdateByOBData.                                               *)
THEOREM BestStaysInSync == Spec => []BestInSync
<1>1. Init => BestInSync
    BY Zenon DEF Init, BestInSync
<1>2. Exclusive /\ BestInSync /\ [Next]_vars => BestInSync'
  <2> SUFFICES ASSUME Exclusive, BestInSync, [Next]_vars PROVE BestInSync'
      BY Zenon
  <2>1. CASE UNCHANGED <<rows, best, lock>>
      BY <2>1, ZenonT(60) DEF BestInSync, BestLevel, Has
  <2>2. ASSUME NEW h \in Handlers, Lock(h) \/ Apply(h) PROVE BestInSync'
    <3>1. Lock(h) => lock'
        BY Zenon DEF Lock
    <3>2. Apply(h) => lock /\ lock' = lock
        BY Zenon DEF Apply, Exclusive, Inside
    <3> QED
        BY <2>2, <3>1, <3>2 DEF BestInSync
  <2>3. ASSUME NEW h \in Handlers, Publish(h) PROVE BestInSync'
      BY <2>3, Zenon DEF Publish, BestInSync, BestLevel, Has
  <2>4. ASSUME NEW h \in Handlers, Take(h) PROVE UNCHANGED <<rows, best, lock>>
      BY <2>4, Zenon DEF Take, bookVars
  <2>5. ASSUME NEW s \in Sides, NEW p \in Prices, NEW v \in 0 .. MaxVolume, Change(s, p, v)
        PROVE UNCHANGED <<rows, best, lock>>
      BY <2>5, Zenon DEF Change, bookVars
  <2>6. Snapshot \/ Lose \/ UNCHANGED vars => UNCHANGED <<rows, best, lock>>
      BY Zenon DEF Snapshot, Lose, vars, bookVars
  <2> QED
      BY <2>1, <2>2, <2>3, <2>4, <2>5, <2>6, Zenon DEF Next
<1> QED
    BY <1>1, <1>2, ExclusiveInit, ExclusiveStep, PTL DEF Spec
-----------------------------------------------------------------------------
(* Types. *)

(* The empty book, the full exchange and no messages are typed. *)
LEMMA TypedInit == Init => Typed
BY OrderBookAssumption DEF Init, Typed, Idle, NoLevel, Level

(* The volumes of a delta's and of a snapshot's sides. *)
LEMMA VolumesIntro ==
    ASSUME NEW P \in SUBSET Prices, NEW f \in [P -> Nat] PROVE f \in Volumes
BY Zenon DEF Volumes

(* A record of a message is a level. *)
LEMMA RecordIsLevel ==
    ASSUME NEW d \in Data, NEW s \in Sides, NEW p \in DOMAIN d.levels[s]
    PROVE /\ record(d, s, p) \in Level
          /\ record(d, s, p).vol > 0 => record(d, s, p).seq = d.seq
<1>1. d.levels[s] \in Volumes /\ d.seq \in Nat
    BY Zenon DEF Data
<1>2. PICK P \in SUBSET Prices : d.levels[s] \in [P -> Nat]
    BY <1>1, Zenon DEF Volumes
<1>3. d.levels[s][p] \in Nat
    BY <1>2, Zenon
<1> QED
    BY <1>1, <1>3 DEF record, Level, NoLevel

(* updateByDelta and resetBySnapshot return the levels of a side, none of  *)
(* them older than the one it replaces.                                    *)
LEMMA SideUpdated ==
    ASSUME NEW d \in Data, NEW s \in Sides, NEW R \in [Prices -> Level],
           NEW N, N = updateByDelta(R, d, s) \/ N = resetBySnapshot(R, d, s)
    PROVE /\ N \in [Prices -> Level]
          /\ \A p \in Prices : R[p].vol > 0 /\ N[p].vol > 0 => N[p].seq >= R[p].seq
<1>1. d.seq \in Nat
    BY Zenon DEF Data
<1>2. \A p \in Prices : R[p] \in Level /\ R[p].seq \in Nat
    BY Zenon DEF Level
<1>3. NoLevel \in Level /\ NoLevel.vol = 0
    BY Zenon DEF NoLevel, Level
<1>4. \A p \in DOMAIN d.levels[s] :
          /\ record(d, s, p) \in Level
          /\ record(d, s, p).vol > 0 => record(d, s, p).seq = d.seq
    BY RecordIsLevel, Zenon
<1>5. CASE N = updateByDelta(R, d, s)
    BY <1>1, <1>2, <1>4, <1>5 DEF updateByDelta, Has, isOld
<1>6. CASE N = resetBySnapshot(R, d, s)
  <2>1. CASE DOMAIN d.levels[s] = {}
      BY <1>2, <1>6, <2>1 DEF resetBySnapshot
  <2>2. CASE DOMAIN d.levels[s] # {}
      BY <1>1, <1>2, <1>3, <1>4, <1>6, <2>2 DEF resetBySnapshot, Has, isOld
  <2> QED
      BY <2>1, <2>2, Zenon
<1> QED
    BY <1>5, <1>6, Zenon

(* Apply gives both sides typed levels, none older than before. *)
LEMMA ApplySound ==
    ASSUME Typed, NEW h \in Handlers, Apply(h)
    PROVE /\ rows' \in [Sides -> [Prices -> Level]]
          /\ \A s \in Sides, p \in Prices :
                rows[s][p].vol > 0 /\ rows'[s][p].vol > 0 => rows'[s][p].seq >= rows[s][p].seq
<1> DEFINE d == work[h].data
<1>1. d \in Data
    BY Zenon DEF Apply, Typed
<1>2. /\ rows' = [s \in Sides |-> rows'[s]]
      /\ \A s \in Sides : \/ rows'[s] = updateByDelta(rows[s], d, s)
                          \/ rows'[s] = resetBySnapshot(rows[s], d, s)
    BY Zenon DEF Apply
<1>3. \A s \in Sides : rows[s] \in [Prices -> Level]
    BY Zenon DEF Typed
<1> HIDE DEF d
<1>4. \A s \in Sides :
          /\ rows'[s] \in [Prices -> Level]
          /\ \A p \in Prices :
                rows[s][p].vol > 0 /\ rows'[s][p].vol > 0 => rows'[s][p].seq >= rows[s][p].seq
    BY <1>1, <1>2, <1>3, SideUpdated, Zenon
<1> QED
    BY <1>2, <1>4, Zenon

(* Every step keeps messages and levels typed. *)
LEMMA TypedStep == Typed /\ Exclusive /\ [Next]_vars => Typed'
<1> SUFFICES ASSUME Typed, Exclusive, [Next]_vars PROVE Typed'
    BY Zenon
<1> USE DEF Exclusive
<1>1. ASSUME NEW h \in Handlers, Take(h) PROVE Typed'
  <2>1. taken + 1 \in 1 .. Len(sent) /\ sent[taken + 1] \in Data
      BY <1>1 DEF Take, Typed
  <2> QED
      BY <1>1, <2>1 DEF Take, Typed, bookVars, exchangeVars
<1>2. ASSUME NEW h \in Handlers, Lock(h) PROVE Typed'
    BY <1>2, Zenon DEF Lock, Typed, exchangeVars
<1>3. ASSUME NEW h \in Handlers, Apply(h) PROVE Typed'
  <2>1. rows' \in [Sides -> [Prices -> Level]]
      BY <1>3, ApplySound, Zenon
  <2>2. /\ UNCHANGED <<exchange, seq, sent, taken>>
        /\ work[h].at = "apply"
        /\ work' = [work EXCEPT ![h] = [at |-> "publish", n |-> work[h].n, data |-> work[h].data]]
      BY <1>3, Zenon DEF Apply, exchangeVars
  <2> QED
      BY <2>1, <2>2, Zenon DEF Typed
<1>4. ASSUME NEW h \in Handlers, Publish(h) PROVE Typed'
    BY <1>4, Zenon DEF Publish, Typed, exchangeVars, Idle
<1>5. ASSUME NEW s \in Sides, NEW p \in Prices, NEW v \in 0 .. MaxVolume, Change(s, p, v)
      PROVE Typed'
  <2> DEFINE vols == [x \in Sides |-> [q \in IF x = s THEN {p} ELSE {} |-> v]]
             m == [type |-> "delta", seq |-> seq + 1, levels |-> vols]
  <2>1. v \in Nat
      BY OrderBookAssumption
  <2>2. \A x \in Sides : vols[x] \in Volumes
      BY <2>1, VolumesIntro, Zenon
  <2>3. m \in Data
    <3>1. vols \in [Sides -> Volumes]
        BY <2>2, Zenon
    <3> HIDE DEF vols
    <3> QED
        BY <3>1 DEF Data, Typed
  <2>4. sent' = Append(sent, m) /\ seq' = seq + 1
      BY <1>5, Zenon DEF Change
  <2>5. exchange' = [exchange EXCEPT ![s][p] = v] /\ UNCHANGED <<rows, work, taken>>
      BY <1>5, Zenon DEF Change, bookVars
  <2> HIDE DEF m
  <2> QED
      BY <2>1, <2>3, <2>4, <2>5 DEF Typed
<1>6. CASE Snapshot
  <2> DEFINE full(s) == {q \in Prices : exchange[s][q] > 0}
             vols == [s \in Sides |-> [p \in full(s) |-> exchange[s][p]]]
             m == [type |-> "snapshot", seq |-> seq, levels |-> vols]
  <2>1. \A s \in Sides : vols[s] \in [full(s) -> Nat] /\ full(s) \in SUBSET Prices
      BY Zenon DEF Typed
  <2>2. \A s \in Sides : vols[s] \in Volumes
      BY <2>1, VolumesIntro, Zenon
  <2>3. m \in Data
    <3>1. vols \in [Sides -> Volumes]
        BY <2>2, Zenon
    <3> HIDE DEF vols
    <3> QED
        BY <3>1, Zenon DEF Data, Typed
  <2>4. sent' = Append(sent, m)
      BY <1>6, Zenon DEF Snapshot
  <2>5. UNCHANGED <<rows, work, taken, exchange, seq>>
      BY <1>6, Zenon DEF Snapshot, bookVars
  <2> HIDE DEF m
  <2> QED
      BY <2>3, <2>4, <2>5 DEF Typed
<1>7. CASE Lose
    BY <1>7 DEF Lose, Typed, bookVars, exchangeVars
<1>8. CASE UNCHANGED vars
    BY <1>8, Zenon DEF vars, Typed
<1> QED
    BY <1>1, <1>2, <1>3, <1>4, <1>5, <1>6, <1>7, <1>8, Zenon DEF Next

(* A level that stays in the book never goes back to an older record.      *)
THEOREM LevelsAreNeverOlder == Spec => LevelsNeverAge
<1> DEFINE Keeps == \A s \in Sides, p \in Prices :
              rows[s][p].vol > 0 /\ rows'[s][p].vol > 0 => rows'[s][p].seq >= rows[s][p].seq
<1>1. Typed /\ [Next]_vars => [Keeps]_vars
  <2> SUFFICES ASSUME Typed, Next PROVE Keeps
      BY Zenon
  <2>1. CASE rows' = rows
      BY <2>1 DEF Typed, Level
  <2>2. ASSUME NEW h \in Handlers, Apply(h) PROVE Keeps
      BY <2>2, ApplySound, Zenon
  <2>3. ASSUME NEW h \in Handlers, Take(h) \/ Lock(h) \/ Publish(h) PROVE rows' = rows
      BY <2>3, Zenon DEF Take, Lock, Publish, bookVars
  <2>4. ASSUME NEW s \in Sides, NEW p \in Prices, NEW v \in 0 .. MaxVolume, Change(s, p, v)
        PROVE rows' = rows
      BY <2>4, Zenon DEF Change, bookVars
  <2>5. Snapshot \/ Lose => rows' = rows
      BY Zenon DEF Snapshot, Lose, bookVars
  <2> QED
      BY <2>1, <2>2, <2>3, <2>4, <2>5, Zenon DEF Next
<1> QED
    BY <1>1, TypedInit, TypedStep, ExclusiveInit, ExclusiveStep, PTL DEF Spec, LevelsNeverAge
-----------------------------------------------------------------------------
(* The book follows the exchange's. *)

(* An empty book with nothing published satisfies all of it. *)
LEMMA FollowInit == Init => Queue /\ Ascending /\ NoneNewer /\ Full /\ LastTells /\ Following
<1> SUFFICES ASSUME Init
             PROVE  Queue /\ Ascending /\ NoneNewer /\ Full /\ LastTells /\ Following
    BY Zenon
<1>1. Len(sent) = 0
    BY Zenon DEF Init
<1>2. Queue /\ Ascending /\ NoneNewer
    BY <1>1 DEF Init, Queue, Ascending, NoneNewer, NoLevel
<1>3. 1 \in Prices
    BY OrderBookAssumption DEF Prices
<1>4. Full /\ LastTells /\ Following
    BY <1>1, <1>3 DEF Init, Full, LastTells, Following
<1> QED
    BY <1>2, <1>4, Zenon

(* A message is published behind the others. *)
LEMMA Published ==
    ASSUME Typed, NEW m \in Data, sent' = Append(sent, m)
    PROVE /\ Len(sent) \in Nat /\ Len(sent') = Len(sent) + 1
          /\ \A i \in 1 .. Len(sent) : sent'[i] = sent[i]
          /\ sent'[Len(sent) + 1] = m
BY DEF Typed

(* Every message published is data, with a number. *)
LEMMA SentIsData ==
    ASSUME Typed
    PROVE /\ Len(sent) \in Nat /\ seq \in Nat
          /\ \A i \in 1 .. Len(sent) : sent[i] \in Data /\ sent[i].seq \in Nat
<1>1. Len(sent) \in Nat /\ seq \in Nat /\ \A i \in 1 .. Len(sent) : sent[i] \in Data
    BY DEF Typed
<1>2. \A m \in Data : m.seq \in Nat
    BY Zenon DEF Data
<1> QED
    BY <1>1, <1>2, Zenon

(* What Change and Snapshot publish, and what they leave alone. *)
LEMMA ChangeSends ==
    ASSUME Typed, NEW s \in Sides, NEW p \in Prices, NEW v \in 0 .. MaxVolume, Change(s, p, v)
    PROVE \E m \in Data :
             /\ sent' = Append(sent, m)
             /\ m.type = "delta" /\ m.seq = seq + 1
             /\ \A x \in Sides, q \in Prices : Touches(m, x, q) <=> x = s /\ q = p
             /\ Volume(m, s, p) = v
<1> DEFINE vols == [x \in Sides |-> [q \in IF x = s THEN {p} ELSE {} |-> v]]
           m == [type |-> "delta", seq |-> seq + 1, levels |-> vols]
<1>1. v \in Nat
    BY OrderBookAssumption
<1>2. \A x \in Sides : vols[x] \in Volumes
    BY <1>1, VolumesIntro, Zenon
<1>3. m \in Data
  <2>1. vols \in [Sides -> Volumes]
      BY <1>2, Zenon
  <2> HIDE DEF vols
  <2> QED
      BY <2>1 DEF Data, Typed
<1>4. sent' = Append(sent, m)
    BY Zenon DEF Change
<1>5. \A x \in Sides : DOMAIN m.levels[x] = IF x = s THEN {p} ELSE {}
    BY Zenon
<1>6. m.type = "delta" /\ m.seq = seq + 1 /\ m.levels[s][p] = v
    BY Zenon
<1> HIDE DEF m
<1>7. /\ \A x \in Sides, q \in Prices : Touches(m, x, q) <=> x = s /\ q = p
      /\ Volume(m, s, p) = v
    BY <1>5, <1>6 DEF Touches, Volume
<1> QED
    BY <1>3, <1>4, <1>6, <1>7, Zenon

(* A snapshot tells every volume of the exchange's book. *)
LEMMA SnapshotSends ==
    ASSUME Typed, Full, Snapshot
    PROVE \E m \in Data :
             /\ sent' = Append(sent, m)
             /\ m.type = "snapshot" /\ m.seq = seq
             /\ \A s \in Sides : DOMAIN m.levels[s] # {}
             /\ \A s \in Sides, p \in Prices : Volume(m, s, p) = exchange[s][p]
<1> DEFINE full(s) == {q \in Prices : exchange[s][q] > 0}
           vols == [s \in Sides |-> [p \in full(s) |-> exchange[s][p]]]
           m == [type |-> "snapshot", seq |-> seq, levels |-> vols]
<1>1. \A s \in Sides : vols[s] \in [full(s) -> Nat] /\ full(s) \in SUBSET Prices
    BY Zenon DEF Typed
<1>2. \A s \in Sides : vols[s] \in Volumes
    BY <1>1, VolumesIntro, Zenon
<1>3. m \in Data
  <2>1. vols \in [Sides -> Volumes]
      BY <1>2, Zenon
  <2> HIDE DEF vols
  <2> QED
      BY <2>1, Zenon DEF Data, Typed
<1>4. sent' = Append(sent, m)
    BY Zenon DEF Snapshot
<1>5. \A s \in Sides :
          DOMAIN m.levels[s] = full(s) /\ \A p \in full(s) : m.levels[s][p] = exchange[s][p]
    BY Zenon
<1>6. m.type = "snapshot" /\ m.seq = seq
    BY Zenon
<1> HIDE DEF m
<1>7. \A s \in Sides : DOMAIN m.levels[s] # {}
    BY <1>5, Zenon DEF Full
<1>8. \A s \in Sides, p \in Prices : Volume(m, s, p) = exchange[s][p]
    BY <1>5 DEF Volume, Typed
<1> QED
    BY <1>3, <1>4, <1>6, <1>7, <1>8, Zenon

(* The messages stay in the hands of the goroutines that took them. *)
LEMMA QueueStep == Typed /\ Exclusive /\ Full /\ Queue /\ [Next]_vars => Queue'
<1> SUFFICES ASSUME Typed, Exclusive, Full, Queue, [Next]_vars PROVE Queue'
    BY Zenon
<1>0. Len(sent) \in Nat /\ DOMAIN work = Handlers
    BY DEF Typed, Exclusive
<1>1. ASSUME NEW h \in Handlers, Take(h) PROVE Queue'
    BY <1>0, <1>1 DEF Take, Queue, exchangeVars, syncVars, Idle
<1>2. ASSUME NEW h \in Handlers, Lock(h) PROVE Queue'
    BY <1>0, <1>2 DEF Lock, Queue, exchangeVars, syncVars, Idle
<1>3. ASSUME NEW h \in Handlers, Apply(h) PROVE Queue'
  <2>1. work[h].at = "apply" /\ work[h] # Idle
      BY <1>3 DEF Apply, Idle
  <2>2. work[h].n \in 1 .. taken /\ work[h].data = sent[work[h].n]
      BY <2>1, Zenon DEF Queue
  <2>3. /\ UNCHANGED <<sent, taken>>
        /\ applied' = IF work[h].n > applied THEN work[h].n ELSE applied
        /\ work' = [work EXCEPT ![h] = [at |-> "publish", n |-> work[h].n, data |-> work[h].data]]
      BY <1>3, Zenon DEF Apply, exchangeVars
  <2> QED
      BY <1>0, <2>1, <2>2, <2>3 DEF Queue, Idle
<1>4. ASSUME NEW h \in Handlers, Publish(h) PROVE Queue'
    BY <1>0, <1>4, Zenon DEF Publish, Queue, exchangeVars, syncVars, Idle
<1>5. ASSUME NEW m \in Data, sent' = Append(sent, m), UNCHANGED <<work, taken, applied>>
      PROVE Queue'
    BY <1>0, <1>5, Published DEF Queue, Idle
<1>6. ASSUME NEW s \in Sides, NEW p \in Prices, NEW v \in 0 .. MaxVolume, Change(s, p, v)
      PROVE Queue'
    BY <1>5, <1>6, ChangeSends DEF Change, syncVars
<1>7. CASE Snapshot
    BY <1>5, <1>7, SnapshotSends, Zenon DEF Snapshot, syncVars
<1>8. CASE Lose
    BY <1>0, <1>8 DEF Lose, Queue, exchangeVars
<1>9. CASE UNCHANGED vars
    BY <1>9, Zenon DEF vars, Queue, Idle
<1> QED
    BY <1>1, <1>2, <1>3, <1>4, <1>6, <1>7, <1>8, <1>9, Zenon DEF Next

(* The exchange's side of the invariant: only Change and Snapshot touch it. *)
LEMMA SentStep ==
    Typed /\ Ascending /\ Full /\ LastTells /\ [Next]_vars => Ascending' /\ Full' /\ LastTells'
<1> SUFFICES ASSUME Typed, Ascending, Full, LastTells, [Next]_vars
             PROVE  Ascending' /\ Full' /\ LastTells'
    BY Zenon
<1>0. /\ Len(sent) \in Nat /\ seq \in Nat
      /\ \A i \in 1 .. Len(sent) : sent[i].seq \in Nat
    BY SentIsData, Zenon
<1>1. CASE UNCHANGED exchangeVars
  <2>1. Ascending' /\ Full'
      BY <1>1, Zenon DEF exchangeVars, Ascending, Full
  <2>2. \A i, s, p : Quiet(i, s, p)' <=> Quiet(i, s, p)
      BY <1>1, Zenon DEF exchangeVars, Quiet
  <2>3. LastTells'
      BY <1>1, <2>2, Zenon DEF exchangeVars, LastTells
  <2> QED
      BY <2>1, <2>3, Zenon
<1>2. ASSUME NEW s \in Sides, NEW p \in Prices, NEW v \in 0 .. MaxVolume, Change(s, p, v)
      PROVE  Ascending' /\ Full' /\ LastTells'
  <2>1. PICK m \in Data :
             /\ sent' = Append(sent, m)
             /\ m.type = "delta" /\ m.seq = seq + 1
             /\ \A x \in Sides, q \in Prices : Touches(m, x, q) <=> x = s /\ q = p
             /\ Volume(m, s, p) = v
      BY <1>2, ChangeSends
  <2>2. /\ Len(sent') = Len(sent) + 1
        /\ \A i \in 1 .. Len(sent) : sent'[i] = sent[i]
        /\ sent'[Len(sent) + 1] = m
      BY <2>1, Published, Zenon
  <2>3. /\ seq' = seq + 1 /\ exchange' = [exchange EXCEPT ![s][p] = v]
        /\ v = 0 => \E q \in Prices \ {p} : exchange[s][q] > 0
      BY <1>2, Zenon DEF Change
  <2>4. v \in Nat /\ exchange \in [Sides -> [Prices -> Nat]]
      BY OrderBookAssumption DEF Typed
  <2>5. Ascending'
      BY <1>0, <2>1, <2>2, <2>3 DEF Ascending
  <2>6. Full'
    <3>1. \A i \in 1 .. Len(sent') : \A x \in Sides :
              sent'[i].type = "snapshot" => DOMAIN sent'[i].levels[x] # {}
        BY <1>0, <2>1, <2>2 DEF Full
    <3>2. ASSUME NEW x \in Sides PROVE \E q \in Prices : exchange'[x][q] > 0
      <4>1. CASE x # s
          BY <2>3, <2>4, <4>1, Zenon DEF Full
      <4>2. CASE x = s /\ v = 0
          BY <2>3, <2>4, <4>2, Zenon
      <4>3. CASE x = s /\ v # 0
          BY <2>3, <2>4, <4>3
      <4> QED
          BY <4>1, <4>2, <4>3, Zenon
    <3> QED
        BY <3>1, <3>2, Zenon DEF Full
  <2>7. LastTells'
    <3> SUFFICES ASSUME NEW x \in Sides, NEW q \in Prices, NEW i \in 1 .. Len(sent'),
                        Touches(sent'[i], x, q), Quiet(i, x, q)'
                 PROVE  exchange'[x][q] = Volume(sent'[i], x, q)
        BY Zenon DEF LastTells
    <3>1. \A k \in i + 1 .. Len(sent) + 1 : ~Touches(sent'[k], x, q)
        BY <2>2, Zenon DEF Quiet
    <3>2. CASE i = Len(sent) + 1
        BY <2>1, <2>2, <2>3, <2>4, <3>2, Zenon
    <3>3. CASE i \in 1 .. Len(sent)
      <4>1. ~Touches(m, x, q)
          BY <1>0, <2>2, <3>1, <3>3
      <4>2. ~(x = s /\ q = p)
          BY <2>1, <4>1, Zenon
      <4>3. exchange'[x][q] = exchange[x][q]
          BY <2>3, <2>4, <4>2, Zenon
      <4>4. Touches(sent[i], x, q) /\ Quiet(i, x, q)
          BY <1>0, <2>2, <3>1, <3>3 DEF Quiet
      <4> QED
          BY <2>2, <3>3, <4>3, <4>4, Zenon DEF LastTells
    <3> QED
        BY <1>0, <2>2, <3>2, <3>3
  <2> QED
      BY <2>5, <2>6, <2>7, Zenon
<1>3. CASE Snapshot
  <2>1. PICK m \in Data :
             /\ sent' = Append(sent, m)
             /\ m.type = "snapshot" /\ m.seq = seq
             /\ \A s \in Sides : DOMAIN m.levels[s] # {}
             /\ \A s \in Sides, p \in Prices : Volume(m, s, p) = exchange[s][p]
      BY <1>3, SnapshotSends, Zenon
  <2>2. /\ Len(sent') = Len(sent) + 1
        /\ \A i \in 1 .. Len(sent) : sent'[i] = sent[i]
        /\ sent'[Len(sent) + 1] = m
      BY <2>1, Published, Zenon
  <2>3. UNCHANGED <<exchange, seq>>
      BY <1>3, Zenon DEF Snapshot
  <2>4. Ascending'
      BY <1>0, <2>1, <2>2, <2>3 DEF Ascending
  <2>5. Full'
      BY <1>0, <2>1, <2>2, <2>3 DEF Full
  <2>6. LastTells'
    <3> SUFFICES ASSUME NEW x \in Sides, NEW q \in Prices, NEW i \in 1 .. Len(sent'),
                        Quiet(i, x, q)'
                 PROVE  exchange'[x][q] = Volume(sent'[i], x, q)
        BY Zenon DEF LastTells
    <3>1. i \in 1 .. Len(sent) => Touches(sent'[Len(sent) + 1], x, q)
        BY <2>1, <2>2, Zenon DEF Touches
    <3>2. i = Len(sent) + 1
        BY <1>0, <2>2, <3>1 DEF Quiet
    <3> QED
        BY <2>1, <2>2, <2>3, <3>2, Zenon
  <2> QED
      BY <2>4, <2>5, <2>6, Zenon
<1>4. ASSUME NEW h \in Handlers, Take(h) \/ Lock(h) \/ Apply(h) \/ Publish(h)
      PROVE  UNCHANGED exchangeVars
    BY <1>4, Zenon DEF Take, Lock, Apply, Publish
<1>5. Lose \/ UNCHANGED vars => UNCHANGED exchangeVars
    BY Zenon DEF Lose, vars, exchangeVars
<1> QED
    BY <1>1, <1>2, <1>3, <1>4, <1>5, Zenon DEF Next

(* A price a message does not touch keeps its level; a level that is put    *)
(* in carries the number of the message.                                    *)
LEMMA ApplyOrigin ==
    ASSUME Typed, NEW h \in Handlers, Apply(h), NEW s \in Sides, NEW p \in Prices
    PROVE /\ ~Touches(work[h].data, s, p) => rows'[s][p] = rows[s][p]
          /\ \/ rows'[s][p] = rows[s][p]
             \/ rows'[s][p].vol = 0
             \/ rows'[s][p].seq = work[h].data.seq
<1> DEFINE d == work[h].data
           R == rows[s]
<1>1. d \in Data /\ R \in [Prices -> Level]
    BY Zenon DEF Apply, Typed
<1>2. d.type \in {"snapshot", "delta"}
    BY <1>1, Zenon DEF Data
<1>3. rows'[s] = IF d.type = "snapshot" THEN resetBySnapshot(R, d, s) ELSE updateByDelta(R, d, s)
    BY Zenon DEF Apply
<1> HIDE DEF d, R
<1>4. \A q \in DOMAIN d.levels[s] :
          /\ record(d, s, q) \in Level
          /\ record(d, s, q).vol > 0 => record(d, s, q).seq = d.seq
    BY <1>1, RecordIsLevel, Zenon
<1>5. /\ ~Touches(d, s, p) => rows'[s][p] = R[p]
      /\ rows'[s][p] = R[p] \/ rows'[s][p].vol = 0 \/ rows'[s][p].seq = d.seq
  <2>1. CASE d.type = "delta"
    <3>1. \/ p \in DOMAIN d.levels[s] /\ rows'[s][p] = record(d, s, p)
          \/ rows'[s][p] = R[p]
        BY <1>3, <2>1, Zenon DEF updateByDelta
    <3>2. p \notin DOMAIN d.levels[s] => rows'[s][p] = R[p]
        BY <1>3, <2>1, Zenon DEF updateByDelta
    <3> QED
        BY <1>4, <2>1, <3>1, <3>2 DEF Touches, Level
  <2>2. CASE d.type = "snapshot"
    <3>1. \/ p \in DOMAIN d.levels[s] /\ rows'[s][p] = record(d, s, p)
          \/ rows'[s][p] = R[p]
          \/ rows'[s][p] = NoLevel
        BY <1>3, <2>2, Zenon DEF resetBySnapshot
    <3> QED
        BY <1>4, <2>2, <3>1 DEF Touches, Level, NoLevel
  <2> QED
      BY <1>2, <2>1, <2>2, Zenon
<1> QED
    BY <1>5, Zenon DEF d, R

(* A message applied above all that the book has gives it the volume it     *)
(* tells: no level is too new for it.                                       *)
LEMMA ApplyTells ==
    ASSUME Typed, NEW h \in Handlers, Apply(h), NEW s \in Sides, NEW p \in Prices,
           Touches(work[h].data, s, p),
           work[h].data.type = "snapshot" => DOMAIN work[h].data.levels[s] # {},
           rows[s][p].vol > 0 =>
              /\ rows[s][p].seq <= work[h].data.seq
              /\ work[h].data.type = "delta" => rows[s][p].seq < work[h].data.seq
    PROVE rows'[s][p].vol = Volume(work[h].data, s, p)
<1> DEFINE d == work[h].data
           R == rows[s]
<1>1. d \in Data /\ R \in [Prices -> Level]
    BY Zenon DEF Apply, Typed
<1>2. d.type \in {"snapshot", "delta"} /\ d.seq \in Nat
    BY <1>1, Zenon DEF Data
<1>3. rows'[s] = IF d.type = "snapshot" THEN resetBySnapshot(R, d, s) ELSE updateByDelta(R, d, s)
    BY Zenon DEF Apply
<1>4. /\ Touches(d, s, p)
      /\ d.type = "snapshot" => DOMAIN d.levels[s] # {}
      /\ R[p].vol > 0 => R[p].seq <= d.seq /\ (d.type = "delta" => R[p].seq < d.seq)
    BY Zenon
<1> HIDE DEF d, R
<1>5. R[p].seq \in Nat /\ R[p].vol \in Nat
    BY <1>1, Zenon DEF Level
<1>6. p \in DOMAIN d.levels[s] =>
          /\ record(d, s, p).vol = Volume(d, s, p)
          /\ record(d, s, p).vol > 0 => record(d, s, p).seq = d.seq
    BY <1>1, RecordIsLevel, Zenon DEF record, Volume, NoLevel
<1>7. ASSUME d.type = "delta" PROVE rows'[s][p].vol = Volume(d, s, p)
  <2>1. p \in DOMAIN d.levels[s] /\ (Has(R, p) => isOld(R[p], d.seq))
      BY <1>4, <1>7, Zenon DEF Touches, Has, isOld
  <2>2. rows'[s][p] = record(d, s, p)
      BY <1>3, <1>7, <2>1, Zenon DEF updateByDelta
  <2> QED
      BY <1>6, <2>1, <2>2, Zenon
<1>8. ASSUME d.type = "snapshot" PROVE rows'[s][p].vol = Volume(d, s, p)
  <2>1. DOMAIN d.levels[s] # {}
      BY <1>4, <1>8, Zenon
  <2>2. CASE p \in DOMAIN d.levels[s]
    <3>1. ~(Has(R, p) /\ record(d, s, p).vol > 0 /\ isOld(record(d, s, p), R[p].seq))
        BY <1>2, <1>4, <1>5, <1>6, <2>2 DEF Has, isOld
    <3>2. rows'[s][p] = record(d, s, p)
        BY <1>3, <1>8, <2>1, <2>2, <3>1, Zenon DEF resetBySnapshot
    <3> QED
        BY <1>6, <2>2, <3>2, Zenon
  <2>3. CASE p \notin DOMAIN d.levels[s]
    <3>1. rows'[s][p] = NoLevel
        BY <1>3, <1>8, <2>1, <2>3, Zenon DEF resetBySnapshot
    <3> QED
        BY <2>3, <3>1 DEF Volume, NoLevel
  <2> QED
      BY <2>2, <2>3, Zenon
<1>9. rows'[s][p].vol = Volume(d, s, p)
    BY <1>2, <1>7, <1>8, Zenon
<1> QED
    BY <1>9, Zenon DEF d

(* No step puts a level into the book that is newer than all the messages   *)
(* applied.                                                                 *)
LEMMA NoneNewerStep ==
    Typed /\ Queue /\ Ascending /\ Full /\ NoneNewer /\ [Next]_vars => NoneNewer'
<1> SUFFICES ASSUME Typed, Queue, Ascending, Full, NoneNewer, [Next]_vars PROVE NoneNewer'
    BY Zenon
<1>0. /\ Len(sent) \in Nat /\ \A i \in 1 .. Len(sent) : sent[i].seq \in Nat
      /\ taken \in 0 .. Len(sent) /\ applied \in 0 .. taken
      /\ \A s \in Sides, p \in Prices : rows[s][p].seq \in Nat
    BY SentIsData DEF Queue, Typed, Level
<1>1. CASE UNCHANGED <<rows, sent, applied>>
    BY <1>1, Zenon DEF NoneNewer
<1>2. ASSUME NEW m \in Data, sent' = Append(sent, m), UNCHANGED <<rows, applied>>
      PROVE NoneNewer'
    BY <1>0, <1>2, Published DEF NoneNewer
<1>3. ASSUME NEW h \in Handlers, Apply(h) PROVE NoneNewer'
  <2>1. work[h].n \in 1 .. taken /\ work[h].data = sent[work[h].n]
      BY <1>3 DEF Apply, Queue, Idle
  <2>2. sent' = sent /\ applied' = IF work[h].n > applied THEN work[h].n ELSE applied
      BY <1>3, Zenon DEF Apply, exchangeVars
  <2>3. applied' \in 1 .. Len(sent) /\ applied' >= applied /\ applied' >= work[h].n
      BY <1>0, <2>1, <2>2
  <2>4. \A i \in 1 .. Len(sent) : i <= applied' => sent[i].seq <= sent[applied'].seq
      BY <1>0, <2>3 DEF Ascending
  <2>5. work[h].n \in 1 .. Len(sent) /\ (applied > 0 => applied \in 1 .. Len(sent))
      BY <1>0, <2>1
  <2>6. ASSUME NEW s \in Sides, NEW p \in Prices, rows'[s][p].vol > 0
        PROVE rows'[s][p].seq <= sent[applied'].seq
    <3>1. CASE rows'[s][p] = rows[s][p]
      <4>1. applied > 0 /\ rows[s][p].seq <= sent[applied].seq
          BY <2>6, <3>1, Zenon DEF NoneNewer
      <4>2. sent[applied].seq <= sent[applied'].seq
          BY <2>3, <2>4, <2>5, <4>1, Zenon
      <4> QED
          BY <1>0, <2>3, <2>5, <3>1, <4>1, <4>2
    <3>2. CASE rows'[s][p].seq = sent[work[h].n].seq
        BY <2>3, <2>4, <2>5, <3>2, Zenon
    <3> QED
        BY <1>3, <2>1, <2>6, <3>1, <3>2, ApplyOrigin
  <2> QED
      BY <2>2, <2>3, <2>6 DEF NoneNewer
<1>4. CASE Lose
  <2>1. UNCHANGED <<rows, sent>> /\ applied' = Len(sent)
      BY <1>4, Zenon DEF Lose, bookVars, exchangeVars
  <2>2. applied > 0 => Len(sent) > 0 /\ sent[applied].seq <= sent[Len(sent)].seq
      BY <1>0 DEF Ascending
  <2> QED
      BY <1>0, <2>1, <2>2 DEF NoneNewer
<1>5. ASSUME NEW h \in Handlers, Take(h) \/ Lock(h) \/ Publish(h)
      PROVE  UNCHANGED <<rows, sent, applied>>
    BY <1>5, Zenon DEF Take, Lock, Publish, bookVars, exchangeVars, syncVars
<1>6. ASSUME NEW s \in Sides, NEW p \in Prices, NEW v \in 0 .. MaxVolume, Change(s, p, v)
      PROVE NoneNewer'
    BY <1>2, <1>6, ChangeSends DEF Change, bookVars, syncVars
<1>7. CASE Snapshot
    BY <1>2, <1>7, SnapshotSends, Zenon DEF Snapshot, bookVars, syncVars
<1>8. CASE UNCHANGED vars
    BY <1>1, <1>8, Zenon DEF vars
<1> QED
    BY <1>1, <1>3, <1>4, <1>5, <1>6, <1>7, <1>8, Zenon DEF Next

(* The book keeps up: in sync it has the exchange's volumes wherever no     *)
(* message is outstanding.                                                  *)
LEMMA FollowingStep ==
    Typed /\ Queue /\ Ascending /\ NoneNewer /\ Full /\ LastTells /\ Following /\ [Next]_vars
        => Following'
<1> SUFFICES ASSUME Typed, Queue, Ascending, NoneNewer, Full, LastTells, Following, [Next]_vars
             PROVE  Following'
    BY Zenon
<1>0. /\ Len(sent) \in Nat /\ \A i \in 1 .. Len(sent) : sent[i] \in Data /\ sent[i].seq \in Nat
      /\ taken \in 0 .. Len(sent) /\ applied \in 0 .. taken
      /\ \A s \in Sides, p \in Prices : rows[s][p].seq \in Nat
    BY SentIsData DEF Queue, Typed, Level
<1>1. CASE UNCHANGED <<rows, exchange, sent, applied, inSync>>
    BY <1>1, Zenon DEF Following, Quiet
<1>2. ASSUME NEW h \in Handlers, Apply(h) PROVE Following'
  <2> DEFINE d == work[h].data
             n == work[h].n
  <2>1. n \in 1 .. taken /\ d = sent[n]
      BY <1>2 DEF Apply, Queue, Idle
  <2>2. /\ UNCHANGED <<sent, exchange>>
        /\ applied' = IF n > applied THEN n ELSE applied
        /\ inSync' => \/ d.type = "snapshot" /\ n > applied
                      \/ inSync /\ n = applied + 1
      BY <1>2, Zenon DEF Apply, exchangeVars
  <2> SUFFICES ASSUME inSync', NEW s \in Sides, NEW p \in Prices, Quiet(applied, s, p)'
               PROVE  rows'[s][p].vol = exchange[s][p]
      BY <2>2, Zenon DEF Following
  <2>3. n > applied /\ applied' = n
      BY <1>0, <2>1, <2>2
  <2>4. Quiet(n, s, p)
      BY <2>2, <2>3, Zenon DEF Quiet
  <2>5. CASE Touches(d, s, p)
    <3>1. exchange[s][p] = Volume(d, s, p)
        BY <1>0, <2>1, <2>4, <2>5 DEF LastTells
    <3>2. d.type = "snapshot" => DOMAIN d.levels[s] # {}
        BY <1>0, <2>1 DEF Full
    <3>3. rows[s][p].vol > 0 =>
              rows[s][p].seq <= d.seq /\ (d.type = "delta" => rows[s][p].seq < d.seq)
        BY <1>0, <2>1, <2>3, SMTT(30) DEF NoneNewer, Ascending
    <3> QED
        BY <1>2, <2>5, <3>1, <3>2, <3>3, ApplyTells, Zenon
  <2>6. CASE ~Touches(d, s, p)
    <3>1. rows'[s][p] = rows[s][p]
        BY <1>2, <2>6, ApplyOrigin, Zenon
    <3>2. inSync /\ n = applied + 1
        BY <2>2, <2>6, Zenon DEF Touches
    <3>3. Quiet(applied, s, p)
        BY <1>0, <2>1, <2>4, <2>6, <3>2 DEF Quiet
    <3> QED
        BY <3>1, <3>2, <3>3, Zenon DEF Following
  <2> QED
      BY <2>5, <2>6, Zenon
<1>3. ASSUME NEW s \in Sides, NEW p \in Prices, NEW v \in 0 .. MaxVolume, Change(s, p, v)
      PROVE Following'
  <2>1. PICK m \in Data :
             /\ sent' = Append(sent, m)
             /\ \A x \in Sides, q \in Prices : Touches(m, x, q) <=> x = s /\ q = p
      BY <1>3, ChangeSends, Zenon
  <2>2. /\ Len(sent') = Len(sent) + 1
        /\ \A i \in 1 .. Len(sent) : sent'[i] = sent[i]
        /\ sent'[Len(sent) + 1] = m
      BY <2>1, Published, Zenon
  <2>3. /\ exchange' = [exchange EXCEPT ![s][p] = v] /\ UNCHANGED <<rows, applied, inSync>>
        /\ exchange \in [Sides -> [Prices -> Nat]]
      BY <1>3, Zenon DEF Change, bookVars, syncVars, Typed
  <2> SUFFICES ASSUME inSync, NEW x \in Sides, NEW q \in Prices, Quiet(applied, x, q)'
               PROVE  rows[x][q].vol = exchange'[x][q]
      BY <2>3, Zenon DEF Following
  <2>4. \A k \in applied + 1 .. Len(sent) + 1 : ~Touches(sent'[k], x, q)
      BY <2>2, <2>3, Zenon DEF Quiet
  <2>5. ~Touches(m, x, q)
      BY <1>0, <2>2, <2>4
  <2>6. exchange'[x][q] = exchange[x][q]
      BY <2>1, <2>3, <2>5, Zenon
  <2>7. Quiet(applied, x, q)
      BY <1>0, <2>2, <2>4 DEF Quiet
  <2> QED
      BY <2>6, <2>7, Zenon DEF Following
<1>4. CASE Snapshot
  <2>1. PICK m \in Data : sent' = Append(sent, m) /\ m.type = "snapshot"
      BY <1>4, SnapshotSends, Zenon
  <2>2. Len(sent') = Len(sent) + 1 /\ sent'[Len(sent) + 1] = m /\ applied' = applied
      BY <1>4, <2>1, Published, Zenon DEF Snapshot, syncVars
  <2>3. \A s \in Sides, p \in Prices : ~Quiet(applied, s, p)'
      BY <1>0, <2>1, <2>2 DEF Quiet, Touches
  <2> QED
      BY <2>2, <2>3, Zenon DEF Following
<1>5. CASE Lose
    BY <1>5, Zenon DEF Lose, Following
<1>6. ASSUME NEW h \in Handlers, Take(h) \/ Lock(h) \/ Publish(h)
      PROVE  UNCHANGED <<rows, exchange, sent, applied, inSync>>
    BY <1>6, Zenon DEF Take, Lock, Publish, bookVars, exchangeVars, syncVars
<1>7. CASE UNCHANGED vars
    BY <1>1, <1>7, Zenon DEF vars
<1> QED
    BY <1>1, <1>2, <1>3, <1>4, <1>5, <1>6, <1>7, Zenon DEF Next

(* Once a snapshot has come in, and while the goroutines apply the messages *)
(* in their order, the book is the exchange's whenever all that was         *)
(* published is applied: no delta is lost on an existing level, and none    *)
(* is taken for an old one.                                                 *)
THEOREM BookFollowsExchange == Spec => []FollowsExchange
<1> DEFINE Inv == /\ Typed /\ Exclusive
                  /\ Queue /\ Ascending /\ NoneNewer /\ Full /\ LastTells /\ Following
<1>1. Init => Inv
    BY TypedInit, ExclusiveInit, FollowInit, Zenon
<1>2. Inv /\ [Next]_vars => Inv'
    BY TypedStep, ExclusiveStep, QueueStep, SentStep, NoneNewerStep, FollowingStep, Zenon
<1>3. Inv => FollowsExchange
  <2> SUFFICES ASSUME Inv, inSync, taken = Len(sent), \A h \in Handlers : work[h] = Idle,
                      NEW s \in Sides, NEW p \in Prices
               PROVE  rows[s][p].vol = exchange[s][p]
      BY Zenon DEF FollowsExchange
  <2>1. applied = Len(sent) /\ Len(sent) \in Nat
      BY SentIsData DEF Queue, Idle
  <2>2. Quiet(applied, s, p)
      BY <2>1 DEF Quiet
  <2> QED
      BY <2>2, Zenon DEF Following
<1> QED
    BY <1>1, <1>2, <1>3, PTL DEF Spec
-----------------------------------------------------------------------------
(* The sides of the book are sides in the sense of the queries. *)
LEMMA BookSides ==
    ASSUME Typed, NEW s \in Sides
    PROVE  Side(On(s)) /\ On(s).levels = Levels(s)
<1> DEFINE P == {q \in Prices : Has(rows[s], q)}
           D == {p * TickSize : p \in P}
           b == On(s)
<1>1. b.side \in {"ask", "bid"} /\ b.levels = Levels(s)
    BY DEF On
<1>2. DOMAIN Levels(s) = D
    BY Zenon DEF Levels
<1>3. IsFiniteSet(P) /\ P \subseteq Nat
    <2>1. IsFiniteSet(1 .. MaxPrice) /\ P \subseteq 1 .. MaxPrice
        BY OrderBookAssumption, FS_Interval DEF Prices
    <2>2. IsFiniteSet(P)
        BY <2>1, FS_Subset, Zenon
    <2> QED BY <2>1, <2>2
<1>4. IsFiniteSet(D)
    <2> DEFINE f == [p \in P |-> p * TickSize]
    <2> HIDE DEF P
    <2>1. D = {f[p] : p \in P}
        BY Zenon
    <2>2. f \in Surjection(P, D)
        BY <2>1, Zenon DEF Surjection
    <2> HIDE DEF f, D
    <2> QED BY <1>3, <2>2, FS_Surjection, Zenon
<1>5. TickSize \in Nat
    BY QueriesAssumption
<1>6. D \subseteq Nat
    BY <1>3, <1>5
<1>7. ASSUME NEW x \in D PROVE rows[s][x \div TickSize].vol \in Nat
    <2>1. PICK p \in P : x = p * TickSize
        BY Zenon
    <2>2. x \div TickSize = p
        <3>1. p \in Nat /\ TickSize \in Nat \ {0}
            BY <1>3, QueriesAssumption
        <3> QED BY <2>1, <3>1
    <2>3. p \in Prices
        BY Zenon
    <2> QED BY <2>2, <2>3 DEF Typed, Level
<1>8. Levels(s) \in [D -> Nat]
    BY <1>7, Zenon DEF Levels
<1> QED BY <1>1, <1>2, <1>4, <1>6, <1>8, Zenon DEF Side

(* The book is well typed in every reachable state. *)
LEMMA BookTyped == Spec => []Typed
<1>1. Init => Typed /\ Exclusive
    BY TypedInit, ExclusiveInit, Zenon
<1>2. Typed /\ Exclusive /\ [Next]_vars => (Typed /\ Exclusive)'
    BY TypedStep, ExclusiveStep, Zenon
<1> QED BY <1>1, <1>2, PTL DEF Spec

(* On every book an update leaves behind, AvgExecPrice (price_level.go) of *)
(* a quantity that a side can fill is the tick at or just below the        *)
(* average over the best way there is to take it from the levels, as long  *)
(* as the precision of decimals is finer than an average can be close to a *)
(* tick.                                                                   *)
THEOREM AveragesRoundDown == Spec => []AvgIsRoundedDown
<1>1. Typed => AvgIsRoundedDown
    BY BookSides, SideRoundsDown, QueriesAssumption DEF AvgIsRoundedDown
<1> QED BY <1>1, BookTyped, PTL

(* On every book an update leaves behind, SumVolume of a price is the      *)
(* quantity that executes at this price or better, by the sums of          *)
(* AvgExecPrice.                                                           *)
THEOREM SumVolumesAreRequired == Spec => []SumVolumeIsRequired
<1>1. Typed => SumVolumeIsRequired
    <2> SUFFICES ASSUME Typed, NEW s \in Sides, NEW p \in DOMAIN Levels(s)
                 PROVE  FillsUpTo(On(s), p) /\ FillsUpTo(On(s), p + TickSize)
        BY Zenon DEF SumVolumeIsRequired
    <2>1. Side(On(s)) /\ On(s).levels = Levels(s)
        BY BookSides, Zenon
    <2>2. p \in Nat
        BY <2>1, Zenon DEF Side
    <2>3. p \in Int /\ p + TickSize \in Int
        BY <2>2, QueriesAssumption
    <2> QED BY <2>1, <2>3, SideFillsUpTo, Zenon
<1> QED BY <1>1, BookTyped, PTL

(* On every book an update leaves behind, CalculateAsksVolSumMap and       *)
(* CalculateBidsVolSumMap, GetAsks and GetBids agree with SumVolume.       *)
THEOREM BookQueriesAgree == Spec => []QueriesAgree
<1>1. Typed => QueriesAgree
    <2> SUFFICES ASSUME Typed, NEW s \in Sides
                 PROVE  /\ MapAgrees(On(s))
                        /\ \A depth \in 1 .. MaxPrice + 1 : LevelsAgree(On(s), depth)
        BY Zenon DEF QueriesAgree
    <2>1. Side(On(s))
        BY BookSides, Zenon
    <2>2. \A depth \in 1 .. MaxPrice + 1 : depth \in Nat \ {0}
        BY OrderBookAssumption
    <2>3. MapAgrees(On(s))
        BY <2>1, SideMapAgrees, Zenon
    <2> QED BY <2>1, <2>2, <2>3, SideLevelsAgree, Zenon
<1> QED BY <1>1, BookTyped, PTL
=============================================================================
