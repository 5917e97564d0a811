----------------------- MODULE SubscriberTables_proofs -----------------------
(***************************************************************************)
(* The tables of SubscriberTables overrun an array only when it is full,   *)
(* answer only with stored entries, and keep every value with the name it  *)
(* was given for.                                                          *)
(* Every edit stores a name once or takes one of its entries: the rows of  *)
(* the hash table have as many indices as the array has entries of them, a *)
(* file that was written can be loaded, and the table implements           *)
(* StoredNames.  All of it for any number of names, rows and slots.        *)
(***************************************************************************)
EXTENDS SubscriberTables, FiniteSetTheorems, SequenceTheorems, TLAPS

-----------------------------------------------------------------------------
(* What a table is, whatever requests were made.                           *)

Slots == 0..(TableSize - 1)
Places == 0..(ValueSize - 1)
TableType == [slot : [Slots -> Entry], size : 0..TableSize,
              chain : [Buckets -> Seq(Slots)], fault : Faults \cup {"none"}]

\* Values belong to the name they are stored under, and end where their
\* number says.
EntryOK(k, e) ==
    /\ k # "RejectCall" => e.n = 0
    /\ k \in {"Lettering", "CallForwarding"} /\ e.src # NoName
          => <<e.src, e.dst[0]>> \in Asked \/ e.dst[0] = Cut
    /\ k = "RejectCall" => \A j \in Places :
          /\ j >= e.n => e.dst[j] = NoName
          /\ e.dst[j] # NoName => <<e.src, e.dst[j]>> \in Asked

IsClear(e) == e.src = NoName /\ \A j \in Places : e.dst[j] = NoName

TableOK(k, t) ==
    /\ t \in TableType
    /\ \A b \in Buckets : Len(t.chain[b]) <= ChainSize
    /\ \A i \in Slots : EntryOK(k, t.slot[i])
    /\ \A i \in Slots : i >= t.size => IsClear(t.slot[i])

FileOK == file \in Seq(Entry) /\ \A m \in DOMAIN file : EntryOK(kind, file[m])
IInv ==
    /\ kind \in Kinds /\ phase \in {"down", "loading", "up", "saving"}
    /\ TableOK(kind, table)
    /\ FileOK

-----------------------------------------------------------------------------
(* What the helpers return.                                                *)

\* A finite set of integers has a least element.  If each element had a
\* smaller one, their numbers of smaller elements would be distinct, and one
\* fewer than the elements.
LEMMA MinIsLeast ==
    ASSUME NEW S \in SUBSET Int, IsFiniteSet(S), S # {}
    PROVE  Min(S) \in S /\ \A y \in S : Min(S) <= y
<1> DEFINE Below(x) == {y \in S : y < x}
           rank == [x \in S |-> Cardinality(Below(x))]
           n == Cardinality(S)
<1>1. n \in Nat /\ n # 0
  BY FS_CardinalityType, FS_EmptySet
<1>2. ASSUME NEW x \in S PROVE IsFiniteSet(Below(x)) /\ Cardinality(Below(x)) \in Nat
  BY FS_Subset, FS_CardinalityType
<1>3. ASSUME NEW x \in S, Below(x) = {} PROVE \A y \in S : x <= y
  <2> SUFFICES ASSUME NEW y \in S PROVE x <= y
    OBVIOUS
  <2>1. y \notin Below(x)
    BY <1>3
  <2> QED
    BY <2>1
<1>4. ASSUME \A x \in S : Below(x) # {} PROVE FALSE
  <2>1. ASSUME NEW x \in S PROVE Cardinality(Below(x)) \in 1..(n - 1)
    <3>1. Cardinality(Below(x)) # 0
      BY <1>2, <1>4, FS_EmptySet
    <3>2. Below(x) \subseteq S /\ x \notin Below(x)
      OBVIOUS
    <3>3. Cardinality(Below(x)) <= n /\ Cardinality(Below(x)) # n
      BY <3>2, FS_Subset
    <3> QED
      BY <1>1, <1>2, <3>1, <3>3
  <2>2. rank \in [S -> 1..(n - 1)]
    BY <2>1
  <2>3. IsFiniteSet(1..(n - 1)) /\ Cardinality(1..(n - 1)) < n
    <3> DEFINE m == n - 1
    <3>1. m \in Int /\ m = n - 1 /\ n \in Nat /\ n # 0
      BY <1>1
    <3> HIDE DEF m, n
    <3>2. IsFiniteSet(1..m) /\ Cardinality(1..m) = IF 1 > m THEN 0 ELSE m - 1 + 1
      BY <3>1, FS_Interval
    <3> QED
      BY <3>1, <3>2
  <2>4. PICK u \in S, v \in S : u # v /\ rank[u] = rank[v]
    <3> DEFINE T == 1..(n - 1)
               f == rank
    <3>1. f \in [S -> T] /\ IsFiniteSet(T) /\ Cardinality(T) < Cardinality(S)
      BY <2>2, <2>3
    <3> HIDE DEF T, f
    <3>2. \E x, y \in S : x # y /\ f[x] = f[y]
      BY <3>1, FS_PigeonHole
    <3>3. rank = f
      BY DEF f
    <3> HIDE DEF rank
    <3> QED
      BY <3>2, <3>3
  <2>5. ASSUME NEW a \in S, NEW b \in S, a < b PROVE rank[a] # rank[b]
    <3>1. Below(a) \subseteq Below(b) /\ a \in Below(b) /\ a \notin Below(a)
      <4>1. a \in Int /\ b \in Int /\ a < b /\ ~(a < a)
        BY <2>5
      <4>2. \A y \in S : y < a => y < b
        BY <4>1
      <4> QED
        BY <4>1, <4>2
    <3>2. Cardinality(Below(b)) # Cardinality(Below(a))
      BY <1>2, <3>1, FS_Subset
    <3>3. rank[a] = Cardinality(Below(a)) /\ rank[b] = Cardinality(Below(b))
      OBVIOUS
    <3> HIDE DEF rank, Below
    <3> QED
      BY <3>2, <3>3
  <2>6. u < v \/ v < u
    BY <2>4
  <2> QED
    BY <2>4, <2>5, <2>6
<1>5. \E x \in S : \A y \in S : x <= y
  BY <1>3, <1>4
<1> QED
  BY <1>5 DEF Min

\* A search answers FAIL, or the index of a stored entry of that name.
LEMMA SearchFinds ==
    ASSUME NEW k, NEW t, TableOK(k, t), NEW name \in Names \cup {NoName},
           User_Search_List(t, name) # FAIL
    PROVE  /\ name \in Names /\ Min(Hits(t, name)) \in DOMAIN t.chain[BucketOf[name]]
           /\ User_Search_List(t, name) \in 0..(t.size - 1)
           /\ t.slot[User_Search_List(t, name)].src = name
<1>1. name # NoName /\ Hits(t, name) # {}
      /\ User_Search_List(t, name) = t.chain[BucketOf[name]][Min(Hits(t, name))]
  BY DEF User_Search_List
<1>2. name \in Names /\ BucketOf[name] \in Buckets /\ name # NoName
  BY <1>1, TablesAssumption
<1> DEFINE chain == t.chain[BucketOf[name]]
<1>3. chain \in Seq(Slots)
  BY <1>2 DEF TableOK, TableType
<1>4. DOMAIN chain = 1..Len(chain) /\ Len(chain) \in Nat
  BY <1>3
<1>5. Hits(t, name) \subseteq 1..Len(chain)
  BY <1>4 DEF Hits
<1>6. IsFiniteSet(Hits(t, name)) /\ Hits(t, name) \in SUBSET Int
  <2>1. IsFiniteSet(1..Len(chain)) /\ 1..Len(chain) \subseteq Int
    BY <1>4, FS_Interval
  <2> QED
    BY <1>5, <2>1, FS_Subset
<1>7. Min(Hits(t, name)) \in Hits(t, name)
  BY <1>1, <1>6, MinIsLeast
<1>8. /\ Min(Hits(t, name)) \in DOMAIN chain
      /\ t.slot[chain[Min(Hits(t, name))]].src = name
  BY <1>7 DEF Hits
<1>9. chain[Min(Hits(t, name))] \in Slots
  BY <1>3, <1>8
<1>10. ~(chain[Min(Hits(t, name))] >= t.size)
  BY <1>2, <1>8, <1>9 DEF TableOK, IsClear
<1>11. t.size \in Int
  BY DEF TableOK, TableType
<1> QED
  BY <1>1, <1>2, <1>8, <1>9, <1>10, <1>11 DEF Slots

\* What a request adds to the entry it is stored in.
Fits(k, key, v, values) ==
    \/ k = "User" /\ values = 0
    \/ k \in {"Lettering", "CallForwarding"} /\ values = 0 /\ <<key, v>> \in Asked
    \/ k = "RejectCall" /\ values = 1 /\ <<key, v>> \in Asked

\* An access outside an array ends the edit, and the table is what it was.
LEMMA FaultyIsOK ==
    ASSUME NEW k, NEW t, TableOK(k, t), NEW fault \in Faults
    PROVE  TableOK(k, Faulty(t, fault))
<1>1. Faulty(t, fault) \in TableType
  BY DEF TableOK, TableType, Faulty
<1>2. /\ Faulty(t, fault).slot = t.slot /\ Faulty(t, fault).size = t.size
      /\ Faulty(t, fault).chain = t.chain
  BY DEF TableOK, TableType, Faulty
<1> QED
  BY <1>1, <1>2 DEF TableOK

\* The new entry is stored in the first slot behind the others, whose values
\* are empty, and its index at the end of the chain.
LEMMA AppendedIsOK ==
    ASSUME NEW k, NEW t, TableOK(k, t), NEW key \in Names, NEW v \in Value,
           NEW values \in {0, 1}, Fits(k, key, v, values)
    PROVE  TableOK(k, Appended(t, key, v, values))
<1> DEFINE b == BucketOf[key]
           i == t.size
           e == t.slot[i]
           new == [src |-> key, dst |-> [e.dst EXCEPT ![e.n] = v], n |-> e.n + values]
<1>1. CASE t.size = TableSize \/ Len(t.chain[b]) = ChainSize \/ e.n = ValueSize
  BY <1>1, FaultyIsOK DEF Appended, Faults
<1>2. CASE ~(t.size = TableSize \/ Len(t.chain[b]) = ChainSize \/ e.n = ValueSize)
  <2>1. Appended(t, key, v, values) =
           [t EXCEPT !.slot[i] = new, !.size = @ + 1, !.chain[b] = Append(@, i)]
    BY <1>2 DEF Appended
  <2>2. t \in TableType /\ t.size \in 0..TableSize /\ TableSize \in Nat /\ ValueSize \in Nat \ {0}
        /\ t.slot \in [Slots -> Entry]
    BY TablesAssumption DEF TableOK, TableType
  <2>3. i \in Slots /\ b \in Buckets
    BY <1>2, <2>2, TablesAssumption DEF Slots
  <2>4. e \in Entry /\ EntryOK(k, e) /\ IsClear(e)
    BY <2>2, <2>3 DEF TableOK
  <2>5. e.n \in Places /\ e.dst \in [Places -> Value] /\ e.n \in Nat /\ e.n + values \in 0..ValueSize
    BY <1>2, <2>2, <2>4 DEF Entry, Places
  <2>6. new \in Entry
    BY <2>5 DEF Entry, Places
  <2>7. EntryOK(k, new)
    <3>1. new.src = key /\ new.n = e.n + values
          /\ \A j \in Places : new.dst[j] = IF j = e.n THEN v ELSE NoName
      BY <2>4, <2>5 DEF IsClear
    <3>2. CASE k = "RejectCall"
      <4>1. values = 1 /\ <<key, v>> \in Asked
        BY <3>2 DEF Fits
      <4>2. \A j \in Places : (j >= e.n + 1 => j # e.n) /\ j \in Int
        BY <2>5 DEF Places
      <4> HIDE DEF new
      <4> QED
        BY <3>1, <3>2, <4>1, <4>2 DEF EntryOK
    <3>3. CASE k # "RejectCall"
      <4>1. values = 0 /\ e.n = 0 /\ (k \in {"Lettering", "CallForwarding"} => <<key, v>> \in Asked)
        BY <2>4, <3>3 DEF Fits, EntryOK
      <4>2. new.n = 0 /\ new.dst[0] = v
        BY <2>5, <3>1, <4>1
      <4> HIDE DEF new
      <4> QED
        BY <3>1, <3>3, <4>1, <4>2 DEF EntryOK
    <3> QED
      BY <3>2, <3>3
  <2> HIDE DEF new, e, i, b
  <2>8. i = t.size
    BY DEF i
  <2> DEFINE a == Appended(t, key, v, values)
  <2>9. t.chain \in [Buckets -> Seq(Slots)] /\ Len(t.chain[b]) < ChainSize
        /\ t.fault \in Faults \cup {"none"} /\ ChainSize \in Nat
    BY <1>2, <2>2, <2>3, TablesAssumption DEF TableOK, TableType
  <2>10. /\ a.slot = [t.slot EXCEPT ![i] = new] /\ a.size = t.size + 1
         /\ a.chain = [t.chain EXCEPT ![b] = Append(@, i)] /\ a.fault = t.fault
         /\ a = [slot |-> a.slot, size |-> a.size, chain |-> a.chain, fault |-> a.fault]
    BY <2>1, <2>2 DEF TableType
  <2>18. t.size # TableSize
    BY <1>2
  <2> HIDE DEF a
  <2>19. a.slot \in [Slots -> Entry]
    BY <2>2, <2>6, <2>10
  <2>20. a.size \in 0..TableSize
    BY <2>2, <2>10, <2>18
  <2>11. a.slot \in [Slots -> Entry] /\ a.size \in 0..TableSize
    BY <2>19, <2>20
  <2>12. a.chain \in [Buckets -> Seq(Slots)]
    BY <2>3, <2>9, <2>10
  <2>13. \A c \in Buckets : Len(a.chain[c]) <= ChainSize
    <3>1. Len(Append(t.chain[b], i)) = Len(t.chain[b]) + 1 /\ Len(t.chain[b]) \in Nat
      BY <2>3, <2>9
    <3> QED
      BY <2>3, <2>9, <2>10, <3>1 DEF TableOK
  <2>14. a \in TableType
    <3> HIDE DEF a
    <3> QED
      BY <2>9, <2>10, <2>11, <2>12 DEF TableType
  <2>15. \A m \in Slots : EntryOK(k, a.slot[m])
    BY <2>2, <2>7, <2>10 DEF TableOK
  <2>16. \A m \in Slots : m >= a.size => IsClear(a.slot[m])
    <3>1. \A m \in Slots : m >= t.size + 1 => m >= t.size /\ m # i
      BY <2>2, <2>8 DEF Slots
    <3> QED
      BY <2>2, <2>10, <3>1 DEF TableOK
  <2> HIDE DEF a
  <2>17. TableOK(k, a)
    BY <2>13, <2>14, <2>15, <2>16 DEF TableOK
  <2> QED
    BY <2>17 DEF a
<1> QED
  BY <1>1, <1>2

\* Closing the gap of a name that was found keeps the table, if the slots are
\* moved as EntryOK wants them.
LEMMA RemovedIsOK ==
    ASSUME NEW k, NEW t, TableOK(k, t), NEW name \in Names \cup {NoName},
           User_Search_List(t, name) # FAIL,
           NEW slots \in [Slots -> Entry],
           \A m \in Slots : EntryOK(k, slots[m]),
           \A m \in Slots : m >= t.size - 1 => IsClear(slots[m])
    PROVE  TableOK(k, Removed(t, name, slots))
<1> DEFINE p == Min(Hits(t, name))
           b == BucketOf[name]
           c == t.chain[b]
           shorter == [j \in 1..(Len(c) - 1) |-> IF j < p THEN c[j] ELSE c[j + 1]]
           r == Removed(t, name, slots)
<1>1. /\ name \in Names /\ p \in DOMAIN c
      /\ User_Search_List(t, name) \in 0..(t.size - 1)
  BY SearchFinds
<1>2. b \in Buckets /\ ChainSize \in Nat
  BY <1>1, TablesAssumption
<1>3. /\ t \in TableType /\ t.chain \in [Buckets -> Seq(Slots)]
      /\ t.size \in 0..TableSize /\ TableSize \in Nat
  BY TablesAssumption DEF TableOK, TableType
<1>4. t.size - 1 \in 0..TableSize
  BY <1>1, <1>3
<1>5. c \in Seq(Slots) /\ Len(c) \in Nat /\ p \in 1..Len(c) /\ Len(c) <= ChainSize
  BY <1>1, <1>2, <1>3 DEF TableOK
<1>6. shorter \in Seq(Slots) /\ Len(shorter) = Len(c) - 1
  <2>1. \A j \in 1..(Len(c) - 1) : j \in 1..Len(c) /\ j + 1 \in 1..Len(c)
    BY <1>5
  <2>2. \A j \in 1..Len(c) : c[j] \in Slots
    BY <1>5
  <2> HIDE DEF c
  <2>3. shorter \in [1..(Len(c) - 1) -> Slots]
    BY <2>1, <2>2
  <2>4. Len(c) - 1 \in Nat
    BY <1>5
  <2> QED
    BY <2>3, <2>4
<1>7. Unchained(t, name) = [t.chain EXCEPT ![b] = shorter]
  BY DEF Unchained
<1> HIDE DEF shorter, p
<1>8. Unchained(t, name) \in [Buckets -> Seq(Slots)]
  BY <1>3, <1>6, <1>7
<1>9. \A d \in Buckets : Len(Unchained(t, name)[d]) <= ChainSize
  BY <1>2, <1>3, <1>5, <1>6, <1>7 DEF TableOK
<1> DEFINE u == Unchained(t, name)
<1>13. r = [t EXCEPT !.slot = slots, !.size = @ - 1, !.chain = u]
  BY DEF Removed
<1> HIDE DEF u, r
<1>14. /\ t = [slot |-> t.slot, size |-> t.size, chain |-> t.chain, fault |-> t.fault]
       /\ t.fault \in Faults \cup {"none"}
  BY <1>3 DEF TableType
<1>15. r = [slot |-> slots, size |-> t.size - 1, chain |-> u, fault |-> t.fault]
  BY <1>13, <1>14
<1>10. /\ r.slot = slots /\ r.size = t.size - 1 /\ r.chain = Unchained(t, name)
       /\ r.fault = t.fault /\ t.fault \in Faults \cup {"none"}
       /\ r = [slot |-> r.slot, size |-> r.size, chain |-> r.chain, fault |-> r.fault]
  BY <1>14, <1>15 DEF u
<1>11. r \in TableType
  BY <1>4, <1>8, <1>10 DEF TableType
<1>12. TableOK(k, r)
  BY <1>9, <1>10, <1>11 DEF TableOK
<1> QED
  BY <1>12 DEF r

\* The cleared entry of an unused slot is an entry, of any table.
LEMMA NoEntryIsOK ==
    ASSUME NEW k
    PROVE  NoEntry \in Entry /\ EntryOK(k, NoEntry) /\ IsClear(NoEntry)
<1>1. ValueSize \in Nat \ {0} /\ NoName \in Value
  BY TablesAssumption DEF Value
<1>2. /\ NoEntry.src = NoName /\ NoEntry.n = 0
      /\ \A j \in Places : NoEntry.dst[j] = NoName
  BY DEF NoEntry, Places
<1>3. NoEntry \in Entry
  BY <1>1 DEF NoEntry, Entry
<1>4. EntryOK(k, NoEntry)
  BY <1>2 DEF EntryOK
<1> QED
  BY <1>2, <1>3, <1>4 DEF IsClear

\* The shift of User.c and Lettering.c leaves the slots a deletion asks for.
LEMMA ShiftedClearIsOK ==
    ASSUME NEW k, NEW t, TableOK(k, t), NEW d \in 0..(t.size - 1)
    PROVE  /\ ShiftedClear(t, d) \in [Slots -> Entry]
           /\ \A m \in Slots : EntryOK(k, ShiftedClear(t, d)[m])
           /\ \A m \in Slots : m >= t.size - 1 => IsClear(ShiftedClear(t, d)[m])
<1> DEFINE s == ShiftedClear(t, d)
<1>1. t.slot \in [Slots -> Entry] /\ t.size \in 0..TableSize /\ TableSize \in Nat
  BY TablesAssumption DEF TableOK, TableType
<1>2. s = [m \in Slots |-> IF m < d \/ m >= t.size THEN t.slot[m]
                           ELSE IF m = t.size - 1 THEN NoEntry ELSE t.slot[m + 1]]
  BY <1>1 DEF ShiftedClear
<1> HIDE DEF s
<1>3. ASSUME NEW m \in Slots, ~(m < d \/ m >= t.size), m # t.size - 1
      PROVE  m + 1 \in Slots
  BY <1>1, <1>3 DEF Slots
<1>4. ASSUME NEW m \in Slots
      PROVE  s[m] \in Entry /\ EntryOK(k, s[m])
  <2>1. CASE m < d \/ m >= t.size
    BY <1>1, <1>2, <2>1 DEF TableOK
  <2>2. CASE ~(m < d \/ m >= t.size) /\ m = t.size - 1
    BY <1>2, <2>2, NoEntryIsOK
  <2>3. CASE ~(m < d \/ m >= t.size) /\ m # t.size - 1
    BY <1>1, <1>2, <1>3, <2>3 DEF TableOK
  <2> QED
    BY <2>1, <2>2, <2>3
<1>5. ASSUME NEW m \in Slots, m >= t.size - 1
      PROVE  IsClear(s[m])
  <2>1. CASE m >= t.size
    BY <1>2, <2>1 DEF TableOK
  <2>2. CASE ~(m >= t.size)
    <3>1. m = t.size - 1 /\ ~(m < d)
      BY <1>1, <1>5, <2>2 DEF Slots
    <3> QED
      BY <1>2, <2>2, <3>1, NoEntryIsOK
  <2> QED
    BY <2>1, <2>2
<1>6. s \in [Slots -> Entry]
  BY <1>2, <1>4
<1> QED
  BY <1>4, <1>5, <1>6 DEF s

\* So does the shift of CallForwarding.c, whose last slot takes the unused one
\* behind it.
LEMMA ShiftedIsOK ==
    ASSUME NEW k, NEW t, TableOK(k, t), NEW d \in 0..(t.size - 1), t.size # TableSize
    PROVE  /\ Shifted(t, d) \in [Slots -> Entry]
           /\ \A m \in Slots : EntryOK(k, Shifted(t, d)[m])
           /\ \A m \in Slots : m >= t.size - 1 => IsClear(Shifted(t, d)[m])
<1> DEFINE s == Shifted(t, d)
<1>1. t.slot \in [Slots -> Entry] /\ t.size \in 0..TableSize /\ TableSize \in Nat
  BY TablesAssumption DEF TableOK, TableType
<1>2. s = [m \in Slots |-> IF m < d \/ m >= t.size THEN t.slot[m]
                           ELSE IF m = t.size - 1 THEN Beyond(t) ELSE t.slot[m + 1]]
  BY <1>1 DEF Shifted
<1>7. t.size \in Slots
  BY <1>1 DEF Slots
<1>8. Beyond(t) \in Entry /\ EntryOK(k, Beyond(t)) /\ IsClear(Beyond(t))
  BY <1>1, <1>7 DEF Beyond, TableOK
<1> HIDE DEF s
<1>3. ASSUME NEW m \in Slots, ~(m < d \/ m >= t.size), m # t.size - 1
      PROVE  m + 1 \in Slots
  BY <1>1, <1>3 DEF Slots
<1>4. ASSUME NEW m \in Slots
      PROVE  s[m] \in Entry /\ EntryOK(k, s[m])
  <2>1. CASE m < d \/ m >= t.size
    BY <1>1, <1>2, <2>1 DEF TableOK
  <2>2. CASE ~(m < d \/ m >= t.size) /\ m = t.size - 1
    BY <1>2, <1>8, <2>2
  <2>3. CASE ~(m < d \/ m >= t.size) /\ m # t.size - 1
    BY <1>1, <1>2, <1>3, <2>3 DEF TableOK
  <2> QED
    BY <2>1, <2>2, <2>3
<1>5. ASSUME NEW m \in Slots, m >= t.size - 1
      PROVE  IsClear(s[m])
  <2>1. CASE m >= t.size
    BY <1>2, <2>1 DEF TableOK
  <2>2. CASE ~(m >= t.size)
    <3>1. m = t.size - 1 /\ ~(m < d)
      BY <1>1, <1>5, <2>2 DEF Slots
    <3> QED
      BY <1>2, <1>8, <2>2, <3>1
  <2> QED
    BY <2>1, <2>2
<1>6. s \in [Slots -> Entry]
  BY <1>2, <1>4
<1> QED
  BY <1>4, <1>5, <1>6 DEF s

\* In RejectCall.c an entry takes the name and the values of the next one, as
\* many as it had itself: they are values of that name, and none is behind the
\* number that stayed.
LEMMA OverwrittenIsOK ==
    ASSUME NEW e \in Entry, NEW next \in Entry, EntryOK("RejectCall", e),
           EntryOK("RejectCall", next),
           NEW w, w = [e EXCEPT !.src = next.src,
                         !.dst = [j \in DOMAIN @ |-> IF j < e.n THEN next.dst[j] ELSE @[j]]]
    PROVE  w \in Entry /\ EntryOK("RejectCall", w) /\ (IsClear(next) => IsClear(w))
<1>1. /\ e.dst \in [Places -> Value] /\ e.n \in 0..ValueSize /\ ValueSize \in Nat
      /\ next.dst \in [Places -> Value] /\ next.src \in Names \cup {NoName}
  BY TablesAssumption DEF Entry, Places
<1>2. /\ e = [src |-> e.src, dst |-> e.dst, n |-> e.n]
  BY DEF Entry
<1> DEFINE moved == [j \in Places |-> IF j < e.n THEN next.dst[j] ELSE e.dst[j]]
<1>3. DOMAIN e.dst = Places
  BY <1>1
<1>4. w = [e EXCEPT !.src = next.src, !.dst = moved]
  BY <1>2, <1>3
<1>5. moved \in [Places -> Value]
  BY <1>1
<1>6. \A j \in Places : moved[j] = IF j < e.n THEN next.dst[j] ELSE e.dst[j]
  OBVIOUS
<1> HIDE DEF moved
<1>7. w.src = next.src /\ w.dst = moved /\ w.n = e.n /\ w = [src |-> w.src, dst |-> w.dst, n |-> w.n]
  BY <1>2, <1>4
<1>8. w \in Entry
  BY <1>1, <1>5, <1>7 DEF Entry, Places
<1>9. \A j \in Places : j \in Int /\ (j < e.n \/ j >= e.n)
  BY <1>1 DEF Places
<1>10. EntryOK("RejectCall", w)
  <2> SUFFICES ASSUME NEW j \in Places
               PROVE  /\ j >= w.n => w.dst[j] = NoName
                      /\ w.dst[j] # NoName => <<w.src, w.dst[j]>> \in Asked
    BY DEF EntryOK
  <2>1. CASE j < e.n
    <3>1. w.dst[j] = next.dst[j] /\ ~(j >= w.n)
      BY <1>1, <1>6, <1>7, <2>1 DEF Places
    <3> QED
      BY <1>7, <3>1 DEF EntryOK
  <2>2. CASE ~(j < e.n)
    <3>1. w.dst[j] = e.dst[j] /\ j >= e.n
      BY <1>6, <1>7, <1>9, <2>2
    <3> QED
      BY <3>1 DEF EntryOK
  <2> QED
    BY <2>1, <2>2
<1>11. ASSUME IsClear(next) PROVE IsClear(w)
  <2>1. \A j \in Places : w.dst[j] = NoName
    BY <1>6, <1>7, <1>9, <1>11 DEF IsClear, EntryOK
  <2> QED
    BY <1>7, <1>11, <2>1 DEF IsClear
<1> QED
  BY <1>8, <1>10, <1>11

\* So the shift of RejectCall.c too leaves the slots a deletion asks for.
LEMMA ShiftedValuesIsOK ==
    ASSUME NEW t, TableOK("RejectCall", t), NEW d \in 0..(t.size - 1), t.size # TableSize
    PROVE  /\ ShiftedValues(t, d) \in [Slots -> Entry]
           /\ \A m \in Slots : EntryOK("RejectCall", ShiftedValues(t, d)[m])
           /\ \A m \in Slots : m >= t.size - 1 => IsClear(ShiftedValues(t, d)[m])
<1> DEFINE s == ShiftedValues(t, d)
           next(m) == IF m = t.size - 1 THEN Beyond(t) ELSE t.slot[m + 1]
           over(e, n) == [e EXCEPT !.src = n.src,
               !.dst = [j \in DOMAIN @ |-> IF j < e.n THEN n.dst[j] ELSE @[j]]]
<1>1. t.slot \in [Slots -> Entry] /\ t.size \in 0..TableSize /\ TableSize \in Nat
  BY TablesAssumption DEF TableOK, TableType
<1>2. s = [m \in Slots |-> IF m < d \/ m >= t.size THEN t.slot[m]
                           ELSE over(t.slot[m], next(m))]
  BY <1>1 DEF ShiftedValues
<1>3. t.size \in Slots
  BY <1>1 DEF Slots
<1>4. Beyond(t) \in Entry /\ EntryOK("RejectCall", Beyond(t)) /\ IsClear(Beyond(t))
  BY <1>1, <1>3 DEF Beyond, TableOK
<1>5. ASSUME NEW m \in Slots, ~(m < d \/ m >= t.size)
      PROVE  /\ next(m) \in Entry /\ EntryOK("RejectCall", next(m))
             /\ m = t.size - 1 => IsClear(next(m))
  <2>1. CASE m = t.size - 1
    BY <1>4, <2>1
  <2>2. CASE m # t.size - 1
    <3>1. m + 1 \in Slots
      BY <1>1, <1>5, <2>2 DEF Slots
    <3> QED
      BY <1>1, <2>2, <3>1 DEF TableOK
  <2> QED
    BY <2>1, <2>2
<1>6. ASSUME NEW m \in Slots, ~(m < d \/ m >= t.size)
      PROVE  /\ over(t.slot[m], next(m)) \in Entry
             /\ EntryOK("RejectCall", over(t.slot[m], next(m)))
             /\ IsClear(next(m)) => IsClear(over(t.slot[m], next(m)))
  <2>1. t.slot[m] \in Entry /\ EntryOK("RejectCall", t.slot[m])
    BY <1>1 DEF TableOK
  <2> DEFINE e == t.slot[m]
             n == next(m)
             w == over(e, n)
  <2>2. n \in Entry /\ EntryOK("RejectCall", n)
    BY <1>5, <1>6
  <2>3. w = [e EXCEPT !.src = n.src,
               !.dst = [j \in DOMAIN @ |-> IF j < e.n THEN n.dst[j] ELSE @[j]]]
    OBVIOUS
  <2>4. e \in Entry /\ EntryOK("RejectCall", e)
    BY <2>1
  <2> HIDE DEF e, n, w
  <2>5. w \in Entry /\ EntryOK("RejectCall", w) /\ (IsClear(n) => IsClear(w))
    BY <2>2, <2>3, <2>4, OverwrittenIsOK
  <2> QED
    BY <2>5 DEF e, n, w
<1> HIDE DEF s, next, over
<1>7. ASSUME NEW m \in Slots
      PROVE  s[m] \in Entry /\ EntryOK("RejectCall", s[m])
  <2>1. CASE m < d \/ m >= t.size
    BY <1>1, <1>2, <2>1 DEF TableOK
  <2>2. CASE ~(m < d \/ m >= t.size)
    BY <1>2, <1>6, <2>2
  <2> QED
    BY <2>1, <2>2
<1>8. ASSUME NEW m \in Slots, m >= t.size - 1
      PROVE  IsClear(s[m])
  <2>1. CASE m >= t.size
    BY <1>2, <2>1 DEF TableOK
  <2>2. CASE ~(m >= t.size)
    <3>1. m = t.size - 1 /\ ~(m < d)
      BY <1>1, <1>8, <2>2 DEF Slots
    <3> QED
      BY <1>2, <1>5, <1>6, <2>2, <3>1
  <2> QED
    BY <2>1, <2>2
<1>9. s \in [Slots -> Entry]
  BY <1>2, <1>7
<1> QED
  BY <1>7, <1>8, <1>9 DEF s

\* Taking one value out of an entry leaves values of the same name.
LEMMA WithoutValueIsOK ==
    ASSUME NEW e \in Entry, EntryOK("RejectCall", e), NEW d \in 0..(e.n - 1)
    PROVE  /\ WithoutValue(e, d) \in Entry /\ EntryOK("RejectCall", WithoutValue(e, d))
           /\ WithoutValue(e, d).src = e.src
<1> DEFINE w == WithoutValue(e, d)
           kept == [j \in Places |-> IF j < d \/ j >= e.n THEN e.dst[j]
                                     ELSE IF j = e.n - 1 THEN NoName ELSE e.dst[j + 1]]
<1>1. /\ e.dst \in [Places -> Value] /\ e.n \in 0..ValueSize /\ ValueSize \in Nat
      /\ e.src \in Names \cup {NoName} /\ DOMAIN e.dst = Places
      /\ e = [src |-> e.src, dst |-> e.dst, n |-> e.n]
  BY TablesAssumption DEF Entry, Places
<1>2. w = [e EXCEPT !.n = @ - 1, !.dst = kept]
  BY <1>1 DEF WithoutValue
<1>3. ASSUME NEW j \in Places
      PROVE  /\ j \in Int
             /\ ~(j < d \/ j >= e.n) /\ j # e.n - 1 => j + 1 \in Places
             /\ j >= e.n - 1 => j >= e.n \/ (j = e.n - 1 /\ ~(j < d))
             /\ j < d => ~(j >= e.n)
  BY <1>1 DEF Places
<1>4. NoName \in Value
  BY DEF Value
<1>5. kept \in [Places -> Value]
  BY <1>1, <1>3, <1>4
<1>6. \A j \in Places : kept[j] = IF j < d \/ j >= e.n THEN e.dst[j]
                        ELSE IF j = e.n - 1 THEN NoName ELSE e.dst[j + 1]
  OBVIOUS
<1> HIDE DEF w, kept
<1>7. w = [src |-> e.src, dst |-> kept, n |-> e.n - 1]
  BY <1>1, <1>2
<1>8. e.n - 1 \in 0..ValueSize
  BY <1>1
<1>9. w \in Entry
  BY <1>1, <1>5, <1>7, <1>8 DEF Entry, Places
<1>10. w.src = e.src /\ w.dst = kept /\ w.n = e.n - 1
  BY <1>7
<1>11. EntryOK("RejectCall", w)
  <2> SUFFICES ASSUME NEW j \in Places
               PROVE  /\ j >= w.n => w.dst[j] = NoName
                      /\ w.dst[j] # NoName => <<w.src, w.dst[j]>> \in Asked
    BY DEF EntryOK
  <2>1. CASE j < d \/ j >= e.n
    <3>1. w.dst[j] = e.dst[j] /\ (j >= w.n => j >= e.n)
      <4>1. w.dst[j] = e.dst[j]
        BY <1>6, <1>10, <2>1
      <4>2. j >= w.n => j >= e.n
        BY <1>1, <1>3, <1>10, <2>1
      <4> QED
        BY <4>1, <4>2
    <3> QED
      BY <1>10, <3>1 DEF EntryOK
  <2>2. CASE ~(j < d \/ j >= e.n) /\ j = e.n - 1
    BY <1>6, <1>10, <2>2
  <2>3. CASE ~(j < d \/ j >= e.n) /\ j # e.n - 1
    <3>1. w.dst[j] = e.dst[j + 1] /\ j + 1 \in Places
      BY <1>3, <1>6, <1>10, <2>3
    <3>2. ~(j >= w.n)
      BY <1>3, <1>10, <2>3
    <3> QED
      BY <1>10, <3>1, <3>2 DEF EntryOK
  <2> QED
    BY <2>1, <2>2, <2>3
<1> QED
  BY <1>9, <1>10, <1>11 DEF w

-----------------------------------------------------------------------------
(* The edits of the four files.                                            *)

\* Deleting a name from the users or the letterings keeps the table.
LEMMA ClearedDeletionIsOK ==
    ASSUME NEW k, NEW t, TableOK(k, t), NEW name \in Names \cup {NoName}
    PROVE  TableOK(k, User_Del_List(t, name)) /\ TableOK(k, Lettering_Del_List(t, name))
<1> DEFINE i == User_Search_List(t, name)
<1>1. CASE i = FAIL
  BY <1>1 DEF User_Del_List, Lettering_Del_List, Lettering_Search_List
<1>2. CASE i # FAIL
  <2>1. i \in 0..(t.size - 1)
    BY <1>2, SearchFinds
  <2>2. TableOK(k, Removed(t, name, ShiftedClear(t, i)))
    <3> HIDE DEF i
    <3> QED
      BY <1>2, <2>1, ShiftedClearIsOK, RemovedIsOK DEF i
  <2> QED
    BY <1>2, <2>2 DEF User_Del_List, Lettering_Del_List, Lettering_Search_List
<1> QED
  BY <1>1, <1>2

\* Adding a user keeps the table.
LEMMA UserAdditionIsOK ==
    ASSUME NEW t, TableOK("User", t), NEW name \in Names \cup {NoName}
    PROVE  TableOK("User", User_Add_List(t, name))
<1>1. CASE name = NoName \/ User_Search_List(t, name) # FAIL
  BY <1>1 DEF User_Add_List
<1>2. CASE ~(name = NoName \/ User_Search_List(t, name) # FAIL)
  <2>1. name \in Names /\ NoName \in Value /\ Fits("User", name, NoName, 0)
    BY <1>2 DEF Value, Fits
  <2>2. TableOK("User", Appended(t, name, NoName, 0))
    BY <2>1, AppendedIsOK
  <2> QED
    BY <1>2, <2>2 DEF User_Add_List
<1> QED
  BY <1>1, <1>2

\* What a client asks for is a name and a value of it, or two empty words.
LEMMA AskIsNamed ==
    ASSUME NEW ask \in Asked \cup {<<NoName, NoName>>}
    PROVE  /\ ask[1] \in Names \cup {NoName} /\ ask[2] \in Values \cup {NoName}
           /\ NoName \notin {ask[1], ask[2]} =>
                 /\ ask[1] \in Names /\ ask[2] \in Value
                 /\ <<ask[1], ask[2]>> \in Asked
<1>1. CASE ask \in Asked
  <2>1. PICK n \in Names, v \in Values : ask = <<n, v>>
    BY <1>1, TablesAssumption
  <2> QED
    BY <1>1, <2>1 DEF Value
<1>2. CASE ask = <<NoName, NoName>>
  BY <1>2
<1> QED
  BY <1>1, <1>2

\* Adding a lettering keeps the table.
LEMMA LetteringAdditionIsOK ==
    ASSUME NEW t, TableOK("Lettering", t), NEW ask \in Asked \cup {<<NoName, NoName>>}
    PROVE  TableOK("Lettering", Lettering_Add_List(t, ask[1], ask[2]))
<1>1. CASE NoName \in {ask[1], ask[2]}
  BY <1>1 DEF Lettering_Add_List
<1>2. CASE NoName \notin {ask[1], ask[2]}
  <2>1. ask[1] \in Names /\ ask[2] \in Value /\ <<ask[1], ask[2]>> \in Asked
    BY <1>2, AskIsNamed
  <2>2. Fits("Lettering", ask[1], ask[2], 0)
    BY <2>1 DEF Fits
  <2>3. TableOK("Lettering", Lettering_Del_List(t, ask[1]))
    BY <2>1, ClearedDeletionIsOK
  <2>4. TableOK("Lettering", Appended(Lettering_Del_List(t, ask[1]), ask[1], ask[2], 0))
    BY <2>1, <2>2, <2>3, AppendedIsOK
  <2> QED
    BY <1>2, <2>4 DEF Lettering_Add_List
<1> QED
  BY <1>1, <1>2

\* Adding and deleting a forwarding keep the table.
LEMMA CallForwardingEditsAreOK ==
    ASSUME NEW t, TableOK("CallForwarding", t)
    PROVE  /\ \A ask \in Asked \cup {<<NoName, NoName>>} :
                 TableOK("CallForwarding", CallForwarding_Add_List(t, ask[1], ask[2]))
           /\ \A name \in Names \cup {NoName} :
                 TableOK("CallForwarding", CallForwarding_Del_List(t, name))
<1>1. ASSUME NEW ask \in Asked \cup {<<NoName, NoName>>}
      PROVE  TableOK("CallForwarding", CallForwarding_Add_List(t, ask[1], ask[2]))
  <2> DEFINE refused == \/ NoName \in {ask[1], ask[2]}
                        \/ CallForwarding_Search_List(t, ask[1]) # FAIL
  <2>1. CASE refused
    BY <2>1 DEF CallForwarding_Add_List
  <2>2. CASE ~refused
    <3>1. ask[1] \in Names /\ ask[2] \in Value /\ <<ask[1], ask[2]>> \in Asked
      BY <2>2, AskIsNamed
    <3>2. Fits("CallForwarding", ask[1], ask[2], 0)
      BY <3>1 DEF Fits
    <3>3. TableOK("CallForwarding", Appended(t, ask[1], ask[2], 0))
      BY <3>1, <3>2, AppendedIsOK
    <3> QED
      BY <2>2, <3>3 DEF CallForwarding_Add_List
  <2> QED
    BY <2>1, <2>2
<1>2. ASSUME NEW name \in Names \cup {NoName}
      PROVE  TableOK("CallForwarding", CallForwarding_Del_List(t, name))
  <2> DEFINE i == User_Search_List(t, name)
  <2>1. CASE i = FAIL
    BY <2>1 DEF CallForwarding_Del_List, CallForwarding_Search_List
  <2>2. CASE i # FAIL /\ t.size = TableSize
    BY <2>2, FaultyIsOK DEF CallForwarding_Del_List, CallForwarding_Search_List, Faults
  <2>3. CASE i # FAIL /\ t.size # TableSize
    <3>1. i \in 0..(t.size - 1)
      BY <2>3, SearchFinds
    <3>2. TableOK("CallForwarding", Removed(t, name, Shifted(t, i)))
      <4> HIDE DEF i
      <4> QED
        BY <2>3, <3>1, ShiftedIsOK, RemovedIsOK DEF i
    <3> QED
      BY <2>3, <3>2 DEF CallForwarding_Del_List, CallForwarding_Search_List
  <2> QED
    BY <2>1, <2>2, <2>3
<1> QED
  BY <1>1, <1>2

\* The search for a value answers FAIL, or the place of a hit in an entry of
\* that name.
LEMMA ValueSearchFinds ==
    ASSUME NEW t, TableOK("RejectCall", t), NEW key \in Names \cup {NoName}, NEW v,
           RejectCall_Search_Value_List(t, key, v) # FAIL
    PROVE  LET i == User_Search_List(t, key)
               j == RejectCall_Search_Value_List(t, key, v)
           IN  /\ v # NoName /\ i # FAIL /\ i \in 0..(t.size - 1) /\ i \in Slots
               /\ key \in Names /\ t.slot[i].src = key
               /\ t.slot[i] \in Entry /\ EntryOK("RejectCall", t.slot[i])
               /\ j \in 0..(t.slot[i].n - 1) /\ j \in ValueHits(t, i, v)
<1> DEFINE i == User_Search_List(t, key)
           hits == ValueHits(t, i, v)
<1>1. i # FAIL /\ v # NoName /\ hits # {} /\ RejectCall_Search_Value_List(t, key, v) = Min(hits)
  BY DEF RejectCall_Search_Value_List, RejectCall_Search_Key_List
<1>2. key \in Names /\ i \in 0..(t.size - 1) /\ t.slot[i].src = key
  BY <1>1, SearchFinds
<1>3. t.slot \in [Slots -> Entry] /\ t.size \in 0..TableSize /\ TableSize \in Nat
      /\ ValueSize \in Nat
  BY TablesAssumption DEF TableOK, TableType
<1>4. i \in Slots
  BY <1>2, <1>3 DEF Slots
<1>5. t.slot[i] \in Entry /\ EntryOK("RejectCall", t.slot[i])
  BY <1>3, <1>4 DEF TableOK
<1> DEFINE n == t.slot[i].n
<1>6. n \in 0..ValueSize
  BY <1>5 DEF Entry
<1>7. hits \subseteq 0..(n - 1)
  BY DEF ValueHits
<1> HIDE DEF i, hits, n
<1>8. n - 1 \in Int
  BY <1>3, <1>6
<1>9. IsFiniteSet(0..(n - 1)) /\ 0..(n - 1) \subseteq Int
  <2> DEFINE last == n - 1
  <2>1. last \in Int
    BY <1>8
  <2> HIDE DEF last
  <2>2. IsFiniteSet(0..last)
    BY <2>1, FS_Interval
  <2> QED
    BY <2>2 DEF last
<1>10. IsFiniteSet(hits) /\ hits \in SUBSET Int
  BY <1>7, <1>9, FS_Subset
<1>11. Min(hits) \in hits
  BY <1>1, <1>10, MinIsLeast
<1> QED
  BY <1>1, <1>2, <1>4, <1>5, <1>7, <1>11 DEF i, hits, n

\* An entry of the same name and in order, in place of a stored one, keeps the
\* table, and its name is still found.
LEMMA ReplacedIsOK ==
    ASSUME NEW t, TableOK("RejectCall", t), NEW i \in Slots, i < t.size, NEW e \in Entry,
           EntryOK("RejectCall", e), e.src = t.slot[i].src
    PROVE  LET r == [t EXCEPT !.slot[i] = e] IN
           /\ TableOK("RejectCall", r) /\ r.size = t.size /\ r.slot[i] = e
           /\ \A name \in Names \cup {NoName} : User_Search_List(r, name) = User_Search_List(t, name)
<1> DEFINE r == [t EXCEPT !.slot[i] = e]
<1>1. /\ t \in TableType /\ t.slot \in [Slots -> Entry] /\ t.size \in 0..TableSize
      /\ t = [slot |-> t.slot, size |-> t.size, chain |-> t.chain, fault |-> t.fault]
      /\ TableSize \in Nat
  BY TablesAssumption DEF TableOK, TableType
<1> DEFINE slots == [t.slot EXCEPT ![i] = e]
<1>2. r = [slot |-> slots, size |-> t.size, chain |-> t.chain, fault |-> t.fault]
  BY <1>1
<1>3. slots \in [Slots -> Entry] /\ \A m \in Slots : slots[m] = IF m = i THEN e ELSE t.slot[m]
  BY <1>1
<1>4. \A m \in Slots : slots[m].src = t.slot[m].src
  BY <1>3
<1> HIDE DEF r, slots
<1>5. r.slot = slots /\ r.size = t.size /\ r.chain = t.chain /\ r.fault = t.fault
  BY <1>2
<1>6. r \in TableType
  BY <1>1, <1>2, <1>3 DEF TableType
<1>7. \A m \in Slots : EntryOK("RejectCall", r.slot[m])
  BY <1>3, <1>5 DEF TableOK
<1>8. \A m \in Slots : m >= r.size => IsClear(r.slot[m])
  <2>1. \A m \in Slots : m >= t.size => m # i
    BY <1>1 DEF Slots
  <2> QED
    BY <1>3, <1>5, <2>1 DEF TableOK
<1>9. TableOK("RejectCall", r)
  BY <1>5, <1>6, <1>7, <1>8 DEF TableOK
<1>10. ASSUME NEW name \in Names \cup {NoName} PROVE User_Search_List(r, name) = User_Search_List(t, name)
  <2>1. CASE name = NoName
    BY <2>1 DEF User_Search_List
  <2>2. CASE name # NoName
    <3> DEFINE c == t.chain[BucketOf[name]]
    <3>1. c \in Seq(Slots)
      BY <1>1, <2>2, TablesAssumption DEF TableType
    <3>2. \A p \in DOMAIN c : c[p] \in Slots
      BY <3>1
    <3>3. Hits(r, name) = Hits(t, name)
      BY <1>4, <1>5, <3>2 DEF Hits
    <3> QED
      BY <1>5, <3>3 DEF User_Search_List
  <2> QED
    BY <2>1, <2>2
<1> QED
  BY <1>3, <1>5, <1>9, <1>10 DEF r

\* Taking back a rejection keeps the table: the value leaves its entry, and
\* an entry without values leaves the array.
LEMMA RejectionDeletionIsOK ==
    ASSUME NEW t, TableOK("RejectCall", t), NEW key \in Names \cup {NoName}, NEW value
    PROVE  TableOK("RejectCall", RejectCall_Del_List(t, key, value))
<1> DEFINE i == User_Search_List(t, key)
           j == RejectCall_Search_Value_List(t, key, value)
           e == WithoutValue(t.slot[i], j)
           less == [t EXCEPT !.slot[i] = e]
<1>1. CASE j = FAIL
  BY <1>1 DEF RejectCall_Del_List, RejectCall_Search_Key_List
<1>2. CASE j # FAIL
  <2>1. /\ i # FAIL /\ i \in 0..(t.size - 1) /\ i \in Slots
        /\ t.slot[i] \in Entry /\ EntryOK("RejectCall", t.slot[i])
        /\ j \in 0..(t.slot[i].n - 1)
    BY <1>2, ValueSearchFinds
  <2>2. e \in Entry /\ EntryOK("RejectCall", e) /\ e.src = t.slot[i].src
    BY <2>1, WithoutValueIsOK
  <2>3. less = [t EXCEPT !.slot[i] = WithoutValue(@, j)]
    BY <2>1 DEF TableOK, TableType
  <2>4. RejectCall_Del_List(t, key, value) =
            IF less.slot[i].n > 0 THEN less
            ELSE IF t.size = TableSize THEN Faulty(t, "array overrun")
            ELSE Removed(less, key, ShiftedValues(less, i))
    BY <1>2, <2>3 DEF RejectCall_Del_List, RejectCall_Search_Key_List
  <2> HIDE DEF e, j
  <2>5. t.size \in 0..TableSize /\ TableSize \in Nat
    BY TablesAssumption DEF TableOK, TableType
  <2>6. i < t.size
    BY <2>1, <2>5
  <2> HIDE DEF i
  <2>7. /\ TableOK("RejectCall", less) /\ less.size = t.size
        /\ \A name \in Names \cup {NoName} : User_Search_List(less, name) = User_Search_List(t, name)
    BY <2>1, <2>2, <2>6, ReplacedIsOK
  <2> HIDE DEF less
  <2>8. CASE t.size = TableSize
    BY <2>4, <2>7, <2>8, FaultyIsOK DEF Faults
  <2>9. CASE t.size # TableSize
    <3>1. i \in 0..(less.size - 1) /\ less.size # TableSize
      BY <2>1, <2>7, <2>9
    <3>2. User_Search_List(less, key) # FAIL
      BY <2>1, <2>7 DEF i
    <3>3. TableOK("RejectCall", Removed(less, key, ShiftedValues(less, i)))
      BY <2>7, <3>1, <3>2, ShiftedValuesIsOK, RemovedIsOK
    <3> QED
      BY <2>4, <2>7, <2>9, <3>3
  <2> QED
    BY <2>8, <2>9
<1> QED
  BY <1>1, <1>2

\* Rejecting a caller keeps the table: a new entry, or a value more in an
\* entry that has room.
LEMMA RejectionAdditionIsOK ==
    ASSUME NEW t, TableOK("RejectCall", t), NEW ask \in Asked \cup {<<NoName, NoName>>}
    PROVE  TableOK("RejectCall", RejectCall_Add_List(t, ask[1], ask[2]))
<1> DEFINE key == ask[1]
           value == ask[2]
           i == User_Search_List(t, key)
           e == t.slot[i]
           more == [e EXCEPT !.dst[e.n] = value, !.n = @ + 1]
           edit == RejectCall_Add_List(t, key, value)
<1>1. CASE NoName \in {key, value}
  BY <1>1 DEF RejectCall_Add_List
<1>2. CASE NoName \notin {key, value}
  <2>1. key \in Names /\ value \in Value /\ <<key, value>> \in Asked
    BY <1>2, AskIsNamed
  <2>2. CASE i = FAIL
    <3>1. edit = Appended(t, key, value, 1)
      BY <1>2, <2>2 DEF RejectCall_Add_List, RejectCall_Search_Key_List
    <3>2. Fits("RejectCall", key, value, 1)
      BY <2>1 DEF Fits
    <3> HIDE DEF key, value, edit
    <3>3. TableOK("RejectCall", Appended(t, key, value, 1))
      BY <2>1, <3>2, AppendedIsOK
    <3> QED
      BY <3>1, <3>3 DEF edit, key, value
  <2>3. CASE i # FAIL
    <3>1. \/ edit = t \/ edit = Faulty(t, "values overrun")
          \/ e.n # ValueSize /\ edit = [t EXCEPT !.slot[i] = more]
      BY <1>2, <2>3 DEF RejectCall_Add_List, RejectCall_Search_Key_List
    <3>2. CASE e.n # ValueSize
      <4>1. i \in 0..(t.size - 1) /\ e.src = key
        BY <2>1, <2>3, SearchFinds
      <4>2. t.slot \in [Slots -> Entry] /\ t.size \in 0..TableSize /\ TableSize \in Nat
            /\ ValueSize \in Nat
        BY TablesAssumption DEF TableOK, TableType
      <4>3. i \in Slots /\ i < t.size
        BY <4>1, <4>2 DEF Slots
      <4>4. e \in Entry /\ EntryOK("RejectCall", e)
        BY <4>2, <4>3 DEF TableOK
      <4>5. /\ e.n \in Places /\ e.dst \in [Places -> Value] /\ e.n + 1 \in 0..ValueSize
            /\ e.n \in Nat /\ e.src \in Names \cup {NoName}
            /\ e = [src |-> e.src, dst |-> e.dst, n |-> e.n]
        BY <3>2, <4>2, <4>4 DEF Entry, Places
      <4> DEFINE dst == [e.dst EXCEPT ![e.n] = value]
      <4>6. more = [e EXCEPT !.dst = dst, !.n = e.n + 1]
        BY <4>5
      <4>7. dst \in [Places -> Value] /\ \A m \in Places : dst[m] = IF m = e.n THEN value ELSE e.dst[m]
        BY <2>1, <4>5
      <4> HIDE DEF more, dst, e, i, key, value
      <4>13. more = [src |-> e.src, dst |-> dst, n |-> e.n + 1]
        BY <4>5, <4>6
      <4>9. more.src = e.src /\ more.dst = dst /\ more.n = e.n + 1
        BY <4>13
      <4>8. more \in Entry
        BY <4>5, <4>7, <4>13 DEF Entry, Places
      <4>10. EntryOK("RejectCall", more)
        <5>1. \A m \in Places : m >= e.n + 1 => m >= e.n /\ m # e.n
          BY <4>5 DEF Places
        <5>2. \A m \in Places : m >= more.n => more.dst[m] = NoName
          BY <4>4, <4>7, <4>9, <5>1 DEF EntryOK
        <5>3. \A m \in Places : more.dst[m] # NoName => <<more.src, more.dst[m]>> \in Asked
          BY <2>1, <4>1, <4>4, <4>7, <4>9 DEF EntryOK
        <5> QED
          BY <5>2, <5>3 DEF EntryOK
      <4>11. more.src = t.slot[i].src
        BY <4>9 DEF e
      <4>12. TableOK("RejectCall", [t EXCEPT !.slot[i] = more])
        BY <4>3, <4>8, <4>10, <4>11, ReplacedIsOK
      <4> QED
        BY <3>1, <4>12, FaultyIsOK DEF Faults, key, value
    <3>3. CASE e.n = ValueSize
      BY <3>1, <3>3, FaultyIsOK DEF Faults
    <3> QED
      BY <3>2, <3>3
  <2> QED
    BY <2>2, <2>3
<1> QED
  BY <1>1, <1>2

-----------------------------------------------------------------------------
(* The files.                                                              *)

\* Printing a table gives lines that say what the table says.
LEMMA PrintedIsOK ==
    ASSUME kind \in Kinds, TableOK(kind, table)
    PROVE  Printed(table) \in Seq(Entry) /\ \A m \in DOMAIN Printed(table) : EntryOK(kind, Printed(table)[m])
<1> DEFINE t == table
           line(m) == IF kind = "RejectCall" /\ t.slot[m - 1].n = 0
                      THEN [t.slot[m - 1] EXCEPT !.n = 1] ELSE t.slot[m - 1]
           lines == [m \in 1..t.size |-> line(m)]
<1>1. /\ t.slot \in [Slots -> Entry] /\ t.size \in 0..TableSize /\ TableSize \in Nat
      /\ ValueSize \in Nat \ {0}
      /\ kind \in {"User", "Lettering", "CallForwarding", "RejectCall"}
  BY TablesAssumption DEF TableOK, TableType
<1>2. ASSUME NEW e \in Entry PROVE [e EXCEPT !.n = IF @ = 0 THEN 1 ELSE @] =
                                     IF e.n = 0 THEN [e EXCEPT !.n = 1] ELSE e
  BY DEF Entry
<1>3. ASSUME NEW m \in 1..t.size PROVE m - 1 \in Slots
  BY <1>1, <1>3 DEF Slots
<1>4. ASSUME NEW m \in 1..t.size PROVE line(m) \in Entry /\ EntryOK(kind, line(m))
  <2> DEFINE e == t.slot[m - 1]
  <2>1. e \in Entry /\ EntryOK(kind, e)
    BY <1>1, <1>3, <1>4 DEF TableOK
  <2>2. CASE kind = "RejectCall" /\ e.n = 0
    <3> DEFINE w == [e EXCEPT !.n = 1]
    <3>1. line(m) = w
      BY <2>2
    <3>2. /\ e = [src |-> e.src, dst |-> e.dst, n |-> e.n] /\ e.src \in Names \cup {NoName}
          /\ e.dst \in [Places -> Value]
      BY <2>1 DEF Entry, Places
    <3>3. w = [src |-> e.src, dst |-> e.dst, n |-> 1] /\ 1 \in 0..ValueSize
      BY <1>1, <3>2
    <3> HIDE DEF e, w, line
    <3>4. w \in Entry /\ w.src = e.src /\ w.dst = e.dst /\ w.n = 1
      BY <3>2, <3>3 DEF Entry, Places
    <3>5. \A j \in Places : j >= 0
      BY <1>1 DEF Places
    <3>6. EntryOK(kind, w)
      BY <2>1, <2>2, <3>4, <3>5 DEF EntryOK
    <3> QED
      BY <3>1, <3>4, <3>6
  <2>3. CASE ~(kind = "RejectCall" /\ e.n = 0)
    BY <2>1, <2>3
  <2> QED
    BY <2>2, <2>3
<1>5. Printed(t) = lines
  <2>1. CASE kind # "RejectCall"
    BY <1>1, <2>1 DEF Printed, User_Save_File, Lettering_Save_File, CallForwarding_Save_File
  <2>2. CASE kind = "RejectCall"
    <3>1. Printed(t) = [m \in 1..t.size |-> [t.slot[m - 1] EXCEPT !.n = IF @ = 0 THEN 1 ELSE @]]
      BY <2>2 DEF Printed, RejectCall_Save_File
    <3>2. \A m \in 1..t.size : t.slot[m - 1] \in Entry
      BY <1>1, <1>3
    <3> QED
      BY <1>2, <2>2, <3>1, <3>2
  <2> QED
    BY <2>1, <2>2
<1> HIDE DEF line
<1>6. lines \in Seq(Entry) /\ DOMAIN lines = 1..t.size
  <2>1. lines \in [1..t.size -> Entry] /\ t.size \in Nat
    BY <1>1, <1>4
  <2> QED
    BY <2>1
<1> QED
  BY <1>4, <1>5, <1>6

\* Reading a line back changes nothing, or cuts a value.
LEMMA RereadIsOK ==
    ASSUME kind \in Kinds, NEW e \in Entry, EntryOK(kind, e)
    PROVE  Reread(e) \in Entry /\ EntryOK(kind, Reread(e))
<1> DEFINE cut == [e EXCEPT !.dst[0] = Cut]
<1>1. /\ kind \in {"User", "Lettering", "CallForwarding", "RejectCall"}
      /\ ValueSize \in Nat \ {0}
  BY TablesAssumption
<1>2. Reread(e) = e \/ (Reread(e) = cut /\ kind # "RejectCall")
  BY <1>1 DEF Reread, User_Init_List, RejectCall_Init_List, Lettering_Init_List,
          CallForwarding_Init_List
<1>3. /\ e = [src |-> e.src, dst |-> e.dst, n |-> e.n] /\ e.src \in Names \cup {NoName}
      /\ e.dst \in [Places -> Value] /\ e.n \in 0..ValueSize /\ 0 \in Places
  BY <1>1 DEF Entry, Places
<1> DEFINE dst == [e.dst EXCEPT ![0] = Cut]
<1>4. dst \in [Places -> Value] /\ dst[0] = Cut
  BY <1>3 DEF Value
<1>5. cut = [e EXCEPT !.dst = dst]
  BY <1>3
<1> HIDE DEF cut, dst
<1>6. cut = [src |-> e.src, dst |-> dst, n |-> e.n]
  BY <1>3, <1>5
<1>7. cut \in Entry /\ cut.dst = dst /\ cut.n = e.n
  BY <1>3, <1>4, <1>6 DEF Entry, Places
<1>8. kind # "RejectCall" => EntryOK(kind, cut)
  BY <1>4, <1>7 DEF EntryOK
<1> QED
  BY <1>2, <1>7, <1>8

\* An empty table is a table.
LEMMA BlankIsOK ==
    ASSUME NEW k
    PROVE  TableOK(k, Blank)
<1>1. TableSize \in Nat \ {0} /\ ChainSize \in Nat
  BY TablesAssumption
<1>2. Blank \in TableType
  <2>1. [i \in Slots |-> NoEntry] \in [Slots -> Entry]
    BY NoEntryIsOK
  <2> QED
    BY <1>1, <2>1 DEF Blank, TableType, Slots
<1>3. /\ \A b \in Buckets : Len(Blank.chain[b]) <= ChainSize
      /\ \A i \in Slots : Blank.slot[i] = NoEntry
  BY <1>1 DEF Blank, Slots
<1> QED
  BY <1>2, <1>3, NoEntryIsOK DEF TableOK

-----------------------------------------------------------------------------
(* The invariant.                                                          *)

\* The invariant holds initially.
LEMMA InitEstablishes == Init => IInv
<1> SUFFICES ASSUME Init PROVE IInv
  OBVIOUS
<1>1. TableOK(kind, table)
  BY BlankIsOK DEF Init
<1> QED
  BY <1>1 DEF Init, IInv, FileOK

\* A request or command that leaves a table keeps the invariant, whether its
\* file was opened or not.
LEMMA EditedKeeps ==
    ASSUME IInv, TableOK(kind, table)', kind' = kind,
           \/ file' = <<>> /\ phase' = "saving"
           \/ UNCHANGED <<file, phase>>
    PROVE  IInv'
<1>1. FileOK'
  <2>1. CASE file' = <<>>
    <3>1. <<>> \in Seq(Entry) /\ DOMAIN <<>> = {}
      OBVIOUS
    <3> QED
      BY <2>1, <3>1 DEF FileOK
  <2>2. CASE file' = file
    BY <2>2 DEF IInv, FileOK
  <2> QED
    BY <2>1, <2>2
<1>2. kind' \in Kinds /\ phase' \in {"down", "loading", "up", "saving"}
  BY DEF IInv
<1> QED
  BY <1>1, <1>2 DEF IInv

\* Every request and every command leaves a table.
LEMMA RequestsEdit ==
    ASSUME IInv,
           \/ \E name \in Names \cup {NoName} :
                 \/ SignUpReq(name) \/ DelUser(name) \/ LetteringDelReq(name)
                 \/ CallForwardingDelReq(name)
                 \/ \E connected \in BOOLEAN, change \in Names : ModifyUser(name, change, connected)
                 \/ \E value \in Values : RejectCallDelReq(name, value)
           \/ \E ask \in Asked \cup {<<NoName, NoName>>} :
                 \/ LetteringAddReq(ask[1], ask[2]) \/ CallForwardingAddReq(ask[1], ask[2])
                 \/ RejectCallAddReq(ask[1], ask[2])
    PROVE  IInv'
<1>1. ASSUME NEW name \in Names \cup {NoName}, SignUpReq(name) PROVE IInv'
  <2>1. kind = "User" /\ TableOK("User", User_Add_List(table, name))
    BY <1>1, UserAdditionIsOK DEF IInv, SignUpReq, Serving
  <2>2. TableOK(kind, table)' /\ kind' = kind
    BY <1>1, <2>1 DEF SignUpReq, Edited
  <2> QED
    BY <1>1, <2>2, EditedKeeps DEF SignUpReq, Edited
<1>2. ASSUME NEW name \in Names \cup {NoName}, DelUser(name) PROVE IInv'
  <2>1. TableOK(kind, User_Del_List(table, name))
    BY ClearedDeletionIsOK DEF IInv
  <2>2. TableOK(kind, table)' /\ kind' = kind
    BY <1>2, <2>1 DEF DelUser, Edited
  <2> QED
    BY <1>2, <2>2, EditedKeeps DEF DelUser, Edited
<1>3. ASSUME NEW name \in Names \cup {NoName}, LetteringDelReq(name) PROVE IInv'
  <2>1. TableOK(kind, Lettering_Del_List(table, name))
    BY ClearedDeletionIsOK DEF IInv
  <2>2. TableOK(kind, table)' /\ kind' = kind
    BY <1>3, <2>1 DEF LetteringDelReq, Edited
  <2> QED
    BY <1>3, <2>2, EditedKeeps DEF LetteringDelReq, Edited
<1>4. ASSUME NEW name \in Names \cup {NoName}, CallForwardingDelReq(name) PROVE IInv'
  <2>1. kind = "CallForwarding"
        /\ TableOK("CallForwarding", CallForwarding_Del_List(table, name))
    BY <1>4, CallForwardingEditsAreOK DEF IInv, CallForwardingDelReq, Serving
  <2>2. TableOK(kind, table)' /\ kind' = kind
    BY <1>4, <2>1 DEF CallForwardingDelReq, Edited
  <2> QED
    BY <1>4, <2>2, EditedKeeps DEF CallForwardingDelReq, Edited
<1>5. ASSUME NEW name \in Names \cup {NoName}, NEW connected \in BOOLEAN,
             NEW change \in Names, ModifyUser(name, change, connected)
      PROVE  IInv'
  <2> DEFINE deleted == IF connected THEN table ELSE User_Del_List(table, name)
  <2>1. kind = "User" /\ (Edited(User_Add_List(deleted, change)) \/ Edited(deleted))
    BY <1>5 DEF ModifyUser, Serving
  <2>2. TableOK("User", deleted)
    BY <2>1, ClearedDeletionIsOK DEF IInv
  <2> HIDE DEF deleted
  <2>3. TableOK("User", User_Add_List(deleted, change))
    BY <2>2, UserAdditionIsOK
  <2>4. TableOK(kind, table)' /\ kind' = kind
    BY <2>1, <2>2, <2>3 DEF Edited
  <2> QED
    BY <2>1, <2>4, EditedKeeps DEF Edited
<1>6. ASSUME NEW name \in Names \cup {NoName}, NEW value \in Values,
             RejectCallDelReq(name, value)
      PROVE  IInv'
  <2>1. kind = "RejectCall" /\ TableOK("RejectCall", RejectCall_Del_List(table, name, value))
    BY <1>6, RejectionDeletionIsOK DEF IInv, RejectCallDelReq, Serving
  <2>2. TableOK(kind, table)' /\ kind' = kind
    BY <1>6, <2>1 DEF RejectCallDelReq, Edited
  <2> QED
    BY <1>6, <2>2, EditedKeeps DEF RejectCallDelReq, Edited
<1>7. ASSUME NEW ask \in Asked \cup {<<NoName, NoName>>}, LetteringAddReq(ask[1], ask[2])
      PROVE  IInv'
  <2>1. kind = "Lettering"
        /\ TableOK("Lettering", Lettering_Add_List(table, ask[1], ask[2]))
    BY <1>7, LetteringAdditionIsOK DEF IInv, LetteringAddReq, Serving
  <2>2. TableOK(kind, table)' /\ kind' = kind
    BY <1>7, <2>1 DEF LetteringAddReq, Edited
  <2> QED
    BY <1>7, <2>2, EditedKeeps DEF LetteringAddReq, Edited
<1>8. ASSUME NEW ask \in Asked \cup {<<NoName, NoName>>}, CallForwardingAddReq(ask[1], ask[2])
      PROVE  IInv'
  <2>1. kind = "CallForwarding"
        /\ TableOK("CallForwarding", CallForwarding_Add_List(table, ask[1], ask[2]))
    BY <1>8, CallForwardingEditsAreOK DEF IInv, CallForwardingAddReq, Serving
  <2>2. TableOK(kind, table)' /\ kind' = kind
    BY <1>8, <2>1 DEF CallForwardingAddReq, Edited
  <2> QED
    BY <1>8, <2>2, EditedKeeps DEF CallForwardingAddReq, Edited
<1>9. ASSUME NEW ask \in Asked \cup {<<NoName, NoName>>}, RejectCallAddReq(ask[1], ask[2])
      PROVE  IInv'
  <2>1. kind = "RejectCall"
        /\ TableOK("RejectCall", RejectCall_Add_List(table, ask[1], ask[2]))
    BY <1>9, RejectionAdditionIsOK DEF IInv, RejectCallAddReq, Serving
  <2>2. TableOK(kind, table)' /\ kind' = kind
    BY <1>9, <2>1 DEF RejectCallAddReq, Edited
  <2> QED
    BY <1>9, <2>2, EditedKeeps DEF RejectCallAddReq, Edited
<1> QED
  BY <1>1, <1>2, <1>3, <1>4, <1>5, <1>6, <1>7, <1>8, <1>9

\* Loading a line keeps the table.  The row of an empty name is none, and an
\* index written there is written nowhere.
LEMMA LoadLineKeeps == ASSUME IInv, LoadLine PROVE IInv'
<1> DEFINE t == table
           m == t.size + 1
           e == Reread(file[m])
           b == BucketOf[e.src]
           more == [t EXCEPT !.slot[t.size] = e, !.size = @ + 1,
                             !.chain[b] = Append(@, t.size)]
<1>1. /\ t.size < Len(file) /\ UNCHANGED <<kind, file, phase>>
      /\ \/ t' = Faulty(t, "array overrun") \/ t' = Faulty(t, "chain overrun")
         \/ t.size # TableSize /\ Len(t.chain[b]) # ChainSize /\ t' = more
  BY DEF LoadLine
<1>2. TableOK(kind, t) /\ FileOK /\ kind \in Kinds
  BY DEF IInv
<1>3. /\ t \in TableType /\ t.slot \in [Slots -> Entry] /\ t.size \in 0..TableSize
      /\ t.chain \in [Buckets -> Seq(Slots)] /\ TableSize \in Nat /\ ChainSize \in Nat
      /\ t = [slot |-> t.slot, size |-> t.size, chain |-> t.chain, fault |-> t.fault]
      /\ t.fault \in Faults \cup {"none"}
  BY <1>2, TablesAssumption DEF TableOK, TableType
<1>4. m \in DOMAIN file /\ file[m] \in Entry /\ EntryOK(kind, file[m])
  <2>1. file \in Seq(Entry)
    BY <1>2 DEF FileOK
  <2>2. t.size \in Nat /\ Len(file) \in Nat /\ DOMAIN file = 1..Len(file)
    BY <1>3, <2>1
  <2>5. m \in 1..Len(file)
    <3> DEFINE l == Len(file)
               z == t.size
    <3>1. z \in Nat /\ l \in Nat /\ z < l /\ m = z + 1
      BY <1>1, <2>2
    <3> HIDE DEF l, z, m
    <3>2. m \in 1..l
      BY <3>1
    <3> QED
      BY <3>2 DEF l
  <2>3. m \in DOMAIN file
    BY <2>2, <2>5
  <2> HIDE DEF m
  <2>4. file[m] \in Entry
    BY <2>1, <2>3
  <2> QED
    BY <1>2, <2>3, <2>4 DEF FileOK
<1>5. e \in Entry /\ EntryOK(kind, e)
  BY <1>2, <1>4, RereadIsOK
<1>6. ASSUME t.size # TableSize, Len(t.chain[b]) # ChainSize
      PROVE  TableOK(kind, more)
  <2> DEFINE slots == [t.slot EXCEPT ![t.size] = e]
             chain == [t.chain EXCEPT ![b] = Append(@, t.size)]
  <2>1. t.size \in Slots /\ t.size + 1 \in 0..TableSize
    BY <1>3, <1>6 DEF Slots
  <2> HIDE DEF e, b
  <2>10. more = [t EXCEPT !.slot = slots, !.size = t.size + 1, !.chain = chain]
    BY <1>3
  <2>3. slots \in [Slots -> Entry] /\ \A i \in Slots : slots[i] = IF i = t.size THEN e ELSE t.slot[i]
    BY <1>3, <1>5
  <2>4. chain \in [Buckets -> Seq(Slots)] /\ \A c \in Buckets : Len(chain[c]) <= ChainSize
    <3>1. ASSUME NEW c \in Buckets
          PROVE  chain[c] \in Seq(Slots) /\ Len(chain[c]) <= ChainSize
      <4>1. t.chain[c] \in Seq(Slots) /\ Len(t.chain[c]) <= ChainSize /\ Len(t.chain[c]) \in Nat
        BY <1>2, <1>3 DEF TableOK
      <4>2. CASE c = b
        <5>1. chain[c] = Append(t.chain[c], t.size)
          BY <1>3, <4>2
        <5>2. Append(t.chain[c], t.size) \in Seq(Slots)
              /\ Len(Append(t.chain[c], t.size)) = Len(t.chain[c]) + 1
          BY <2>1, <4>1
        <5>3. Len(t.chain[c]) # ChainSize
          BY <1>6, <4>2
        <5> QED
          BY <1>3, <4>1, <5>1, <5>2, <5>3
      <4>3. CASE c # b
        BY <1>3, <4>1, <4>3
      <4> QED
        BY <4>2, <4>3
    <3>2. DOMAIN chain = Buckets /\ chain = [c \in Buckets |-> chain[c]]
      BY <1>3
    <3> HIDE DEF chain
    <3> QED
      BY <3>1, <3>2
  <2> HIDE DEF more, slots, chain
  <2>2. more = [slot |-> slots, size |-> t.size + 1, chain |-> chain, fault |-> t.fault]
    BY <1>3, <2>10
  <2>5. more.slot = slots /\ more.size = t.size + 1 /\ more.chain = chain
    BY <2>2
  <2>6. more \in TableType
    BY <1>3, <2>1, <2>2, <2>3, <2>4 DEF TableType
  <2>7. \A i \in Slots : i >= more.size => i >= t.size /\ i # t.size
    BY <1>3, <2>5 DEF Slots
  <2>8. \A i \in Slots : EntryOK(kind, more.slot[i])
    BY <1>2, <1>5, <2>3, <2>5 DEF TableOK
  <2>9. \A i \in Slots : i >= more.size => IsClear(more.slot[i])
    BY <1>2, <2>3, <2>5, <2>7 DEF TableOK
  <2> QED
    BY <2>4, <2>5, <2>6, <2>8, <2>9 DEF TableOK
<1> HIDE DEF more
<1>7. TableOK(kind, table)'
  <2>1. TableOK(kind, t')
    BY <1>1, <1>2, <1>6, FaultyIsOK DEF Faults
  <2> QED
    BY <1>1, <2>1
<1>8. FileOK'
  BY <1>1, <1>2 DEF FileOK
<1> QED
  BY <1>1, <1>7, <1>8 DEF IInv

\* Every step keeps the invariant.
LEMMA NextKeeps == IInv /\ [Next]_vars => IInv'
<1> SUFFICES ASSUME IInv, [Next]_vars PROVE IInv'
  OBVIOUS
<1>1. CASE SaveFile
  <2>1. UNCHANGED <<kind, table>> /\ phase' = "up" /\ file' = Printed(table)
    BY <1>1 DEF SaveFile
  <2>2. Printed(table) \in Seq(Entry)
        /\ \A m \in DOMAIN Printed(table) : EntryOK(kind, Printed(table)[m])
    BY PrintedIsOK DEF IInv
  <2>3. FileOK'
    BY <2>1, <2>2 DEF FileOK
  <2>4. TableOK(kind, table)'
    BY <2>1 DEF IInv
  <2> QED
    BY <2>1, <2>3, <2>4 DEF IInv
<1>2. CASE Stop
  <2>1. UNCHANGED <<kind, file>> /\ phase' = "down" /\ table' = Blank
    BY <1>2 DEF Stop
  <2>2. TableOK(kind, table)'
    BY <2>1, BlankIsOK
  <2>3. FileOK'
    BY <2>1 DEF FileOK, IInv
  <2> QED
    BY <2>1, <2>2, <2>3 DEF IInv
<1>3. CASE Start \/ Loaded \/ UNCHANGED vars
  <2>1. UNCHANGED <<kind, table, file>> /\ phase' \in {"down", "loading", "up", "saving"}
    BY <1>3 DEF Start, Loaded, vars, IInv
  <2>2. TableOK(kind, table)' /\ FileOK'
    BY <2>1 DEF IInv, FileOK
  <2> QED
    BY <2>1, <2>2 DEF IInv
<1>4. CASE LoadLine
  BY <1>4, LoadLineKeeps
<1> QED
  BY <1>1, <1>2, <1>3, <1>4, RequestsEdit DEF Next

\* The invariant holds in every behaviour.
THEOREM InvariantHolds == Spec => []IInv
  BY InitEstablishes, NextKeeps, PTL DEF Spec

-----------------------------------------------------------------------------
(* What follows from it.                                                   *)

\* What the tables hold is of its type, up to an access outside an array: the
\* faults are values of TypeOK, and OverrunsOnlyWhenFull below says when one may
\* come.  After one User.c and its like go on, and nothing is said of them.
THEOREM TypeCorrect == Spec => []TypeOK
<1>1. IInv => TypeOK
  BY DEF IInv, FileOK, TableOK, TableType, Slots, TypeOK
<1> QED
  BY <1>1, InvariantHolds, PTL

\* User_Search_List and its like answer with stored entries of the name that
\* was looked up, although deletions leave stale indices in the chains.
THEOREM LookupsAnswerStored == Spec => []FoundIsStored
<1>1. IInv => FoundIsStored
  <2> SUFFICES ASSUME IInv, NEW name \in Names, User_Search_List(table, name) # FAIL
               PROVE  /\ User_Search_List(table, name) \in Stored
                      /\ table.slot[User_Search_List(table, name)].src = name
    BY DEF FoundIsStored
  <2>1. TableOK(kind, table)
    BY DEF IInv
  <2> QED
    BY <2>1, SearchFinds DEF Stored
<1> QED
  BY <1>1, InvariantHolds, PTL

\* What the tables answer for a name was asked for by that name, through every
\* shift, save and restart.
THEOREM ValuesStayWithTheirNames == Spec => []AnswersWereAsked
<1>1. IInv => AnswersWereAsked
  <2> SUFFICES ASSUME IInv, NEW name \in Names
               PROVE  /\ kind \in {"Lettering", "CallForwarding"}
                            /\ User_Search_List(table, name) # FAIL
                         => LET v == table.slot[User_Search_List(table, name)].dst[0]
                            IN  <<name, v>> \in Asked \/ v = Cut
                      /\ \A v \in Values :
                            kind = "RejectCall" /\ RejectCall_Search_Value_List(table, name, v) # FAIL
                            => \E d \in Values : <<name, d>> \in Asked /\ (v = d \/ Matches(v, d))
    BY DEF AnswersWereAsked
  <2>1. TableOK(kind, table)
    BY DEF IInv
  <2>2. ASSUME kind \in {"Lettering", "CallForwarding"}, User_Search_List(table, name) # FAIL
        PROVE  LET v == table.slot[User_Search_List(table, name)].dst[0]
               IN  <<name, v>> \in Asked \/ v = Cut
    <3> DEFINE i == User_Search_List(table, name)
    <3>1. i \in 0..(table.size - 1) /\ table.slot[i].src = name
      BY <2>1, <2>2, SearchFinds
    <3>2. table.size \in 0..TableSize /\ TableSize \in Nat
      BY <2>1, TablesAssumption DEF TableOK, TableType
    <3> HIDE DEF i
    <3>3. i \in Slots
      BY <3>1, <3>2 DEF Slots
    <3>4. EntryOK(kind, table.slot[i])
      BY <2>1, <3>3 DEF TableOK
    <3>5. name # NoName
      BY TablesAssumption
    <3> QED
      BY <2>2, <3>1, <3>4, <3>5 DEF EntryOK, i
  <2>3. ASSUME NEW v \in Values, kind = "RejectCall",
               RejectCall_Search_Value_List(table, name, v) # FAIL
        PROVE  \E d \in Values : <<name, d>> \in Asked /\ (v = d \/ Matches(v, d))
    <3> DEFINE i == User_Search_List(table, name)
               j == RejectCall_Search_Value_List(table, name, v)
               e == table.slot[i]
    <3>1. /\ v # NoName /\ e.src = name /\ e \in Entry /\ EntryOK("RejectCall", e)
          /\ j \in 0..(e.n - 1) /\ j \in ValueHits(table, i, v)
      BY <2>1, <2>3, ValueSearchFinds
    <3>2. IF j = e.n - 1 THEN Matches(v, e.dst[j]) ELSE e.dst[j] = v
      BY <3>1 DEF ValueHits
    <3> HIDE DEF i, j, e
    <3>3. e.n \in 0..ValueSize /\ ValueSize \in Nat
      BY <3>1, TablesAssumption DEF Entry
    <3>4. j \in Places
      BY <3>1, <3>3 DEF Places
    <3>5. e.dst[j] # NoName /\ (v = e.dst[j] \/ Matches(v, e.dst[j]))
      BY <3>1, <3>2 DEF Matches
    <3>6. <<name, e.dst[j]>> \in Asked
      BY <3>1, <3>4, <3>5 DEF EntryOK
    <3>7. e.dst[j] \in Values
      BY <3>6, TablesAssumption
    <3> QED
      BY <3>5, <3>6, <3>7
  <2> QED
    BY <2>2, <2>3
<1> QED
  BY <1>1, InvariantHolds, PTL

-----------------------------------------------------------------------------
(* Entries are counted by their names.                                     *)

Used(t) == 0..(t.size - 1)
Row(b) == {n \in Names : BucketOf[n] = b}

\* The entries of the array, and the lines of a file, whose name is in R.
Among(t, R) == {i \in Used(t) : t.slot[i].src \in R}
Count(t, R) == Cardinality(Among(t, R))
LinesOf(f, R) == {m \in DOMAIN f : f[m].src \in R}
Lines(f, R) == Cardinality(LinesOf(f, R))

\* Every entry has a name, and its row an index for it.
RowsOK(t) ==
    /\ \A i \in Used(t) : t.slot[i].src \in Names
    /\ \A b \in Buckets : Len(t.chain[b]) = Count(t, Row(b))

\* The file has no more lines than the array has slots, nor more of a row
\* than a chain has room for.
FileLoads ==
    /\ \A m \in DOMAIN file : file[m].src \in Names
    /\ Len(file) <= TableSize
    /\ \A b \in Buckets : Lines(file, Row(b)) <= ChainSize

\* While the file is read, the table holds the names of its first lines, and
\* the chains find all of them: nothing was deleted yet.
Indexed(t) ==
    \A i \in Used(t) : LET c == t.chain[BucketOf[t.slot[i].src]]
                       IN  \E p \in DOMAIN c : c[p] = i
LoadedSoFar ==
    /\ table.fault = "none" /\ table.size <= Len(file)
    /\ \A i \in Used(table) : table.slot[i].src = file[i + 1].src
    /\ Indexed(table)

NamesInv ==
    /\ RowsOK(table)
    /\ FileLoads
    /\ phase = "down" => table = Blank
    /\ phase = "loading" => LoadedSoFar
    /\ phase = "saving" => table.fault = "none"

\* A bijection carries over the size.
LEMMA SameSize ==
    ASSUME NEW S, IsFiniteSet(S), NEW T, NEW f \in [S -> T],
           \A x, y \in S : f[x] = f[y] => x = y,
           \A z \in T : \E x \in S : f[x] = z
    PROVE  IsFiniteSet(T) /\ Cardinality(T) = Cardinality(S)
<1>1. f \in Bijection(S, T)
  BY DEF Bijection, Injection, Surjection, IsInjective
<1>2. ExistsBijection(S, T)
  BY <1>1 DEF ExistsBijection
<1> QED
  BY <1>2, FS_Bijection

\* The entries in use are finitely many.
LEMMA CountIsNatural ==
    ASSUME NEW k, NEW t, TableOK(k, t), NEW R
    PROVE  /\ IsFiniteSet(Used(t)) /\ Used(t) \subseteq Slots
           /\ IsFiniteSet(Among(t, R)) /\ Count(t, R) \in Nat
           /\ t.size \in 0..TableSize /\ TableSize \in Nat
<1> DEFINE last == t.size - 1
<1>1. t.size \in 0..TableSize /\ TableSize \in Nat
  BY TablesAssumption DEF TableOK, TableType
<1>2. last \in Int /\ Used(t) = 0..last
  BY <1>1 DEF Used
<1>3. Used(t) \subseteq Slots
  BY <1>1 DEF Used, Slots
<1> HIDE DEF last
<1>4. IsFiniteSet(0..last)
  BY <1>2, FS_Interval
<1>5. IsFiniteSet(Among(t, R))
  BY <1>2, <1>4, FS_Subset DEF Among
<1> QED
  BY <1>1, <1>2, <1>3, <1>4, <1>5, FS_CardinalityType DEF Count

-----------------------------------------------------------------------------
(* What an edit does to the names, whatever it does to their values.       *)

SameNames(t, u) ==
    /\ u.size = t.size /\ u.chain = t.chain
    /\ \A m \in Slots : u.slot[m].src = t.slot[m].src

\* Appended: one entry more, at the end of the array and of its chain.
Added(t, u, key) ==
    /\ key \in Names /\ t.size < TableSize
    /\ u.size = t.size + 1
    /\ u.chain = [t.chain EXCEPT ![BucketOf[key]] = Append(@, t.size)]
    /\ \A m \in Slots : u.slot[m].src = IF m = t.size THEN key ELSE t.slot[m].src

\* Removed: the entry a search finds is gone, those behind it moved up.
Deleted(t, u, name) ==
    LET i == User_Search_List(t, name) IN
    /\ name \in Names /\ i # FAIL
    /\ u.size = t.size - 1 /\ u.chain = Unchained(t, name)
    /\ \A m \in 0..(t.size - 2) :
          u.slot[m].src = IF m < i THEN t.slot[m].src ELSE t.slot[m + 1].src

\* A table with the same names has as many of each.
LEMMA SameCounts ==
    ASSUME NEW k, NEW t, NEW u, TableOK(k, t), SameNames(t, u), NEW R
    PROVE  Used(u) = Used(t) /\ Count(u, R) = Count(t, R)
<1>1. Used(u) = Used(t) /\ Used(t) \subseteq Slots
  BY CountIsNatural DEF SameNames, Used
<1>2. Among(u, R) = Among(t, R)
  BY <1>1 DEF Among, SameNames
<1> QED
  BY <1>1, <1>2 DEF Count

\* An insertion adds one to the count of its name.
LEMMA AddedCounts ==
    ASSUME NEW k, NEW t, NEW u, TableOK(k, t), NEW key, Added(t, u, key), NEW R
    PROVE  Count(u, R) = Count(t, R) + (IF key \in R THEN 1 ELSE 0)
<1>1. /\ IsFiniteSet(Among(t, R)) /\ Count(t, R) \in Nat /\ Used(t) \subseteq Slots
      /\ t.size \in 0..TableSize /\ TableSize \in Nat
  BY CountIsNatural
<1>2. t.size \in Slots /\ t.size \notin Used(t) /\ Used(u) = Used(t) \cup {t.size}
  BY <1>1 DEF Added, Used, Slots
<1>3. u.slot[t.size].src = key /\ \A m \in Used(t) : u.slot[m].src = t.slot[m].src
  BY <1>1, <1>2 DEF Added
<1>4. Among(u, R) = IF key \in R THEN Among(t, R) \cup {t.size} ELSE Among(t, R)
  BY <1>2, <1>3 DEF Among
<1>5. t.size \notin Among(t, R)
  BY <1>2 DEF Among
<1>6. Count(t, R) = Cardinality(Among(t, R)) /\ Count(u, R) = Cardinality(Among(u, R))
  BY DEF Count
<1>7. CASE key \in R
  <2> DEFINE old == Among(t, R)
             x == t.size
  <2>1. IsFiniteSet(old) /\ x \notin old
    BY <1>1, <1>5
  <2> HIDE DEF old, x
  <2>2. Cardinality(old \cup {x}) = Cardinality(old) + 1
    BY <2>1, FS_AddElement
  <2>3. Among(u, R) = old \cup {x}
    BY <1>4, <1>7 DEF old, x
  <2> QED
    BY <1>6, <1>7, <2>2, <2>3 DEF old
<1>8. CASE key \notin R
  BY <1>1, <1>4, <1>6, <1>8
<1> QED
  BY <1>7, <1>8

\* A deletion takes one from the count of its name: the entries that stay are
\* those of the old table but the one that was found, moved up from there on.
LEMMA DeletedCounts ==
    ASSUME NEW k, NEW t, NEW u, TableOK(k, t), NEW name, Deleted(t, u, name), NEW R
    PROVE  /\ Count(u, R) = Count(t, R) - (IF name \in R THEN 1 ELSE 0)
           /\ name \in R => Count(t, R) > 0
<1> DEFINE i == User_Search_List(t, name)
           old == Among(t, R) \ {i}
           new == Among(u, R)
           f == [m \in old |-> IF m < i THEN m ELSE m - 1]
<1>1. /\ name \in Names /\ i # FAIL /\ u.size = t.size - 1
      /\ \A m \in 0..(t.size - 2) :
            u.slot[m].src = IF m < i THEN t.slot[m].src ELSE t.slot[m + 1].src
  BY DEF Deleted
<1>2. i \in Used(t) /\ t.slot[i].src = name
  BY <1>1, SearchFinds DEF Used
<1>3. /\ IsFiniteSet(Among(t, R)) /\ Count(t, R) \in Nat
      /\ t.size \in 0..TableSize /\ TableSize \in Nat
  BY CountIsNatural
<1>4. i \in Among(t, R) <=> name \in R
  BY <1>2 DEF Among
<1>5. IsFiniteSet(old) /\ Cardinality(old) = Count(t, R) - (IF name \in R THEN 1 ELSE 0)
  BY <1>3, <1>4, FS_RemoveElement DEF Count
<1>6. i \in Int /\ 0 <= i /\ i <= t.size - 1 /\ t.size \in Nat
  BY <1>2, <1>3 DEF Used
<1>7. \A m : m \in old <=> m \in Int /\ 0 <= m /\ m <= t.size - 1 /\ m # i /\ t.slot[m].src \in R
  BY <1>6 DEF Among, Used
<1>8. \A m : m \in new <=> m \in Int /\ 0 <= m /\ m <= t.size - 2 /\ u.slot[m].src \in R
  BY <1>1, <1>6 DEF Among, Used
<1>9. \A m \in Int : 0 <= m /\ m <= t.size - 2 =>
         u.slot[m].src = IF m < i THEN t.slot[m].src ELSE t.slot[m + 1].src
  BY <1>1, <1>6
<1>10. \A m \in old : f[m] = IF m < i THEN m ELSE m - 1
  OBVIOUS
<1>11. f = [m \in old |-> f[m]]
  OBVIOUS
<1> HIDE DEF i, old, new, f
<1>12. ASSUME NEW m \in old PROVE f[m] \in new
  <2>1. CASE m < i
    BY <1>6, <1>7, <1>8, <1>9, <1>10, <2>1
  <2>2. CASE ~(m < i)
    <3>1. f[m] = m - 1 /\ m - 1 + 1 = m /\ ~(m - 1 < i) /\ m - 1 \in Int
          /\ 0 <= m - 1 /\ m - 1 <= t.size - 2
      BY <1>6, <1>7, <1>10, <2>2
    <3> QED
      BY <1>7, <1>8, <1>9, <3>1
  <2> QED
    BY <2>1, <2>2
<1>13. \A x, y \in old : f[x] = f[y] => x = y
  BY <1>6, <1>7, <1>10
<1>14. ASSUME NEW z \in new PROVE \E x \in old : f[x] = z
  <2>1. CASE z < i
    BY <1>6, <1>7, <1>8, <1>9, <1>10, <2>1
  <2>2. CASE ~(z < i)
    <3>1. z + 1 \in Int /\ 0 <= z + 1 /\ z + 1 <= t.size - 1 /\ z + 1 # i
          /\ ~(z + 1 < i) /\ z + 1 - 1 = z
      BY <1>6, <1>8, <2>2
    <3>2. z + 1 \in old
      BY <1>7, <1>8, <1>9, <2>2, <3>1
    <3>3. f[z + 1] = z
      BY <1>8, <1>10, <3>1, <3>2
    <3> QED
      BY <3>2, <3>3
  <2> QED
    BY <2>1, <2>2
<1>15. f \in [old -> new]
  BY <1>11, <1>12
<1>16. Cardinality(new) = Cardinality(old)
  BY <1>5, <1>13, <1>14, <1>15, SameSize
<1>17. name \in R => Count(t, R) > 0
  <2>1. name \in R => Among(t, R) # {}
    BY <1>4 DEF i
  <2> QED
    BY <1>3, <2>1, FS_EmptySet DEF Count
<1> QED
  BY <1>5, <1>16, <1>17 DEF Count, new

\* The search of a name depends on the names and the chains only.
LEMMA SameSearches ==
    ASSUME NEW k, NEW t, NEW u, TableOK(k, t), SameNames(t, u), NEW name \in Names
    PROVE  /\ Hits(u, name) = Hits(t, name) /\ User_Search_List(u, name) = User_Search_List(t, name)
           /\ Unchained(u, name) = Unchained(t, name)
<1> DEFINE c == t.chain[BucketOf[name]]
<1>1. c \in Seq(Slots)
  BY TablesAssumption DEF TableOK, TableType
<1>2. \A p \in DOMAIN c : c[p] \in Slots
  BY <1>1
<1>3. u.chain = t.chain /\ \A m \in Slots : u.slot[m].src = t.slot[m].src
  BY DEF SameNames
<1>4. Hits(u, name) = Hits(t, name)
  BY <1>2, <1>3 DEF Hits
<1> QED
  BY <1>3, <1>4 DEF User_Search_List, Unchained

\* An edit of values before a deletion is part of the deletion.
LEMMA SameThenDeleted ==
    ASSUME NEW k, NEW t, NEW w, NEW u, NEW name,
           TableOK(k, t), SameNames(t, w), Deleted(w, u, name)
    PROVE  Deleted(t, u, name)
<1> DEFINE i == User_Search_List(t, name)
<1>1. name \in Names
  BY DEF Deleted
<1>2. User_Search_List(w, name) = i /\ Unchained(w, name) = Unchained(t, name)
  BY <1>1, SameSearches
<1>3. t.size \in 0..TableSize /\ TableSize \in Nat /\ w.size = t.size
      /\ \A m \in Slots : w.slot[m].src = t.slot[m].src
  BY CountIsNatural DEF SameNames
<1> HIDE DEF i
<1>4. ASSUME NEW m \in 0..(t.size - 2)
      PROVE  u.slot[m].src = IF m < i THEN t.slot[m].src ELSE t.slot[m + 1].src
  <2>1. m \in Slots /\ m + 1 \in Slots /\ m \in 0..(w.size - 2)
    BY <1>3, <1>4 DEF Slots
  <2> QED
    BY <1>2, <1>3, <2>1 DEF Deleted
<1> QED
  BY <1>1, <1>2, <1>3, <1>4 DEF Deleted, i

\* The rows keep their counts when no name changes ...
LEMMA SameKeepsRows ==
    ASSUME NEW k, NEW t, NEW u, TableOK(k, t), RowsOK(t), SameNames(t, u)
    PROVE  RowsOK(u)
<1>1. Used(u) = Used(t) /\ Used(t) \subseteq Slots
  BY SameCounts, CountIsNatural
<1>2. ASSUME NEW b \in Buckets PROVE Len(u.chain[b]) = Count(u, Row(b))
  <2>1. Count(u, Row(b)) = Count(t, Row(b))
    BY SameCounts
  <2>2. Len(t.chain[b]) = Count(t, Row(b))
    BY DEF RowsOK
  <2>3. u.chain = t.chain
    BY DEF SameNames
  <2> QED
    BY <2>1, <2>2, <2>3
<1>3. ASSUME NEW i \in Used(u) PROVE u.slot[i].src \in Names
  BY <1>1 DEF SameNames, RowsOK
<1> QED
  BY <1>2, <1>3 DEF RowsOK

\* ... when an entry is appended ...
LEMMA AddedKeepsRows ==
    ASSUME NEW k, NEW t, NEW u, TableOK(k, t), RowsOK(t), NEW key, Added(t, u, key)
    PROVE  RowsOK(u)
<1>1. /\ key \in Names /\ t.size < TableSize /\ u.size = t.size + 1
      /\ u.chain = [t.chain EXCEPT ![BucketOf[key]] = Append(@, t.size)]
      /\ \A m \in Slots : u.slot[m].src = IF m = t.size THEN key ELSE t.slot[m].src
  BY DEF Added
<1>2. t.size \in 0..TableSize /\ TableSize \in Nat /\ Used(t) \subseteq Slots
  BY CountIsNatural
<1>3. t.chain \in [Buckets -> Seq(Slots)]
  BY DEF TableOK, TableType
<1>4. ASSUME NEW b \in Buckets PROVE Len(u.chain[b]) = Count(u, Row(b))
  <2>1. /\ Count(u, Row(b)) = Count(t, Row(b)) + (IF key \in Row(b) THEN 1 ELSE 0)
        /\ Len(t.chain[b]) = Count(t, Row(b)) /\ Count(t, Row(b)) \in Nat
    BY AddedCounts, CountIsNatural DEF RowsOK
  <2>2. key \in Row(b) <=> BucketOf[key] = b
    BY <1>1 DEF Row
  <2>3. CASE BucketOf[key] = b
    <3>1. u.chain[b] = Append(t.chain[b], t.size) /\ t.chain[b] \in Seq(Slots)
      BY <1>1, <1>3, <2>3
    <3>2. Len(u.chain[b]) = Len(t.chain[b]) + 1
      BY <3>1
    <3> QED
      BY <2>1, <2>2, <2>3, <3>2
  <2>4. CASE BucketOf[key] # b
    <3>1. u.chain[b] = t.chain[b]
      BY <1>1, <1>3, <2>4
    <3> QED
      BY <2>1, <2>2, <2>4, <3>1
  <2> QED
    BY <2>3, <2>4
<1>5. ASSUME NEW i \in Used(u) PROVE u.slot[i].src \in Names
  <2>1. i \in Slots /\ (i # t.size => i \in Used(t))
    BY <1>1, <1>2 DEF Used, Slots
  <2> QED
    BY <1>1, <2>1 DEF RowsOK
<1> QED
  BY <1>4, <1>5 DEF RowsOK

\* ... and when one is removed.
LEMMA DeletedKeepsRows ==
    ASSUME NEW k, NEW t, NEW u, TableOK(k, t), RowsOK(t), NEW name, Deleted(t, u, name)
    PROVE  RowsOK(u)
<1> DEFINE p == Min(Hits(t, name))
           a == BucketOf[name]
           c == t.chain[a]
           shorter == [j \in 1..(Len(c) - 1) |-> IF j < p THEN c[j] ELSE c[j + 1]]
           i == User_Search_List(t, name)
<1>1. /\ name \in Names /\ i # FAIL /\ u.size = t.size - 1 /\ u.chain = Unchained(t, name)
      /\ \A m \in 0..(t.size - 2) :
            u.slot[m].src = IF m < i THEN t.slot[m].src ELSE t.slot[m + 1].src
  BY DEF Deleted
<1>2. t.size \in 0..TableSize /\ TableSize \in Nat /\ Used(t) \subseteq Slots
  BY CountIsNatural
<1>3. t.chain \in [Buckets -> Seq(Slots)] /\ a \in Buckets
  BY <1>1, TablesAssumption DEF TableOK, TableType
<1>4. p \in DOMAIN c /\ i \in Used(t)
  BY <1>1, SearchFinds DEF Used
<1>5. u.chain = [t.chain EXCEPT ![a] = shorter]
  BY <1>1 DEF Unchained
<1>6. c \in Seq(Slots) /\ Len(c) \in Nat /\ Len(c) # 0
  BY <1>3, <1>4
<1>7. Len(shorter) = Len(c) - 1
  <2>1. Len(c) - 1 \in Nat
    BY <1>6
  <2> QED
    BY <2>1
<1> HIDE DEF p, shorter, i
<1>8. ASSUME NEW b \in Buckets PROVE Len(u.chain[b]) = Count(u, Row(b))
  <2>1. /\ Count(u, Row(b)) = Count(t, Row(b)) - (IF name \in Row(b) THEN 1 ELSE 0)
        /\ Len(t.chain[b]) = Count(t, Row(b)) /\ Count(t, Row(b)) \in Nat
    BY DeletedCounts, CountIsNatural DEF RowsOK
  <2>2. name \in Row(b) <=> a = b
    BY <1>1 DEF Row
  <2>3. CASE a = b
    <3>1. u.chain[b] = shorter
      BY <1>3, <1>5, <2>3
    <3> QED
      BY <1>7, <2>1, <2>2, <2>3, <3>1
  <2>4. CASE a # b
    <3>1. u.chain[b] = t.chain[b]
      BY <1>3, <1>5, <2>4
    <3> QED
      BY <2>1, <2>2, <2>4, <3>1
  <2> QED
    BY <2>3, <2>4
<1>9. ASSUME NEW m \in Used(u) PROVE u.slot[m].src \in Names
  <2>1. m \in 0..(t.size - 2) /\ m \in Used(t) /\ m + 1 \in Used(t)
    BY <1>1, <1>2 DEF Used
  <2> QED
    BY <1>1, <2>1 DEF RowsOK
<1> QED
  BY <1>8, <1>9 DEF RowsOK

-----------------------------------------------------------------------------
(* The edits of the four files, by what they do to the names.              *)

\* A request takes an entry or none, and then adds one or none.
Takes(t, w) == SameNames(t, w) \/ \E gone \in Names : Deleted(t, w, gone)
Adds(w, u) == SameNames(w, u) \/ \E new \in Names : Added(w, u, new)
EditOf(k, t, u) ==
    /\ TableOK(k, t) /\ TableOK(k, u)
    /\ \E w : TableOK(k, w) /\ Takes(t, w) /\ Adds(w, u)

\* An edit that stops at an undefined access changes no name.
LEMMA FaultyIsSame ==
    ASSUME NEW k, NEW t, TableOK(k, t), NEW fault
    PROVE  SameNames(t, t) /\ SameNames(t, Faulty(t, fault))
<1>1. /\ Faulty(t, fault).slot = t.slot /\ Faulty(t, fault).size = t.size
      /\ Faulty(t, fault).chain = t.chain
  BY DEF TableOK, TableType, Faulty
<1> QED
  BY <1>1 DEF SameNames

\* Appending stores the name, or stops.
LEMMA AppendedAdds ==
    ASSUME NEW k, NEW t, TableOK(k, t), NEW key \in Names, NEW v, NEW values
    PROVE  Adds(t, Appended(t, key, v, values))
<1> DEFINE b == BucketOf[key]
           i == t.size
           e == t.slot[i]
           new == [src |-> key, dst |-> [e.dst EXCEPT ![e.n] = v], n |-> e.n + values]
           u == Appended(t, key, v, values)
<1>1. CASE t.size = TableSize \/ Len(t.chain[b]) = ChainSize \/ e.n = ValueSize
  BY <1>1, FaultyIsSame DEF Appended, Adds
<1>2. CASE ~(t.size = TableSize \/ Len(t.chain[b]) = ChainSize \/ e.n = ValueSize)
  <2>1. u = [t EXCEPT !.slot[i] = new, !.size = @ + 1, !.chain[b] = Append(@, i)]
    BY <1>2 DEF Appended
  <2>2. /\ t \in TableType /\ t.slot \in [Slots -> Entry] /\ t.size \in 0..TableSize
        /\ TableSize \in Nat
    BY TablesAssumption DEF TableOK, TableType
  <2>3. new.src = key
    OBVIOUS
  <2> HIDE DEF new, u, b
  <2>4. /\ u.slot = [t.slot EXCEPT ![i] = new] /\ u.size = t.size + 1
        /\ u.chain = [t.chain EXCEPT ![b] = Append(@, i)]
    BY <2>1, <2>2 DEF TableType
  <2>5. t.size < TableSize
    BY <1>2, <2>2
  <2>6. \A m \in Slots : u.slot[m].src = IF m = t.size THEN key ELSE t.slot[m].src
    BY <2>2, <2>3, <2>4
  <2>7. Added(t, u, key)
    BY <2>4, <2>5, <2>6 DEF Added, b
  <2> QED
    BY <2>7 DEF Adds, u
<1> QED
  BY <1>1, <1>2

\* Closing the gap of a name that was found takes its entry.
LEMMA RemovedTakes ==
    ASSUME NEW k, NEW t, TableOK(k, t), NEW name \in Names \cup {NoName},
           User_Search_List(t, name) # FAIL, NEW slots,
           \A m \in 0..(t.size - 2) : slots[m].src =
               IF m < User_Search_List(t, name) THEN t.slot[m].src ELSE t.slot[m + 1].src
    PROVE  name \in Names /\ Deleted(t, Removed(t, name, slots), name)
<1> DEFINE r == Removed(t, name, slots)
           u == Unchained(t, name)
<1>1. name \in Names
  BY SearchFinds
<1>2. t = [slot |-> t.slot, size |-> t.size, chain |-> t.chain, fault |-> t.fault]
  BY DEF TableOK, TableType
<1>3. r = [t EXCEPT !.slot = slots, !.size = @ - 1, !.chain = u]
  BY DEF Removed
<1> HIDE DEF r, u
<1>4. r.slot = slots /\ r.size = t.size - 1 /\ r.chain = u
  BY <1>2, <1>3
<1>5. Deleted(t, r, name)
  BY <1>1, <1>4 DEF Deleted, u
<1> QED
  BY <1>1, <1>5 DEF r

\* The three shifts move the names alike.
LEMMA ShiftsMoveNames ==
    ASSUME NEW k, NEW t, TableOK(k, t), NEW d \in 0..(t.size - 1), NEW m \in 0..(t.size - 2),
           NEW s \in {ShiftedClear(t, d), Shifted(t, d), ShiftedValues(t, d)}
    PROVE  s[m].src = IF m < d THEN t.slot[m].src ELSE t.slot[m + 1].src
<1>1. /\ t.slot \in [Slots -> Entry] /\ DOMAIN t.slot = Slots
      /\ t.size \in 0..TableSize /\ TableSize \in Nat
  BY TablesAssumption DEF TableOK, TableType
<1>2. m \in Slots /\ ~(m >= t.size) /\ m # t.size - 1
  BY <1>1 DEF Slots
<1>3. CASE s = ShiftedClear(t, d) \/ s = Shifted(t, d)
  <2>1. s[m] = IF m < d THEN t.slot[m] ELSE t.slot[m + 1]
    BY <1>1, <1>2, <1>3 DEF ShiftedClear, Shifted
  <2> QED
    BY <2>1
<1>4. CASE s = ShiftedValues(t, d)
  <2> DEFINE e == t.slot[m]
             next == t.slot[m + 1]
             dst == [j \in DOMAIN e.dst |-> IF j < e.n THEN next.dst[j] ELSE e.dst[j]]
  <2>1. e = [src |-> e.src, dst |-> e.dst, n |-> e.n]
    BY <1>1, <1>2 DEF Entry
  <2>2. s[m] = IF m < d THEN e ELSE [e EXCEPT !.src = next.src,
            !.dst = [j \in DOMAIN @ |-> IF j < e.n THEN next.dst[j] ELSE @[j]]]
    BY <1>1, <1>2, <1>4 DEF ShiftedValues
  <2>3. ~(m < d) => s[m] = [src |-> next.src, dst |-> dst, n |-> e.n]
    BY <2>1, <2>2
  <2> HIDE DEF e, next, dst
  <2>4. s[m].src = IF m < d THEN e.src ELSE next.src
    BY <2>2, <2>3
  <2> QED
    BY <2>4 DEF e, next
<1> QED
  BY <1>3, <1>4

\* Deleting a user, a lettering or a forwarding takes one entry of that name,
\* or none.
LEMMA DeletionsTake ==
    ASSUME NEW k, NEW t, TableOK(k, t), NEW name \in Names \cup {NoName}
    PROVE  /\ Takes(t, User_Del_List(t, name)) /\ Takes(t, Lettering_Del_List(t, name))
           /\ Takes(t, CallForwarding_Del_List(t, name))
<1> DEFINE i == User_Search_List(t, name)
<1>1. CASE i = FAIL
  BY <1>1, FaultyIsSame DEF User_Del_List, Lettering_Del_List, Lettering_Search_List,
     CallForwarding_Del_List, CallForwarding_Search_List, Takes
<1>2. CASE i # FAIL
  <2>1. i \in 0..(t.size - 1)
    BY <1>2, SearchFinds
  <2>2. ASSUME NEW s \in {ShiftedClear(t, i), Shifted(t, i)}
        PROVE  Takes(t, Removed(t, name, s))
    <3>1. \A m \in 0..(t.size - 2) : s[m].src = IF m < i THEN t.slot[m].src ELSE t.slot[m + 1].src
      BY <2>1, ShiftsMoveNames
    <3>2. name \in Names /\ Deleted(t, Removed(t, name, s), name)
      BY <1>2, <3>1, RemovedTakes
    <3> QED
      BY <3>2 DEF Takes
  <2> DEFINE clear == Removed(t, name, ShiftedClear(t, i))
             shift == Removed(t, name, Shifted(t, i))
  <2>3. User_Del_List(t, name) = clear /\ Lettering_Del_List(t, name) = clear
    BY <1>2 DEF User_Del_List, Lettering_Del_List, Lettering_Search_List
  <2>4. CallForwarding_Del_List(t, name) \in {shift, Faulty(t, "array overrun")}
    BY <1>2 DEF CallForwarding_Del_List, CallForwarding_Search_List
  <2>5. Takes(t, clear) /\ Takes(t, shift)
    BY <2>2
  <2>6. Takes(t, Faulty(t, "array overrun"))
    BY FaultyIsSame DEF Takes
  <2> HIDE DEF clear, shift, i
  <2> QED
    BY <2>3, <2>4, <2>5, <2>6
<1> QED
  BY <1>1, <1>2

\* Taking back a rejection takes an entry that has no value left, or none.
LEMMA RejectionDeletionTakes ==
    ASSUME NEW t, TableOK("RejectCall", t), NEW key \in Names \cup {NoName}, NEW value
    PROVE  Takes(t, RejectCall_Del_List(t, key, value))
<1> DEFINE i == User_Search_List(t, key)
           j == RejectCall_Search_Value_List(t, key, value)
           e == WithoutValue(t.slot[i], j)
           less == [t EXCEPT !.slot[i] = e]
           u == RejectCall_Del_List(t, key, value)
<1>1. CASE j = FAIL
  BY <1>1, FaultyIsSame DEF RejectCall_Del_List, RejectCall_Search_Key_List, Takes
<1>2. CASE j # FAIL
  <2>1. /\ i # FAIL /\ i \in 0..(t.size - 1) /\ i \in Slots /\ key \in Names
        /\ t.slot[i] \in Entry /\ EntryOK("RejectCall", t.slot[i])
        /\ j \in 0..(t.slot[i].n - 1)
    BY <1>2, ValueSearchFinds
  <2>2. e \in Entry /\ EntryOK("RejectCall", e) /\ e.src = t.slot[i].src
    BY <2>1, WithoutValueIsOK
  <2>3. less = [t EXCEPT !.slot[i] = WithoutValue(@, j)]
    BY <2>1 DEF TableOK, TableType
  <2>4. u \in {less, Faulty(t, "array overrun"), Removed(less, key, ShiftedValues(less, i))}
    BY <1>2, <2>3 DEF RejectCall_Del_List, RejectCall_Search_Key_List
  <2>5. t.size \in 0..TableSize /\ TableSize \in Nat
    BY TablesAssumption DEF TableOK, TableType
  <2>6. i < t.size
    BY <2>1, <2>5
  <2>7. SameNames(t, less)
    <3>1. /\ t = [slot |-> t.slot, size |-> t.size, chain |-> t.chain, fault |-> t.fault]
          /\ t.slot \in [Slots -> Entry]
      BY DEF TableOK, TableType
    <3> DEFINE slots == [t.slot EXCEPT ![i] = e]
    <3>2. less = [slot |-> slots, size |-> t.size, chain |-> t.chain, fault |-> t.fault]
      BY <3>1
    <3> HIDE DEF less, e, i
    <3>3. less.slot = slots /\ less.size = t.size /\ less.chain = t.chain
      BY <3>2
    <3> QED
      BY <2>1, <2>2, <3>1, <3>3 DEF SameNames
  <2> HIDE DEF e, j, i
  <2>8. TableOK("RejectCall", less) /\ less.size = t.size
    BY <2>1, <2>2, <2>6, ReplacedIsOK
  <2>9. User_Search_List(less, key) = i
    BY <2>1, <2>7, SameSearches DEF i
  <2> HIDE DEF less
  <2> DEFINE s == ShiftedValues(less, i)
  <2>10. \A m \in 0..(less.size - 2) : s[m].src = IF m < i THEN less.slot[m].src ELSE less.slot[m + 1].src
    BY <2>1, <2>8, ShiftsMoveNames
  <2>11. Deleted(less, Removed(less, key, s), key)
    <3> HIDE DEF s
    <3> QED
      BY <2>1, <2>8, <2>9, <2>10, RemovedTakes
  <2>12. Deleted(t, Removed(less, key, s), key)
    BY <2>7, <2>11, SameThenDeleted
  <2>13. CASE u = less
    BY <2>7, <2>13 DEF Takes
  <2>14. CASE u = Faulty(t, "array overrun")
    BY <2>14, FaultyIsSame DEF Takes
  <2>15. CASE u = Removed(less, key, s)
    <3> HIDE DEF s, u
    <3> QED
      BY <2>1, <2>12, <2>15 DEF Takes, u
  <2> QED
    BY <2>4, <2>13, <2>14, <2>15
<1> QED
  BY <1>1, <1>2

\* Adding a user or a forwarding adds an entry of that name, or none.
LEMMA AdditionsAdd ==
    ASSUME NEW k, NEW t, TableOK(k, t)
    PROVE  /\ \A name \in Names \cup {NoName} : Adds(t, User_Add_List(t, name))
           /\ \A ask \in Asked \cup {<<NoName, NoName>>} :
                 Adds(t, CallForwarding_Add_List(t, ask[1], ask[2]))
<1>1. Adds(t, t)
  BY FaultyIsSame DEF Adds
<1>2. ASSUME NEW name \in Names \cup {NoName} PROVE Adds(t, User_Add_List(t, name))
  <2>1. CASE name \in Names
    BY <1>1, <2>1, AppendedAdds DEF User_Add_List
  <2>2. CASE name = NoName
    BY <1>1, <2>2 DEF User_Add_List
  <2> QED
    BY <2>1, <2>2
<1>3. ASSUME NEW ask \in Asked \cup {<<NoName, NoName>>}
      PROVE  Adds(t, CallForwarding_Add_List(t, ask[1], ask[2]))
  <2>1. CASE NoName \in {ask[1], ask[2]}
    BY <1>1, <2>1 DEF CallForwarding_Add_List
  <2>2. CASE NoName \notin {ask[1], ask[2]}
    <3>1. ask[1] \in Names
      BY <2>2, AskIsNamed
    <3> QED
      BY <1>1, <3>1, AppendedAdds DEF CallForwarding_Add_List
  <2> QED
    BY <2>1, <2>2
<1> QED
  BY <1>2, <1>3

\* Rejecting a caller adds an entry of that name, or a value, or nothing.
LEMMA RejectionAdditionAdds ==
    ASSUME NEW t, TableOK("RejectCall", t), NEW ask \in Asked \cup {<<NoName, NoName>>}
    PROVE  Adds(t, RejectCall_Add_List(t, ask[1], ask[2]))
<1> DEFINE key == ask[1]
           value == ask[2]
           i == User_Search_List(t, key)
           e == t.slot[i]
           more == [e EXCEPT !.dst[e.n] = value, !.n = @ + 1]
           u == RejectCall_Add_List(t, key, value)
<1>1. CASE NoName \in {key, value}
  BY <1>1, FaultyIsSame DEF RejectCall_Add_List, Adds
<1>2. CASE NoName \notin {key, value}
  <2>1. key \in Names
    BY <1>2, AskIsNamed
  <2>2. CASE i = FAIL
    BY <1>2, <2>1, <2>2, AppendedAdds DEF RejectCall_Add_List, RejectCall_Search_Key_List
  <2>3. CASE i # FAIL
    <3>1. u \in {t, Faulty(t, "values overrun"), [t EXCEPT !.slot[i] = more]}
      BY <1>2, <2>3 DEF RejectCall_Add_List, RejectCall_Search_Key_List
    <3>2. i \in Slots /\ t.slot \in [Slots -> Entry]
          /\ t = [slot |-> t.slot, size |-> t.size, chain |-> t.chain, fault |-> t.fault]
      <4>1. i \in 0..(t.size - 1) /\ t.size \in 0..TableSize /\ TableSize \in Nat
        BY <2>1, <2>3, SearchFinds, TablesAssumption DEF TableOK, TableType
      <4> HIDE DEF i
      <4> QED
        BY <4>1 DEF TableOK, TableType, Slots
    <3>3. e = [src |-> e.src, dst |-> e.dst, n |-> e.n]
      BY <3>2 DEF Entry
    <3>4. more.src = e.src
      BY <3>3
    <3> DEFINE slots == [t.slot EXCEPT ![i] = more]
               r == [t EXCEPT !.slot[i] = more]
    <3> HIDE DEF more, i, u
    <3>5. r = [slot |-> slots, size |-> t.size, chain |-> t.chain, fault |-> t.fault]
      BY <3>2
    <3>6. r.slot = slots /\ r.size = t.size /\ r.chain = t.chain
      BY <3>5
    <3>7. SameNames(t, r)
      BY <3>2, <3>4, <3>6 DEF SameNames
    <3> QED
      BY <3>1, <3>7, FaultyIsSame DEF Adds, u
  <2> QED
    BY <2>2, <2>3
<1> QED
  BY <1>1, <1>2

\* A lettering replaces the one there was: it takes an entry and adds one.
LEMMA LetteringAdditionEdits ==
    ASSUME NEW t, TableOK("Lettering", t), NEW ask \in Asked \cup {<<NoName, NoName>>}
    PROVE  EditOf("Lettering", t, Lettering_Add_List(t, ask[1], ask[2]))
<1> DEFINE u == Lettering_Add_List(t, ask[1], ask[2])
           w == IF NoName \in {ask[1], ask[2]} THEN t ELSE Lettering_Del_List(t, ask[1])
<1>1. TableOK("Lettering", u)
  BY LetteringAdditionIsOK
<1>2. TableOK("Lettering", w) /\ Takes(t, w)
  <2>1. CASE NoName \in {ask[1], ask[2]}
    BY <2>1, FaultyIsSame DEF Takes
  <2>2. CASE NoName \notin {ask[1], ask[2]}
    BY <2>2, AskIsNamed, ClearedDeletionIsOK, DeletionsTake
  <2> QED
    BY <2>1, <2>2
<1>3. Adds(w, u)
  <2>1. CASE NoName \in {ask[1], ask[2]}
    BY <2>1, FaultyIsSame DEF Adds, Lettering_Add_List
  <2>2. CASE NoName \notin {ask[1], ask[2]}
    <3>1. ask[1] \in Names /\ u = Appended(w, ask[1], ask[2], 0)
      BY <2>2, AskIsNamed DEF Lettering_Add_List
    <3> HIDE DEF u, w
    <3> QED
      BY <1>2, <3>1, AppendedAdds
  <2> QED
    BY <2>1, <2>2
<1> HIDE DEF u, w
<1>4. EditOf("Lettering", t, u)
  BY <1>1, <1>2, <1>3 DEF EditOf
<1> QED
  BY <1>4 DEF u

\* An edit that only takes, or only adds, is an edit.
LEMMA TakesOrAddsIsEdit ==
    ASSUME NEW k, NEW t, NEW u, TableOK(k, t), TableOK(k, u), Takes(t, u) \/ Adds(t, u)
    PROVE  EditOf(k, t, u)
<1>1. Takes(t, t) /\ Adds(u, u)
  BY FaultyIsSame DEF Takes, Adds
<1> QED
  BY <1>1 DEF EditOf

\* Every request and every command edits the table in this way.
LEMMA RequestsAreEdits ==
    ASSUME IInv,
           \/ \E name \in Names \cup {NoName} :
                 \/ SignUpReq(name) \/ DelUser(name) \/ LetteringDelReq(name)
                 \/ CallForwardingDelReq(name)
                 \/ \E connected \in BOOLEAN, change \in Names : ModifyUser(name, change, connected)
                 \/ \E value \in Values : RejectCallDelReq(name, value)
           \/ \E ask \in Asked \cup {<<NoName, NoName>>} :
                 \/ LetteringAddReq(ask[1], ask[2]) \/ CallForwardingAddReq(ask[1], ask[2])
                 \/ RejectCallAddReq(ask[1], ask[2])
    PROVE  \E u : EditOf(kind, table, u) /\ Edited(u) /\ phase = "up"
<1> DEFINE Goal == \E u : EditOf(kind, table, u) /\ Edited(u) /\ phase = "up"
<1>1. TableOK(kind, table)
  BY DEF IInv
<1>2. ASSUME NEW name \in Names \cup {NoName}, SignUpReq(name) PROVE Goal
  <2>1. kind = "User" /\ phase = "up" /\ Edited(User_Add_List(table, name))
    BY <1>2 DEF SignUpReq, Serving
  <2>2. TableOK("User", User_Add_List(table, name)) /\ Adds(table, User_Add_List(table, name))
    BY <1>1, <2>1, UserAdditionIsOK, AdditionsAdd
  <2> QED
    BY <1>1, <2>1, <2>2, TakesOrAddsIsEdit
<1>3. ASSUME NEW name \in Names \cup {NoName}, DelUser(name) \/ LetteringDelReq(name) PROVE Goal
  <2> DEFINE u == IF DelUser(name) THEN User_Del_List(table, name)
                  ELSE Lettering_Del_List(table, name)
  <2>1. phase = "up" /\ Edited(u)
    BY <1>3 DEF DelUser, LetteringDelReq, Serving
  <2>2. TableOK(kind, u) /\ Takes(table, u)
    BY <1>1, ClearedDeletionIsOK, DeletionsTake
  <2> HIDE DEF u
  <2> QED
    BY <1>1, <2>1, <2>2, TakesOrAddsIsEdit
<1>4. ASSUME NEW name \in Names \cup {NoName}, CallForwardingDelReq(name) PROVE Goal
  <2>1. kind = "CallForwarding" /\ phase = "up" /\ Edited(CallForwarding_Del_List(table, name))
    BY <1>4 DEF CallForwardingDelReq, Serving
  <2>2. TableOK(kind, CallForwarding_Del_List(table, name))
        /\ Takes(table, CallForwarding_Del_List(table, name))
    BY <1>1, <2>1, CallForwardingEditsAreOK, DeletionsTake
  <2> QED
    BY <1>1, <2>1, <2>2, TakesOrAddsIsEdit
<1>5. ASSUME NEW name \in Names \cup {NoName}, NEW connected \in BOOLEAN,
             NEW change \in Names, ModifyUser(name, change, connected)
      PROVE  Goal
  <2> DEFINE w == IF connected THEN table ELSE User_Del_List(table, name)
             more == User_Add_List(w, change)
  <2>1. kind = "User" /\ phase = "up" /\ (Edited(more) \/ Edited(w))
    BY <1>5 DEF ModifyUser, Serving
  <2>2. TableOK("User", w) /\ Takes(table, w)
    BY <1>1, <2>1, ClearedDeletionIsOK, DeletionsTake, FaultyIsSame DEF Takes
  <2> HIDE DEF w
  <2>3. TableOK("User", more) /\ Adds(w, more)
    BY <2>2, UserAdditionIsOK, AdditionsAdd
  <2> HIDE DEF more
  <2>4. EditOf("User", table, w) /\ EditOf("User", table, more)
    BY <1>1, <2>1, <2>2, <2>3, TakesOrAddsIsEdit DEF EditOf
  <2> QED
    BY <2>1, <2>4
<1>6. ASSUME NEW name \in Names \cup {NoName}, NEW value \in Values, RejectCallDelReq(name, value)
      PROVE  Goal
  <2> DEFINE u == RejectCall_Del_List(table, name, value)
  <2>1. kind = "RejectCall" /\ phase = "up" /\ Edited(u)
    BY <1>6 DEF RejectCallDelReq, Serving
  <2>2. TableOK("RejectCall", u) /\ Takes(table, u)
    BY <1>1, <2>1, RejectionDeletionIsOK, RejectionDeletionTakes
  <2> HIDE DEF u
  <2> QED
    BY <1>1, <2>1, <2>2, TakesOrAddsIsEdit
<1>7. ASSUME NEW ask \in Asked \cup {<<NoName, NoName>>}, LetteringAddReq(ask[1], ask[2])
      PROVE  Goal
  <2>1. kind = "Lettering" /\ phase = "up" /\ Edited(Lettering_Add_List(table, ask[1], ask[2]))
    BY <1>7 DEF LetteringAddReq, Serving
  <2> QED
    BY <1>1, <2>1, LetteringAdditionEdits
<1>8. ASSUME NEW ask \in Asked \cup {<<NoName, NoName>>}, CallForwardingAddReq(ask[1], ask[2])
      PROVE  Goal
  <2> DEFINE u == CallForwarding_Add_List(table, ask[1], ask[2])
  <2>1. kind = "CallForwarding" /\ phase = "up" /\ Edited(u)
    BY <1>8 DEF CallForwardingAddReq, Serving
  <2>2. TableOK(kind, u) /\ Adds(table, u)
    BY <1>1, <2>1, CallForwardingEditsAreOK, AdditionsAdd
  <2> HIDE DEF u
  <2> QED
    BY <1>1, <2>1, <2>2, TakesOrAddsIsEdit
<1>9. ASSUME NEW ask \in Asked \cup {<<NoName, NoName>>}, RejectCallAddReq(ask[1], ask[2])
      PROVE  Goal
  <2> DEFINE u == RejectCall_Add_List(table, ask[1], ask[2])
  <2>1. kind = "RejectCall" /\ phase = "up" /\ Edited(u)
    BY <1>9 DEF RejectCallAddReq, Serving
  <2>2. TableOK("RejectCall", u) /\ Adds(table, u)
    BY <1>1, <2>1, RejectionAdditionIsOK, RejectionAdditionAdds
  <2> HIDE DEF u
  <2> QED
    BY <1>1, <2>1, <2>2, TakesOrAddsIsEdit
<1> QED
  BY <1>2, <1>3, <1>4, <1>5, <1>6, <1>7, <1>8, <1>9

\* So the rows keep their counts through every request.
LEMMA EditKeepsRows ==
    ASSUME NEW k, NEW t, NEW u, EditOf(k, t, u), RowsOK(t)
    PROVE  RowsOK(u)
<1>1. PICK w : TableOK(k, w) /\ Takes(t, w) /\ Adds(w, u)
  BY DEF EditOf
<1>2. RowsOK(w)
  BY <1>1, SameKeepsRows, DeletedKeepsRows DEF EditOf, Takes
<1> QED
  BY <1>1, <1>2, SameKeepsRows, AddedKeepsRows DEF Adds

-----------------------------------------------------------------------------
(* The file has a line for every entry.                                    *)

\* Lines that name the entries of a table in order are as many of each name.
LEMMA LinesCountEntries ==
    ASSUME NEW k, NEW t, TableOK(k, t), NEW f, DOMAIN f = 1..t.size,
           \A m \in 1..t.size : f[m].src = t.slot[m - 1].src, NEW R
    PROVE  IsFiniteSet(LinesOf(f, R)) /\ Lines(f, R) = Count(t, R)
<1> DEFINE S == Among(t, R)
           T == LinesOf(f, R)
           g == [i \in S |-> i + 1]
<1>1. IsFiniteSet(S) /\ t.size \in Nat
  BY CountIsNatural
<1>2. \A i : i \in S <=> i \in Int /\ 0 <= i /\ i <= t.size - 1 /\ t.slot[i].src \in R
  BY <1>1 DEF Among, Used
<1>3. \A m : m \in T <=> m \in Int /\ 1 <= m /\ m <= t.size /\ t.slot[m - 1].src \in R
  BY <1>1 DEF LinesOf
<1>4. \A i \in S : g[i] = i + 1
  OBVIOUS
<1>5. g = [i \in S |-> g[i]]
  OBVIOUS
<1> HIDE DEF S, T, g
<1>6. ASSUME NEW i \in S PROVE g[i] \in T
  <2> DEFINE m == i + 1
  <2>1. m \in Int /\ 1 <= m /\ m <= t.size /\ m - 1 = i /\ t.slot[i].src \in R
    BY <1>1, <1>2
  <2>2. g[i] = m
    BY <1>4
  <2> HIDE DEF m
  <2> QED
    BY <1>3, <2>1, <2>2
<1>7. \A x, y \in S : g[x] = g[y] => x = y
  BY <1>2, <1>4
<1>8. ASSUME NEW z \in T PROVE \E x \in S : g[x] = z
  <2>1. z \in Int /\ 1 <= z /\ z <= t.size /\ t.slot[z - 1].src \in R
    BY <1>3
  <2>2. z - 1 \in S
    BY <1>1, <1>2, <2>1
  <2>3. g[z - 1] = z
    BY <1>4, <2>1, <2>2
  <2> QED
    BY <2>2, <2>3
<1>9. g \in [S -> T]
  BY <1>5, <1>6
<1>10. IsFiniteSet(T) /\ Cardinality(T) = Cardinality(S)
  BY <1>1, <1>7, <1>8, <1>9, SameSize
<1> QED
  BY <1>10 DEF S, T, Lines, Count

\* Printing a table gives a line for each entry, of its name.
LEMMA PrintedNames ==
    ASSUME kind \in Kinds, TableOK(kind, table)
    PROVE  /\ DOMAIN Printed(table) = 1..table.size
           /\ \A m \in 1..table.size : Printed(table)[m].src = table.slot[m - 1].src
<1>1. /\ table.slot \in [Slots -> Entry] /\ table.size \in 0..TableSize /\ TableSize \in Nat
      /\ kind \in {"User", "Lettering", "CallForwarding", "RejectCall"}
  BY TablesAssumption DEF TableOK, TableType
<1>2. CASE kind # "RejectCall"
  <2>1. Printed(table) = [m \in 1..table.size |-> table.slot[m - 1]]
    BY <1>1, <1>2 DEF Printed, User_Save_File, Lettering_Save_File, CallForwarding_Save_File
  <2> QED
    BY <2>1
<1>3. CASE kind = "RejectCall"
  <2>1. Printed(table) = [m \in 1..table.size |->
                            [table.slot[m - 1] EXCEPT !.n = IF @ = 0 THEN 1 ELSE @]]
    BY <1>3 DEF Printed, RejectCall_Save_File
  <2>2. ASSUME NEW e \in Entry PROVE [e EXCEPT !.n = IF @ = 0 THEN 1 ELSE @].src = e.src
    BY DEF Entry
  <2>3. ASSUME NEW m \in 1..table.size PROVE table.slot[m - 1] \in Entry
    BY <1>1, <2>3 DEF Slots
  <2>4. \A m \in 1..table.size : Printed(table)[m] =
            [table.slot[m - 1] EXCEPT !.n = IF @ = 0 THEN 1 ELSE @]
    BY <2>1
  <2> QED
    BY <2>1, <2>2, <2>3, <2>4
<1> QED
  BY <1>2, <1>3

\* Reading a line back keeps its name.
LEMMA RereadKeepsName ==
    ASSUME kind \in Kinds, NEW e \in Entry
    PROVE  Reread(e).src = e.src
<1>1. e = [src |-> e.src, dst |-> e.dst, n |-> e.n]
  BY DEF Entry
<1> DEFINE dst == [e.dst EXCEPT ![0] = Cut]
           cut == [src |-> e.src, dst |-> dst, n |-> e.n]
<1>2. [e EXCEPT !.dst[0] = Cut] = cut
  BY <1>1
<1>3. Reread(e) \in {e, [e EXCEPT !.dst[0] = Cut]}
  BY TablesAssumption DEF Reread, User_Init_List, RejectCall_Init_List, Lettering_Init_List,
     CallForwarding_Init_List
<1> HIDE DEF dst
<1>4. cut.src = e.src
  OBVIOUS
<1> HIDE DEF cut
<1> QED
  BY <1>2, <1>3, <1>4

-----------------------------------------------------------------------------
(* The invariant.                                                          *)

\* A table without entries has empty chains, and a file without lines loads.
LEMMA EmptyCounts ==
    /\ RowsOK(Blank) /\ Indexed(Blank) /\ Blank.size = 0 /\ Blank.fault = "none" /\ Used(Blank) = {}
    /\ \A R : Count(Blank, R) = 0 /\ Lines(<<>>, R) = 0
<1>1. Used(Blank) = {} /\ Blank.size = 0 /\ Blank.fault = "none"
  BY DEF Used, Blank
<1>2. ASSUME NEW R PROVE Among(Blank, R) = {} /\ LinesOf(<<>>, R) = {}
  BY <1>1 DEF Among, LinesOf
<1>3. ASSUME NEW R PROVE Count(Blank, R) = 0 /\ Lines(<<>>, R) = 0
  BY <1>2, FS_EmptySet DEF Count, Lines
<1>4. \A b \in Buckets : Len(Blank.chain[b]) = 0
  BY DEF Blank
<1> QED
  BY <1>1, <1>3, <1>4 DEF RowsOK, Indexed

\* The invariant holds initially.
LEMMA InitNames == Init => NamesInv
<1> SUFFICES ASSUME Init PROVE NamesInv
  OBVIOUS
<1>1. table = Blank /\ file = <<>> /\ phase = "down"
  BY DEF Init
<1>2. RowsOK(table)
  BY <1>1, EmptyCounts
<1>3. FileLoads
  BY <1>1, EmptyCounts, TablesAssumption DEF FileLoads
<1> QED
  BY <1>1, <1>2, <1>3 DEF NamesInv

\* A request keeps it, whether its file was opened or not.
LEMMA EditedNames ==
    ASSUME NamesInv, NEW u, EditOf(kind, table, u), Edited(u), phase = "up"
    PROVE  NamesInv'
<1>1. /\ table' = u
      /\ \/ UNCHANGED <<file, phase>>
         \/ u.fault = "none" /\ file' = <<>> /\ phase' = "saving"
  BY DEF Edited
<1>2. RowsOK(u)
  BY EditKeepsRows DEF NamesInv
<1>3. RowsOK(table)'
  <2>1. RowsOK(table')
    BY <1>1, <1>2
  <2> QED
    BY <2>1
<1>4. FileLoads'
  <2>1. CASE UNCHANGED file
    BY <2>1 DEF FileLoads, NamesInv
  <2>2. CASE file' = <<>>
    <3>1. TableSize \in Nat /\ ChainSize \in Nat /\ Len(<<>>) = 0 /\ DOMAIN <<>> = {}
      BY TablesAssumption
    <3>2. \A b \in Buckets : Lines(file', Row(b)) <= ChainSize
      BY <2>2, <3>1, EmptyCounts
    <3>3. \A m \in DOMAIN file' : file'[m].src \in Names
      BY <2>2, <3>1
    <3>4. Len(file') <= TableSize
      BY <2>2, <3>1
    <3> QED
      BY <3>2, <3>3, <3>4 DEF FileLoads
  <2> QED
    BY <1>1, <2>1, <2>2
<1>5. (phase = "saving" => table.fault = "none")'
  BY <1>1
<1> QED
  BY <1>1, <1>3, <1>4, <1>5 DEF NamesInv

\* So does writing the file: it gets a line of each entry, and no more of a row
\* than its chain has indices.
LEMMA SaveFileNames ==
    ASSUME IInv, NamesInv, SaveFile
    PROVE  NamesInv' /\ \A R : Lines(file', R) = Count(table, R)
<1>1. file' = Printed(table) /\ UNCHANGED table /\ phase' = "up"
  BY DEF SaveFile
<1>2. TableOK(kind, table) /\ kind \in Kinds
  BY DEF IInv
<1> DEFINE f == Printed(table)
<1>3. DOMAIN f = 1..table.size /\ \A m \in 1..table.size : f[m].src = table.slot[m - 1].src
  BY <1>2, PrintedNames
<1>4. f \in Seq(Entry)
  BY <1>2, PrintedIsOK
<1> HIDE DEF f
<1>5. \A R : Lines(f, R) = Count(table, R)
  BY <1>2, <1>3, LinesCountEntries
<1>6. table.size \in 0..TableSize /\ TableSize \in Nat
  BY <1>2, CountIsNatural
<1>7. Len(f) <= TableSize
  BY <1>3, <1>4, <1>6
<1>8. \A b \in Buckets : Lines(f, Row(b)) <= ChainSize
  BY <1>2, <1>5 DEF NamesInv, RowsOK, TableOK
<1>9. ASSUME NEW m \in DOMAIN f PROVE f[m].src \in Names
  <2>1. m \in 1..table.size /\ m - 1 \in Used(table)
    BY <1>3, <1>6 DEF Used
  <2> QED
    BY <1>3, <2>1 DEF NamesInv, RowsOK
<1>10. file' = f
  BY <1>1 DEF f
<1>11. FileLoads'
  BY <1>7, <1>8, <1>9, <1>10 DEF FileLoads
<1>12. RowsOK(table)'
  BY <1>1 DEF NamesInv
<1> QED
  BY <1>1, <1>5, <1>10, <1>11, <1>12 DEF NamesInv

\* The row of the next line has room: the chain holds the lines of that row
\* read so far, fewer than the file has.
LEMMA NextLineFits ==
    ASSUME IInv, NamesInv, LoadedSoFar, NEW m, m = table.size + 1, m <= Len(file)
    PROVE  /\ m \in DOMAIN file /\ file[m] \in Entry /\ file[m].src \in Names
           /\ BucketOf[file[m].src] \in Buckets
           /\ table.size < TableSize
           /\ Len(table.chain[BucketOf[file[m].src]]) < ChainSize
<1> DEFINE b == BucketOf[file[m].src]
           f == [x \in 1..table.size |-> file[x]]
           part == LinesOf(f, Row(b))
           whole == LinesOf(file, Row(b))
<1>1. TableOK(kind, table) /\ file \in Seq(Entry)
  BY DEF IInv, FileOK
<1>2. table.size \in 0..TableSize /\ TableSize \in Nat
  BY <1>1, CountIsNatural
<1>3. DOMAIN file = 1..Len(file) /\ Len(file) \in Nat /\ Len(file) <= TableSize
  BY <1>1 DEF NamesInv, FileLoads
<1>4. m \in DOMAIN file /\ table.size < TableSize /\ m \in Int
  BY <1>2, <1>3
<1>5. file[m] \in Entry /\ file[m].src \in Names
  BY <1>1, <1>4 DEF NamesInv, FileLoads
<1>6. b \in Buckets
  BY <1>5, TablesAssumption
<1>7. DOMAIN f = 1..table.size /\ \A x \in 1..table.size : f[x].src = table.slot[x - 1].src
  <2>1. DOMAIN f = 1..table.size /\ \A x \in 1..table.size : f[x] = file[x]
    OBVIOUS
  <2>2. ASSUME NEW x \in 1..table.size PROVE file[x].src = table.slot[x - 1].src
    <3> DEFINE i == x - 1
    <3>1. i \in Used(table) /\ i + 1 = x
      BY <1>2 DEF Used
    <3> HIDE DEF i
    <3>2. table.slot[i].src = file[i + 1].src
      BY <3>1 DEF LoadedSoFar
    <3> QED
      BY <3>1, <3>2 DEF i
  <2> QED
    BY <2>1, <2>2
<1>8. part \subseteq whole /\ m \in whole /\ m \notin part
  <2>1. m \notin 1..table.size /\ \A x \in 1..table.size : x \in DOMAIN file /\ f[x] = file[x]
    BY <1>2, <1>3
  <2>2. file[m].src \in Row(b)
    BY <1>5 DEF Row
  <2> HIDE DEF b
  <2> QED
    BY <1>4, <2>1, <2>2 DEF LinesOf
<1>9. IsFiniteSet(whole)
  <2>1. IsFiniteSet(1..Len(file))
    <3> DEFINE n == Len(file)
    <3>1. n \in Int
      BY <1>3
    <3> HIDE DEF n
    <3>2. IsFiniteSet(1..n)
      BY <3>1, FS_Interval
    <3> QED
      BY <3>2 DEF n
  <2>2. whole \subseteq 1..Len(file)
    BY <1>3 DEF LinesOf
  <2> QED
    BY <2>1, <2>2, FS_Subset
<1>10. Len(table.chain[b]) = Cardinality(part)
  <2>1. Lines(f, Row(b)) = Count(table, Row(b))
    <3> HIDE DEF f
    <3> QED
      BY <1>1, <1>7, LinesCountEntries
  <2> QED
    BY <1>6, <2>1 DEF NamesInv, RowsOK, Lines
<1>11. Cardinality(whole) <= ChainSize /\ ChainSize \in Nat
  BY <1>6, TablesAssumption DEF NamesInv, FileLoads, Lines
<1> HIDE DEF part, whole, b
<1>12. /\ Cardinality(part) \in Nat /\ Cardinality(whole) \in Nat
       /\ Cardinality(part) <= Cardinality(whole) /\ Cardinality(part) # Cardinality(whole)
  BY <1>8, <1>9, FS_Subset, FS_CardinalityType
<1>13. Len(table.chain[b]) < ChainSize
  BY <1>10, <1>11, <1>12
<1> QED
  BY <1>4, <1>5, <1>6, <1>13 DEF b

\* So reading a line keeps the invariant: it never stops at an array's end.
LEMMA LoadLineNames ==
    ASSUME IInv, NamesInv, LoadLine
    PROVE  NamesInv'
<1> DEFINE t == table
           m == t.size + 1
           e == Reread(file[m])
           b == BucketOf[e.src]
           slots == [t.slot EXCEPT ![t.size] = e]
           chain == [t.chain EXCEPT ![b] = Append(@, t.size)]
           more == [t EXCEPT !.slot[t.size] = e, !.size = @ + 1,
                             !.chain[b] = Append(@, t.size)]
<1>1. /\ phase = "loading" /\ t.size < Len(file) /\ UNCHANGED <<kind, file, phase>>
      /\ t' = IF t.size = TableSize THEN Faulty(t, "array overrun")
              ELSE IF Len(t.chain[b]) = ChainSize THEN Faulty(t, "chain overrun")
              ELSE more
  BY DEF LoadLine
<1>2. TableOK(kind, t) /\ kind \in Kinds /\ LoadedSoFar /\ file \in Seq(Entry)
  BY <1>1 DEF IInv, NamesInv, FileOK
<1>3. /\ t.size \in 0..TableSize /\ TableSize \in Nat /\ t.slot \in [Slots -> Entry]
      /\ t.chain \in [Buckets -> Seq(Slots)] /\ ChainSize \in Nat
      /\ t = [slot |-> t.slot, size |-> t.size, chain |-> t.chain, fault |-> t.fault]
  BY <1>2, TablesAssumption DEF TableOK, TableType
<1>4. Len(file) \in Nat /\ m <= Len(file)
  <2>1. Len(file) \in Nat
    BY <1>2
  <2> DEFINE l == Len(file)
             z == t.size
  <2>4. z < l
    BY DEF LoadLine
  <2>2. z \in Nat /\ l \in Nat /\ m = z + 1
    BY <1>3, <2>1
  <2> HIDE DEF l, z, m
  <2>3. m <= l
    BY <2>2, <2>4
  <2> QED
    BY <2>1, <2>3 DEF l
<1>5. /\ file[m] \in Entry /\ file[m].src \in Names /\ BucketOf[file[m].src] \in Buckets
      /\ t.size < TableSize /\ Len(t.chain[BucketOf[file[m].src]]) < ChainSize
  BY <1>2, <1>4, NextLineFits
<1>6. e.src = file[m].src
  BY <1>2, <1>5, RereadKeepsName
<1>7. e.src \in Names /\ b \in Buckets /\ Len(t.chain[b]) < ChainSize
  BY <1>5, <1>6
<1>8. t.chain[b] \in Seq(Slots) /\ Len(t.chain[b]) \in Nat
  BY <1>3, <1>7
<1>9. t' = more
  <2>1. t.size # TableSize /\ Len(t.chain[b]) # ChainSize
    BY <1>3, <1>5, <1>7, <1>8
  <2> HIDE DEF more, b
  <2> QED
    BY <1>1, <2>1
<1> HIDE DEF e, b, m
<1>23. more = [t EXCEPT !.slot = slots, !.size = t.size + 1, !.chain = chain]
  BY <1>3
<1> HIDE DEF more, slots, chain
<1>10. more = [slot |-> slots, size |-> t.size + 1, chain |-> chain, fault |-> t.fault]
  BY <1>3, <1>23
<1> USE DEF slots, chain
<1>11. more.slot = slots /\ more.size = t.size + 1 /\ more.chain = chain /\ more.fault = t.fault
  BY <1>10
<1>12. \A i \in Slots : more.slot[i].src = IF i = t.size THEN e.src ELSE t.slot[i].src
  BY <1>3, <1>11
<1>13. Added(t, more, e.src)
  BY <1>5, <1>7, <1>11, <1>12 DEF Added, b
<1>14. RowsOK(more)
  BY <1>2, <1>13, AddedKeepsRows DEF NamesInv
<1>15. Used(more) = Used(t) \cup {t.size} /\ Used(t) \subseteq Slots /\ t.size \in Slots
       /\ t.size \notin Used(t)
  BY <1>3, <1>5, <1>11 DEF Used, Slots
<1>16. ASSUME NEW i \in Used(more) PROVE more.slot[i].src = file[i + 1].src
  <2>1. CASE i = t.size
    BY <1>6, <1>12, <1>15, <2>1 DEF m
  <2>2. CASE i # t.size
    <3>1. i \in Used(t) /\ more.slot[i].src = t.slot[i].src
      BY <1>12, <1>15, <2>2
    <3>2. t.slot[i].src = file[i + 1].src
      BY <1>2, <3>1 DEF LoadedSoFar
    <3> QED
      BY <3>1, <3>2
  <2> QED
    BY <2>1, <2>2
<1>17. ASSUME NEW c \in Buckets
       PROVE  \A p \in DOMAIN t.chain[c] : p \in DOMAIN chain[c] /\ chain[c][p] = t.chain[c][p]
  <2>1. t.chain[c] \in Seq(Slots)
    BY <1>3
  <2>2. chain[c] = IF c = b THEN Append(t.chain[c], t.size) ELSE t.chain[c]
    BY <1>3
  <2> DEFINE s == t.chain[c]
  <2> HIDE DEF s, chain
  <2>3. \A p \in DOMAIN s : p \in DOMAIN Append(s, t.size) /\ Append(s, t.size)[p] = s[p]
    BY <1>15, <2>1, AppendProperties DEF s
  <2> QED
    BY <2>2, <2>3 DEF s
<1>18. \E p \in DOMAIN chain[b] : chain[b][p] = t.size
  <2> DEFINE s == t.chain[b]
             p == Len(s) + 1
  <2>1. chain[b] = Append(s, t.size)
    BY <1>3, <1>7
  <2>2. s \in Seq(Slots)
    BY <1>8
  <2> HIDE DEF s, chain
  <2>3. p \in DOMAIN Append(s, t.size) /\ Append(s, t.size)[p] = t.size
    BY <1>15, <2>2, AppendProperties
  <2> QED
    BY <2>1, <2>3
<1>19. Indexed(more)
  <2> SUFFICES ASSUME NEW i \in Used(more)
               PROVE  \E p \in DOMAIN chain[BucketOf[more.slot[i].src]] :
                          chain[BucketOf[more.slot[i].src]][p] = i
    BY <1>11 DEF Indexed
  <2>1. CASE i = t.size
    <3>1. more.slot[i].src = e.src
      BY <1>12, <1>15, <2>1
    <3> QED
      BY <1>18, <2>1, <3>1 DEF b
  <2>2. CASE i # t.size
    <3> DEFINE c == BucketOf[t.slot[i].src]
    <3>1. i \in Used(t) /\ more.slot[i].src = t.slot[i].src
      BY <1>12, <1>15, <2>2
    <3>2. \E p \in DOMAIN t.chain[c] : t.chain[c][p] = i
      BY <1>2, <3>1 DEF LoadedSoFar, Indexed
    <3>3. c \in Buckets
      BY <3>1, TablesAssumption DEF NamesInv, RowsOK
    <3> HIDE DEF c, chain
    <3>4. \E p \in DOMAIN chain[c] : chain[c][p] = i
      BY <1>17, <3>2, <3>3
    <3> QED
      BY <3>1, <3>4 DEF c
  <2> QED
    BY <2>1, <2>2
<1> HIDE DEF slots, chain
<1>20. /\ more.fault = "none" /\ more.size <= Len(file)
  BY <1>2, <1>4, <1>11 DEF LoadedSoFar, m
<1>21. LoadedSoFar' /\ RowsOK(table)'
  <2>1. LoadedSoFar'
    BY <1>1, <1>9, <1>16, <1>19, <1>20 DEF LoadedSoFar
  <2>2. RowsOK(table)'
    BY <1>9, <1>14
  <2> QED
    BY <2>1, <2>2
<1>22. FileLoads'
  BY <1>1 DEF FileLoads, NamesInv
<1> QED
  BY <1>1, <1>21, <1>22 DEF NamesInv

\* Every step keeps the invariant.
LEMMA NextNames == IInv /\ NamesInv /\ [Next]_vars => NamesInv'
<1> SUFFICES ASSUME IInv, NamesInv, [Next]_vars PROVE NamesInv'
  OBVIOUS
<1>1. CASE SaveFile
  BY <1>1, SaveFileNames
<1>2. CASE Stop
  <2>1. phase' = "down" /\ table' = Blank /\ file' = file
    BY <1>2 DEF Stop
  <2>2. RowsOK(table')
    BY <2>1, EmptyCounts
  <2>3. FileLoads'
    BY <2>1 DEF NamesInv, FileLoads
  <2> QED
    BY <2>1, <2>2, <2>3 DEF NamesInv
<1>3. CASE Start
  <2>1. UNCHANGED <<table, file>> /\ phase = "down" /\ phase' = "loading"
    BY <1>3 DEF Start
  <2>2. table = Blank
    BY <2>1 DEF NamesInv
  <2>3. file \in Seq(Entry)
    BY DEF IInv, FileOK
  <2>5. Len(file) \in Nat
    BY <2>3
  <2>6. table.fault = "none" /\ table.size = 0 /\ Indexed(table) /\ Used(table) = {}
    BY <2>2, EmptyCounts
  <2>4. LoadedSoFar
    BY <2>5, <2>6 DEF LoadedSoFar
  <2> QED
    BY <2>1, <2>4 DEF NamesInv, FileLoads, LoadedSoFar
<1>4. CASE LoadLine
  BY <1>4, LoadLineNames
<1>5. CASE Loaded
  <2>1. UNCHANGED <<table, file>> /\ phase' = "up"
    BY <1>5 DEF Loaded
  <2> QED
    BY <2>1 DEF NamesInv, FileLoads
<1>6. CASE UNCHANGED vars
  BY <1>6 DEF vars, NamesInv, FileLoads, LoadedSoFar
<1>7. ASSUME NEW u, EditOf(kind, table, u), Edited(u), phase = "up" PROVE NamesInv'
  BY <1>7, EditedNames
<1> QED
  BY <1>1, <1>2, <1>3, <1>4, <1>5, <1>6, <1>7, RequestsAreEdits DEF Next

\* The invariant holds in every behaviour.
THEOREM NamesInvariantHolds == Spec => [](IInv /\ NamesInv)
<1>1. Init => IInv /\ NamesInv
  BY InitEstablishes, InitNames
<1>2. IInv /\ NamesInv /\ [Next]_vars => (IInv /\ NamesInv)'
  BY NextKeeps, NextNames
<1> QED
  BY <1>1, <1>2, PTL DEF Spec

-----------------------------------------------------------------------------
(* What follows from it.                                                   *)

\* A row of the hash table has as many indices as the array has entries of that
\* row, whatever was deleted and where its index was (User.c:85-91).
THEOREM RowsAreCounted == Spec => []ChainsCountRows
<1>1. IInv /\ NamesInv => ChainsCountRows
  <2> SUFFICES ASSUME NamesInv, NEW b \in Buckets
               PROVE  Len(table.chain[b]) = Cardinality(InRow(b))
    BY DEF ChainsCountRows
  <2>1. InRow(b) = Among(table, Row(b))
    BY DEF NamesInv, RowsOK, InRow, Stored, Among, Used, Row
  <2> QED
    BY <2>1 DEF NamesInv, RowsOK, Count
<1> QED
  BY <1>1, NamesInvariantHolds, PTL

\* The server can load every file it has written: reading it back overruns
\* neither the array nor a row of the hash table.
THEOREM LoadsAreSafe == Spec => []LoadNeverOverruns
<1>1. IInv /\ NamesInv => LoadNeverOverruns
  BY DEF NamesInv, LoadedSoFar, LoadNeverOverruns
<1> QED
  BY <1>1, NamesInvariantHolds, PTL

-----------------------------------------------------------------------------
(* When a request writes outside an array.                                 *)

\* The table is as full as the fault says.
FullAsSaid(t) ==
    /\ t.fault = "array overrun" => t.size = TableSize
    /\ t.fault = "chain overrun" => \E b \in Buckets : Len(t.chain[b]) = ChainSize
    /\ t.fault = "values overrun" => \E i \in Slots : t.slot[i].n = ValueSize

\* A table without a fault is as full as it says.
LEMMA NoFaultSaysNothing ==
    ASSUME NEW t, t.fault = "none"
    PROVE  FullAsSaid(t)
  BY DEF FullAsSaid

\* A fault is given to the table it is found in.
LEMMA FaultyIsFull ==
    ASSUME NEW k, NEW t, TableOK(k, t), NEW fault \in Faults,
           fault = "array overrun" => t.size = TableSize,
           fault = "chain overrun" => \E b \in Buckets : Len(t.chain[b]) = ChainSize,
           fault = "values overrun" => \E i \in Slots : t.slot[i].n = ValueSize
    PROVE  FullAsSaid(Faulty(t, fault))
<1>1. /\ Faulty(t, fault).slot = t.slot /\ Faulty(t, fault).size = t.size
      /\ Faulty(t, fault).chain = t.chain /\ Faulty(t, fault).fault = fault
  BY DEF TableOK, TableType, Faulty
<1> QED
  BY <1>1 DEF FullAsSaid

\* An insertion into a table without a fault stops only where there is no room.
LEMMA AppendedIsFull ==
    ASSUME NEW k, NEW t, TableOK(k, t), t.fault = "none", NEW key \in Names, NEW v, NEW values
    PROVE  FullAsSaid(Appended(t, key, v, values))
<1> DEFINE b == BucketOf[key]
           i == t.size
           e == t.slot[i]
           new == [src |-> key, dst |-> [e.dst EXCEPT ![e.n] = v], n |-> e.n + values]
           u == Appended(t, key, v, values)
<1>1. /\ b \in Buckets /\ t.size \in 0..TableSize /\ TableSize \in Nat
      /\ t = [slot |-> t.slot, size |-> t.size, chain |-> t.chain, fault |-> t.fault]
  BY TablesAssumption DEF TableOK, TableType
<1>2. CASE t.size = TableSize
  BY <1>2, FaultyIsFull DEF Appended, Faults
<1>3. CASE t.size # TableSize /\ Len(t.chain[b]) = ChainSize
  <2>1. u = Faulty(t, "chain overrun")
    BY <1>3 DEF Appended
  <2> QED
    BY <1>1, <1>3, <2>1, FaultyIsFull DEF Faults
<1>4. CASE t.size # TableSize /\ Len(t.chain[b]) # ChainSize /\ e.n = ValueSize
  <2>1. u = Faulty(t, "values overrun")
    BY <1>4 DEF Appended
  <2>2. i \in Slots
    BY <1>1, <1>4 DEF Slots
  <2>3. \E j \in Slots : t.slot[j].n = ValueSize
    BY <1>4, <2>2
  <2>4. FullAsSaid(Faulty(t, "values overrun"))
    BY <2>3, FaultyIsFull DEF Faults
  <2> HIDE DEF u
  <2> QED
    BY <2>1, <2>4 DEF u
<1>5. CASE t.size # TableSize /\ Len(t.chain[b]) # ChainSize /\ e.n # ValueSize
  <2>1. u = [t EXCEPT !.slot[i] = new, !.size = @ + 1, !.chain[b] = Append(@, i)]
    BY <1>5 DEF Appended
  <2> HIDE DEF new, e, u
  <2>2. u.fault = "none"
    BY <1>1, <2>1
  <2> QED
    BY <2>2, NoFaultSaysNothing DEF u
<1> QED
  BY <1>2, <1>3, <1>4, <1>5

\* Closing a gap reaches no fault.
LEMMA RemovedHasNoFault ==
    ASSUME NEW k, NEW t, TableOK(k, t), t.fault = "none", NEW name, NEW slots
    PROVE  Removed(t, name, slots).fault = "none"
<1> DEFINE u == Unchained(t, name)
           r == Removed(t, name, slots)
<1>1. t = [slot |-> t.slot, size |-> t.size, chain |-> t.chain, fault |-> t.fault]
  BY DEF TableOK, TableType
<1>2. r = [t EXCEPT !.slot = slots, !.size = @ - 1, !.chain = u]
  BY DEF Removed
<1> HIDE DEF u, r
<1>3. r.fault = "none"
  BY <1>1, <1>2
<1> QED
  BY <1>3 DEF r

\* Deleting a user or a lettering reaches none, deleting a forwarding one from a
\* full array only.
LEMMA DeletionsAreFull ==
    ASSUME NEW k, NEW t, TableOK(k, t), t.fault = "none", NEW name
    PROVE  /\ User_Del_List(t, name).fault = "none"
           /\ Lettering_Del_List(t, name).fault = "none"
           /\ FullAsSaid(CallForwarding_Del_List(t, name))
<1> DEFINE shift == Removed(t, name, Shifted(t, CallForwarding_Search_List(t, name)))
<1>1. User_Del_List(t, name).fault = "none" /\ Lettering_Del_List(t, name).fault = "none"
  BY RemovedHasNoFault DEF User_Del_List, Lettering_Del_List
<1>2. CallForwarding_Del_List(t, name) \in {t, shift}
      \/ (t.size = TableSize /\ CallForwarding_Del_List(t, name) = Faulty(t, "array overrun"))
  BY DEF CallForwarding_Del_List
<1>3. shift.fault = "none"
  BY RemovedHasNoFault
<1>4. t.size = TableSize => FullAsSaid(Faulty(t, "array overrun"))
  BY FaultyIsFull DEF Faults
<1> HIDE DEF shift
<1> QED
  BY <1>1, <1>2, <1>3, <1>4, NoFaultSaysNothing

\* So do the edits of the table of rejections.
LEMMA RejectionEditsAreFull ==
    ASSUME NEW t, TableOK("RejectCall", t), t.fault = "none"
    PROVE  /\ \A key \in Names \cup {NoName}, value \in Values :
                 FullAsSaid(RejectCall_Del_List(t, key, value))
           /\ \A ask \in Asked \cup {<<NoName, NoName>>} :
                 FullAsSaid(RejectCall_Add_List(t, ask[1], ask[2]))
<1>0. t = [slot |-> t.slot, size |-> t.size, chain |-> t.chain, fault |-> t.fault]
  BY DEF TableOK, TableType
<1>1. ASSUME NEW key \in Names \cup {NoName}, NEW value \in Values
      PROVE  FullAsSaid(RejectCall_Del_List(t, key, value))
  <2> DEFINE i == User_Search_List(t, key)
             j == RejectCall_Search_Value_List(t, key, value)
             e == WithoutValue(t.slot[i], j)
             less == [t EXCEPT !.slot[i] = e]
             u == RejectCall_Del_List(t, key, value)
  <2>1. CASE j = FAIL
    BY <2>1, NoFaultSaysNothing DEF RejectCall_Del_List
  <2>2. CASE j # FAIL
    <3>1. /\ i # FAIL /\ i \in 0..(t.size - 1) /\ i \in Slots /\ key \in Names
          /\ t.slot[i] \in Entry /\ EntryOK("RejectCall", t.slot[i])
          /\ j \in 0..(t.slot[i].n - 1)
      BY <2>2, ValueSearchFinds
    <3>2. e \in Entry /\ EntryOK("RejectCall", e) /\ e.src = t.slot[i].src
      BY <3>1, WithoutValueIsOK
    <3>3. less = [t EXCEPT !.slot[i] = WithoutValue(@, j)]
      BY <3>1 DEF TableOK, TableType
    <3>4. \/ u \in {less, Removed(less, key, ShiftedValues(less, i))}
          \/ t.size = TableSize /\ u = Faulty(t, "array overrun")
      BY <2>2, <3>3 DEF RejectCall_Del_List, RejectCall_Search_Key_List
    <3>5. t.size \in 0..TableSize /\ TableSize \in Nat
      BY TablesAssumption DEF TableOK, TableType
    <3>6. i < t.size
      BY <3>1, <3>5
    <3> HIDE DEF e, j, i
    <3>7. TableOK("RejectCall", less)
      BY <3>1, <3>2, <3>6, ReplacedIsOK
    <3>8. less.fault = "none"
      BY <1>0
    <3> HIDE DEF less
    <3> DEFINE s == ShiftedValues(less, i)
    <3> HIDE DEF s
    <3>9. Removed(less, key, s).fault = "none"
      BY <3>7, <3>8, RemovedHasNoFault
    <3>10. t.size = TableSize => FullAsSaid(Faulty(t, "array overrun"))
      BY FaultyIsFull DEF Faults
    <3> HIDE DEF u
    <3>11. FullAsSaid(u)
      BY <3>4, <3>8, <3>9, <3>10, NoFaultSaysNothing DEF s
    <3> QED
      BY <3>11 DEF u
  <2> QED
    BY <2>1, <2>2
<1>2. ASSUME NEW ask \in Asked \cup {<<NoName, NoName>>}
      PROVE  FullAsSaid(RejectCall_Add_List(t, ask[1], ask[2]))
  <2> DEFINE key == ask[1]
             value == ask[2]
             i == User_Search_List(t, key)
             e == t.slot[i]
             more == [e EXCEPT !.dst[e.n] = value, !.n = @ + 1]
             r == [t EXCEPT !.slot[i] = more]
             u == RejectCall_Add_List(t, key, value)
  <2>1. CASE NoName \in {key, value}
    BY <2>1, NoFaultSaysNothing DEF RejectCall_Add_List
  <2>2. CASE NoName \notin {key, value}
    <3>1. key \in Names
      BY <2>2, AskIsNamed
    <3>2. CASE i = FAIL
      BY <2>2, <3>1, <3>2, AppendedIsFull DEF RejectCall_Add_List, RejectCall_Search_Key_List
    <3>3. CASE i # FAIL
      <4>1. \/ u \in {t, r}
            \/ e.n = ValueSize /\ u = Faulty(t, "values overrun")
        BY <2>2, <3>3 DEF RejectCall_Add_List, RejectCall_Search_Key_List
      <4>2. i \in Slots
        <5>1. i \in 0..(t.size - 1) /\ t.size \in 0..TableSize /\ TableSize \in Nat
          BY <3>1, <3>3, SearchFinds, TablesAssumption DEF TableOK, TableType
        <5> HIDE DEF i
        <5> QED
          BY <5>1 DEF Slots
      <4>3. e.n = ValueSize => \E m \in Slots : t.slot[m].n = ValueSize
        BY <4>2
      <4> HIDE DEF more, e, i, u
      <4>4. r.fault = "none"
        BY <1>0
      <4>5. e.n = ValueSize => FullAsSaid(Faulty(t, "values overrun"))
        BY <4>3, FaultyIsFull DEF Faults
      <4> HIDE DEF r
      <4>6. FullAsSaid(u)
        BY <4>1, <4>4, <4>5, NoFaultSaysNothing
      <4> QED
        BY <4>6 DEF u
    <3> QED
      BY <3>2, <3>3
  <2> QED
    BY <2>1, <2>2
<1> QED
  BY <1>1, <1>2

\* Every request and every command finds the table it stops at full.
LEMMA RequestsAreFull ==
    ASSUME IInv, NEW u, table' = u, table.fault = "none",
           \/ \E name \in Names \cup {NoName} :
                 \/ SignUpReq(name) \/ DelUser(name) \/ LetteringDelReq(name)
                 \/ CallForwardingDelReq(name)
                 \/ \E connected \in BOOLEAN, change \in Names : ModifyUser(name, change, connected)
                 \/ \E value \in Values : RejectCallDelReq(name, value)
           \/ \E ask \in Asked \cup {<<NoName, NoName>>} :
                 \/ LetteringAddReq(ask[1], ask[2]) \/ CallForwardingAddReq(ask[1], ask[2])
                 \/ RejectCallAddReq(ask[1], ask[2])
    PROVE  FullAsSaid(u)
<1>1. TableOK(kind, table)
  BY DEF IInv
<1>2. ASSUME NEW t, TableOK(kind, t), t.fault = "none", NEW name \in Names \cup {NoName}
      PROVE  FullAsSaid(User_Add_List(t, name))
  BY <1>2, AppendedIsFull, NoFaultSaysNothing DEF User_Add_List
<1>3. ASSUME NEW name \in Names \cup {NoName}, SignUpReq(name) PROVE FullAsSaid(u)
  BY <1>1, <1>2, <1>3 DEF SignUpReq, Edited
<1>4. ASSUME NEW name \in Names \cup {NoName}, DelUser(name) \/ LetteringDelReq(name)
      PROVE  FullAsSaid(u)
  BY <1>1, <1>4, DeletionsAreFull, NoFaultSaysNothing DEF DelUser, LetteringDelReq, Edited
<1>5. ASSUME NEW name \in Names \cup {NoName}, CallForwardingDelReq(name) PROVE FullAsSaid(u)
  BY <1>1, <1>5, DeletionsAreFull DEF CallForwardingDelReq, Edited
<1>6. ASSUME NEW name \in Names \cup {NoName}, NEW connected \in BOOLEAN,
             NEW change \in Names, ModifyUser(name, change, connected)
      PROVE  FullAsSaid(u)
  <2> DEFINE w == IF connected THEN table ELSE User_Del_List(table, name)
  <2>1. u = User_Add_List(w, change) \/ u = w
    BY <1>6 DEF ModifyUser, Edited
  <2>2. TableOK(kind, w) /\ w.fault = "none"
    <3>1. kind = "User"
      BY <1>6 DEF ModifyUser, Serving
    <3> QED
      BY <1>1, <3>1, ClearedDeletionIsOK, DeletionsAreFull
  <2> HIDE DEF w
  <2> QED
    BY <1>2, <2>1, <2>2, NoFaultSaysNothing
<1>7. ASSUME NEW name \in Names \cup {NoName}, NEW value \in Values, RejectCallDelReq(name, value)
      PROVE  FullAsSaid(u)
  <2>1. kind = "RejectCall" /\ u = RejectCall_Del_List(table, name, value)
    BY <1>7 DEF RejectCallDelReq, Serving, Edited
  <2> QED
    BY <1>1, <2>1, RejectionEditsAreFull
<1>8. ASSUME NEW ask \in Asked \cup {<<NoName, NoName>>}, LetteringAddReq(ask[1], ask[2])
      PROVE  FullAsSaid(u)
  <2> DEFINE w == Lettering_Del_List(table, ask[1])
  <2>1. kind = "Lettering" /\ u = Lettering_Add_List(table, ask[1], ask[2])
    BY <1>8 DEF LetteringAddReq, Serving, Edited
  <2>2. CASE NoName \in {ask[1], ask[2]}
    BY <2>1, <2>2, NoFaultSaysNothing DEF Lettering_Add_List
  <2>3. CASE NoName \notin {ask[1], ask[2]}
    <3>1. ask[1] \in Names /\ u = Appended(w, ask[1], ask[2], 0)
      BY <2>1, <2>3, AskIsNamed DEF Lettering_Add_List
    <3>2. TableOK(kind, w) /\ w.fault = "none"
      BY <1>1, <2>1, <3>1, ClearedDeletionIsOK, DeletionsAreFull
    <3> HIDE DEF w
    <3> QED
      BY <3>1, <3>2, AppendedIsFull
  <2> QED
    BY <2>2, <2>3
<1>9. ASSUME NEW ask \in Asked \cup {<<NoName, NoName>>}, CallForwardingAddReq(ask[1], ask[2])
      PROVE  FullAsSaid(u)
  <2>1. u = CallForwarding_Add_List(table, ask[1], ask[2])
    BY <1>9 DEF CallForwardingAddReq, Edited
  <2>2. NoName \notin {ask[1], ask[2]} => ask[1] \in Names
    BY AskIsNamed
  <2> QED
    BY <1>1, <2>1, <2>2, AppendedIsFull, NoFaultSaysNothing DEF CallForwarding_Add_List
<1>10. ASSUME NEW ask \in Asked \cup {<<NoName, NoName>>}, RejectCallAddReq(ask[1], ask[2])
       PROVE  FullAsSaid(u)
  <2>1. kind = "RejectCall" /\ u = RejectCall_Add_List(table, ask[1], ask[2])
    BY <1>10 DEF RejectCallAddReq, Serving, Edited
  <2> QED
    BY <1>1, <2>1, RejectionEditsAreFull
<1> QED
  BY <1>3, <1>4, <1>5, <1>6, <1>7, <1>8, <1>9, <1>10

\* No step of the server reports an overrun of a table that had room.
LEMMA NextIsFull ==
    ASSUME IInv, NamesInv, NamesInv', FullAsSaid(table), [Next]_vars
    PROVE  FullAsSaid(table')
<1>1. CASE SaveFile \/ Start \/ Loaded \/ UNCHANGED vars
  BY <1>1 DEF SaveFile, Start, Loaded, vars
<1>2. CASE Stop
  <2>1. table'.fault = "none"
    BY <1>2 DEF Stop, Blank
  <2> QED
    BY <2>1, NoFaultSaysNothing
<1>3. CASE LoadLine
  <2>1. phase' = "loading"
    BY <1>3 DEF LoadLine
  <2>2. table'.fault = "none"
    BY <2>1 DEF NamesInv, LoadedSoFar
  <2> QED
    BY <2>2, NoFaultSaysNothing
<1>4. ASSUME ~(SaveFile \/ Start \/ Loaded \/ UNCHANGED vars \/ Stop \/ LoadLine)
      PROVE  FullAsSaid(table')
  <2>1. table.fault = "none"
    BY <1>4 DEF Next, SignUpReq, DelUser, LetteringDelReq, CallForwardingDelReq, ModifyUser,
       RejectCallDelReq, LetteringAddReq, CallForwardingAddReq, RejectCallAddReq, Serving
  <2> QED
    BY <1>4, <2>1, RequestsAreFull DEF Next
<1> QED
  BY <1>1, <1>2, <1>3, <1>4

\* User_Add_List and its like overrun the array, a row or an entry, but never
\* while there is room: an array has an entry in every slot, and a row that
\* overruns an entry of its own for every index it has room for, whatever was
\* deleted, saved and loaded before.
THEOREM OverrunsOnlyWhenFull == Spec => []OverrunsNeedFull
<1>1. Init => FullAsSaid(table)
  BY DEF Init, Blank, FullAsSaid
<1>2. (IInv /\ NamesInv) /\ (IInv /\ NamesInv)' /\ FullAsSaid(table) /\ [Next]_vars
         => FullAsSaid(table)'
  BY NextIsFull
<1>3. IInv /\ NamesInv /\ FullAsSaid(table) => OverrunsNeedFull
  <2> SUFFICES ASSUME IInv, NamesInv, FullAsSaid(table) PROVE OverrunsNeedFull
    OBVIOUS
  <2>1. ASSUME NEW b \in Buckets PROVE Len(table.chain[b]) = Cardinality(InRow(b))
    <3>1. InRow(b) = Among(table, Row(b))
      BY DEF NamesInv, RowsOK, InRow, Stored, Among, Used, Row
    <3> QED
      BY <3>1 DEF NamesInv, RowsOK, Count
  <2>2. DOMAIN table.slot = Slots
    BY DEF IInv, TableOK, TableType
  <2> QED
    BY <2>1, <2>2 DEF FullAsSaid, OverrunsNeedFull
<1> QED
  BY <1>1, <1>2, <1>3, NamesInvariantHolds, PTL DEF Spec

-----------------------------------------------------------------------------
(* The table implements StoredNames.                                       *)

Held(t) == [n \in Names |-> Count(t, {n})]
Found(t) == {n \in Names : User_Search_List(t, n) # FAIL}
Positive(bag) == {n \in Names : bag[n] > 0}

\* A name is found exactly when its chain has an index of an entry of it.
LEMMA FoundIffHit ==
    ASSUME NEW k, NEW t, TableOK(k, t), NEW n \in Names
    PROVE  User_Search_List(t, n) # FAIL <=> Hits(t, n) # {}
<1> DEFINE c == t.chain[BucketOf[n]]
<1>1. n # NoName
  BY TablesAssumption
<1>2. Hits(t, n) = {} => User_Search_List(t, n) = FAIL
  BY DEF User_Search_List
<1>3. ASSUME Hits(t, n) # {} PROVE User_Search_List(t, n) # FAIL
  <2>1. c \in Seq(Slots)
    BY TablesAssumption DEF TableOK, TableType
  <2>2. DOMAIN c = 1..Len(c) /\ Len(c) \in Nat
    BY <2>1
  <2>3. Hits(t, n) \subseteq 1..Len(c)
    BY <2>2 DEF Hits
  <2>4. IsFiniteSet(Hits(t, n)) /\ Hits(t, n) \in SUBSET Int
    <3> DEFINE l == Len(c)
    <3>1. l \in Int /\ Hits(t, n) \subseteq 1..l
      BY <2>2, <2>3
    <3> HIDE DEF l
    <3>2. IsFiniteSet(1..l) /\ 1..l \subseteq Int
      BY <3>1, FS_Interval
    <3> QED
      BY <3>1, <3>2, FS_Subset
  <2>5. Min(Hits(t, n)) \in DOMAIN c
    BY <1>3, <2>2, <2>3, <2>4, MinIsLeast
  <2>6. c[Min(Hits(t, n))] \in Slots
    BY <2>1, <2>5
  <2>7. User_Search_List(t, n) = c[Min(Hits(t, n))]
    BY <1>1, <1>3 DEF User_Search_List
  <2>8. FAIL \notin Slots
    BY TablesAssumption DEF FAIL, Slots
  <2> QED
    BY <2>6, <2>7, <2>8
<1> QED
  BY <1>2, <1>3

\* What is found is held.
LEMMA FoundIsHeld ==
    ASSUME NEW k, NEW t, TableOK(k, t)
    PROVE  Found(t) \subseteq Positive(Held(t))
<1> SUFFICES ASSUME NEW n \in Names, User_Search_List(t, n) # FAIL PROVE Count(t, {n}) > 0
  BY DEF Found, Positive, Held
<1>1. User_Search_List(t, n) \in Among(t, {n})
  BY SearchFinds DEF Among, Used
<1>2. IsFiniteSet(Among(t, {n})) /\ Count(t, {n}) \in Nat
  BY CountIsNatural
<1> QED
  BY <1>1, <1>2, FS_EmptySet DEF Count

\* After a load, what is held is found.
LEMMA IndexedIsFound ==
    ASSUME NEW k, NEW t, TableOK(k, t), RowsOK(t), Indexed(t)
    PROVE  Found(t) = Positive(Held(t))
<1>1. ASSUME NEW n \in Names, Count(t, {n}) > 0 PROVE User_Search_List(t, n) # FAIL
  <2>1. IsFiniteSet(Among(t, {n})) /\ Among(t, {n}) # {}
    BY <1>1, CountIsNatural, FS_EmptySet DEF Count
  <2>2. PICK i \in Used(t) : t.slot[i].src = n
    BY <2>1 DEF Among
  <2>3. PICK p \in DOMAIN t.chain[BucketOf[n]] : t.chain[BucketOf[n]][p] = i
    BY <2>2 DEF Indexed
  <2>4. p \in Hits(t, n)
    BY <2>2, <2>3 DEF Hits
  <2> QED
    BY <2>4, FoundIffHit
<1>2. Positive(Held(t)) \subseteq Found(t)
  BY <1>1 DEF Positive, Held, Found
<1> QED
  BY <1>2, FoundIsHeld

\* An insertion is found, and hides nothing: a stale index of the slot it takes
\* pointed at no name before, and points at another name than its own after.
LEMMA AddedIsFound ==
    ASSUME NEW k, NEW t, NEW u, TableOK(k, t), TableOK(k, u), NEW key, Added(t, u, key)
    PROVE  Found(u) = Found(t) \cup {key}
<1>1. /\ key \in Names /\ t.size < TableSize /\ u.size = t.size + 1
      /\ u.chain = [t.chain EXCEPT ![BucketOf[key]] = Append(@, t.size)]
      /\ \A m \in Slots : u.slot[m].src = IF m = t.size THEN key ELSE t.slot[m].src
  BY DEF Added
<1>2. t.size \in Slots
  BY <1>1, CountIsNatural DEF Slots
<1>3. t.slot[t.size].src = NoName
  BY <1>2 DEF TableOK, IsClear, Slots
<1>4. t.chain \in [Buckets -> Seq(Slots)] /\ BucketOf[key] \in Buckets
  BY <1>1, TablesAssumption DEF TableOK, TableType
<1>5. ASSUME NEW n \in Names
      PROVE  /\ n # key => Hits(u, n) = Hits(t, n)
             /\ n = key => Hits(u, n) # {}
  <2> DEFINE c == t.chain[BucketOf[n]]
             d == u.chain[BucketOf[n]]
  <2>1. c \in Seq(Slots) /\ n # NoName
    BY <1>4, TablesAssumption
  <2>2. d = IF BucketOf[n] = BucketOf[key] THEN Append(c, t.size) ELSE c
    BY <1>1, <1>4, TablesAssumption
  <2>3. Hits(t, n) = {p \in DOMAIN c : t.slot[c[p]].src = n}
        /\ Hits(u, n) = {p \in DOMAIN d : u.slot[d[p]].src = n}
    BY DEF Hits
  <2> HIDE DEF c, d
  <2>4. \A p \in DOMAIN c : c[p] \in Slots
    BY <2>1
  <2>5. /\ DOMAIN Append(c, t.size) = DOMAIN c \cup {Len(c) + 1}
        /\ \A p \in DOMAIN c : Append(c, t.size)[p] = c[p]
        /\ Append(c, t.size)[Len(c) + 1] = t.size
    <3>1. DOMAIN c = 1..Len(c) /\ Len(c) \in Nat
      BY <2>1
    <3>2. Append(c, t.size) \in Seq(Slots) /\ Len(Append(c, t.size)) = Len(c) + 1
          /\ \A p \in 1..Len(c) : Append(c, t.size)[p] = c[p]
          /\ Append(c, t.size)[Len(c) + 1] = t.size
      BY <1>2, <2>1, AppendProperties
    <3>3. DOMAIN Append(c, t.size) = 1..(Len(c) + 1)
      BY <3>2
    <3> QED
      BY <3>1, <3>2, <3>3
  <2>6. ASSUME NEW p \in DOMAIN c, n # key
        PROVE  u.slot[c[p]].src = n <=> t.slot[c[p]].src = n
    BY <1>1, <1>3, <2>1, <2>4, <2>6
  <2>7. u.slot[t.size].src = key
    BY <1>1, <1>2
  <2>8. CASE n # key /\ BucketOf[n] = BucketOf[key]
    BY <2>2, <2>3, <2>5, <2>6, <2>7, <2>8
  <2>9. CASE n # key /\ BucketOf[n] # BucketOf[key]
    BY <2>2, <2>3, <2>6, <2>9
  <2>10. CASE n = key
    <3>1. Len(c) + 1 \in DOMAIN d /\ d[Len(c) + 1] = t.size
      BY <2>2, <2>5, <2>10
    <3> QED
      BY <2>3, <2>7, <2>10, <3>1
  <2> QED
    BY <2>8, <2>9, <2>10
<1> QED
  BY <1>1, <1>5, FoundIffHit DEF Found

\* What the steps of StoredNames do to the names, of two tables.
Gains(t, u, new) ==
    /\ Held(u) = [n \in Names |-> Held(t)[n] + (IF n = new THEN 1 ELSE 0)]
    /\ Found(u) = Found(t) \cup ({new} \ {NoName})
Trades(t, u, gone, new) ==
    /\ Held(u) = [n \in Names |-> (Held(t)[n] - (IF n = gone THEN 1 ELSE 0))
                                  + (IF n = new THEN 1 ELSE 0)]
    /\ Found(u) \subseteq Positive(Held(u)) /\ {new} \ {NoName} \subseteq Found(u)

\* A table with the same names holds and finds the same.
LEMMA SameNamesHold ==
    ASSUME NEW k, NEW t, NEW u, TableOK(k, t), SameNames(t, u)
    PROVE  Held(u) = Held(t) /\ Found(u) = Found(t)
  BY SameCounts, SameSearches DEF Held, Found

\* An edit gains a name, or trades a name that was found for another, or for
\* none.
LEMMA EditGainsOrTrades ==
    ASSUME NEW k, NEW t, NEW u, EditOf(k, t, u)
    PROVE  \E new \in Names \cup {NoName} :
              Gains(t, u, new) \/ \E gone \in Found(t) : Trades(t, u, gone, new)
<1>1. PICK w : TableOK(k, w) /\ Takes(t, w) /\ Adds(w, u)
  BY DEF EditOf
<1>2. TableOK(k, t) /\ TableOK(k, u)
  BY DEF EditOf
<1>3. PICK new \in Names \cup {NoName} :
         /\ Held(u) = [n \in Names |-> Held(w)[n] + (IF n = new THEN 1 ELSE 0)]
         /\ Found(u) = Found(w) \cup ({new} \ {NoName})
  <2>1. ASSUME SameNames(w, u)
        PROVE  /\ Held(u) = [n \in Names |-> Held(w)[n] + (IF n = NoName THEN 1 ELSE 0)]
               /\ Found(u) = Found(w) \cup ({NoName} \ {NoName})
    <3>1. Held(u) = Held(w) /\ Found(u) = Found(w)
      BY <1>1, <2>1, SameNamesHold
    <3>2. \A n \in Names : n # NoName /\ Held(w)[n] \in Nat
      BY <1>1, TablesAssumption, CountIsNatural DEF Held
    <3>3. Held(w) = [n \in Names |-> Held(w)[n]]
      BY DEF Held
    <3> HIDE DEF Held
    <3>4. Held(w) = [n \in Names |-> Held(w)[n] + (IF n = NoName THEN 1 ELSE 0)]
      <4>1. \A n \in Names : Held(w)[n] + (IF n = NoName THEN 1 ELSE 0) = Held(w)[n]
        BY <3>2
      <4> QED
        BY <3>3, <4>1
    <3> QED
      BY <3>1, <3>4
  <2>2. ASSUME NEW key \in Names, Added(w, u, key)
        PROVE  /\ Held(u) = [n \in Names |-> Held(w)[n] + (IF n = key THEN 1 ELSE 0)]
               /\ Found(u) = Found(w) \cup ({key} \ {NoName})
    <3>1. \A n \in Names : Count(u, {n}) = Count(w, {n}) + (IF n = key THEN 1 ELSE 0)
      BY <1>1, <2>2, AddedCounts
    <3>2. Found(u) = Found(w) \cup {key}
      BY <1>1, <1>2, <2>2, AddedIsFound
    <3>3. \A n \in Names : Held(w)[n] = Count(w, {n})
      BY DEF Held
    <3>4. Held(u) = [n \in Names |-> Held(w)[n] + (IF n = key THEN 1 ELSE 0)]
      BY <3>1, <3>3 DEF Held
    <3> QED
      BY <3>2, <3>4, TablesAssumption
  <2> QED
    BY <1>1, <2>1, <2>2 DEF Adds
<1>4. {new} \ {NoName} \subseteq Found(u)
  BY <1>3
<1>5. Found(u) \subseteq Positive(Held(u))
  BY <1>2, FoundIsHeld
<1>6. CASE SameNames(t, w)
  <2>1. Held(w) = Held(t) /\ Found(w) = Found(t)
    BY <1>2, <1>6, SameNamesHold
  <2> QED
    BY <1>3, <2>1 DEF Gains
<1>7. ASSUME NEW gone \in Names, Deleted(t, w, gone)
      PROVE  gone \in Found(t) /\ Trades(t, u, gone, new)
  <2>1. gone \in Found(t)
    BY <1>7 DEF Deleted, Found
  <2>2. \A n \in Names : Count(w, {n}) = Count(t, {n}) - (IF gone = n THEN 1 ELSE 0)
    BY <1>2, <1>7, DeletedCounts
  <2>3. \A n \in Names : Held(w)[n] = Held(t)[n] - (IF n = gone THEN 1 ELSE 0)
    BY <2>2 DEF Held
  <2>4. Held(u) = [n \in Names |-> (Held(t)[n] - (IF n = gone THEN 1 ELSE 0))
                                   + (IF n = new THEN 1 ELSE 0)]
    BY <1>3, <2>3
  <2> QED
    BY <1>4, <1>5, <2>1, <2>4 DEF Trades
<1> QED
  BY <1>1, <1>6, <1>7 DEF Takes

\* The copies StoredNames counts are the entries of each name.
LEMMA CopiesAreHeld ==
    ASSUME NEW k, NEW t, TableOK(k, t)
    PROVE  Copies(User_Save_File(t)) = Held(t)
<1> DEFINE f == User_Save_File(t)
<1>1. DOMAIN f = 1..t.size /\ \A m \in 1..t.size : f[m].src = t.slot[m - 1].src
  BY DEF User_Save_File
<1> HIDE DEF f
<1>2. \A n \in Names : Lines(f, {n}) = Count(t, {n})
  BY <1>1, LinesCountEntries
<1>3. \A n \in Names : {m \in DOMAIN f : f[m].src = n} = LinesOf(f, {n})
  BY DEF LinesOf
<1>4. Copies(f) = Held(t)
  BY <1>2, <1>3 DEF Copies, Held, Lines
<1> QED
  BY <1>4 DEF f

\* The same of the lines of a file.
LEMMA CopiesAreLines ==
    ASSUME NEW f
    PROVE  Copies(f) = [n \in Names |-> Lines(f, {n})]
<1>1. \A n \in Names : {m \in DOMAIN f : f[m].src = n} = LinesOf(f, {n})
  BY DEF LinesOf
<1> QED
  BY <1>1 DEF Copies, Lines

\* The variables of StoredNames, as the refinement maps them.
StoredNow == IF Answering THEN Copies(User_Save_File(table)) ELSE [n \in Names |-> 0]
FoundNow == IF Answering THEN {n \in Names : User_Search_List(table, n) # FAIL} ELSE {}

\* They are what the table holds and finds while it answers, and nothing else.
LEMMA MappedNow ==
    ASSUME IInv
    PROVE  /\ Answering => StoredNow = Held(table) /\ FoundNow = Found(table)
           /\ ~Answering => StoredNow = [n \in Names |-> 0] /\ FoundNow = {}
<1>1. Copies(User_Save_File(table)) = Held(table)
  BY CopiesAreHeld DEF IInv
<1> QED
  BY <1>1 DEF StoredNow, FoundNow, Found

\* The same in the next state.
LEMMA MappedNext ==
    ASSUME IInv'
    PROVE  /\ Answering' => StoredNow' = Held(table') /\ FoundNow' = Found(table')
           /\ ~Answering' => StoredNow' = [n \in Names |-> 0] /\ FoundNow' = {}
<1>1. TableOK(kind', table')
  BY DEF IInv
<1>2. Copies(User_Save_File(table')) = Held(table')
  BY <1>1, CopiesAreHeld
<1> QED
  BY <1>2 DEF StoredNow, FoundNow, Found

\* While the table does not answer, StoredNames does not move.
LEMMA StaysDown ==
    ASSUME IInv, IInv', ~Answering, ~Answering', file' = file
    PROVE  UNCHANGED Bag!vars
<1>1. StoredNow' = StoredNow /\ FoundNow' = FoundNow
  BY MappedNow, MappedNext
<1>2. Copies(file)' = Copies(file)
  OBVIOUS
<1>3. Answering' = Answering
  BY DEF Answering
<1> QED
  BY <1>1, <1>2, <1>3 DEF Bag!vars, StoredNow, FoundNow

\* The table implements StoredNames: every request, save, crash and load of
\* User.c and its like is one of its steps on the names, or none.
THEOREM TablesImplementStoredNames == Spec => ImplementsStoredNames
<1>1. Init => Bag!Init
  <2> SUFFICES ASSUME Init PROVE Bag!Init
    OBVIOUS
  <2>1. ~Answering /\ file = <<>>
    BY DEF Init, Answering
  <2>2. Copies(file) = [n \in Names |-> 0]
    BY <2>1, CopiesAreLines, EmptyCounts
  <2> QED
    BY <2>1, <2>2 DEF Bag!Init, Bag!None
<1>2. (IInv /\ NamesInv) /\ (IInv /\ NamesInv)' /\ [Next]_vars => [Bag!Next]_(Bag!vars)
  <2> SUFFICES ASSUME IInv, NamesInv, IInv', NamesInv', [Next]_vars
               PROVE  [Bag!Next]_(Bag!vars)
    OBVIOUS
  <2>1. ASSUME NEW u, EditOf(kind, table, u), Edited(u), phase = "up" PROVE Bag!Edit
    <3>1. /\ table' = u
          /\ \/ UNCHANGED <<file, phase>>
             \/ file' = <<>> /\ phase' = "saving"
      BY <2>1 DEF Edited
    <3>2. Answering /\ Answering'
      BY <2>1, <3>1 DEF Answering
    <3>3. StoredNow = Held(table) /\ FoundNow = Found(table)
          /\ StoredNow' = Held(u) /\ FoundNow' = Found(u)
      BY <3>1, <3>2, MappedNow, MappedNext
    <3>4. Copies(file)' \in {Copies(file), Bag!None}
      <4>1. CASE file' = file
        BY <4>1
      <4>2. CASE file' = <<>>
        <5>1. Copies(<<>>) = [n \in Names |-> 0]
          BY CopiesAreLines, EmptyCounts
        <5> QED
          BY <4>2, <5>1 DEF Bag!None
      <4> QED
        BY <3>1, <4>1, <4>2
    <3>5. PICK new \in Names \cup {NoName} :
             Gains(table, u, new) \/ \E gone \in Found(table) : Trades(table, u, gone, new)
      BY <2>1, EditGainsOrTrades
    <3>6. \A n \in Names : n # NoName /\ Held(table)[n] \in Nat
      BY TablesAssumption, CountIsNatural DEF IInv, Held
    <3>7. CASE Gains(table, u, new)
      <4>1. StoredNow' = [n \in Names |-> (StoredNow[n] - Bag!One(NoName)[n]) + Bag!One(new)[n]]
        <5>1. \A n \in Names : (Held(table)[n] - Bag!One(NoName)[n]) + Bag!One(new)[n]
                                = Held(table)[n] + (IF n = new THEN 1 ELSE 0)
          BY <3>6 DEF Bag!One
        <5> QED
          BY <3>3, <3>7, <5>1 DEF Gains
      <4>2. FoundNow' = FoundNow \cup ({new} \ {NoName})
        BY <3>3, <3>7 DEF Gains
      <4>3. Bag!Insert(new)
        BY <4>1, <4>2 DEF Bag!Insert, Bag!Stored, StoredNow, FoundNow
      <4> QED
        BY <3>2, <3>4, <4>3 DEF Bag!Edit
    <3>8. ASSUME NEW gone \in Found(table), Trades(table, u, gone, new) PROVE Bag!Edit
      <4>1. StoredNow' = [n \in Names |-> (StoredNow[n] - Bag!One(gone)[n]) + Bag!One(new)[n]]
        <5>1. \A n \in Names : (Held(table)[n] - Bag!One(gone)[n]) + Bag!One(new)[n]
                 = (Held(table)[n] - (IF n = gone THEN 1 ELSE 0)) + (IF n = new THEN 1 ELSE 0)
          BY DEF Bag!One
        <5> QED
          BY <3>3, <3>8, <5>1 DEF Trades
      <4>2. FoundNow' \subseteq Positive(StoredNow') /\ {new} \ {NoName} \subseteq FoundNow'
        BY <3>3, <3>8 DEF Trades
      <4>3. Bag!Delete(gone, new)
        BY <4>1, <4>2 DEF Bag!Delete, Bag!Stored, Bag!Support, Positive, StoredNow, FoundNow
      <4>4. gone \in FoundNow
        BY <3>3
      <4> QED
        BY <3>2, <3>4, <4>3, <4>4 DEF Bag!Edit, FoundNow
    <3> QED
      BY <3>5, <3>7, <3>8
  <2>2. CASE SaveFile
    <3>1. Answering /\ Answering' /\ UNCHANGED table
      BY <2>2 DEF SaveFile, Answering
    <3>2. Copies(file)' = StoredNow
      <4>1. Copies(file') = [n \in Names |-> Lines(file', {n})]
        BY CopiesAreLines
      <4>2. \A n \in Names : Lines(file', {n}) = Count(table, {n})
        BY <2>2, SaveFileNames
      <4> QED
        BY <3>1, <4>1, <4>2, MappedNow DEF Held
    <3>3. Bag!Save
      BY <3>1, <3>2 DEF Bag!Save, StoredNow
    <3> QED
      BY <3>3 DEF Bag!Next
  <2>3. CASE Stop
    <3>1. ~Answering' /\ file' = file
      BY <2>3 DEF Stop, Answering
    <3>2. CASE Answering
      <4>1. Bag!Crash
        BY <3>1, <3>2 DEF Bag!Crash, Bag!None
      <4> QED
        BY <4>1 DEF Bag!Next
    <3>3. CASE ~Answering
      BY <3>1, <3>3, StaysDown
    <3> QED
      BY <3>2, <3>3
  <2>4. CASE Start \/ LoadLine
    <3>1. ~Answering /\ ~Answering' /\ file' = file
      BY <2>4 DEF Start, LoadLine, Answering
    <3> QED
      BY <3>1, StaysDown
  <2>5. CASE Loaded
    <3>1. ~Answering /\ Answering' /\ UNCHANGED <<table, file>> /\ table.size = Len(file)
          /\ LoadedSoFar
      BY <2>5 DEF Loaded, Answering, NamesInv
    <3>2. TableOK(kind, table) /\ RowsOK(table) /\ Indexed(table) /\ file \in Seq(Entry)
      BY <3>1 DEF IInv, NamesInv, LoadedSoFar, FileOK
    <3>3. StoredNow' = Held(table) /\ FoundNow' = Found(table)
      BY <3>1, MappedNext
    <3>4. Found(table) = Positive(Held(table))
      BY <3>2, IndexedIsFound
    <3>5. DOMAIN file = 1..table.size /\ \A m \in 1..table.size : file[m].src = table.slot[m - 1].src
      <4>1. DOMAIN file = 1..table.size
        BY <3>1, <3>2
      <4>2. ASSUME NEW m \in 1..table.size PROVE file[m].src = table.slot[m - 1].src
        <5> DEFINE i == m - 1
        <5>1. i \in Used(table) /\ i + 1 = m
          BY <3>2, CountIsNatural DEF Used
        <5> HIDE DEF i
        <5>2. table.slot[i].src = file[i + 1].src
          BY <3>1, <5>1 DEF LoadedSoFar
        <5> QED
          BY <5>1, <5>2 DEF i
      <4> QED
        BY <4>1, <4>2
    <3>6. Copies(file) = Held(table)
      <4>1. \A n \in Names : Lines(file, {n}) = Count(table, {n})
        BY <3>2, <3>5, LinesCountEntries
      <4> QED
        BY <4>1, CopiesAreLines DEF Held
    <3>7. Bag!Restart
      BY <3>1, <3>3, <3>4, <3>6 DEF Bag!Restart, Bag!Support, Positive, StoredNow, FoundNow
    <3> QED
      BY <3>7 DEF Bag!Next
  <2>6. CASE UNCHANGED vars
    BY <2>6 DEF vars, Bag!vars, Answering
  <2> QED
    BY <2>1, <2>2, <2>3, <2>4, <2>5, <2>6, RequestsAreEdits DEF Next, Bag!Next
<1> QED
  BY <1>1, <1>2, NamesInvariantHolds, PTL DEF Spec, ImplementsStoredNames, Bag!Spec
=============================================================================
