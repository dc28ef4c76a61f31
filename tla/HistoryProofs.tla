------------------------------ MODULE HistoryProofs ------------------------------
(***************************************************************************)
(* Somebody who pages through the ledger reads every movement that was     *)
(* there, once and in its place, for any number of writers, movements,     *)
(* pages and page sizes.                                                   *)
(***************************************************************************)
EXTENDS HistoryProperties, FiniteSums, SequenceTheorems, TLAPS

Row == [shelf : Shelves, recordedAt : Nat, id : Nat, prev : Nat]

(* No two rows have one id, so that no two have one place in the feed.     *)
Distinct(rows) == \A m, n \in rows : m.id = n.id => m = n

IsOrdered(seq) == \A i, j \in DOMAIN seq : i < j => Newer(seq[i], seq[j])

LEMMA NewerOrders ==
  ASSUME NEW a \in Row, NEW b \in Row, NEW c \in Row
  PROVE  /\ Newer(a, b) /\ Newer(b, c) => Newer(a, c)
         /\ ~Newer(a, a)
         /\ a.id # b.id => Newer(a, b) \/ Newer(b, a)
  BY DEF Newer, Older, Row

(* Some row is the newest.                                                 *)
LEMMA NewestExists ==
  ASSUME NEW rows \in SUBSET Row, IsFiniteSet(rows), Distinct(rows), rows # {}
  PROVE  \E m \in rows : \A n \in rows \ {m} : Newer(m, n)
  <1> DEFINE time == [m \in rows |-> -m.recordedAt]
             name == [m \in rows |-> -m.id]
  <1>1. \A m \in rows : time[m] \in Int /\ m.recordedAt \in Nat /\ m.id \in Nat
    BY DEF Row
  <1>2. PICK t \in rows : \A n \in rows : time[t] <= time[n]
    <2> HIDE DEF time
    <2>. QED  BY <1>1, LeastElement
  <1>3. \A n \in rows : n.recordedAt <= t.recordedAt
    BY <1>1, <1>2
  <1> DEFINE latest == {m \in rows : m.recordedAt = t.recordedAt}
  <1>4. latest # {} /\ IsFiniteSet(latest) /\ \A m \in latest : name[m] \in Int
    BY <1>1, FS_Subset
  <1>5. PICK m \in latest : \A n \in latest : name[m] <= name[n]
    <2> HIDE DEF name, latest
    <2>. QED  BY <1>4, LeastElement
  <1>6. \A n \in latest : n.id <= m.id
    BY <1>1, <1>5
  <1>7. ASSUME NEW n \in rows \ {m} PROVE Newer(m, n)
    <2>1. n.id # m.id
      BY <1>7 DEF Distinct
    <2>. QED  BY <1>1, <1>3, <1>6, <2>1 DEF Newer, Older
  <1>. QED  BY <1>7

(* The newest in front of the others, in order.                            *)
LEMMA OrderedExists ==
  ASSUME NEW rows \in SUBSET Row, IsFiniteSet(rows), Distinct(rows)
  PROVE  \E seq \in [1..Cardinality(rows) -> rows] : IsOrdered(seq)
  <1> DEFINE Can(s) == \E seq \in [1..Cardinality(s) -> s] : IsOrdered(seq)
             Bad == {s \in SUBSET rows : ~Can(s)}
  <1> SUFFICES ASSUME Bad # {} PROVE FALSE
    OBVIOUS
  <1>1. PICK s \in Bad : \A u \in Bad : ~(u \subseteq s /\ u # s)
    <2>1. Bad \in SUBSET SUBSET rows
      OBVIOUS
    <2> HIDE DEF Bad
    <2>. QED  BY <2>1, LeastSubset
  <1>2. s \in SUBSET rows /\ ~Can(s) /\ s \in SUBSET Row
    OBVIOUS
  <1>3. IsFiniteSet(s) /\ Distinct(s)
    BY <1>2, FS_Subset DEF Distinct
  <1>4. CASE s = {}
    <2>1. Cardinality(s) = 0 /\ 1..0 = {}
      BY <1>4, FS_EmptySet
    <2>2. [i \in {} |-> i] \in [1..Cardinality(s) -> s] /\ IsOrdered([i \in {} |-> i])
      BY <2>1 DEF IsOrdered
    <2>. QED  BY <1>2, <2>2
  <1>5. CASE s # {}
    <2>1. PICK m \in s : \A n \in s \ {m} : Newer(m, n)
      BY <1>2, <1>3, <1>5, NewestExists
    <2> DEFINE rest == s \ {m}
               k == Cardinality(s)
    <2>2. IsFiniteSet(rest) /\ Cardinality(rest) = k - 1 /\ k \in Nat
      BY <1>3, FS_RemoveElement, FS_CardinalityType
    <2>3. rest \in SUBSET rows /\ rest \notin Bad
      BY <1>1, <1>2
    <2>4. PICK tail \in [1..(k - 1) -> rest] : IsOrdered(tail)
      BY <2>2, <2>3
    <2> DEFINE seq == [i \in 1..k |-> IF i = 1 THEN m ELSE tail[i - 1]]
    <2> HIDE DEF k
    <2>5. \A i \in 1..k : i # 1 => i - 1 \in 1..(k - 1)
      BY <2>2
    <2>6. seq \in [1..k -> s]
      BY <2>4, <2>5
    <2>7. ASSUME NEW i \in 1..k, NEW j \in 1..k, i < j PROVE Newer(seq[i], seq[j])
      <3>1. j # 1 /\ seq[j] = tail[j - 1] /\ j - 1 \in 1..(k - 1)
        BY <2>2, <2>5, <2>7
      <3>2. CASE i = 1
        <4>1. tail[j - 1] \in rest
          BY <2>4, <3>1
        <4>. QED  BY <2>1, <3>1, <3>2, <4>1
      <3>3. CASE i # 1
        <4>1. seq[i] = tail[i - 1] /\ i - 1 \in 1..(k - 1) /\ i - 1 < j - 1
          BY <2>2, <2>5, <2>7, <3>3
        <4>. QED  BY <2>4, <3>1, <4>1 DEF IsOrdered
      <3>. QED  BY <3>2, <3>3
    <2>8. IsOrdered(seq)
      BY <2>7 DEF IsOrdered
    <2> HIDE DEF seq
    <2>. QED  BY <1>2, <2>6, <2>8 DEF k
  <1>. QED  BY <1>4, <1>5

(* What ORDER BY returns: every row, in order.                             *)
LEMMA OrderedShape ==
  ASSUME NEW rows \in SUBSET Row, IsFiniteSet(rows), Distinct(rows)
  PROVE  /\ Cardinality(rows) \in Nat
         /\ Ordered(rows) \in Seq(rows)
         /\ Len(Ordered(rows)) = Cardinality(rows)
         /\ \A i, j \in 1..Cardinality(rows) : i < j => Newer(Ordered(rows)[i], Ordered(rows)[j])
         /\ \A m \in rows : \E i \in 1..Cardinality(rows) : Ordered(rows)[i] = m
  <1> DEFINE k == Cardinality(rows)
             seq == Ordered(rows)
  <1>1. k \in Nat /\ IsFiniteSet(1..k) /\ Cardinality(1..k) = k
    <2>1. k \in Nat
      BY FS_CardinalityType
    <2>. QED  BY <2>1, FS_Interval
  <1>2. seq \in [1..k -> rows] /\ IsOrdered(seq)
    <2> DEFINE Sorts(q) == \A i, j \in DOMAIN q : i < j => q[i] # q[j] /\ ~Older(q[i], q[j])
    <2>1. \A a, b \in rows : Newer(a, b) <=> a # b /\ ~Older(a, b)
      <3>1. \A a, b \in rows : a \in Row /\ b \in Row /\ (a # b => a.id # b.id)
        BY DEF Distinct
      <3>. QED  BY <3>1, NewerOrders DEF Newer
    <2>2. \A q \in [1..k -> rows] : IsOrdered(q) <=> Sorts(q)
      BY <2>1 DEF IsOrdered
    <2>3. \E q \in [1..k -> rows] : Sorts(q)
      BY <2>2, OrderedExists
    <2>4. seq = CHOOSE q \in [1..k -> rows] : Sorts(q)
      BY DEF Ordered
    <2> HIDE DEF Sorts, seq
    <2>5. seq \in [1..k -> rows] /\ Sorts(seq)
      BY <2>3, <2>4
    <2>. QED  BY <2>2, <2>5
  <1> HIDE DEF k, seq
  <1>3. \A i, j \in 1..k : i < j => Newer(seq[i], seq[j])
    BY <1>2 DEF IsOrdered
  <1>4. \A i, j \in 1..k : seq[i] = seq[j] => i = j
    <2> SUFFICES ASSUME NEW i \in 1..k, NEW j \in 1..k, seq[i] = seq[j], i < j PROVE FALSE
      BY <1>1
    <2>1. Newer(seq[i], seq[i]) /\ seq[i] \in Row
      BY <1>2, <1>3
    <2>. QED  BY <2>1, NewerOrders
  <1>5. seq \in Injection(1..k, rows)
    BY <1>2, <1>4 DEF Injection, IsInjective
  <1>6. seq \in Surjection(1..k, rows)
    BY <1>1, <1>5, FS_Injection DEF k
  <1>7. \A m \in rows : \E i \in 1..k : seq[i] = m
    BY <1>6 DEF Surjection
  <1>8. seq \in Seq(rows) /\ Len(seq) = k
    BY <1>1, <1>2
  <1>. QED  BY <1>1, <1>3, <1>7, <1>8 DEF k, seq

------------------------------------------------------------------------------
(* A page of the rows that are left, and whether there is another.         *)
LEMMA MinOfTwo ==
  ASSUME NEW a \in Nat, NEW b \in Nat
  PROVE  Min({a, b}) = IF a <= b THEN a ELSE b
  <1> DEFINE c == IF a <= b THEN a ELSE b
  <1>1. c \in {a, b} /\ \A y \in {a, b} : c <= y
    OBVIOUS
  <1>2. \A x \in {a, b} : (\A y \in {a, b} : x <= y) => x = c
    OBVIOUS
  <1> HIDE DEF c
  <1>3. Min({a, b}) = c
    BY <1>1, <1>2 DEF Min
  <1>. QED  BY <1>3 DEF c

FirstOf(seq, n) == SubSeq(seq, 1, Min({n, Len(seq)}))

LEMMA FirstOfShape ==
  ASSUME NEW T, NEW seq \in Seq(T), NEW n \in Nat
  PROVE  /\ FirstOf(seq, n) \in Seq(T)
         /\ Len(FirstOf(seq, n)) = IF n <= Len(seq) THEN n ELSE Len(seq)
         /\ \A i \in 1..Len(FirstOf(seq, n)) : FirstOf(seq, n)[i] = seq[i]
  <1> DEFINE k == IF n <= Len(seq) THEN n ELSE Len(seq)
  <1>1. Len(seq) \in Nat /\ k \in Nat /\ k <= Len(seq)
    OBVIOUS
  <1>2. FirstOf(seq, n) = SubSeq(seq, 1, k)
    BY <1>1, MinOfTwo DEF FirstOf
  <1>3. \A i \in 1..k : seq[i] \in T
    BY <1>1, ElementOfSeq
  <1> HIDE DEF k
  <1>4. /\ SubSeq(seq, 1, k) \in Seq(T)
        /\ Len(SubSeq(seq, 1, k)) = k
        /\ \A i \in 1..k : SubSeq(seq, 1, k)[i] = seq[i]
    BY <1>1, <1>3, SubSeqProperties
  <1>. QED  BY <1>2, <1>4 DEF k

LEMMA PageShape ==
  ASSUME NEW rows \in SUBSET Row, IsFiniteSet(rows), Distinct(rows), NEW limit \in Nat \ {0}
  PROVE  LET entries == FirstOf(Ordered(rows), limit + 1)
             page == FirstOf(entries, limit)
         IN  /\ page \in Seq(rows)
             /\ IsOrdered(page)
             /\ Len(entries) <= limit => \A m \in rows : \E i \in 1..Len(page) : page[i] = m
             /\ Len(entries) > limit =>
                  /\ Len(page) > 0
                  /\ \A m \in rows : \/ \E i \in 1..Len(page) : page[i] = m
                                      \/ Older(m, page[Len(page)])
  <1> DEFINE found == Ordered(rows)
             n == Cardinality(rows)
             entries == FirstOf(found, limit + 1)
             page == FirstOf(entries, limit)
  <1>1. /\ n \in Nat /\ found \in Seq(rows) /\ Len(found) = n
        /\ \A i, j \in 1..n : i < j => Newer(found[i], found[j])
        /\ \A m \in rows : \E i \in 1..n : found[i] = m
    BY OrderedShape
  <1> HIDE DEF found, n
  <1>2. /\ entries \in Seq(rows)
        /\ Len(entries) = IF limit + 1 <= n THEN limit + 1 ELSE n
        /\ \A i \in 1..Len(entries) : entries[i] = found[i]
    BY <1>1, FirstOfShape
  <1> HIDE DEF entries
  <1>3. /\ page \in Seq(rows)
        /\ Len(page) = IF limit <= Len(entries) THEN limit ELSE Len(entries)
        /\ \A i \in 1..Len(page) : page[i] = entries[i]
    BY <1>2, FirstOfShape
  <1> HIDE DEF page
  <1>4. /\ Len(page) = IF limit <= n THEN limit ELSE n
        /\ \A i \in 1..Len(page) : page[i] = found[i]
        /\ Len(entries) > limit <=> n > limit
    BY <1>1, <1>2, <1>3
  <1>5. IsOrdered(page)
    <2>1. DOMAIN page = 1..Len(page)
      BY <1>3
    <2>. QED  BY <1>1, <1>4, <2>1 DEF IsOrdered
  <1>6. ASSUME Len(entries) <= limit, NEW m \in rows
        PROVE  \E i \in 1..Len(page) : page[i] = m
    <2>1. n <= limit
      BY <1>1, <1>2, <1>6
    <2>2. Len(page) = n
      BY <1>1, <1>4, <2>1
    <2>. QED  BY <1>1, <1>4, <2>2
  <1>7. ASSUME Len(entries) > limit
        PROVE  /\ Len(page) > 0
               /\ \A m \in rows : \/ \E i \in 1..Len(page) : page[i] = m
                                   \/ Older(m, page[Len(page)])
    <2>1. n > limit /\ Len(page) = limit /\ Len(page) \in 1..n
      BY <1>1, <1>4, <1>7
    <2>2. ASSUME NEW m \in rows, ~\E i \in 1..Len(page) : page[i] = m
          PROVE  Older(m, page[Len(page)])
      <3>1. PICK i \in 1..n : found[i] = m
        BY <1>1
      <3>2. Len(page) < i
        BY <1>4, <2>1, <2>2, <3>1
      <3>3. Newer(found[Len(page)], found[i]) /\ page[Len(page)] = found[Len(page)]
        BY <1>1, <1>4, <2>1, <3>2
      <3>. QED  BY <3>1, <3>3 DEF Newer
    <2>. QED  BY <2>1, <2>2
  <1>. QED  BY <1>3, <1>5, <1>6, <1>7 DEF page, entries, found

------------------------------------------------------------------------------
(* The writers.                                                            *)

Working(w) == pc[w] \in {"stamped", "minted", "locked"}
HasId(w)   == pc[w] \in {"minted", "locked"}

TypeOK ==
  /\ clock \in Nat /\ minted \in Nat
  /\ pc \in [Writers -> Stage]
  /\ draft \in [Writers -> Row \cup {Null}]
  /\ \A w \in Writers : Working(w) => draft[w] \in Row
  /\ last \in [Shelves -> Nat]
  /\ preceding \in [Writers -> SUBSET Nat]
  /\ movements \in SUBSET Row /\ IsFiniteSet(movements)

(* Ids and times come from one clock and one counter: what is committed is *)
(* not newer than they are, and no two rows share an id.                   *)
IdsInv ==
  /\ Distinct(movements)
  /\ \A m \in movements : m.id <= minted
  /\ \A w \in Writers : Working(w) => draft[w].recordedAt <= clock
  /\ \A m \in movements : m.recordedAt <= clock
  /\ \A w \in Writers : HasId(w) =>
       /\ draft[w].id <= minted
       /\ \A m \in movements : m.id # draft[w].id
       /\ \A v \in Writers \ {w} : HasId(v) => draft[v].id # draft[w].id

(* What was committed when a writer began stays behind it.                 *)
BehindInv ==
  \A w \in Writers : Working(w) =>
    /\ \A i \in preceding[w] : \E m \in movements : m.id = i
    /\ \A m \in movements : m.id \in preceding[w] =>
         /\ m.recordedAt <= draft[w].recordedAt
         /\ HasId(w) => m.id < draft[w].id

WritersInv == TypeOK /\ IdsInv /\ BehindInv

LEMMA WritersInit == Init => WritersInv
  <1> SUFFICES ASSUME Init PROVE WritersInv
    OBVIOUS
  <1>1. \A w \in Writers : ~Working(w) /\ ~HasId(w)
    BY DEF Init, Working, HasId
  <1>2. TypeOK
    BY <1>1, FS_EmptySet DEF Init, TypeOK, Stage
  <1>. QED  BY <1>1, <1>2 DEF Init, WritersInv, IdsInv, BehindInv, Distinct

LEMMA WritersStep == WritersInv /\ [Next]_vars => WritersInv'
  <1> SUFFICES ASSUME WritersInv, [Next]_vars PROVE WritersInv'
    OBVIOUS
  <1>0. TypeOK /\ IdsInv /\ BehindInv
    BY DEF WritersInv
  <1>1. CASE UNCHANGED vars
    BY <1>0, <1>1 DEF vars, writing, WritersInv, TypeOK, IdsInv, BehindInv, Working, HasId
  <1>2. CASE Begin \/ NextPage
    BY <1>0, <1>2 DEF Begin, NextPage, writing, WritersInv, TypeOK, IdsInv, BehindInv, Working, HasId
  <1>3. CASE Tick
    <2>1. clock' = clock + 1 /\ UNCHANGED writing
      BY <1>3 DEF Tick
    <2>2. TypeOK' /\ BehindInv'
      BY <1>0, <2>1 DEF writing, TypeOK, BehindInv, Working, HasId
    <2>3. \A n \in Nat : n <= clock => n <= clock'
      BY <1>0, <2>1 DEF TypeOK
    <2>4. IdsInv'
      BY <1>0, <2>1, <2>3 DEF writing, TypeOK, IdsInv, Working, HasId, Row
    <2>. QED  BY <2>2, <2>4 DEF WritersInv
  <1>4. ASSUME NEW w \in Writers, Stamp(w) PROVE WritersInv'
    <2>1. PICK s \in Shelves :
            draft' = [draft EXCEPT ![w] = [shelf |-> s, recordedAt |-> clock, id |-> 0, prev |-> 0]]
      BY <1>4 DEF Stamp, RecordedAt
    <2>2. /\ pc' = [pc EXCEPT ![w] = "stamped"] /\ pc[w] = "idle"
          /\ preceding' = [preceding EXCEPT ![w] = {m.id : m \in movements}]
          /\ UNCHANGED <<clock, last, movements, minted>>
      BY <1>4 DEF Stamp, Goto
    <2>3. /\ draft'[w] \in Row /\ draft'[w].recordedAt = clock
          /\ Working(w)' /\ ~HasId(w)'
      BY <1>0, <2>1, <2>2 DEF TypeOK, Row, Working, HasId
    <2>4. \A v \in Writers \ {w} : /\ draft'[v] = draft[v] /\ pc'[v] = pc[v]
                                    /\ Working(v)' = Working(v) /\ HasId(v)' = HasId(v)
      BY <1>0, <2>1, <2>2 DEF TypeOK, Working, HasId
    <2>5. TypeOK'
      <3>1. pc' \in [Writers -> Stage] /\ draft' \in [Writers -> Row \cup {Null}]
        BY <1>0, <2>1, <2>2, <2>3 DEF TypeOK, Stage
      <3>2. {m.id : m \in movements} \in SUBSET Nat
        BY <1>0 DEF TypeOK, Row
      <3>3. preceding' \in [Writers -> SUBSET Nat]
        BY <1>0, <2>2, <3>2 DEF TypeOK
      <3>. QED  BY <1>0, <2>2, <2>3, <2>4, <3>1, <3>3 DEF TypeOK
    <2>6. IdsInv'
      <3>1. clock \in Nat /\ clock <= clock
        BY <1>0 DEF TypeOK
      <3>. QED  BY <1>0, <2>2, <2>3, <2>4, <3>1 DEF IdsInv
    <2>7. BehindInv'
      <3>1. preceding'[w] = {m.id : m \in movements} /\ \A v \in Writers \ {w} : preceding'[v] = preceding[v]
        BY <1>0, <2>2 DEF TypeOK
      <3>. QED  BY <1>0, <2>2, <2>3, <2>4, <3>1 DEF IdsInv, BehindInv
    <2>. QED  BY <2>5, <2>6, <2>7 DEF WritersInv
  <1>5. ASSUME NEW w \in Writers, Mint(w) PROVE WritersInv'
    <2>1. /\ pc' = [pc EXCEPT ![w] = "minted"] /\ pc[w] = "stamped"
          /\ minted' = minted + 1
          /\ draft' = [draft EXCEPT ![w].id = minted + 1]
          /\ UNCHANGED <<clock, preceding, last, movements>>
      BY <1>5 DEF Mint, Goto
    <2>2. draft[w] \in Row /\ Working(w)
      BY <1>0, <2>1 DEF TypeOK, Working
    <2>3. /\ draft'[w] \in Row /\ draft'[w].id = minted'
          /\ draft'[w].recordedAt = draft[w].recordedAt
          /\ Working(w)' /\ HasId(w)'
      BY <1>0, <2>1, <2>2 DEF TypeOK, Row, Working, HasId
    <2>4. \A v \in Writers \ {w} : /\ draft'[v] = draft[v] /\ pc'[v] = pc[v]
                                    /\ Working(v)' = Working(v) /\ HasId(v)' = HasId(v)
      BY <1>0, <2>1 DEF TypeOK, Working, HasId
    <2>5. \A n \in Nat : n <= minted => n <= minted' /\ n < minted' /\ n # minted'
      BY <1>0, <2>1 DEF TypeOK
    <2>6. \A v \in Writers : HasId(v) => Working(v)
      BY DEF HasId, Working
    <2>7. /\ \A m \in movements : m.id \in Nat /\ m.id <= minted
          /\ \A v \in Writers : HasId(v) => draft[v].id \in Nat /\ draft[v].id <= minted
      BY <1>0, <2>6 DEF TypeOK, IdsInv, Row
    <2>8. TypeOK'
      <3>1. pc' \in [Writers -> Stage] /\ draft' \in [Writers -> Row \cup {Null}]
        BY <1>0, <2>1, <2>3 DEF TypeOK, Stage
      <3>. QED  BY <1>0, <2>1, <2>3, <2>4, <3>1 DEF TypeOK
    <2>9. IdsInv'
      <3>1. minted' <= minted'
        BY <1>0, <2>1 DEF TypeOK
      <3>2. Distinct(movements)' /\ \A m \in movements' : m.id <= minted' /\ m.recordedAt <= clock'
        BY <1>0, <2>1, <2>5, <2>7 DEF IdsInv, Distinct
      <3>3. \A v \in Writers : Working(v)' => draft'[v].recordedAt <= clock'
        BY <1>0, <2>1, <2>2, <2>3, <2>4 DEF IdsInv
      <3>4. \A v \in Writers : HasId(v)' =>
              /\ draft'[v].id <= minted'
              /\ \A m \in movements' : m.id # draft'[v].id
              /\ \A u \in Writers \ {v} : HasId(u)' => draft'[u].id # draft'[v].id
        BY <1>0, <2>1, <2>3, <2>4, <2>5, <2>7, <3>1 DEF IdsInv
      <3>. QED  BY <3>2, <3>3, <3>4 DEF IdsInv
    <2>10. BehindInv'
      BY <1>0, <2>1, <2>2, <2>3, <2>4, <2>5, <2>7 DEF BehindInv
    <2>. QED  BY <2>8, <2>9, <2>10 DEF WritersInv
  <1>6. ASSUME NEW w \in Writers, LockShelf(w) PROVE WritersInv'
    <2>1. /\ pc' = [pc EXCEPT ![w] = "locked"] /\ pc[w] = "minted"
          /\ draft' = [draft EXCEPT ![w].prev = last[draft[w].shelf]]
          /\ UNCHANGED <<clock, preceding, last, movements, minted>>
      BY <1>6 DEF LockShelf, Goto
    <2>2. draft[w] \in Row /\ Working(w) /\ HasId(w)
      BY <1>0, <2>1 DEF TypeOK, Working, HasId
    <2>3. /\ draft'[w] \in Row /\ draft'[w].id = draft[w].id
          /\ draft'[w].recordedAt = draft[w].recordedAt
          /\ Working(w)' /\ HasId(w)'
      <3>1. last[draft[w].shelf] \in Nat
        BY <1>0, <2>2 DEF TypeOK, Row
      <3>. QED  BY <1>0, <2>1, <2>2, <3>1 DEF TypeOK, Row, Working, HasId
    <2>4. \A v \in Writers : /\ Working(v)' = Working(v) /\ HasId(v)' = HasId(v)
                             /\ v # w => draft'[v] = draft[v] /\ pc'[v] = pc[v]
      BY <1>0, <2>1, <2>2, <2>3 DEF TypeOK, Working, HasId
    <2>5. TypeOK'
      <3>1. pc' \in [Writers -> Stage] /\ draft' \in [Writers -> Row \cup {Null}]
        BY <1>0, <2>1, <2>3 DEF TypeOK, Stage
      <3>. QED  BY <1>0, <2>1, <2>3, <2>4, <3>1 DEF TypeOK
    <2>6. \A v \in Writers : draft'[v].id = draft[v].id /\ draft'[v].recordedAt = draft[v].recordedAt
      BY <2>3, <2>4
    <2>7. IdsInv' /\ BehindInv'
      BY <1>0, <2>1, <2>4, <2>6 DEF IdsInv, BehindInv
    <2>. QED  BY <2>5, <2>7 DEF WritersInv
  <1>7. ASSUME NEW w \in Writers, Commit(w) PROVE WritersInv'
    <2>1. /\ pc' = [pc EXCEPT ![w] = "done"] /\ pc[w] = "locked"
          /\ movements' = movements \cup {draft[w]}
          /\ last' = [last EXCEPT ![draft[w].shelf] = draft[w].id]
          /\ UNCHANGED <<clock, draft, preceding, minted>>
      BY <1>7 DEF Commit, Goto
    <2>2. draft[w] \in Row /\ Working(w) /\ HasId(w)
      BY <1>0, <2>1 DEF TypeOK, Working, HasId
    <2>3. ~Working(w)' /\ ~HasId(w)'
      BY <1>0, <2>1 DEF TypeOK, Working, HasId
    <2>4. \A v \in Writers \ {w} : Working(v)' = Working(v) /\ HasId(v)' = HasId(v)
      BY <1>0, <2>1 DEF TypeOK, Working, HasId
    <2>5. TypeOK'
      <3>1. pc' \in [Writers -> Stage] /\ last' \in [Shelves -> Nat]
        BY <1>0, <2>1, <2>2 DEF TypeOK, Stage, Row
      <3>2. movements' \in SUBSET Row /\ IsFiniteSet(movements')
        BY <1>0, <2>1, <2>2, FS_AddElement DEF TypeOK
      <3>. QED  BY <1>0, <2>1, <2>3, <2>4, <3>1, <3>2 DEF TypeOK
    <2>6. \A m \in movements : m.id # draft[w].id
      BY <1>0, <2>2 DEF IdsInv
    <2>7. IdsInv'
      <3>1. Distinct(movements)'
        BY <1>0, <2>1, <2>6 DEF IdsInv, Distinct
      <3>2. \A m \in movements' : m.id <= minted' /\ m.recordedAt <= clock'
        BY <1>0, <2>1, <2>2 DEF IdsInv
      <3>. QED  BY <1>0, <2>1, <2>2, <2>3, <2>4, <3>1, <3>2 DEF IdsInv
    <2>8. BehindInv'
      <3>1. ASSUME NEW v \in Writers \ {w}, Working(v)
            PROVE  draft[w].id \notin preceding[v]
        BY <1>0, <2>6, <3>1 DEF BehindInv
      <3>. QED  BY <1>0, <2>1, <2>3, <2>4, <3>1 DEF BehindInv
    <2>. QED  BY <2>5, <2>7, <2>8 DEF WritersInv
  <1>8. ASSUME NEW w \in Writers, GiveUp(w) PROVE WritersInv'
    <2>1. /\ pc' = [pc EXCEPT ![w] = "done"]
          /\ UNCHANGED <<clock, draft, preceding, last, movements, minted>>
      BY <1>8 DEF GiveUp, Goto
    <2>2. \A v \in Writers : (Working(v)' => Working(v)) /\ (HasId(v)' => HasId(v))
      BY <1>0, <2>1 DEF TypeOK, Working, HasId
    <2>3. TypeOK'
      BY <1>0, <2>1, <2>2 DEF TypeOK, Stage
    <2>4. BehindInv'
      <3>1. \A v \in Writers : Working(v)' => HasId(v)' = HasId(v)
        BY <1>0, <2>1 DEF TypeOK, Working, HasId
      <3>. QED  BY <1>0, <2>1, <2>2, <3>1 DEF BehindInv
    <2>. QED  BY <1>0, <2>1, <2>2, <2>3, <2>4 DEF WritersInv, IdsInv
  <1>. QED  BY <1>1, <1>2, <1>3, <1>4, <1>5, <1>6, <1>7, <1>8 DEF Next, Write

------------------------------------------------------------------------------
(* The reader.                                                             *)

Read(m) == \E i \in 1..Len(feed) : feed[i] = m

(* The cursor is the place of the last row that was given out.             *)
CursorInv ==
  /\ cursor # Null => /\ reader = "reading" /\ Len(feed) > 0
                      /\ cursor = [recordedAt |-> feed[Len(feed)].recordedAt,
                                   id |-> feed[Len(feed)].id]
  /\ cursor = Null /\ reader # "done" => feed = <<>>

(* What is owed and not yet read lies behind the cursor.                   *)
OwedInv ==
  /\ reader = "idle" => owed = {}
  /\ \A m \in owed : m \in movements /\ Matches(m, filter)
  /\ reader = "reading" /\ cursor # Null => \A m \in owed : Read(m) \/ Older(m, cursor)
  /\ reader = "done" => \A m \in owed : Read(m)

ReaderInv ==
  /\ reader \in {"idle", "reading", "done"}
  /\ feed \in Seq(Row) /\ IsOrdered(feed)
  /\ CursorInv /\ OwedInv

HistoryInv == WritersInv /\ ReaderInv

LEMMA ReaderInit == Init => ReaderInv
  <1> SUFFICES ASSUME Init PROVE ReaderInv
    OBVIOUS
  <1>1. feed = <<>> /\ Len(feed) = 0 /\ feed \in Seq(Row) /\ DOMAIN feed = {}
    BY EmptySeq DEF Init
  <1>. QED  BY <1>1 DEF Init, ReaderInv, IsOrdered, CursorInv, OwedInv

(* Writers only add rows.                                                  *)
LEMMA WritersAdd ==
  ASSUME [Next]_vars
  PROVE  movements \subseteq movements'
  BY DEF Next, Write, vars, writing, Tick, Begin, NextPage, Stamp, Mint, LockShelf, Commit, GiveUp

LEMMA OwedStays ==
  ASSUME OwedInv, CursorInv, movements \subseteq movements', UNCHANGED reading
  PROVE  OwedInv' /\ CursorInv'
  BY DEF OwedInv, CursorInv, reading, Read, Matches

(* One page further.                                                       *)
LEMMA PageRead ==
  ASSUME HistoryInv, NextPage
  PROVE  ReaderInv'
  <1>0. /\ TypeOK /\ IdsInv /\ ReaderInv /\ CursorInv /\ OwedInv
        /\ feed \in Seq(Row) /\ IsOrdered(feed) /\ Len(feed) \in Nat
    BY DEF HistoryInv, WritersInv, ReaderInv
  <1> DEFINE rows == {m \in movements : Matches(m, filter) /\ (cursor # Null => Older(m, cursor))}
  <1>1. rows \in SUBSET Row /\ IsFiniteSet(rows) /\ Distinct(rows)
    <2>1. rows \in SUBSET movements
      OBVIOUS
    <2>. QED  BY <1>0, <2>1, FS_Subset DEF TypeOK, IdsInv, Distinct
  <1>2. PICK limit \in Limits :
          /\ feed' = feed \o ListMovements(limit).page
          /\ \/ /\ ListMovements(limit).more
                /\ cursor' = [recordedAt |-> Last(ListMovements(limit).page).recordedAt,
                              id |-> Last(ListMovements(limit).page).id]
                /\ UNCHANGED reader
             \/ /\ ~ListMovements(limit).more
                /\ cursor' = Null
                /\ reader' = "done"
    BY DEF NextPage
  <1>3. reader = "reading" /\ UNCHANGED <<movements, filter, owed>>
    BY DEF NextPage, writing
  <1>4. limit \in Nat \ {0}
    BY HistoryAssumption
  <1> DEFINE entries == FirstOf(Ordered(rows), limit + 1)
             page == FirstOf(entries, limit)
  <1>5. ListMovements(limit) = [page |-> page, more |-> Len(entries) > limit]
    BY DEF ListMovements, ListMovementHistory, FirstOf
  <1>6. /\ page \in Seq(rows)
        /\ IsOrdered(page)
        /\ Len(entries) <= limit => \A m \in rows : \E i \in 1..Len(page) : page[i] = m
        /\ Len(entries) > limit =>
             /\ Len(page) > 0
             /\ \A m \in rows : \/ \E i \in 1..Len(page) : page[i] = m
                                 \/ Older(m, page[Len(page)])
    BY <1>1, <1>4, PageShape
  <1>7. Len(entries) \in Nat
    <2>1. Ordered(rows) \in Seq(rows)
      BY <1>1, OrderedShape
    <2>2. entries \in Seq(rows)
      BY <1>4, <2>1, FirstOfShape
    <2>. QED  BY <2>2
  <1> DEFINE more == Len(entries) > limit
  <1>8. /\ feed' = feed \o page
        /\ more => cursor' = [recordedAt |-> page[Len(page)].recordedAt, id |-> page[Len(page)].id]
        /\ more => reader' = reader
        /\ ~more => cursor' = Null /\ reader' = "done"
    <2> HIDE DEF page, entries
    <2>1. ListMovements(limit).page = page
      BY <1>5
    <2>2. ListMovements(limit).more = (Len(entries) > limit)
      BY <1>5
    <2>. QED  BY <1>2, <2>1, <2>2 DEF Last
  <1>9. ~more => Len(entries) <= limit
    BY <1>4, <1>7
  <1> HIDE DEF entries, page
  <1>10. page \in Seq(Row) /\ Len(page) \in Nat
    BY <1>1, <1>6, SeqMonotonic
  <1>11. /\ feed' \in Seq(Row) /\ Len(feed') = Len(feed) + Len(page)
         /\ \A i \in 1..Len(feed) + Len(page) :
              feed'[i] = IF i <= Len(feed) THEN feed[i] ELSE page[i - Len(feed)]
    BY <1>0, <1>8, <1>10, ConcatProperties
  <1>12. /\ \A i \in 1..Len(feed) : i \in 1..Len(feed') /\ feed'[i] = feed[i]
         /\ \A i \in 1..Len(page) : Len(feed) + i \in 1..Len(feed') /\ feed'[Len(feed) + i] = page[i]
         /\ \A i \in 1..Len(feed) : feed[i] \in Row
         /\ \A i \in 1..Len(page) : page[i] \in Row /\ page[i] \in rows
    <2> HIDE DEF rows
    <2>1. ASSUME NEW i \in 1..Len(feed)
          PROVE  i \in 1..Len(feed') /\ feed'[i] = feed[i] /\ feed[i] \in Row
      <3>1. i \in 1..Len(feed) + Len(page) /\ i <= Len(feed)
        BY <1>0, <1>10, <2>1
      <3>2. feed'[i] = feed[i]
        BY <1>11, <3>1
      <3>3. feed[i] \in Row
        BY <1>0, <2>1, ElementOfSeq
      <3>. QED  BY <1>11, <3>1, <3>2, <3>3
    <2>2. ASSUME NEW i \in 1..Len(page)
          PROVE  /\ Len(feed) + i \in 1..Len(feed') /\ feed'[Len(feed) + i] = page[i]
                 /\ page[i] \in Row /\ page[i] \in rows
      <3>1. /\ Len(feed) + i \in 1..Len(feed) + Len(page)
            /\ ~(Len(feed) + i <= Len(feed)) /\ (Len(feed) + i) - Len(feed) = i
        BY <1>0, <1>10, <2>2
      <3>2. feed'[Len(feed) + i] = page[i]
        BY <1>11, <3>1
      <3>3. page[i] \in Row
        BY <1>10, <2>2, ElementOfSeq
      <3>4. page[i] \in rows
        BY <1>6, <2>2, ElementOfSeq
      <3>. QED  BY <1>11, <3>1, <3>2, <3>3, <3>4
    <2>. QED  BY <2>1, <2>2
  <1>13. \A m : (Read(m) => Read(m)') /\ ((\E i \in 1..Len(page) : page[i] = m) => Read(m)')
    BY <1>12 DEF Read
  <1>14. ASSUME NEW i \in 1..Len(feed), NEW j \in 1..Len(page)
         PROVE  Newer(feed[i], page[j])
    <2> DEFINE k == Len(feed)
    <2>1. k > 0 /\ feed # <<>> /\ k \in 1..Len(feed)
      BY <1>0, <1>14
    <2>2. cursor # Null
      BY <1>0, <1>3, <2>1 DEF CursorInv
    <2>3. cursor = [recordedAt |-> feed[k].recordedAt, id |-> feed[k].id]
      BY <1>0, <2>2 DEF CursorInv
    <2>4. Newer(feed[k], page[j])
      <3>1. Older(page[j], cursor)
        BY <1>12, <2>2
      <3>. QED  BY <2>3, <3>1 DEF Newer, Older
    <2>5. CASE i = k
      BY <2>4, <2>5
    <2>6. CASE i # k
      <3>1. i < k /\ DOMAIN feed = 1..k
        BY <1>0, <1>14, <2>6
      <3>2. Newer(feed[i], feed[k])
        BY <1>0, <2>1, <3>1 DEF IsOrdered
      <3>. QED  BY <1>12, <2>1, <2>4, <3>2, NewerOrders
    <2>. QED  BY <2>5, <2>6
  <1>15. IsOrdered(feed')
    <2>1. DOMAIN feed' = 1..Len(feed') /\ DOMAIN feed = 1..Len(feed) /\ DOMAIN page = 1..Len(page)
      BY <1>0, <1>10, <1>11
    <2>2. ASSUME NEW i \in 1..Len(feed'), NEW j \in 1..Len(feed'), i < j
          PROVE  Newer(feed'[i], feed'[j])
      <3>1. CASE j <= Len(feed)
        BY <1>0, <1>11, <2>1, <2>2, <3>1 DEF IsOrdered
      <3>2. CASE i <= Len(feed) /\ j > Len(feed)
        <4>1. j - Len(feed) \in 1..Len(page) /\ i \in 1..Len(feed)
          BY <1>0, <1>10, <1>11, <2>2, <3>2
        <4>2. feed'[i] = feed[i] /\ feed'[j] = page[j - Len(feed)]
          BY <1>0, <1>10, <1>11, <2>2, <3>2
        <4>. QED  BY <1>14, <4>1, <4>2
      <3>3. CASE i > Len(feed)
        <4>1. /\ j - Len(feed) \in 1..Len(page) /\ i - Len(feed) \in 1..Len(page)
              /\ i - Len(feed) < j - Len(feed)
          BY <1>0, <1>10, <1>11, <2>2, <3>3
        <4>2. feed'[i] = page[i - Len(feed)] /\ feed'[j] = page[j - Len(feed)]
          BY <1>0, <1>10, <1>11, <2>2, <3>3
        <4>. QED  BY <1>6, <2>1, <4>1, <4>2 DEF IsOrdered
      <3>. QED  BY <1>0, <1>11, <2>2, <3>1, <3>2, <3>3
    <2>. QED  BY <2>1, <2>2 DEF IsOrdered
  <1>16. CursorInv'
    <2>1. CASE more
      <3>1. Len(page) > 0 /\ cursor' = [recordedAt |-> page[Len(page)].recordedAt, id |-> page[Len(page)].id]
        BY <1>6, <1>8, <2>1
      <3>2. Len(feed') > 0 /\ feed'[Len(feed')] = page[Len(page)]
        BY <1>0, <1>10, <1>11, <1>12, <3>1
      <3>3. cursor' # Null
        <4>1. page[Len(page)] \in Row
          BY <1>10, <1>12, <3>1
        <4>. QED  BY <3>1, <4>1, HistoryAssumption DEF Row
      <3>. QED  BY <1>3, <1>8, <2>1, <3>1, <3>2, <3>3 DEF CursorInv
    <2>2. CASE ~more
      BY <1>8, <2>2 DEF CursorInv
    <2>. QED  BY <2>1, <2>2
  <1>17. OwedInv'
    <2>1. \A m \in owed : Read(m) \/ m \in rows
      BY <1>0, <1>3 DEF OwedInv
    <2>2. owed' = owed /\ \A m \in owed' : m \in movements' /\ Matches(m, filter)'
      BY <1>0, <1>3 DEF OwedInv, Matches
    <2>3. CASE more
      <3>1. \A m : Older(m, page[Len(page)]) => Older(m, cursor')
        BY <1>8, <2>3 DEF Older
      <3>2. \A m \in owed : Read(m)' \/ Older(m, cursor')
        BY <1>6, <1>13, <2>1, <2>3, <3>1
      <3>. QED  BY <1>3, <1>8, <2>2, <2>3, <3>2 DEF OwedInv, Older
    <2>4. CASE ~more
      <3>1. \A m \in owed : Read(m)'
        BY <1>6, <1>9, <1>13, <2>1, <2>4
      <3>. QED  BY <1>8, <2>2, <2>4, <3>1 DEF OwedInv
    <2>. QED  BY <2>3, <2>4
  <1>18. reader' \in {"idle", "reading", "done"}
    BY <1>3, <1>8
  <1>. QED  BY <1>11, <1>15, <1>16, <1>17, <1>18 DEF ReaderInv

LEMMA HistoryStep == HistoryInv /\ [Next]_vars => HistoryInv'
  <1> SUFFICES ASSUME HistoryInv, [Next]_vars PROVE HistoryInv'
    OBVIOUS
  <1>0. ReaderInv /\ CursorInv /\ OwedInv
    BY DEF HistoryInv, ReaderInv
  <1>1. WritersInv'
    BY WritersStep DEF HistoryInv
  <1>2. CASE UNCHANGED reading
    <2>1. OwedInv' /\ CursorInv'
      BY <1>0, <1>2, OwedStays, WritersAdd
    <2>. QED  BY <1>0, <1>1, <1>2, <2>1 DEF HistoryInv, ReaderInv, reading, IsOrdered
  <1>3. CASE Begin
    <2>1. /\ reader = "idle" /\ reader' = "reading" /\ UNCHANGED <<movements, cursor, feed>>
          /\ \E f \in Filters : filter' = f /\ owed' = {m \in movements : Matches(m, f)}
      BY <1>3 DEF Begin, writing
    <2>2. cursor = Null /\ cursor' = Null /\ feed' = <<>>
      BY <1>0, <2>1 DEF CursorInv
    <2>3. OwedInv' /\ CursorInv'
      BY <2>1, <2>2 DEF OwedInv, CursorInv, Matches
    <2>. QED  BY <1>0, <1>1, <2>1, <2>3 DEF HistoryInv, ReaderInv, IsOrdered
  <1>4. CASE NextPage
    BY <1>1, <1>4, PageRead DEF HistoryInv
  <1>5. CASE UNCHANGED vars
    BY <1>2, <1>5 DEF vars
  <1>6. CASE Tick \/ \E w \in Writers : Write(w)
    <2>1. UNCHANGED reading
      BY <1>6 DEF Tick, Write, Stamp, Mint, LockShelf, Commit, GiveUp
    <2>. QED  BY <1>2, <2>1
  <1>. QED  BY <1>3, <1>4, <1>5, <1>6 DEF Next

(* Writers and reader together: what a page is taken from, where the       *)
(* cursor stands in it, and what still lies behind it.                     *)
THEOREM HistoryInvariant == Spec => []HistoryInv
  BY WritersInit, ReaderInit, HistoryStep, PTL DEF Spec, HistoryInv

(* movementHistoryRepository.ts: across every page boundary, however pages *)
(* are sized and whatever is posted meanwhile, the feed runs strictly from *)
(* newer to older.                                                         *)
THEOREM NothingIsReadTwice == Spec => []NothingTwice
  <1>1. ASSUME HistoryInv PROVE NothingTwice
    <2>1. feed \in Seq(Row) /\ IsOrdered(feed)
      BY <1>1 DEF HistoryInv, ReaderInv
    <2>2. Len(feed) \in Nat /\ DOMAIN feed = 1..Len(feed)
      BY <2>1
    <2>3. \A i \in 1..Len(feed) - 1 : i \in 1..Len(feed) /\ i + 1 \in 1..Len(feed) /\ i < i + 1
      BY <2>2
    <2>. QED  BY <2>1, <2>2, <2>3 DEF NothingTwice, IsOrdered
  <1>. QED  BY <1>1, HistoryInvariant, PTL

(* And whoever has read to the end has read everything that matched when   *)
(* the reading began.                                                      *)
THEOREM NothingIsSkipped == Spec => []NothingSkipped
  <1>1. ASSUME HistoryInv PROVE NothingSkipped
    <2>1. feed \in Seq(Row) /\ (reader = "done" => \A m \in owed : Read(m))
      BY <1>1 DEF HistoryInv, ReaderInv, OwedInv
    <2>2. \A m : Read(m) => m \in Range(feed)
      BY <2>1 DEF Read, Range
    <2>. QED  BY <2>1, <2>2 DEF NothingSkipped
  <1>. QED  BY <1>1, HistoryInvariant, PTL

(* A command that begins when another is over stands in front of it in the *)
(* feed, whichever shelf either is for: both halves of its place are drawn *)
(* after the other's.                                                      *)
THEOREM CommandsKeepTheirOrder == Spec => []LaterCommandsAreNewer
  <1>1. ASSUME HistoryInv PROVE LaterCommandsAreNewer
    <2>1. TypeOK /\ BehindInv
      BY <1>1 DEF HistoryInv, WritersInv
    <2>2. SUFFICES ASSUME NEW w \in Writers, pc[w] = "locked",
                          NEW m \in movements, m.id \in preceding[w]
                   PROVE  Newer(draft[w], m)
      BY DEF LaterCommandsAreNewer
    <2>3. Working(w) /\ HasId(w) /\ draft[w] \in Row /\ m \in Row
      BY <2>1, <2>2 DEF Working, HasId, TypeOK
    <2>4. m.recordedAt <= draft[w].recordedAt /\ m.id < draft[w].id
      BY <2>1, <2>2, <2>3 DEF BehindInv
    <2>. QED  BY <2>3, <2>4 DEF Newer, Older, Row
  <1>. QED  BY <1>1, HistoryInvariant, PTL
===============================================================================
