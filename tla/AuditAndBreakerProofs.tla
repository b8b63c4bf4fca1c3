----------------------- MODULE AuditAndBreakerProofs -----------------------
(***************************************************************************)
(* Proofs about two objects that concurrent requests share and whose       *)
(* methods are critical sections: the audit log (AuditLog), for any        *)
(* requests, capacity, file limit and queries, and the circuit breaker     *)
(* (CircuitBreaker), for any clients, thresholds and timeout.              *)
(***************************************************************************)
EXTENDS AuditLog, CircuitBreaker, FiniteSetTheorems, TLAPS

(***************************************************************************)
(* The inductive invariant of the audit log.                               *)
(***************************************************************************)

\* The slot that holds the entry appended i entries before the last one.
Slot(i) == IF i < head THEN head - 1 - i ELSE head - 1 - i + Capacity

\* The ring holds the latest entries of the list: from slot 0 on until it is full,
\* and from then on around its end.
RingInv ==
    /\ count = Kept
    /\ count < Capacity => head = count
    /\ \A i \in 0 .. count - 1 : buf[Slot(i)] = Newest(i)

\* No file has been rotated to a name of the future, and only entries that were
\* given to a logger have been lost.
FilesInv ==
    /\ \A t \in 0 .. MaxTime : t > clock => archive[t] = <<>>
    /\ excused \subseteq ToSet(written)

AuditInv == TypeOK /\ RingInv /\ FilesInv /\ DiskInOrder

(***************************************************************************)
(* The ring.                                                               *)
(***************************************************************************)

\* A number below twice a capacity, modulo the capacity.
LEMMA Wraps ==
    ASSUME NEW C \in Nat \ {0}, NEW a \in Nat, a < C + C
    PROVE  a % C = IF a < C THEN a ELSE a - C
<1>1. CASE a < C
  BY <1>1
<1>2. CASE C <= a
  BY <1>2
<1> QED
  BY <1>1, <1>2

\* The walk of Query visits the slots in the order of Slot.
LEMMA WalkVisits ==
    ASSUME TypeOK, NEW i \in 0 .. Capacity - 1
    PROVE  NewestBut(i) = buf[Slot(i)]
<1> DEFINE start == (head - 1 + Capacity) % Capacity
<1>0. Capacity \in Nat \ {0} /\ head \in 0 .. Capacity - 1
  BY ConstantsAssumption DEF TypeOK
<1>1. start = IF head = 0 THEN Capacity - 1 ELSE head - 1
  <2> DEFINE a == head - 1 + Capacity
  <2>1. a \in Nat /\ a < Capacity + Capacity /\ (a < Capacity <=> head = 0)
    BY <1>0
  <2>2. a % Capacity = IF a < Capacity THEN a ELSE a - Capacity
    BY <1>0, <2>1, Wraps
  <2> QED
    BY <1>0, <2>1, <2>2
<1>2. start \in 0 .. Capacity - 1
  BY <1>0, <1>1
<1>3. NewestBut(i) = buf[(start - i + Capacity) % Capacity]
  BY DEF NewestBut
<1> HIDE DEF start
<1>4. (start - i + Capacity) % Capacity = IF i <= start THEN start - i ELSE start - i + Capacity
  <2> DEFINE a == start - i + Capacity
  <2>1. a \in Nat /\ a < Capacity + Capacity /\ (a < Capacity <=> i > start)
    BY <1>0, <1>2
  <2>2. a % Capacity = IF a < Capacity THEN a ELSE a - Capacity
    BY <1>0, <2>1, Wraps
  <2> QED
    BY <1>0, <1>2, <2>1, <2>2
<1>5. (start - i + Capacity) % Capacity = Slot(i)
  BY <1>0, <1>1, <1>4 DEF Slot
<1> QED
  BY <1>3, <1>5

\* The length of the list, before and after an append.
LEMMA AppendLengths ==
    ASSUME NEW S, NEW s \in Seq(S), NEW e \in S
    PROVE  /\ Append(s, e) \in Seq(S)
           /\ Len(s) \in Nat /\ Len(Append(s, e)) = Len(s) + 1
           /\ DOMAIN s = 1 .. Len(s) /\ DOMAIN Append(s, e) = 1 .. Len(s) + 1
           /\ \A i \in 1 .. Len(s) : Append(s, e)[i] = s[i]
           /\ Append(s, e)[Len(s) + 1] = e
  OBVIOUS

Logs(e) == log' = Append(log, e)

\* An append puts its entry into the slot that the entry leaving the latest ones
\* had, or into a free one.
LEMMA RingAppends ==
    ASSUME TypeOK, RingInv, NEW e \in Entry, AppendRing(e), Logs(e)
    PROVE  RingInv'
<1> DEFINE n == Len(log)
<1>1. /\ n \in Nat /\ Len(log') = n + 1
      /\ \A i \in 1 .. n : log'[i] = log[i]
      /\ log'[n + 1] = e
  BY AppendLengths DEF TypeOK, Logs
<1>2. /\ Capacity \in Nat \ {0} /\ head \in 0 .. Capacity - 1
      /\ buf \in [0 .. Capacity - 1 -> Entry \cup {NoEntry}]
  BY ConstantsAssumption DEF TypeOK
<1>3. count = (IF n > Capacity THEN Capacity ELSE n)
  BY DEF RingInv, Kept
<1>4. count' = (IF n + 1 > Capacity THEN Capacity ELSE n + 1)
  BY <1>1, <1>2, <1>3 DEF AppendRing
<1>5. head' = IF head + 1 = Capacity THEN 0 ELSE head + 1
  <2> DEFINE a == head + 1
  <2>1. a \in Nat /\ a < Capacity + Capacity /\ (a < Capacity <=> a # Capacity)
    BY <1>2
  <2>2. head' = a % Capacity
    BY DEF AppendRing, NextHead
  <2> HIDE DEF a
  <2>3. a % Capacity = IF a < Capacity THEN a ELSE a - Capacity
    BY <1>2, <2>1, Wraps
  <2>4. head' = IF a = Capacity THEN 0 ELSE a
    BY <1>2, <2>1, <2>2, <2>3
  <2> QED
    BY <2>4 DEF a
<1>6. /\ buf'[head] = e
      /\ \A k \in 0 .. Capacity - 1 : k # head => buf'[k] = buf[k]
  BY <1>2 DEF AppendRing
<1>7. /\ count < Capacity => head = count
      /\ \A i \in 0 .. count - 1 : buf[Slot(i)] = log[n - i]
  BY DEF RingInv, Newest
<1> HIDE DEF n
<1>8. count' = Kept'
  BY <1>1, <1>4 DEF Kept
<1>9. count' < Capacity => head' = count'
  BY <1>1, <1>2, <1>3, <1>4, <1>5, <1>7
<1>10. ASSUME NEW i \in 0 .. count' - 1 PROVE buf'[Slot(i)'] = Newest(i)'
  <2>1. CASE i = 0
    <3>1. Slot(i)' = head
      BY <2>1, <1>2, <1>5 DEF Slot
    <3>2. Newest(i)' = log'[n + 1]
      BY <2>1, <1>1 DEF Newest
    <3> QED
      BY <3>1, <3>2, <1>1, <1>6
  <2>2. CASE i # 0
    <3>1. i \in 1 .. n /\ i - 1 \in 0 .. count - 1 /\ i - 1 < Capacity - 1
      BY <2>2, <1>1, <1>2, <1>3, <1>4
    <3>2. Slot(i)' = Slot(i - 1)
      BY <3>1, <1>2, <1>5 DEF Slot
    <3>3. Slot(i - 1) \in 0 .. Capacity - 1 /\ Slot(i - 1) # head
      BY <3>1, <1>1, <1>2, <1>3, <1>7 DEF Slot
    <3>4. Newest(i)' = log'[n + 1 - i]
      <4>1. Newest(i)' = log'[Len(log') - i]
        BY DEF Newest
      <4> QED
        BY <4>1, <1>1
    <3>5. n + 1 - i \in 1 .. n /\ n - (i - 1) = n + 1 - i
      BY <3>1, <1>1
    <3>6. buf'[Slot(i - 1)] = log[n - (i - 1)]
      BY <3>1, <3>3, <1>6, <1>7
    <3> QED
      BY <3>2, <3>4, <3>5, <3>6, <1>1
  <2> QED
    BY <2>1, <2>2
<1> QED
  BY <1>8, <1>9, <1>10 DEF RingInv

(***************************************************************************)
(* Queries.                                                                *)
(***************************************************************************)
UpTo(S, n) == {m \in S : m <= n}

\* The members of a finite set of numbers are told apart by how many come before.
LEMMA NthOfRank ==
    ASSUME NEW S \in SUBSET Nat, IsFiniteSet(S), NEW n \in S
    PROVE  /\ Cardinality(S) \in Nat
           /\ Cardinality(UpTo(S, n)) \in 1 .. Cardinality(S)
           /\ Nth(S, Cardinality(UpTo(S, n))) = n
<1>1. \A k \in S : UpTo(S, k) \in SUBSET S /\ k \in UpTo(S, k)
  BY DEF UpTo
<1>2. \A k \in S : IsFiniteSet(UpTo(S, k)) /\ Cardinality(UpTo(S, k)) <= Cardinality(S)
  BY <1>1, FS_Subset
<1>3. Cardinality(S) \in Nat /\ \A k \in S : Cardinality(UpTo(S, k)) \in Nat
  BY <1>2, FS_CardinalityType
<1>4. Cardinality(UpTo(S, n)) # 0
  BY <1>1, <1>2, FS_EmptySet
<1>5. ASSUME NEW k \in S, NEW l \in S, k < l
      PROVE  Cardinality(UpTo(S, k)) # Cardinality(UpTo(S, l))
  <2>1. UpTo(S, k) \in SUBSET UpTo(S, l) /\ l \in UpTo(S, l) /\ l \notin UpTo(S, k)
    <3>1. \A m \in S : (m <= k => m <= l) /\ l <= l /\ ~(l <= k)
      BY <1>5
    <3> QED
      BY <3>1 DEF UpTo
  <2> QED
    BY <1>2, <2>1, FS_Subset
<1>6. \A k \in S : Cardinality(UpTo(S, k)) = Cardinality(UpTo(S, n)) => k = n
  <2> SUFFICES ASSUME NEW k \in S, k # n
               PROVE  Cardinality(UpTo(S, k)) # Cardinality(UpTo(S, n))
    OBVIOUS
  <2>1. k < n \/ n < k
    OBVIOUS
  <2> QED
    BY <2>1, <1>5
<1>7. Nth(S, Cardinality(UpTo(S, n))) = CHOOSE i \in S : Cardinality(UpTo(S, i)) = Cardinality(UpTo(S, n))
  BY DEF Nth, UpTo
<1> QED
  BY <1>2, <1>3, <1>4, <1>6, <1>7

\* A page of a sequence is the part of it behind the offset, up to the limit.
LEMMA PageCuts ==
    ASSUME NEW S, NEW q \in Seq(S), NEW limit \in Int, NEW offset \in Nat
    PROVE  /\ \A k \in 1 .. Len(q) : k > offset /\ (limit <= 0 \/ k <= offset + limit)
                => /\ k - offset \in DOMAIN Page(q, limit, offset)
                   /\ Page(q, limit, offset)[k - offset] = q[k]
           /\ \A k \in DOMAIN Page(q, limit, offset) :
                k + offset <= Len(q) /\ (limit <= 0 \/ k <= limit)
<1> DEFINE n == Len(q)
           rest == SubSeq(q, offset + 1, n)
<1>1. n \in Nat
  OBVIOUS
<1>2. CASE offset > n
  <2>1. Page(q, limit, offset) = <<>>
    BY <1>2 DEF Page
  <2> QED
    BY <1>1, <1>2, <2>1
<1>3. CASE offset <= n
  <2>1. rest \in Seq(S) /\ Len(rest) = n - offset /\ \A k \in 1 .. n - offset : rest[k] = q[offset + k]
    BY <1>1, <1>3
  <2>2. Page(q, limit, offset) = IF limit > 0 /\ limit < Len(rest) THEN SubSeq(rest, 1, limit) ELSE rest
    BY <1>1, <1>3 DEF Page
  <2> HIDE DEF rest, n
  <2>3. CASE limit > 0 /\ limit < n - offset
    <3>1. Page(q, limit, offset) = SubSeq(rest, 1, limit)
      BY <2>1, <2>2, <2>3
    <3>2. /\ DOMAIN SubSeq(rest, 1, limit) = 1 .. limit
          /\ \A k \in 1 .. limit : SubSeq(rest, 1, limit)[k] = rest[k]
      BY <1>1, <2>1, <2>3
    <3>3. \A k \in 1 .. limit : Page(q, limit, offset)[k] = q[offset + k]
      BY <1>1, <2>1, <2>3, <3>1, <3>2
    <3> QED
      BY <1>1, <1>3, <2>3, <3>1, <3>2, <3>3 DEF n
  <2>4. CASE ~(limit > 0 /\ limit < n - offset)
    <3>1. Page(q, limit, offset) = rest /\ DOMAIN rest = 1 .. n - offset
      BY <2>1, <2>2, <2>4
    <3> QED
      BY <1>1, <1>3, <2>1, <2>4, <3>1 DEF n
  <2> QED
    BY <2>3, <2>4
<1> QED
  BY <1>1, <1>2, <1>3

\* The entries among the latest ones that pass all filters, counted from the newest.
Passing(from, to, want) ==
    {n \in 0 .. Kept - 1 : Since(Newest(n), from) /\ Matches(Newest(n), to, want)}

\* The list has the latest entries that the ring is to hold.
LEMMA KeptEntries ==
    ASSUME TypeOK
    PROVE  Kept \in 0 .. Capacity /\ \A n \in 0 .. Kept - 1 : Newest(n) \in Entry
<1> DEFINE l == Len(log)
<1>1. l \in Nat /\ Capacity \in Nat \ {0} /\ \A i \in 1 .. l : log[i] \in Entry
  BY ConstantsAssumption DEF TypeOK
<1>2. Kept = IF l > Capacity THEN Capacity ELSE l
  BY DEF Kept
<1> HIDE DEF l
<1>3. Kept \in 0 .. Capacity /\ Kept <= l
  BY <1>1, <1>2
<1>4. \A n \in 0 .. Kept - 1 : l - n \in 1 .. l
  BY <1>1, <1>3
<1> QED
  BY <1>1, <1>3, <1>4 DEF Newest, l

\* The walk finds the entries that pass: with entries in order of time, the first
\* one that is too old ends the matches.
LEMMA WalkFinds ==
    ASSUME TypeOK, RingInv, NEW from \in Times, NEW to, NEW want, from = Unset \/ Sorted
    PROVE  Found(from, to, want) = Passing(from, to, want)
<1>1. /\ count = Kept /\ Kept \in 0 .. Capacity
      /\ \A n \in 0 .. Kept - 1 : NewestBut(n) = Newest(n) /\ Newest(n) \in Entry
  <2>1. count = Kept /\ \A n \in 0 .. count - 1 : buf[Slot(n)] = Newest(n)
    BY DEF RingInv
  <2>2. Kept \in 0 .. Capacity /\ \A n \in 0 .. Kept - 1 : n \in 0 .. Capacity - 1 /\ Newest(n) \in Entry
    BY KeptEntries, ConstantsAssumption
  <2> QED
    BY <2>1, <2>2, WalkVisits
<1>2. \A n \in 0 .. Kept - 1 : \A m \in 0 .. n : m \in 0 .. Kept - 1
  BY <1>1
<1>3. ASSUME NEW n \in 0 .. Kept - 1, Since(Newest(n), from), NEW m \in 0 .. n
      PROVE  Since(Newest(m), from)
  <2>1. CASE from = Unset \/ m = n
    BY <1>3, <2>1 DEF Since
  <2>2. CASE from # Unset /\ m # n
    <3>1. m < n /\ m \in 0 .. Kept - 1
      BY <1>1, <1>2, <2>2
    <3>2. Newest(n).time <= Newest(m).time
      BY <2>2, <3>1 DEF Sorted
    <3>3. Newest(n).time \in Nat /\ Newest(m).time \in Nat
      BY <1>1, <3>1, ConstantsAssumption DEF Entry
    <3>4. from \in Nat /\ from <= Newest(n).time
      BY <1>3, <2>2, ConstantsAssumption DEF Since, Times
    <3>5. from <= Newest(m).time
      BY <3>2, <3>3, <3>4
    <3> QED
      BY <3>5 DEF Since
  <2> QED
    BY <2>1, <2>2
<1>4. ASSUME NEW n \in 0 .. Kept - 1
      PROVE  (\A m \in 0 .. n : Since(NewestBut(m), from)) <=> Since(Newest(n), from)
  <2>1. n \in 0 .. n
    BY <1>1
  <2> QED
    BY <1>1, <1>2, <1>3, <2>1
<1>5. Found(from, to, want) =
        {n \in 0 .. Kept - 1 : /\ \A m \in 0 .. n : Since(NewestBut(m), from)
                               /\ Matches(NewestBut(n), to, want)}
  BY <1>1 DEF Found
<1> QED
  BY <1>1, <1>4, <1>5 DEF Passing

\* A query is answered as the list would answer it, whatever page it asks for.
LEMMA RingAnswers ==
    ASSUME TypeOK, RingInv, NEW from \in Times, NEW to, NEW want,
           NEW limit \in Int, NEW offset \in Nat, from = Unset \/ Sorted
    PROVE  Answers(from, to, want, limit, offset)
<1> DEFINE P == Passing(from, to, want)
           f == [k \in 1 .. Cardinality(P) |-> NewestBut(Nth(P, k))]
           answer == Query(from, to, want, limit, offset)
<1>1. P \in SUBSET Nat /\ P \in SUBSET (0 .. Kept - 1) /\ Kept \in 0 .. Capacity
  BY KeptEntries, ConstantsAssumption DEF Passing
<1>2. IsFiniteSet(P) /\ Cardinality(P) \in Nat
  <2>1. IsFiniteSet(0 .. Kept - 1)
    BY <1>1, FS_Interval, ConstantsAssumption
  <2> QED
    BY <1>1, <2>1, FS_Subset, FS_CardinalityType
<1>3. answer = Page(f, limit, offset)
  BY WalkFinds DEF Query
<1>4. \A n \in P : NewestBut(n) = Newest(n)
  <2>1. \A n \in 0 .. Kept - 1 : n \in 0 .. Capacity - 1 /\ buf[Slot(n)] = Newest(n)
    BY <1>1, ConstantsAssumption DEF RingInv
  <2> QED
    BY <1>1, <2>1, WalkVisits
<1> HIDE DEF P
<1>5. f \in Seq({NewestBut(Nth(P, k)) : k \in 1 .. Cardinality(P)}) /\ Len(f) = Cardinality(P)
  BY <1>2
<1>6. \A n \in P : /\ Cardinality(UpTo(P, n)) \in 1 .. Len(f)
                   /\ f[Cardinality(UpTo(P, n))] = Newest(n)
  BY <1>1, <1>2, <1>4, <1>5, NthOfRank
<1> HIDE DEF f, answer
<1>7. \A k \in 1 .. Len(f) : k > offset /\ (limit <= 0 \/ k <= offset + limit)
        => k - offset \in DOMAIN answer /\ answer[k - offset] = f[k]
  BY <1>3, <1>5, PageCuts
<1>8. \A k \in DOMAIN answer : k + offset <= Len(f) /\ (limit <= 0 \/ k <= limit)
  BY <1>3, <1>5, PageCuts
<1>9. \A n \in P : Cardinality(UpTo(P, n)) > offset /\ (limit <= 0 \/ Cardinality(UpTo(P, n)) <= offset + limit)
        => /\ Cardinality(UpTo(P, n)) - offset \in DOMAIN answer
           /\ answer[Cardinality(UpTo(P, n)) - offset] = Newest(n)
  BY <1>6, <1>7
<1> QED
  BY <1>5, <1>8, <1>9 DEF Answers, P, Passing, UpTo, answer

(***************************************************************************)
(* The files.                                                              *)
(***************************************************************************)

\* The parts of InOrder: e is before f in a list, the files agree with the order of
\* the list, and hold its entries but for the lost ones.
Before(list, e, f) == \E i, j \in DOMAIN list : i < j /\ list[i] = e /\ list[j] = f

Ordered(files, list) ==
    \A t, u \in DOMAIN files : \A k \in DOMAIN files[t], l \in DOMAIN files[u] :
        t < u \/ (t = u /\ k < l) => Before(list, files[t][k], files[u][l])

Distinct(list) == \A i, j \in DOMAIN list : list[i] = list[j] => i = j

Complete(files, list, lost) ==
    /\ \A t \in DOMAIN files : ToSet(files[t]) \subseteq ToSet(list) \ lost
    /\ \A e \in ToSet(list) \ lost : \E t \in DOMAIN files : e \in ToSet(files[t])

\* InOrder is the conjunction of its parts.
LEMMA InOrderParts ==
    ASSUME NEW files, NEW list, NEW lost
    PROVE  InOrder(files, list, lost)
             <=> Distinct(list) /\ Complete(files, list, lost) /\ Ordered(files, list)
  BY DEF InOrder, Distinct, Complete, Ordered, Before

\* The members of a list after an append.
LEMMA AppendMembers ==
    ASSUME NEW list \in Seq(Entry), NEW e \in Entry
    PROVE  ToSet(Append(list, e)) = ToSet(list) \cup {e}
<1> DEFINE n == Len(list)
           more == Append(list, e)
<1>1. /\ n \in Nat /\ DOMAIN list = 1 .. n /\ DOMAIN more = 1 .. n + 1
      /\ \A i \in 1 .. n : more[i] = list[i]
      /\ more[n + 1] = e
  BY AppendLengths
<1> HIDE DEF n, more
<1>2. ToSet(more) = ToSet(list) \cup {e}
  BY <1>1 DEF ToSet
<1> QED
  BY <1>2 DEF more

\* What an append does to a list: it keeps the order there was, and puts its entry
\* behind all others.
LEMMA ListAppends ==
    ASSUME NEW list \in Seq(Entry), NEW e \in Entry, e \notin ToSet(list), Distinct(list)
    PROVE  /\ Distinct(Append(list, e))
           /\ ToSet(Append(list, e)) = ToSet(list) \cup {e}
           /\ \A x, y : Before(list, x, y) => Before(Append(list, e), x, y)
           /\ \A x \in ToSet(list) : Before(Append(list, e), x, e)
<1> DEFINE n == Len(list)
           more == Append(list, e)
<1>1. /\ n \in Nat /\ DOMAIN list = 1 .. n /\ DOMAIN more = 1 .. n + 1
      /\ \A i \in 1 .. n : more[i] = list[i]
      /\ more[n + 1] = e
  BY AppendLengths
<1>2. /\ \A i \in 1 .. n : list[i] # e
      /\ \A i, j \in 1 .. n : list[i] = list[j] => i = j
  BY <1>1 DEF ToSet, Distinct
<1> HIDE DEF n, more
<1>3. Distinct(more)
  BY <1>1, <1>2 DEF Distinct
<1>4. ToSet(more) = ToSet(list) \cup {e}
  BY AppendMembers DEF more
<1>5. ASSUME NEW x, NEW y, Before(list, x, y) PROVE Before(more, x, y)
  <2>1. PICK i \in 1 .. n, j \in 1 .. n : i < j /\ list[i] = x /\ list[j] = y
    BY <1>1, <1>5 DEF Before
  <2>2. i \in 1 .. n + 1 /\ j \in 1 .. n + 1 /\ more[i] = x /\ more[j] = y
    BY <1>1, <2>1
  <2> QED
    BY <1>1, <2>1, <2>2 DEF Before
<1>6. ASSUME NEW x \in ToSet(list) PROVE Before(more, x, e)
  <2>1. PICK i \in 1 .. n : list[i] = x
    BY <1>1 DEF ToSet
  <2>2. i \in 1 .. n + 1 /\ n + 1 \in 1 .. n + 1 /\ i < n + 1 /\ more[i] = x
    BY <1>1, <2>1
  <2> QED
    BY <1>1, <2>2 DEF Before
<1> QED
  BY <1>3, <1>4, <1>5, <1>6 DEF more

\* An entry that does not reach the files is lost.
LEMMA LosesEntry ==
    ASSUME NEW files, NEW list \in Seq(Entry), NEW lost \in SUBSET ToSet(list), NEW e \in Entry,
           e \notin ToSet(list), InOrder(files, list, lost)
    PROVE  InOrder(files, Append(list, e), lost \cup {e})
<1>1. Distinct(list) /\ Complete(files, list, lost) /\ Ordered(files, list)
  BY InOrderParts
<1> DEFINE more == Append(list, e)
<1>2. /\ Distinct(more) /\ ToSet(more) = ToSet(list) \cup {e}
      /\ \A x, y : Before(list, x, y) => Before(more, x, y)
  BY <1>1, ListAppends
<1> HIDE DEF more
<1>3. Complete(files, more, lost \cup {e})
  BY <1>1, <1>2 DEF Complete
<1>4. Ordered(files, more)
  BY <1>1, <1>2 DEF Ordered
<1> QED
  BY <1>2, <1>3, <1>4, InOrderParts DEF more

\* An entry that is written is behind all others, at the end of the last file.
LEMMA WritesEntry ==
    ASSUME NEW N \in Nat, NEW files \in [0 .. N -> Seq(Entry)],
           NEW list \in Seq(Entry), NEW lost \in SUBSET ToSet(list), NEW e \in Entry,
           e \notin ToSet(list), InOrder(files, list, lost)
    PROVE  InOrder([files EXCEPT ![N] = Append(files[N], e)], Append(list, e), lost)
<1>1. Distinct(list) /\ Complete(files, list, lost) /\ Ordered(files, list)
  BY InOrderParts
<1> DEFINE more == Append(list, e)
           after == [files EXCEPT ![N] = Append(files[N], e)]
<1>2. /\ Distinct(more) /\ ToSet(more) = ToSet(list) \cup {e}
      /\ \A x, y : Before(list, x, y) => Before(more, x, y)
      /\ \A x \in ToSet(list) : Before(more, x, e)
  BY <1>1, ListAppends
<1> DEFINE m == Len(files[N])
<1>3. /\ m \in Nat /\ DOMAIN files[N] = 1 .. m
      /\ DOMAIN after = 0 .. N /\ DOMAIN files = 0 .. N /\ N \in 0 .. N
      /\ \A t \in 0 .. N : t # N => after[t] = files[t]
      /\ DOMAIN after[N] = 1 .. m + 1
      /\ \A k \in 1 .. m : after[N][k] = files[N][k]
      /\ after[N][m + 1] = e
  BY AppendLengths
<1>4. ToSet(after[N]) = ToSet(files[N]) \cup {e}
  BY AppendMembers
<1> HIDE DEF more, after, m
<1>5. Complete(after, more, lost)
  <2>1. e \notin lost
    OBVIOUS
  <2>2. ASSUME NEW t \in 0 .. N PROVE ToSet(after[t]) \subseteq ToSet(more) \ lost
    BY <1>1, <1>2, <1>3, <1>4, <2>1 DEF Complete
  <2>3. ASSUME NEW x \in ToSet(more) \ lost PROVE \E t \in 0 .. N : x \in ToSet(after[t])
    <3>1. CASE x = e
      BY <1>3, <1>4, <3>1
    <3>2. CASE x # e
      <4>1. PICK t \in 0 .. N : x \in ToSet(files[t])
        BY <1>1, <1>2, <1>3, <3>2 DEF Complete
      <4>2. x \in ToSet(after[t])
        BY <1>3, <1>4, <4>1
      <4> QED
        BY <4>2
    <3> QED
      BY <3>1, <3>2
  <2> QED
    BY <1>3, <2>2, <2>3 DEF Complete
<1>6. ASSUME NEW t \in 0 .. N, NEW u \in 0 .. N, NEW k \in DOMAIN after[t], NEW l \in DOMAIN after[u],
             t < u \/ (t = u /\ k < l)
      PROVE  Before(more, after[t][k], after[u][l])
  <2>1. k \in DOMAIN files[t] /\ after[t][k] = files[t][k]
    BY <1>3, <1>6
  <2>2. files[t][k] \in ToSet(list)
    BY <1>1, <1>3, <2>1 DEF Complete, ToSet
  <2>3. CASE u = N /\ l = m + 1
    BY <1>2, <1>3, <2>1, <2>2, <2>3
  <2>4. CASE ~(u = N /\ l = m + 1)
    <3>1. l \in DOMAIN files[u] /\ after[u][l] = files[u][l]
      <4>1. CASE u = N
        <5>1. l \in 1 .. m + 1 /\ l # m + 1
          BY <1>3, <2>4, <4>1
        <5>2. l \in 1 .. m
          BY <1>3, <5>1
        <5> QED
          BY <1>3, <4>1, <5>2
      <4>2. CASE u # N
        <5>1. after[u] = files[u]
          BY <1>3, <4>2
        <5> QED
          BY <5>1
      <4> QED
        BY <4>1, <4>2
    <3> QED
      BY <1>1, <1>2, <1>3, <1>6, <2>1, <3>1 DEF Ordered
  <2> QED
    BY <2>3, <2>4
<1>7. Ordered(after, more)
  BY <1>3, <1>6 DEF Ordered
<1> QED
  BY <1>2, <1>5, <1>7, InOrderParts DEF more, after

\* A rotation moves the last file to the place of a file whose entries are lost and
\* after which all files are empty.
LEMMA RotatesFile ==
    ASSUME NEW N \in Nat, NEW files \in [0 .. N -> Seq(Entry)], NEW list \in Seq(Entry), NEW lost,
           InOrder(files, list, lost), NEW c \in 0 .. N - 1,
           \A t \in c + 1 .. N - 1 : files[t] = <<>>
    PROVE  InOrder([files EXCEPT ![c] = files[N], ![N] = <<>>], list, lost \cup ToSet(files[c]))
<1>1. Distinct(list) /\ Complete(files, list, lost) /\ Ordered(files, list)
  BY InOrderParts
<1> DEFINE after == [files EXCEPT ![c] = files[N], ![N] = <<>>]
           gone == lost \cup ToSet(files[c])
<1>2. /\ DOMAIN after = 0 .. N /\ DOMAIN files = 0 .. N /\ c \in 0 .. N /\ N \in 0 .. N /\ c < N
      /\ after[c] = files[N] /\ after[N] = <<>>
      /\ \A t \in 0 .. N : t # c /\ t # N => after[t] = files[t]
      /\ DOMAIN after[N] = {} /\ ToSet(after[N]) = {}
  BY DEF ToSet
<1>3. \A t \in 0 .. N : t > c /\ t # N => after[t] = <<>> /\ DOMAIN after[t] = {}
  BY <1>2
<1>4. \A x, y : Before(list, x, y) => x # y
  BY <1>1 DEF Before, Distinct
<1> HIDE DEF after
<1>5. ASSUME NEW t \in 0 .. N, t # c PROVE ToSet(files[t]) \cap ToSet(files[c]) = {}
  <2> SUFFICES ASSUME NEW k \in DOMAIN files[t], NEW l \in DOMAIN files[c] PROVE files[t][k] # files[c][l]
    BY DEF ToSet
  <2>1. t < c \/ c < t
    BY <1>5, <1>2
  <2> QED
    BY <1>1, <1>2, <1>4, <2>1 DEF Ordered
<1>6. ASSUME NEW t \in 0 .. N PROVE ToSet(after[t]) \subseteq ToSet(list) \ gone
  <2>1. CASE t = c
    BY <1>1, <1>2, <1>5, <2>1 DEF Complete
  <2>2. CASE t = N
    BY <1>2, <2>2
  <2>3. CASE t # c /\ t # N
    BY <1>1, <1>2, <1>5, <2>3 DEF Complete
  <2> QED
    BY <2>1, <2>2, <2>3
<1>7. ASSUME NEW e \in ToSet(list) \ gone PROVE \E t \in 0 .. N : e \in ToSet(after[t])
  <2>1. PICK t \in 0 .. N : e \in ToSet(files[t])
    BY <1>1, <1>2, <1>7 DEF Complete
  <2>2. t # c
    BY <2>1
  <2> QED
    BY <1>2, <2>1, <2>2
<1>8. Complete(after, list, gone)
  BY <1>2, <1>6, <1>7 DEF Complete
<1>9. ASSUME NEW t \in 0 .. N, NEW u \in 0 .. N, NEW k \in DOMAIN after[t], NEW l \in DOMAIN after[u],
             t < u \/ (t = u /\ k < l)
      PROVE  Before(list, after[t][k], after[u][l])
  <2>1. t <= c /\ u <= c
    <3>1. \A x \in 0 .. N : ~(x > c) => x <= c
      OBVIOUS
    <3>2. \A x \in 0 .. N : x > c => DOMAIN after[x] = {}
      BY <1>2, <1>3
    <3> QED
      BY <3>1, <3>2
  <2> DEFINE src(x) == IF x = c THEN N ELSE x
  <2>2. \A x \in 0 .. N : x <= c => after[x] = files[src(x)] /\ src(x) \in 0 .. N
    BY <1>2
  <2>3. src(t) < src(u) \/ (src(t) = src(u) /\ k < l)
    BY <1>2, <1>9, <2>1
  <2> QED
    BY <1>1, <1>2, <2>1, <2>2, <2>3 DEF Ordered
<1>10. Ordered(after, list)
  BY <1>2, <1>9 DEF Ordered
<1> QED
  BY <1>1, <1>8, <1>10, InOrderParts DEF after

(***************************************************************************)
(* The steps of the audit log.                                             *)
(***************************************************************************)
\* The place of the current file, behind the rotated ones.
LinesAt == MaxTime + 1

\* The files as a sequence of files.
LEMMA DiskFiles ==
    ASSUME TypeOK
    PROVE  /\ LinesAt \in Nat /\ clock \in 0 .. LinesAt - 1
           /\ Disk \in [0 .. LinesAt -> Seq(Entry)] /\ Disk[LinesAt] = lines
           /\ \A t \in 0 .. MaxTime : Disk[t] = archive[t]
<1>1. MaxTime \in Nat
  BY ConstantsAssumption
<1> QED
  BY <1>1 DEF TypeOK, Disk, LinesAt

\* What Append leaves in the current file before a rotation, and what it has lost.
Wrote(e, content, lost) ==
    \/ content = Append(lines, e) /\ lost = {}
    \/ content = lines /\ lost = {e}

\* The two ends of an Append: the file stays, or is rotated.
Stays(content, lost) ==
    /\ lines' = content /\ excused' = excused \cup lost /\ UNCHANGED archive
Moves(content, lost) ==
    /\ lines' = <<>> /\ archive' = [archive EXCEPT ![clock] = content]
    /\ excused' = excused \cup lost \cup ToSet(archive[clock])

\* An Append writes its entry or loses it, and ends in one of the two ways, whatever
\* the handle is and whichever of its calls fail.
LEMMA WriteLineEffect ==
    ASSUME TypeOK, NEW e \in Entry, WriteLine(e)
    PROVE  /\ handle' \in {"none", "open", "closed"}
           /\ \E content \in Seq(Entry), lost \in SUBSET {e} :
                Wrote(e, content, lost) /\ (Stays(content, lost) \/ Moves(content, lost))
<1>1. lines \in Seq(Entry) /\ Append(lines, e) \in Seq(Entry)
  BY AppendLengths DEF TypeOK
<1>2. CASE handle # "open"
  BY <1>1, <1>2 DEF WriteLine, Wrote, Stays, disk, TypeOK
<1>3. ASSUME NEW content, NEW lost, MaybeRotate(content, lost)
      PROVE  /\ handle' \in {"none", "open", "closed"}
             /\ Stays(content, lost) \/ Moves(content, lost)
  BY <1>3 DEF MaybeRotate, Rotate, Stays, Moves, TypeOK
<1>4. CASE handle = "open"
  <2>1. CASE MaybeRotate(Append(lines, e), {})
    BY <1>1, <1>3, <2>1 DEF Wrote
  <2>2. CASE MaybeRotate(lines, {e})
    BY <1>1, <1>3, <2>2 DEF Wrote
  <2> QED
    BY <1>4, <2>1, <2>2 DEF WriteLine
<1> QED
  BY <1>2, <1>4

Writes(e) == written' = Append(written, e)

\* An Append keeps the files in order.
LEMMA FilesAppend ==
    ASSUME TypeOK, FilesInv, DiskInOrder, NEW e \in Entry, e \notin ToSet(written),
           WriteLine(e), Writes(e), UNCHANGED clock
    PROVE  /\ handle' \in {"none", "open", "closed"} /\ lines' \in Seq(Entry)
           /\ archive' \in [0 .. MaxTime -> Seq(Entry)]
           /\ written' \in Seq(Entry) /\ excused' \subseteq Entry
           /\ FilesInv' /\ DiskInOrder'
<1>1. PICK content \in Seq(Entry), lost \in SUBSET {e} :
        Wrote(e, content, lost) /\ (Stays(content, lost) \/ Moves(content, lost))
  BY WriteLineEffect
<1> DEFINE D == [Disk EXCEPT ![LinesAt] = content]
<1>2. /\ LinesAt \in Nat /\ clock \in 0 .. LinesAt - 1
      /\ Disk \in [0 .. LinesAt -> Seq(Entry)] /\ Disk[LinesAt] = lines
      /\ \A t \in 0 .. MaxTime : Disk[t] = archive[t]
  BY DiskFiles
<1>3. MaxTime \in Nat /\ LinesAt = MaxTime + 1 /\ clock \in 0 .. MaxTime
  BY ConstantsAssumption DEF TypeOK, LinesAt
<1>4. /\ written' \in Seq(Entry) /\ ToSet(written') = ToSet(written) \cup {e}
  BY AppendLengths, AppendMembers DEF Writes, TypeOK
<1>5. InOrder(D, written', excused \cup lost)
  <2>1. written \in Seq(Entry) /\ excused \in SUBSET ToSet(written) /\ InOrder(Disk, written, excused)
    BY DEF TypeOK, FilesInv, DiskInOrder
  <2>2. CASE content = Append(lines, e) /\ lost = {}
    <3>1. D = [Disk EXCEPT ![LinesAt] = Append(Disk[LinesAt], e)] /\ excused \cup lost = excused
      BY <1>2, <2>2
    <3>2. InOrder([Disk EXCEPT ![LinesAt] = Append(Disk[LinesAt], e)], Append(written, e), excused)
      BY <1>2, <2>1, WritesEntry
    <3> QED
      BY <3>1, <3>2 DEF Writes
  <2>3. CASE content = lines /\ lost = {e}
    <3>1. D = Disk /\ excused \cup lost = excused \cup {e}
      BY <1>2, <2>3
    <3>2. InOrder(Disk, Append(written, e), excused \cup {e})
      BY <2>1, LosesEntry
    <3> QED
      BY <3>1, <3>2 DEF Writes
  <2> QED
    BY <1>1, <2>2, <2>3 DEF Wrote
<1>6. /\ D \in [0 .. LinesAt -> Seq(Entry)] /\ D[LinesAt] = content
      /\ \A t \in 0 .. MaxTime : D[t] = archive[t]
  BY <1>2, <1>3
<1>7. excused \subseteq ToSet(written') /\ excused \cup lost \subseteq ToSet(written')
  BY <1>4 DEF FilesInv
<1>8. CASE Stays(content, lost)
  <2>1. Disk' = D
    BY <1>2, <1>3, <1>8 DEF Stays, Disk
  <2> QED
    BY <1>4, <1>5, <1>7, <1>8, <2>1, WriteLineEffect DEF Stays, DiskInOrder, FilesInv, TypeOK
<1>9. CASE Moves(content, lost)
  <2>1. Disk' = [D EXCEPT ![clock] = D[LinesAt], ![LinesAt] = <<>>]
    <3> DEFINE G == [D EXCEPT ![clock] = D[LinesAt], ![LinesAt] = <<>>]
    <3>1. /\ lines' = <<>> /\ archive'[clock] = content
          /\ \A t \in 0 .. MaxTime : t # clock => archive'[t] = archive[t]
      BY <1>3, <1>9 DEF Moves, TypeOK
    <3>2. Disk' = [t \in 0 .. LinesAt |-> IF t = LinesAt THEN lines' ELSE archive'[t]]
      BY <1>3 DEF Disk
    <3> HIDE DEF D
    <3>3. /\ G = [t \in 0 .. LinesAt |-> G[t]] /\ G[LinesAt] = <<>> /\ G[clock] = content
          /\ \A t \in 0 .. LinesAt : t # clock /\ t # LinesAt => G[t] = D[t]
      <4>1. clock \in 0 .. LinesAt /\ LinesAt \in 0 .. LinesAt /\ clock # LinesAt
        BY <1>2
      <4>2. D \in [0 .. LinesAt -> Seq(Entry)] /\ D[LinesAt] = content
        BY <1>6
      <4> QED
        BY <4>1, <4>2
    <3> HIDE DEF G
    <3>4. \A t \in 0 .. LinesAt : (IF t = LinesAt THEN lines' ELSE archive'[t]) = G[t]
      BY <1>3, <1>6, <3>1, <3>3
    <3>5. Disk' = G
      BY <3>2, <3>3, <3>4
    <3> QED
      BY <3>5 DEF G
  <2>2. excused' = excused \cup lost \cup ToSet(D[clock]) /\ D[clock] = archive[clock]
    BY <1>3, <1>6, <1>9 DEF Moves
  <2>3. \A t \in clock + 1 .. LinesAt - 1 : D[t] = <<>>
    <3>1. \A t \in clock + 1 .. LinesAt - 1 : t \in 0 .. MaxTime /\ t > clock
      BY <1>3
    <3> QED
      BY <1>6, <3>1 DEF FilesInv
  <2> HIDE DEF D
  <2>4. InOrder([D EXCEPT ![clock] = D[LinesAt], ![LinesAt] = <<>>], written', excused \cup lost \cup ToSet(D[clock]))
    BY <1>2, <1>4, <1>5, <1>6, <2>3, RotatesFile
  <2>5. DiskInOrder'
    BY <2>1, <2>2, <2>4 DEF DiskInOrder
  <2>6. ToSet(archive[clock]) \subseteq ToSet(written)
    <3>1. Complete(Disk, written, excused)
      BY InOrderParts DEF DiskInOrder
    <3> QED
      BY <1>2, <1>3, <3>1 DEF Complete
  <2>7. excused' \subseteq ToSet(written')
    BY <1>4, <1>7, <2>2, <2>6
  <2>8. archive' \in [0 .. MaxTime -> Seq(Entry)] /\ lines' \in Seq(Entry)
    BY <1>9 DEF Moves, TypeOK
  <2>9. \A t \in 0 .. MaxTime : t > clock' => archive'[t] = <<>>
    BY <1>3, <1>9 DEF Moves, FilesInv, TypeOK
  <2>10. ToSet(written') \subseteq Entry
    BY <1>4 DEF ToSet, TypeOK
  <2> QED
    BY <1>4, <2>5, <2>7, <2>8, <2>9, <2>10, WriteLineEffect DEF FilesInv
<1> QED
  BY <1>1, <1>8, <1>9

\* A new log satisfies the invariant.
LEMMA InitInv == Init => AuditInv
<1> SUFFICES ASSUME Init PROVE AuditInv
  OBVIOUS
<1>1. /\ Capacity \in Nat \ {0} /\ MaxTime \in Nat
      /\ <<>> \in Seq(Entry) /\ Len(<<>>) = 0 /\ ToSet(<<>>) = {} /\ DOMAIN <<>> = {}
  BY ConstantsAssumption DEF ToSet
<1>2. TypeOK
  BY <1>1 DEF Init, TypeOK, EmptyRing, Handles
<1>3. RingInv
  BY <1>1 DEF Init, RingInv, Kept
<1>4. FilesInv
  BY <1>1 DEF Init, FilesInv
<1>5. DiskInOrder
  <2>1. DOMAIN Disk = 0 .. MaxTime + 1 /\ \A t \in 0 .. MaxTime + 1 : Disk[t] = <<>>
    <3>1. \A t \in 0 .. MaxTime + 1 : t # MaxTime + 1 => t \in 0 .. MaxTime
      BY <1>1
    <3> QED
      BY <3>1 DEF Init, Disk
  <2> QED
    BY <1>1, <2>1 DEF Init, DiskInOrder, InOrder
<1> QED
  BY <1>2, <1>3, <1>4, <1>5 DEF AuditInv

\* Append keeps the ring and the files in step with the lists.
LEMMA AppendInv == ASSUME AuditInv, NEW r \in Request, AppendEntry(r) PROVE AuditInv'
<1> DEFINE e == stamped[r]
<1>1. e \in Entry /\ e \notin ToSet(written)
  BY DEF AuditInv, TypeOK, AppendEntry
<1>2. /\ AppendRing(e) /\ WriteLine(e) /\ Logs(e) /\ Writes(e)
      /\ UNCHANGED clock /\ UNCHANGED stamped
  BY DEF AppendEntry, Logs, Writes
<1> HIDE DEF e
<1>3. RingInv'
  BY <1>1, <1>2, RingAppends DEF AuditInv
<1>4. /\ handle' \in {"none", "open", "closed"} /\ lines' \in Seq(Entry)
      /\ archive' \in [0 .. MaxTime -> Seq(Entry)]
      /\ written' \in Seq(Entry) /\ excused' \subseteq Entry
      /\ FilesInv' /\ DiskInOrder'
  BY <1>1, <1>2, FilesAppend DEF AuditInv
<1>5. /\ buf' \in [0 .. Capacity - 1 -> Entry \cup {NoEntry}]
      /\ head' \in 0 .. Capacity - 1 /\ count' \in 0 .. Capacity
  BY <1>1, <1>2, ConstantsAssumption DEF AppendRing, NextHead, AuditInv, TypeOK
<1>6. log' \in Seq(Entry)
  BY <1>1, <1>2, AppendLengths DEF Logs, AuditInv, TypeOK
<1>7. TypeOK'
  BY <1>2, <1>4, <1>5, <1>6 DEF AuditInv, TypeOK
<1> QED
  BY <1>3, <1>4, <1>7 DEF AuditInv

\* A step that leaves the files and the lists of what was written alone keeps them in order.
LEMMA FilesUntouched ==
    ASSUME DiskInOrder, UNCHANGED <<lines, archive, written, excused>>
    PROVE  DiskInOrder'
  BY DEF DiskInOrder, Disk

\* A step that leaves the ring and its list alone keeps them in step.
LEMMA RingUntouched ==
    ASSUME RingInv, UNCHANGED <<buf, head, count, log>>
    PROVE  RingInv'
  BY DEF RingInv, Kept, Newest, Slot

\* Every step of the log, of the clock and of the daemon keeps the invariant.
LEMMA StepInv == AuditInv /\ [Next]_vars => AuditInv'
<1> SUFFICES ASSUME AuditInv, [Next]_vars PROVE AuditInv'
  OBVIOUS
<1> USE DEF AuditInv
<1>1. CASE UNCHANGED vars
  BY <1>1, FilesUntouched, RingUntouched DEF vars, ring, disk, TypeOK, FilesInv
<1>2. ASSUME NEW r \in Request, AppendEntry(r) PROVE AuditInv'
  BY <1>2, AppendInv
<1>3. ASSUME NEW r \in Request, NEW kind \in Kind, Stamp(r, kind) PROVE AuditInv'
  <2>1. stamped' \in [Request -> Entry \cup {NoEntry}]
    BY <1>3 DEF Stamp, TypeOK, Entry
  <2>2. UNCHANGED <<clock, ring, disk, log, written, excused>>
    BY <1>3 DEF Stamp
  <2> QED
    BY <2>1, <2>2, FilesUntouched, RingUntouched DEF ring, disk, TypeOK, FilesInv
<1>4. CASE Close
  BY <1>4, FilesUntouched, RingUntouched DEF Close, ring, TypeOK, FilesInv
<1>5. CASE Restart
  <2>1. /\ Capacity \in Nat \ {0} /\ <<>> \in Seq(Entry) /\ Len(<<>>) = 0
    BY ConstantsAssumption
  <2>2. TypeOK'
    BY <1>5, <2>1 DEF Restart, TypeOK, EmptyRing, Handles
  <2>3. RingInv'
    BY <1>5, <2>1 DEF Restart, RingInv, Kept
  <2>4. UNCHANGED <<clock, lines, archive, written, excused>>
    BY <1>5 DEF Restart
  <2> QED
    BY <2>2, <2>3, <2>4, FilesUntouched DEF FilesInv
<1>6. CASE Tick
  <2>1. /\ clock' \in 0 .. MaxTime /\ \A t \in 0 .. MaxTime : t > clock' => t > clock
    BY <1>6, ConstantsAssumption DEF Tick, TypeOK
  <2>2. UNCHANGED <<stamped, ring, disk, log, written, excused>>
    BY <1>6 DEF Tick
  <2> QED
    BY <2>1, <2>2, FilesUntouched, RingUntouched DEF ring, disk, TypeOK, FilesInv
<1> QED
  BY <1>1, <1>2, <1>3, <1>4, <1>5, <1>6 DEF Next

\* The invariant holds in every state of the log.
THEOREM AuditInvariant == Spec => []AuditInv
  BY InitInv, StepInv, PTL DEF Spec

\* The variables keep their types; the ring's indices stay within it.
THEOREM TypeCorrect == Spec => []TypeOK
  BY AuditInvariant, PTL DEF AuditInv

\* The rotated files and the current one hold every entry that Append was given, once
\* and in order, but for the losses that Append and maybeRotate ignore: for any number
\* of rotations, failed calls, restarts and requests that overtake each other.
THEOREM DiskInOrderCorrect == Spec => []DiskInOrder
  BY AuditInvariant, PTL DEF AuditInv

\* Query's walk over the ring, its break, its filters and its paging give what the
\* list of the latest entries would, for any capacity, limits and offsets.
THEOREM QueryCorrect == Spec => []QueryExact
<1>1. AuditInv => QueryExact
  <2> SUFFICES ASSUME AuditInv, NEW from \in Times, NEW to \in Times, NEW want \in Wants,
                      NEW limit \in Limits, NEW offset \in Offsets, from = Unset \/ Sorted
               PROVE  Answers(from, to, want, limit, offset)
    BY DEF QueryExact
  <2> QED
    BY RingAnswers, ConstantsAssumption DEF AuditInv
<1> QED
  BY <1>1, AuditInvariant, PTL

-----------------------------------------------------------------------------
(***************************************************************************)
(* The circuit breaker.                                                    *)
(***************************************************************************)
(***************************************************************************)
(* The action properties compare history with a change of state; they need   *)
(* the counters to agree with the history in the states where they matter.   *)
(***************************************************************************)

\* In the closed state failureCount is the run of failures, still below the limit;
\* elsewhere it means nothing.
ClosedCounts ==
    state = "closed" /\ ~Disabled =>
        failureCount = streak /\ failureCount < failureThreshold

\* In the half-open state successCount is the successes of this trial.
TrialCounts == state = "half-open" => successCount = trial

BreakerInv ==
    /\ BreakerTypeOK
    /\ Disabled => state = "closed"
    /\ ClosedCounts
    /\ TrialCounts

\* A new breaker satisfies the invariant.
LEMMA InitBreakerInv == BreakerInit => BreakerInv
  BY BreakerAssumption DEF BreakerInit, BreakerInv, BreakerTypeOK,
         ClosedCounts, TrialCounts, Disabled

\* Each method, and the passing of time, preserves it.
LEMMA NextBreakerInv == BreakerInv /\ [BreakerNext]_breakerVars => BreakerInv'
  <1> SUFFICES ASSUME BreakerInv, [BreakerNext]_breakerVars PROVE BreakerInv'
    OBVIOUS
  <1> USE BreakerAssumption DEF BreakerInv, BreakerTypeOK, ClosedCounts, TrialCounts,
              Disabled, limits
  <1>1. ASSUME NEW c \in Client, AllowThrough(c) PROVE BreakerInv'
    BY <1>1 DEF AllowThrough, Permit
  <1>2. ASSUME NEW c \in Client, AllowTrial(c) PROVE BreakerInv'
    BY <1>2 DEF AllowTrial, Permit
  <1>3. ASSUME NEW c \in Client, RecordNothing(c) PROVE BreakerInv'
    BY <1>3 DEF RecordNothing, Report
  <1>4. ASSUME NEW c \in Client, RecordSuccess(c) PROVE BreakerInv'
    BY <1>4 DEF RecordSuccess, Report
  <1>5. ASSUME NEW c \in Client, RecordFailure(c) PROVE BreakerInv'
    BY <1>5 DEF RecordFailure, Report
  <1>6. CASE BreakerTick
    BY <1>6 DEF BreakerTick
  <1>7. CASE UNCHANGED breakerVars
    BY <1>7 DEF breakerVars
  <1> QED
    BY <1>1, <1>2, <1>3, <1>4, <1>5, <1>6, <1>7 DEF BreakerNext, Allow, Record

\* The counters agree with the history in every behaviour.
THEOREM BreakerInvariant ==
    BreakerSpec => []BreakerInv
  BY InitBreakerInv, NextBreakerInv, PTL DEF BreakerSpec

\* Every variable keeps its type.
THEOREM BreakerTypeCorrect ==
    BreakerSpec => []BreakerTypeOK
  <1>1. BreakerInv => BreakerTypeOK
    BY DEF BreakerInv
  <1> QED
    BY <1>1, BreakerInvariant, PTL

\* A closed breaker opens exactly at the failureThreshold-th failure in a row.
THEOREM OpensAtThresholdCorrect ==
    BreakerSpec => OpensAtThreshold
  <1> DEFINE Opens ==
        state = "closed" => (state' = "open" <=> ~Disabled /\ streak' >= failureThreshold)
  <1>1. BreakerInv /\ [BreakerNext]_breakerVars => [Opens]_breakerVars
    <2> SUFFICES ASSUME BreakerInv, BreakerNext, state = "closed" PROVE Opens
      OBVIOUS
    <2> USE DEF BreakerInv, BreakerTypeOK, ClosedCounts, Disabled
    <2>0. failureThreshold \in Int
      BY BreakerAssumption
    <2>1. ASSUME NEW c \in Client, Allow(c) PROVE Opens
      BY <2>0, <2>1 DEF Allow, AllowThrough, AllowTrial
    <2>2. ASSUME NEW c \in Client, RecordNothing(c) PROVE Opens
      BY <2>0, <2>2 DEF RecordNothing
    <2>3. ASSUME NEW c \in Client, RecordSuccess(c) PROVE Opens
      BY <2>0, <2>3 DEF RecordSuccess
    <2>4. ASSUME NEW c \in Client, RecordFailure(c) PROVE Opens
      BY <2>0, <2>4 DEF RecordFailure
    <2>5. CASE BreakerTick
      BY <2>0, <2>5 DEF BreakerTick
    <2> QED
      BY <2>1, <2>2, <2>3, <2>4, <2>5 DEF BreakerNext, Record
  <1> QED
    BY <1>1, BreakerInvariant, PTL DEF BreakerSpec, OpensAtThreshold

\* A half-open breaker closes only after successThreshold successes of this trial.
THEOREM ClosesAfterTrialCorrect ==
    BreakerSpec => ClosesAfterTrial
  <1> DEFINE Closes ==
        state = "half-open" /\ state' = "closed" => trial' >= successThreshold /\ streak' = 0
  <1>1. BreakerInv /\ [BreakerNext]_breakerVars => [Closes]_breakerVars
    <2> SUFFICES ASSUME BreakerInv, BreakerNext, state = "half-open", state' = "closed" PROVE Closes
      OBVIOUS
    <2>1. PICK c \in Client : RecordSuccess(c)
      BY DEF BreakerNext, Allow, Record, AllowThrough, AllowTrial,
             RecordNothing, RecordFailure, BreakerTick, BreakerInv, Disabled
    <2> QED
      BY <2>1, BreakerAssumption DEF RecordSuccess, BreakerInv, BreakerTypeOK,
                  TrialCounts
  <1> QED
    BY <1>1, BreakerInvariant, PTL DEF BreakerSpec, ClosesAfterTrial
=============================================================================
