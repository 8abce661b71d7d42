----------------------- MODULE CircularBufferOpsProofs -----------------------
(***************************************************************************)
(* Facts about the ring operators for every record of the right shape, and *)
(* about the sums and concatenations the properties of the ring are stated *)
(* with.  The proofs about the ring alone and about the driver both rest   *)
(* on them.                                                                *)
(***************************************************************************)
EXTENDS CircularBufferOps, SequencesExt, SequenceTheorems, WellFoundedInduction, TLAPS

----------------------------------------------------------------------------
(* Least numbers: what stands in for induction below. *)

(* A set of numbers that is not empty has a least one. *)
LEMMA LeastIn ==
  ASSUME NEW T \in SUBSET Nat, T # {}
  PROVE  \E m \in T : \A n \in T : m <= n
<1>1. PICK m \in T : \A n \in T : ~(<<n, m>> \in OpToRel(<, Nat))
  BY WFMin, NatLessThanWellFounded, Zenon
<1>2. ASSUME NEW n \in T PROVE m <= n
  <2>1. n < m => <<n, m>> \in OpToRel(<, Nat)
    BY DEF OpToRel
  <2>2. n \in Nat /\ m \in Nat /\ ~(n < m)
    BY <1>1, <2>1
  <2> QED BY <2>2
<1> QED
  BY <1>2

(* The number the code stops at when it scans for the first one. *)
LEMMA LeastChosen ==
  ASSUME NEW T \in SUBSET Nat, T # {}
  PROVE  LET m == CHOOSE i \in T : \A j \in T : i <= j
         IN  m \in T /\ \A j \in T : m <= j
<1>1. PICK m \in T : \A j \in T : m <= j
  BY LeastIn
<1> QED
  BY <1>1, Zenon

(* A set of numbers that holds 0, and k + 1 with every k < n, holds 0 .. n. *)
LEMMA Climb ==
  ASSUME NEW T, NEW n \in Nat, 0 \in T, \A k \in 0 .. n - 1 : k \in T => k + 1 \in T
  PROVE  0 .. n \subseteq T
<1> DEFINE Bad == {k \in 0 .. n : k \notin T}
<1> SUFFICES ASSUME Bad # {} PROVE FALSE
  OBVIOUS
<1>1. PICK m \in Bad : \A j \in Bad : m <= j
  <2>1. Bad \in SUBSET Nat
    OBVIOUS
  <2> HIDE DEF Bad
  <2> QED BY <2>1, LeastIn
<1>2. m \in 1 .. n /\ m - 1 \in 0 .. n - 1 /\ (m - 1) + 1 = m /\ m \notin T
  OBVIOUS
<1>3. m - 1 \in T
  <2>1. m - 1 \notin Bad
    BY <1>1, <1>2
  <2> QED BY <1>2, <2>1
<1> QED
  BY <1>2, <1>3

----------------------------------------------------------------------------
(* The running sums of size over 1 .. n. *)
SumOf(s, size, n) == s = [k \in 0 .. n |-> IF k = 0 THEN 0 ELSE s[k - 1] + size[k]]

LEMMA SumExists ==
  ASSUME NEW n \in Nat, NEW size
  PROVE  \E s : SumOf(s, size, n)
<1> DEFINE T == {k \in Nat : \E s : SumOf(s, size, k)}
<1>1. 0 \in T
  <2>1. SumOf([k \in 0 .. 0 |-> 0], size, 0)
    BY DEF SumOf
  <2> QED BY <2>1
<1>2. ASSUME NEW k \in 0 .. n - 1, k \in T PROVE k + 1 \in T
  <2>1. PICK s : SumOf(s, size, k)
    BY <1>2
  <2> DEFINE t == [i \in 0 .. k + 1 |-> IF i = k + 1 THEN s[k] + size[k + 1] ELSE s[i]]
  <2>2. ASSUME NEW i \in 0 .. k + 1
        PROVE  t[i] = IF i = 0 THEN 0 ELSE t[i - 1] + size[i]
    <3>1. k \in Nat /\ i \in Int /\ (k + 1) - 1 = k
      OBVIOUS
    <3>2. CASE i = 0
      BY <2>1, <3>1, <3>2 DEF SumOf
    <3>3. CASE i = k + 1
      BY <3>1, <3>3
    <3>4. CASE i # 0 /\ i # k + 1
      <4>1. i \in 0 .. k /\ i - 1 \in 0 .. k + 1 /\ i - 1 # k + 1
        BY <3>1, <3>4
      <4>2. s[i] = s[i - 1] + size[i]
        BY <2>1, <3>4, <4>1 DEF SumOf
      <4>3. t[i] = s[i] /\ t[i - 1] = s[i - 1]
        BY <3>4, <4>1
      <4> QED BY <3>4, <4>2, <4>3
    <3> QED BY <3>2, <3>3, <3>4
  <2>3. t = [i \in 0 .. k + 1 |-> IF i = 0 THEN 0 ELSE t[i - 1] + size[i]]
    <3>1. t = [i \in 0 .. k + 1 |-> t[i]]
      OBVIOUS
    <3> HIDE DEF t
    <3> QED BY <2>2, <3>1
  <2> HIDE DEF t
  <2>4. SumOf(t, size, k + 1)
    BY <2>3 DEF SumOf
  <2> QED BY <2>4
<1> HIDE DEF T
<1>3. n \in T
  BY <1>1, <1>2, Climb
<1> QED
  BY <1>3 DEF T

(* The same, as facts about the first n numbers of a function. *)
Sums(s, size, n) == s[0] = 0 /\ \A k \in 1 .. n : s[k] = s[k - 1] + size[k]

LEMMA SumOfSums ==
  ASSUME NEW n \in Nat, NEW size, NEW s, SumOf(s, size, n)
  PROVE  Sums(s, size, n)
  BY DEF SumOf, Sums

LEMMA SumType ==
  ASSUME NEW n \in Nat, NEW size, \A k \in 1 .. n : size[k] \in Nat,
         NEW s, Sums(s, size, n)
  PROVE  /\ \A k \in 0 .. n : s[k] \in Nat
         /\ s[0] = 0 /\ \A k \in 1 .. n : s[k] = s[k - 1] + size[k]
<1>1. s[0] = 0 /\ \A k \in 1 .. n : s[k] = s[k - 1] + size[k]
  BY DEF Sums
<1> DEFINE T == {k \in 0 .. n : s[k] \in Nat}
<1>2. 0 \in T
  BY <1>1
<1>3. ASSUME NEW k \in 0 .. n - 1, k \in T PROVE k + 1 \in T
  <2>1. k + 1 \in 1 .. n /\ k + 1 \in 0 .. n /\ (k + 1) - 1 = k /\ s[k] \in Nat
    BY <1>3
  <2>2. s[k + 1] = s[k] + size[k + 1] /\ size[k + 1] \in Nat
    BY <1>1, <2>1
  <2> QED BY <2>1, <2>2
<1>4. 0 .. n \subseteq T
  <2> HIDE DEF T
  <2> QED BY <1>2, <1>3, Climb
<1> QED
  BY <1>1, <1>4

(* A sum over more numbers is no smaller. *)
LEMMA SumGrows ==
  ASSUME NEW n \in Nat, NEW size, \A k \in 1 .. n : size[k] \in Nat,
         NEW s, Sums(s, size, n), NEW i \in 0 .. n, NEW j \in 0 .. n, i <= j
  PROVE  s[i] <= s[j]
<1>1. \A k \in 1 .. n : s[k] = s[k - 1] + size[k]
  BY SumType
<1>2. \A k \in 0 .. n : s[k] \in Nat
  BY SumType
<1> DEFINE T == {k \in Nat : i + k <= n => s[i] <= s[i + k]}
<1>3. 0 \in T
  BY <1>2
<1>4. ASSUME NEW k \in 0 .. (n - i) - 1, k \in T PROVE k + 1 \in T
  <2>1. /\ i + k \in 0 .. n /\ i + (k + 1) \in 1 .. n /\ i + (k + 1) \in 0 .. n
        /\ (i + (k + 1)) - 1 = i + k /\ k + 1 \in Nat
    OBVIOUS
  <2>2. s[i + (k + 1)] = s[i + k] + size[i + (k + 1)] /\ size[i + (k + 1)] \in Nat
    BY <1>1, <2>1
  <2>3. s[i] \in Nat /\ s[i + k] \in Nat /\ s[i] <= s[i + k]
    BY <1>2, <1>4, <2>1
  <2>4. s[i] <= s[i + (k + 1)]
    BY <2>2, <2>3
  <2> QED BY <2>1, <2>4
<1>5. 0 .. n - i \subseteq T
  <2>1. n - i \in Nat
    OBVIOUS
  <2> HIDE DEF T
  <2> QED BY <1>3, <1>4, <2>1, Climb
<1>6. j - i \in 0 .. n - i /\ i + (j - i) = j
  OBVIOUS
<1> QED
  BY <1>5, <1>6

(* Two sums over sizes that differ by d at one place, m, differ by d from m on. *)
DiffersAt(size, other, m, d, n) ==
  \A k \in 1 .. n : /\ size[k] \in Nat /\ other[k] \in Nat
                    /\ other[k] = IF k = m THEN size[k] + d ELSE size[k]

LEMMA SumWithOneChanged ==
  ASSUME NEW n \in Nat, NEW m \in 1 .. n, NEW d \in Int,
         NEW size, NEW other, DiffersAt(size, other, m, d, n),
         NEW s, Sums(s, size, n), NEW t, Sums(t, other, n)
  PROVE  t[n] = s[n] + d
<1>0. \A k \in 1 .. n : /\ size[k] \in Nat /\ other[k] \in Nat
                        /\ other[k] = IF k = m THEN size[k] + d ELSE size[k]
  BY DEF DiffersAt
<1>1. /\ s[0] = 0 /\ t[0] = 0
      /\ \A k \in 0 .. n : s[k] \in Nat /\ t[k] \in Nat
      /\ \A k \in 1 .. n : s[k] = s[k - 1] + size[k] /\ t[k] = t[k - 1] + other[k]
  BY <1>0, SumType
<1> DEFINE T == {k \in 0 .. n : t[k] = IF k < m THEN s[k] ELSE s[k] + d}
<1>2. 0 \in T
  BY <1>1
<1>3. ASSUME NEW k \in 0 .. n - 1, k \in T PROVE k + 1 \in T
  <2>1. k + 1 \in 1 .. n /\ k + 1 \in 0 .. n /\ (k + 1) - 1 = k /\ k \in 0 .. n
    OBVIOUS
  <2>2. /\ s[k + 1] = s[k] + size[k + 1] /\ t[k + 1] = t[k] + other[k + 1]
        /\ size[k + 1] \in Nat /\ other[k + 1] \in Nat /\ s[k] \in Nat /\ t[k] \in Nat
    BY <1>0, <1>1, <2>1
  <2>3. other[k + 1] = IF k + 1 = m THEN size[k + 1] + d ELSE size[k + 1]
    BY <1>0, <2>1
  <2>4. t[k] = IF k < m THEN s[k] ELSE s[k] + d
    BY <1>3
  <2>5. t[k + 1] = IF k + 1 < m THEN s[k + 1] ELSE s[k + 1] + d
    BY <2>2, <2>3, <2>4
  <2> QED BY <2>1, <2>5
<1>4. 0 .. n \subseteq T
  <2> HIDE DEF T
  <2> QED BY <1>2, <1>3, Climb
<1> QED
  BY <1>4

----------------------------------------------------------------------------
(* Records of the shape of struct aesd_circular_buffer, with entries in E. *)
Ring(E) ==
  [entry : [Slot -> E], in_offs : Slot, out_offs : Slot, full : BOOLEAN, buff_size : Int]

Sized(E) == \A e \in E : e.size \in Nat

(* The sizes of the N entries from slot `first' on, in the order of the scan. *)
SizesFrom(r, first) == [k \in 1 .. N |-> r.entry[(first + k - 1) % N].size]

(* The wrap-around of an offset, free of %: all the arithmetic the proofs
   need about slots. *)
LEMMA Wrap ==
  ASSUME NEW i \in Slot, NEW k \in 0 .. N
  PROVE  /\ (i + k) % N = IF i + k < N THEN i + k ELSE i + k - N
         /\ (i + k) % N \in Slot
  BY NAssumption DEF Slot

LEMMA SizesFromAre ==
  ASSUME NEW E, Sized(E), NEW r \in Ring(E), NEW first \in Slot
  PROVE  \A k \in 1 .. N : SizesFrom(r, first)[k] \in Nat
<1> TAKE k \in 1 .. N
<1>1. (first + (k - 1)) % N \in Slot /\ first + (k - 1) = first + k - 1
  BY Wrap, NAssumption DEF Slot
<1>2. r.entry[(first + k - 1) % N] \in E
  BY <1>1 DEF Ring
<1> QED
  BY <1>2 DEF Sized, SizesFrom

(* BytesBefore is the sum it is written as. *)
LEMMA BytesBeforeIs ==
  ASSUME NEW r, NEW first
  PROVE  Sums(BytesBefore(r, first), SizesFrom(r, first), N)
<1> DEFINE Eqn(s) == s = [k \in 0 .. N |-> IF k = 0 THEN 0
                                           ELSE s[k - 1] + r.entry[(first + k - 1) % N].size]
<1>1. \A s : Eqn(s) <=> SumOf(s, SizesFrom(r, first), N)
  <2> TAKE s
  <2> DEFINE a(k) == IF k = 0 THEN 0 ELSE s[k - 1] + r.entry[(first + k - 1) % N].size
             b(k) == IF k = 0 THEN 0 ELSE s[k - 1] + SizesFrom(r, first)[k]
  <2>1. \A k \in 0 .. N : a(k) = b(k)
    <3> TAKE k \in 0 .. N
    <3>1. k # 0 => k \in 1 .. N
      BY NAssumption
    <3> QED BY <3>1 DEF SizesFrom
  <2>2. [k \in 0 .. N |-> a(k)] = [k \in 0 .. N |-> b(k)]
    <3> HIDE DEF a, b
    <3> QED BY <2>1
  <2> QED BY <2>2, Zenon DEF SumOf
<1>2. \E s : Eqn(s)
  BY <1>1, SumExists, NAssumption
<1>3. BytesBefore(r, first) = CHOOSE s : Eqn(s)
  BY Zenon DEF BytesBefore
<1>4. Eqn(BytesBefore(r, first))
  <2> HIDE DEF Eqn
  <2> QED BY <1>2, <1>3, Zenon
<1> HIDE DEF Eqn
<1>5. PICK b : b = BytesBefore(r, first) /\ SumOf(b, SizesFrom(r, first), N)
  BY <1>1, <1>4
<1> QED
  BY <1>5, SumOfSums, NAssumption

LEMMA NextSlotIs ==
  ASSUME NEW i \in Slot
  PROVE  /\ NextSlot(i) = IF i = N - 1 THEN 0 ELSE i + 1
         /\ NextSlot(i) \in Slot
  BY NAssumption DEF Slot, NextSlot

(* The flag is set only when the offsets meet. *)
FullMeets(r) == r.full => r.in_offs = r.out_offs

(* Only the Count(r) slots from out_offs on hold an entry. *)
WellShaped(r) ==
  /\ FullMeets(r)
  /\ \A k \in Slot : r.entry[SlotAt(r, k)] = EmptyEntry <=> k >= Count(r)

(* Count entries lie between out_offs and in_offs. *)
LEMMA CountIs ==
  ASSUME NEW E, NEW r \in Ring(E), FullMeets(r)
  PROVE  /\ Count(r) \in 0 .. N
         /\ Count(r) = N <=> r.full
         /\ r.in_offs = (IF r.out_offs + Count(r) < N THEN r.out_offs + Count(r)
                         ELSE r.out_offs + Count(r) - N)
  BY NAssumption DEF Ring, FullMeets, Count, Slot

(* The k-th slot in reading order, and that no slot is visited twice. *)
LEMMA SlotAtIs ==
  ASSUME NEW E, NEW r \in Ring(E), NEW k \in 0 .. N
  PROVE  /\ SlotAt(r, k) = (IF r.out_offs + k < N THEN r.out_offs + k
                            ELSE r.out_offs + k - N)
         /\ SlotAt(r, k) \in Slot
         /\ k \in Slot => r.entry[SlotAt(r, k)] \in E
<1>1. r.out_offs \in Slot
  BY DEF Ring
<1>2. SlotAt(r, k) = (IF r.out_offs + k < N THEN r.out_offs + k
                      ELSE r.out_offs + k - N)
  BY <1>1, Wrap DEF SlotAt
<1>3. SlotAt(r, k) \in Slot
  BY <1>1, <1>2, NAssumption DEF Slot
<1> QED
  BY <1>2, <1>3 DEF Ring

LEMMA SlotAtOneToOne ==
  ASSUME NEW E, NEW r \in Ring(E), NEW j \in Slot, NEW k \in Slot, SlotAt(r, j) = SlotAt(r, k)
  PROVE  j = k
<1>1. r.out_offs \in Slot
  BY DEF Ring
<1>2. j \in 0 .. N /\ k \in 0 .. N
  BY NAssumption DEF Slot
<1> QED
  BY <1>1, <1>2, SlotAtIs, NAssumption DEF Slot

(* What one add does to the record. *)
Added(E, r, e, r2) ==
  /\ Overwrites(r) <=> r.full
  /\ r2 \in Ring(E) /\ FullMeets(r2)
  /\ r2.entry = [r.entry EXCEPT ![r.in_offs] = e]
  /\ r2.in_offs = NextSlot(r.in_offs)
  /\ r2.out_offs = (IF r.full THEN NextSlot(r.out_offs) ELSE r.out_offs)
  /\ r2.full <=> r2.in_offs = r2.out_offs
  /\ r2.buff_size = (r.buff_size - ReleasedSize(r)) + e.size

LEMMA AddIs ==
  ASSUME NEW E, Sized(E), NEW r \in Ring(E), FullMeets(r), NEW e \in E,
         NEW r2, r2 = AddEntry(r, e)
  PROVE  Added(E, r, e, r2)
<1>1. Overwrites(r) <=> r.full
  BY DEF Overwrites, FullMeets
<1>2. NextSlot(r.in_offs) \in Slot /\ NextSlot(r.out_offs) \in Slot
  BY NextSlotIs DEF Ring
<1>3. e.size \in Int
  BY DEF Sized
<1>4. ReleasedSize(r) \in Int
  <2>1. r.entry[r.out_offs] \in E
    BY DEF Ring
  <2> QED BY <2>1 DEF ReleasedSize, Sized
<1>5. r.buff_size \in Int /\ r.entry \in [Slot -> E]
  BY DEF Ring
<1>6. /\ r2.entry = [r.entry EXCEPT ![r.in_offs] = e]
      /\ r2.in_offs = NextSlot(r.in_offs)
      /\ r2.out_offs = (IF r.full THEN NextSlot(r.out_offs) ELSE r.out_offs)
      /\ r2.full <=> r2.in_offs = r2.out_offs
      /\ r2.buff_size = (r.buff_size - ReleasedSize(r)) + e.size
  BY <1>1 DEF AddEntry, FullAfterAdd
<1>7. r2 \in Ring(E)
  BY <1>1, <1>2, <1>3, <1>4, <1>5 DEF Ring, AddEntry, FullAfterAdd
<1> QED
  BY <1>1, <1>6, <1>7 DEF FullMeets, Added


(* The ring gains an entry until it is full. *)
LEMMA CountAfterAdd ==
  ASSUME NEW E, Sized(E), NEW r \in Ring(E), FullMeets(r), NEW e \in E,
         NEW r2, r2 = AddEntry(r, e)
  PROVE  Count(r2) = IF r.full THEN N ELSE Count(r) + 1
<1>0. Added(E, r, e, r2)
  BY AddIs
<1>1. /\ r.in_offs \in Slot /\ r.out_offs \in Slot
      /\ r2.in_offs \in Slot /\ r2.out_offs \in Slot
  BY <1>0 DEF Added, Ring
<1>2. /\ r2.in_offs = (IF r.in_offs = N - 1 THEN 0 ELSE r.in_offs + 1)
      /\ r.full => r2.out_offs = r2.in_offs
      /\ ~r.full => r2.out_offs = r.out_offs
      /\ r2.full <=> r2.in_offs = r2.out_offs
  BY <1>0, <1>1, NextSlotIs DEF Added, FullMeets
<1> QED
  BY <1>1, <1>2, NAssumption DEF Count, Slot

(* Reading order after an add: unchanged with the new entry behind it, or one
   slot further when the oldest entry made room. *)
LEMMA OrderAfterAdd ==
  ASSUME NEW E, Sized(E), NEW r \in Ring(E), FullMeets(r), NEW e \in E,
         NEW r2, r2 = AddEntry(r, e), NEW k \in Slot
  PROVE  /\ ~r.full => SlotAt(r2, k) = SlotAt(r, k)
         /\ r.full => SlotAt(r2, k) = SlotAt(r, k + 1)
         /\ ~r.full => SlotAt(r, Count(r)) = r.in_offs /\ Count(r) \in Slot
         /\ r.full => SlotAt(r, 0) = r.in_offs /\ SlotAt(r, N) = r.in_offs
<1>0. Added(E, r, e, r2)
  BY AddIs
<1>1. /\ r.in_offs \in Slot /\ r.out_offs \in Slot /\ r2.out_offs \in Slot
      /\ k \in 0 .. N /\ k + 1 \in 0 .. N /\ 0 \in 0 .. N /\ N \in 0 .. N
  <2>1. r2.out_offs \in Slot
    BY <1>0 DEF Added, Ring
  <2>2. r.in_offs \in Slot /\ r.out_offs \in Slot
    BY DEF Ring
  <2>3. k \in 0 .. N /\ k + 1 \in 0 .. N /\ 0 \in 0 .. N /\ N \in 0 .. N
    BY NAssumption DEF Slot
  <2> QED BY <2>1, <2>2, <2>3
<1>2. SlotAt(r2, k) = (IF r2.out_offs + k < N THEN r2.out_offs + k ELSE r2.out_offs + k - N)
  BY <1>1, Wrap DEF SlotAt
<1>3. ~r.full => SlotAt(r2, k) = SlotAt(r, k)
  BY <1>0 DEF Added, SlotAt
<1>4. r.full => SlotAt(r2, k) = SlotAt(r, k + 1)
  <2> SUFFICES ASSUME r.full PROVE SlotAt(r2, k) = SlotAt(r, k + 1)
    OBVIOUS
  <2>1. r2.out_offs = (IF r.out_offs = N - 1 THEN 0 ELSE r.out_offs + 1)
    BY <1>0, <1>1, NextSlotIs DEF Added
  <2>2. SlotAt(r, k + 1) = (IF r.out_offs + (k + 1) < N THEN r.out_offs + (k + 1)
                            ELSE r.out_offs + (k + 1) - N)
    BY <1>1, SlotAtIs
  <2> QED BY <1>1, <1>2, <2>1, <2>2, NAssumption DEF Slot
<1>5. ~r.full => SlotAt(r, Count(r)) = r.in_offs /\ Count(r) \in Slot
  BY <1>1, CountIs, SlotAtIs, NAssumption DEF Slot
<1>6. r.full => SlotAt(r, 0) = r.in_offs /\ SlotAt(r, N) = r.in_offs
  BY <1>1, SlotAtIs, NAssumption DEF FullMeets, Slot
<1> QED
  BY <1>3, <1>4, <1>5, <1>6

(* The whole of an add in reading order: the new entry comes last, and the
   others keep their order, without the oldest if the ring was full. *)
LEMMA OrderedEntriesAfterAdd ==
  ASSUME NEW E, Sized(E), NEW r \in Ring(E), FullMeets(r), NEW e \in E,
         NEW r2, r2 = AddEntry(r, e), NEW k \in Slot
  PROVE  LET last == IF r.full THEN N - 1 ELSE Count(r)
         IN  /\ k = last => r2.entry[SlotAt(r2, k)] = e
             /\ k # last /\ r.full =>
                  /\ k + 1 \in Slot
                  /\ r2.entry[SlotAt(r2, k)] = r.entry[SlotAt(r, k + 1)]
             /\ k # last /\ ~r.full => r2.entry[SlotAt(r2, k)] = r.entry[SlotAt(r, k)]
<1>0. Added(E, r, e, r2)
  BY AddIs
<1>1. /\ r2.entry = [r.entry EXCEPT ![r.in_offs] = e]
      /\ r.entry \in [Slot -> E]
      /\ r.in_offs \in Slot
  BY <1>0 DEF Added, Ring
<1>2. k \in 0 .. N
  BY NAssumption DEF Slot
<1>3. SlotAt(r, k) \in Slot
  BY <1>2, SlotAtIs
<1>4. CASE r.full
  <2>1. SlotAt(r2, k) = SlotAt(r, k + 1)
    BY <1>4, OrderAfterAdd
  <2>2. ASSUME k = N - 1 PROVE r2.entry[SlotAt(r2, k)] = e
    <3>1. k + 1 = N
      BY <2>2, NAssumption
    <3>2. SlotAt(r2, k) = r.in_offs
      BY <1>4, <2>1, <3>1, OrderAfterAdd
    <3> QED BY <1>1, <3>2
  <2>3. ASSUME k # N - 1
        PROVE  k + 1 \in Slot /\ r2.entry[SlotAt(r2, k)] = r.entry[SlotAt(r, k + 1)]
    <3>1. k + 1 \in Slot /\ 0 \in Slot /\ k + 1 # 0 /\ k + 1 \in 0 .. N
      BY <2>3, NAssumption DEF Slot
    <3>2. SlotAt(r, k + 1) # SlotAt(r, 0)
      BY <3>1, SlotAtOneToOne
    <3>3. SlotAt(r, k + 1) # r.in_offs
      BY <1>4, <3>2, OrderAfterAdd
    <3>4. SlotAt(r, k + 1) \in Slot
      BY <3>1, SlotAtIs
    <3> QED BY <1>1, <2>1, <3>1, <3>3, <3>4
  <2> QED BY <1>4, <2>2, <2>3
<1>5. CASE ~r.full
  <2>1. /\ SlotAt(r2, k) = SlotAt(r, k)
        /\ SlotAt(r, Count(r)) = r.in_offs
        /\ Count(r) \in Slot
    BY <1>5, OrderAfterAdd
  <2>2. ASSUME k = Count(r) PROVE r2.entry[SlotAt(r2, k)] = e
    BY <1>1, <2>1, <2>2
  <2>3. ASSUME k # Count(r) PROVE r2.entry[SlotAt(r2, k)] = r.entry[SlotAt(r, k)]
    <3>1. SlotAt(r, k) # r.in_offs
      BY <2>1, <2>3, SlotAtOneToOne
    <3> QED BY <1>1, <1>3, <2>1, <3>1
  <2> QED BY <1>5, <2>2, <2>3
<1> QED
  BY <1>4, <1>5

(* A reader's view of an add, by number of entries: the k-th entry after it
   is the new one, or the one that was k-th before, counted from the oldest
   that is still there. *)
Shifted(r, e, r2) ==
  \A k \in 0 .. Count(r2) - 1 :
    LET j == IF r.full THEN k + 1 ELSE k
    IN  IF k = Count(r2) - 1 THEN r2.entry[SlotAt(r2, k)] = e
        ELSE /\ j \in 0 .. Count(r) - 1
             /\ r2.entry[SlotAt(r2, k)] = r.entry[SlotAt(r, j)]

LEMMA EntryAfterAdd ==
  ASSUME NEW E, Sized(E), NEW r \in Ring(E), FullMeets(r), NEW e \in E,
         NEW r2, r2 = AddEntry(r, e)
  PROVE  Shifted(r, e, r2)
<1> SUFFICES ASSUME NEW k \in 0 .. Count(r2) - 1
             PROVE  LET j == IF r.full THEN k + 1 ELSE k
                    IN  IF k = Count(r2) - 1 THEN r2.entry[SlotAt(r2, k)] = e
                        ELSE /\ j \in 0 .. Count(r) - 1
                             /\ r2.entry[SlotAt(r2, k)] = r.entry[SlotAt(r, j)]
  BY DEF Shifted
<1>0. Count(r2) = IF r.full THEN N ELSE Count(r) + 1
  BY CountAfterAdd
<1>1. /\ Count(r) \in 0 .. N
      /\ Count(r) = N <=> r.full
  BY CountIs
<1>2. k \in Slot
  BY <1>0, <1>1, NAssumption DEF Slot
<1>3. CASE r.full
  BY <1>0, <1>1, <1>2, <1>3, OrderedEntriesAfterAdd, NAssumption
<1>4. CASE ~r.full
  BY <1>0, <1>1, <1>2, <1>4, OrderedEntriesAfterAdd, NAssumption
<1> QED
  BY <1>3, <1>4

(* An add keeps free slots apart from used ones. *)
LEMMA ShapeAfterAdd ==
  ASSUME NEW E, Sized(E), NEW r \in Ring(E), WellShaped(r), NEW e \in E, e # EmptyEntry,
         NEW r2, r2 = AddEntry(r, e)
  PROVE  WellShaped(r2)
<1>1. /\ FullMeets(r) /\ FullMeets(r2)
      /\ Count(r) \in 0 .. N
      /\ Count(r) = N <=> r.full
      /\ Count(r2) = IF r.full THEN N ELSE Count(r) + 1
  <2>1. FullMeets(r)
    BY DEF WellShaped
  <2>2. Added(E, r, e, r2) /\ Count(r2) = IF r.full THEN N ELSE Count(r) + 1
    BY <2>1, AddIs, CountAfterAdd
  <2> QED BY <2>1, <2>2, CountIs DEF Added
<1>2. ASSUME NEW k \in Slot
      PROVE  r2.entry[SlotAt(r2, k)] = EmptyEntry <=> k >= Count(r2)
  <2>1. k \in 0 .. N - 1 /\ N \in Nat \ {0} /\ Count(r) \in Int /\ Count(r2) \in Int
    BY <1>1, NAssumption DEF Slot
  <2>2. CASE k < Count(r2)
    <3>1. k \in 0 .. Count(r2) - 1
      BY <2>1, <2>2
    <3>0. Shifted(r, e, r2)
      BY <1>1, EntryAfterAdd
    <3>2. CASE k = Count(r2) - 1
      BY <2>1, <2>2, <3>0, <3>1, <3>2 DEF Shifted
    <3>3. CASE k # Count(r2) - 1
      <4>1. PICK j \in 0 .. Count(r) - 1 : r2.entry[SlotAt(r2, k)] = r.entry[SlotAt(r, j)]
        BY <3>0, <3>1, <3>3 DEF Shifted
      <4>2. j \in Slot /\ ~(j >= Count(r))
        BY <1>1, NAssumption DEF Slot
      <4> QED BY <2>1, <2>2, <4>1, <4>2 DEF WellShaped
    <3> QED BY <3>2, <3>3
  <2>3. CASE k >= Count(r2)
    <3>1. ~r.full /\ k # Count(r) /\ k >= Count(r)
      BY <1>1, <2>1, <2>3
    <3>2. r2.entry[SlotAt(r2, k)] = r.entry[SlotAt(r, k)]
      BY <1>1, <3>1, OrderedEntriesAfterAdd
    <3> QED BY <2>3, <3>1, <3>2 DEF WellShaped
  <2> QED BY <2>1, <2>2, <2>3
<1> QED
  BY <1>1, <1>2 DEF WellShaped

(* The empty ring is well shaped. *)
LEMMA EmptyRing ==
  ASSUME NEW E, EmptyEntry \in E
  PROVE  InitRing \in Ring(E) /\ WellShaped(InitRing) /\ Count(InitRing) = 0
<1>1. /\ InitRing.entry = [i \in Slot |-> EmptyEntry] /\ InitRing.in_offs = 0
      /\ InitRing.out_offs = 0 /\ InitRing.full = FALSE /\ 0 \in Slot
  BY NAssumption DEF InitRing, Slot
<1>2. InitRing \in Ring(E)
  BY <1>1 DEF InitRing, Ring
<1>3. Count(InitRing) = 0
  BY <1>1 DEF Count
<1>4. ASSUME NEW k \in Slot PROVE InitRing.entry[SlotAt(InitRing, k)] = EmptyEntry /\ k >= 0
  <2>1. k \in 0 .. N
    BY NAssumption DEF Slot
  <2>2. SlotAt(InitRing, k) \in Slot
    BY <1>2, <2>1, SlotAtIs
  <2> QED BY <1>1, <2>1, <2>2
<1> QED
  BY <1>1, <1>2, <1>3, <1>4 DEF WellShaped, FullMeets

----------------------------------------------------------------------------
(* buff_size counts the bytes of all entries. *)
Exact(r) == r.buff_size = BytesBefore(r, 0)[N]

(* The total is the same wherever it starts to count, and no number is negative. *)
LEMMA BytesAre ==
  ASSUME NEW E, Sized(E), NEW r \in Ring(E), NEW first \in Slot
  PROVE  LET b == BytesBefore(r, first)
         IN  /\ \A k \in 0 .. N : b[k] \in Nat
             /\ b[0] = 0
             /\ \A k \in 1 .. N : b[k] = b[k - 1] + SizesFrom(r, first)[k]
             /\ \A i, j \in 0 .. N : i <= j => b[i] <= b[j]
<1>1. \A k \in 1 .. N : SizesFrom(r, first)[k] \in Nat
  BY SizesFromAre
<1>2. Sums(BytesBefore(r, first), SizesFrom(r, first), N) /\ N \in Nat
  BY BytesBeforeIs, NAssumption
<1>3. PICK b : b = BytesBefore(r, first)
  OBVIOUS
<1>4. PICK z : z = SizesFrom(r, first)
  OBVIOUS
<1>5. Sums(b, z, N) /\ \A k \in 1 .. N : z[k] \in Nat
  BY <1>1, <1>2, <1>3, <1>4
<1>6. /\ \A k \in 0 .. N : b[k] \in Nat
      /\ b[0] = 0 /\ \A k \in 1 .. N : b[k] = b[k - 1] + z[k]
  BY <1>2, <1>5, SumType
<1>7. \A i, j \in 0 .. N : i <= j => b[i] <= b[j]
  BY <1>2, <1>5, SumGrows
<1> QED
  BY <1>3, <1>4, <1>6, <1>7

(* An add releases exactly the size of the slot it fills: that of the oldest
   entry of a full ring, and 0 otherwise. *)
LEMMA ReleasedSizeIs ==
  ASSUME NEW E, NEW r \in Ring(E), WellShaped(r)
  PROVE  ReleasedSize(r) = r.entry[r.in_offs].size
<1>1. FullMeets(r)
  BY DEF WellShaped
<1>2. CASE r.full
  BY <1>1, <1>2 DEF FullMeets, ReleasedSize, Overwrites
<1>3. CASE ~r.full
  <2>1. /\ Count(r) \in 0 .. N /\ Count(r) # N
        /\ r.in_offs = (IF r.out_offs + Count(r) < N THEN r.out_offs + Count(r)
                        ELSE r.out_offs + Count(r) - N)
    BY <1>1, <1>3, CountIs
  <2>2. Count(r) \in Slot
    BY <2>1, NAssumption DEF Slot
  <2>3. SlotAt(r, Count(r)) = r.in_offs
    BY <2>1, SlotAtIs
  <2>4. r.entry[r.in_offs] = EmptyEntry
    BY <2>1, <2>2, <2>3, NAssumption DEF WellShaped, Slot
  <2> QED BY <1>3, <2>4 DEF ReleasedSize, Overwrites, EmptyEntry
<1> QED
  BY <1>2, <1>3

(* An add keeps buff_size exact. *)
LEMMA ExactAfterAdd ==
  ASSUME NEW E, Sized(E), NEW r \in Ring(E), WellShaped(r), Exact(r), NEW e \in E,
         NEW r2, r2 = AddEntry(r, e)
  PROVE  Exact(r2)
<1> DEFINE d == e.size - r.entry[r.in_offs].size
           m == r.in_offs + 1
<1>1. Added(E, r, e, r2)
  BY AddIs DEF WellShaped
<1>2. /\ r2 \in Ring(E) /\ r.in_offs \in Slot /\ 0 \in Slot /\ r.entry \in [Slot -> E]
      /\ r2.entry = [r.entry EXCEPT ![r.in_offs] = e] /\ r.buff_size \in Int
  BY <1>1, NAssumption DEF Added, Ring, Slot
<1>3. m \in 1 .. N /\ e.size \in Nat /\ r.entry[r.in_offs].size \in Nat /\ d \in Int
  BY <1>2, NAssumption DEF Slot, Sized
<1> HIDE DEF d, m
<1>4. \A k \in 1 .. N : SizesFrom(r2, 0)[k] =
        IF k = m THEN SizesFrom(r, 0)[k] + d ELSE SizesFrom(r, 0)[k]
  <2> TAKE k \in 1 .. N
  <2>1. PICK i \in Slot : i = k - 1 /\ i = (0 + k - 1) % N
    <3>1. k - 1 \in Slot /\ (k - 1) % N = k - 1 /\ 0 + k - 1 = k - 1
      BY NAssumption DEF Slot
    <3> QED BY <3>1
  <2>2. SizesFrom(r2, 0)[k] = r2.entry[i].size /\ SizesFrom(r, 0)[k] = r.entry[i].size
    BY <2>1 DEF SizesFrom
  <2>3. k = m <=> i = r.in_offs
    BY <1>2, <2>1 DEF Slot, m
  <2>4. i = r.in_offs => r.entry[i].size + d = e.size
    BY <1>3 DEF d
  <2> QED BY <1>2, <2>2, <2>3, <2>4
<1>5. /\ \A k \in 1 .. N : SizesFrom(r, 0)[k] \in Nat
      /\ \A k \in 1 .. N : SizesFrom(r2, 0)[k] \in Nat
  BY <1>2, SizesFromAre
<1>6. BytesBefore(r2, 0)[N] = BytesBefore(r, 0)[N] + d
  <2>1. PICK y, z, b, c : /\ y = SizesFrom(r, 0) /\ z = SizesFrom(r2, 0)
                          /\ b = BytesBefore(r, 0) /\ c = BytesBefore(r2, 0)
    OBVIOUS
  <2>2. Sums(b, y, N) /\ Sums(c, z, N) /\ N \in Nat
    BY <2>1, BytesBeforeIs, NAssumption
  <2>3. DiffersAt(y, z, m, d, N)
    BY <1>4, <1>5, <2>1 DEF DiffersAt
  <2>4. c[N] = b[N] + d
    BY <1>3, <2>2, <2>3, SumWithOneChanged
  <2> QED BY <2>1, <2>4
<1>7. BytesBefore(r, 0)[N] \in Nat
  <2>1. N \in 0 .. N
    BY NAssumption
  <2> QED BY <1>2, <2>1, BytesAre
<1>8. r2.buff_size = (r.buff_size - r.entry[r.in_offs].size) + e.size
  BY <1>1, ReleasedSizeIs DEF Added
<1>9. r.buff_size = BytesBefore(r, 0)[N]
  BY DEF Exact
<1>10. r2.buff_size = BytesBefore(r2, 0)[N]
  BY <1>3, <1>6, <1>7, <1>8, <1>9 DEF d
<1> QED
  BY <1>10 DEF Exact

LEMMA ExactAtStart ==
  ASSUME NEW E, EmptyEntry \in E, Sized(E)
  PROVE  Exact(InitRing)
<1>1. InitRing \in Ring(E) /\ 0 \in Slot /\ N \in Nat
  BY EmptyRing, NAssumption DEF Slot
<1>2. PICK b : b = BytesBefore(InitRing, 0)
  OBVIOUS
<1>3. /\ b[0] = 0
      /\ \A k \in 1 .. N : b[k] = b[k - 1] + SizesFrom(InitRing, 0)[k]
  BY <1>1, <1>2, BytesAre
<1>4. \A k \in 1 .. N : SizesFrom(InitRing, 0)[k] = 0
  <2> TAKE k \in 1 .. N
  <2>1. k - 1 \in Slot /\ (0 + k - 1) % N = k - 1
    BY NAssumption DEF Slot
  <2> QED BY <2>1 DEF SizesFrom, InitRing, EmptyEntry
<1> DEFINE T == {k \in 0 .. N : b[k] = 0}
<1>5. 0 \in T
  BY <1>1, <1>3
<1>6. ASSUME NEW k \in 0 .. N - 1, k \in T PROVE k + 1 \in T
  <2>1. k + 1 \in 1 .. N /\ k + 1 \in 0 .. N /\ (k + 1) - 1 = k /\ b[k] = 0
    BY <1>1, <1>6
  <2>2. b[k + 1] = b[k] + SizesFrom(InitRing, 0)[k + 1] /\ SizesFrom(InitRing, 0)[k + 1] = 0
    BY <1>3, <1>4, <2>1
  <2> QED BY <2>1, <2>2
<1>7. 0 .. N \subseteq T
  <2> HIDE DEF T
  <2> QED BY <1>1, <1>5, <1>6, Climb
<1>8. b[N] = 0
  BY <1>1, <1>7
<1> QED
  BY <1>2, <1>8 DEF Exact, InitRing

----------------------------------------------------------------------------
(* An entry with no buffer is an empty one. *)
NullIsEmpty(E) == \A e \in E : e.buffptr = NULL <=> e = EmptyEntry

(* Where the k-th oldest buffer is. *)
PtrAt(r, k) == r.entry[SlotAt(r, k)].buffptr

(* No two entries share a buffer, `z' apart: an address that stands for no
   memory. *)
Distinct(r, z) ==
  \A i, j \in 0 .. Count(r) - 1 : i # j /\ PtrAt(r, i) # z => PtrAt(r, i) # PtrAt(r, j)

(* An entry in use has a buffer. *)
LEMMA UsedHasBuffer ==
  ASSUME NEW E, NullIsEmpty(E), NEW r \in Ring(E), WellShaped(r), NEW k \in 0 .. Count(r) - 1
  PROVE  /\ k \in Slot
         /\ r.entry[SlotAt(r, k)] \in E \ {EmptyEntry}
         /\ PtrAt(r, k) # NULL /\ PtrAt(r, k) \in LivePtrs(r)
<1>1. Count(r) \in 0 .. N
  BY CountIs DEF WellShaped
<1>2. k \in Slot /\ k \in 0 .. N /\ ~(k >= Count(r))
  BY <1>1, NAssumption DEF Slot
<1>3. r.entry[SlotAt(r, k)] \in E /\ r.entry[SlotAt(r, k)] # EmptyEntry
  BY <1>2, SlotAtIs DEF WellShaped
<1> QED
  BY <1>2, <1>3 DEF NullIsEmpty, PtrAt, LivePtrs

(* What add_entry returns is the oldest buffer of a full ring. *)
LEMMA DisplacedIs ==
  ASSUME NEW E, NEW r \in Ring(E), FullMeets(r)
  PROVE  Displaced(r) = IF r.full THEN PtrAt(r, 0) ELSE NULL
<1>1. r.out_offs \in Slot /\ 0 \in 0 .. N
  BY NAssumption DEF Ring
<1>2. SlotAt(r, 0) = IF r.out_offs + 0 < N THEN r.out_offs + 0 ELSE r.out_offs + 0 - N
  BY <1>1, SlotAtIs
<1>3. SlotAt(r, 0) = r.out_offs
  BY <1>1, <1>2, NAssumption DEF Slot
<1> QED
  BY <1>3 DEF Displaced, Overwrites, FullMeets, PtrAt

(* Adding a buffer that is not in the ring ... *)
Addable(E, z, r, e) ==
  /\ NullIsEmpty(E) /\ Sized(E) /\ r \in Ring(E) /\ WellShaped(r) /\ Distinct(r, z)
  /\ e \in E /\ e # EmptyEntry /\ (e.buffptr # z => e.buffptr \notin LivePtrs(r))

(* ... keeps buffers distinct, and leaves in the ring the new one, and the old
   ones but for the one returned. *)
LiveMoved(z, r, e, r2) ==
  /\ Distinct(r2, z)
  /\ LivePtrs(r2) \ {z} = ((LivePtrs(r) \cup {e.buffptr}) \ {z}) \ {Displaced(r)}

LEMMA LiveAfterAdd ==
  ASSUME NEW E, NEW z, NEW r, NEW e, Addable(E, z, r, e), NEW r2, r2 = AddEntry(r, e)
  PROVE  LiveMoved(z, r, e, r2)
<1> DEFINE old(k) == PtrAt(r, k)
           new(k) == PtrAt(r2, k)
           first == IF r.full THEN 1 ELSE 0
<1>0. /\ NullIsEmpty(E) /\ Sized(E) /\ r \in Ring(E) /\ WellShaped(r) /\ FullMeets(r)
      /\ e \in E /\ e.buffptr # NULL /\ (e.buffptr # z => e.buffptr \notin LivePtrs(r))
  BY DEF Addable, NullIsEmpty, WellShaped
<1>1. PICK c \in 0 .. N, d \in 1 .. N :
         /\ c = Count(r) /\ d = Count(r2) /\ d = IF r.full THEN N ELSE c + 1
         /\ c = N <=> r.full
  BY <1>0, CountIs, CountAfterAdd, NAssumption
<1>2. /\ LivePtrs(r) = {old(k) : k \in 0 .. c - 1}
      /\ LivePtrs(r2) = {new(k) : k \in 0 .. d - 1}
  BY <1>1 DEF LivePtrs, PtrAt
<1>3. \A j, k \in 0 .. c - 1 : j # k /\ old(j) # z => old(j) # old(k)
  BY <1>1 DEF Addable, Distinct
<1>4. /\ new(d - 1) = e.buffptr
      /\ \A k \in 0 .. d - 2 : k + first \in first .. c - 1 /\ new(k) = old(k + first)
  <2>0. Shifted(r, e, r2)
    BY <1>0, EntryAfterAdd
  <2>1. d - 1 \in 0 .. d - 1
    BY <1>1
  <2>2. new(d - 1) = e.buffptr
    BY <1>1, <2>0, <2>1 DEF Shifted, PtrAt
  <2>3. ASSUME NEW k \in 0 .. d - 2
        PROVE  k + first \in first .. c - 1 /\ new(k) = old(k + first)
    <3>1. k \in 0 .. d - 1 /\ k # d - 1 /\ k + 0 = k /\ k \in Nat
      BY <1>1
    <3>2. /\ k + first \in 0 .. c - 1
          /\ r2.entry[SlotAt(r2, k)] = r.entry[SlotAt(r, k + first)]
      BY <1>1, <2>0, <3>1 DEF Shifted
    <3> QED BY <3>1, <3>2 DEF PtrAt
  <2> QED BY <2>2, <2>3
<1>5. Displaced(r) = (IF r.full THEN old(0) ELSE NULL)
  BY <1>0, DisplacedIs
<1>6. \A k \in 0 .. c - 1 : old(k) # NULL
  BY <1>0, <1>1, UsedHasBuffer
<1>7. \A k \in first .. c - 1 : /\ k - first \in 0 .. d - 2 /\ (k - first) + first = k
                                /\ k \in 0 .. c - 1 /\ k - first \in 0 .. d - 1
  BY <1>1
<1>8. \A k \in first .. c - 1 : old(k) # z => old(k) # Displaced(r)
  <2> TAKE k \in first .. c - 1
  <2>1. CASE r.full
    <3>1. k \in 0 .. c - 1 /\ 0 \in 0 .. c - 1 /\ k # 0
      BY <1>1, <2>1
    <3> QED BY <1>3, <1>5, <2>1, <3>1
  <2>2. CASE ~r.full
    BY <1>5, <1>6, <1>7, <2>2
  <2> QED BY <2>1, <2>2
<1>9. e.buffptr # z => e.buffptr # Displaced(r)
  <2>1. CASE r.full
    <3>1. 0 \in 0 .. c - 1
      BY <1>1, <2>1, NAssumption
    <3> QED BY <1>0, <1>2, <1>5, <2>1, <3>1
  <2>2. CASE ~r.full
    BY <1>0, <1>5, <2>2
  <2> QED BY <2>1, <2>2
<1>10. \A k \in 0 .. c - 1 : k \in first .. c - 1 \/ old(k) = Displaced(r)
  BY <1>1, <1>5
<1>11. e.buffptr # z => \A k \in 0 .. c - 1 : old(k) # e.buffptr
  BY <1>0, <1>2
<1>12. /\ \A k \in 0 .. d - 2 : k \in Int /\ k + first \in 0 .. c - 1
       /\ \A i, j \in 0 .. d - 2 : i # j => i + first # j + first
       /\ \A k \in 0 .. d - 1 : k = d - 1 \/ k \in 0 .. d - 2
       /\ d - 1 \in 0 .. d - 1 /\ d \in Int
  <2>1. first \in {0, 1}
    OBVIOUS
  <2> HIDE DEF first, old, new
  <2> QED BY <1>1, <1>4, <2>1
<1> HIDE DEF old, new, first
<1>13. ASSUME NEW i \in 0 .. d - 1, NEW j \in 0 .. d - 1, i # j, new(i) # z
       PROVE  new(i) # new(j)
  <2>1. CASE i = d - 1
    <3>1. new(i) = e.buffptr /\ j \in 0 .. d - 2
      BY <1>4, <1>12, <1>13, <2>1
    <3> QED BY <1>4, <1>11, <1>12, <1>13, <3>1
  <2>2. CASE i # d - 1
    <3>1. i \in 0 .. d - 2 /\ new(i) = old(i + first) /\ i + first \in 0 .. c - 1
      BY <1>4, <1>12, <2>2
    <3>2. CASE j = d - 1
      BY <1>4, <1>11, <1>13, <3>1, <3>2
    <3>3. CASE j # d - 1
      <4>1. j \in 0 .. d - 2 /\ new(j) = old(j + first) /\ j + first \in 0 .. c - 1
        BY <1>4, <1>12, <3>3
      <4> QED BY <1>3, <1>12, <1>13, <3>1, <4>1
    <3> QED BY <3>2, <3>3
  <2> QED BY <2>1, <2>2
<1>14. ASSUME NEW x \in LivePtrs(r2) \ {z}
       PROVE  x \in ((LivePtrs(r) \cup {e.buffptr}) \ {z}) \ {Displaced(r)}
  <2>1. PICK k \in 0 .. d - 1 : x = new(k)
    BY <1>2, <1>14
  <2>2. CASE k = d - 1
    BY <1>4, <1>9, <1>14, <2>1, <2>2
  <2>3. CASE k # d - 1
    <3>1. k \in 0 .. d - 2
      BY <1>12, <2>3
    <3>2. k + first \in first .. c - 1 /\ x = old(k + first)
      BY <1>4, <2>1, <3>1
    <3> QED BY <1>2, <1>7, <1>8, <1>14, <3>2
  <2> QED BY <2>2, <2>3
<1>15. ASSUME NEW x \in ((LivePtrs(r) \cup {e.buffptr}) \ {z}) \ {Displaced(r)}
       PROVE  x \in LivePtrs(r2) \ {z}
  <2>1. CASE x = e.buffptr
    BY <1>2, <1>4, <1>12, <1>15, <2>1
  <2>2. CASE x # e.buffptr
    <3>1. PICK k \in 0 .. c - 1 : x = old(k)
      BY <1>2, <1>15, <2>2
    <3>2. k \in first .. c - 1
      BY <1>10, <1>15, <3>1
    <3>3. x = new(k - first) /\ k - first \in 0 .. d - 1
      BY <1>4, <1>7, <3>1, <3>2
    <3> QED BY <1>2, <1>15, <3>3
  <2> QED BY <2>1, <2>2
<1>16. Distinct(r2, z)
  BY <1>1, <1>13 DEF Distinct, new
<1> QED
  BY <1>14, <1>15, <1>16 DEF LiveMoved

(* destroy_circular_buffer frees every buffer of the ring and nothing else. *)
LEMMA DestroyFreesLive ==
  ASSUME NEW E, NullIsEmpty(E), NEW r \in Ring(E), WellShaped(r)
  PROVE  DestroyFrees(r) = LivePtrs(r)
<1> DEFINE ptr(k) == r.entry[SlotAt(r, k)].buffptr
           Freed == {i \in Slot : \A j \in 0 .. i : ptr(j) # NULL /\ (j > 0 => SlotAt(r, j) # r.in_offs)}
<1>1. FullMeets(r)
  BY DEF WellShaped
<1>2. /\ Count(r) \in 0 .. N
      /\ Count(r) = N <=> r.full
      /\ r.in_offs = (IF r.out_offs + Count(r) < N THEN r.out_offs + Count(r)
                      ELSE r.out_offs + Count(r) - N)
  BY <1>1, CountIs
<1>3. r.in_offs \in Slot /\ r.out_offs \in Slot
  BY DEF Ring
<1>4. ASSUME NEW k \in Slot PROVE ptr(k) = NULL <=> k >= Count(r)
  <2>1. k \in 0 .. N
    BY NAssumption DEF Slot
  <2>2. r.entry[SlotAt(r, k)] \in E
    BY <2>1, SlotAtIs
  <2> QED BY <2>2 DEF NullIsEmpty, WellShaped
<1>5. ASSUME NEW k \in Slot, k > 0, k < Count(r) PROVE SlotAt(r, k) # r.in_offs
  <2>1. k \in 0 .. N /\ Count(r) \in 0 .. N /\ 0 \in 0 .. N /\ 0 \in Slot
    BY <1>2, NAssumption DEF Slot
  <2>2. SlotAt(r, k) = (IF r.out_offs + k < N THEN r.out_offs + k ELSE r.out_offs + k - N)
    BY <2>1, SlotAtIs
  <2> QED BY <1>2, <1>3, <1>5, <2>1, <2>2, NAssumption DEF Slot
<1>6. CASE r.in_offs = r.out_offs /\ ~r.full
  <2>1. Count(r) = 0
    BY <1>3, <1>6 DEF Count, Slot
  <2> QED BY <1>6, <2>1 DEF DestroyFrees, LivePtrs
<1>7. CASE ~(r.in_offs = r.out_offs /\ ~r.full)
  <2>1. Count(r) \in 1 .. N
    BY <1>2, <1>3, <1>7, NAssumption DEF Slot
  <2>2. Freed = 0 .. Count(r) - 1
    <3>1. ASSUME NEW i \in Freed PROVE i \in 0 .. Count(r) - 1
      <4>1. i \in 0 .. N - 1 /\ i \in Slot /\ i \in 0 .. i
        BY NAssumption DEF Slot
      <4>2. ptr(i) # NULL
        BY <3>1, <4>1
      <4>3. ~(i >= Count(r))
        BY <1>4, <4>1, <4>2
      <4> QED BY <2>1, <4>1, <4>3
    <3>2. ASSUME NEW i \in 0 .. Count(r) - 1 PROVE i \in Freed
      <4>1. i \in Slot
        BY <2>1, NAssumption DEF Slot
      <4>2. ASSUME NEW j \in 0 .. i PROVE ptr(j) # NULL /\ (j > 0 => SlotAt(r, j) # r.in_offs)
        <5>1. j \in Slot /\ j < Count(r) /\ ~(j >= Count(r))
          BY <2>1, NAssumption DEF Slot
        <5> QED BY <1>4, <1>5, <5>1
      <4> QED BY <4>1, <4>2
    <3> QED BY <3>1, <3>2
  <2>3. DestroyFrees(r) = {ptr(k) : k \in Freed}
    BY <1>7 DEF DestroyFrees
  <2> HIDE DEF Freed
  <2> QED BY <2>2, <2>3 DEF LivePtrs
<1> QED
  BY <1>6, <1>7

----------------------------------------------------------------------------
(* Byte off of the ring is byte `rel' of the k-th oldest entry. *)
ByteIs(r, off, k, rel) ==
  LET b == BytesBefore(r, r.out_offs)
      size == r.entry[SlotAt(r, k)].size
  IN  /\ k \in 0 .. Count(r) - 1
      /\ b[k] \in Nat /\ size \in Nat /\ rel \in 0 .. size - 1
      /\ off = b[k] + rel /\ b[k + 1] = b[k] + size

(* What the scan of find_entry_offset_for_fpos stops at. *)
Hits(r, off) ==
  {k \in Slot : /\ \A j \in 0 .. k : r.entry[SlotAt(r, j)].size # 0
                /\ Covers(BytesBefore(r, r.out_offs)[k], r.entry[SlotAt(r, k)].size, off)}

LEMMA FindEntryIs ==
  ASSUME NEW r, NEW off
  PROVE  /\ Hits(r, off) = {} => FindEntry(r, off) = NotFound
         /\ Hits(r, off) # {} =>
              LET k == CHOOSE i \in Hits(r, off) : \A j \in Hits(r, off) : i <= j
              IN  FindEntry(r, off) = [found |-> TRUE, slot |-> SlotAt(r, k),
                                       rel |-> off - BytesBefore(r, r.out_offs)[k]]
  BY Zenon DEF FindEntry, Hits

(* A byte that is found is a byte of an entry of the ring ... *)
LEMMA FoundIsByte ==
  ASSUME NEW E, Sized(E), NEW r \in Ring(E), WellShaped(r), NEW off \in Nat,
         FindEntry(r, off).found
  PROVE  \E k \in 0 .. Count(r) - 1 :
           /\ FindEntry(r, off).slot = SlotAt(r, k)
           /\ ByteIs(r, off, k, FindEntry(r, off).rel)
<1> DEFINE b == BytesBefore(r, r.out_offs)
           size(j) == r.entry[SlotAt(r, j)].size
<1>1. Hits(r, off) # {}
  BY FindEntryIs DEF NotFound
<1>2. Hits(r, off) \in SUBSET Nat
  BY NAssumption DEF Hits, Slot
<1>3. PICK k \in Hits(r, off) :
         /\ \A j \in Hits(r, off) : k <= j
         /\ FindEntry(r, off) = [found |-> TRUE, slot |-> SlotAt(r, k), rel |-> off - b[k]]
  <2> DEFINE m == CHOOSE i \in Hits(r, off) : \A j \in Hits(r, off) : i <= j
  <2>1. m \in Hits(r, off) /\ \A j \in Hits(r, off) : m <= j
    BY <1>1, <1>2, LeastChosen
  <2> QED BY <1>1, <2>1, FindEntryIs, Zenon
<1>4. /\ k \in Slot /\ \A j \in 0 .. k : size(j) # 0
      /\ Covers(b[k], size(k), off)
  BY DEF Hits
<1>5. /\ r.out_offs \in Slot /\ Count(r) \in 0 .. N /\ k \in 0 .. N - 1 /\ k + 1 \in 1 .. N
      /\ k \in 0 .. N /\ k \in 0 .. k
  BY <1>4, CountIs, NAssumption DEF Ring, WellShaped, Slot
<1>6. k < Count(r)
  <2>1. size(k) # 0
    BY <1>4, <1>5
  <2>2. r.entry[SlotAt(r, k)] # EmptyEntry
    BY <2>1 DEF EmptyEntry
  <2> QED BY <1>4, <1>5, <2>2 DEF WellShaped
<1>7. /\ b[0] = 0 /\ \A j \in 0 .. N : b[j] \in Nat
      /\ \A j \in 0 .. N - 1 : b[j + 1] = b[j] + size(j)
  <2>1. /\ b[0] = 0 /\ \A j \in 0 .. N : b[j] \in Nat
        /\ \A j \in 1 .. N : b[j] = b[j - 1] + SizesFrom(r, r.out_offs)[j]
    BY <1>5, BytesAre
  <2>2. ASSUME NEW j \in 0 .. N - 1 PROVE b[j + 1] = b[j] + size(j)
    <3>1. /\ j + 1 \in 1 .. N /\ (j + 1) - 1 = j /\ r.out_offs + (j + 1) - 1 = r.out_offs + j
      BY <1>5, NAssumption DEF Slot
    <3>2. SizesFrom(r, r.out_offs)[j + 1] = size(j)
      BY <3>1 DEF SizesFrom, SlotAt
    <3> QED BY <2>1, <3>1, <3>2
  <2> QED BY <2>1, <2>2
<1>8. size(k) \in Nat
  BY <1>4, <1>5, SlotAtIs DEF Sized
<1>9. off <= b[k] + size(k) - 1
  BY <1>4, <1>5, <1>7, <1>8 DEF Covers
<1>10. b[k] <= off
  <2>1. CASE k = 0
    BY <1>7, <2>1
  <2>2. CASE k # 0
    <3>1. /\ k - 1 \in Slot /\ k - 1 \in 0 .. N - 1 /\ k - 1 \in 0 .. N /\ (k - 1) + 1 = k
          /\ ~(k <= k - 1) /\ \A j \in 0 .. k - 1 : j \in 0 .. k
      BY <1>5, <2>2, NAssumption DEF Slot
    <3>2. ~Covers(b[k - 1], size(k - 1), off)
      <4>1. k - 1 \notin Hits(r, off)
        BY <1>3, <3>1
      <4> QED BY <1>4, <3>1, <4>1 DEF Hits
    <3>3. size(k - 1) \in Nat
      BY <3>1, SlotAtIs DEF Sized
    <3>4. b[k] = b[k - 1] + size(k - 1) /\ b[k - 1] \in Nat
      BY <1>7, <3>1
    <3> QED BY <3>2, <3>3, <3>4 DEF Covers
  <2> QED BY <2>1, <2>2
<1>11. FindEntry(r, off).slot = SlotAt(r, k) /\ FindEntry(r, off).rel = off - b[k]
  BY <1>3
<1>12. k \in 0 .. Count(r) - 1 /\ b[k] \in Nat /\ b[k + 1] = b[k] + size(k)
  BY <1>5, <1>6, <1>7
<1>13. off - b[k] \in 0 .. size(k) - 1 /\ off = b[k] + (off - b[k])
  BY <1>8, <1>9, <1>10, <1>12
<1>14. ByteIs(r, off, k, off - b[k])
  BY <1>8, <1>12, <1>13 DEF ByteIs
<1> QED
  BY <1>11, <1>12, <1>14

(* ... and with no empty entry among them, every byte of the ring is found. *)
LEMMA ByteIsFound ==
  ASSUME NEW E, Sized(E), NEW r \in Ring(E), WellShaped(r), NEW off \in Nat,
         \A k \in 0 .. Count(r) - 1 : r.entry[SlotAt(r, k)].size # 0
  PROVE  FindEntry(r, off).found <=> off < BytesBefore(r, r.out_offs)[Count(r)]
<1> DEFINE b == BytesBefore(r, r.out_offs)
           c == Count(r)
<1>1. /\ c \in 0 .. N /\ r.out_offs \in Slot /\ N \in Nat \ {0} /\ Slot = 0 .. N - 1
  BY CountIs, NAssumption DEF Ring, WellShaped, Slot
<1>2. /\ b[0] = 0 /\ \A j \in 0 .. N : b[j] \in Nat
      /\ \A j \in 1 .. N : b[j] = b[j - 1] + SizesFrom(r, r.out_offs)[j]
      /\ \A i, j \in 0 .. N : i <= j => b[i] <= b[j]
  BY <1>1, BytesAre
<1>3. ASSUME FindEntry(r, off).found PROVE off < b[c]
  <2>1. PICK k \in 0 .. c - 1 : ByteIs(r, off, k, FindEntry(r, off).rel)
    BY <1>3, FoundIsByte
  <2>2. k + 1 \in 0 .. N /\ c \in 0 .. N /\ k + 1 <= c
    BY <1>1
  <2>3. b[k + 1] <= b[c] /\ b[k + 1] \in Nat /\ b[c] \in Nat
    BY <1>2, <2>2
  <2>4. off < b[k + 1]
    BY <2>1 DEF ByteIs
  <2> QED BY <2>3, <2>4
<1>4. ASSUME off < b[c] PROVE FindEntry(r, off).found
  <2>1. c # 0
    BY <1>2, <1>4
  <2> DEFINE k == c - 1
  <2>2. /\ k \in 0 .. N - 1 /\ k \in 0 .. c - 1 /\ k \in 0 .. N /\ k + 1 = c /\ c - 1 = k
        /\ c \in 1 .. N /\ r.out_offs + c - 1 = r.out_offs + k
        /\ \A j \in 0 .. k : j \in 0 .. Count(r) - 1
    BY <1>1, <2>1
  <2>3. SizesFrom(r, r.out_offs)[c] = r.entry[SlotAt(r, k)].size
    BY <2>2 DEF SizesFrom, SlotAt
  <2> HIDE DEF k
  <2>4. r.entry[SlotAt(r, k)].size \in Nat
    BY <1>1, <2>2, SlotAtIs DEF Sized
  <2>5. b[c] = b[k] + r.entry[SlotAt(r, k)].size /\ b[k] \in Nat
    BY <1>2, <2>2, <2>3
  <2>6. Covers(b[k], r.entry[SlotAt(r, k)].size, off)
    BY <1>4, <2>4, <2>5 DEF Covers
  <2>7. k \in Hits(r, off)
    BY <1>1, <2>2, <2>6 DEF Hits
  <2> QED BY <2>7, FindEntryIs
<1> QED
  BY <1>3, <1>4

(* No byte is at two places. *)
LEMMA ByteAtOnePlace ==
  ASSUME NEW E, Sized(E), NEW r \in Ring(E), WellShaped(r), NEW off,
         NEW i, NEW x, ByteIs(r, off, i, x), NEW k, NEW y, ByteIs(r, off, k, y), i <= k
  PROVE  i = k /\ x = y
<1> DEFINE b == BytesBefore(r, r.out_offs)
<1>1. Count(r) \in 0 .. N /\ r.out_offs \in Slot /\ N \in Nat
  BY CountIs, NAssumption DEF Ring, WellShaped
<1>2. /\ i \in 0 .. Count(r) - 1 /\ k \in 0 .. Count(r) - 1
      /\ b[i] \in Nat /\ b[k] \in Nat /\ x \in Nat /\ y \in Nat
      /\ off = b[i] + x /\ off = b[k] + y /\ off < b[i + 1] /\ b[i + 1] \in Nat
  BY DEF ByteIs
<1>3. i = k
  <2> SUFFICES ASSUME i < k PROVE FALSE
    BY <1>1, <1>2
  <2>1. i + 1 \in 0 .. N /\ k \in 0 .. N /\ i + 1 <= k
    BY <1>1, <1>2
  <2>2. b[i + 1] <= b[k]
    BY <1>1, <2>1, BytesAre
  <2> QED BY <1>2, <2>2
<1> QED
  BY <1>2, <1>3

----------------------------------------------------------------------------
(* The concatenations FlattenSeq is computed from. *)
FlatOf(f, seqs, n) == f = [i \in 1 .. n |-> IF i = 1 THEN seqs[i] ELSE f[i - 1] \o seqs[i]]

LEMMA FlatExists ==
  ASSUME NEW n \in Nat, NEW seqs
  PROVE  \E f : FlatOf(f, seqs, n)
<1> DEFINE T == {k \in Nat : \E f : FlatOf(f, seqs, k)}
<1>1. 0 \in T
  <2>1. FlatOf([i \in 1 .. 0 |-> 0], seqs, 0)
    BY DEF FlatOf
  <2> QED BY <2>1
<1>2. ASSUME NEW k \in 0 .. n - 1, k \in T PROVE k + 1 \in T
  <2>1. PICK f : FlatOf(f, seqs, k)
    BY <1>2
  <2> DEFINE g == [i \in 1 .. k + 1 |-> IF i # k + 1 THEN f[i]
                                        ELSE IF i = 1 THEN seqs[i] ELSE f[k] \o seqs[i]]
  <2>2. ASSUME NEW i \in 1 .. k + 1
        PROVE  g[i] = IF i = 1 THEN seqs[i] ELSE g[i - 1] \o seqs[i]
    <3>1. k \in Nat /\ i \in Int /\ (k + 1) - 1 = k
      OBVIOUS
    <3>2. CASE i = k + 1 /\ i = 1
      BY <3>2
    <3>3. CASE i = k + 1 /\ i # 1
      <4>1. k \in 1 .. k + 1 /\ k # k + 1 /\ i - 1 = k
        BY <3>1, <3>3
      <4>2. g[i] = f[k] \o seqs[i] /\ g[k] = f[k]
        BY <3>3, <4>1
      <4> QED BY <3>3, <4>1, <4>2
    <3>4. CASE i # k + 1
      <4>1. i \in 1 .. k /\ (i # 1 => i - 1 \in 1 .. k + 1 /\ i - 1 # k + 1)
        BY <3>1, <3>4
      <4>2. f[i] = IF i = 1 THEN seqs[i] ELSE f[i - 1] \o seqs[i]
        BY <2>1, <4>1 DEF FlatOf
      <4>3. g[i] = f[i] /\ (i # 1 => g[i - 1] = f[i - 1])
        BY <3>4, <4>1
      <4> QED BY <4>2, <4>3
    <3> QED BY <3>2, <3>3, <3>4
  <2>3. g = [i \in 1 .. k + 1 |-> IF i = 1 THEN seqs[i] ELSE g[i - 1] \o seqs[i]]
    <3>1. g = [i \in 1 .. k + 1 |-> g[i]]
      OBVIOUS
    <3> HIDE DEF g
    <3> QED BY <2>2, <3>1
  <2> HIDE DEF g
  <2>4. FlatOf(g, seqs, k + 1)
    BY <2>3 DEF FlatOf
  <2> QED BY <2>4
<1> HIDE DEF T
<1>3. n \in T
  BY <1>1, <1>2, Climb
<1> QED
  BY <1>3 DEF T

(* FlattenSeq is the last of them. *)
LEMMA FlattenSeqIs ==
  ASSUME NEW seqs, Len(seqs) \in Nat \ {0}
  PROVE  \E f : FlatOf(f, seqs, Len(seqs)) /\ FlattenSeq(seqs) = f[Len(seqs)]
<1> DEFINE Eqn(f) == f = [i \in 1 .. Len(seqs) |-> IF i = 1 THEN seqs[i] ELSE f[i - 1] \o seqs[i]]
<1>1. \E f : Eqn(f)
  <2>1. PICK f : FlatOf(f, seqs, Len(seqs))
    BY FlatExists
  <2> QED BY <2>1 DEF FlatOf
<1>2. FlattenSeq(seqs) = (CHOOSE f : Eqn(f))[Len(seqs)]
  BY Zenon DEF FlattenSeq
<1>3. Eqn(CHOOSE f : Eqn(f))
  <2> HIDE DEF Eqn
  <2> QED BY <1>1, Zenon
<1> QED
  BY <1>2, <1>3 DEF FlatOf

(* The parts of a concatenation. *)
Concatenated(S, u, v, w) ==
  /\ w \in Seq(S) /\ Len(w) = Len(u) + Len(v)
  /\ \A q \in 1 .. Len(u) : w[q] = u[q]
  /\ \A q \in 1 .. Len(v) : w[Len(u) + q] = v[q]

LEMMA Concatenation ==
  ASSUME NEW S, NEW u \in Seq(S), NEW v \in Seq(S), NEW w, w = u \o v
  PROVE  Concatenated(S, u, v, w)
<1>1. Len(u) \in Nat /\ Len(v) \in Nat /\ w \in Seq(S) /\ Len(w) = Len(u) + Len(v)
  OBVIOUS
<1>2. \A q \in 1 .. Len(u) : w[q] = u[q]
  BY <1>1
<1>3. ASSUME NEW q \in 1 .. Len(v) PROVE w[Len(u) + q] = v[q]
  <2>1. /\ Len(u) + q \in 1 .. Len(u) + Len(v)
        /\ Len(u) + q > Len(u) /\ (Len(u) + q) - Len(u) = q
    BY <1>1
  <2> QED BY <2>1
<1> QED
  BY <1>1, <1>2, <1>3 DEF Concatenated

(* Where the elements go: those of the j-th sequence follow the b[j - 1]
   elements of the sequences before it. *)
FlatPlaces(f, seqs, b, i) ==
  /\ Len(f[i]) = b[i]
  /\ \A j \in 1 .. i : \A x \in 1 .. Len(seqs[j]) : f[i][b[j - 1] + x] = seqs[j][x]

LEMMA FlatPlacesAll ==
  ASSUME NEW S, NEW n \in Nat, NEW seqs, \A k \in 1 .. n : seqs[k] \in Seq(S),
         NEW f, FlatOf(f, seqs, n),
         NEW size, \A k \in 1 .. n : size[k] = Len(seqs[k]),
         NEW b, Sums(b, size, n)
  PROVE  \A i \in 1 .. n : f[i] \in Seq(S) /\ FlatPlaces(f, seqs, b, i)
<1>1. \A k \in 1 .. n : size[k] \in Nat
  OBVIOUS
<1>2. /\ \A k \in 0 .. n : b[k] \in Nat
      /\ b[0] = 0 /\ \A k \in 1 .. n : b[k] = b[k - 1] + size[k]
      /\ \A i, j \in 0 .. n : i <= j => b[i] <= b[j]
  BY <1>1, SumType, SumGrows
<1> DEFINE P(i) == f[i] \in Seq(S) /\ FlatPlaces(f, seqs, b, i)
           T == {i \in 0 .. n : i # 0 => P(i)}
<1>3. 0 \in T
  OBVIOUS
<1>4. ASSUME NEW k \in 0 .. n - 1, k \in T PROVE k + 1 \in T
  <2> DEFINE i == k + 1
  <2>1. /\ i \in 1 .. n /\ i \in 0 .. n /\ i - 1 = k /\ k \in 0 .. n /\ k \in Nat
        /\ i # 0
    OBVIOUS
  <2> HIDE DEF i
  <2>2. /\ seqs[i] \in Seq(S) /\ Len(seqs[i]) \in Nat /\ b[i] = b[k] + Len(seqs[i])
        /\ b[k] \in Nat
    BY <1>2, <2>1
  <2>3. CASE k = 0
    <3>1. i = 1 /\ f[i] = seqs[i] /\ b[k] = 0
      BY <1>2, <2>1, <2>3 DEF FlatOf
    <3>2. FlatPlaces(f, seqs, b, i)
      <4>1. Len(f[i]) = b[i]
        BY <2>2, <3>1
      <4>2. ASSUME NEW j \in 1 .. i, NEW x \in 1 .. Len(seqs[j])
            PROVE  f[i][b[j - 1] + x] = seqs[j][x]
        <5>1. j = i /\ j - 1 = k /\ 0 + x = x
          BY <2>1, <2>3, <3>1
        <5> QED BY <3>1, <5>1
      <4> QED BY <4>1, <4>2 DEF FlatPlaces
    <3>3. P(i)
      BY <2>2, <3>1, <3>2
    <3> HIDE DEF P
    <3> QED BY <2>1, <3>3 DEF i
  <2>4. CASE k # 0
    <3>1. f[i] = f[k] \o seqs[i]
      <4>1. i # 1
        BY <2>1, <2>4
      <4> QED BY <2>1, <4>1 DEF FlatOf
    <3>2. f[k] \in Seq(S) /\ FlatPlaces(f, seqs, b, k)
      BY <1>4, <2>4
    <3>3. Len(f[k]) = b[k]
      BY <3>2 DEF FlatPlaces
    <3>4. /\ f[i] \in Seq(S) /\ Len(f[i]) = b[i]
          /\ \A q \in 1 .. b[k] : f[i][q] = f[k][q]
          /\ \A q \in 1 .. Len(seqs[i]) : f[i][b[k] + q] = seqs[i][q]
      <4>1. PICK u \in Seq(S), v \in Seq(S), w \in {f[k] \o seqs[i]} : u = f[k] /\ v = seqs[i] /\ w = u \o v
        BY <2>2, <3>2
      <4>2. Concatenated(S, u, v, w)
        BY <4>1, Concatenation
      <4> QED BY <2>2, <3>1, <3>3, <4>1, <4>2 DEF Concatenated
    <3>5. ASSUME NEW j \in 1 .. i, NEW x \in 1 .. Len(seqs[j])
          PROVE  f[i][b[j - 1] + x] = seqs[j][x]
      <4>1. CASE j = i
        BY <2>1, <3>4, <4>1
      <4>2. CASE j # i
        <5>1. j \in 1 .. k /\ j \in 1 .. n /\ j - 1 \in 0 .. n /\ j \in 0 .. n /\ j <= k
          BY <2>1, <4>2
        <5>2. /\ b[j] <= b[k] /\ b[j] = b[j - 1] + Len(seqs[j]) /\ b[j - 1] \in Nat
              /\ Len(seqs[j]) \in Nat
          BY <1>2, <2>1, <5>1
        <5>3. b[j - 1] + x \in 1 .. b[k]
          BY <2>2, <5>2
        <5>4. f[k][b[j - 1] + x] = seqs[j][x]
          BY <3>2, <5>1 DEF FlatPlaces
        <5> QED BY <3>4, <5>3, <5>4
      <4> QED BY <4>1, <4>2
    <3>6. P(i)
      BY <3>4, <3>5 DEF FlatPlaces
    <3> HIDE DEF P
    <3> QED BY <2>1, <3>6 DEF i
  <2> QED BY <2>3, <2>4
<1>5. 0 .. n \subseteq T
  <2> HIDE DEF T
  <2> QED BY <1>3, <1>4, Climb
<1> QED
  BY <1>5

(* `seqs' are the contents of the entries of r, in reading order. *)
ContentsOf(r, seqs) ==
  /\ Len(seqs) = Count(r)
  /\ \A k \in 1 .. Count(r) : Len(seqs[k]) = r.entry[SlotAt(r, k - 1)].size

(* What a reader sees if all entries are concatenated end to end. *)
EndToEnd(S, r, seqs) ==
  /\ FlattenSeq(seqs) \in Seq(S)
  /\ Len(FlattenSeq(seqs)) = BytesBefore(r, r.out_offs)[Count(r)]
  /\ \A off, k, rel : ByteIs(r, off, k, rel) => FlattenSeq(seqs)[off + 1] = seqs[k + 1][rel + 1]

LEMMA ContentsEndToEnd ==
  ASSUME NEW E, Sized(E), NEW r \in Ring(E), WellShaped(r),
         NEW S, NEW seqs \in Seq(Seq(S)), ContentsOf(r, seqs)
  PROVE  EndToEnd(S, r, seqs)
<1> DEFINE b == BytesBefore(r, r.out_offs)
<1>1. PICK c \in 0 .. N : c = Count(r) /\ c = Len(seqs) /\ N \in Nat
  BY CountIs, NAssumption DEF WellShaped, ContentsOf
<1>2. r.out_offs \in Slot
  BY DEF Ring
<1>3. /\ b[0] = 0
      /\ \A k \in 0 .. N : b[k] \in Nat
      /\ \A k \in 1 .. N : b[k] = b[k - 1] + SizesFrom(r, r.out_offs)[k]
  BY <1>2, BytesAre
<1>4. CASE c = 0
  <2>1. FlattenSeq(seqs) = seqs /\ seqs = <<>>
    <3>1. Len(seqs) = 0
      BY <1>1, <1>4
    <3>2. seqs = <<>>
      BY <3>1, EmptySeq, Zenon
    <3> QED BY <3>1, <3>2, Zenon DEF FlattenSeq
  <2>2. \A off, k, rel : ~ByteIs(r, off, k, rel)
    BY <1>1, <1>4 DEF ByteIs
  <2> QED BY <1>1, <1>3, <1>4, <2>1, <2>2 DEF EndToEnd
<1>5. CASE c # 0
  <2> DEFINE size == [k \in 1 .. c |-> Len(seqs[k])]
  <2>1. Sums(b, size, c)
    <3>1. ASSUME NEW k \in 1 .. c PROVE b[k] = b[k - 1] + size[k]
      <4>1. k \in 1 .. N /\ r.out_offs + k - 1 = r.out_offs + (k - 1)
        BY <1>1, <1>2, NAssumption DEF Slot
      <4>2. SizesFrom(r, r.out_offs)[k] = r.entry[SlotAt(r, k - 1)].size
        BY <4>1 DEF SizesFrom, SlotAt
      <4>3. size[k] = r.entry[SlotAt(r, k - 1)].size
        BY <1>1 DEF ContentsOf
      <4> QED BY <1>3, <4>1, <4>2, <4>3
    <3> HIDE DEF size
    <3> QED BY <1>3, <3>1 DEF Sums
  <2>2. PICK f : FlatOf(f, seqs, c) /\ FlattenSeq(seqs) = f[c]
    BY <1>1, <1>5, FlattenSeqIs
  <2>3. /\ \A k \in 1 .. c : seqs[k] \in Seq(S)
        /\ \A k \in 1 .. c : size[k] = Len(seqs[k])
    BY <1>1
  <2>4. c \in Nat /\ c \in 1 .. c
    BY <1>1, <1>5
  <2> HIDE DEF size
  <2>5. f[c] \in Seq(S) /\ FlatPlaces(f, seqs, b, c)
    BY <2>1, <2>2, <2>3, <2>4, FlatPlacesAll
  <2>6. ASSUME NEW off, NEW k, NEW rel, ByteIs(r, off, k, rel)
        PROVE  f[c][off + 1] = seqs[k + 1][rel + 1]
    <3>1. /\ k \in 0 .. c - 1 /\ b[k] \in Nat /\ off = b[k] + rel
          /\ r.entry[SlotAt(r, k)].size \in Nat
          /\ rel \in 0 .. r.entry[SlotAt(r, k)].size - 1
      BY <1>1, <2>6 DEF ByteIs
    <3> HIDE DEF b
    <3>2. k + 1 \in 1 .. c /\ (k + 1) - 1 = k /\ b[k] + (rel + 1) = off + 1
      <4>1. PICK z \in Nat : z = r.entry[SlotAt(r, k)].size /\ rel \in 0 .. z - 1
        BY <3>1
      <4>2. k \in Int /\ c \in Int /\ rel \in Int
        BY <1>1, <3>1, <4>1
      <4>3. k + 1 \in 1 .. c /\ (k + 1) - 1 = k
        BY <3>1, <4>2
      <4>4. PICK y \in Nat : y = b[k] /\ off = y + rel
        BY <3>1
      <4>5. y + (rel + 1) = (y + rel) + 1
        BY <4>2
      <4> QED BY <4>3, <4>4, <4>5
    <3>3. Len(seqs[k + 1]) = r.entry[SlotAt(r, k)].size
      BY <1>1, <3>2 DEF ContentsOf
    <3>4. rel + 1 \in 1 .. Len(seqs[k + 1])
      BY <3>1, <3>3
    <3>5. f[c][b[(k + 1) - 1] + (rel + 1)] = seqs[k + 1][rel + 1]
      BY <2>5, <3>2, <3>4 DEF FlatPlaces
    <3> QED BY <3>2, <3>5
  <2> QED BY <1>1, <2>2, <2>5, <2>6 DEF EndToEnd, FlatPlaces
<1> QED
  BY <1>4, <1>5

----------------------------------------------------------------------------
(* FlattenSeq from its two ends. *)
LEMMA FlatType ==
  ASSUME NEW S, NEW n \in Nat, NEW seqs, \A k \in 1 .. n : seqs[k] \in Seq(S),
         NEW f, FlatOf(f, seqs, n)
  PROVE  \A i \in 1 .. n : f[i] \in Seq(S)
<1> DEFINE T == {i \in 0 .. n : i # 0 => f[i] \in Seq(S)}
<1>1. 0 \in T
  OBVIOUS
<1>2. ASSUME NEW k \in 0 .. n - 1, k \in T PROVE k + 1 \in T
  <2>1. k + 1 \in 1 .. n /\ k + 1 \in 0 .. n /\ (k + 1) - 1 = k /\ k \in Nat
    OBVIOUS
  <2>2. f[k + 1] = IF k + 1 = 1 THEN seqs[k + 1] ELSE f[(k + 1) - 1] \o seqs[k + 1]
    BY <2>1 DEF FlatOf
  <2>3. seqs[k + 1] \in Seq(S) /\ (k # 0 => f[k] \in Seq(S))
    BY <1>2, <2>1
  <2>4. f[k + 1] \in Seq(S)
    BY <2>1, <2>2, <2>3
  <2> QED BY <2>1, <2>4
<1>3. 0 .. n \subseteq T
  <2> HIDE DEF T
  <2> QED BY <1>1, <1>2, Climb
<1> QED BY <1>3

(* The same sequences have the same concatenations. *)
SameUpTo(n, f, g) == \A k \in 1 .. n : f[k] = g[k]

LEMMA FlatSame ==
  ASSUME NEW n \in Nat, NEW seqs, NEW other, SameUpTo(n, seqs, other),
         NEW f, NEW m \in Nat, m >= n, FlatOf(f, seqs, m), NEW g, FlatOf(g, other, n)
  PROVE  SameUpTo(n, f, g)
<1> DEFINE T == {i \in 0 .. n : i # 0 => f[i] = g[i]}
<1>1. 0 \in T
  OBVIOUS
<1>2. ASSUME NEW k \in 0 .. n - 1, k \in T PROVE k + 1 \in T
  <2>1. /\ k + 1 \in 1 .. n /\ k + 1 \in 1 .. m /\ k + 1 \in 0 .. n /\ (k + 1) - 1 = k
        /\ k + 1 # 1 => k # 0
    OBVIOUS
  <2>2. /\ f[k + 1] = IF k + 1 = 1 THEN seqs[k + 1] ELSE f[(k + 1) - 1] \o seqs[k + 1]
        /\ g[k + 1] = IF k + 1 = 1 THEN other[k + 1] ELSE g[(k + 1) - 1] \o other[k + 1]
    BY <2>1 DEF FlatOf
  <2>3. seqs[k + 1] = other[k + 1] /\ (k + 1 # 1 => f[k] = g[k])
    BY <1>2, <2>1 DEF SameUpTo
  <2>4. f[k + 1] = g[k + 1]
    BY <2>1, <2>2, <2>3
  <2> QED BY <2>1, <2>4
<1>3. 0 .. n \subseteq T
  <2> HIDE DEF T
  <2> QED BY <1>1, <1>2, Climb
<1> QED BY <1>3 DEF SameUpTo

LEMMA FlattenEmpty ==
  ASSUME NEW s, Len(s) = 0
  PROVE  FlattenSeq(s) = s
  BY Zenon DEF FlattenSeq

LEMMA FlattenInSeq ==
  ASSUME NEW S, NEW s \in Seq(Seq(S))
  PROVE  FlattenSeq(s) \in Seq(S)
<1>1. CASE Len(s) = 0
  <2>1. s = <<>>
    BY <1>1, EmptySeq, Zenon
  <2>2. FlattenSeq(s) = <<>>
    BY <1>1, <2>1, FlattenEmpty
  <2> QED BY <2>2
<1>2. CASE Len(s) # 0
  <2>1. Len(s) \in Nat \ {0} /\ \A k \in 1 .. Len(s) : s[k] \in Seq(S)
    BY <1>2
  <2>2. PICK n \in Nat \ {0} : n = Len(s)
    BY <2>1
  <2>3. PICK f : FlatOf(f, s, n) /\ FlattenSeq(s) = f[n]
    BY <2>1, <2>2, FlattenSeqIs
  <2>4. \A i \in 1 .. n : f[i] \in Seq(S)
    BY <2>1, <2>2, <2>3, FlatType
  <2>5. n \in 1 .. n
    OBVIOUS
  <2> QED BY <2>3, <2>4, <2>5
<1> QED BY <1>1, <1>2

(* One more sequence at the end. *)
LEMMA FlattenAppend ==
  ASSUME NEW S, NEW s \in Seq(Seq(S)), NEW x \in Seq(S), NEW t, t = Append(s, x)
  PROVE  FlattenSeq(t) = FlattenSeq(s) \o x
<1>1. PICK n \in Nat : n = Len(s)
  OBVIOUS
<1>2. /\ t \in Seq(Seq(S)) /\ Len(t) = n + 1 /\ t[n + 1] = x
      /\ \A k \in 1 .. n : t[k] = s[k]
  BY <1>1
<1>3. PICK f : FlatOf(f, t, n + 1) /\ FlattenSeq(t) = f[n + 1]
  <2>1. Len(t) \in Nat \ {0}
    BY <1>2
  <2> QED BY <1>2, <2>1, FlattenSeqIs
<1>4. f[n + 1] = IF n + 1 = 1 THEN t[n + 1] ELSE f[(n + 1) - 1] \o t[n + 1]
  <2>1. n + 1 \in 1 .. n + 1
    OBVIOUS
  <2> QED BY <1>3, <2>1 DEF FlatOf
<1>5. CASE n = 0
  <2>1. FlattenSeq(t) = x
    BY <1>2, <1>3, <1>4, <1>5
  <2>2. FlattenSeq(s) = <<>>
    <3>1. s = <<>>
      BY <1>1, <1>5, EmptySeq, Zenon
    <3> QED BY <1>1, <1>5, <3>1, FlattenEmpty
  <2> QED BY <2>1, <2>2
<1>6. CASE n # 0
  <2>1. PICK g : FlatOf(g, s, n) /\ FlattenSeq(s) = g[n]
    <3>1. Len(s) \in Nat \ {0}
      BY <1>1, <1>6
    <3> QED BY <1>1, <3>1, FlattenSeqIs
  <2>2. n \in 1 .. n /\ n + 1 \in Nat /\ n + 1 >= n /\ (n + 1) - 1 = n /\ n + 1 # 1
    BY <1>6
  <2>3. SameUpTo(n, f, g)
    <3>1. PICK m \in Nat : m = n + 1 /\ m >= n /\ FlatOf(f, t, m)
      BY <1>3, <2>2
    <3>2. SameUpTo(n, t, s)
      BY <1>2 DEF SameUpTo
    <3> QED BY <2>1, <3>1, <3>2, FlatSame
  <2> QED BY <1>2, <1>3, <1>4, <2>1, <2>2, <2>3 DEF SameUpTo
<1> QED BY <1>5, <1>6

(* The first sequence, and the rest. *)
LEMMA FlattenHead ==
  ASSUME NEW S, NEW s \in Seq(Seq(S)), s # <<>>
  PROVE  FlattenSeq(s) = s[1] \o FlattenSeq(Tail(s))
<1>1. PICK n \in Nat : Len(s) = n + 1
  <2>1. Len(s) \in Nat \ {0}
    OBVIOUS
  <2>2. Len(s) - 1 \in Nat /\ Len(s) = (Len(s) - 1) + 1
    BY <2>1
  <2> QED BY <2>2
<1>2. PICK t : t = Tail(s)
  OBVIOUS
<1>3. /\ t \in Seq(Seq(S)) /\ Len(t) = n /\ s[1] \in Seq(S)
      /\ \A k \in 1 .. n : t[k] = s[k + 1]
      /\ \A k \in 1 .. n : t[k] \in Seq(S)
  BY <1>1, <1>2
<1>4. PICK f : FlatOf(f, s, n + 1) /\ FlattenSeq(s) = f[n + 1]
  <2>1. Len(s) \in Nat \ {0}
    BY <1>1
  <2> QED BY <1>1, <2>1, FlattenSeqIs
<1>5. f[1] = s[1]
  <2>1. 1 \in 1 .. n + 1
    OBVIOUS
  <2> QED BY <1>4, <2>1 DEF FlatOf
<1>6. CASE n = 0
  <2>1. t = <<>>
    BY <1>3, <1>6, EmptySeq, Zenon
  <2>2. FlattenSeq(t) = <<>>
    BY <1>3, <1>6, <2>1, FlattenEmpty
  <2>3. FlattenSeq(s) = s[1]
    BY <1>4, <1>5, <1>6
  <2> QED BY <1>2, <1>3, <2>2, <2>3
<1>7. CASE n # 0
  <2>1. PICK g : FlatOf(g, t, n) /\ FlattenSeq(t) = g[n]
    <3>1. Len(t) \in Nat \ {0}
      BY <1>3, <1>7
    <3> QED BY <1>3, <3>1, FlattenSeqIs
  <2>2. \A i \in 1 .. n : g[i] \in Seq(S)
    BY <1>3, <2>1, FlatType
  <2> DEFINE T == {i \in 0 .. n : i # 0 => f[i + 1] = s[1] \o g[i]}
  <2>3. 0 \in T
    OBVIOUS
  <2>4. ASSUME NEW k \in 0 .. n - 1, k \in T PROVE k + 1 \in T
    <3>1. PICK j \in 1 .. n : j = k + 1 /\ j - 1 = k /\ (j # 1 => k # 0)
      OBVIOUS
    <3>2. /\ j + 1 \in 1 .. n + 1 /\ (j + 1) - 1 = j /\ j + 1 # 1 /\ j \in 0 .. n
          /\ j \in 1 .. n + 1
      OBVIOUS
    <3>3. f[j + 1] = f[j] \o s[j + 1]
      BY <1>4, <3>2 DEF FlatOf
    <3>4. g[j] = IF j = 1 THEN t[j] ELSE g[j - 1] \o t[j]
      BY <2>1 DEF FlatOf
    <3>5. t[j] = s[j + 1] /\ t[j] \in Seq(S)
      BY <1>3
    <3>6. f[j + 1] = s[1] \o g[j]
      <4>1. CASE j = 1
        BY <1>5, <3>3, <3>4, <3>5, <4>1
      <4>2. CASE j # 1
        <5>0. k # 0 => f[k + 1] = s[1] \o g[k]
          BY <2>4
        <5>1. f[j] = s[1] \o g[k] /\ k \in 1 .. n
          <6>1. k # 0 /\ k + 1 = j /\ k \in 0 .. n - 1
            BY <2>4, <3>1, <4>2
          <6>2. k \in 1 .. n
            BY <6>1
          <6>3. f[j] = s[1] \o g[k]
            <7> HIDE DEF T
            <7> QED BY <5>0, <6>1
          <6> QED BY <6>2, <6>3
        <5>2. g[k] \in Seq(S) /\ g[j] = g[k] \o t[j]
          BY <2>2, <3>1, <3>4, <4>2, <5>1
        <5>3. (s[1] \o g[k]) \o t[j] = s[1] \o (g[k] \o t[j])
          <6>1. PICK x \in Seq(S), y \in Seq(S), z \in Seq(S) :
                  x = s[1] /\ y = g[k] /\ z = t[j]
            BY <1>3, <3>5, <5>2
          <6>2. (x \o y) \o z = x \o (y \o z)
            BY ConcatAssociative
          <6> QED BY <6>1, <6>2
        <5> QED BY <3>3, <3>5, <5>1, <5>2, <5>3
      <4> QED BY <4>1, <4>2
    <3> QED BY <3>1, <3>2, <3>6
  <2>5. 0 .. n \subseteq T
    <3> HIDE DEF T
    <3> QED BY <2>3, <2>4, Climb
  <2>6. n \in 0 .. n /\ n \in 1 .. n
    BY <1>7
  <2>7. f[n + 1] = s[1] \o g[n]
    BY <1>7, <2>5, <2>6
  <2> QED BY <1>2, <1>4, <2>1, <2>7
<1> QED BY <1>6, <1>7

=============================================================================
