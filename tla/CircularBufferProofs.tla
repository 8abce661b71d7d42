------------------------ MODULE CircularBufferProofs ------------------------
(***************************************************************************)
(* Proofs about the driver's ring, for every capacity N and every set of   *)
(* addresses: its type, its shape, that no buffer is held twice, that      *)
(* buff_size is exact, that a file position finds the byte it names, and   *)
(* that the ring implements BoundedLog.                                    *)
(***************************************************************************)
EXTENDS CircularBuffer, CircularBufferOpsProofs

(* What a slot holds. *)
Held == Entry \cup {EmptyEntry}

LEMMA HeldIs ==
  /\ EmptyEntry \in Held /\ Sized(Held) /\ NullIsEmpty(Held)
  /\ \A e \in Entry : e \in Held /\ e # EmptyEntry
<1>1. \A e \in Entry : e.buffptr # NULL /\ e.size \in Nat
  BY PtrAssumption, SizeAssumption DEF Entry
<1> QED
  BY <1>1 DEF Held, Sized, NullIsEmpty, EmptyEntry

----------------------------------------------------------------------------
(* The inductive invariant: the type, and what relates offsets, flag, slots,
   sizes and buffers.  Slots outside the Count(ring) used ones are empty,
   which is what keeps a free slot from being taken for an entry after a wrap. *)
Inv == TypeOK /\ RingShape /\ BuffersAccounted /\ BuffSizeExact

LEMMA InvParts ==
  ASSUME Inv
  PROVE  /\ ring \in Ring(Held) /\ WellShaped(ring) /\ Exact(ring) /\ FullMeets(ring)
         /\ returned \in Ptr \cup {NULL}
         /\ SlotsDistinct /\ given = LivePtrs(ring) /\ given \subseteq Ptr
         /\ Count(ring) \in 0 .. N
         /\ Count(ring) = N <=> ring.full
<1>1. ring \in Ring(Held) /\ WellShaped(ring) /\ FullMeets(ring) /\ Exact(ring)
  BY DEF Inv, TypeOK, RingShape, BuffSizeExact, Ring, WellShaped, FullMeets, Exact, Held
<1> QED
  BY <1>1, CountIs DEF Inv, TypeOK, BuffersAccounted

LEMMA InvInit == Init => Inv
<1> SUFFICES ASSUME Init PROVE Inv
  OBVIOUS
<1>1. /\ ring = InitRing /\ returned = NULL /\ given = {}
  BY DEF Init
<1>2. ring \in Ring(Held) /\ WellShaped(ring) /\ Count(ring) = 0 /\ Exact(ring)
  BY <1>1, HeldIs, EmptyRing, ExactAtStart
<1>3. TypeOK
  BY <1>1, <1>2 DEF TypeOK, Ring, Held
<1>4. RingShape /\ BuffSizeExact
  BY <1>2 DEF RingShape, WellShaped, FullMeets, BuffSizeExact, Exact
<1>5. BuffersAccounted
  BY <1>1, <1>2 DEF BuffersAccounted, SlotsDistinct, LivePtrs
<1> QED
  BY <1>3, <1>4, <1>5 DEF Inv

(* An entry that is in use holds an address. *)
LEMMA UsedEntries ==
  ASSUME Inv, NEW k \in 0 .. Count(ring) - 1
  PROVE  /\ k \in Slot
         /\ ring.entry[SlotAt(ring, k)] \in Entry
         /\ ring.entry[SlotAt(ring, k)].buffptr \in LivePtrs(ring)
<1>1. k \in Slot /\ k < Count(ring) /\ k \in 0 .. N /\ ~(k >= Count(ring))
  BY InvParts, NAssumption DEF Slot
<1>2. ring.entry[SlotAt(ring, k)] \in Held
  BY <1>1, InvParts, SlotAtIs
<1>3. ring.entry[SlotAt(ring, k)] # EmptyEntry
  BY <1>1, InvParts DEF WellShaped
<1> QED
  BY <1>1, <1>2, <1>3 DEF LivePtrs, Held

(* What an add does, in terms of the lemmas about AddEntry. *)
LEMMA AddStep ==
  ASSUME Inv, NEW e \in Entry, Add(e)
  PROVE  /\ ring' = AddEntry(ring, e) /\ returned' = Displaced(ring)
         /\ e.buffptr \notin LivePtrs(ring) /\ e.buffptr \in Ptr
         /\ given' = (given \cup {e.buffptr}) \ {Displaced(ring)}
         /\ Added(Held, ring, e, ring')
         /\ Count(ring') = IF ring.full THEN N ELSE Count(ring) + 1
<1>1. /\ ring' = AddEntry(ring, e) /\ returned' = Displaced(ring)
      /\ e.buffptr \notin LivePtrs(ring) /\ e.buffptr \in Ptr
      /\ given' = (given \cup {e.buffptr}) \ {Displaced(ring)}
  BY InvParts DEF Add, Entry
<1>2. e \in Held /\ Sized(Held) /\ ring \in Ring(Held) /\ FullMeets(ring)
  BY HeldIs, InvParts
<1> QED
  BY <1>1, <1>2, AddIs, CountAfterAdd

(* What it does to the entries in reading order ... *)
LEMMA EntryAfterStep ==
  ASSUME Inv, NEW e \in Entry, Add(e)
  PROVE  Shifted(ring, e, ring')
<1>1. e \in Held /\ Sized(Held) /\ ring \in Ring(Held) /\ FullMeets(ring)
  BY HeldIs, InvParts
<1> QED
  BY <1>1, AddStep, EntryAfterAdd

(* ... and to the buffers: the new one is in, the one returned is out. *)
LEMMA LiveAfterStep ==
  ASSUME Inv, NEW e \in Entry, Add(e)
  PROVE  /\ Distinct(ring', NULL)
         /\ LivePtrs(ring') = (LivePtrs(ring) \cup {e.buffptr}) \ {Displaced(ring)}
<1>1. /\ e \in Held /\ e # EmptyEntry /\ Sized(Held) /\ NullIsEmpty(Held)
      /\ ring \in Ring(Held) /\ WellShaped(ring) /\ ring' = AddEntry(ring, e)
      /\ e.buffptr \notin LivePtrs(ring) /\ e.buffptr # NULL /\ NULL \notin LivePtrs(ring)
  BY HeldIs, InvParts, AddStep, PtrAssumption
<1>2. Distinct(ring, NULL)
  BY InvParts DEF Distinct, SlotsDistinct, PtrAt
<1>3. Addable(Held, NULL, ring, e)
  BY <1>1, <1>2 DEF Addable
<1>4. /\ Distinct(ring', NULL)
      /\ LivePtrs(ring') \ {NULL} = ((LivePtrs(ring) \cup {e.buffptr}) \ {NULL}) \ {Displaced(ring)}
  <2>1. LiveMoved(NULL, ring, e, ring')
    BY <1>1, <1>3, LiveAfterAdd
  <2> QED BY <2>1 DEF LiveMoved
<1>5. NULL \notin LivePtrs(ring')
  <2>1. ring' \in Ring(Held) /\ WellShaped(ring')
    BY <1>1, AddStep, ShapeAfterAdd DEF Added
  <2>2. \A k \in 0 .. Count(ring') - 1 : PtrAt(ring', k) # NULL
    BY <1>1, <2>1, UsedHasBuffer
  <2> QED BY <2>2 DEF LivePtrs, PtrAt
<1> QED
  BY <1>1, <1>4, <1>5

(* Every add keeps the invariant. *)
LEMMA AddKeepsInv ==
  ASSUME Inv, NEW e \in Entry, Add(e)
  PROVE  Inv'
<1>1. e \in Held /\ e # EmptyEntry /\ Sized(Held)
  BY HeldIs
<1>2. /\ ring \in Ring(Held) /\ WellShaped(ring) /\ Exact(ring) /\ ring' = AddEntry(ring, e)
  BY InvParts, AddStep
<1>3. ring' \in Ring(Held) /\ WellShaped(ring') /\ Exact(ring')
  BY <1>1, <1>2, AddStep, ShapeAfterAdd, ExactAfterAdd DEF Added
<1>4. TypeOK'
  <2>1. ring.entry[ring.out_offs] \in Held
    BY <1>2 DEF Ring
  <2>2. returned' \in Ptr \cup {NULL}
    BY <2>1, AddStep DEF Displaced, Held, Entry, EmptyEntry
  <2>3. given' \subseteq Ptr
    BY InvParts, AddStep
  <2> QED BY <1>3, <2>2, <2>3 DEF TypeOK, Ring, Held
<1>5. RingShape' /\ BuffSizeExact'
  BY <1>3 DEF RingShape, WellShaped, FullMeets, BuffSizeExact, Exact
<1>6. SlotsDistinct'
  <2>1. \A k \in 0 .. Count(ring') - 1 : PtrAt(ring', k) # NULL
    BY <1>3, HeldIs, UsedHasBuffer
  <2> QED BY <2>1, LiveAfterStep DEF SlotsDistinct, Distinct, PtrAt
<1>7. given' = LivePtrs(ring')
  BY InvParts, AddStep, LiveAfterStep
<1> QED
  BY <1>4, <1>5, <1>6, <1>7 DEF Inv, BuffersAccounted

(* Inv holds always. *)
THEOREM Invariance == Spec => []Inv
<1>1. Inv /\ [Next]_vars => Inv'
  <2> SUFFICES ASSUME Inv, [Next]_vars PROVE Inv'
    OBVIOUS
  <2>1. ASSUME NEW e \in Entry, Add(e) PROVE Inv'
    BY <2>1, AddKeepsInv
  <2>2. CASE UNCHANGED vars
    BY <2>2 DEF vars, Inv, TypeOK, RingShape, BuffersAccounted, SlotsDistinct, BuffSizeExact
  <2> QED
    BY <2>1, <2>2 DEF Next
<1> QED
  BY InvInit, <1>1, PTL DEF Spec

(* struct aesd_circular_buffer keeps its type: both offsets stay below N. *)
THEOREM TypeCorrect == Spec => []TypeOK
  BY Invariance, PTL DEF Inv

(* The flag and the offsets always tell used slots from free ones. *)
THEOREM ShapeKept == Spec => []RingShape
  BY Invariance, PTL DEF Inv

(* No buffer is ever in two slots, lost, or handed back while a slot points
   to it. *)
THEOREM BuffersKept == Spec => []BuffersAccounted
  BY Invariance, PTL DEF Inv

(* The size that llseek gives the device is the number of bytes its reader
   can reach, after any number of adds and evictions. *)
THEOREM SizeKept == Spec => []BuffSizeExact
  BY Invariance, PTL DEF Inv

----------------------------------------------------------------------------
(* The ring, read in order, is a sequence of Count(ring) entries. *)
EntriesFact ==
  /\ Entries(ring) \in Seq(Entry)
  /\ Len(Entries(ring)) = Count(ring)
  /\ \A k \in 1 .. Count(ring) : Entries(ring)[k] = ring.entry[SlotAt(ring, k - 1)]

LEMMA EntriesAre == Inv => EntriesFact
<1> SUFFICES ASSUME Inv PROVE EntriesFact
  OBVIOUS
<1>1. Count(ring) \in Nat
  BY InvParts, NAssumption
<1>2. ASSUME NEW k \in 1 .. Count(ring)
      PROVE  ring.entry[SlotAt(ring, k - 1)] \in Entry
  BY <1>1, UsedEntries
<1> QED
  BY <1>1, <1>2 DEF EntriesFact, Entries

LEMMA EntriesAfterStep ==
  ASSUME Inv, NEW e \in Entry, Add(e)
  PROVE  EntriesFact /\ EntriesFact'
<1>1. EntriesFact'
  BY AddKeepsInv, EntriesAre, PTL
<1> QED
  BY <1>1, EntriesAre

(* An add that overwrites nothing appends. *)
LEMMA AddAppends ==
  ASSUME Inv, NEW e \in Entry, Add(e), ~ring.full
  PROVE  Log!AddWithRoom(e)
<1> DEFINE old == Entries(ring)
           new == Entries(ring)'
<1>1. PICK c \in 0 .. N : c = Count(ring) /\ c < N /\ Count(ring') = c + 1
  BY InvParts, AddStep, NAssumption
<1>2. /\ old \in Seq(Entry) /\ Len(old) = c
      /\ \A k \in 1 .. c : old[k] = ring.entry[SlotAt(ring, k - 1)]
      /\ new \in Seq(Entry) /\ Len(new) = c + 1
      /\ \A k \in 1 .. c + 1 : new[k] = ring'.entry[SlotAt(ring', k - 1)]
  BY <1>1, EntriesAfterStep DEF EntriesFact
<1>3. ASSUME NEW k \in 1 .. c + 1 PROVE new[k] = IF k = c + 1 THEN e ELSE old[k]
  <2>1. k - 1 \in 0 .. Count(ring') - 1 /\ (k - 1 = Count(ring') - 1 <=> k = c + 1)
    BY <1>1
  <2>2. CASE k = c + 1
    BY <1>2, <2>1, <2>2, EntryAfterStep DEF Shifted
  <2>3. CASE k # c + 1
    <3>1. ring'.entry[SlotAt(ring', k - 1)] = ring.entry[SlotAt(ring, k - 1)] /\ k \in 1 .. c
      BY <1>1, <2>1, <2>3, EntryAfterStep DEF Shifted
    <3> QED BY <1>2, <2>3, <3>1
  <2> QED BY <2>2, <2>3
<1> HIDE DEF old, new
<1>4. new = Append(old, e)
  <2>1. Append(old, e) \in Seq(Entry) /\ Len(Append(old, e)) = c + 1
    BY <1>1, <1>2
  <2>2. \A k \in 1 .. c + 1 : new[k] = Append(old, e)[k]
    BY <1>1, <1>2, <1>3
  <2> QED BY <1>2, <2>1, <2>2
<1>5. returned' = NULL
  BY AddStep, InvParts, DisplacedIs
<1> QED
  BY <1>1, <1>2, <1>4, <1>5 DEF Log!AddWithRoom, old, new

(* An add to a full ring drops the oldest entry and hands its buffer back. *)
LEMMA AddDrops ==
  ASSUME Inv, NEW e \in Entry, Add(e), ring.full
  PROVE  Log!AddDroppingOldest(e)
<1> DEFINE old == Entries(ring)
           new == Entries(ring)'
<1>1. Count(ring) = N /\ Count(ring') = N /\ N \in Nat \ {0}
  BY InvParts, AddStep, NAssumption
<1>2. /\ old \in Seq(Entry) /\ Len(old) = N
      /\ \A k \in 1 .. N : old[k] = ring.entry[SlotAt(ring, k - 1)]
      /\ new \in Seq(Entry) /\ Len(new) = N
      /\ \A k \in 1 .. N : new[k] = ring'.entry[SlotAt(ring', k - 1)]
  BY <1>1, EntriesAfterStep DEF EntriesFact
<1>3. ASSUME NEW k \in 1 .. N PROVE new[k] = IF k = N THEN e ELSE old[k + 1]
  <2>1. k - 1 \in 0 .. Count(ring') - 1 /\ (k - 1 = Count(ring') - 1 <=> k = N)
    BY <1>1
  <2>2. CASE k = N
    BY <1>2, <2>1, <2>2, EntryAfterStep DEF Shifted
  <2>3. CASE k # N
    <3>1. /\ ring'.entry[SlotAt(ring', k - 1)] = ring.entry[SlotAt(ring, (k - 1) + 1)]
          /\ k + 1 \in 1 .. N /\ (k + 1) - 1 = (k - 1) + 1
      BY <1>1, <2>1, <2>3, EntryAfterStep DEF Shifted
    <3> QED BY <1>2, <2>3, <3>1
  <2> QED BY <2>2, <2>3
<1>4. returned' = old[1].buffptr
  <2>1. 1 \in 1 .. N /\ 1 - 1 = 0
    BY <1>1
  <2> QED BY <1>2, <2>1, AddStep, InvParts, DisplacedIs DEF PtrAt
<1> HIDE DEF old, new
<1>5. old # <<>> /\ Head(old) = old[1]
  BY <1>1, <1>2
<1>6. new = Append(Tail(old), e)
  <2>1. Append(Tail(old), e) \in Seq(Entry) /\ Len(Append(Tail(old), e)) = N
    BY <1>1, <1>2
  <2>2. \A k \in 1 .. N : new[k] = Append(Tail(old), e)[k]
    BY <1>1, <1>2, <1>3
  <2> QED BY <1>2, <2>1, <2>2
<1> QED
  BY <1>1, <1>2, <1>4, <1>5, <1>6 DEF Log!AddDroppingOldest, old, new

(* The ring implements BoundedLog: whatever the capacity and however often it
   wraps, it holds the last N entries in order of arrival, and every buffer it
   lets go of is handed to the caller. *)
THEOREM ImplementsLog == Spec => LogSpec
<1>1. Init => Log!Init
  <2> SUFFICES ASSUME Init PROVE Log!Init
    OBVIOUS
  <2>1. Inv /\ Count(ring) = 0 /\ returned = NULL
    BY InvInit, HeldIs, EmptyRing DEF Init
  <2>2. Entries(ring) = <<>>
    BY <2>1, EntriesAre DEF EntriesFact
  <2> QED BY <2>1, <2>2 DEF Log!Init
<1>2. Inv /\ [Next]_vars => [Log!Next]_(Log!vars)
  <2> SUFFICES ASSUME Inv, [Next]_vars PROVE [Log!Next]_(Log!vars)
    OBVIOUS
  <2>1. ASSUME NEW e \in Entry, Add(e) PROVE Log!Next
    BY <2>1, AddAppends, AddDrops DEF Log!Next
  <2>2. CASE UNCHANGED vars
    BY <2>2 DEF vars, Log!vars, Entries, Count, SlotAt
  <2> QED
    BY <2>1, <2>2 DEF Next
<1> QED
  BY <1>1, <1>2, Invariance, PTL DEF Spec, LogSpec, Log!Spec

----------------------------------------------------------------------------
(* The byte a file position names. *)

LEMMA EntriesHaveBytes ==
  ASSUME Inv
  PROVE  \A k \in 0 .. Count(ring) - 1 : ring.entry[SlotAt(ring, k)].size # 0
<1> TAKE k \in 0 .. Count(ring) - 1
<1>1. ring.entry[SlotAt(ring, k)] \in Entry
  BY UsedEntries
<1> QED
  BY <1>1 DEF Entry

LEMMA InvLocatesBytes == Inv => FindLocatesByte
<1> SUFFICES ASSUME Inv PROVE FindLocatesByte
  OBVIOUS
<1> DEFINE seqs == [i \in DOMAIN Entries(ring) |->
                      [j \in 1 .. Entries(ring)[i].size |-> <<Entries(ring)[i].buffptr, j - 1>>]]
           Place == Ptr \X Nat
<1>1. /\ ring \in Ring(Held) /\ WellShaped(ring) /\ Sized(Held)
      /\ \A k \in 0 .. Count(ring) - 1 : ring.entry[SlotAt(ring, k)].size # 0
      /\ Count(ring) \in 0 .. N /\ N \in Nat
  BY InvParts, HeldIs, EntriesHaveBytes, NAssumption
<1>2. /\ Entries(ring) \in Seq(Entry)
      /\ Len(Entries(ring)) = Count(ring)
      /\ \A k \in 1 .. Count(ring) : Entries(ring)[k] = ring.entry[SlotAt(ring, k - 1)]
  BY EntriesAre DEF EntriesFact
<1>3. DOMAIN Entries(ring) = 1 .. Count(ring)
  BY <1>2
<1>4. ASSUME NEW i \in 1 .. Count(ring)
      PROVE  /\ Entries(ring)[i].size \in Nat /\ Entries(ring)[i].buffptr \in Ptr
             /\ seqs[i] \in Seq(Place) /\ Len(seqs[i]) = Entries(ring)[i].size
             /\ \A j \in 1 .. Entries(ring)[i].size :
                  seqs[i][j] = <<Entries(ring)[i].buffptr, j - 1>>
  <2>1. PICK e \in Entry : e = Entries(ring)[i]
    BY <1>2
  <2>2. e.size \in Nat /\ e.buffptr \in Ptr
    BY SizeAssumption DEF Entry
  <2>3. seqs[i] = [j \in 1 .. e.size |-> <<e.buffptr, j - 1>>]
    BY <1>3, <2>1
  <2>4. \A j \in 1 .. e.size : <<e.buffptr, j - 1>> \in Place
    BY <2>2
  <2> HIDE DEF Place, seqs
  <2>5. seqs[i] \in Seq(Place) /\ Len(seqs[i]) = e.size
    BY <2>2, <2>3, <2>4
  <2> QED BY <2>1, <2>2, <2>3, <2>5
<1>5. seqs \in Seq(Seq(Place)) /\ ContentsOf(ring, seqs)
  <2>1. seqs = [i \in 1 .. Count(ring) |-> seqs[i]] /\ Count(ring) \in Nat
    BY <1>1, <1>3
  <2> HIDE DEF seqs, Place
  <2>2. seqs \in Seq(Seq(Place)) /\ Len(seqs) = Count(ring)
    BY <1>4, <2>1
  <2> QED BY <1>2, <1>4, <2>2 DEF ContentsOf
<1>6. ReadingOrder = FlattenSeq(seqs)
  BY DEF ReadingOrder
<1> HIDE DEF seqs, Place
<1>7. EndToEnd(Place, ring, seqs)
  BY <1>1, <1>5, ContentsEndToEnd
<1>8. ASSUME NEW off \in 0 .. N * MaxSize + 1
      PROVE  LET f == FindEntry(ring, off)
             IN  IF off < Len(ReadingOrder)
                 THEN f.found /\ <<ring.entry[f.slot].buffptr, f.rel>> = ReadingOrder[off + 1]
                 ELSE ~f.found
  <2>1. off \in Nat
    BY <1>1, SizeAssumption
  <2>2. FindEntry(ring, off).found <=> off < Len(ReadingOrder)
    BY <1>1, <1>6, <1>7, <2>1, ByteIsFound DEF EndToEnd
  <2>3. ASSUME FindEntry(ring, off).found
        PROVE  <<ring.entry[FindEntry(ring, off).slot].buffptr, FindEntry(ring, off).rel>>
                 = ReadingOrder[off + 1]
    <3> DEFINE rel == FindEntry(ring, off).rel
    <3>1. PICK k \in 0 .. Count(ring) - 1 :
            FindEntry(ring, off).slot = SlotAt(ring, k) /\ ByteIs(ring, off, k, rel)
      BY <1>1, <2>1, <2>3, FoundIsByte
    <3>2. ReadingOrder[off + 1] = seqs[k + 1][rel + 1]
      BY <1>6, <1>7, <3>1 DEF EndToEnd
    <3>3. /\ k + 1 \in 1 .. Count(ring) /\ (k + 1) - 1 = k
          /\ Entries(ring)[k + 1] = ring.entry[SlotAt(ring, k)]
      BY <1>1, <1>2
    <3>4. /\ rel \in 0 .. ring.entry[SlotAt(ring, k)].size - 1
          /\ ring.entry[SlotAt(ring, k)].size \in Nat
      BY <3>1 DEF ByteIs
    <3>5. rel + 1 \in 1 .. Entries(ring)[k + 1].size /\ (rel + 1) - 1 = rel
      BY <3>3, <3>4
    <3> QED BY <1>4, <3>1, <3>2, <3>3, <3>5
  <2> QED BY <2>2, <2>3
<1> QED
  BY <1>8 DEF FindLocatesByte

(* find_entry_offset_for_fpos locates every byte of the device, and nothing
   past the last one, in a ring of any capacity, wrapped or not. *)
THEOREM PositionsLocateBytes == Spec => []FindLocatesByte
  BY Invariance, InvLocatesBytes, PTL

(* No entry is longer than MaxSize, so all of them together are not longer
   than N times that. *)
LEMMA BytesBounded ==
  ASSUME Inv, NEW first \in Slot
  PROVE  BytesBefore(ring, first)[N] <= N * MaxSize
<1>1. PICK b, z : b = BytesBefore(ring, first) /\ z = SizesFrom(ring, first)
  OBVIOUS
<1>2. /\ N \in Nat \ {0} /\ MaxSize \in Nat
      /\ \A k \in 0 .. N : b[k] \in Nat
      /\ b[0] = 0
      /\ \A k \in 1 .. N : b[k] = b[k - 1] + z[k]
  BY <1>1, InvParts, HeldIs, BytesAre, NAssumption, SizeAssumption
<1>3. ASSUME NEW k \in 1 .. N PROVE z[k] \in Nat /\ z[k] <= MaxSize
  <2>1. k - 1 \in 0 .. N /\ first + (k - 1) = first + k - 1
    BY NAssumption DEF Slot
  <2>2. (first + k - 1) % N \in Slot
    BY <2>1, Wrap
  <2>3. ring.entry[(first + k - 1) % N] \in Held
    BY <2>2, InvParts DEF Ring
  <2> QED BY <1>1, <2>3, SizeAssumption DEF SizesFrom, Held, Entry, EmptyEntry
<1> DEFINE T == {k \in 0 .. N : b[k] <= k * MaxSize}
<1>4. 0 \in T
  BY <1>2
<1>5. ASSUME NEW k \in 0 .. N - 1, k \in T PROVE k + 1 \in T
  <2>1. k + 1 \in 1 .. N /\ k + 1 \in 0 .. N /\ (k + 1) - 1 = k /\ k \in 0 .. N
    BY <1>2
  <2>2. PICK x \in Nat, y \in Nat : x = b[k] /\ y = z[k + 1] /\ y <= MaxSize
    BY <1>2, <1>3, <2>1
  <2>3. b[k + 1] = x + y /\ x <= k * MaxSize
    BY <1>2, <1>5, <2>1, <2>2
  <2>4. (k + 1) * MaxSize = k * MaxSize + MaxSize /\ k * MaxSize \in Int
    BY <1>2
  <2>5. b[k + 1] <= (k + 1) * MaxSize
    BY <1>2, <2>2, <2>3, <2>4
  <2> QED BY <2>1, <2>5
<1>6. 0 .. N \subseteq T
  <2> HIDE DEF T
  <2> QED BY <1>2, <1>4, <1>5, Climb
<1> QED
  BY <1>1, <1>2, <1>6

(* With the oldest entry in slot 0, reading order is the order of the slots. *)
LEMMA InvSeeks ==
  ASSUME Inv, N * MaxSize <= UIntMod
  PROVE  SeekBeforeWrap
<1> SUFFICES ASSUME ring.out_offs = 0,
                    NEW k \in 0 .. N, NEW within \in 0 .. UIntMod - 1
             PROVE  /\ k < Count(ring) /\ within < ring.entry[k].size => SeekReaches(k, within)
                    /\ k < Count(ring) /\ within >= ring.entry[k].size
                         => RetOffset(ring, k, within) = -1
                    /\ k > Count(ring) => RetOffset(ring, k, within) = -1
  BY DEF SeekBeforeWrap
<1> DEFINE b == BytesBefore(ring, 0)
<1>1. /\ ring \in Ring(Held) /\ WellShaped(ring) /\ Sized(Held)
      /\ N \in Nat \ {0} /\ 0 \in Slot /\ UIntMod \in Nat \ {0}
  BY InvParts, HeldIs, NAssumption, UIntAssumption DEF Slot
<1>2. PICK c \in 0 .. N : c = Count(ring)
  BY InvParts
<1>3. \A i \in Slot : SlotAt(ring, i) = i
  <2> TAKE i \in Slot
  <2>1. i \in 0 .. N /\ i < N /\ 0 + i = i
    BY <1>1 DEF Slot
  <2> QED BY <1>1, <2>1, SlotAtIs
<1>4. ASSUME NEW i \in 0 .. c - 1
      PROVE  i \in Slot /\ ring.entry[i].size \in Nat /\ ring.entry[i].size # 0
  <2>1. i \in Slot /\ ring.entry[SlotAt(ring, i)] \in Entry
    BY <1>2, UsedEntries
  <2>2. ring.entry[i] \in Entry
    BY <1>3, <2>1
  <2> QED BY <2>1, <2>2, SizeAssumption DEF Entry
<1>5. ASSUME k < c, within < ring.entry[k].size PROVE SeekReaches(k, within)
  <2> DEFINE size == ring.entry[k].size
             pos == b[k] + within
             f == FindEntry(ring, pos)
  <2>1. /\ k \in 0 .. c - 1 /\ k \in Slot /\ size \in Nat /\ size # 0
        /\ within \in Nat /\ within \in 0 .. size - 1 /\ SlotAt(ring, k) = k
    BY <1>2, <1>3, <1>4, <1>5
  <2>2. /\ b[k] \in Nat /\ b[k + 1] \in Nat /\ b[c] \in Nat /\ b[N] \in Nat
        /\ b[k + 1] = b[k] + size /\ b[k + 1] <= b[c] /\ b[c] <= b[N]
    <3>1. /\ k \in 0 .. N /\ k + 1 \in 0 .. N /\ k + 1 \in 1 .. N /\ c \in 0 .. N /\ N \in 0 .. N
          /\ k + 1 <= c /\ c <= N /\ (k + 1) - 1 = k /\ 0 + (k + 1) - 1 = 0 + k
      BY <1>1, <2>1
    <3>2. SizesFrom(ring, 0)[k + 1] = ring.entry[SlotAt(ring, k)].size
      BY <3>1 DEF SizesFrom, SlotAt
    <3> QED BY <1>1, <2>1, <3>1, <3>2, BytesAre
  <2>3. pos \in Nat /\ pos < b[c] /\ pos < UIntMod
    <3>1. b[N] <= N * MaxSize /\ N * MaxSize \in Int
      BY <1>1, BytesBounded, SizeAssumption
    <3> HIDE DEF b, size
    <3> QED BY <1>1, <2>1, <2>2, <3>1
  <2>4. RetOffset(ring, k, within) = pos
    <3>1. /\ ~(k > N - 1) /\ ~BeyondEntry(size, within)
          /\ ~\E i \in 0 .. k - 1 : ring.entry[i].size = 0
      <4>1. \A i \in 0 .. k - 1 : i \in 0 .. c - 1
        BY <2>1
      <4>2. ~\E i \in 0 .. k - 1 : ring.entry[i].size = 0
        BY <1>4, <4>1
      <4> QED BY <1>1, <2>1, <4>2 DEF BeyondEntry, Slot
    <3>2. pos % UIntMod = pos
      <4> HIDE DEF pos
      <4> QED BY <1>1, <2>3
    <3> QED BY <3>1, <3>2 DEF RetOffset
  <2>5. ByteIs(ring, pos, k, within)
    BY <1>2, <2>1, <2>2 DEF ByteIs
  <2> HIDE DEF pos, b, size
  <2>6. f.found
    <3>1. \A i \in 0 .. Count(ring) - 1 : ring.entry[SlotAt(ring, i)].size # 0
      BY EntriesHaveBytes
    <3> QED BY <1>1, <1>2, <2>3, <3>1, ByteIsFound DEF b
  <2>7. PICK j \in 0 .. Count(ring) - 1 : f.slot = SlotAt(ring, j) /\ ByteIs(ring, pos, j, f.rel)
    BY <1>1, <2>3, <2>6, FoundIsByte
  <2>8. j = k /\ f.rel = within
    <3>1. j <= k \/ k <= j
      BY <1>2, <2>1, <2>7
    <3> HIDE DEF f
    <3> QED BY <1>1, <2>5, <2>7, <3>1, ByteAtOnePlace
  <2> QED BY <2>3, <2>4, <2>6, <2>7, <2>8 DEF SeekReaches
<1>6. ASSUME k < c, within >= ring.entry[k].size PROVE RetOffset(ring, k, within) = -1
  <2>1. k \in 0 .. c - 1 /\ within \in Nat
    BY <1>1, <1>2, <1>6
  <2>2. ring.entry[k].size \in Nat /\ ring.entry[k].size # 0
    BY <1>4, <2>1
  <2>3. BeyondEntry(ring.entry[k].size, within)
    BY <1>6, <2>1, <2>2 DEF BeyondEntry
  <2> QED BY <2>3 DEF RetOffset
<1>7. ASSUME k > c PROVE RetOffset(ring, k, within) = -1
  <2>1. CASE k = N
    BY <1>1, <2>1 DEF RetOffset
  <2>2. CASE k # N
    <3>1. c \in Slot /\ c \in 0 .. k - 1 /\ c >= c
      BY <1>1, <1>7, <2>2 DEF Slot
    <3>2. ring.entry[c] = EmptyEntry
      BY <1>1, <1>2, <1>3, <3>1 DEF WellShaped
    <3>3. ring.entry[c].size = 0
      BY <3>2 DEF EmptyEntry
    <3> QED BY <3>1, <3>3 DEF RetOffset
  <2> QED BY <2>1, <2>2
<1> QED
  BY <1>2, <1>5, <1>6, <1>7

(* Before the ring has wrapped, a seek by write command reaches the byte it
   names and is refused past the end.  The sum in ret_offset is an unsigned
   int, which the bytes of a full ring must fit: kmalloc's limit of a few
   megabytes an entry sees to that. *)
THEOREM SeeksBeforeWrap ==
  ASSUME N * MaxSize <= UIntMod
  PROVE  Spec => []SeekBeforeWrap
<1>1. Inv => SeekBeforeWrap
  BY InvSeeks
<1> QED
  BY <1>1, Invariance, PTL
=============================================================================
