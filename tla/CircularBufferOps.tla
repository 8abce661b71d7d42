------------------------- MODULE CircularBufferOps -------------------------
(***************************************************************************)
(* The functions of aesd-char-driver/aesd-circular-buffer.c as operators   *)
(* on one record: struct aesd_circular_buffer.  Callers hold the device    *)
(* lock, so each function is one operator.                                 *)
(*                                                                         *)
(* Operators whose name ends in a remark such as NextSlotUnbounded are wrong  *)
(* on purpose: each is the definition below it with one plausible slip,    *)
(* and the properties are tested against it.                               *)
(***************************************************************************)
EXTENDS Integers, Sequences

CONSTANTS
  N,         (* AESDCHAR_MAX_WRITE_OPERATIONS_SUPPORTED, 10 in the code      *)
  UIntMod,   (* number of values of an unsigned int, 2^32 in the code        *)
  NULL       (* the null pointer                                             *)

ASSUME NAssumption == N \in Nat \ {0}
ASSUME UIntAssumption == UIntMod \in Nat \ {0}

Slot == 0 .. N - 1

EmptyEntry == [buffptr |-> NULL, size |-> 0]

(* memset(0): every slot empty, both offsets at slot 0. *)
InitRing ==
  [entry |-> [i \in Slot |-> EmptyEntry],
   in_offs |-> 0, out_offs |-> 0, full |-> FALSE, buff_size |-> 0]

----------------------------------------------------------------------------
NextSlotUnbounded(i) == i + 1

NextSlot(i) == (i + 1) % N

(* add_entry overwrites the oldest entry exactly when the ring is full. *)
OverwritesIgnoringFull(r) == FALSE

Overwrites(r) == r.in_offs = r.out_offs /\ r.full

(* What add_entry returns: the overwritten buffer, for the caller to free. *)
DisplacedNever(r) == NULL

Displaced(r) == IF Overwrites(r) THEN r.entry[r.out_offs].buffptr ELSE NULL

ReleasedSizeForgotten(r) == 0

ReleasedSize(r) == IF Overwrites(r) THEN r.entry[r.out_offs].size ELSE 0

FullNever(in, out) == FALSE

FullAfterAdd(in, out) == in = out

(* aesd_circular_buffer_add_entry *)
AddEntry(r, e) ==
  LET out == IF Overwrites(r) THEN NextSlot(r.out_offs) ELSE r.out_offs
      in  == NextSlot(r.in_offs)
  IN  [entry     |-> [r.entry EXCEPT ![r.in_offs] = e],
       in_offs   |-> in,
       out_offs  |-> out,
       full      |-> FullAfterAdd(in, out),
       buff_size |-> (r.buff_size - ReleasedSize(r)) + e.size]

----------------------------------------------------------------------------
(* The slot visited k steps after out_offs. *)
SlotAt(r, k) == (r.out_offs + k) % N

(* Bytes held by the first k slots visited from `first'. *)
BytesBefore(r, first) ==
  LET sum[k \in 0 .. N] ==
        IF k = 0 THEN 0 ELSE sum[k - 1] + r.entry[(first + k - 1) % N].size
  IN  sum

NotFound == [found |-> FALSE, slot |-> 0, rel |-> 0]

(* The test that stops the scan: char_offset lies at or before the last
   byte of an entry that `before' bytes precede. *)
CoversOneTooMany(before, size, off) == before + size >= off

CoversOneTooFew(before, size, off) == before + size - 1 > off

Covers(before, size, off) == before + size - 1 >= off

(* aesd_circular_buffer_find_entry_offset_for_fpos: the scan gives up at the
   first empty slot. *)
FindEntry(r, off) ==
  LET before == BytesBefore(r, r.out_offs)
      size(k) == r.entry[SlotAt(r, k)].size
      hits == {k \in Slot : /\ \A j \in 0 .. k : size(j) # 0
                            /\ Covers(before[k], size(k), off)}
  IN  IF hits = {} THEN NotFound
      ELSE LET k == CHOOSE i \in hits : \A j \in hits : i <= j
           IN  [found |-> TRUE, slot |-> SlotAt(r, k), rel |-> off - before[k]]

(* The bounds test of ret_offset.  size - 1 is a size_t: for an empty slot
   it is SIZE_MAX and rejects nothing. *)
BeyondEntryOffByOne(size, within) == size # 0 /\ within > size

BeyondEntry(size, within) == size # 0 /\ within > size - 1

(* ret_offset: buf_no is the index of a slot, and the sum is an unsigned int. *)
RetOffset(r, buf_no, within) ==
  IF \/ buf_no > N - 1
     \/ BeyondEntry(r.entry[buf_no].size, within)
     \/ \E i \in 0 .. buf_no - 1 : r.entry[i].size = 0
  THEN -1
  ELSE (BytesBefore(r, 0)[buf_no] + within) % UIntMod

----------------------------------------------------------------------------
(* Number of entries in the ring, and the ring in reading order. *)
Count(r) ==
  IF r.full THEN N
  ELSE IF r.in_offs >= r.out_offs THEN r.in_offs - r.out_offs
  ELSE N - r.out_offs + r.in_offs

Entries(r) == [k \in 1 .. Count(r) |-> r.entry[SlotAt(r, k - 1)]]

LivePtrs(r) == {r.entry[SlotAt(r, k)].buffptr : k \in 0 .. Count(r) - 1}

(* destroy_circular_buffer: the pointers it frees.  It walks from out_offs
   and stops at in_offs or at a null pointer. *)
DestroyFreesAllButOldest(r) ==
  {r.entry[SlotAt(r, k)].buffptr : k \in 1 .. Count(r) - 1}

DestroyFrees(r) ==
  IF r.in_offs = r.out_offs /\ ~r.full THEN {}
  ELSE {r.entry[SlotAt(r, k)].buffptr :
          k \in {i \in Slot : \A j \in 0 .. i :
                   /\ r.entry[SlotAt(r, j)].buffptr # NULL
                   /\ j > 0 => SlotAt(r, j) # r.in_offs}}
============================================================================
