--------------------------- MODULE CircularBuffer ---------------------------
(***************************************************************************)
(* The driver's ring as a state machine: a caller that holds the lock adds *)
(* freshly allocated entries.  The properties say that the ring is a       *)
(* BoundedLog, that a file position finds the byte it names, and what a    *)
(* seek by write command reaches.                                          *)
(***************************************************************************)
EXTENDS CircularBufferOps, SequencesExt

CONSTANTS
  Ptr,       (* addresses kmalloc may return                          *)
  MaxSize    (* bound: the longest entry added                        *)

ASSUME PtrAssumption == NULL \notin Ptr
ASSUME SizeAssumption == MaxSize \in Nat \ {0}

VARIABLES
  ring,      (* struct aesd_circular_buffer                           *)
  returned,  (* what the last aesd_circular_buffer_add_entry returned *)
  given      (* buffers the caller added and was not given back       *)

vars == <<ring, returned, given>>

Entry == [buffptr : Ptr, size : 1 .. MaxSize]

Init == ring = InitRing /\ returned = NULL /\ given = {}

(* The caller adds a fresh buffer and frees the one it is handed. *)
Add(e) ==
  /\ e.buffptr \notin given
  /\ ring' = AddEntry(ring, e)
  /\ returned' = Displaced(ring)
  /\ given' = (given \cup {e.buffptr}) \ {Displaced(ring)}

Next == \E e \in Entry : Add(e)

Spec == Init /\ [][Next]_vars

----------------------------------------------------------------------------
(* Type invariant of struct aesd_circular_buffer and of add_entry's result. *)
TypeOK ==
  /\ ring \in [entry : [Slot -> Entry \cup {EmptyEntry}],
               in_offs : Slot, out_offs : Slot, full : BOOLEAN, buff_size : Int]
  /\ returned \in Ptr \cup {NULL}
  /\ given \subseteq Ptr

(* The flag and the two offsets tell an empty ring from a full one: a ring
   that is not full has only free slots from in_offs up to out_offs, and no
   ring has lost an entry between out_offs and in_offs. *)
RingShape ==
  /\ ring.full => ring.in_offs = ring.out_offs
  /\ \A k \in Slot : ring.entry[SlotAt(ring, k)] = EmptyEntry <=> k >= Count(ring)

(* Every buffer the caller added and was not handed back is in one slot: none
   leaks, and freeing what add_entry returns leaves no slot dangling. *)
SlotsDistinct ==
  \A i, j \in 0 .. Count(ring) - 1 :
    i # j => ring.entry[SlotAt(ring, i)].buffptr # ring.entry[SlotAt(ring, j)].buffptr

BuffersAccounted == SlotsDistinct /\ given = LivePtrs(ring)

(* buff_size, which llseek uses as the size of the device, is the number of
   bytes a reader can reach. *)
BuffSizeExact == ring.buff_size = BytesBefore(ring, 0)[N]

(* The ring implements BoundedLog: the last N entries in order of arrival,
   with every overwritten buffer handed back to the caller. *)
Log == INSTANCE BoundedLog WITH log <- Entries(ring), handed <- returned

LogSpec == Log!Spec

(* All bytes of the ring in reading order, each as <<buffer, index>>. *)
ReadingOrder ==
  FlattenSeq([i \in DOMAIN Entries(ring) |->
               [j \in 1 .. Entries(ring)[i].size |-> <<Entries(ring)[i].buffptr, j - 1>>]])

(* find_entry_offset_for_fpos agrees with the meaning its comment gives a
   position: the index of a byte "if all buffer strings were concatenated
   end to end" (aesd-circular-buffer.c:62), and nothing past the last one. *)
FindLocatesByte ==
  \A off \in 0 .. N * MaxSize + 1 :
    LET f == FindEntry(ring, off)
    IN  IF off < Len(ReadingOrder)
        THEN f.found /\ <<ring.entry[f.slot].buffptr, f.rel>> = ReadingOrder[off + 1]
        ELSE ~f.found

(* The position ret_offset gives for byte `within' of the k-th oldest
   write command is that of that very byte. *)
SeekReaches(k, within) ==
  LET pos == RetOffset(ring, k, within)
      f == FindEntry(ring, pos)
  IN  pos >= 0 /\ f.found /\ f.slot = SlotAt(ring, k) /\ f.rel = within

(* As long as the oldest entry is in slot 0, a seek by write command reaches
   the byte it names, is refused past the end of that command, and is refused
   for a command number two or more past the last one. *)
SeekBeforeWrap ==
  ring.out_offs = 0 =>
    \A k \in 0 .. N, within \in 0 .. UIntMod - 1 :
      /\ k < Count(ring) /\ within < ring.entry[k].size => SeekReaches(k, within)
      /\ k < Count(ring) /\ within >= ring.entry[k].size => RetOffset(ring, k, within) = -1
      /\ k > Count(ring) => RetOffset(ring, k, within) = -1

(* aesd_ioctl.h:26 and :30 with no condition on the ring: write_cmd is "the
   zero referenced write command to seek into", counted like the reader
   counts, from the oldest.  False once the ring has wrapped. *)
SeekToWriteCommand ==
  \A k \in 0 .. Count(ring) - 1 :
    \A within \in 0 .. ring.entry[SlotAt(ring, k)].size - 1 : SeekReaches(k, within)
============================================================================
