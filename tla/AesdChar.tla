------------------------------ MODULE AesdChar ------------------------------
(***************************************************************************)
(* aesd-char-driver/main.c: the file operations of /dev/aesdchar, called   *)
(* by several processes with one open file each.  A call is cut where it   *)
(* waits for the device mutex, at every turn of aesd_write's loop, and     *)
(* between aesd_read's lookup and its copy.  Kernel memory is the function *)
(* mem: its domain is what is allocated.                                   *)
(*                                                                         *)
(* A call that fails before it has changed anything (no memory for the     *)
(* copy buffer, a bad user address, an unknown ioctl, a count of 0) is a   *)
(* step that changes nothing and has no action here.                       *)
(***************************************************************************)
EXTENDS CircularBufferOps, SequencesExt, Functions

CONSTANTS
  Proc,            (* processes                                             *)
  NL,              (* the delimiter                                         *)
  Payload,         (* what a write may pass: sequences of NL and "x"        *)
  ReadSize,        (* what a read may ask for                               *)
  SeekOffset,      (* write_cmd_offsets an ioctl may pass                   *)
  LseekTarget,     (* positions an lseek may ask for                        *)
  Ptr,             (* addresses kmalloc may return                          *)
  ZERO_SIZE_PTR,   (* what kmalloc(0) returns                               *)
  NoOwner,
  Torn,            (* a scan that lost its place to an eviction or a seek   *)
  KmallocFails,    (* may kmalloc fail?                                     *)
  KreallocFails,   (* may krealloc fail?                                    *)
  MaxWrites        (* bound: calls of write                                 *)

ASSUME ProcAssumption == NoOwner \notin Proc /\ NL \notin Proc
ASSUME PtrAssumption == {NULL, ZERO_SIZE_PTR} \cap Ptr = {} /\ NULL # ZERO_SIZE_PTR
ASSUME PayloadAssumption == \A w \in Payload : w \in Seq({NL, "x"}) /\ w # <<>>
ASSUME CountAssumption == ReadSize \subseteq Nat \ {0} /\ SeekOffset \subseteq Nat
ASSUME WritesAssumption == MaxWrites \in Nat

VARIABLES
  loaded,    (* is the module loaded?                                       *)
  ring,      (* aesd_device.circular_buffer                                 *)
  working,   (* aesd_device.working_buffer                                  *)
  lock,      (* aesd_device.lock                                            *)
  mem,       (* allocated address -> contents                               *)
  pc,        (* where each process is, "closed" and "idle" outside a call   *)
  pos,       (* filp->f_pos                                                 *)
  copy,      (* aesd_write: copy_buffer.buffer                              *)
  start,     (* aesd_write: start_ptr                                       *)
  retval,    (* aesd_write: retval, -1 for an error                         *)
  hit,       (* aesd_read: the bytes found                                  *)
  writes,    (* auxiliary: calls of write so far                            *)
  accepted,  (* auxiliary: bytes stored by the calls that returned; of one  *)
             (* that failed, the commands it had completed                 *)
  scan,      (* auxiliary: bytes read since position 0, or Torn             *)
  leaked     (* auxiliary: buffers the module lost when it was reloaded     *)

device == <<ring, working, lock, mem>>
aux == <<writes, accepted, scan, leaked>>
vars == <<loaded, ring, working, lock, mem, pc, pos, copy, start, retval, hit,
          writes, accepted, scan, leaked>>

NoBuffer == [buffer |-> NULL, size |-> 0]

Init ==
  /\ loaded = FALSE
  /\ ring = InitRing /\ working = NoBuffer /\ lock = NoOwner /\ mem = <<>>
  /\ pc = [p \in Proc |-> "closed"]
  /\ pos = [p \in Proc |-> 0]
  /\ copy = [p \in Proc |-> NULL]
  /\ start = [p \in Proc |-> 0]
  /\ retval = [p \in Proc |-> 0]
  /\ hit = [p \in Proc |-> <<>>]
  /\ writes = 0 /\ accepted = <<>> /\ leaked = {}
  /\ scan = [p \in Proc |-> <<>>]

Goto(p, l) == pc' = [pc EXCEPT ![p] = l]

(* Which free address kmalloc picks makes no difference to its callers. *)
Fresh == CHOOSE a \in Ptr : a \notin DOMAIN mem

(* With no address left kmalloc fails. *)
Exhausted == Ptr \subseteq DOMAIN mem

(* Memory m with `bytes' in a buffer that was just allocated at a. *)
Allocated(m, a, bytes) == [x \in DOMAIN m \cup {a} |-> IF x = a THEN bytes ELSE m[x]]

(* kfree of NULL or ZERO_SIZE_PTR does nothing. *)
Freed(m, ptrs) == Restrict(m, DOMAIN m \ ptrs)

WorkingPtr == IF working.size = 0 THEN {} ELSE {working.buffer}

----------------------------------------------------------------------------
(* aesd_init_module: the memset, then cdev_add, which may fail. *)
Load ==
  /\ ~loaded
  /\ loaded' \in BOOLEAN
  /\ ring' = InitRing /\ working' = NoBuffer /\ lock' = NoOwner
  /\ accepted' = <<>>
  /\ leaked' = leaked \cup WorkingPtr
  /\ UNCHANGED <<mem, pc, pos, copy, start, retval, hit, writes, scan>>

(* aesd_cleanup_module.  The kernel keeps the module while a file is open.
   working_buffer is not freed, and the struct keeps its dead pointers. *)
Unload ==
  /\ loaded
  /\ \A p \in Proc : pc[p] = "closed"
  /\ loaded' = FALSE
  /\ mem' = Freed(mem, DestroyFrees(ring))
  /\ UNCHANGED <<ring, working, lock, pc, pos, copy, start, retval, hit, aux>>

(* aesd_open *)
Open(p) ==
  /\ loaded /\ pc[p] = "closed"
  /\ Goto(p, "idle")
  /\ pos' = [pos EXCEPT ![p] = 0]
  /\ scan' = [scan EXCEPT ![p] = <<>>]
  /\ UNCHANGED <<loaded, device, copy, start, retval, hit, writes, accepted, leaked>>

(* aesd_release *)
Release(p) ==
  /\ pc[p] = "idle"
  /\ Goto(p, "closed")
  /\ pos' = [pos EXCEPT ![p] = 0]
  /\ scan' = [scan EXCEPT ![p] = <<>>]
  /\ UNCHANGED <<loaded, device, copy, start, retval, hit, writes, accepted, leaked>>

(* mutex_lock_interruptible takes the mutex ... *)
CanLock(p) == lock = NoOwner

Acquire(p, from, to) ==
  /\ pc[p] = from
  /\ CanLock(p)
  /\ lock' = p
  /\ Goto(p, to)
  /\ UNCHANGED <<loaded, ring, working, mem, pos, copy, start, retval, hit, aux>>

(* ... or is interrupted by a signal, and the call returns an error. *)
Interrupted(p) ==
  /\ pc[p] \in {"wlock", "rlock", "slock"}
  /\ Goto(p, "idle")
  /\ mem' = Freed(mem, {copy[p]})
  /\ copy' = [copy EXCEPT ![p] = NULL]
  /\ UNCHANGED <<loaded, ring, working, lock, pos, start, retval, hit, aux>>

----------------------------------------------------------------------------
(* aesd_write up to the lock.  Process p's data bytes are all p. *)
WriteCopy(p) ==
  /\ pc[p] = "idle"
  /\ writes < MaxWrites /\ ~Exhausted
  /\ writes' = writes + 1
  /\ \E w \in Payload :
       mem' = Allocated(mem, Fresh, [i \in DOMAIN w |-> IF w[i] = NL THEN NL ELSE p])
  /\ copy' = [copy EXCEPT ![p] = Fresh]
  /\ start' = [start EXCEPT ![p] = 0]
  /\ retval' = [retval EXCEPT ![p] = 0]
  /\ Goto(p, "wlock")
  /\ UNCHANGED <<loaded, ring, working, lock, pos, hit, accepted, scan, leaked>>

(* find_delimiter on &copy_buffer.buffer[from]: relative to from, or -1. *)
FindDelimiter(s, from) ==
  LET at == {i \in from + 1 .. Len(s) : s[i] = NL}
  IN  IF at = {} THEN -1 ELSE (CHOOSE i \in at : \A j \in at : i <= j) - from - 1

(* delim_loc is already relative to start_ptr, which is subtracted again. *)
MemToMallocOneShort(s, from, delim) ==
  IF delim = -1 THEN Len(s) - from ELSE delim - from

MemToMalloc(s, from, delim) ==
  IF delim = -1 THEN Len(s) - from ELSE delim - from + 1

(* allocate_memory fails: a negative size always does, a size of 0 never.
   Growing the working buffer needs no new address. *)
MustFail(n) == working.size = 0 /\ (n < 0 \/ (n > 0 /\ Exhausted))
MayFail(n) == MustFail(n) \/ IF working.size = 0 THEN n > 0 /\ KmallocFails ELSE KreallocFails

(* allocate_memory and the memcpy after it: the working buffer and mem with
   `bytes' appended.  krealloc keeps its address here. *)
GrownBuffer(n) ==
  [buffer |-> IF working.size # 0 THEN working.buffer
              ELSE IF n = 0 THEN ZERO_SIZE_PTR ELSE Fresh,
   size |-> working.size + n]

GrownMem(bytes) ==
  IF working.size # 0 THEN [mem EXCEPT ![working.buffer] = @ \o bytes]
  ELSE IF bytes = <<>> THEN mem
  ELSE Allocated(mem, Fresh, bytes)

(* start_ptr of the turn that follows the one that found `delim'. *)
NextStart(from, delim) == from + delim + 1

(* One turn of aesd_write's loop that stores something. *)
WriteChunk(p) ==
  LET s     == mem[copy[p]]
      delim == FindDelimiter(s, start[p])
      n     == MemToMalloc(s, start[p], delim)
      grown == GrownBuffer(n)
      full  == GrownMem(SubSeq(s, start[p] + 1, start[p] + n))
  IN  /\ pc[p] = "wloop"
      /\ ~MustFail(n)
      /\ retval' = [retval EXCEPT ![p] = @ + n]
      /\ \/ /\ delim = -1
            /\ working' = grown /\ mem' = full
            /\ Goto(p, "wunlock")
            /\ UNCHANGED <<ring, start, scan>>
         \/ /\ delim # -1
            /\ ring' = AddEntry(ring, [buffptr |-> grown.buffer, size |-> grown.size])
            /\ mem' = Freed(full, {Displaced(ring)})
            /\ working' = [grown EXCEPT !.size = 0]
            /\ start' = [start EXCEPT ![p] = NextStart(start[p], delim)]
            /\ scan' = IF Overwrites(ring)
                       THEN [q \in Proc |-> IF scan[q] = <<>> THEN <<>> ELSE Torn]
                       ELSE scan
            /\ UNCHANGED pc
      /\ UNCHANGED <<loaded, lock, pos, copy, hit, writes, accepted, leaked>>

(* One turn whose allocate_memory fails.  A failed krealloc frees the working
   buffer and leaves its address and size as they were. *)
WriteFails(p) ==
  LET s     == mem[copy[p]]
      delim == FindDelimiter(s, start[p])
  IN  /\ pc[p] = "wloop"
      /\ MayFail(MemToMalloc(s, start[p], delim))
      /\ mem' = Freed(mem, WorkingPtr)
      /\ retval' = [retval EXCEPT ![p] = -1]
      /\ Goto(p, "wunlock")
      /\ UNCHANGED <<loaded, ring, working, lock, pos, copy, start, hit, aux>>

(* release_lock, which an error jumps to as well ... *)
UnlockedUnlessFailed(p) == IF retval[p] = -1 THEN p ELSE NoOwner

Unlocked(p) == NoOwner

(* ... copy_buff_free, and the return to the caller. *)
WriteReturn(p) ==
  /\ pc[p] = "wunlock"
  /\ lock' = Unlocked(p)
  /\ mem' = Freed(mem, {copy[p]})
  /\ copy' = [copy EXCEPT ![p] = NULL]
  /\ start' = [start EXCEPT ![p] = 0]
  /\ retval' = [retval EXCEPT ![p] = 0]
  /\ accepted' = accepted \o
       SubSeq(mem[copy[p]], 1, IF retval[p] = -1 THEN start[p] ELSE retval[p])
  /\ Goto(p, "idle")
  /\ UNCHANGED <<loaded, ring, working, pos, hit, writes, scan, leaked>>

----------------------------------------------------------------------------
ReadStart(p) ==
  /\ pc[p] = "idle"
  /\ Goto(p, "rlock")
  /\ UNCHANGED <<loaded, device, pos, copy, start, retval, hit, aux>>

(* aesd_read past the end: position 0, return 0. *)
ReadEOF(p) ==
  /\ pc[p] = "rfind"
  /\ ~FindEntry(ring, pos[p]).found
  /\ pos' = [pos EXCEPT ![p] = 0]
  /\ scan' = [scan EXCEPT ![p] = <<>>]
  /\ lock' = NoOwner
  /\ Goto(p, "idle")
  /\ UNCHANGED <<loaded, ring, working, mem, copy, start, retval, hit,
                 writes, accepted, leaked>>

(* bytes_to_copy *)
BytesToCopyIgnoringEntry(size, rel, count) == count

BytesToCopy(size, rel, count) == IF size - rel < count THEN size - rel ELSE count

ReadFind(p) ==
  LET f == FindEntry(ring, pos[p])
      e == ring.entry[f.slot]
  IN  /\ pc[p] = "rfind"
      /\ f.found
      /\ \E count \in ReadSize :
           hit' = [hit EXCEPT ![p] = <<e.buffptr, f.rel, BytesToCopy(e.size, f.rel, count)>>]
      /\ Goto(p, "rcopy")
      /\ UNCHANGED <<loaded, device, pos, copy, start, retval, aux>>

(* copy_to_user succeeds, and the caller's file position moves, ... *)
ReadCopy(p) ==
  LET ptr == hit[p][1]
      rel == hit[p][2]
      n   == hit[p][3]
  IN  /\ pc[p] = "rcopy"
      /\ pos' = [pos EXCEPT ![p] = @ + n]
      /\ scan' = [scan EXCEPT ![p] =
                    IF @ = Torn THEN Torn ELSE @ \o SubSeq(mem[ptr], rel + 1, rel + n)]
      /\ lock' = NoOwner
      /\ hit' = [hit EXCEPT ![p] = <<>>]
      /\ Goto(p, "idle")
      /\ UNCHANGED <<loaded, ring, working, mem, copy, start, retval,
                     writes, accepted, leaked>>

(* ... or fails, and the VFS drops the new position. *)
ReadFaultMoves(p) ==
  /\ pc[p] = "rcopy"
  /\ pos' = [pos EXCEPT ![p] = @ + hit[p][3]]
  /\ lock' = NoOwner
  /\ hit' = [hit EXCEPT ![p] = <<>>]
  /\ Goto(p, "idle")
  /\ UNCHANGED <<loaded, ring, working, mem, copy, start, retval, aux>>

ReadFault(p) ==
  /\ pc[p] = "rcopy"
  /\ lock' = NoOwner
  /\ hit' = [hit EXCEPT ![p] = <<>>]
  /\ Goto(p, "idle")
  /\ UNCHANGED <<loaded, ring, working, mem, pos, copy, start, retval, aux>>

----------------------------------------------------------------------------
(* aesd_ioctl(AESDCHAR_IOCSEEKTO) and aesd_llseek, up to the lock. *)
SeekStart(p) ==
  /\ pc[p] = "idle"
  /\ Goto(p, "slock")
  /\ UNCHANGED <<loaded, device, pos, copy, start, retval, hit, aux>>

(* A seek ends the scan unless it goes back to the start. *)
Moved(p, to) ==
  /\ pos' = [pos EXCEPT ![p] = to]
  /\ scan' = [scan EXCEPT ![p] =
                IF to = 0 THEN <<>> ELSE IF to = pos[p] THEN @ ELSE Torn]

(* aesd_adjust_file_offset *)
SeekToCommand(p) ==
  /\ pc[p] = "sbody"
  /\ \E cmd \in 0 .. N, within \in SeekOffset :
       LET to == RetOffset(ring, cmd, within)
       IN  IF to = -1 THEN UNCHANGED <<pos, scan>> ELSE Moved(p, to)
  /\ lock' = NoOwner
  /\ Goto(p, "idle")
  /\ UNCHANGED <<loaded, ring, working, mem, copy, start, retval, hit,
                 writes, accepted, leaked>>

(* fixed_size_llseek refuses a position outside 0 .. buff_size. *)
SeekRange == 0 .. ring.buff_size

Llseek(p) ==
  /\ pc[p] = "sbody"
  /\ \/ \E to \in SeekRange \cap LseekTarget : Moved(p, to)
     \/ UNCHANGED <<pos, scan>>
  /\ lock' = NoOwner
  /\ Goto(p, "idle")
  /\ UNCHANGED <<loaded, ring, working, mem, copy, start, retval, hit,
                 writes, accepted, leaked>>

----------------------------------------------------------------------------
Locking(p) ==
  \/ Acquire(p, "wlock", "wloop") \/ Acquire(p, "rlock", "rfind")
  \/ Acquire(p, "slock", "sbody")

Holding(p) ==
  \/ WriteChunk(p) \/ WriteFails(p) \/ WriteReturn(p)
  \/ ReadEOF(p) \/ ReadFind(p) \/ ReadCopy(p)
  \/ SeekToCommand(p) \/ Llseek(p)

Calls(p) ==
  \/ Open(p) \/ Release(p) \/ WriteCopy(p) \/ ReadStart(p) \/ SeekStart(p)
  \/ Interrupted(p)

Next ==
  Load \/ Unload \/ \E p \in Proc : Calls(p) \/ Locking(p) \/ Holding(p) \/ ReadFault(p)

Spec == Init /\ [][Next]_vars
----------------------------------------------------------------------------
Content(e) == IF e.size = 0 THEN <<>> ELSE mem[e.buffptr]

(* What a reader of the device sees, oldest command first. *)
Commands == IF loaded THEN [i \in DOMAIN Entries(ring) |-> Content(Entries(ring)[i])]
            ELSE <<>>

Unfinished == IF loaded /\ working.size # 0 THEN mem[working.buffer] ELSE <<>>

Byte == Proc \cup {NL}
Address == Ptr \cup {NULL, ZERO_SIZE_PTR}

(* Type invariant. *)
TypeOK ==
  /\ loaded \in BOOLEAN
  /\ ring \in [entry : [Slot -> [buffptr : Address, size : Nat]],
               in_offs : Slot, out_offs : Slot, full : BOOLEAN, buff_size : Nat]
  /\ working \in [buffer : Address, size : Nat]
  /\ lock \in Proc \cup {NoOwner}
  /\ DOMAIN mem \subseteq Ptr /\ \A a \in DOMAIN mem : mem[a] \in Seq(Byte)
  /\ pc \in [Proc -> {"closed", "idle", "wlock", "wloop", "wunlock", "rlock", "rfind",
                      "rcopy", "slock", "sbody"}]
  /\ pos \in [Proc -> Nat]
  /\ copy \in [Proc -> Ptr \cup {NULL}]
  /\ start \in [Proc -> Nat]
  /\ retval \in [Proc -> Nat \cup {-1}]
  /\ \A p \in Proc : hit[p] = <<>> \/ hit[p] \in Ptr \X Nat \X Nat
  /\ writes \in 0 .. MaxWrites
  /\ accepted \in Seq(Byte)
  /\ \A p \in Proc : scan[p] = Torn \/ scan[p] \in Seq(Byte)
  /\ leaked \subseteq Ptr

(* The mutex is held exactly while one call is between its lock and unlock:
   no path out of a call forgets the unlock, and none unlocks twice. *)
Critical == {"wloop", "wunlock", "rfind", "rcopy", "sbody"}

LockDiscipline == \A p \in Proc : lock = p <=> pc[p] \in Critical

RingPtrs == IF loaded THEN LivePtrs(ring) \ {ZERO_SIZE_PTR} ELSE {}
CopyPtrs == {copy[p] : p \in Proc} \ {NULL}

(* Every allocated buffer has one owner: the ring, the working buffer, or the
   copy buffer of one call.  Nothing points to freed memory, no buffer is
   freed twice, and the only buffer the module loses is an unfinished command
   that it held when it was removed. *)
OneOwner ==
  /\ DOMAIN mem = RingPtrs \cup WorkingPtr \cup CopyPtrs \cup leaked
  /\ RingPtrs \cap (WorkingPtr \cup CopyPtrs \cup leaked) = {}
  /\ WorkingPtr \cap (CopyPtrs \cup leaked) = {}
  /\ CopyPtrs \cap leaked = {}
  /\ \A p, q \in Proc : copy[p] = copy[q] /\ copy[p] # NULL => p = q
  /\ loaded => \A i, j \in 0 .. Count(ring) - 1 :
                 LET e(k) == ring.entry[SlotAt(ring, k)]
                 IN  i # j /\ e(i).buffptr # ZERO_SIZE_PTR => e(i).buffptr # e(j).buffptr

(* Between calls the device holds exactly the last bytes its callers passed, in
   the order of their calls and no call split: the most recent N commands and
   the unfinished one.  Of a write that fails it keeps the completed commands
   only. *)
HoldsRecentCommands ==
  loaded /\ lock = NoOwner =>
    LET newlines == Cardinality({i \in DOMAIN accepted : accepted[i] = NL})
    IN  /\ IsSuffix(FlattenSeq(Commands) \o Unfinished, accepted)
        /\ Len(Commands) = IF newlines < N THEN newlines ELSE N
        /\ \A i \in DOMAIN Unfinished : Unfinished[i] # NL

(* An entry of the ring is one whole command: it has one newline, its last
   byte, and all its bytes are there. *)
EntriesAreCommands ==
  \A k \in 1 .. Count(ring) :
    loaded => LET e == Entries(ring)[k]
                  c == Content(e)
              IN  /\ e.size = Len(c) /\ e.size > 0
                  /\ \A i \in DOMAIN c : c[i] = NL <=> i = Len(c)

(* A reader that started at position 0 and was not overtaken by an eviction
   has read a prefix of the device, with no byte skipped or repeated across
   its calls and the calls of the writers. *)
ScanIsPrefix ==
  \A p \in Proc :
    scan[p] # Torn => /\ pos[p] = Len(scan[p])
                      /\ IsPrefix(scan[p], FlattenSeq(Commands))

(* aesd_read finds nothing only at the end: such a reader has read it all. *)
EOFMeansAll ==
  [][\A p \in Proc : ReadEOF(p) /\ scan[p] # Torn => scan[p] = FlattenSeq(Commands)]_vars

(* What aesd_read copies lies inside a buffer that is still allocated. *)
ReadsInBounds ==
  \A p \in Proc : pc[p] = "rcopy" =>
    /\ hit[p][1] \in DOMAIN mem
    /\ hit[p][3] > 0 /\ hit[p][2] + hit[p][3] <= Len(mem[hit[p][1]])

(* The device is a CommandDevice, whatever the interleaving of its callers
   and whichever allocations fail. *)
Chunk == {c \in UNION {[1 .. n -> Byte] : n \in UNION {1 .. Len(w) : w \in Payload}} :
            \A i \in 1 .. Len(c) - 1 : c[i] # NL}

Device == INSTANCE CommandDevice WITH log <- Commands, partial <- Unfinished

DeviceSpec == Device!Spec
=============================================================================
