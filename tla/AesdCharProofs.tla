--------------------------- MODULE AesdCharProofs ---------------------------
(***************************************************************************)
(* Proofs about the driver, for any number of processes, payloads and      *)
(* addresses: the mutex; who owns each buffer; that the ring's commands    *)
(* are lines and their bytes what the callers passed; that the driver is a *)
(* CommandDevice; and that a reader sees its bytes in order.  DevInv is    *)
(* the inductive invariant of the state, LineInv, ScanInv and LogInv those *)
(* of its contents, each inductive relative to the ones before it.         *)
(***************************************************************************)
EXTENDS AesdChar, CircularBufferOpsProofs, FiniteSetTheorems

Labels == {"closed", "idle", "wlock", "rlock", "slock"} \cup Critical

(* The inductive invariant.  Loading the module sets the mutex to free, which
   is right only because no file is open while the module is not loaded. *)
LockInv ==
  /\ pc \in [Proc -> Labels]
  /\ lock \in Proc \cup {NoOwner}
  /\ ~loaded => \A p \in Proc : pc[p] = "closed"
  /\ LockDiscipline

LEMMA LockInvInit == Init => LockInv
  BY ProcAssumption DEF Init, LockInv, Labels, LockDiscipline, Critical

(* What a call does outside its critical section leaves the mutex alone. *)
LEMMA OutsideKeepsLockInv ==
  ASSUME LockInv, NEW p \in Proc, NEW l \in Labels \ Critical,
         loaded \/ pc[p] # "closed",
         pc[p] \notin Critical, pc' = [pc EXCEPT ![p] = l], UNCHANGED <<lock, loaded>>
  PROVE  LockInv'
<1>1. loaded
  BY DEF LockInv
<1> QED
  BY <1>1 DEF LockInv, LockDiscipline

(* Entering it takes the free mutex ... *)
LEMMA EnteringKeepsLockInv ==
  ASSUME LockInv, NEW p \in Proc, NEW l \in Critical,
         lock = NoOwner, lock' = p, pc[p] # "closed", pc' = [pc EXCEPT ![p] = l],
         UNCHANGED loaded
  PROVE  LockInv'
<1>1. loaded
  BY DEF LockInv
<1> QED
  BY <1>1, ProcAssumption DEF LockInv, LockDiscipline, Labels

(* ... inside, the process stays its owner ... *)
LEMMA InsideKeepsLockInv ==
  ASSUME LockInv, NEW p \in Proc, NEW l \in Critical,
         pc[p] \in Critical, pc' = [pc EXCEPT ![p] = l], UNCHANGED <<lock, loaded>>
  PROVE  LockInv'
<1>1. loaded
  BY DEF LockInv, Critical
<1> QED
  BY <1>1 DEF LockInv, LockDiscipline, Labels

(* ... and leaving it gives the mutex back. *)
LEMMA LeavingKeepsLockInv ==
  ASSUME LockInv, NEW p \in Proc,
         pc[p] \in Critical, lock' = NoOwner, pc' = [pc EXCEPT ![p] = "idle"],
         UNCHANGED loaded
  PROVE  LockInv'
<1>1. loaded /\ lock = p
  BY DEF LockInv, LockDiscipline, Critical
<1>2. "idle" \in Labels \ Critical
  BY DEF Labels, Critical
<1> QED
  BY <1>1, <1>2, ProcAssumption DEF LockInv, LockDiscipline

LEMMA LockInvStep == LockInv /\ [Next]_vars => LockInv'
<1> SUFFICES ASSUME LockInv, [Next]_vars PROVE LockInv'
  OBVIOUS
<1>0. /\ {"idle", "closed", "wlock", "rlock", "slock"} \subseteq Labels \ Critical
      /\ {"wloop", "wunlock", "rfind", "rcopy", "sbody"} = Critical
  BY DEF Labels, Critical
<1>1. CASE Load
  BY <1>1, ProcAssumption DEF Load, LockInv, LockDiscipline, Critical
<1>2. CASE Unload
  BY <1>2 DEF Unload, LockInv, LockDiscipline
<1>3. ASSUME NEW p \in Proc, Calls(p) PROVE LockInv'
  <2>1. CASE Open(p)
    BY <1>0, <2>1, OutsideKeepsLockInv DEF Open, Goto, device
  <2>2. CASE Release(p)
    BY <1>0, <2>2, OutsideKeepsLockInv DEF Release, Goto, device
  <2>3. CASE WriteCopy(p)
    BY <1>0, <2>3, OutsideKeepsLockInv DEF WriteCopy, Goto
  <2>4. CASE ReadStart(p)
    BY <1>0, <2>4, OutsideKeepsLockInv DEF ReadStart, Goto, device
  <2>5. CASE SeekStart(p)
    BY <1>0, <2>5, OutsideKeepsLockInv DEF SeekStart, Goto, device
  <2>6. CASE Interrupted(p)
    BY <1>0, <2>6, OutsideKeepsLockInv DEF Interrupted, Goto
  <2> QED
    BY <1>3, <2>1, <2>2, <2>3, <2>4, <2>5, <2>6 DEF Calls
<1>4. ASSUME NEW p \in Proc, Locking(p) PROVE LockInv'
  BY <1>0, <1>4, EnteringKeepsLockInv DEF Locking, Acquire, CanLock, Goto
<1>5. ASSUME NEW p \in Proc, Holding(p) PROVE LockInv'
  <2>1. CASE WriteChunk(p)
    <3>1. pc[p] = "wloop" /\ UNCHANGED <<lock, loaded>>
      BY <2>1 DEF WriteChunk
    <3>2. pc' = [pc EXCEPT ![p] = "wunlock"] \/ pc' = [pc EXCEPT ![p] = "wloop"]
      <4>1. \/ pc' = [pc EXCEPT ![p] = "wunlock"]
            \/ pc' = pc
        BY <2>1 DEF WriteChunk, Goto
      <4> QED BY <3>1, <4>1 DEF LockInv
    <3> QED BY <1>0, <3>1, <3>2, InsideKeepsLockInv
  <2>2. CASE WriteFails(p)
    BY <1>0, <2>2, InsideKeepsLockInv DEF WriteFails, Goto
  <2>3. CASE ReadFind(p)
    BY <1>0, <2>3, InsideKeepsLockInv DEF ReadFind, Goto, device
  <2>4. CASE WriteReturn(p)
    BY <1>0, <2>4, LeavingKeepsLockInv DEF WriteReturn, Unlocked, Goto
  <2>5. CASE ReadEOF(p)
    BY <1>0, <2>5, LeavingKeepsLockInv DEF ReadEOF, Goto
  <2>6. CASE ReadCopy(p)
    BY <1>0, <2>6, LeavingKeepsLockInv DEF ReadCopy, Goto
  <2>7. CASE SeekToCommand(p)
    BY <1>0, <2>7, LeavingKeepsLockInv DEF SeekToCommand, Goto
  <2>8. CASE Llseek(p)
    BY <1>0, <2>8, LeavingKeepsLockInv DEF Llseek, Goto
  <2> QED
    BY <1>5, <2>1, <2>2, <2>3, <2>4, <2>5, <2>6, <2>7, <2>8 DEF Holding
<1>6. ASSUME NEW p \in Proc, ReadFault(p) PROVE LockInv'
  BY <1>0, <1>6, LeavingKeepsLockInv DEF ReadFault, Goto
<1>7. CASE UNCHANGED vars
  BY <1>7 DEF vars, LockInv, LockDiscipline
<1> QED
  BY <1>1, <1>2, <1>3, <1>4, <1>5, <1>6, <1>7 DEF Next

(* The mutex is held exactly between a call's lock and its unlock. *)
THEOREM LockHeld == Spec => []LockDiscipline
<1>1. Spec => []LockInv
  BY LockInvInit, LockInvStep, PTL DEF Spec
<1> QED
  BY <1>1, PTL DEF LockInv

(* Two calls are never inside their critical sections at once. *)
THEOREM MutualExclusion ==
  Spec => [](\A p, q \in Proc : pc[p] \in Critical /\ pc[q] \in Critical => p = q)
<1>1. LockDiscipline => \A p, q \in Proc : pc[p] \in Critical /\ pc[q] \in Critical => p = q
  BY DEF LockDiscipline
<1> QED
  BY <1>1, LockHeld, PTL
----------------------------------------------------------------------------
(* Who owns which memory.  The operators take the owners as parameters, so
   that they can be said of the states between two statements of a call. *)
Used(w) == IF w.size = 0 THEN {} ELSE {w.buffer}

(* The memory m: live is owned by the ring, w is the working buffer, c are
   the copy buffers and l is what was lost. *)
Held(m, live, w, c, l) ==
  /\ DOMAIN m \subseteq Ptr /\ \A a \in DOMAIN m : m[a] \in Seq(Byte)
  /\ w \in [buffer : Address, size : Nat]
  /\ w.size # 0 => w.buffer \in Ptr /\ Len(m[w.buffer]) = w.size
  /\ DOMAIN m = live \cup Used(w) \cup c \cup l
  /\ live \cap (Used(w) \cup c \cup l) = {}
  /\ Used(w) \cap (c \cup l) = {}
  /\ c \cap l = {}

(* m2 still has what m has at the addresses S. *)
Keeps(m, m2, S) == \A a \in S : a \in DOMAIN m2 /\ m2[a] = m[a]

LEMMA FreedIs ==
  ASSUME NEW m, NEW S
  PROVE  /\ DOMAIN Freed(m, S) = DOMAIN m \ S
         /\ Keeps(m, Freed(m, S), DOMAIN m \ S)
  BY DEF Freed, Restrict, Keeps

(* Freeing buffers of the ring and copy buffers. *)
LEMMA HeldFree ==
  ASSUME NEW m, NEW live, NEW w, NEW c, NEW l, Held(m, live, w, c, l),
         NEW S, S \cap (Used(w) \cup l) = {}
  PROVE  Held(Freed(m, S), live \ S, w, c \ S, l)
<1> DEFINE m2 == Freed(m, S)
<1>1. DOMAIN m2 = DOMAIN m \ S /\ \A a \in DOMAIN m2 : m2[a] = m[a]
  BY FreedIs DEF Keeps
<1> HIDE DEF m2
<1>2. DOMAIN m2 \subseteq Ptr /\ \A a \in DOMAIN m2 : m2[a] \in Seq(Byte)
  BY <1>1 DEF Held
<1>3. w.size # 0 => w.buffer \in Ptr /\ Len(m2[w.buffer]) = w.size
  BY <1>1 DEF Held, Used
<1>4. Held(m2, live \ S, w, c \ S, l)
  BY <1>1, <1>2, <1>3 DEF Held
<1> QED BY <1>4 DEF m2

(* A new copy buffer. *)
LEMMA HeldStore ==
  ASSUME NEW m, NEW live, NEW w, NEW c, NEW l, Held(m, live, w, c, l),
         NEW a \in Ptr \ DOMAIN m, NEW v \in Seq(Byte), NEW m2, m2 = Allocated(m, a, v)
  PROVE  Held(m2, live, w, c \cup {a}, l)
<1>1. /\ DOMAIN m2 = DOMAIN m \cup {a} /\ m2[a] = v
      /\ \A b \in DOMAIN m : m2[b] = m[b]
  BY DEF Allocated
<1>2. DOMAIN m2 \subseteq Ptr /\ \A b \in DOMAIN m2 : m2[b] \in Seq(Byte)
  BY <1>1 DEF Held
<1>3. w.size # 0 => w.buffer \in Ptr /\ Len(m2[w.buffer]) = w.size
  BY <1>1 DEF Held, Used
<1> QED BY <1>1, <1>2, <1>3 DEF Held

(* A new working buffer. *)
LEMMA HeldNew ==
  ASSUME NEW m, NEW live, NEW w, NEW c, NEW l, Held(m, live, w, c, l), w.size = 0,
         NEW a \in Ptr \ DOMAIN m, NEW v \in Seq(Byte), Len(v) # 0,
         NEW m2, m2 = Allocated(m, a, v), NEW w2, w2 = [buffer |-> a, size |-> Len(v)]
  PROVE  Held(m2, live, w2, c, l)
<1>1. /\ DOMAIN m2 = DOMAIN m \cup {a} /\ m2[a] = v
      /\ \A b \in DOMAIN m : m2[b] = m[b]
  BY DEF Allocated
<1>2. DOMAIN m2 \subseteq Ptr /\ \A b \in DOMAIN m2 : m2[b] \in Seq(Byte)
  BY <1>1 DEF Held
<1>3. w2.size = Len(v) /\ w2.buffer = a /\ w2 \in [buffer : Address, size : Nat]
  BY DEF Address
<1>4. w2.size # 0 /\ w2.buffer \in Ptr /\ Len(m2[w2.buffer]) = w2.size
  BY <1>1, <1>3
<1>5. Used(w) = {} /\ Used(w2) = {a}
  BY <1>3 DEF Used
<1> QED BY <1>1, <1>2, <1>3, <1>4, <1>5 DEF Held

(* More bytes at the end of the working buffer. *)
LEMMA HeldAppend ==
  ASSUME NEW m, NEW live, NEW w, NEW c, NEW l, Held(m, live, w, c, l), w.size # 0,
         NEW v \in Seq(Byte), NEW m2, m2 = [m EXCEPT ![w.buffer] = @ \o v],
         NEW w2, w2 = [buffer |-> w.buffer, size |-> w.size + Len(v)]
  PROVE  Held(m2, live, w2, c, l) /\ Keeps(m, m2, live \cup c \cup l)
<1>1. /\ w.buffer \in DOMAIN m /\ DOMAIN m2 = DOMAIN m /\ w.size \in Nat /\ w.buffer \in Ptr
      /\ m[w.buffer] \in Seq(Byte) /\ Len(m[w.buffer]) = w.size
  BY DEF Held, Used
<1>2. /\ m2[w.buffer] = m[w.buffer] \o v
      /\ \A a \in DOMAIN m : a # w.buffer => m2[a] = m[a]
  BY <1>1
<1>3. m2[w.buffer] \in Seq(Byte) /\ Len(m2[w.buffer]) = w.size + Len(v)
  BY <1>1, <1>2
<1>4. DOMAIN m2 \subseteq Ptr /\ \A b \in DOMAIN m2 : m2[b] \in Seq(Byte)
  BY <1>1, <1>2, <1>3 DEF Held
<1>5. Len(v) \in Nat /\ w2.size = w.size + Len(v) /\ w2.buffer = w.buffer
  OBVIOUS
<1>6. w2.size \in Nat /\ w2.size # 0 /\ w2 \in [buffer : Address, size : Nat]
  BY <1>1, <1>5 DEF Held
<1>7. Used(w) = {w.buffer} /\ Used(w2) = {w.buffer}
  BY <1>5, <1>6 DEF Used
<1>8. Held(m2, live, w2, c, l)
  BY <1>1, <1>3, <1>4, <1>5, <1>6, <1>7 DEF Held
<1>9. Keeps(m, m2, live \cup c \cup l)
  BY <1>1, <1>2, <1>7 DEF Held, Keeps
<1> QED BY <1>8, <1>9

(* The working buffer handed over to the ring. *)
LEMMA HeldMove ==
  ASSUME NEW m, NEW live, NEW w, NEW c, NEW l, Held(m, live, w, c, l),
         NEW w2, w2 = [w EXCEPT !.size = 0]
  PROVE  Held(m, live \cup Used(w), w2, c, l)
<1>1. w \in [buffer : Address, size : Nat]
  BY DEF Held
<1>2. w2.size = 0 /\ w2 \in [buffer : Address, size : Nat]
  BY <1>1
<1>3. Used(w2) = {}
  BY <1>2 DEF Used
<1> QED BY <1>2, <1>3 DEF Held

----------------------------------------------------------------------------
(* One turn of aesd_write: n bytes from `from' on, up to the first delimiter. *)
Chunked(s, from, d, n) ==
  /\ d \in Int /\ n \in Int /\ d >= -1
  /\ d = -1 => /\ n = Len(s) - from
               /\ \A i \in from + 1 .. Len(s) : s[i] # NL
  /\ d # -1 => /\ n = d - from + 1 /\ from + d + 1 <= Len(s)
               /\ s[from + d + 1] = NL
               /\ \A i \in from + 1 .. from + d : s[i] # NL

LEMMA ChunkIs ==
  ASSUME NEW s \in Seq(Byte), NEW from \in 0 .. Len(s),
         NEW d, d = FindDelimiter(s, from), NEW n, n = MemToMalloc(s, from, d)
  PROVE  Chunked(s, from, d, n)
<1> DEFINE at == {i \in from + 1 .. Len(s) : s[i] = NL}
           m == CHOOSE i \in at : \A j \in at : i <= j
<1>1. Len(s) \in Nat /\ from \in Nat /\ from <= Len(s)
  OBVIOUS
<1>2. CASE at = {}
  <2>1. d = -1
    BY <1>2 DEF FindDelimiter
  <2>2. \A i \in from + 1 .. Len(s) : s[i] # NL
    BY <1>2
  <2> QED BY <1>1, <2>1, <2>2 DEF Chunked, MemToMalloc
<1>3. CASE at # {}
  <2>1. d = m - from - 1
    BY <1>3 DEF FindDelimiter
  <2>2. m \in at /\ \A j \in at : m <= j
    <3>1. at \in SUBSET Nat
      BY <1>1
    <3> HIDE DEF at
    <3> QED BY <1>3, <3>1, LeastChosen
  <2>3. m \in from + 1 .. Len(s) /\ s[m] = NL
    BY <2>2
  <2> HIDE DEF m
  <2>4. d \in Int /\ d >= 0 /\ from + d + 1 <= Len(s) /\ m = from + d + 1
    BY <1>1, <2>1, <2>3
  <2>5. ASSUME NEW i \in from + 1 .. from + d PROVE s[i] # NL
    <3>1. i \in from + 1 .. Len(s) /\ ~(m <= i)
      BY <1>1, <2>4
    <3> QED BY <2>2, <3>1
  <2> HIDE DEF at
  <2> QED BY <1>1, <2>3, <2>4, <2>5 DEF Chunked, MemToMalloc
<1> QED BY <1>2, <1>3

(* The bytes in the working buffer. *)
TextOf(m, w) == IF w.size = 0 THEN <<>> ELSE m[w.buffer]

(* allocate_memory and memcpy: the bytes v are in the working buffer, and
   nothing else has changed. *)
Grown(m, w, m2, live, w2, c, l, v) ==
  /\ Held(m2, live, w2, c, l) /\ Keeps(m, m2, live \cup c \cup l)
  /\ w2.size = 0 => w2.buffer = ZERO_SIZE_PTR
  /\ TextOf(m2, w2) = TextOf(m, w) \o v

LEMMA HeldGrow ==
  ASSUME NEW live, NEW c, NEW l, Held(mem, live, working, c, l),
         NEW s \in Seq(Byte), NEW from \in Nat, NEW n \in Nat, from + n <= Len(s),
         ~MustFail(n), NEW v, v = SubSeq(s, from + 1, from + n),
         NEW w2, w2 = GrownBuffer(n), NEW m2, m2 = GrownMem(v)
  PROVE  Grown(mem, working, m2, live, w2, c, l, v)
<1>1. v \in Seq(Byte) /\ Len(v) = n
  OBVIOUS
<1>2. CASE working.size # 0
  <2>1. /\ w2 = [buffer |-> working.buffer, size |-> working.size + Len(v)]
        /\ m2 = [mem EXCEPT ![working.buffer] = @ \o v]
    BY <1>1, <1>2 DEF GrownBuffer, GrownMem
  <2>2. Held(m2, live, w2, c, l) /\ Keeps(mem, m2, live \cup c \cup l)
    BY <1>1, <1>2, <2>1, HeldAppend
  <2>3. working.size \in Nat
    BY DEF Held
  <2>4. w2.size # 0
    BY <1>1, <1>2, <2>1, <2>3
  <2>5. TextOf(m2, w2) = TextOf(mem, working) \o v
    <3>1. working.buffer \in DOMAIN mem
      BY <1>2 DEF Held, Used
    <3>2. m2[working.buffer] = mem[working.buffer] \o v
      BY <2>1, <3>1
    <3>3. w2.buffer = working.buffer
      BY <2>1
    <3> QED BY <1>2, <2>4, <3>2, <3>3 DEF TextOf
  <2> QED BY <2>2, <2>4, <2>5 DEF Grown
<1>3. CASE working.size = 0 /\ n = 0
  <2>1. w2 = [buffer |-> ZERO_SIZE_PTR, size |-> 0]
    BY <1>3 DEF GrownBuffer
  <2>2. v = <<>>
    BY <1>1, <1>3, EmptySeq
  <2>3. m2 = mem
    BY <1>3, <2>2 DEF GrownMem
  <2>4. w2.size = 0 /\ w2.buffer = ZERO_SIZE_PTR /\ w2 \in [buffer : Address, size : Nat]
    BY <2>1 DEF Address
  <2>5. Used(w2) = {} /\ Used(working) = {}
    BY <1>3, <2>4 DEF Used
  <2>6. Held(mem, live, w2, c, l)
    BY <2>4, <2>5 DEF Held
  <2>7. Keeps(mem, mem, live \cup c \cup l)
    BY DEF Held, Keeps
  <2>8. TextOf(m2, w2) = TextOf(mem, working) \o v
    BY <1>3, <2>2, <2>4 DEF TextOf
  <2> QED BY <2>3, <2>4, <2>6, <2>7, <2>8 DEF Grown
<1>4. CASE working.size = 0 /\ n # 0
  <2>1. w2 = [buffer |-> Fresh, size |-> Len(v)]
    BY <1>1, <1>4 DEF GrownBuffer
  <2>2. v # <<>>
    BY <1>1, <1>4
  <2>3. m2 = Allocated(mem, Fresh, v)
    BY <1>4, <2>2 DEF GrownMem
  <2>4. ~Exhausted
    BY <1>4 DEF MustFail
  <2>5. Fresh \in Ptr \ DOMAIN mem
    BY <2>4 DEF Fresh, Exhausted
  <2>6. PICK a \in Ptr \ DOMAIN mem : a = Fresh
    BY <2>5
  <2>7. Held(m2, live, w2, c, l)
    BY <1>1, <1>4, <2>1, <2>3, <2>6, HeldNew
  <2>8. Keeps(mem, m2, live \cup c \cup l)
    BY <2>3, <2>6 DEF Held, Keeps, Allocated
  <2>9. w2.size # 0
    BY <1>1, <1>4, <2>1
  <2>10. TextOf(m2, w2) = TextOf(mem, working) \o v
    <3>1. m2[a] = v /\ w2.buffer = a
      BY <2>1, <2>3, <2>6 DEF Allocated
    <3> QED BY <1>1, <1>4, <2>9, <3>1 DEF TextOf
  <2> QED BY <2>7, <2>8, <2>9, <2>10 DEF Grown
<1> QED BY <1>2, <1>3, <1>4

----------------------------------------------------------------------------
(* What is stored in a slot: nothing, an empty command, or the address of one
   with its size. *)
Stored == {EmptyEntry} \cup [buffptr : {ZERO_SIZE_PTR}, size : {0}]
                       \cup [buffptr : Ptr, size : Nat \ {0}]

LEMMA StoredIs ==
  /\ EmptyEntry \in Stored /\ Sized(Stored) /\ NullIsEmpty(Stored)
  /\ \A e \in Stored : e.size # 0 => e.buffptr \in Ptr
  /\ \A e \in Stored : e.buffptr \in Address /\ e.buffptr \in Ptr \cup {NULL, ZERO_SIZE_PTR}
  BY PtrAssumption DEF Stored, EmptyEntry, Sized, NullIsEmpty, Address

RingOK(r) ==
  r \in Ring(Stored) /\ WellShaped(r) /\ Exact(r) /\ Distinct(r, ZERO_SIZE_PTR)

(* The memory the entries of the ring own. *)
Live(r) == LivePtrs(r) \ {ZERO_SIZE_PTR}

LEMMA LiveIsStored ==
  ASSUME NEW r, RingOK(r), NEW k \in 0 .. Count(r) - 1
  PROVE  /\ r.entry[SlotAt(r, k)] \in Stored
         /\ PtrAt(r, k) \in LivePtrs(r) /\ PtrAt(r, k) \in Ptr \cup {ZERO_SIZE_PTR}
         /\ r.entry[SlotAt(r, k)].size # 0 => PtrAt(r, k) \in Live(r)
<1>1. /\ r.entry[SlotAt(r, k)] \in Stored \ {EmptyEntry}
      /\ PtrAt(r, k) # NULL /\ PtrAt(r, k) \in LivePtrs(r)
  BY StoredIs, UsedHasBuffer DEF RingOK
<1> QED
  BY <1>1, StoredIs, PtrAssumption DEF PtrAt, Live

(* The size in an entry is the length of what its buffer holds. *)
Measured(m, r) ==
  \A k \in 0 .. Count(r) - 1 :
    r.entry[SlotAt(r, k)].size # 0 => Len(m[PtrAt(r, k)]) = r.entry[SlotAt(r, k)].size

LEMMA MeasuredKept ==
  ASSUME NEW m, NEW m2, NEW r, RingOK(r), Measured(m, r), Keeps(m, m2, Live(r))
  PROVE  Measured(m2, r)
<1> SUFFICES ASSUME NEW k \in 0 .. Count(r) - 1, r.entry[SlotAt(r, k)].size # 0
             PROVE  Len(m2[PtrAt(r, k)]) = r.entry[SlotAt(r, k)].size
  BY DEF Measured
<1>1. PtrAt(r, k) \in Live(r)
  BY LiveIsStored
<1> QED BY <1>1 DEF Measured, Keeps

(* The commands in the ring, oldest first. *)
ContentOf(m, e) == IF e.size = 0 THEN <<>> ELSE m[e.buffptr]
CommandsOf(m, r) == [k \in 1 .. Count(r) |-> ContentOf(m, r.entry[SlotAt(r, k - 1)])]

LEMMA CommandsKept ==
  ASSUME NEW m, NEW m2, NEW r, RingOK(r), Keeps(m, m2, Live(r))
  PROVE  CommandsOf(m2, r) = CommandsOf(m, r)
<1> SUFFICES ASSUME NEW k \in 1 .. Count(r)
             PROVE  ContentOf(m2, r.entry[SlotAt(r, k - 1)]) = ContentOf(m, r.entry[SlotAt(r, k - 1)])
  BY DEF CommandsOf
<1>1. Count(r) \in Nat
  BY CountIs DEF RingOK, WellShaped
<1>2. k - 1 \in 0 .. Count(r) - 1
  BY <1>1
<1>3. r.entry[SlotAt(r, k - 1)].size # 0 => PtrAt(r, k - 1) \in Live(r)
  BY <1>2, LiveIsStored
<1> QED BY <1>3 DEF ContentOf, Keeps, PtrAt

LEMMA CommandsType ==
  ASSUME NEW m, NEW r, RingOK(r), NEW w, NEW c, NEW l, Held(m, Live(r), w, c, l)
  PROVE  /\ CommandsOf(m, r) \in Seq(Seq(Byte)) /\ Len(CommandsOf(m, r)) = Count(r)
         /\ Count(r) \in 0 .. N /\ (Count(r) = N <=> r.full)
<1>1. Count(r) \in 0 .. N /\ (Count(r) = N <=> r.full) /\ Count(r) \in Nat
  BY CountIs, NAssumption DEF RingOK, WellShaped
<1>2. ASSUME NEW k \in 1 .. Count(r)
      PROVE  ContentOf(m, r.entry[SlotAt(r, k - 1)]) \in Seq(Byte)
  <2>1. k - 1 \in 0 .. Count(r) - 1
    BY <1>1
  <2>2. r.entry[SlotAt(r, k - 1)].size # 0 => PtrAt(r, k - 1) \in Live(r)
    BY <2>1, LiveIsStored
  <2>3. r.entry[SlotAt(r, k - 1)].size # 0 => m[PtrAt(r, k - 1)] \in Seq(Byte)
    BY <2>2 DEF Held
  <2> QED BY <2>3 DEF ContentOf, PtrAt
<1>3. PICK n \in Nat : n = Count(r)
  BY <1>1
<1>4. CommandsOf(m, r) \in [1 .. n -> Seq(Byte)]
  BY <1>2, <1>3 DEF CommandsOf
<1>5. CommandsOf(m, r) \in Seq(Seq(Byte)) /\ Len(CommandsOf(m, r)) = n
  BY <1>4
<1> QED BY <1>1, <1>3, <1>5

(* The log with one more command, of which it keeps N. *)
Logged(log, x) == Append(IF Len(log) = N THEN Tail(log) ELSE log, x)

(* A full line goes into the ring, and the buffer it displaces is freed. *)
Handed(m, r, w, c, l, m2, r2, w2) ==
  /\ CommandsOf(m2, r2) = Logged(CommandsOf(m, r), TextOf(m, w))
  /\ RingOK(r2) /\ Held(m2, Live(r2), w2, c, l) /\ Measured(m2, r2)
  /\ Keeps(m, m2, c) /\ w2.size = 0

LEMMA HandOver ==
  ASSUME NEW m, NEW r, NEW w, NEW c, NEW l, RingOK(r), Held(m, Live(r), w, c, l),
         Measured(m, r), w.size = 0 => w.buffer = ZERO_SIZE_PTR,
         NEW r2, r2 = AddEntry(r, [buffptr |-> w.buffer, size |-> w.size]),
         NEW m2, m2 = Freed(m, {Displaced(r)}), NEW w2, w2 = [w EXCEPT !.size = 0]
  PROVE  Handed(m, r, w, c, l, m2, r2, w2)
<1>1. PICK e : e = [buffptr |-> w.buffer, size |-> w.size]
  OBVIOUS
<1>2. PICK z : z = ZERO_SIZE_PTR
  OBVIOUS
<1>3. PICK d : d = Displaced(r)
  OBVIOUS
<1>4. /\ e.buffptr = w.buffer /\ e.size = w.size /\ w.size \in Nat
      /\ r2 = AddEntry(r, e) /\ m2 = Freed(m, {d})
  BY <1>1, <1>3 DEF Held
<1>5. e \in Stored /\ e # EmptyEntry
  <2>1. w.size # 0 => e \in [buffptr : Ptr, size : Nat \ {0}]
    BY <1>1 DEF Held
  <2>2. w.size = 0 => e \in [buffptr : {ZERO_SIZE_PTR}, size : {0}]
    BY <1>1
  <2>3. e.buffptr # NULL
    BY <1>4, PtrAssumption DEF Held
  <2> QED BY <2>1, <2>2, <2>3 DEF Stored, EmptyEntry
<1>6. e.buffptr # z => e.buffptr \notin LivePtrs(r)
  BY <1>2, <1>4, PtrAssumption DEF Held, Used, Live
<1>7. /\ r \in Ring(Stored) /\ WellShaped(r) /\ Exact(r) /\ Distinct(r, z) /\ FullMeets(r)
      /\ Sized(Stored) /\ NullIsEmpty(Stored) /\ EmptyEntry \in Stored
  BY <1>2, StoredIs DEF RingOK, WellShaped
<1>8. Addable(Stored, z, r, e)
  BY <1>5, <1>6, <1>7 DEF Addable
<1>9. /\ Distinct(r2, z)
      /\ LivePtrs(r2) \ {z} = ((LivePtrs(r) \cup {e.buffptr}) \ {z}) \ {d}
  <2>1. r2 = AddEntry(r, e)
    BY <1>4
  <2>2. LiveMoved(z, r, e, r2)
    BY <1>8, <2>1, LiveAfterAdd
  <2> QED BY <1>3, <2>2 DEF LiveMoved
<1>10. Added(Stored, r, e, r2) /\ WellShaped(r2) /\ Exact(r2) /\ Shifted(r, e, r2)
  BY <1>4, <1>5, <1>7, AddIs, ShapeAfterAdd, ExactAfterAdd, EntryAfterAdd
<1>11. RingOK(r2)
  BY <1>2, <1>9, <1>10 DEF RingOK, Added
<1>12. Live(r2) = (Live(r) \cup Used(w)) \ {d}
  <2>1. Used(w) = {e.buffptr} \ {z}
    BY <1>2, <1>4, PtrAssumption DEF Held, Used
  <2> QED BY <1>2, <1>9, <2>1 DEF Live
<1>13. d \notin c /\ d \notin l
  <2>1. d = NULL \/ d \in LivePtrs(r)
    <3>1. d = IF r.full THEN PtrAt(r, 0) ELSE NULL
      BY <1>3, <1>7, DisplacedIs
    <3>2. r.full => 0 \in 0 .. Count(r) - 1
      BY <1>7, CountIs, NAssumption
    <3> QED BY <3>1, <3>2, LiveIsStored
  <2> QED BY <2>1, PtrAssumption DEF Held, Live
<1>14. Used(w2) = {} /\ w2.size = 0
  <2>1. w \in [buffer : Address, size : Nat]
    BY DEF Held
  <2> QED BY <2>1 DEF Used
<1>15. Held(m2, Live(r2), w2, c, l)
  <2>1. Held(m, Live(r) \cup Used(w), w2, c, l)
    BY HeldMove
  <2>2. Held(Freed(m, {d}), (Live(r) \cup Used(w)) \ {d}, w2, c \ {d}, l)
    BY <1>13, <1>14, <2>1, HeldFree
  <2>3. c \ {d} = c
    BY <1>13
  <2> QED BY <1>4, <1>12, <2>2, <2>3
<1>16. Keeps(m, m2, (Live(r) \cup Used(w) \cup c) \ {d})
  <2>1. Keeps(m, m2, DOMAIN m \ {d})
    BY <1>4, FreedIs
  <2> QED BY <2>1 DEF Keeps, Held
<1>17. Measured(m2, r2)
  <2> SUFFICES ASSUME NEW k \in 0 .. Count(r2) - 1, r2.entry[SlotAt(r2, k)].size # 0
               PROVE  Len(m2[PtrAt(r2, k)]) = r2.entry[SlotAt(r2, k)].size
    BY DEF Measured
  <2>1. PtrAt(r2, k) \in Live(r2)
    BY <1>11, LiveIsStored
  <2>2. m2[PtrAt(r2, k)] = m[PtrAt(r2, k)]
    BY <1>12, <1>16, <2>1 DEF Keeps
  <2>3. CASE r2.entry[SlotAt(r2, k)] = e
    BY <1>4, <2>2, <2>3 DEF PtrAt, Held
  <2>4. CASE r2.entry[SlotAt(r2, k)] # e
    <3>1. PICK j \in 0 .. Count(r) - 1 : r2.entry[SlotAt(r2, k)] = r.entry[SlotAt(r, j)]
      <4>1. (IF r.full THEN k + 1 ELSE k) \in 0 .. Count(r) - 1
        BY <1>10, <2>4 DEF Shifted
      <4> QED BY <1>10, <2>4, <4>1 DEF Shifted
    <3> QED BY <2>2, <3>1 DEF Measured, PtrAt
  <2> QED BY <2>3, <2>4
<1>18. Keeps(m, m2, c)
  BY <1>13, <1>16 DEF Keeps
<1>19. CommandsOf(m2, r2) = Logged(CommandsOf(m, r), TextOf(m, w))
  <2>1. PICK log, log2 : log = CommandsOf(m, r) /\ log2 = CommandsOf(m2, r2)
    OBVIOUS
  <2>2. /\ log \in Seq(Seq(Byte)) /\ Len(log) = Count(r)
        /\ Count(r) \in 0 .. N /\ (Count(r) = N <=> r.full)
        /\ log2 \in Seq(Seq(Byte)) /\ Len(log2) = Count(r2)
    BY <1>11, <1>15, <2>1, CommandsType
  <2>3. PICK n \in Nat : n + 1 = Count(r2) /\ n = (IF r.full THEN N - 1 ELSE Count(r))
    <3>1. Count(r2) = IF r.full THEN N ELSE Count(r) + 1
      BY <1>4, <1>5, <1>7, CountAfterAdd
    <3> QED BY <2>2, <3>1, NAssumption
  <2>4. \A k \in 1 .. n + 1 : log2[k] = ContentOf(m2, r2.entry[SlotAt(r2, k - 1)])
    BY <2>1, <2>3 DEF CommandsOf
  <2>5. log2[n + 1] = TextOf(m, w)
    <3>1. (n + 1) - 1 \in 0 .. Count(r2) - 1 /\ (n + 1) - 1 = Count(r2) - 1 /\ n + 1 \in 1 .. n + 1
      BY <2>3
    <3>2. r2.entry[SlotAt(r2, (n + 1) - 1)] = e
      BY <1>10, <3>1 DEF Shifted
    <3>3. e.size # 0 => e.buffptr \in Live(r2)
      BY <1>11, <3>1, <3>2, LiveIsStored DEF PtrAt
    <3>4. ContentOf(m2, e) = TextOf(m, w)
      BY <1>4, <1>12, <1>16, <3>3 DEF ContentOf, TextOf, Keeps
    <3> QED BY <2>4, <3>1, <3>2, <3>4
  <2>6. ASSUME NEW k \in 1 .. n PROVE log2[k] = log[IF r.full THEN k + 1 ELSE k]
    <3>1. PICK j : j = IF r.full THEN (k - 1) + 1 ELSE k - 1
      OBVIOUS
    <3>2. k \in 1 .. n + 1 /\ k - 1 \in 0 .. Count(r2) - 1 /\ k - 1 # Count(r2) - 1
      BY <2>3
    <3>3. j \in 0 .. Count(r) - 1 /\ r2.entry[SlotAt(r2, k - 1)] = r.entry[SlotAt(r, j)]
      BY <1>10, <3>1, <3>2 DEF Shifted
    <3>4. log2[k] = ContentOf(m2, r.entry[SlotAt(r, j)])
      BY <2>4, <3>2, <3>3
    <3>5. r.entry[SlotAt(r, j)].size # 0 => PtrAt(r2, k - 1) \in Live(r2)
      BY <1>11, <3>2, <3>3, LiveIsStored
    <3>6. ContentOf(m2, r.entry[SlotAt(r, j)]) = ContentOf(m, r.entry[SlotAt(r, j)])
      BY <1>12, <1>16, <3>3, <3>5 DEF ContentOf, Keeps, PtrAt
    <3>7. j + 1 \in 1 .. Count(r) /\ (j + 1) - 1 = j /\ j + 1 = (IF r.full THEN k + 1 ELSE k)
      BY <2>2, <3>1, <3>3
    <3>8. log[j + 1] = ContentOf(m, r.entry[SlotAt(r, j)])
      BY <2>1, <3>7 DEF CommandsOf
    <3> QED BY <3>4, <3>6, <3>7, <3>8
  <2>7. PICK x \in Seq(Byte) : x = TextOf(m, w)
    BY <2>2, <2>3, <2>5
  <2>8. CASE r.full
    <3>1. /\ Len(log) = n + 1 /\ Len(log) = N /\ Tail(log) \in Seq(Seq(Byte))
          /\ Len(Tail(log)) = n /\ \A k \in 1 .. n : Tail(log)[k] = log[k + 1]
      BY <2>2, <2>3, <2>8
    <3>2. log2 = Append(Tail(log), x)
      <4>1. /\ Append(Tail(log), x) \in Seq(Seq(Byte)) /\ Len(Append(Tail(log), x)) = n + 1
            /\ \A k \in 1 .. n : Append(Tail(log), x)[k] = log[k + 1]
            /\ Append(Tail(log), x)[n + 1] = x
        BY <3>1
      <4>2. \A k \in 1 .. n + 1 : log2[k] = Append(Tail(log), x)[k]
        BY <2>5, <2>6, <2>7, <2>8, <4>1
      <4> QED BY <2>2, <2>3, <4>1, <4>2
    <3> QED BY <2>1, <2>7, <3>1, <3>2 DEF Logged
  <2>9. CASE ~r.full
    <3>1. Len(log) = n /\ Len(log) # N
      BY <2>2, <2>3, <2>9
    <3>2. log2 = Append(log, x)
      <4>1. /\ Append(log, x) \in Seq(Seq(Byte)) /\ Len(Append(log, x)) = n + 1
            /\ \A k \in 1 .. n : Append(log, x)[k] = log[k]
            /\ Append(log, x)[n + 1] = x
        BY <2>2, <3>1
      <4>2. \A k \in 1 .. n + 1 : log2[k] = Append(log, x)[k]
        BY <2>5, <2>6, <2>7, <2>9, <4>1
      <4> QED BY <2>2, <2>3, <4>1, <4>2
    <3> QED BY <2>1, <2>7, <3>1, <3>2 DEF Logged
  <2> QED BY <2>8, <2>9
<1> QED BY <1>11, <1>14, <1>15, <1>17, <1>18, <1>19 DEF Handed

----------------------------------------------------------------------------
(* The inductive invariant, for a driver whose krealloc does not fail: see
   WriteFails for what the code does when it fails. *)
DeviceOK ==
  /\ loaded \in BOOLEAN /\ RingOK(ring)
  /\ Held(mem, RingPtrs, working, CopyPtrs, leaked)
  /\ loaded => Measured(mem, ring)
  /\ writes \in 0 .. MaxWrites /\ accepted \in Seq(Byte)

Found == {<<>>} \cup (Ptr \X Nat \X Nat)
Scanned == {Torn} \cup Seq(Byte)

CallersOK ==
  /\ copy \in [Proc -> Ptr \cup {NULL}]
  /\ \A p, q \in Proc : copy[p] = copy[q] /\ copy[p] # NULL => p = q
  /\ start \in [Proc -> Nat] /\ retval \in [Proc -> Nat \cup {-1}]
  /\ hit \in [Proc -> Found] /\ pos \in [Proc -> Nat] /\ scan \in [Proc -> Scanned]

(* A call of write, by where it is.  In its loop it has stored no more bytes
   than it has passed, and after its first turn the working buffer is empty. *)
Writing == {"wlock", "wloop", "wunlock"}

WriteOK(p) ==
  /\ copy[p] # NULL <=> pc[p] \in Writing
  /\ pc[p] \in Writing => start[p] <= Len(mem[copy[p]]) /\ retval[p] <= Len(mem[copy[p]])
  /\ pc[p] \in {"wlock", "wloop"} => retval[p] \in 0 .. start[p]
  /\ pc[p] = "wlock" => start[p] = 0
  /\ pc[p] = "wloop" /\ start[p] # 0 => working.size = 0

(* A call of read that is about to copy points into an entry of the ring. *)
ReadOK(p) ==
  IF pc[p] = "rcopy"
  THEN /\ hit[p] \in Ptr \X Nat \X Nat
       /\ hit[p][1] \in RingPtrs /\ hit[p][3] > 0
       /\ hit[p][2] + hit[p][3] <= Len(mem[hit[p][1]])
  ELSE hit[p] = <<>>

DevInv ==
  LockInv /\ DeviceOK /\ CallersOK /\ \A p \in Proc : WriteOK(p) /\ ReadOK(p)

LEMMA DevInvInit == Init => DevInv
<1> SUFFICES ASSUME Init PROVE DevInv
  OBVIOUS
<1>1. LockInv
  BY LockInvInit
<1>2. RingOK(ring)
  <2>1. InitRing \in Ring(Stored) /\ WellShaped(InitRing) /\ Count(InitRing) = 0
    BY StoredIs, EmptyRing
  <2>2. Exact(InitRing)
    BY StoredIs, ExactAtStart
  <2>3. Distinct(InitRing, ZERO_SIZE_PTR)
    BY <2>1 DEF Distinct
  <2> QED BY <2>1, <2>2, <2>3 DEF Init, RingOK
<1>3. Held(mem, RingPtrs, working, CopyPtrs, leaked)
  <2>1. /\ DOMAIN mem = {} /\ RingPtrs = {} /\ CopyPtrs = {} /\ leaked = {}
    BY DEF Init, RingPtrs, CopyPtrs
  <2>2. working.size = 0 /\ working \in [buffer : Address, size : Nat]
    BY DEF Init, NoBuffer, Address
  <2> QED BY <2>1, <2>2 DEF Held, Used
<1>4. DeviceOK
  <2>1. loaded = FALSE /\ writes = 0 /\ accepted = <<>>
    BY DEF Init
  <2>2. writes \in 0 .. MaxWrites
    BY <2>1, WritesAssumption
  <2>3. accepted \in Seq(Byte)
    BY <2>1
  <2> QED BY <1>2, <1>3, <2>1, <2>2, <2>3 DEF DeviceOK
<1>5. CallersOK
  BY DEF Init, CallersOK, Found, Scanned
<1>6. \A p \in Proc : WriteOK(p) /\ ReadOK(p)
  BY DEF Init, WriteOK, ReadOK, Writing
<1> QED BY <1>1, <1>4, <1>5, <1>6 DEF DevInv

(* What the other processes see of a step of p. *)
OthersSame(p) ==
  \A q \in Proc \ {p} : /\ pc'[q] = pc[q] /\ copy'[q] = copy[q] /\ start'[q] = start[q]
                        /\ retval'[q] = retval[q] /\ hit'[q] = hit[q]

LEMMA OthersKept ==
  ASSUME DevInv, NEW p \in Proc, OthersSame(p),
         Keeps(mem, mem', CopyPtrs \ {copy[p]}),
         \/ pc[p] \in Critical
         \/ UNCHANGED <<working, RingPtrs>> /\ Keeps(mem, mem', RingPtrs),
         NEW q \in Proc \ {p}
  PROVE  WriteOK(q)' /\ ReadOK(q)'
<1>1. /\ pc'[q] = pc[q] /\ copy'[q] = copy[q] /\ start'[q] = start[q]
      /\ retval'[q] = retval[q] /\ hit'[q] = hit[q]
      /\ WriteOK(q) /\ ReadOK(q) /\ CallersOK /\ LockInv
  BY DEF OthersSame, DevInv
<1>2. copy[q] # NULL => mem'[copy[q]] = mem[copy[q]]
  BY <1>1 DEF CallersOK, CopyPtrs, Keeps
<1>3. CASE pc[p] \in Critical
  <2>1. pc[q] \notin Critical
    BY <1>1, <1>3 DEF LockInv, LockDiscipline
  <2> QED BY <1>1, <1>2, <2>1 DEF WriteOK, ReadOK, Writing, Critical
<1>4. CASE UNCHANGED <<working, RingPtrs>> /\ Keeps(mem, mem', RingPtrs)
  <2>1. WriteOK(q)'
    BY <1>1, <1>2, <1>4 DEF WriteOK, Writing
  <2>2. ReadOK(q)'
    BY <1>1, <1>4 DEF ReadOK, Keeps
  <2> QED BY <2>1, <2>2
<1> QED BY <1>3, <1>4

(* A step that leaves the device, the memory and the copy buffers alone. *)
Quiet == UNCHANGED <<loaded, ring, working, mem, copy, start, retval, writes, accepted, leaked>>

LEMMA QuietKeeps ==
  ASSUME DevInv, Quiet, LockInv', NEW p \in Proc, NEW l, pc' = [pc EXCEPT ![p] = l],
         hit' \in [Proc -> Found], \A q \in Proc \ {p} : hit'[q] = hit[q],
         pos' \in [Proc -> Nat], scan' \in [Proc -> Scanned], WriteOK(p)', ReadOK(p)'
  PROVE  DevInv'
<1>1. RingPtrs' = RingPtrs /\ CopyPtrs' = CopyPtrs
  BY DEF Quiet, RingPtrs, CopyPtrs
<1>2. DeviceOK'
  BY <1>1 DEF DevInv, DeviceOK, Quiet
<1>3. CallersOK'
  BY DEF DevInv, CallersOK, Quiet
<1>4. OthersSame(p)
  BY DEF OthersSame, DevInv, LockInv, Quiet
<1>5. Keeps(mem, mem', CopyPtrs \ {copy[p]}) /\ Keeps(mem, mem', RingPtrs)
  BY DEF DevInv, DeviceOK, Held, Keeps, Quiet
<1>6. UNCHANGED <<working, RingPtrs>>
  BY <1>1 DEF Quiet
<1>7. \A q \in Proc \ {p} : WriteOK(q)' /\ ReadOK(q)'
  BY <1>4, <1>5, <1>6, OthersKept
<1> QED BY <1>2, <1>3, <1>7 DEF DevInv

(* Outside aesd_write nothing is said of the write variables. *)
LEMMA NotWriting ==
  ASSUME DevInv, Quiet, NEW p \in Proc, pc[p] \notin Writing, pc'[p] \notin Writing
  PROVE  WriteOK(p)'
  BY DEF DevInv, WriteOK, Quiet, Writing

----------------------------------------------------------------------------
(* The calls that leave the device alone. *)
LEMMA OpenKeeps ==
  ASSUME DevInv, LockInv', NEW p \in Proc, Open(p) \/ Release(p)
  PROVE  DevInv'
<1>1. Quiet /\ hit' = hit
  BY DEF Open, Release, Quiet, device
<1>2. PICK l \in {"idle", "closed"} : pc[p] \in {"idle", "closed"} /\ pc' = [pc EXCEPT ![p] = l]
  BY DEF Open, Release, Goto
<1>3. pc'[p] = l /\ pc[p] \notin Writing /\ pc'[p] \notin Writing
  BY <1>2 DEF DevInv, LockInv, Writing
<1>4. WriteOK(p)'
  BY <1>1, <1>3, NotWriting
<1>5. ReadOK(p)'
  BY <1>1, <1>2, <1>3 DEF DevInv, ReadOK
<1>6. /\ hit' \in [Proc -> Found] /\ pos' \in [Proc -> Nat] /\ scan' \in [Proc -> Scanned]
  <2>1. pos' = [pos EXCEPT ![p] = 0] /\ scan' = [scan EXCEPT ![p] = <<>>]
    BY DEF Open, Release
  <2>2. <<>> \in Scanned
    BY DEF Scanned
  <2> QED BY <1>1, <2>1, <2>2 DEF DevInv, CallersOK
<1> QED BY <1>1, <1>2, <1>4, <1>5, <1>6, QuietKeeps

LEMMA StartKeeps ==
  ASSUME DevInv, LockInv', NEW p \in Proc, ReadStart(p) \/ SeekStart(p)
  PROVE  DevInv'
<1>1. Quiet /\ UNCHANGED <<hit, pos, scan>>
  BY DEF ReadStart, SeekStart, Quiet, device, aux
<1>2. PICK l \in {"rlock", "slock"} : pc[p] = "idle" /\ pc' = [pc EXCEPT ![p] = l]
  BY DEF ReadStart, SeekStart, Goto
<1>3. pc'[p] = l /\ pc[p] \notin Writing /\ pc'[p] \notin Writing
  BY <1>2 DEF DevInv, LockInv, Writing
<1>4. WriteOK(p)'
  BY <1>1, <1>3, NotWriting
<1>5. ReadOK(p)'
  BY <1>1, <1>2, <1>3 DEF DevInv, ReadOK
<1>6. /\ hit' \in [Proc -> Found] /\ pos' \in [Proc -> Nat] /\ scan' \in [Proc -> Scanned]
  BY <1>1 DEF DevInv, CallersOK
<1> QED BY <1>1, <1>2, <1>4, <1>5, <1>6, QuietKeeps

LEMMA AcquireKeeps ==
  ASSUME DevInv, LockInv', NEW p \in Proc, Locking(p)
  PROVE  DevInv'
<1>1. PICK from, to :
        /\ <<from, to>> \in {<<"wlock", "wloop">>, <<"rlock", "rfind">>, <<"slock", "sbody">>}
        /\ Acquire(p, from, to)
  BY DEF Locking
<1>2. Quiet /\ UNCHANGED <<hit, pos, scan>>
  BY <1>1 DEF Acquire, Quiet, aux
<1>3. pc[p] = from /\ pc' = [pc EXCEPT ![p] = to] /\ pc'[p] = to
  BY <1>1 DEF Acquire, Goto, DevInv, LockInv
<1>4. WriteOK(p)'
  <2>1. CASE from = "wlock"
    <3>1. to = "wloop" /\ WriteOK(p)
      BY <1>1, <2>1 DEF DevInv
    <3> QED BY <1>2, <1>3, <2>1, <3>1 DEF WriteOK, Writing, Quiet
  <2>2. CASE from # "wlock"
    BY <1>1, <1>2, <1>3, <2>2, NotWriting DEF Writing
  <2> QED BY <2>1, <2>2
<1>5. ReadOK(p)'
  BY <1>1, <1>2, <1>3 DEF DevInv, ReadOK
<1>6. /\ hit' \in [Proc -> Found] /\ pos' \in [Proc -> Nat] /\ scan' \in [Proc -> Scanned]
  BY <1>2 DEF DevInv, CallersOK
<1> QED BY <1>2, <1>3, <1>4, <1>5, <1>6, QuietKeeps

(* A call of read or of a seek that gives the mutex back. *)
LEMMA LeavingReadKeeps ==
  ASSUME DevInv, LockInv', NEW p \in Proc, Quiet, pc[p] \in {"rfind", "rcopy", "sbody"},
         pc' = [pc EXCEPT ![p] = "idle"],
         \/ pc[p] = "rcopy" /\ hit' = [hit EXCEPT ![p] = <<>>]
         \/ pc[p] # "rcopy" /\ hit' = hit,
         pos' \in [Proc -> Nat], scan' \in [Proc -> Scanned]
  PROVE  DevInv'
<1>1. pc'[p] = "idle" /\ pc[p] \notin Writing /\ pc'[p] \notin Writing
  BY DEF DevInv, LockInv, Writing
<1>2. WriteOK(p)'
  BY <1>1, NotWriting
<1>3. /\ hit' \in [Proc -> Found] /\ \A q \in Proc \ {p} : hit'[q] = hit[q]
      /\ hit'[p] = <<>>
  BY DEF DevInv, CallersOK, Found, ReadOK
<1>4. ReadOK(p)'
  BY <1>1, <1>3 DEF ReadOK
<1> QED BY <1>2, <1>3, <1>4, QuietKeeps

LEMMA ReadEOFKeeps ==
  ASSUME DevInv, LockInv', NEW p \in Proc, ReadEOF(p)
  PROVE  DevInv'
<1>1. /\ Quiet /\ pc[p] = "rfind" /\ pc' = [pc EXCEPT ![p] = "idle"] /\ hit' = hit
      /\ pos' = [pos EXCEPT ![p] = 0] /\ scan' = [scan EXCEPT ![p] = <<>>]
  BY DEF ReadEOF, Quiet, Goto
<1>2. <<>> \in Scanned
  BY DEF Scanned
<1>3. pos' \in [Proc -> Nat] /\ scan' \in [Proc -> Scanned]
  BY <1>1, <1>2 DEF DevInv, CallersOK
<1> QED BY <1>1, <1>3, LeavingReadKeeps

(* What the lookup finds lies inside a buffer of the ring. *)
LEMMA ReadFindKeeps ==
  ASSUME DevInv, LockInv', NEW p \in Proc, ReadFind(p)
  PROVE  DevInv'
<1> DEFINE f == FindEntry(ring, pos[p])
           e == ring.entry[f.slot]
<1>1. /\ Quiet /\ pc[p] = "rfind" /\ pc' = [pc EXCEPT ![p] = "rcopy"] /\ f.found
      /\ UNCHANGED <<pos, scan>>
  BY DEF ReadFind, Quiet, Goto, device, aux
<1>2. PICK count \in ReadSize :
        hit' = [hit EXCEPT ![p] = <<e.buffptr, f.rel, BytesToCopy(e.size, f.rel, count)>>]
  BY DEF ReadFind
<1>3. /\ RingOK(ring) /\ loaded /\ Measured(mem, ring) /\ pos[p] \in Nat
      /\ hit \in [Proc -> Found] /\ count \in Nat \ {0}
  BY <1>1, CountAssumption DEF DevInv, DeviceOK, CallersOK, LockInv
<1>4. PICK k \in 0 .. Count(ring) - 1 :
        f.slot = SlotAt(ring, k) /\ ByteIs(ring, pos[p], k, f.rel)
  <2>1. Sized(Stored) /\ ring \in Ring(Stored) /\ WellShaped(ring)
    BY <1>3, StoredIs DEF RingOK
  <2> QED BY <1>1, <1>3, <2>1, FoundIsByte
<1>5. PICK size, rel, n, a :
        /\ size \in Nat /\ rel \in Nat
        /\ size = e.size /\ rel = f.rel /\ rel < size /\ a = e.buffptr
        /\ n = BytesToCopy(size, rel, count)
  BY <1>4 DEF ByteIs
<1>6. size \in Nat /\ rel \in Nat /\ n \in Nat /\ n > 0 /\ rel + n <= size
  BY <1>3, <1>5 DEF BytesToCopy
<1>7. a \in Live(ring) /\ Len(mem[a]) = size /\ a \in Ptr
  <2>1. e = ring.entry[SlotAt(ring, k)] /\ a = PtrAt(ring, k) /\ e.size # 0
    BY <1>4, <1>5 DEF PtrAt
  <2>2. a \in Live(ring) /\ a \in Ptr \cup {ZERO_SIZE_PTR}
    BY <1>3, <2>1, LiveIsStored
  <2>3. Len(mem[a]) = size
    BY <1>3, <1>5, <2>1 DEF Measured
  <2> QED BY <2>2, <2>3 DEF Live
<1>8. hit' = [hit EXCEPT ![p] = <<a, rel, n>>]
  BY <1>2, <1>5
<1>9. /\ hit' \in [Proc -> Found] /\ hit'[p] = <<a, rel, n>>
      /\ \A q \in Proc \ {p} : hit'[q] = hit[q]
  BY <1>3, <1>6, <1>7, <1>8 DEF Found
<1>10. RingPtrs' = Live(ring) /\ mem' = mem /\ pc'[p] = "rcopy"
  BY <1>1, <1>3 DEF Quiet, RingPtrs, Live, DevInv, LockInv
<1>11. ReadOK(p)'
  BY <1>6, <1>7, <1>9, <1>10 DEF ReadOK
<1>12. WriteOK(p)'
  BY <1>1, <1>10, NotWriting DEF Writing
<1>13. pos' \in [Proc -> Nat] /\ scan' \in [Proc -> Scanned]
  BY <1>1 DEF DevInv, CallersOK
<1> QED BY <1>1, <1>9, <1>11, <1>12, <1>13, QuietKeeps

LEMMA ReadCopyKeeps ==
  ASSUME DevInv, LockInv', NEW p \in Proc, ReadCopy(p)
  PROVE  DevInv'
<1>1. PICK ptr, rel, n :
        /\ ptr = hit[p][1] /\ rel = hit[p][2] /\ n = hit[p][3]
        /\ pos' = [pos EXCEPT ![p] = @ + n]
        /\ scan' = [scan EXCEPT ![p] =
                      IF @ = Torn THEN Torn ELSE @ \o SubSeq(mem[ptr], rel + 1, rel + n)]
  BY DEF ReadCopy
<1>2. /\ Quiet /\ pc[p] = "rcopy" /\ pc' = [pc EXCEPT ![p] = "idle"]
      /\ hit' = [hit EXCEPT ![p] = <<>>]
  BY DEF ReadCopy, Quiet, Goto
<1>3. rel \in Nat /\ n \in Nat /\ ptr \in DOMAIN mem /\ rel + n <= Len(mem[ptr])
  BY <1>1, <1>2 DEF DevInv, ReadOK, DeviceOK, Held
<1>4. mem[ptr] \in Seq(Byte)
  BY <1>3 DEF DevInv, DeviceOK, Held
<1>5. SubSeq(mem[ptr], rel + 1, rel + n) \in Seq(Byte)
  BY <1>3, <1>4
<1>6. pos \in [Proc -> Nat] /\ scan \in [Proc -> Scanned]
  BY DEF DevInv, CallersOK
<1>7. pos' \in [Proc -> Nat]
  BY <1>1, <1>3, <1>6
<1>8. scan' \in [Proc -> Scanned]
  <2>1. (IF scan[p] = Torn THEN Torn ELSE scan[p] \o SubSeq(mem[ptr], rel + 1, rel + n))
          \in Scanned
    BY <1>5, <1>6 DEF Scanned
  <2> QED BY <1>1, <1>6, <2>1
<1> QED BY <1>2, <1>7, <1>8, LeavingReadKeeps

LEMMA ReadFaultKeeps ==
  ASSUME DevInv, LockInv', NEW p \in Proc, ReadFault(p)
  PROVE  DevInv'
<1>1. /\ Quiet /\ pc[p] = "rcopy" /\ pc' = [pc EXCEPT ![p] = "idle"]
      /\ hit' = [hit EXCEPT ![p] = <<>>] /\ UNCHANGED <<pos, scan>>
  BY DEF ReadFault, Quiet, Goto, aux
<1>2. pos' \in [Proc -> Nat] /\ scan' \in [Proc -> Scanned]
  BY <1>1 DEF DevInv, CallersOK
<1> QED BY <1>1, <1>2, LeavingReadKeeps

(* A seek goes to a position that is a number, whatever it wraps to. *)
LEMMA RetOffsetType ==
  ASSUME NEW r \in Ring(Stored), NEW cmd \in 0 .. N, NEW within \in Nat
  PROVE  RetOffset(r, cmd, within) \in Nat \cup {-1}
<1>1. PICK b : b = BytesBefore(r, 0)[cmd]
  OBVIOUS
<1>2. b \in Nat
  BY <1>1, StoredIs, BytesAre, NAssumption DEF Slot
<1>3. (b + within) % UIntMod \in Nat
  BY <1>2, UIntAssumption
<1> QED BY <1>1, <1>3 DEF RetOffset

LEMMA SeekKeeps ==
  ASSUME DevInv, LockInv', NEW p \in Proc, SeekToCommand(p) \/ Llseek(p)
  PROVE  DevInv'
<1>1. /\ Quiet /\ pc[p] = "sbody" /\ pc' = [pc EXCEPT ![p] = "idle"] /\ hit' = hit
  BY DEF SeekToCommand, Llseek, Quiet, Goto
<1>2. pos \in [Proc -> Nat] /\ scan \in [Proc -> Scanned]
  BY DEF DevInv, CallersOK
<1>3. UNCHANGED <<pos, scan>> \/ \E to \in Nat : Moved(p, to)
  <2>1. CASE SeekToCommand(p)
    <3>1. PICK cmd \in 0 .. N, within \in SeekOffset :
            IF RetOffset(ring, cmd, within) = -1 THEN UNCHANGED <<pos, scan>>
            ELSE Moved(p, RetOffset(ring, cmd, within))
      BY <2>1 DEF SeekToCommand
    <3>2. RetOffset(ring, cmd, within) \in Nat \cup {-1}
      BY RetOffsetType, CountAssumption DEF DevInv, DeviceOK, RingOK
    <3> QED BY <3>1, <3>2
  <2>2. CASE Llseek(p)
    <3>1. ring.buff_size \in Int
      BY DEF DevInv, DeviceOK, RingOK, Ring
    <3> QED BY <2>2, <3>1 DEF Llseek, SeekRange
  <2> QED BY <2>1, <2>2
<1>4. pos' \in [Proc -> Nat] /\ scan' \in [Proc -> Scanned]
  <2>1. CASE UNCHANGED <<pos, scan>>
    BY <1>2, <2>1
  <2>2. CASE \E to \in Nat : Moved(p, to)
    <3>1. PICK to \in Nat : Moved(p, to)
      BY <2>2
    <3>2. /\ pos' = [pos EXCEPT ![p] = to]
          /\ scan' = [scan EXCEPT ![p] = IF to = 0 THEN <<>> ELSE IF to = pos[p] THEN @ ELSE Torn]
      BY <3>1 DEF Moved
    <3>3. (IF to = 0 THEN <<>> ELSE IF to = pos[p] THEN scan[p] ELSE Torn) \in Scanned
      BY <1>2 DEF Scanned
    <3> QED BY <1>2, <3>2, <3>3
  <2> QED BY <1>3, <2>1, <2>2
<1> QED BY <1>1, <1>4, LeavingReadKeeps

----------------------------------------------------------------------------
(* The calls that change the memory. *)
LEMMA LoadKeeps ==
  ASSUME DevInv, LockInv', Load
  PROVE  DevInv'
<1>1. /\ ~loaded /\ loaded' \in BOOLEAN /\ ring' = InitRing /\ working' = NoBuffer
      /\ accepted' = <<>> /\ leaked' = leaked \cup WorkingPtr
      /\ UNCHANGED <<mem, pc, pos, copy, start, retval, hit, writes, scan>>
  BY DEF Load
<1>2. \A p \in Proc : pc[p] = "closed" /\ copy[p] = NULL /\ hit[p] = <<>>
  BY <1>1 DEF DevInv, LockInv, WriteOK, ReadOK, Writing
<1>3. RingOK(ring') /\ Count(ring') = 0
  <2>1. InitRing \in Ring(Stored) /\ WellShaped(InitRing) /\ Count(InitRing) = 0
    BY StoredIs, EmptyRing
  <2>2. Exact(InitRing)
    BY StoredIs, ExactAtStart
  <2>3. Distinct(InitRing, ZERO_SIZE_PTR)
    BY <2>1 DEF Distinct
  <2> QED BY <1>1, <2>1, <2>2, <2>3 DEF RingOK
<1>4. RingPtrs = {} /\ RingPtrs' = {} /\ CopyPtrs = {} /\ CopyPtrs' = {}
  BY <1>1, <1>2, <1>3 DEF RingPtrs, CopyPtrs, LivePtrs
<1>5. Held(mem', RingPtrs', working', CopyPtrs', leaked')
  <2>1. working'.size = 0 /\ working' \in [buffer : Address, size : Nat]
    BY <1>1 DEF NoBuffer, Address
  <2>2. Used(working') = {} /\ WorkingPtr = Used(working)
    BY <2>1 DEF Used, WorkingPtr
  <2>3. Held(mem, RingPtrs, working, CopyPtrs, leaked)
    BY DEF DevInv, DeviceOK
  <2> QED BY <1>1, <1>4, <2>1, <2>2, <2>3 DEF Held
<1>6. Measured(mem', ring')
  BY <1>3 DEF Measured
<1>7. DeviceOK'
  <2>1. accepted' \in Seq(Byte)
    BY <1>1
  <2> QED BY <1>1, <1>3, <1>5, <1>6, <2>1 DEF DevInv, DeviceOK
<1>8. CallersOK'
  BY <1>1 DEF DevInv, CallersOK
<1>9. \A p \in Proc : WriteOK(p)' /\ ReadOK(p)'
  BY <1>1, <1>2 DEF WriteOK, ReadOK, Writing
<1> QED BY <1>7, <1>8, <1>9 DEF DevInv

(* aesd_cleanup_module frees what the ring owns, and that alone. *)
LEMMA UnloadKeeps ==
  ASSUME DevInv, LockInv', Unload
  PROVE  DevInv'
<1>1. /\ loaded /\ loaded' = FALSE /\ mem' = Freed(mem, DestroyFrees(ring))
      /\ UNCHANGED <<ring, working, writes, accepted, leaked>>
      /\ UNCHANGED <<pc, pos, copy, start, retval, hit, scan>>
  BY DEF Unload, aux
<1>2. \A p \in Proc : pc[p] = "closed" /\ copy[p] = NULL /\ hit[p] = <<>>
  BY DEF Unload, DevInv, WriteOK, ReadOK, Writing
<1>3. /\ RingOK(ring) /\ Held(mem, RingPtrs, working, CopyPtrs, leaked)
      /\ RingPtrs = Live(ring)
  BY <1>1 DEF DevInv, DeviceOK, RingPtrs, Live
<1>4. DestroyFrees(ring) = LivePtrs(ring)
  BY <1>3, StoredIs, DestroyFreesLive DEF RingOK
<1>5. LivePtrs(ring) \cap (Used(working) \cup leaked) = {}
  BY <1>3, PtrAssumption DEF Held, Live
<1>6. CopyPtrs = {} /\ CopyPtrs' = {} /\ RingPtrs' = {}
  BY <1>1, <1>2 DEF CopyPtrs, RingPtrs
<1>7. Held(mem', RingPtrs', working', CopyPtrs', leaked')
  <2>1. Held(mem', RingPtrs \ LivePtrs(ring), working, CopyPtrs \ LivePtrs(ring), leaked)
    BY <1>1, <1>3, <1>4, <1>5, HeldFree
  <2>2. RingPtrs \ LivePtrs(ring) = {} /\ CopyPtrs \ LivePtrs(ring) = {}
    BY <1>3, <1>6 DEF Live
  <2> QED BY <1>1, <1>6, <2>1, <2>2
<1>8. DeviceOK'
  BY <1>1, <1>3, <1>7 DEF DevInv, DeviceOK
<1>9. CallersOK'
  BY <1>1 DEF DevInv, CallersOK
<1>10. \A p \in Proc : WriteOK(p)' /\ ReadOK(p)'
  BY <1>1, <1>2 DEF WriteOK, ReadOK, Writing
<1> QED BY <1>8, <1>9, <1>10 DEF DevInv

LEMMA WriteCopyKeeps ==
  ASSUME DevInv, LockInv', NEW p \in Proc, WriteCopy(p)
  PROVE  DevInv'
<1>0. PICK w \in Payload :
        mem' = Allocated(mem, Fresh, [i \in DOMAIN w |-> IF w[i] = NL THEN NL ELSE p])
  BY DEF WriteCopy
<1>1. PICK s : /\ s = [i \in DOMAIN w |-> IF w[i] = NL THEN NL ELSE p]
               /\ mem' = Allocated(mem, Fresh, s)
  BY <1>0
<1>2. PICK a \in Ptr \ DOMAIN mem : a = Fresh
  BY DEF WriteCopy, Fresh, Exhausted
<1>3. /\ pc[p] = "idle" /\ pc' = [pc EXCEPT ![p] = "wlock"]
      /\ copy' = [copy EXCEPT ![p] = a] /\ start' = [start EXCEPT ![p] = 0]
      /\ retval' = [retval EXCEPT ![p] = 0] /\ writes < MaxWrites /\ writes' = writes + 1
      /\ UNCHANGED <<loaded, ring, working, pos, hit, accepted, scan, leaked>>
  BY <1>2 DEF WriteCopy, Goto
<1>4. DeviceOK /\ CallersOK /\ copy[p] = NULL /\ hit[p] = <<>> /\ LockInv
  BY <1>3 DEF DevInv, WriteOK, ReadOK, Writing
<1>5. s \in Seq(Byte)
  <2>1. w \in Seq({NL, "x"})
    BY PayloadAssumption
  <2>2. s \in [1 .. Len(w) -> Byte] /\ Len(w) \in Nat
    BY <1>1, <2>1 DEF Byte
  <2> QED BY <2>2
<1>6. /\ mem'[a] = s /\ Keeps(mem, mem', DOMAIN mem) /\ mem' = Allocated(mem, a, s)
  BY <1>1, <1>2 DEF Allocated, Keeps
<1>7. CopyPtrs' = CopyPtrs \cup {a} /\ RingPtrs' = RingPtrs
  <2>1. copy \in [Proc -> Ptr \cup {NULL}] /\ a # NULL
    BY <1>4, PtrAssumption DEF CallersOK
  <2> QED BY <1>3, <1>4, <2>1 DEF CopyPtrs, RingPtrs
<1>8. Held(mem, RingPtrs, working, CopyPtrs, leaked)
  BY <1>4 DEF DeviceOK
<1>9. Held(mem', RingPtrs', working', CopyPtrs', leaked')
  <2>1. Held(mem', RingPtrs, working, CopyPtrs \cup {a}, leaked)
    BY <1>5, <1>6, <1>8, HeldStore
  <2> QED BY <1>3, <1>7, <2>1
<1>10. Keeps(mem, mem', RingPtrs) /\ Keeps(mem, mem', CopyPtrs \ {copy[p]})
  BY <1>6, <1>8 DEF Keeps, Held
<1>11. DeviceOK'
  <2>1. loaded' => Measured(mem', ring')
    <3>1. loaded => RingPtrs = Live(ring) /\ Measured(mem, ring) /\ RingOK(ring)
      BY <1>4 DEF DeviceOK, RingPtrs, Live
    <3> QED BY <1>3, <1>10, <3>1, MeasuredKept
  <2>2. writes' \in 0 .. MaxWrites
    BY <1>3, <1>4, WritesAssumption DEF DeviceOK
  <2> QED BY <1>3, <1>4, <1>9, <2>1, <2>2 DEF DeviceOK
<1>12. CallersOK'
  <2>1. \A q \in Proc : copy[q] # a
    BY <1>8, PtrAssumption, <1>4 DEF Held, CopyPtrs, CallersOK
  <2>2. \A q, r \in Proc : copy'[q] = copy'[r] /\ copy'[q] # NULL => q = r
    BY <1>3, <1>4, <2>1 DEF CallersOK
  <2> QED BY <1>3, <1>4, <2>2 DEF CallersOK
<1>13. OthersSame(p)
  BY <1>3, <1>4 DEF OthersSame, LockInv, CallersOK
<1>14. \A q \in Proc \ {p} : WriteOK(q)' /\ ReadOK(q)'
  BY <1>3, <1>7, <1>10, <1>13, OthersKept
<1>15. /\ pc'[p] = "wlock" /\ copy'[p] = a /\ start'[p] = 0 /\ retval'[p] = 0 /\ hit'[p] = <<>>
       /\ Len(mem'[a]) \in Nat
  BY <1>3, <1>4, <1>5, <1>6 DEF LockInv, CallersOK
<1>16. WriteOK(p)' /\ ReadOK(p)'
  BY <1>15, PtrAssumption DEF WriteOK, ReadOK, Writing
<1> QED BY <1>11, <1>12, <1>14, <1>16 DEF DevInv

(* kfree of the copy buffer at the end of a call. *)
LEMMA DropCopy ==
  ASSUME DevInv, NEW p \in Proc, UNCHANGED <<loaded, ring, working, writes, leaked>>,
         mem' = Freed(mem, {copy[p]}), copy' = [copy EXCEPT ![p] = NULL],
         accepted' \in Seq(Byte)
  PROVE  /\ DeviceOK' /\ RingPtrs' = RingPtrs
         /\ Keeps(mem, mem', CopyPtrs \ {copy[p]}) /\ Keeps(mem, mem', RingPtrs)
         /\ \A q, r \in Proc : copy'[q] = copy'[r] /\ copy'[q] # NULL => q = r
<1>1. DeviceOK /\ CallersOK /\ Held(mem, RingPtrs, working, CopyPtrs, leaked)
  BY DEF DevInv, DeviceOK
<1>2. RingPtrs' = RingPtrs
  BY DEF RingPtrs
<1>3. /\ {copy[p]} \cap (Used(working) \cup leaked) = {}
      /\ copy[p] \notin RingPtrs
  <2>1. copy[p] \in CopyPtrs \/ copy[p] = NULL
    BY DEF CopyPtrs
  <2> QED BY <1>1, <2>1, PtrAssumption DEF Held
<1>4. CopyPtrs' = CopyPtrs \ {copy[p]}
  BY <1>1 DEF CopyPtrs, CallersOK
<1>5. \A q, r \in Proc : copy'[q] = copy'[r] /\ copy'[q] # NULL => q = r
  BY <1>1 DEF CallersOK
<1>6. Held(mem', RingPtrs', working', CopyPtrs', leaked')
  <2>1. Held(Freed(mem, {copy[p]}), RingPtrs \ {copy[p]}, working, CopyPtrs \ {copy[p]}, leaked)
    BY <1>1, <1>3, HeldFree
  <2>2. RingPtrs \ {copy[p]} = RingPtrs
    BY <1>3
  <2> QED BY <1>2, <1>4, <2>1, <2>2
<1>7. Keeps(mem, mem', CopyPtrs \ {copy[p]}) /\ Keeps(mem, mem', RingPtrs)
  <2>1. Keeps(mem, mem', DOMAIN mem \ {copy[p]})
    BY FreedIs
  <2> QED BY <1>1, <1>3, <2>1 DEF Keeps, Held
<1>8. loaded' => Measured(mem', ring')
  <2>1. loaded => RingPtrs = Live(ring) /\ Measured(mem, ring) /\ RingOK(ring)
    BY <1>1 DEF DeviceOK, RingPtrs, Live
  <2> QED BY <1>7, <2>1, MeasuredKept
<1>9. DeviceOK'
  BY <1>1, <1>6, <1>8 DEF DeviceOK
<1> QED BY <1>2, <1>5, <1>7, <1>9

LEMMA InterruptedKeeps ==
  ASSUME DevInv, LockInv', NEW p \in Proc, Interrupted(p)
  PROVE  DevInv'
<1>1. /\ pc[p] \in {"wlock", "rlock", "slock"} /\ pc' = [pc EXCEPT ![p] = "idle"]
      /\ mem' = Freed(mem, {copy[p]}) /\ copy' = [copy EXCEPT ![p] = NULL]
      /\ UNCHANGED <<loaded, ring, working, writes, leaked, accepted>>
      /\ UNCHANGED <<pos, start, retval, hit, scan>>
  BY DEF Interrupted, Goto, aux
<1>2. DeviceOK /\ CallersOK /\ LockInv /\ hit[p] = <<>> /\ accepted' \in Seq(Byte)
  BY <1>1 DEF DevInv, DeviceOK, ReadOK
<1>3. /\ DeviceOK' /\ RingPtrs' = RingPtrs
      /\ Keeps(mem, mem', CopyPtrs \ {copy[p]}) /\ Keeps(mem, mem', RingPtrs)
      /\ \A q, r \in Proc : copy'[q] = copy'[r] /\ copy'[q] # NULL => q = r
  BY <1>1, <1>2, DropCopy
<1>4. CallersOK'
  BY <1>1, <1>2, <1>3 DEF CallersOK
<1>5. OthersSame(p)
  BY <1>1, <1>2 DEF OthersSame, LockInv, CallersOK
<1>6. UNCHANGED <<working, RingPtrs>>
  BY <1>1, <1>3
<1>7. \A q \in Proc \ {p} : WriteOK(q)' /\ ReadOK(q)'
  BY <1>3, <1>5, <1>6, OthersKept
<1>8. pc'[p] = "idle" /\ copy'[p] = NULL /\ hit'[p] = <<>>
  BY <1>1, <1>2 DEF LockInv, CallersOK
<1>9. WriteOK(p)' /\ ReadOK(p)'
  BY <1>8 DEF WriteOK, ReadOK, Writing
<1> QED BY <1>3, <1>4, <1>7, <1>9 DEF DevInv

LEMMA WriteReturnKeeps ==
  ASSUME DevInv, LockInv', NEW p \in Proc, WriteReturn(p)
  PROVE  DevInv'
<1>1. /\ pc[p] = "wunlock" /\ pc' = [pc EXCEPT ![p] = "idle"]
      /\ mem' = Freed(mem, {copy[p]}) /\ copy' = [copy EXCEPT ![p] = NULL]
      /\ start' = [start EXCEPT ![p] = 0] /\ retval' = [retval EXCEPT ![p] = 0]
      /\ UNCHANGED <<loaded, ring, working, writes, leaked>>
      /\ UNCHANGED <<pos, hit, scan>>
  BY DEF WriteReturn, Goto
<1>2. DeviceOK /\ CallersOK /\ LockInv /\ hit[p] = <<>> /\ WriteOK(p)
  BY <1>1 DEF DevInv, DeviceOK, ReadOK
<1>3. accepted' \in Seq(Byte)
  <2>1. PICK s, n : /\ s = mem[copy[p]] /\ n = IF retval[p] = -1 THEN start[p] ELSE retval[p]
                    /\ accepted' = accepted \o SubSeq(s, 1, n)
    BY DEF WriteReturn
  <2>2. copy[p] \in DOMAIN mem
    BY <1>1, <1>2 DEF WriteOK, Writing, DeviceOK, Held, CopyPtrs
  <2>3. s \in Seq(Byte) /\ n \in Nat /\ n <= Len(s)
    BY <1>1, <1>2, <2>1, <2>2 DEF WriteOK, Writing, DeviceOK, Held, CallersOK
  <2>4. SubSeq(s, 1, n) \in Seq(Byte) /\ accepted \in Seq(Byte)
    BY <1>2, <2>3 DEF DeviceOK
  <2> QED BY <2>1, <2>4
<1>4. /\ DeviceOK' /\ RingPtrs' = RingPtrs
      /\ Keeps(mem, mem', CopyPtrs \ {copy[p]}) /\ Keeps(mem, mem', RingPtrs)
      /\ \A q, r \in Proc : copy'[q] = copy'[r] /\ copy'[q] # NULL => q = r
  BY <1>1, <1>3, DropCopy
<1>5. CallersOK'
  BY <1>1, <1>2, <1>4 DEF CallersOK
<1>6. OthersSame(p)
  BY <1>1, <1>2 DEF OthersSame, LockInv, CallersOK
<1>7. UNCHANGED <<working, RingPtrs>>
  BY <1>1, <1>4
<1>8. \A q \in Proc \ {p} : WriteOK(q)' /\ ReadOK(q)'
  BY <1>4, <1>6, <1>7, OthersKept
<1>9. pc'[p] = "idle" /\ copy'[p] = NULL /\ hit'[p] = <<>>
  BY <1>1, <1>2 DEF LockInv, CallersOK
<1>10. WriteOK(p)' /\ ReadOK(p)'
  BY <1>9 DEF WriteOK, ReadOK, Writing
<1> QED BY <1>4, <1>5, <1>8, <1>10 DEF DevInv

(* A turn whose allocation fails.  As krealloc does not fail the working
   buffer is empty, and nothing is freed. *)
LEMMA WriteFailsKeeps ==
  ASSUME DevInv, LockInv', ~KreallocFails, NEW p \in Proc, WriteFails(p)
  PROVE  DevInv'
<1>1. /\ pc[p] = "wloop" /\ pc' = [pc EXCEPT ![p] = "wunlock"]
      /\ mem' = Freed(mem, WorkingPtr) /\ retval' = [retval EXCEPT ![p] = -1]
      /\ UNCHANGED <<loaded, ring, working, copy, start, writes, leaked, accepted>>
      /\ UNCHANGED <<pos, hit, scan>> /\ working.size = 0
  BY DEF WriteFails, Goto, aux, MayFail, MustFail
<1>2. /\ DeviceOK /\ CallersOK /\ LockInv /\ hit[p] = <<>> /\ WriteOK(p)
      /\ Held(mem, RingPtrs, working, CopyPtrs, leaked)
  BY <1>1 DEF DevInv, DeviceOK, ReadOK
<1>3. RingPtrs' = RingPtrs /\ CopyPtrs' = CopyPtrs
  BY <1>1 DEF RingPtrs, CopyPtrs
<1>4. Held(mem', RingPtrs', working', CopyPtrs', leaked') /\ Keeps(mem, mem', DOMAIN mem)
  <2>1. WorkingPtr = {}
    BY <1>1 DEF WorkingPtr
  <2>2. mem' = Freed(mem, {}) /\ {} \cap (Used(working) \cup leaked) = {}
    BY <1>1, <2>1
  <2>3. Held(mem', RingPtrs \ {}, working, CopyPtrs \ {}, leaked)
    BY <1>2, <2>2, HeldFree
  <2>4. Keeps(mem, mem', DOMAIN mem \ {})
    BY <2>2, FreedIs
  <2>5. RingPtrs \ {} = RingPtrs /\ CopyPtrs \ {} = CopyPtrs /\ DOMAIN mem \ {} = DOMAIN mem
    OBVIOUS
  <2> QED BY <1>1, <1>3, <2>3, <2>4, <2>5
<1>5. Keeps(mem, mem', RingPtrs) /\ Keeps(mem, mem', CopyPtrs \ {copy[p]})
  BY <1>2, <1>4 DEF Keeps, Held
<1>6. DeviceOK'
  <2>1. loaded => RingPtrs = Live(ring) /\ Measured(mem, ring) /\ RingOK(ring)
    BY <1>2 DEF DeviceOK, RingPtrs, Live
  <2>2. loaded' => Measured(mem', ring')
    BY <1>1, <1>5, <2>1, MeasuredKept
  <2> QED BY <1>1, <1>2, <1>4, <2>2 DEF DeviceOK
<1>7. CallersOK'
  BY <1>1, <1>2 DEF CallersOK
<1>8. OthersSame(p)
  BY <1>1, <1>2 DEF OthersSame, LockInv, CallersOK
<1>9. pc[p] \in Critical
  BY <1>1 DEF Critical
<1>10. \A q \in Proc \ {p} : WriteOK(q)' /\ ReadOK(q)'
  BY <1>5, <1>8, <1>9, OthersKept
<1>11. /\ copy[p] # NULL /\ mem'[copy[p]] = mem[copy[p]] /\ mem[copy[p]] \in Seq(Byte)
  BY <1>1, <1>2, <1>4 DEF WriteOK, Writing, Keeps, Held, CopyPtrs
<1>12. Len(mem[copy[p]]) \in Nat /\ start[p] <= Len(mem[copy[p]])
  BY <1>1, <1>2, <1>11 DEF WriteOK, Writing
<1>13. pc'[p] = "wunlock" /\ retval'[p] = -1 /\ hit'[p] = <<>>
  BY <1>1, <1>2 DEF LockInv, CallersOK
<1>14. WriteOK(p)' /\ ReadOK(p)'
  <2>1. -1 <= Len(mem[copy[p]])
    BY <1>12
  <2> QED BY <1>1, <1>11, <1>12, <1>13, <2>1 DEF WriteOK, ReadOK, Writing
<1> QED BY <1>6, <1>7, <1>10, <1>14 DEF DevInv

(* What a turn of the loop that stores something does: the working buffer
   grows by v, and at a newline it becomes a command of the ring. *)
Taking(p, s, from, d, n, v) ==
  /\ pc[p] = "wloop" /\ s = mem[copy[p]] /\ s \in Seq(Byte) /\ copy[p] \in CopyPtrs
  /\ from = start[p] /\ from \in 0 .. Len(s) /\ retval[p] \in 0 .. from
  /\ from # 0 => working.size = 0
  /\ Chunked(s, from, d, n) /\ n \in Nat /\ from + n <= Len(s)
  /\ v = SubSeq(s, from + 1, from + n)

RestKept ==
  /\ RingOK(ring') /\ Held(mem', Live(ring'), working', CopyPtrs, leaked)
  /\ Measured(mem', ring') /\ Keeps(mem, mem', CopyPtrs)
  /\ loaded /\ UNCHANGED <<loaded, writes, accepted, leaked>> /\ UNCHANGED <<lock, copy, pos, hit>>

LineGrows(p, v) ==
  /\ pc' = [pc EXCEPT ![p] = "wunlock"] /\ UNCHANGED <<ring, start, scan>>
  /\ CommandsOf(mem', ring') = CommandsOf(mem, ring)
  /\ TextOf(mem', working') = TextOf(mem, working) \o v

LineEnds(p, from, d, v) ==
  /\ pc' = pc /\ start' = [start EXCEPT ![p] = from + d + 1] /\ working'.size = 0
  /\ CommandsOf(mem', ring') = Logged(CommandsOf(mem, ring), TextOf(mem, working) \o v)
  /\ scan' = IF Overwrites(ring)
             THEN [q \in Proc |-> IF scan[q] = <<>> THEN <<>> ELSE Torn]
             ELSE scan

Turn(p, s, from, d, n, v) ==
  /\ Taking(p, s, from, d, n, v) /\ RestKept
  /\ retval' = [retval EXCEPT ![p] = @ + n]
  /\ (d = -1 /\ LineGrows(p, v)) \/ (d # -1 /\ LineEnds(p, from, d, v))

LEMMA TurnIs ==
  ASSUME DevInv, NEW p \in Proc, WriteChunk(p)
  PROVE  \E s, from, d, n, v : Turn(p, s, from, d, n, v)
<1> DEFINE s == mem[copy[p]]
           d == FindDelimiter(s, start[p])
           n == MemToMalloc(s, start[p], d)
           w == GrownBuffer(n)
           m == GrownMem(SubSeq(s, start[p] + 1, start[p] + n))
<1>1. /\ s = mem[copy[p]] /\ d = FindDelimiter(s, start[p])
      /\ n = MemToMalloc(s, start[p], d) /\ w = GrownBuffer(n)
      /\ m = GrownMem(SubSeq(s, start[p] + 1, start[p] + n))
      /\ ~MustFail(n) /\ retval' = [retval EXCEPT ![p] = @ + n]
      /\ \/ /\ d = -1
            /\ working' = w /\ mem' = m
            /\ pc' = [pc EXCEPT ![p] = "wunlock"]
            /\ UNCHANGED <<ring, start, scan>>
         \/ /\ d # -1
            /\ ring' = AddEntry(ring, [buffptr |-> w.buffer, size |-> w.size])
            /\ mem' = Freed(m, {Displaced(ring)})
            /\ working' = [w EXCEPT !.size = 0]
            /\ start' = [start EXCEPT ![p] = NextStart(start[p], d)]
            /\ scan' = IF Overwrites(ring)
                       THEN [q \in Proc |-> IF scan[q] = <<>> THEN <<>> ELSE Torn]
                       ELSE scan
            /\ UNCHANGED pc
  BY DEF WriteChunk, Goto
<1> HIDE DEF s, d, n, w, m
<1>2. /\ pc[p] = "wloop" /\ pc[p] \in Critical
      /\ UNCHANGED <<loaded, writes, accepted, leaked>> /\ UNCHANGED <<lock, copy, pos, hit>>
  BY DEF WriteChunk, Critical
<1>3. /\ DeviceOK /\ CallersOK /\ LockInv /\ hit[p] = <<>> /\ WriteOK(p) /\ loaded
      /\ Held(mem, RingPtrs, working, CopyPtrs, leaked) /\ copy[p] \in CopyPtrs
      /\ RingOK(ring) /\ Measured(mem, ring) /\ RingPtrs = Live(ring)
  BY <1>2 DEF DevInv, DeviceOK, ReadOK, LockInv, WriteOK, Writing, CopyPtrs, RingPtrs, Live
<1>4. PICK from : from = start[p]
  OBVIOUS
<1>5. /\ s \in Seq(Byte) /\ Len(s) \in Nat /\ from \in 0 .. Len(s) /\ from \in Nat
      /\ retval[p] \in Nat /\ retval[p] <= from /\ (from # 0 => working.size = 0)
  <2>1. s \in Seq(Byte)
    BY <1>1, <1>3 DEF Held
  <2>2. Len(s) \in Nat /\ from \in Nat /\ from <= Len(s)
    BY <1>1, <1>2, <1>3, <1>4, <2>1 DEF WriteOK, Writing, CallersOK
  <2>3. retval[p] \in 0 .. from /\ (from # 0 => working.size = 0)
    BY <1>2, <1>3, <1>4 DEF WriteOK
  <2> QED BY <2>1, <2>2, <2>3
<1>6. Chunked(s, from, d, n)
  BY <1>1, <1>4, <1>5, ChunkIs
<1>7. n \in Nat /\ from + n <= Len(s)
  <2>1. n \in Int /\ (d = -1 => n = Len(s) - from) /\ (d # -1 => n = d - from + 1)
    BY <1>6 DEF Chunked
  <2>2. d \in Int /\ d >= -1 /\ (d # -1 => from + d + 1 <= Len(s))
    BY <1>6 DEF Chunked
  <2>3. n >= 0
    <3>1. CASE working.size = 0
      BY <1>1, <2>1, <3>1 DEF MustFail
    <3>2. CASE working.size # 0
      BY <1>5, <2>1, <2>2, <3>2
    <3> QED BY <3>1, <3>2
  <2> QED BY <1>5, <2>1, <2>2, <2>3
<1>8. PICK v : v = SubSeq(s, from + 1, from + n) /\ m = GrownMem(v)
  BY <1>1, <1>4
<1>9. Grown(mem, working, m, Live(ring), w, CopyPtrs, leaked, v)
  <2>1. Held(mem, Live(ring), working, CopyPtrs, leaked)
    BY <1>3
  <2>2. ~MustFail(n) /\ w = GrownBuffer(n)
    BY <1>1
  <2> QED BY <1>5, <1>7, <1>8, <2>1, <2>2, HeldGrow
<1>10. Measured(m, ring) /\ CommandsOf(m, ring) = CommandsOf(mem, ring)
  <2>1. Keeps(mem, m, Live(ring))
    BY <1>9 DEF Grown, Keeps
  <2> QED BY <1>3, <2>1, MeasuredKept, CommandsKept
<1>11. retval' = [retval EXCEPT ![p] = @ + n]
  BY <1>1
<1>12. Taking(p, s, from, d, n, v)
  BY <1>1, <1>2, <1>3, <1>4, <1>5, <1>6, <1>7, <1>8 DEF Taking
<1>13. CASE d = -1
  <2>1. /\ mem' = m /\ working' = w /\ ring' = ring /\ UNCHANGED <<start, scan>>
        /\ pc' = [pc EXCEPT ![p] = "wunlock"]
    BY <1>1, <1>13
  <2>2. RestKept
    BY <1>2, <1>3, <1>9, <1>10, <2>1 DEF Grown, Keeps, RestKept
  <2>3. LineGrows(p, v)
    BY <1>9, <1>10, <2>1 DEF Grown, LineGrows
  <2> QED BY <1>11, <1>12, <1>13, <2>2, <2>3 DEF Turn
<1>14. CASE d # -1
  <2>1. /\ ring' = AddEntry(ring, [buffptr |-> w.buffer, size |-> w.size])
        /\ mem' = Freed(m, {Displaced(ring)}) /\ working' = [w EXCEPT !.size = 0]
    BY <1>1, <1>14
  <2>2. /\ start' = [start EXCEPT ![p] = from + d + 1] /\ pc' = pc
        /\ scan' = IF Overwrites(ring)
                   THEN [q \in Proc |-> IF scan[q] = <<>> THEN <<>> ELSE Torn]
                   ELSE scan
    BY <1>1, <1>4, <1>14 DEF NextStart
  <2>3. /\ Held(m, Live(ring), w, CopyPtrs, leaked)
        /\ w.size = 0 => w.buffer = ZERO_SIZE_PTR
        /\ TextOf(m, w) = TextOf(mem, working) \o v
    BY <1>9 DEF Grown
  <2>4. Handed(m, ring, w, CopyPtrs, leaked, mem', ring', working')
    BY <1>3, <1>10, <2>1, <2>3, HandOver
  <2>5. RestKept
    BY <1>2, <1>3, <1>9, <2>4 DEF Handed, Grown, Keeps, RestKept
  <2>6. LineEnds(p, from, d, v)
    BY <1>10, <2>2, <2>3, <2>4 DEF Handed, LineEnds
  <2> QED BY <1>11, <1>12, <1>14, <2>5, <2>6 DEF Turn
<1> QED BY <1>13, <1>14

LEMMA WriteChunkKeeps ==
  ASSUME DevInv, LockInv', NEW p \in Proc, WriteChunk(p)
  PROVE  DevInv'
<1>1. PICK s, from, d, n, v : Turn(p, s, from, d, n, v)
  BY TurnIs
<1>2. /\ pc[p] = "wloop" /\ pc[p] \in Critical /\ loaded
      /\ UNCHANGED <<loaded, writes, accepted, leaked>> /\ UNCHANGED <<copy, pos, hit>>
  BY <1>1 DEF Turn, Taking, RestKept, Critical
<1>3. /\ DeviceOK /\ CallersOK /\ LockInv /\ hit[p] = <<>> /\ WriteOK(p)
      /\ copy[p] \in CopyPtrs /\ copy[p] # NULL
  BY <1>1, <1>2 DEF DevInv, ReadOK, Turn, Taking, CopyPtrs
<1>4. /\ s = mem[copy[p]] /\ from = start[p]
      /\ d = -1 => pc' = [pc EXCEPT ![p] = "wunlock"] /\ start' = start
      /\ d # -1 => /\ pc' = pc /\ start' = [start EXCEPT ![p] = from + d + 1]
                   /\ working'.size = 0
  BY <1>1 DEF Turn, Taking, LineGrows, LineEnds
<1>5. /\ Len(s) \in Nat /\ from \in 0 .. Len(s) /\ retval[p] \in 0 .. from
      /\ n \in Nat /\ from + n <= Len(s) /\ retval' = [retval EXCEPT ![p] = @ + n]
  BY <1>1 DEF Turn, Taking
<1>6. d \in Int /\ d >= -1 /\ (d # -1 => n = d - from + 1 /\ from + d + 1 <= Len(s))
  BY <1>1 DEF Turn, Taking, Chunked
<1>7. CopyPtrs' = CopyPtrs
  BY <1>2 DEF CopyPtrs
<1>8. DeviceOK'
  <2>1. /\ RingOK(ring') /\ Held(mem', Live(ring'), working', CopyPtrs, leaked)
        /\ Measured(mem', ring')
    BY <1>1 DEF Turn, RestKept
  <2> QED BY <1>2, <1>3, <1>7, <2>1 DEF DeviceOK, RingPtrs, Live
<1>9. /\ start' \in [Proc -> Nat] /\ start'[p] \in Nat /\ start'[p] <= Len(s)
      /\ retval' \in [Proc -> Nat \cup {-1}] /\ retval'[p] \in Nat
      /\ retval'[p] <= Len(s) /\ (d # -1 => retval'[p] <= start'[p])
      /\ \A q \in Proc \ {p} : start'[q] = start[q] /\ retval'[q] = retval[q]
  <2>1. /\ retval'[p] = retval[p] + n /\ \A q \in Proc \ {p} : retval'[q] = retval[q]
        /\ retval' \in [Proc -> Nat \cup {-1}]
    BY <1>3, <1>5 DEF CallersOK
  <2>2. retval[p] + n \in Nat /\ retval[p] + n <= Len(s)
    BY <1>5
  <2>3. CASE d = -1
    BY <1>3, <1>4, <1>5, <2>1, <2>2, <2>3 DEF CallersOK
  <2>4. CASE d # -1
    <3>1. from + d + 1 \in Nat /\ from + d + 1 <= Len(s) /\ retval[p] + n <= from + d + 1
      BY <1>5, <1>6, <2>4
    <3> QED BY <1>3, <1>4, <2>1, <2>2, <2>4, <3>1 DEF CallersOK
  <2> QED BY <2>3, <2>4
<1>10. scan' \in [Proc -> Scanned]
  <2>1. scan \in [Proc -> Scanned] /\ <<>> \in Scanned /\ Torn \in Scanned
    BY <1>3 DEF CallersOK, Scanned
  <2>2. scan' = scan \/ scan' = [q \in Proc |-> IF scan[q] = <<>> THEN <<>> ELSE Torn]
    BY <1>1 DEF Turn, LineGrows, LineEnds
  <2> QED BY <2>1, <2>2
<1>11. CallersOK'
  BY <1>2, <1>3, <1>9, <1>10 DEF CallersOK
<1>12. \A q \in Proc \ {p} : pc'[q] = pc[q]
  BY <1>3, <1>4 DEF LockInv
<1>13. OthersSame(p)
  BY <1>2, <1>9, <1>12 DEF OthersSame
<1>14. \A q \in Proc \ {p} : WriteOK(q)' /\ ReadOK(q)'
  <2>1. Keeps(mem, mem', CopyPtrs \ {copy[p]})
    BY <1>1 DEF Keeps, Turn, RestKept
  <2> QED BY <1>2, <1>13, <2>1, OthersKept
<1>15. /\ copy'[p] = copy[p] /\ mem'[copy[p]] = s /\ hit'[p] = <<>>
       /\ d = -1 => pc'[p] = "wunlock"
       /\ d # -1 => pc'[p] = "wloop" /\ working'.size = 0
  BY <1>1, <1>2, <1>3, <1>4 DEF Keeps, Turn, Taking, RestKept, LockInv
<1>16. WriteOK(p)'
  <2>1. CASE d = -1
    BY <1>3, <1>9, <1>15, <2>1 DEF WriteOK, Writing
  <2>2. CASE d # -1
    BY <1>3, <1>9, <1>15, <2>2 DEF WriteOK, Writing
  <2> QED BY <2>1, <2>2
<1>17. ReadOK(p)'
  BY <1>15 DEF ReadOK
<1> QED BY <1>8, <1>11, <1>14, <1>16, <1>17 DEF DevInv

LEMMA DevInvStep == ~KreallocFails /\ DevInv /\ [Next]_vars => DevInv'
<1> SUFFICES ASSUME ~KreallocFails, DevInv, [Next]_vars PROVE DevInv'
  OBVIOUS
<1>1. LockInv'
  BY LockInvStep DEF DevInv
<1>2. CASE Load
  BY <1>1, <1>2, LoadKeeps
<1>3. CASE Unload
  BY <1>1, <1>3, UnloadKeeps
<1>4. ASSUME NEW p \in Proc, Calls(p) PROVE DevInv'
  BY <1>1, <1>4, OpenKeeps, WriteCopyKeeps, StartKeeps, InterruptedKeeps DEF Calls
<1>5. ASSUME NEW p \in Proc, Locking(p) PROVE DevInv'
  BY <1>1, <1>5, AcquireKeeps
<1>6. ASSUME NEW p \in Proc, Holding(p) PROVE DevInv'
  BY <1>1, <1>6, WriteChunkKeeps, WriteFailsKeeps, WriteReturnKeeps, ReadEOFKeeps,
     ReadFindKeeps, ReadCopyKeeps, SeekKeeps DEF Holding
<1>7. ASSUME NEW p \in Proc, ReadFault(p) PROVE DevInv'
  BY <1>1, <1>7, ReadFaultKeeps
<1>8. CASE UNCHANGED vars
  <2>1. UNCHANGED <<loaded, ring, working, lock, mem, pc>>
    BY <1>8 DEF vars
  <2>2. UNCHANGED <<pos, copy, start, retval, hit, writes, accepted, scan, leaked>>
    BY <1>8 DEF vars
  <2>3. RingPtrs' = RingPtrs /\ CopyPtrs' = CopyPtrs
    BY <2>1, <2>2 DEF RingPtrs, CopyPtrs
  <2>4. DeviceOK'
    BY <2>1, <2>2, <2>3 DEF DevInv, DeviceOK
  <2>5. CallersOK'
    BY <2>2 DEF DevInv, CallersOK
  <2>6. \A p \in Proc : WriteOK(p)' /\ ReadOK(p)'
    BY <2>1, <2>2, <2>3 DEF DevInv, WriteOK, ReadOK
  <2> QED BY <1>1, <2>4, <2>5, <2>6 DEF DevInv
<1> QED BY <1>2, <1>3, <1>4, <1>5, <1>6, <1>7, <1>8 DEF Next

LEMMA DevInvHolds == ASSUME ~KreallocFails PROVE Spec => []DevInv
<1>1. DevInv /\ [Next]_vars => DevInv'
  BY DevInvStep
<1> QED BY <1>1, DevInvInit, PTL DEF Spec

(* The types of all the variables.  In particular the byte counts of the
   driver stay natural numbers and its return values stay counts or errors. *)
THEOREM TypeCorrect == ASSUME ~KreallocFails PROVE Spec => []TypeOK
<1>1. DevInv => TypeOK
  <2> SUFFICES ASSUME DevInv PROVE TypeOK
    OBVIOUS
  <2>1. /\ loaded \in BOOLEAN /\ RingOK(ring) /\ CallersOK /\ LockInv
        /\ Held(mem, RingPtrs, working, CopyPtrs, leaked)
        /\ writes \in 0 .. MaxWrites /\ accepted \in Seq(Byte)
    BY DEF DevInv, DeviceOK
  <2>2. ring.buff_size \in Nat
    <3>1. 0 \in Slot /\ N \in 0 .. N
      BY NAssumption DEF Slot
    <3>2. ring \in Ring(Stored) /\ Sized(Stored)
      BY <2>1, StoredIs DEF RingOK
    <3>3. \A k \in 0 .. N : BytesBefore(ring, 0)[k] \in Nat
      BY <3>1, <3>2, BytesAre
    <3> QED BY <2>1, <3>1, <3>3 DEF RingOK, Exact
  <2>3. ring \in [entry : [Slot -> [buffptr : Address, size : Nat]],
                  in_offs : Slot, out_offs : Slot, full : BOOLEAN, buff_size : Nat]
    <3>1. Stored \subseteq [buffptr : Address, size : Nat]
      BY DEF Stored, EmptyEntry, Address
    <3> QED BY <2>1, <2>2, <3>1 DEF RingOK, Ring
  <2>4. \A p \in Proc : hit[p] = <<>> \/ hit[p] \in Ptr \X Nat \X Nat
    BY <2>1 DEF CallersOK, Found
  <2>5. \A p \in Proc : scan[p] = Torn \/ scan[p] \in Seq(Byte)
    BY <2>1 DEF CallersOK, Scanned
  <2>6. leaked \subseteq Ptr
    BY <2>1 DEF Held
  <2>7. pc \in [Proc -> {"closed", "idle", "wlock", "wloop", "wunlock", "rlock", "rfind",
                         "rcopy", "slock", "sbody"}]
    BY <2>1 DEF LockInv, Labels, Critical
  <2> QED BY <2>1, <2>3, <2>4, <2>5, <2>6, <2>7 DEF TypeOK, Held, CallersOK, LockInv
<1> QED BY <1>1, DevInvHolds, PTL

(* Every allocated buffer has exactly one owner, on every path through the
   driver and for any number of processes: nothing is freed twice, nothing is
   used after it was freed, and nothing is lost but what a reload loses. *)
THEOREM BuffersOwned == ASSUME ~KreallocFails PROVE Spec => []OneOwner
<1>1. DevInv => OneOwner
  <2> SUFFICES ASSUME DevInv PROVE OneOwner
    OBVIOUS
  <2>1. /\ RingOK(ring) /\ CallersOK /\ Held(mem, RingPtrs, working, CopyPtrs, leaked)
    BY DEF DevInv, DeviceOK
  <2>2. WorkingPtr = Used(working)
    BY DEF WorkingPtr, Used
  <2>3. \A i, j \in 0 .. Count(ring) - 1 :
          LET e(k) == ring.entry[SlotAt(ring, k)]
          IN  i # j /\ e(i).buffptr # ZERO_SIZE_PTR => e(i).buffptr # e(j).buffptr
    BY <2>1 DEF RingOK, Distinct, PtrAt
  <2> QED BY <2>1, <2>2, <2>3 DEF OneOwner, Held, CallersOK
<1> QED BY <1>1, DevInvHolds, PTL

(* What a read copies to its caller lies inside a buffer that is allocated,
   whatever other calls came between its lookup and its copy. *)
THEOREM ReadsStayInBounds == ASSUME ~KreallocFails PROVE Spec => []ReadsInBounds
<1>1. DevInv => ReadsInBounds
  BY DEF DevInv, DeviceOK, ReadOK, Held, ReadsInBounds
<1> QED BY <1>1, DevInvHolds, PTL


----------------------------------------------------------------------------
(* The contents.  All that is said of lines is said of callers that pass at
   most one newline to a write. *)
OneLine == \A w \in Payload : \A i, j \in DOMAIN w : w[i] = NL /\ w[j] = NL => i = j

NoNewline(c) == \A i \in DOMAIN c : c[i] # NL
IsLine(c) == Len(c) > 0 /\ \A i \in DOMAIN c : c[i] = NL <=> i = Len(c)

(* A call of write has a payload in its copy buffer.  What it has stored is
   what it counts, and ends with the newline if there was a turn before. *)
CopyOK(p) == pc[p] \in Writing =>
  LET s == mem[copy[p]]
  IN  /\ \E w \in Payload : Len(s) = Len(w)
      /\ \A i, j \in DOMAIN s : s[i] = NL /\ s[j] = NL => i = j
      /\ pc[p] = "wloop" => retval[p] = start[p] /\ (start[p] # 0 => s[start[p]] = NL)

LinesOK == (\A k \in DOMAIN Commands : IsLine(Commands[k])) /\ NoNewline(Unfinished)

LineInv == LinesOK /\ \A p \in Proc : CopyOK(p)

(* A scan that was not disturbed, and what the lookup of a read found. *)
ScanOK(p) ==
  /\ pc[p] = "closed" => pos[p] = 0 /\ scan[p] = <<>>
  /\ scan[p] # Torn => pos[p] = Len(scan[p]) /\ IsPrefix(scan[p], FlattenSeq(Commands))

HitOK(p) == pc[p] = "rcopy" =>
  \E k \in 0 .. Count(ring) - 1 :
    /\ hit[p][1] = PtrAt(ring, k) /\ ByteIs(ring, pos[p], k, hit[p][2])
    /\ hit[p][2] + hit[p][3] <= ring.entry[SlotAt(ring, k)].size


CommandsFact ==
  /\ Commands = IF loaded THEN CommandsOf(mem, ring) ELSE <<>>
  /\ Unfinished = IF loaded THEN TextOf(mem, working) ELSE <<>>

LEMMA CommandsAre == CommandsFact /\ CommandsFact'
<1>1. CommandsFact
  <2>1. /\ DOMAIN Entries(ring) = 1 .. Count(ring)
        /\ \A k \in 1 .. Count(ring) :
             Content(Entries(ring)[k]) = ContentOf(mem, ring.entry[SlotAt(ring, k - 1)])
    BY DEF Entries, Content, ContentOf
  <2> QED BY <2>1 DEF CommandsFact, Commands, CommandsOf, Unfinished, TextOf
<1>2. CommandsFact'
  BY <1>1, PTL
<1> QED BY <1>1, <1>2

LEMMA ContentsType ==
  ASSUME DevInv
  PROVE  /\ Commands \in Seq(Seq(Byte)) /\ Unfinished \in Seq(Byte) /\ Len(Commands) \in 0 .. N
         /\ loaded => Len(Commands) = Count(ring) /\ (Len(Commands) = N <=> ring.full)
<1>1. CASE loaded
  <2>1. RingOK(ring) /\ Held(mem, Live(ring), working, CopyPtrs, leaked)
    BY <1>1 DEF DevInv, DeviceOK, RingPtrs, Live
  <2>2. Commands = CommandsOf(mem, ring) /\ Unfinished = TextOf(mem, working)
    BY <1>1, CommandsAre DEF CommandsFact
  <2>3. /\ CommandsOf(mem, ring) \in Seq(Seq(Byte)) /\ Len(CommandsOf(mem, ring)) = Count(ring)
        /\ Count(ring) \in 0 .. N /\ (Count(ring) = N <=> ring.full)
    BY <2>1, CommandsType
  <2>4. TextOf(mem, working) \in Seq(Byte)
    BY <2>1 DEF TextOf, Held, Used
  <2> QED BY <2>2, <2>3, <2>4
<1>2. CASE ~loaded
  <2>1. Commands = <<>> /\ Unfinished = <<>>
    BY <1>2, CommandsAre DEF CommandsFact
  <2> QED BY <1>2, <2>1, NAssumption
<1> QED BY <1>1, <1>2

LEMMA ContentsKept ==
  ASSUME DevInv, UNCHANGED <<loaded, ring, working>>, Keeps(mem, mem', RingPtrs \cup Used(working))
  PROVE  Commands' = Commands /\ Unfinished' = Unfinished
<1>1. /\ Commands' = IF loaded THEN CommandsOf(mem', ring) ELSE <<>>
      /\ Unfinished' = IF loaded THEN TextOf(mem', working) ELSE <<>>
  BY CommandsAre DEF CommandsFact
<1>2. CASE loaded
  <2>1. RingOK(ring) /\ RingPtrs = Live(ring)
    BY <1>2 DEF DevInv, DeviceOK, RingPtrs, Live
  <2>2. CommandsOf(mem', ring) = CommandsOf(mem, ring)
    BY <2>1, CommandsKept DEF Keeps
  <2>3. TextOf(mem', working) = TextOf(mem, working)
    BY DEF TextOf, Keeps, Used
  <2> QED BY <1>1, <2>2, <2>3, CommandsAre DEF CommandsFact
<1>3. CASE ~loaded
  BY <1>1, <1>3, CommandsAre DEF CommandsFact
<1> QED BY <1>2, <1>3

(* The step of a process p that is not a turn of aesd_write's loop. *)
Besides(p) ==
  /\ UNCHANGED <<loaded, ring, working>>
  /\ Keeps(mem, mem', RingPtrs \cup Used(working)) /\ Keeps(mem, mem', CopyPtrs \ {copy[p]})
  /\ \A q \in Proc \ {p} : /\ pc'[q] = pc[q] /\ copy'[q] = copy[q] /\ start'[q] = start[q]
                           /\ retval'[q] = retval[q] /\ pos'[q] = pos[q] /\ scan'[q] = scan[q]
                           /\ hit'[q] = hit[q]

LEMMA StepsBesides ==
  ASSUME ~KreallocFails, DevInv, NEW p \in Proc,
         Calls(p) \/ Locking(p) \/ Holding(p) \/ ReadFault(p), ~WriteChunk(p)
  PROVE  Besides(p)
<1>1. /\ pc \in [Proc -> Labels] /\ CallersOK /\ Held(mem, RingPtrs, working, CopyPtrs, leaked)
      /\ DOMAIN mem = RingPtrs \cup Used(working) \cup CopyPtrs \cup leaked
  BY DEF DevInv, LockInv, DeviceOK, Held
<1>2. ASSUME mem' = mem \/ (p \in Proc /\ Keeps(mem, mem', DOMAIN mem))
      PROVE  Keeps(mem, mem', RingPtrs \cup Used(working)) /\ Keeps(mem, mem', CopyPtrs \ {copy[p]})
  BY <1>1, <1>2 DEF Keeps
<1>3. ASSUME mem' = Freed(mem, {copy[p]})
      PROVE  Keeps(mem, mem', RingPtrs \cup Used(working)) /\ Keeps(mem, mem', CopyPtrs \ {copy[p]})
  <2>1. Keeps(mem, mem', DOMAIN mem \ {copy[p]})
    BY <1>3, FreedIs
  <2>2. copy[p] \notin RingPtrs /\ copy[p] \notin Used(working)
    <3>1. copy[p] \in CopyPtrs \/ copy[p] = NULL
      BY DEF CopyPtrs
    <3> QED BY <1>1, <3>1, PtrAssumption DEF Held
  <2> QED BY <1>1, <2>1, <2>2 DEF Keeps
<1>4. CASE Open(p) \/ Release(p)
  <2>1. UNCHANGED <<loaded, ring, working, mem>>
    BY <1>4 DEF Open, Release, device
  <2> QED BY <1>1, <1>2, <1>4, <2>1 DEF Open, Release, Goto, Besides, CallersOK
<1>5. CASE ReadStart(p) \/ SeekStart(p) \/ ReadFind(p)
  <2>1. UNCHANGED <<loaded, ring, working, mem, scan>>
    BY <1>5 DEF ReadStart, SeekStart, ReadFind, device, aux
  <2> QED BY <1>1, <1>2, <1>5, <2>1 DEF ReadStart, SeekStart, ReadFind, Goto, Besides, CallersOK
<1>6. CASE Locking(p)
  <2>1. UNCHANGED <<loaded, ring, working, mem, scan>>
    BY <1>6 DEF Locking, Acquire, aux
  <2> QED BY <1>1, <1>2, <1>6, <2>1 DEF Locking, Acquire, Goto, Besides, CallersOK
<1>7. CASE ReadEOF(p) \/ ReadCopy(p) \/ ReadFault(p)
  <2>1. UNCHANGED <<loaded, ring, working, mem>>
    BY <1>7 DEF ReadEOF, ReadCopy, ReadFault
  <2> QED BY <1>1, <1>2, <1>7, <2>1 DEF ReadEOF, ReadCopy, ReadFault, aux, Goto, Besides, CallersOK
<1>8. CASE SeekToCommand(p) \/ Llseek(p)
  <2>1. UNCHANGED <<loaded, ring, working, mem, copy, start, retval, hit>>
        /\ pc' = [pc EXCEPT ![p] = "idle"]
    BY <1>8 DEF SeekToCommand, Llseek, Goto
  <2>2. UNCHANGED <<pos, scan>> \/ \E to : Moved(p, to)
    BY <1>8 DEF SeekToCommand, Llseek
  <2>3. \A q \in Proc \ {p} : pos'[q] = pos[q] /\ scan'[q] = scan[q]
    BY <1>1, <2>2 DEF Moved, CallersOK
  <2> QED BY <1>1, <1>2, <2>1, <2>3 DEF Besides, CallersOK
<1>9. CASE WriteCopy(p)
  <2>1. Keeps(mem, mem', DOMAIN mem)
    <3>1. PICK s : mem' = Allocated(mem, Fresh, s)
      BY <1>9 DEF WriteCopy
    <3>2. Fresh \notin DOMAIN mem
      BY <1>9 DEF WriteCopy, Fresh, Exhausted
    <3> QED BY <3>1, <3>2 DEF Allocated, Keeps
  <2>2. Keeps(mem, mem', RingPtrs \cup Used(working)) /\ Keeps(mem, mem', CopyPtrs \ {copy[p]})
    BY <1>2, <2>1
  <2>3. /\ UNCHANGED <<loaded, ring, working, pos, scan, hit>>
        /\ pc' = [pc EXCEPT ![p] = "wlock"] /\ copy' = [copy EXCEPT ![p] = Fresh]
        /\ start' = [start EXCEPT ![p] = 0] /\ retval' = [retval EXCEPT ![p] = 0]
    BY <1>9 DEF WriteCopy, Goto
  <2> QED BY <1>1, <2>2, <2>3 DEF Besides, CallersOK
<1>10. CASE Interrupted(p) \/ WriteReturn(p)
  <2>1. /\ UNCHANGED <<loaded, ring, working, pos, scan, hit>>
        /\ mem' = Freed(mem, {copy[p]}) /\ copy' = [copy EXCEPT ![p] = NULL]
        /\ pc' = [pc EXCEPT ![p] = "idle"]
    BY <1>10 DEF Interrupted, WriteReturn, Goto, aux
  <2>2. \/ UNCHANGED <<start, retval>>
        \/ start' = [start EXCEPT ![p] = 0] /\ retval' = [retval EXCEPT ![p] = 0]
    BY <1>10 DEF Interrupted, WriteReturn
  <2> QED BY <1>1, <1>3, <2>1, <2>2 DEF Besides, CallersOK
<1>11. CASE WriteFails(p)
  <2>1. /\ UNCHANGED <<loaded, ring, working, pos, scan, hit, copy, start>>
        /\ mem' = Freed(mem, WorkingPtr) /\ retval' = [retval EXCEPT ![p] = -1]
        /\ pc' = [pc EXCEPT ![p] = "wunlock"] /\ WorkingPtr = {}
    BY <1>11 DEF WriteFails, Goto, aux, MayFail, MustFail, WorkingPtr
  <2>2. Keeps(mem, mem', DOMAIN mem)
    <3>1. Keeps(mem, mem', DOMAIN mem \ {})
      BY <2>1, FreedIs
    <3> QED BY <3>1
  <2>3. Keeps(mem, mem', RingPtrs \cup Used(working)) /\ Keeps(mem, mem', CopyPtrs \ {copy[p]})
    BY <1>2, <2>2
  <2> QED BY <1>1, <2>1, <2>3 DEF Besides, CallersOK
<1> QED
  BY <1>4, <1>5, <1>6, <1>7, <1>8, <1>9, <1>10, <1>11 DEF Calls, Holding


LEMMA TurnContents ==
  ASSUME DevInv, NEW p \in Proc, NEW s, NEW from, NEW d, NEW n, NEW v, Turn(p, s, from, d, n, v)
  PROVE  /\ d = -1 => Commands' = Commands /\ Unfinished' = Unfinished \o v
         /\ d # -1 => Commands' = Logged(Commands, Unfinished \o v) /\ Unfinished' = <<>>
<1>1. loaded /\ loaded'
  BY DEF Turn, RestKept
<1>2. /\ Commands = CommandsOf(mem, ring) /\ Unfinished = TextOf(mem, working)
      /\ Commands' = CommandsOf(mem', ring') /\ Unfinished' = TextOf(mem', working')
  BY <1>1, CommandsAre DEF CommandsFact
<1>3. CASE d = -1
  BY <1>2, <1>3 DEF Turn, LineGrows
<1>4. CASE d # -1
  <2>1. TextOf(mem', working') = <<>>
    BY <1>4 DEF Turn, LineEnds, TextOf
  <2>2. CommandsOf(mem', ring') = Logged(CommandsOf(mem, ring), TextOf(mem, working) \o v)
    BY <1>4 DEF Turn, LineEnds
  <2> QED BY <1>2, <1>4, <2>1, <2>2
<1> QED BY <1>3, <1>4

LEMMA ReloadContents ==
  ASSUME Load \/ Unload
  PROVE  Commands' = <<>> /\ Unfinished' = <<>>
<1>1. CASE Load
  <2>1. ring' = InitRing /\ working' = NoBuffer
    BY <1>1 DEF Load
  <2>2. Count(ring') = 0
    BY <2>1, StoredIs, EmptyRing
  <2>3. CommandsOf(mem', ring') = <<>>
    BY <2>2 DEF CommandsOf
  <2>4. TextOf(mem', working') = <<>>
    BY <2>1 DEF TextOf, NoBuffer
  <2> QED BY <2>3, <2>4, CommandsAre DEF CommandsFact
<1>2. CASE Unload
  BY <1>2, CommandsAre DEF CommandsFact, Unload
<1> QED BY <1>1, <1>2

(* Every step is the module's, a process's turn, or a process's other step. *)
OtherStep(p) ==
  /\ Besides(p) /\ ~WriteChunk(p)
  /\ Calls(p) \/ Locking(p) \/ Holding(p) \/ ReadFault(p)

LEMMA StepIs ==
  ASSUME ~KreallocFails, DevInv, [Next]_vars
  PROVE  \/ Load \/ Unload \/ UNCHANGED vars
         \/ \E p \in Proc : WriteChunk(p) \/ OtherStep(p)
<1>1. ASSUME NEW p \in Proc, Calls(p) \/ Locking(p) \/ Holding(p) \/ ReadFault(p), ~WriteChunk(p)
      PROVE  OtherStep(p)
  BY <1>1, StepsBesides DEF OtherStep
<1> QED BY <1>1 DEF Next

LEMMA OtherStepKeepsContents ==
  ASSUME DevInv, NEW p \in Proc, OtherStep(p)
  PROVE  UNCHANGED <<Commands, Unfinished>>
  BY ContentsKept DEF Besides, OtherStep

LEMMA StutterKeepsContents ==
  ASSUME DevInv, UNCHANGED vars
  PROVE  UNCHANGED <<Commands, Unfinished>>
<1>1. UNCHANGED <<loaded, ring, working, mem>>
  BY DEF vars
<1>2. Keeps(mem, mem', RingPtrs \cup Used(working))
  BY <1>1 DEF DevInv, DeviceOK, Held, Keeps
<1> QED BY <1>1, <1>2, ContentsKept

----------------------------------------------------------------------------
(* Lines. *)
LEMMA LineJoined ==
  ASSUME NEW u \in Seq(Byte), NoNewline(u), NEW v \in Seq(Byte)
  PROVE  /\ NoNewline(v) => NoNewline(u \o v)
         /\ IsLine(v) => IsLine(u \o v)
<1>1. PICK k, l \in Nat : k = Len(u) /\ l = Len(v)
  OBVIOUS
<1>2. /\ DOMAIN (u \o v) = 1 .. k + l /\ Len(u \o v) = k + l /\ DOMAIN u = 1 .. k /\ DOMAIN v = 1 .. l
      /\ \A i \in 1 .. k : (u \o v)[i] = u[i]
      /\ \A i \in k + 1 .. k + l : (u \o v)[i] = v[i - k]
  BY <1>1
<1>3. ASSUME NEW i \in 1 .. k + l
      PROVE  \/ i \in 1 .. k /\ (u \o v)[i] = u[i] /\ (l > 0 => i # k + l)
             \/ i - k \in 1 .. l /\ (u \o v)[i] = v[i - k] /\ (i - k = l <=> i = k + l)
  BY <1>2
<1> HIDE <1>2
<1>4. NoNewline(v) => NoNewline(u \o v)
  BY <1>2, <1>3 DEF NoNewline
<1>5. IsLine(v) => IsLine(u \o v)
  BY <1>1, <1>2, <1>3 DEF NoNewline, IsLine
<1> QED BY <1>4, <1>5

(* What a turn takes: with one newline in the copy buffer the first turn ends
   at it and the second takes the rest. *)
TakesLine(p, s, from, d, n, v) ==
  /\ v \in Seq(Byte) /\ Len(v) = n /\ n \in Nat /\ d \in Int
  /\ retval[p] = from /\ from + n <= Len(s) /\ from \in Nat
  /\ \E w \in Payload : Len(s) = Len(w)
  /\ \A i, j \in DOMAIN s : s[i] = NL /\ s[j] = NL => i = j
  /\ d = -1 => NoNewline(v) /\ from + n = Len(s)
  /\ d # -1 => from = 0 /\ n = d + 1 /\ IsLine(v) /\ s[n] = NL

LEMMA TurnTakesLine ==
  ASSUME NEW p \in Proc, CopyOK(p),
         NEW s, NEW from, NEW d, NEW n, NEW v, Turn(p, s, from, d, n, v)
  PROVE  TakesLine(p, s, from, d, n, v)
<1>1. Taking(p, s, from, d, n, v)
  BY DEF Turn
<1>2. /\ \E w \in Payload : Len(s) = Len(w)
      /\ \A i, j \in DOMAIN s : s[i] = NL /\ s[j] = NL => i = j
      /\ retval[p] = from /\ (from # 0 => s[from] = NL)
  BY <1>1 DEF CopyOK, Taking, Writing
<1>3. /\ s \in Seq(Byte) /\ from \in Nat /\ Len(s) \in Nat /\ from + n <= Len(s) /\ n \in Nat
      /\ v = SubSeq(s, from + 1, from + n) /\ DOMAIN s = 1 .. Len(s)
  BY <1>1 DEF Taking
<1>4. /\ v \in Seq(Byte) /\ Len(v) = n /\ DOMAIN v = 1 .. n
      /\ \A i \in 1 .. n : v[i] = s[from + i]
  BY <1>3
<1>5. d \in Int /\ d >= -1 /\ Chunked(s, from, d, n)
  BY <1>1 DEF Taking, Chunked
<1>6. CASE d = -1
  <2>1. /\ n = Len(s) - from
        /\ \A i \in from + 1 .. Len(s) : s[i] # NL
    BY <1>5, <1>6 DEF Chunked
  <2>2. from + n = Len(s)
    BY <1>3, <2>1
  <2>3. NoNewline(v)
    <3>1. \A i \in 1 .. n : from + i \in from + 1 .. Len(s)
      BY <1>3, <2>2
    <3> QED BY <1>4, <2>1, <3>1 DEF NoNewline
  <2> QED BY <1>2, <1>3, <1>4, <1>5, <1>6, <2>2, <2>3, Zenon DEF TakesLine
<1>7. CASE d # -1
  <2>1. /\ n = d - from + 1 /\ from + d + 1 <= Len(s) /\ s[from + d + 1] = NL
        /\ \A i \in from + 1 .. from + d : s[i] # NL
    BY <1>5, <1>7 DEF Chunked
  <2>2. from + d + 1 \in DOMAIN s /\ (from # 0 => from \in DOMAIN s /\ from # from + d + 1)
    BY <1>3, <1>5, <1>7, <2>1
  <2>3. from = 0
    BY <1>2, <2>1, <2>2
  <2>4. n = d + 1 /\ s[n] = NL /\ n > 0
    <3>1. 0 + d + 1 = d + 1 /\ d - 0 + 1 = d + 1 /\ d + 1 > 0
      BY <1>5, <1>7
    <3> QED BY <2>1, <2>3, <3>1
  <2>5. IsLine(v)
    <3>1. ASSUME NEW i \in 1 .. n PROVE v[i] = NL <=> i = n
      <4>1. v[i] = s[i]
        BY <1>4, <2>3
      <4>2. i # n => i \in from + 1 .. from + d
        BY <1>5, <2>3, <2>4
      <4> QED BY <2>1, <2>4, <4>1, <4>2
    <3> QED BY <1>4, <2>4, <3>1 DEF IsLine
  <2> QED BY <1>2, <1>3, <1>4, <1>5, <1>7, <2>3, <2>4, <2>5 DEF TakesLine
<1> QED BY <1>6, <1>7

LEMMA LineInvInit == Init => LineInv
<1> SUFFICES ASSUME Init PROVE LineInv
  OBVIOUS
<1>1. loaded = FALSE /\ \A p \in Proc : pc[p] = "closed"
  BY DEF Init
<1>2. Commands = <<>> /\ Unfinished = <<>>
  BY <1>1, CommandsAre DEF CommandsFact
<1> QED BY <1>1, <1>2 DEF LineInv, LinesOK, CopyOK, Writing, NoNewline

LEMMA TurnKeepsLines ==
  ASSUME DevInv, DevInv', LineInv, NEW p \in Proc, WriteChunk(p)
  PROVE  LineInv'
<1>1. PICK s, from, d, n, v : Turn(p, s, from, d, n, v)
  BY TurnIs
<1>2. TakesLine(p, s, from, d, n, v)
  BY <1>1, TurnTakesLine DEF LineInv
<1>3. /\ Commands \in Seq(Seq(Byte)) /\ Unfinished \in Seq(Byte)
      /\ NoNewline(Unfinished) /\ \A k \in DOMAIN Commands : IsLine(Commands[k])
  BY ContentsType DEF LineInv, LinesOK
<1>4. LinesOK'
  <2>1. CASE d = -1
    <3>1. Commands' = Commands /\ Unfinished' = Unfinished \o v
      BY <1>1, <2>1, TurnContents
    <3>2. NoNewline(Unfinished \o v)
      BY <1>2, <1>3, <2>1, LineJoined DEF TakesLine
    <3> QED BY <1>3, <3>1, <3>2 DEF LinesOK
  <2>2. CASE d # -1
    <3>1. Commands' = Logged(Commands, Unfinished \o v) /\ Unfinished' = <<>>
      BY <1>1, <2>2, TurnContents
    <3>2. PICK x \in Seq(Byte) : x = Unfinished \o v /\ IsLine(x)
      <4>1. v \in Seq(Byte) /\ IsLine(v)
        BY <1>2, <2>2 DEF TakesLine
      <4>2. Unfinished \o v \in Seq(Byte) /\ IsLine(Unfinished \o v)
        BY <1>3, <4>1, LineJoined
      <4> QED BY <4>2
    <3>3. PICK log \in Seq(Seq(Byte)) :
            /\ log = IF Len(Commands) = N THEN Tail(Commands) ELSE Commands
            /\ \A k \in DOMAIN log : IsLine(log[k])
      <4>1. CASE Len(Commands) = N
        <5>1. Commands # <<>>
          BY <4>1, NAssumption
        <5>2. /\ Tail(Commands) \in Seq(Seq(Byte))
              /\ \A k \in DOMAIN Tail(Commands) : k + 1 \in DOMAIN Commands /\ Tail(Commands)[k] = Commands[k + 1]
          BY <1>3, <5>1
        <5> QED BY <1>3, <4>1, <5>2
      <4>2. CASE Len(Commands) # N
        BY <1>3, <4>2
      <4> QED BY <4>1, <4>2
    <3>4. Commands' = Append(log, x)
      BY <3>1, <3>2, <3>3 DEF Logged
    <3>5. \A k \in DOMAIN Append(log, x) : IsLine(Append(log, x)[k])
      BY <3>2, <3>3
    <3> QED BY <3>1, <3>4, <3>5 DEF LinesOK, NoNewline
  <2> QED BY <2>1, <2>2
<1>5. /\ pc[p] = "wloop" /\ copy[p] \in CopyPtrs /\ copy' = copy /\ s = mem[copy[p]]
      /\ Keeps(mem, mem', CopyPtrs) /\ retval' = [retval EXCEPT ![p] = @ + n]
      /\ LockInv /\ CallersOK
      /\ d = -1 => pc' = [pc EXCEPT ![p] = "wunlock"] /\ start' = start
      /\ d # -1 => pc' = pc /\ start' = [start EXCEPT ![p] = from + d + 1]
  BY <1>1 DEF Turn, Taking, RestKept, LineGrows, LineEnds, DevInv
<1>6. CopyOK(p)'
  <2>1. mem'[copy'[p]] = s
    BY <1>5 DEF Keeps
  <2>2. CASE d = -1
    <3>1. pc'[p] = "wunlock"
      BY <1>5, <2>2 DEF LockInv
    <3> QED BY <1>2, <2>1, <3>1 DEF CopyOK, TakesLine
  <2>3. CASE d # -1
    <3>1. retval'[p] = 0 + n /\ start'[p] = 0 + d + 1 /\ n = d + 1 /\ n \in Nat /\ d \in Int /\ s[n] = NL
      BY <1>2, <1>5, <2>3 DEF CallersOK, TakesLine
    <3>2. retval'[p] = start'[p] /\ s[start'[p]] = NL
      BY <3>1
    <3> QED BY <1>2, <2>1, <3>2 DEF CopyOK, TakesLine
  <2> QED BY <2>2, <2>3
<1>7. ASSUME NEW q \in Proc \ {p} PROVE CopyOK(q)'
  <2>1. pc'[q] = pc[q] /\ retval'[q] = retval[q] /\ start'[q] = start[q] /\ copy'[q] = copy[q]
    BY <1>5 DEF LockInv, CallersOK
  <2>2. pc[q] \in Writing => copy[q] \in CopyPtrs
    BY DEF DevInv, WriteOK, CopyPtrs
  <2>3. CopyOK(q)
    BY DEF LineInv
  <2> QED BY <1>5, <2>1, <2>2, <2>3 DEF CopyOK, Keeps
<1> QED BY <1>4, <1>6, <1>7 DEF LineInv


(* Only these steps are, or go, into aesd_write. *)
LEMMA OnlyTheseWrite ==
  ASSUME DevInv, NEW p \in Proc, OtherStep(p), ~(WriteCopy(p) \/ Locking(p) \/ WriteFails(p))
  PROVE  pc'[p] \notin Writing
<1>1. pc \in [Proc -> Labels]
  BY DEF DevInv, LockInv
<1>2. CASE Calls(p) \/ ReadFault(p)
  BY <1>1, <1>2 DEF Calls, Open, Release, ReadStart, SeekStart, Interrupted, ReadFault,
     Goto, Writing
<1>3. CASE Holding(p)
  BY <1>1, <1>3 DEF OtherStep, Holding, WriteReturn, ReadEOF, ReadFind, ReadCopy,
     SeekToCommand, Llseek, Goto, Writing
<1> QED BY <1>2, <1>3 DEF OtherStep

LEMMA CopyAfter ==
  ASSUME ~KreallocFails, OneLine, DevInv, LineInv, NEW p \in Proc, OtherStep(p)
  PROVE  CopyOK(p)'
<1>1. pc \in [Proc -> Labels] /\ CallersOK /\ CopyOK(p) /\ WriteOK(p)
  BY DEF DevInv, LockInv, LineInv
<1>2. CASE WriteCopy(p)
  <2>1. PICK w \in Payload :
          mem' = Allocated(mem, Fresh, [i \in DOMAIN w |-> IF w[i] = NL THEN NL ELSE p])
    BY <1>2 DEF WriteCopy
  <2>2. PICK s : /\ s = [i \in DOMAIN w |-> IF w[i] = NL THEN NL ELSE p]
                 /\ mem' = Allocated(mem, Fresh, s)
    BY <2>1
  <2>3. /\ w \in Seq({NL, "x"})
        /\ \A i, j \in DOMAIN w : w[i] = NL /\ w[j] = NL => i = j
    BY PayloadAssumption DEF OneLine
  <2>4. DOMAIN s = DOMAIN w /\ \A i \in DOMAIN w : s[i] = NL <=> w[i] = NL
    BY <2>2, ProcAssumption
  <2>5. Len(s) = Len(w)
    <3>1. s \in [1 .. Len(w) -> {NL, p}] /\ Len(w) \in Nat
      BY <2>2, <2>3
    <3> QED BY <3>1
  <2>6. pc'[p] = "wlock" /\ mem'[copy'[p]] = s
    BY <1>1, <1>2, <2>2 DEF WriteCopy, Goto, Allocated, CallersOK
  <2>7. (\E x \in Payload : Len(s) = Len(x)) /\ \A i, j \in DOMAIN s : s[i] = NL /\ s[j] = NL => i = j
    BY <2>3, <2>4, <2>5
  <2> QED BY <2>6, <2>7 DEF CopyOK
<1>3. CASE Locking(p)
  <2>1. PICK from, to :
          /\ <<from, to>> \in {<<"wlock", "wloop">>, <<"rlock", "rfind">>, <<"slock", "sbody">>}
          /\ Acquire(p, from, to)
    BY <1>3 DEF Locking
  <2>2. /\ pc[p] = from /\ pc'[p] = to /\ UNCHANGED <<mem, copy, start, retval>>
    BY <1>1, <2>1 DEF Acquire, Goto
  <2>3. CASE from = "wlock"
    <3>1. to = "wloop" /\ start[p] = 0 /\ retval[p] = 0
      BY <1>1, <2>1, <2>2, <2>3 DEF WriteOK
    <3> QED BY <1>1, <2>2, <2>3, <3>1 DEF CopyOK, Writing
  <2>4. CASE from # "wlock"
    BY <2>1, <2>2, <2>4 DEF CopyOK, Writing
  <2> QED BY <2>3, <2>4
<1>4. CASE WriteFails(p)
  <2>1. /\ pc[p] = "wloop" /\ pc'[p] = "wunlock" /\ copy' = copy
        /\ mem' = Freed(mem, WorkingPtr) /\ WorkingPtr = {}
    BY <1>1, <1>4 DEF WriteFails, Goto, MayFail, MustFail, WorkingPtr
  <2>2. Keeps(mem, mem', DOMAIN mem \ {})
    BY <2>1, FreedIs
  <2>3. copy[p] \in DOMAIN mem
    BY <1>1, <2>1 DEF WriteOK, Writing, DevInv, DeviceOK, Held, CopyPtrs
  <2>4. mem'[copy'[p]] = mem[copy[p]]
    BY <2>1, <2>2, <2>3 DEF Keeps
  <2> QED BY <1>1, <2>1, <2>4 DEF CopyOK, Writing
<1>5. CASE ~(WriteCopy(p) \/ Locking(p) \/ WriteFails(p))
  BY <1>5, OnlyTheseWrite DEF CopyOK
<1> QED BY <1>2, <1>3, <1>4, <1>5

LEMMA OtherStepKeepsLines ==
  ASSUME ~KreallocFails, OneLine, DevInv, LineInv, NEW p \in Proc, OtherStep(p)
  PROVE  LineInv'
<1>1. LinesOK'
  BY OtherStepKeepsContents DEF LineInv, LinesOK
<1>2. CopyOK(p)'
  BY CopyAfter
<1>3. ASSUME NEW q \in Proc \ {p} PROVE CopyOK(q)'
  <2>1. /\ pc'[q] = pc[q] /\ retval'[q] = retval[q] /\ start'[q] = start[q] /\ copy'[q] = copy[q]
        /\ Keeps(mem, mem', CopyPtrs \ {copy[p]})
    BY DEF OtherStep, Besides
  <2>2. pc[q] \in Writing => copy[q] \in CopyPtrs /\ copy[q] # copy[p]
    BY DEF DevInv, WriteOK, CopyPtrs, CallersOK
  <2>3. CopyOK(q)
    BY DEF LineInv
  <2> QED BY <2>1, <2>2, <2>3 DEF CopyOK, Keeps
<1> QED BY <1>1, <1>2, <1>3 DEF LineInv

LEMMA LineInvStep ==
  ASSUME ~KreallocFails, OneLine, DevInv, DevInv', LineInv, [Next]_vars
  PROVE  LineInv'
<1>1. CASE Load \/ Unload
  <2>1. \A p \in Proc : pc[p] = "closed" /\ pc' = pc
    BY <1>1 DEF Load, Unload, DevInv, LockInv
  <2>2. Commands' = <<>> /\ Unfinished' = <<>>
    BY <1>1, ReloadContents
  <2> QED BY <2>1, <2>2 DEF LineInv, LinesOK, CopyOK, Writing, NoNewline
<1>2. CASE UNCHANGED vars
  <2>1. UNCHANGED <<Commands, Unfinished>>
    BY <1>2, StutterKeepsContents
  <2>2. UNCHANGED <<mem, copy, pc, start, retval>>
    BY <1>2 DEF vars
  <2> QED BY <2>1, <2>2 DEF LineInv, LinesOK, CopyOK
<1>3. ASSUME NEW p \in Proc, WriteChunk(p) \/ OtherStep(p) PROVE LineInv'
  BY <1>3, TurnKeepsLines, OtherStepKeepsLines
<1> QED BY <1>1, <1>2, <1>3, StepIs

LEMMA LineInvHolds == ASSUME ~KreallocFails, OneLine PROVE Spec => []LineInv
<1>1. LineInv /\ DevInv /\ DevInv' /\ [Next]_vars => LineInv'
  BY LineInvStep
<1> QED BY <1>1, LineInvInit, DevInvHolds, PTL DEF Spec

(* An entry of the ring is one whole command, as long as no caller passes two
   newlines to one write. *)
THEOREM OneCommandPerEntry ==
  ASSUME ~KreallocFails, OneLine PROVE Spec => []EntriesAreCommands
<1>1. DevInv /\ LineInv => EntriesAreCommands
  <2> SUFFICES ASSUME DevInv, LineInv, loaded, NEW k \in 1 .. Count(ring)
               PROVE  LET e == Entries(ring)[k]
                          c == Content(e)
                      IN  /\ e.size = Len(c) /\ e.size > 0
                          /\ \A i \in DOMAIN c : c[i] = NL <=> i = Len(c)
    BY DEF EntriesAreCommands
  <2>1. /\ Len(Commands) = Count(ring) /\ Commands \in Seq(Seq(Byte)) /\ Count(ring) \in Nat
        /\ RingOK(ring) /\ Measured(mem, ring)
    BY ContentsType DEF DevInv, DeviceOK
  <2>2. PICK e : e = Entries(ring)[k] /\ e = ring.entry[SlotAt(ring, k - 1)] /\ Commands[k] = Content(e)
    <3>1. DOMAIN Entries(ring) = 1 .. Count(ring) /\ Entries(ring)[k] = ring.entry[SlotAt(ring, k - 1)]
      BY DEF Entries
    <3> QED BY <3>1 DEF Commands
  <2>3. IsLine(Commands[k]) /\ Commands[k] \in Seq(Byte)
    BY <2>1 DEF LineInv, LinesOK
  <2>4. e.size # 0
    BY <2>2, <2>3 DEF IsLine, Content
  <2>5. e.size = Len(Content(e))
    <3>1. k - 1 \in 0 .. Count(ring) - 1
      BY <2>1
    <3>2. Len(mem[e.buffptr]) = e.size
      BY <2>1, <2>2, <2>4, <3>1 DEF Measured, PtrAt
    <3> QED BY <2>4, <3>2 DEF Content
  <2> QED BY <2>2, <2>3, <2>5 DEF IsLine
<1> QED BY <1>1, DevInvHolds, LineInvHolds, PTL


----------------------------------------------------------------------------
(* The refinement: the device is a CommandDevice. *)
LEMMA TurnIsDeviceStep ==
  ASSUME DevInv, LineInv, NEW p \in Proc, WriteChunk(p)
  PROVE  [Device!Next]_<<Commands, Unfinished>>
<1>1. PICK s, from, d, n, v : Turn(p, s, from, d, n, v)
  BY TurnIs
<1>2. TakesLine(p, s, from, d, n, v)
  BY <1>1, TurnTakesLine DEF LineInv
<1>3. Unfinished \in Seq(Byte) /\ Commands \in Seq(Seq(Byte))
  BY ContentsType
<1>4. CASE n = 0
  <2>1. d = -1
    BY <1>2, <1>4 DEF TakesLine
  <2>2. Commands' = Commands /\ Unfinished' = Unfinished \o v
    BY <1>1, <2>1, TurnContents
  <2>3. v \in Seq(Byte) /\ Len(v) = 0
    BY <1>2, <1>4 DEF TakesLine
  <2>4. v = <<>>
    BY <2>3, EmptySeq, Zenon
  <2>5. Unfinished \o v = Unfinished
    BY <1>3, <2>4
  <2> QED BY <2>2, <2>5
<1>5. CASE n # 0
  <2>1. v \in Chunk
    <3>1. PICK w \in Payload : Len(s) = Len(w)
      BY <1>2 DEF TakesLine
    <3>2. Len(w) \in Nat
      BY PayloadAssumption
    <3>3. n \in Nat /\ from \in Nat /\ from + n <= Len(s)
      BY <1>2 DEF TakesLine
    <3>4. n \in 1 .. Len(w)
      BY <1>5, <3>1, <3>2, <3>3
    <3>5. v \in Seq(Byte) /\ Len(v) = n
      BY <1>2 DEF TakesLine
    <3>6. v \in [1 .. n -> Byte]
      BY <3>5
    <3>7. \A i \in 1 .. Len(v) - 1 : v[i] # NL
      <4>1. CASE d = -1
        <5>1. NoNewline(v)
          BY <1>2, <4>1 DEF TakesLine
        <5> QED BY <3>3, <3>5, <5>1 DEF NoNewline
      <4>2. CASE d # -1
        <5>1. IsLine(v)
          BY <1>2, <4>2 DEF TakesLine
        <5> QED BY <3>3, <3>5, <5>1 DEF IsLine
      <4> QED BY <4>1, <4>2
    <3>8. v \in UNION {[1 .. k -> Byte] : k \in UNION {1 .. Len(x) : x \in Payload}}
      BY <3>4, <3>6
    <3> QED BY <3>7, <3>8 DEF Chunk
  <2>2. v \in Seq(Byte) /\ Len(v) = n /\ n \in Nat /\ Len(v) \in DOMAIN v
    <3>1. v \in Seq(Byte) /\ Len(v) = n /\ n \in Nat
      BY <1>2 DEF TakesLine
    <3> QED BY <1>5, <3>1
  <2>3. CASE d = -1
    <3>1. Commands' = Commands /\ Unfinished' = Unfinished \o v
      BY <1>1, <2>3, TurnContents
    <3>2. v[Len(v)] # NL
      BY <1>2, <2>2, <2>3 DEF TakesLine, NoNewline
    <3>3. Device!Extend(v)
      BY <3>1, <3>2 DEF Device!Extend, Device!EndsCommand
    <3> QED BY <2>1, <3>3 DEF Device!Next
  <2>4. CASE d # -1
    <3>1. Commands' = Logged(Commands, Unfinished \o v) /\ Unfinished' = <<>>
      BY <1>1, <2>4, TurnContents
    <3>2. v[Len(v)] = NL
      BY <1>2, <2>2, <2>4 DEF TakesLine, IsLine
    <3>3. Device!Complete(v)
      BY <3>1, <3>2 DEF Device!Complete, Device!EndsCommand, Logged
    <3> QED BY <2>1, <3>3 DEF Device!Next
  <2> QED BY <2>3, <2>4
<1> QED BY <1>4, <1>5

LEMMA StepIsDeviceStep ==
  ASSUME ~KreallocFails, DevInv, LineInv, [Next]_vars
  PROVE  [Device!Next]_<<Commands, Unfinished>>
<1>1. CASE Load \/ Unload
  BY <1>1, ReloadContents DEF Device!Next, Device!Reset
<1>2. CASE UNCHANGED vars
  BY <1>2, StutterKeepsContents
<1>3. ASSUME NEW p \in Proc, WriteChunk(p) PROVE [Device!Next]_<<Commands, Unfinished>>
  BY <1>3, TurnIsDeviceStep
<1>4. ASSUME NEW p \in Proc, OtherStep(p) PROVE [Device!Next]_<<Commands, Unfinished>>
  BY <1>4, OtherStepKeepsContents
<1> QED BY <1>1, <1>2, <1>3, <1>4, StepIs

(* The driver implements the abstract device: whatever the interleaving of
   its callers, interrupted calls and failing allocations, its contents change
   only by whole appends, whole commands and reloads. *)
THEOREM ImplementsDevice ==
  ASSUME ~KreallocFails, OneLine PROVE Spec => DeviceSpec
<1>1. Init => Device!Init
  BY CommandsAre DEF CommandsFact, Init, Device!Init
<1>2. DevInv /\ LineInv /\ [Next]_vars => [Device!Next]_<<Commands, Unfinished>>
  BY StepIsDeviceStep
<1> QED BY <1>1, <1>2, DevInvHolds, LineInvHolds, PTL DEF Spec, DeviceSpec, Device!Spec, Device!vars


----------------------------------------------------------------------------
(* What a reader has seen. *)
LEMMA PrefixIs ==
  ASSUME NEW s \in Seq(Byte), NEW t \in Seq(Byte)
  PROVE  IsPrefix(s, t) <=> Len(s) <= Len(t) /\ \A i \in 1 .. Len(s) : s[i] = t[i]
<1>1. PICK k, l \in Nat : k = Len(s) /\ l = Len(t)
  OBVIOUS
<1>2. SubSeq(s, 1, k) = s
  BY <1>1
<1>3. ASSUME k <= l
      PROVE  SubSeq(s, 1, k) = SubSeq(t, 1, k) <=> \A i \in 1 .. k : s[i] = t[i]
  <2>1. /\ SubSeq(t, 1, k) \in Seq(Byte) /\ Len(SubSeq(t, 1, k)) = k
        /\ \A i \in 1 .. k : SubSeq(t, 1, k)[i] = t[i]
    BY <1>1, <1>3
  <2>2. (\A i \in 1 .. k : s[i] = t[i]) => s = SubSeq(t, 1, k)
    BY <1>1, <2>1
  <2> QED BY <1>2, <2>1, <2>2
<1> QED BY <1>1, <1>3 DEF IsPrefix

LEMMA PrefixOfLonger ==
  ASSUME NEW s \in Seq(Byte), NEW t \in Seq(Byte), NEW x \in Seq(Byte), IsPrefix(s, t)
  PROVE  IsPrefix(s, t \o x)
<1>1. Len(s) <= Len(t) /\ \A i \in 1 .. Len(s) : s[i] = t[i]
  BY PrefixIs
<1>2. PICK y : y = t \o x
  OBVIOUS
<1>3. y \in Seq(Byte) /\ Len(s) <= Len(y) /\ \A i \in 1 .. Len(s) : s[i] = y[i]
  BY <1>1, <1>2
<1>4. IsPrefix(s, y)
  BY <1>3, PrefixIs
<1> QED BY <1>2, <1>4

LEMMA EmptyPrefix == ASSUME NEW t \in Seq(Byte) PROVE IsPrefix(<<>>, t)
<1>0. <<>> \in Seq(Byte)
  OBVIOUS
<1>1. PICK e \in Seq(Byte) : e = <<>>
  BY <1>0
<1>2. Len(e) <= Len(t) /\ \A i \in 1 .. Len(e) : e[i] = t[i]
  BY <1>1
<1>3. IsPrefix(e, t)
  BY <1>2, PrefixIs
<1> QED BY <1>1, <1>3

(* Each byte of an entry is the byte of the device at its position. *)
PlacedAt(k, a, size, off, rel) ==
  /\ FlattenSeq(Commands) \in Seq(Byte)
  /\ \A j \in 0 .. size - rel - 1 :
       /\ FlattenSeq(Commands)[off + j + 1] = mem[a][rel + j + 1]
       /\ off + j < Len(FlattenSeq(Commands))

LEMMA RingContents ==
  ASSUME DevInv, loaded
  PROVE  EndToEnd(Byte, ring, Commands)
<1>1. /\ RingOK(ring) /\ Measured(mem, ring) /\ Commands = CommandsOf(mem, ring)
      /\ Commands \in Seq(Seq(Byte)) /\ Len(Commands) = Count(ring)
  BY ContentsType, CommandsAre DEF DevInv, DeviceOK, CommandsFact
<1>2. ASSUME NEW k \in 1 .. Count(ring)
      PROVE  Len(Commands[k]) = ring.entry[SlotAt(ring, k - 1)].size
  <2>1. Commands[k] = ContentOf(mem, ring.entry[SlotAt(ring, k - 1)])
    BY <1>1 DEF CommandsOf
  <2>2. k - 1 \in 0 .. Count(ring) - 1
    <3>1. Count(ring) \in Nat
      BY CountIs, <1>1 DEF RingOK, WellShaped
    <3> QED BY <3>1
  <2>3. CASE ring.entry[SlotAt(ring, k - 1)].size = 0
    BY <2>1, <2>3 DEF ContentOf
  <2>4. CASE ring.entry[SlotAt(ring, k - 1)].size # 0
    BY <1>1, <2>1, <2>2, <2>4 DEF ContentOf, Measured, PtrAt
  <2> QED BY <2>3, <2>4
<1>3. ContentsOf(ring, Commands)
  BY <1>1, <1>2 DEF ContentsOf
<1> QED BY <1>1, <1>3, StoredIs, ContentsEndToEnd DEF RingOK

LEMMA BytesPlaced ==
  ASSUME DevInv, loaded, NEW k, NEW off, NEW rel, ByteIs(ring, off, k, rel)
  PROVE  PlacedAt(k, PtrAt(ring, k), ring.entry[SlotAt(ring, k)].size, off, rel)
<1>1. PICK flat : flat = FlattenSeq(Commands)
  OBVIOUS
<1>2. PICK b : b = BytesBefore(ring, ring.out_offs)
  OBVIOUS
<1>3. /\ EndToEnd(Byte, ring, Commands) /\ RingOK(ring) /\ Commands = CommandsOf(mem, ring)
  BY RingContents, CommandsAre DEF DevInv, DeviceOK, CommandsFact
<1>4. PICK c \in 0 .. N : c = Count(ring) /\ c \in Nat
  BY <1>3, CountIs, NAssumption DEF RingOK, WellShaped
<1>5. PICK size \in Nat : size = ring.entry[SlotAt(ring, k)].size
  BY DEF ByteIs
<1>6. /\ k \in 0 .. c - 1 /\ b[k] \in Nat /\ rel \in 0 .. size - 1
      /\ off = b[k] + rel /\ b[k + 1] = b[k] + size
  BY <1>2, <1>4, <1>5 DEF ByteIs
<1>7. Len(flat) = b[c] /\ flat \in Seq(Byte)
  BY <1>1, <1>2, <1>3, <1>4 DEF EndToEnd
<1>8. b[k + 1] <= b[c] /\ b[c] \in Nat
  <2>1. ring.out_offs \in Slot /\ ring \in Ring(Stored) /\ Sized(Stored)
    BY <1>3, StoredIs DEF RingOK, Ring
  <2>2. k + 1 \in 0 .. N /\ c \in 0 .. N /\ k + 1 <= c
    BY <1>4, <1>6, NAssumption
  <2> QED BY <1>2, <2>1, <2>2, BytesAre
<1>9. ASSUME NEW j \in 0 .. size - rel - 1
      PROVE  flat[off + j + 1] = mem[PtrAt(ring, k)][rel + j + 1] /\ off + j < Len(flat)
  <2>1. rel + j \in 0 .. size - 1 /\ off + j = b[k] + (rel + j) /\ off + j < b[k] + size
    BY <1>6
  <2>2. ByteIs(ring, off + j, k, rel + j)
    BY <1>2, <1>4, <1>5, <1>6, <2>1 DEF ByteIs
  <2>3. flat[(off + j) + 1] = Commands[k + 1][(rel + j) + 1]
    BY <1>1, <1>3, <2>2 DEF EndToEnd
  <2>4. Commands[k + 1] = mem[PtrAt(ring, k)]
    <3>1. k + 1 \in 1 .. Count(ring) /\ (k + 1) - 1 = k /\ size # 0
      BY <1>4, <1>6
    <3> QED BY <1>3, <1>5, <3>1 DEF CommandsOf, ContentOf, PtrAt
  <2>5. off + j < Len(flat)
    BY <1>6, <1>7, <1>8, <2>1
  <2> QED BY <2>3, <2>4, <2>5
<1> QED BY <1>1, <1>5, <1>7, <1>9 DEF PlacedAt

(* More bytes from the place a prefix ends make a longer prefix. *)
LongerPrefix(y, s, t, n) == IsPrefix(y, t) /\ Len(y) = Len(s) + n /\ y \in Seq(Byte)

NextBytes(t, at, c, rel, n) ==
  \A j \in 0 .. n - 1 : t[at + j + 1] = c[rel + j + 1] /\ at + j < Len(t)

LEMMA PrefixGrows ==
  ASSUME NEW t \in Seq(Byte), NEW s \in Seq(Byte), IsPrefix(s, t),
         NEW c \in Seq(Byte), NEW rel \in Nat, NEW n \in Nat, n > 0, rel + n <= Len(c),
         NextBytes(t, Len(s), c, rel, n),
         NEW x, x = SubSeq(c, rel + 1, rel + n)
  PROVE  LongerPrefix(s \o x, s, t, n)
<1>1. PICK k, l \in Nat : k = Len(s) /\ l = Len(t)
  OBVIOUS
<1>2. k <= l /\ \A i \in 1 .. k : s[i] = t[i]
  BY <1>1, PrefixIs
<1>3. x \in Seq(Byte) /\ Len(x) = n /\ \A i \in 1 .. n : x[i] = c[rel + i]
  OBVIOUS
<1>4. PICK y : y = s \o x
  OBVIOUS
<1>5. /\ y \in Seq(Byte) /\ Len(y) = k + n
      /\ \A i \in 1 .. k : y[i] = s[i]
      /\ \A i \in k + 1 .. k + n : y[i] = x[i - k]
  BY <1>1, <1>3, <1>4
<1>6. k + n <= l
  <2>1. n - 1 \in 0 .. n - 1
    OBVIOUS
  <2>2. k + (n - 1) < l
    BY <1>1, <2>1 DEF NextBytes
  <2> QED BY <2>2
<1>7. ASSUME NEW i \in 1 .. k + n PROVE y[i] = t[i]
  <2>1. CASE i <= k
    <3>1. i \in 1 .. k
      BY <2>1
    <3> QED BY <1>2, <1>5, <3>1
  <2>2. CASE ~(i <= k)
    <3>1. i \in k + 1 .. k + n /\ i - k \in 1 .. n
      BY <2>2
    <3>2. PICK j \in 0 .. n - 1 : j + 1 = i - k /\ k + j + 1 = i /\ rel + j + 1 = rel + (i - k)
      <4>1. /\ (i - k) - 1 \in 0 .. n - 1 /\ ((i - k) - 1) + 1 = i - k
            /\ k + ((i - k) - 1) + 1 = i /\ rel + ((i - k) - 1) + 1 = rel + (i - k)
        BY <3>1
      <4> QED BY <4>1
    <3>3. t[k + j + 1] = c[rel + j + 1]
      BY <1>1, <3>2 DEF NextBytes
    <3>4. y[i] = x[i - k] /\ x[i - k] = c[rel + (i - k)]
      BY <1>3, <1>5, <3>1
    <3> QED BY <3>2, <3>3, <3>4
  <2> QED BY <2>1, <2>2
<1>8. IsPrefix(y, t)
  BY <1>1, <1>5, <1>6, <1>7, PrefixIs
<1> QED BY <1>1, <1>4, <1>5, <1>8 DEF LongerPrefix


(* The bytes of a log with one more command. *)
LEMMA LoggedFlat ==
  ASSUME NEW log \in Seq(Seq(Byte)), NEW x \in Seq(Byte), NEW t, t = Logged(log, x)
  PROVE  /\ Len(log) # N => FlattenSeq(t) = FlattenSeq(log) \o x
         /\ Len(log) = N => /\ log[1] \in Seq(Byte) /\ FlattenSeq(t) \in Seq(Byte)
                            /\ log[1] \o FlattenSeq(t) = FlattenSeq(log) \o x
<1>1. CASE Len(log) # N
  <2>1. t = Append(log, x)
    BY <1>1 DEF Logged
  <2> QED BY <1>1, <2>1, FlattenAppend
<1>2. CASE Len(log) = N
  <2>1. log # <<>>
    BY <1>2, NAssumption
  <2>2. PICK rest \in Seq(Seq(Byte)) : rest = Tail(log)
    <3>1. Tail(log) \in Seq(Seq(Byte))
      BY <2>1
    <3> QED BY <3>1
  <2>3. t = Append(rest, x)
    BY <1>2, <2>2 DEF Logged
  <2>4. FlattenSeq(t) = FlattenSeq(rest) \o x
    BY <2>3, FlattenAppend
  <2>5. FlattenSeq(log) = log[1] \o FlattenSeq(rest)
    BY <2>1, <2>2, FlattenHead
  <2>6. PICK a, b \in Seq(Byte) : a = log[1] /\ b = FlattenSeq(rest)
    <3>1. FlattenSeq(rest) \in Seq(Byte)
      BY FlattenInSeq
    <3>2. 1 \in 1 .. Len(log)
      BY <1>2, NAssumption
    <3> QED BY <3>1, <3>2
  <2>7. a \o (b \o x) = (a \o b) \o x /\ b \o x \in Seq(Byte)
    OBVIOUS
  <2> QED BY <1>2, <2>4, <2>5, <2>6, <2>7
<1> QED BY <1>1, <1>2

ScanInv == \A p \in Proc : ScanOK(p) /\ HitOK(p)

LEMMA ScanInvInit == Init => ScanInv
<1> SUFFICES ASSUME Init, NEW p \in Proc PROVE ScanOK(p) /\ HitOK(p)
  BY DEF ScanInv
<1>1. /\ pc[p] = "closed" /\ pos[p] = 0 /\ scan[p] = <<>> /\ loaded = FALSE
  BY DEF Init
<1>2. Commands = <<>>
  BY <1>1, CommandsAre DEF CommandsFact
<1>3. FlattenSeq(Commands) = <<>>
  BY <1>2, FlattenEmpty
<1>4. <<>> \in Seq(Byte)
  OBVIOUS
<1>5. IsPrefix(<<>>, FlattenSeq(Commands))
  BY <1>3, <1>4, EmptyPrefix
<1> QED BY <1>1, <1>5 DEF ScanOK, HitOK

LEMMA TurnKeepsScans ==
  ASSUME DevInv, DevInv', ScanInv, NEW p \in Proc, WriteChunk(p)
  PROVE  ScanInv'
<1>1. PICK s, from, d, n, v : Turn(p, s, from, d, n, v)
  BY TurnIs
<1>2. /\ loaded /\ pc[p] = "wloop" /\ pos' = pos /\ hit' = hit /\ v \in Seq(Byte)
      /\ Commands \in Seq(Seq(Byte)) /\ Unfinished \in Seq(Byte) /\ LockInv /\ CallersOK
      /\ RingOK(ring) /\ (Len(Commands) = N <=> ring.full)
  <2>1. loaded /\ pc[p] = "wloop" /\ pos' = pos /\ hit' = hit
    BY <1>1 DEF Turn, Taking, RestKept
  <2>2. v \in Seq(Byte)
    BY <1>1 DEF Turn, Taking
  <2> QED BY <2>1, <2>2, ContentsType DEF DevInv, DeviceOK
<1>3. FlattenSeq(Commands) \in Seq(Byte) /\ FlattenSeq(Commands') \in Seq(Byte)
  <2>1. Commands' \in Seq(Seq(Byte))
    <3>1. CASE d = -1
      BY <1>1, <1>2, <3>1, TurnContents
    <3>2. CASE d # -1
      <4>1. Commands' = Logged(Commands, Unfinished \o v)
        BY <1>1, <3>2, TurnContents
      <4>2. Unfinished \o v \in Seq(Byte)
        BY <1>2
      <4>3. Len(Commands) = N => Commands # <<>>
        BY <1>2, NAssumption
      <4> QED BY <1>2, <4>1, <4>2, <4>3 DEF Logged
    <3> QED BY <3>1, <3>2
  <2> QED BY <1>2, <2>1, FlattenInSeq
<1>4. ASSUME NEW q \in Proc PROVE ScanOK(q)'
  <2>1. pc'[q] = "closed" => pc[q] = "closed"
    <3>1. pc' = [pc EXCEPT ![p] = "wunlock"] \/ pc' = pc
      BY <1>1 DEF Turn, LineGrows, LineEnds
    <3> QED BY <1>2, <3>1 DEF LockInv
  <2>2. ScanOK(q) /\ scan[q] \in Scanned
    BY <1>2 DEF ScanInv, CallersOK
  <2>3. CASE d = -1
    <3>1. Commands' = Commands /\ scan' = scan
      BY <1>1, <2>3, TurnContents DEF Turn, LineGrows
    <3> QED BY <1>2, <2>1, <2>2, <3>1 DEF ScanOK
  <2>4. CASE d # -1 /\ Overwrites(ring)
    <3>1. scan'[q] = IF scan[q] = <<>> THEN <<>> ELSE Torn
      BY <1>1, <2>4 DEF Turn, LineEnds
    <3>2. IsPrefix(<<>>, FlattenSeq(Commands'))
      BY <1>3, EmptyPrefix
    <3>3. CASE scan[q] = <<>>
      <4>1. scan'[q] = <<>> /\ scan[q] = scan'[q]
        BY <3>1, <3>3
      <4> QED BY <1>2, <2>1, <2>2, <3>2, <4>1 DEF ScanOK
    <3>4. CASE scan[q] # <<>>
      <4>1. scan'[q] = Torn /\ pc[q] # "closed"
        BY <2>2, <3>1, <3>4 DEF ScanOK
      <4> QED BY <2>1, <4>1 DEF ScanOK
    <3> QED BY <3>3, <3>4
  <2>5. CASE d # -1 /\ ~Overwrites(ring)
    <3>1. scan' = scan
      BY <1>1, <2>5 DEF Turn, LineEnds
    <3>2. Len(Commands) # N
      BY <1>2, <2>5 DEF Overwrites, RingOK, WellShaped, FullMeets
    <3>3. PICK x \in Seq(Byte) : x = Unfinished \o v
      <4>1. Unfinished \o v \in Seq(Byte)
        BY <1>2
      <4> QED BY <4>1
    <3>4. Commands' = Logged(Commands, x)
      BY <1>1, <2>5, <3>3, TurnContents
    <3>5. FlattenSeq(Commands') = FlattenSeq(Commands) \o x
      BY <1>2, <3>2, <3>4, LoggedFlat
    <3>6. scan[q] # Torn => IsPrefix(scan[q], FlattenSeq(Commands'))
      <4> SUFFICES ASSUME scan[q] # Torn PROVE IsPrefix(scan[q], FlattenSeq(Commands'))
        OBVIOUS
      <4>1. scan[q] \in Seq(Byte) /\ IsPrefix(scan[q], FlattenSeq(Commands))
        BY <2>2 DEF ScanOK, Scanned
      <4>2. IsPrefix(scan[q], FlattenSeq(Commands) \o x)
        BY <1>3, <4>1, PrefixOfLonger
      <4> QED BY <3>5, <4>2
    <3> QED BY <1>2, <2>1, <2>2, <3>1, <3>6 DEF ScanOK
  <2> QED BY <2>3, <2>4, <2>5
<1>5. ASSUME NEW q \in Proc PROVE HitOK(q)'
  <2>1. pc[q] \in Critical => q = p
    BY <1>2 DEF LockInv, LockDiscipline, Critical
  <2>2. pc'[q] # "rcopy"
    <3>1. pc' = [pc EXCEPT ![p] = "wunlock"] \/ pc' = pc
      BY <1>1 DEF Turn, LineGrows, LineEnds
    <3> QED BY <1>2, <2>1, <3>1 DEF LockInv, Critical
  <2> QED BY <2>2 DEF HitOK
<1> QED BY <1>4, <1>5 DEF ScanInv

(* The steps of p that leave its scan alone, and do not begin a copy. *)
LEMMA ScanLeft ==
  ASSUME DevInv, NEW p \in Proc, ScanInv, OtherStep(p), UNCHANGED <<pos, scan>>,
         pc'[p] # "rcopy", pc'[p] # "closed"
  PROVE  ScanOK(p)' /\ HitOK(p)'
<1>1. Commands' = Commands
  BY OtherStepKeepsContents
<1> QED BY <1>1 DEF ScanInv, ScanOK, HitOK

(* ... and those that begin it again. *)
LEMMA ScanRestarts ==
  ASSUME DevInv, NEW p \in Proc, OtherStep(p), pos'[p] = 0, scan'[p] = <<>>, pc'[p] # "rcopy"
  PROVE  ScanOK(p)' /\ HitOK(p)'
<1>1. Commands' = Commands /\ Commands \in Seq(Seq(Byte))
  BY OtherStepKeepsContents, ContentsType
<1>2. IsPrefix(<<>>, FlattenSeq(Commands'))
  BY <1>1, FlattenInSeq, EmptyPrefix
<1>3. Len(<<>>) = 0
  OBVIOUS
<1> QED BY <1>2, <1>3 DEF ScanOK, HitOK


LEMMA ReadFindHits ==
  ASSUME DevInv, NEW p \in Proc, ScanInv, OtherStep(p), ReadFind(p)
  PROVE  ScanOK(p)' /\ HitOK(p)'
<1> DEFINE f == FindEntry(ring, pos[p])
           e == ring.entry[f.slot]
<1>1. /\ pc[p] = "rfind" /\ pc' = [pc EXCEPT ![p] = "rcopy"] /\ f.found
      /\ UNCHANGED <<pos, scan, ring>>
  BY DEF ReadFind, Goto, device, aux
<1>2. PICK count \in ReadSize :
        hit' = [hit EXCEPT ![p] = <<e.buffptr, f.rel, BytesToCopy(e.size, f.rel, count)>>]
  BY DEF ReadFind
<1>3. /\ RingOK(ring) /\ pos[p] \in Nat /\ hit \in [Proc -> Found] /\ count \in Nat
      /\ pc \in [Proc -> Labels]
  BY CountAssumption DEF DevInv, DeviceOK, CallersOK, LockInv
<1>4. PICK k \in 0 .. Count(ring) - 1 :
        f.slot = SlotAt(ring, k) /\ ByteIs(ring, pos[p], k, f.rel)
  <2>1. Sized(Stored) /\ ring \in Ring(Stored) /\ WellShaped(ring)
    BY <1>3, StoredIs DEF RingOK
  <2> QED BY <1>1, <1>3, <2>1, FoundIsByte
<1>5. PICK size, rel, n, a :
        /\ size \in Nat /\ rel \in Nat
        /\ size = e.size /\ rel = f.rel /\ rel < size /\ a = e.buffptr
        /\ n = BytesToCopy(size, rel, count)
  BY <1>4 DEF ByteIs
<1>6. rel + n <= size
  BY <1>3, <1>5 DEF BytesToCopy
<1>7. hit'[p][1] = a /\ hit'[p][2] = rel /\ hit'[p][3] = n
  BY <1>2, <1>3, <1>5
<1>8. HitOK(p)'
  <2>1. a = PtrAt(ring, k) /\ size = ring.entry[SlotAt(ring, k)].size /\ ByteIs(ring, pos[p], k, rel)
    BY <1>4, <1>5 DEF PtrAt
  <2> QED BY <1>1, <1>6, <1>7, <2>1 DEF HitOK
<1>9. pc'[p] = "rcopy" /\ Commands' = Commands /\ ScanOK(p)
  BY <1>1, <1>3, OtherStepKeepsContents DEF ScanInv
<1>10. ScanOK(p)'
  BY <1>1, <1>9 DEF ScanOK
<1> QED BY <1>8, <1>10

(* The copy extends the scan by the next bytes of the device. *)
LEMMA ReadCopyExtends ==
  ASSUME DevInv, NEW p \in Proc, ScanInv, OtherStep(p), ReadCopy(p)
  PROVE  ScanOK(p)' /\ HitOK(p)'
<1>1. PICK ptr, rel, n :
        /\ ptr = hit[p][1] /\ rel = hit[p][2] /\ n = hit[p][3]
        /\ pos' = [pos EXCEPT ![p] = @ + n]
        /\ scan' = [scan EXCEPT ![p] =
                      IF @ = Torn THEN Torn ELSE @ \o SubSeq(mem[ptr], rel + 1, rel + n)]
  BY DEF ReadCopy
<1>2. pc[p] = "rcopy" /\ pc' = [pc EXCEPT ![p] = "idle"]
  BY DEF ReadCopy, Goto
<1>3. /\ pc'[p] = "idle" /\ CallersOK /\ loaded
      /\ rel \in Nat /\ n \in Nat /\ n > 0 /\ rel + n <= Len(mem[ptr]) /\ mem[ptr] \in Seq(Byte)
  <2>1. pc'[p] = "idle" /\ CallersOK /\ loaded
    BY <1>2 DEF DevInv, LockInv
  <2>2. rel \in Nat /\ n \in Nat /\ n > 0 /\ rel + n <= Len(mem[ptr]) /\ ptr \in DOMAIN mem
    BY <1>1, <1>2 DEF DevInv, ReadOK, DeviceOK, Held
  <2>3. mem[ptr] \in Seq(Byte)
    BY <2>2 DEF DevInv, DeviceOK, Held
  <2> QED BY <2>1, <2>2, <2>3
<1>4. HitOK(p)'
  BY <1>3 DEF HitOK
<1>5. PICK k : /\ ptr = PtrAt(ring, k) /\ ByteIs(ring, pos[p], k, rel)
               /\ rel + n <= ring.entry[SlotAt(ring, k)].size
  BY <1>1, <1>2 DEF ScanInv, HitOK
<1>6. PICK size \in Nat : size = ring.entry[SlotAt(ring, k)].size
  BY <1>5 DEF ByteIs
<1>7. PICK flat : flat = FlattenSeq(Commands)
  OBVIOUS
<1>8. /\ flat \in Seq(Byte)
      /\ \A j \in 0 .. size - rel - 1 : flat[pos[p] + j + 1] = mem[ptr][rel + j + 1] /\ pos[p] + j < Len(flat)
  <2>1. PlacedAt(k, ptr, size, pos[p], rel)
    BY <1>3, <1>5, <1>6, BytesPlaced
  <2> QED BY <1>7, <2>1 DEF PlacedAt
<1>9. Commands' = Commands
  BY OtherStepKeepsContents
<1>10. CASE scan[p] = Torn
  <2>1. scan'[p] = Torn
    BY <1>1, <1>3, <1>10 DEF CallersOK
  <2> QED BY <1>3, <1>4, <2>1 DEF ScanOK
<1>11. CASE scan[p] # Torn
  <2>1. PICK s \in Seq(Byte) : s = scan[p] /\ pos[p] = Len(s) /\ IsPrefix(s, flat)
    BY <1>3, <1>7, <1>11 DEF ScanInv, ScanOK, CallersOK, Scanned
  <2>2. \A j \in 0 .. n - 1 : j \in 0 .. size - rel - 1
    BY <1>3, <1>5, <1>6
  <2>3. NextBytes(flat, Len(s), mem[ptr], rel, n)
    BY <1>8, <2>1, <2>2 DEF NextBytes
  <2>4. PICK x : x = SubSeq(mem[ptr], rel + 1, rel + n)
    OBVIOUS
  <2>5. LongerPrefix(s \o x, s, flat, n)
    <3>1. flat \in Seq(Byte) /\ IsPrefix(s, flat) /\ NextBytes(flat, Len(s), mem[ptr], rel, n)
      BY <1>8, <2>1, <2>3
    <3> QED BY <1>3, <2>4, <3>1, PrefixGrows
  <2>6. scan'[p] = s \o x /\ pos'[p] = Len(s) + n
    BY <1>1, <1>3, <1>11, <2>1, <2>4 DEF CallersOK
  <2> QED BY <1>3, <1>4, <1>7, <1>9, <2>5, <2>6 DEF ScanOK, LongerPrefix
<1> QED BY <1>10, <1>11

LEMMA SeekMovesScan ==
  ASSUME DevInv, NEW p \in Proc, ScanInv, OtherStep(p), SeekToCommand(p) \/ Llseek(p)
  PROVE  ScanOK(p)' /\ HitOK(p)'
<1>1. pc[p] = "sbody" /\ pc' = [pc EXCEPT ![p] = "idle"]
  BY DEF SeekToCommand, Llseek, Goto
<1>2. pc'[p] = "idle" /\ CallersOK
  BY <1>1 DEF DevInv, LockInv
<1>3. UNCHANGED <<pos, scan>> \/ \E to : Moved(p, to)
  BY DEF SeekToCommand, Llseek
<1>4. CASE UNCHANGED <<pos, scan>>
  BY <1>2, <1>4, ScanLeft
<1>5. ASSUME NEW to, Moved(p, to) PROVE ScanOK(p)' /\ HitOK(p)'
  <2>1. pos'[p] = to /\ scan'[p] = IF to = 0 THEN <<>> ELSE IF to = pos[p] THEN scan[p] ELSE Torn
    BY <1>2, <1>5 DEF Moved, CallersOK
  <2>2. CASE to = 0
    BY <1>2, <2>1, <2>2, ScanRestarts
  <2>3. CASE to # 0 /\ to = pos[p]
    <3>1. pos'[p] = pos[p] /\ scan'[p] = scan[p]
      BY <2>1, <2>3
    <3>2. Commands' = Commands /\ ScanOK(p)
      BY OtherStepKeepsContents DEF ScanInv
    <3> QED BY <1>2, <3>1, <3>2 DEF ScanOK, HitOK
  <2>4. CASE to # 0 /\ to # pos[p]
    <3>1. scan'[p] = Torn
      BY <2>1, <2>4
    <3> QED BY <1>2, <3>1 DEF ScanOK, HitOK
  <2> QED BY <2>2, <2>3, <2>4
<1> QED BY <1>3, <1>4, <1>5

LEMMA OtherStepKeepsScans ==
  ASSUME DevInv, NEW p \in Proc, ScanInv, OtherStep(p)
  PROVE  ScanInv'
<1>1. pc \in [Proc -> Labels] /\ CallersOK
  BY DEF DevInv, LockInv
<1>2. ASSUME NEW q \in Proc \ {p} PROVE ScanOK(q)' /\ HitOK(q)'
  <2>1. /\ pc'[q] = pc[q] /\ pos'[q] = pos[q] /\ scan'[q] = scan[q] /\ hit'[q] = hit[q] /\ ring' = ring
    BY DEF OtherStep, Besides
  <2>2. Commands' = Commands /\ ScanOK(q) /\ HitOK(q)
    BY OtherStepKeepsContents DEF ScanInv
  <2>3. ScanOK(q)'
    BY <2>1, <2>2 DEF ScanOK
  <2>4. HitOK(q)'
    BY <2>1, <2>2 DEF HitOK
  <2> QED BY <2>3, <2>4
<1>3. ScanOK(p)' /\ HitOK(p)'
  <2>1. CASE Open(p) \/ Release(p) \/ ReadEOF(p)
    <3>1. pos'[p] = 0 /\ scan'[p] = <<>> /\ pc'[p] # "rcopy"
      BY <1>1, <2>1 DEF Open, Release, ReadEOF, Goto, CallersOK
    <3> QED BY <3>1, ScanRestarts
  <2>2. CASE WriteCopy(p) \/ ReadStart(p) \/ SeekStart(p) \/ Interrupted(p) \/ Locking(p)
    <3>1. UNCHANGED <<pos, scan>> /\ pc'[p] # "rcopy" /\ pc'[p] # "closed"
      BY <1>1, <2>2 DEF WriteCopy, ReadStart, SeekStart, Interrupted, Locking, Acquire, aux, Goto
    <3> QED BY <3>1, ScanLeft
  <2>3. CASE WriteFails(p) \/ WriteReturn(p) \/ ReadFault(p)
    <3>1. UNCHANGED <<pos, scan>> /\ pc'[p] # "rcopy" /\ pc'[p] # "closed"
      BY <1>1, <2>3 DEF WriteFails, WriteReturn, ReadFault, aux, Goto
    <3> QED BY <3>1, ScanLeft
  <2>4. CASE ReadFind(p)
    BY <2>4, ReadFindHits
  <2>5. CASE ReadCopy(p)
    BY <2>5, ReadCopyExtends
  <2>6. CASE SeekToCommand(p) \/ Llseek(p)
    BY <2>6, SeekMovesScan
  <2> QED BY <2>1, <2>2, <2>3, <2>4, <2>5, <2>6 DEF OtherStep, Calls, Holding
<1> QED BY <1>2, <1>3 DEF ScanInv

LEMMA ScanInvStep ==
  ASSUME ~KreallocFails, DevInv, DevInv', ScanInv, [Next]_vars
  PROVE  ScanInv'
<1>1. CASE Load \/ Unload
  <2> SUFFICES ASSUME NEW p \in Proc PROVE ScanOK(p)' /\ HitOK(p)'
    BY DEF ScanInv
  <2>1. pc[p] = "closed" /\ pc' = pc /\ pos' = pos /\ scan' = scan
    BY <1>1 DEF Load, Unload, aux, DevInv, LockInv
  <2>2. pos[p] = 0 /\ scan[p] = <<>> /\ (scan[p] # Torn => pos[p] = Len(scan[p]))
    BY <2>1 DEF ScanInv, ScanOK
  <2>3. FlattenSeq(Commands') = <<>>
    <3>1. Commands' = <<>>
      BY <1>1, ReloadContents
    <3> QED BY <3>1, FlattenEmpty
  <2>4. <<>> \in Seq(Byte)
    OBVIOUS
  <2>5. IsPrefix(<<>>, FlattenSeq(Commands'))
    BY <2>3, <2>4, EmptyPrefix
  <2> QED BY <2>1, <2>2, <2>5 DEF ScanOK, HitOK
<1>2. CASE UNCHANGED vars
  <2>1. Commands' = Commands
    BY <1>2, StutterKeepsContents
  <2>2. UNCHANGED <<pc, pos, scan, hit, ring>>
    BY <1>2 DEF vars
  <2> QED BY <2>1, <2>2 DEF ScanInv, ScanOK, HitOK
<1>3. ASSUME NEW p \in Proc, WriteChunk(p) \/ OtherStep(p) PROVE ScanInv'
  BY <1>3, TurnKeepsScans, OtherStepKeepsScans
<1> QED BY <1>1, <1>2, <1>3, StepIs

LEMMA ScanInvHolds == ASSUME ~KreallocFails PROVE Spec => []ScanInv
<1>1. ScanInv /\ DevInv /\ DevInv' /\ [Next]_vars => ScanInv'
  BY ScanInvStep
<1> QED BY <1>1, ScanInvInit, DevInvHolds, PTL DEF Spec

(* Whatever its reads return and whatever the other callers do between them,
   a reader that started at the beginning and was not overtaken has seen the
   first bytes of the device, each once and in order. *)
THEOREM ScansArePrefixes == ASSUME ~KreallocFails PROVE Spec => []ScanIsPrefix
<1>1. ScanInv => ScanIsPrefix
  BY DEF ScanInv, ScanOK, ScanIsPrefix
<1> QED BY <1>1, ScanInvHolds, PTL

(* aesd_read finds no entry only at the end of the commands. *)
LEMMA EndIsAll ==
  ASSUME DevInv, LineInv, ScanInv, NEW p \in Proc, ReadEOF(p), scan[p] # Torn
  PROVE  scan[p] = FlattenSeq(Commands)
<1>1. /\ pc[p] = "rfind" /\ ~FindEntry(ring, pos[p]).found /\ loaded
      /\ RingOK(ring) /\ CallersOK
  BY DEF ReadEOF, DevInv, DeviceOK, LockInv
<1>2. EndToEnd(Byte, ring, Commands) /\ Commands \in Seq(Seq(Byte)) /\ Len(Commands) = Count(ring)
  BY <1>1, RingContents, ContentsType
<1>3. \A k \in 0 .. Count(ring) - 1 : ring.entry[SlotAt(ring, k)].size # 0
  <2> SUFFICES ASSUME NEW k \in 0 .. Count(ring) - 1, ring.entry[SlotAt(ring, k)].size = 0
               PROVE  FALSE
    OBVIOUS
  <2>1. Count(ring) \in Nat
    BY <1>2
  <2>2. k + 1 \in 1 .. Count(ring) /\ (k + 1) - 1 = k
    BY <2>1
  <2>3. Commands[k + 1] = <<>>
    BY <1>1, <2>2, CommandsAre DEF CommandsFact, CommandsOf, ContentOf
  <2>4. IsLine(Commands[k + 1])
    BY <1>2, <2>2 DEF LineInv, LinesOK
  <2> QED BY <2>3, <2>4 DEF IsLine
<1>4. PICK flat \in Seq(Byte) : /\ flat = FlattenSeq(Commands)
                                /\ Len(flat) = BytesBefore(ring, ring.out_offs)[Count(ring)]
  BY <1>2 DEF EndToEnd
<1>5. pos[p] \in Nat /\ ~(pos[p] < Len(flat))
  <2>1. pos[p] \in Nat /\ ring \in Ring(Stored) /\ Sized(Stored) /\ WellShaped(ring)
    BY <1>1, StoredIs DEF CallersOK, RingOK
  <2> QED BY <1>1, <1>3, <1>4, <2>1, ByteIsFound
<1>6. PICK s \in Seq(Byte) : s = scan[p] /\ pos[p] = Len(s) /\ IsPrefix(s, flat)
  BY <1>1, <1>4 DEF ScanInv, ScanOK, CallersOK, Scanned
<1>7. Len(s) = Len(flat) /\ \A i \in 1 .. Len(s) : s[i] = flat[i]
  <2>1. Len(s) <= Len(flat) /\ \A i \in 1 .. Len(s) : s[i] = flat[i]
    BY <1>6, PrefixIs
  <2> QED BY <1>5, <1>6, <2>1
<1>8. s = flat
  BY <1>7
<1> QED BY <1>4, <1>6, <1>8

(* aesd_read says it is at the end only to a reader that has seen it all:
   no entry in the middle stops it, as none is empty. *)
THEOREM EndMeansAll ==
  ASSUME ~KreallocFails, OneLine PROVE Spec => EOFMeansAll
<1>1. DevInv /\ LineInv /\ ScanInv =>
        \A p \in Proc : ReadEOF(p) /\ scan[p] # Torn => scan[p] = FlattenSeq(Commands)
  BY EndIsAll
<1> QED BY <1>1, DevInvHolds, LineInvHolds, ScanInvHolds, PTL DEF EOFMeansAll


----------------------------------------------------------------------------
(* What the device keeps of what it has taken. *)
NewlineCount(t) == Cardinality({i \in DOMAIN t : t[i] = NL})

Recorded(t, kept, commands) ==
  /\ t \in Seq(Byte) /\ kept \in Seq(Byte)
  /\ \E lost \in Seq(Byte) : t = lost \o kept
  /\ commands = IF NewlineCount(t) < N THEN NewlineCount(t) ELSE N

LEMMA BytesJoined ==
  ASSUME NEW a \in Seq(Byte), NEW b \in Seq(Byte), NEW c \in Seq(Byte)
  PROVE  a \o (b \o c) = (a \o b) \o c
  BY ConcatAssociative

(* The positions of the newlines in a text, and in a longer one. *)
LEMMA NewlinesAre ==
  ASSUME NEW t \in Seq(Byte)
  PROVE  IsFiniteSet({i \in DOMAIN t : t[i] = NL}) /\ NewlineCount(t) \in Nat
<1>1. PICK k \in Nat : k = Len(t) /\ DOMAIN t = 1 .. k
  OBVIOUS
<1>2. IsFiniteSet(1 .. k)
  BY FS_Interval
<1>3. {i \in DOMAIN t : t[i] = NL} \in SUBSET (1 .. k)
  BY <1>1
<1>4. IsFiniteSet({i \in DOMAIN t : t[i] = NL})
  BY <1>2, <1>3, FS_Subset
<1> QED BY <1>4, FS_CardinalityType DEF NewlineCount

LEMMA NewlinesOf ==
  ASSUME NEW t \in Seq(Byte), NEW v \in Seq(Byte)
  PROVE  /\ NoNewline(v) => NewlineCount(t \o v) = NewlineCount(t)
         /\ IsLine(v) => NewlineCount(t \o v) = NewlineCount(t) + 1
<1>1. PICK k, l \in Nat : k = Len(t) /\ l = Len(v)
  OBVIOUS
<1>2. PICK y : y = t \o v
  OBVIOUS
<1>3. /\ DOMAIN y = 1 .. k + l /\ DOMAIN t = 1 .. k /\ DOMAIN v = 1 .. l
      /\ \A i \in 1 .. k : y[i] = t[i]
      /\ \A i \in k + 1 .. k + l : y[i] = v[i - k]
  BY <1>1, <1>2
<1>4. PICK at, after : at = {i \in 1 .. k : t[i] = NL} /\ after = {i \in 1 .. k + l : y[i] = NL}
  OBVIOUS
<1>5. NewlineCount(t) = Cardinality(at) /\ NewlineCount(y) = Cardinality(after) /\ IsFiniteSet(at)
  BY <1>3, <1>4, NewlinesAre DEF NewlineCount
<1>6. \A i \in at : i \in after /\ i \in 1 .. k
  BY <1>3, <1>4
<1>7. ASSUME NEW i \in after, i \notin at
      PROVE  i - k \in 1 .. l /\ v[i - k] = NL
  <2>1. i \in 1 .. k + l /\ y[i] = NL
    BY <1>4
  <2>2. i \notin 1 .. k
    BY <1>3, <1>4, <1>7, <2>1
  <2>3. i \in k + 1 .. k + l /\ i - k \in 1 .. l
    BY <2>1, <2>2
  <2> QED BY <1>3, <2>1, <2>3
<1>8. CASE NoNewline(v)
  <2>1. after = at
    BY <1>3, <1>6, <1>7, <1>8 DEF NoNewline
  <2>2. ~IsLine(v)
    <3>1. Len(v) > 0 => Len(v) \in DOMAIN v
      BY <1>1, <1>3
    <3> QED BY <1>8, <3>1 DEF NoNewline, IsLine
  <2> QED BY <1>2, <1>5, <2>1, <2>2
<1>9. CASE IsLine(v)
  <2>1. l > 0 /\ \A i \in 1 .. l : v[i] = NL <=> i = l
    BY <1>1, <1>3, <1>9 DEF IsLine
  <2>2. k + l \in k + 1 .. k + l /\ k + l \in 1 .. k + l /\ k + l \notin 1 .. k
        /\ (k + l) - k = l /\ l \in 1 .. l
    BY <1>1, <2>1
  <2>3. k + l \in after /\ k + l \notin at
    BY <1>3, <1>4, <2>1, <2>2
  <2>4. ASSUME NEW i \in after, i \notin at PROVE i = k + l
    <3>1. i - k \in 1 .. l /\ v[i - k] = NL /\ i \in Int
      BY <1>4, <1>7, <2>4
    <3>2. i - k = l
      BY <2>1, <3>1
    <3> QED BY <1>1, <3>1, <3>2
  <2>5. after = at \cup {k + l}
    BY <1>6, <2>3, <2>4
  <2>6. Cardinality(after) = Cardinality(at) + 1
    BY <1>5, <2>3, <2>5, FS_AddElement
  <2>7. ~NoNewline(v)
    BY <1>3, <2>1, <2>2 DEF NoNewline
  <2> QED BY <1>2, <1>5, <2>6, <2>7
<1> QED BY <1>8, <1>9

(* Text after the last newline is kept ... *)
LEMMA RecordedText ==
  ASSUME NEW t, NEW kept, NEW c, Recorded(t, kept, c), NEW v \in Seq(Byte), NoNewline(v),
         NEW k2, k2 = kept \o v
  PROVE  Recorded(t \o v, k2, c)
<1>1. t \in Seq(Byte) /\ kept \in Seq(Byte)
  BY DEF Recorded
<1>2. PICK lost \in Seq(Byte) : t = lost \o kept
  BY DEF Recorded
<1>3. t \o v \in Seq(Byte) /\ k2 \in Seq(Byte) /\ t \o v = lost \o k2
  BY <1>1, <1>2
<1>4. NewlineCount(t \o v) = NewlineCount(t)
  BY <1>1, NewlinesOf
<1> QED BY <1>3, <1>4 DEF Recorded

(* ... and so is a whole command, at the cost of the oldest bytes `old'. *)
LEMMA RecordedCommand ==
  ASSUME NEW t, NEW kept, NEW c, Recorded(t, kept, c), NEW v \in Seq(Byte), IsLine(v),
         NEW old \in Seq(Byte), NEW k2 \in Seq(Byte), old \o k2 = kept \o v
  PROVE  Recorded(t \o v, k2, IF c = N THEN N ELSE c + 1)
<1>1. t \in Seq(Byte) /\ kept \in Seq(Byte)
  BY DEF Recorded
<1>2. PICK lost \in Seq(Byte) : t = lost \o kept
  BY DEF Recorded
<1>3. PICK l2 \in Seq(Byte) : l2 = lost \o old
  <2>1. lost \o old \in Seq(Byte)
    OBVIOUS
  <2> QED BY <2>1
<1>4. t \o v = l2 \o k2
  <2>1. (lost \o kept) \o v = lost \o (kept \o v)
    BY <1>1, BytesJoined
  <2>2. (lost \o old) \o k2 = lost \o (old \o k2)
    BY BytesJoined
  <2> QED BY <1>2, <1>3, <2>1, <2>2
<1>5. t \o v \in Seq(Byte)
  BY <1>1
<1>6. NewlineCount(t \o v) = NewlineCount(t) + 1 /\ NewlineCount(t) \in Nat
  BY <1>1, NewlinesOf, NewlinesAre
<1>7. c = IF NewlineCount(t) < N THEN NewlineCount(t) ELSE N
  BY DEF Recorded
<1>8. (IF c = N THEN N ELSE c + 1) = IF NewlineCount(t \o v) < N THEN NewlineCount(t \o v) ELSE N
  BY <1>6, <1>7, NAssumption
<1> QED BY <1>4, <1>5, <1>8 DEF Recorded

(* What the device has taken from its callers, the call in progress included:
   as much of its copy buffer as the call has stored. *)
Taken(p) == SubSeq(mem[copy[p]], 1, IF retval[p] = -1 THEN start[p] ELSE retval[p])

Storing(p) == pc[p] \in {"wloop", "wunlock"}

Total == IF lock # NoOwner /\ Storing(lock) THEN accepted \o Taken(lock) ELSE accepted

Kept == FlattenSeq(Commands) \o Unfinished

LogInv == loaded => Recorded(Total, Kept, Len(Commands))

(* Total is accepted unless a call of write holds the mutex. *)
TotalFact ==
  /\ (\A p \in Proc : ~Storing(p)) => Total = accepted
  /\ \A p \in Proc : Storing(p) => Total = accepted \o Taken(p) /\ lock = p

LEMMA TotalIs == (DevInv => TotalFact) /\ (DevInv' => TotalFact')
<1>1. ASSUME DevInv PROVE TotalFact
  <2>1. ASSUME NEW p \in Proc, Storing(p) PROVE Total = accepted \o Taken(p) /\ lock = p
    <3>1. lock = p /\ lock # NoOwner
      BY <1>1, <2>1, ProcAssumption DEF DevInv, LockInv, LockDiscipline, Critical, Storing
    <3> QED BY <2>1, <3>1 DEF Total
  <2>2. lock \in Proc \cup {NoOwner}
    BY <1>1 DEF DevInv, LockInv
  <2> QED BY <2>1, <2>2 DEF Total, TotalFact
<1>2. DevInv' => TotalFact'
  BY <1>1, PTL
<1> QED BY <1>1, <1>2

(* What the steps of a call of write that are not turns of its loop do to
   what it has taken: a failed call reports the completed commands, a call
   that returns all it has stored. *)
WriteBegins(p) ==
  ~Storing(p) /\ Storing(p)' /\ Taken(p)' = <<>> /\ accepted' = accepted

WriteGoesOn(p) ==
  Storing(p) /\ Storing(p)' /\ Taken(p)' = Taken(p) /\ accepted' = accepted

WriteEnds(p) ==
  Storing(p) /\ ~Storing(p)' /\ accepted' = accepted \o Taken(p)

Elsewhere(p) == ~Storing(p) /\ ~Storing(p)' /\ accepted' = accepted

LEMMA CallOfWrite ==
  ASSUME ~KreallocFails, DevInv, LineInv, NEW p \in Proc, OtherStep(p)
  PROVE  WriteBegins(p) \/ WriteGoesOn(p) \/ WriteEnds(p) \/ Elsewhere(p)
<1>1. pc \in [Proc -> Labels] /\ CallersOK /\ CopyOK(p) /\ WriteOK(p)
      /\ DeviceOK
  BY DEF DevInv, LockInv, LineInv
<1>2. CASE Acquire(p, "wlock", "wloop")
  <2>1. pc[p] = "wlock" /\ pc'[p] = "wloop" /\ UNCHANGED <<mem, copy, start, retval, accepted>>
    BY <1>1, <1>2 DEF Acquire, Goto, aux
  <2>2. retval[p] = 0 /\ mem[copy[p]] \in Seq(Byte)
    BY <1>1, <2>1 DEF WriteOK, Writing, DeviceOK, Held, CopyPtrs
  <2>3. Taken(p)' = SubSeq(mem[copy[p]], 1, 0)
    BY <2>1, <2>2 DEF Taken
  <2> QED BY <2>1, <2>2, <2>3 DEF WriteBegins, Storing
<1>3. CASE WriteFails(p)
  <2>1. /\ pc[p] = "wloop" /\ pc'[p] = "wunlock" /\ UNCHANGED <<copy, start, accepted>>
        /\ mem' = Freed(mem, WorkingPtr) /\ WorkingPtr = {} /\ retval'[p] = -1
    BY <1>1, <1>3 DEF WriteFails, Goto, MayFail, MustFail, WorkingPtr, aux, CallersOK
  <2>2. Keeps(mem, mem', DOMAIN mem \ {})
    BY <2>1, FreedIs
  <2>3. copy[p] \in DOMAIN mem
    BY <1>1, <2>1 DEF WriteOK, Writing, DeviceOK, Held, CopyPtrs
  <2>4. mem'[copy'[p]] = mem[copy[p]]
    BY <2>1, <2>2, <2>3 DEF Keeps
  <2>5. retval[p] = start[p] /\ start[p] # -1
    BY <1>1, <2>1 DEF CopyOK, Writing, CallersOK
  <2> QED BY <2>1, <2>4, <2>5 DEF WriteGoesOn, Storing, Taken
<1>4. CASE WriteReturn(p)
  BY <1>1, <1>4 DEF WriteReturn, Goto, WriteEnds, Storing, Taken
<1>5. CASE ~(Acquire(p, "wlock", "wloop") \/ WriteFails(p) \/ WriteReturn(p))
  <2>1. CASE Calls(p) \/ ReadFault(p)
    BY <1>1, <2>1 DEF Calls, Open, Release, WriteCopy, ReadStart, SeekStart, Interrupted, ReadFault,
       Goto, Storing, Elsewhere, aux
  <2>2. CASE Locking(p)
    BY <1>1, <1>5, <2>2 DEF Locking, Acquire, Goto, Storing, Elsewhere, aux
  <2>3. CASE Holding(p)
    BY <1>1, <1>5, <2>3 DEF OtherStep, Holding, ReadEOF, ReadFind, ReadCopy,
       SeekToCommand, Llseek, Goto, Storing, Elsewhere, aux
  <2> QED BY <2>1, <2>2, <2>3 DEF OtherStep
<1> QED BY <1>2, <1>3, <1>4, <1>5

LEMMA OtherStepKeepsTotal ==
  ASSUME ~KreallocFails, DevInv, DevInv', LineInv, NEW p \in Proc, OtherStep(p)
  PROVE  Total' = Total
<1>1. /\ CallersOK /\ accepted \in Seq(Byte) /\ \A q \in Proc : WriteOK(q)
  BY DEF DevInv, DeviceOK
<1>2. ASSUME NEW q \in Proc \ {p}, Storing(q) PROVE Storing(q)' /\ Taken(q)' = Taken(q)
  <2>1. /\ pc'[q] = pc[q] /\ copy'[q] = copy[q] /\ start'[q] = start[q] /\ retval'[q] = retval[q]
        /\ Keeps(mem, mem', CopyPtrs \ {copy[p]})
    BY DEF OtherStep, Besides
  <2>2. copy[q] \in CopyPtrs \ {copy[p]}
    BY <1>1, <1>2 DEF WriteOK, Storing, Writing, CopyPtrs, CallersOK
  <2> QED BY <1>2, <2>1, <2>2 DEF Storing, Taken, Keeps
<1>3. \A q \in Proc \ {p} : Storing(q)' => Storing(q)
  BY DEF OtherStep, Besides, Storing
<1>4. TotalFact /\ TotalFact'
  BY TotalIs
<1>5. WriteBegins(p) \/ WriteGoesOn(p) \/ WriteEnds(p) \/ Elsewhere(p)
  BY CallOfWrite
<1>6. CASE \E q \in Proc \ {p} : Storing(q)
  <2>1. PICK q \in Proc \ {p} : Storing(q)
    BY <1>6
  <2>2. ~Storing(p)
    BY <1>4, <2>1 DEF TotalFact
  <2>3. accepted' = accepted
    BY <1>5, <2>2 DEF WriteBegins, WriteGoesOn, WriteEnds, Elsewhere
  <2>4. Total = accepted \o Taken(q)
    BY <1>4, <2>1 DEF TotalFact
  <2>5. Total' = accepted' \o Taken(q)'
    BY <1>2, <1>4, <2>1 DEF TotalFact
  <2> QED BY <1>2, <2>1, <2>3, <2>4, <2>5
<1>7. CASE ~\E q \in Proc \ {p} : Storing(q)
  <2>1. Storing(p) \/ Total = accepted
    BY <1>4, <1>7 DEF TotalFact
  <2>2. Storing(p)' \/ Total' = accepted'
    BY <1>3, <1>4, <1>7 DEF TotalFact
  <2>3. /\ Storing(p) => Total = accepted \o Taken(p)
        /\ Storing(p)' => Total' = accepted' \o Taken(p)'
    BY <1>4 DEF TotalFact
  <2>4. accepted \o <<>> = accepted
    BY <1>1
  <2> QED
    BY <1>5, <2>1, <2>2, <2>3, <2>4 DEF WriteBegins, WriteGoesOn, WriteEnds, Elsewhere
<1> QED BY <1>6, <1>7

Joined(y, a, k, v, n) ==
  /\ y \in Seq(Byte) /\ Len(y) = k + n
  /\ \A i \in 1 .. k : y[i] = a[i]
  /\ \A i \in k + 1 .. k + n : y[i] = v[i - k]

LEMMA JoinedAre ==
  ASSUME NEW a \in Seq(Byte), NEW v \in Seq(Byte)
  PROVE  Joined(a \o v, a, Len(a), v, Len(v))
  BY DEF Joined

LEMMA TakenGrows ==
  ASSUME NEW s \in Seq(Byte), NEW from \in Nat, NEW n \in Nat, from + n <= Len(s),
         NEW v, v = SubSeq(s, from + 1, from + n)
  PROVE  SubSeq(s, 1, from + n) = SubSeq(s, 1, from) \o v
<1>1. PICK a, c : a = SubSeq(s, 1, from) /\ c = SubSeq(s, 1, from + n)
  OBVIOUS
<1>2. a \in Seq(Byte) /\ Len(a) = from /\ \A i \in 1 .. from : a[i] = s[i]
  BY <1>1
<1>3. c \in Seq(Byte) /\ Len(c) = from + n /\ \A i \in 1 .. from + n : c[i] = s[i]
  BY <1>1
<1>4. v \in Seq(Byte) /\ Len(v) = n /\ \A i \in 1 .. n : v[i] = s[from + i]
  OBVIOUS
<1>5. PICK y : y = a \o v
  OBVIOUS
<1>6. Joined(y, a, from, v, n)
  BY <1>2, <1>4, <1>5, JoinedAre
<1>7. ASSUME NEW i \in 1 .. from + n PROVE y[i] = c[i]
  <2>1. CASE i \in 1 .. from
    BY <1>2, <1>3, <1>6, <2>1 DEF Joined
  <2>2. CASE i \notin 1 .. from
    <3>1. i \in from + 1 .. from + n /\ i - from \in 1 .. n /\ from + (i - from) = i
      BY <2>2
    <3> QED BY <1>3, <1>4, <1>6, <3>1 DEF Joined
  <2> QED BY <2>1, <2>2
<1>8. y = c
  BY <1>3, <1>6, <1>7 DEF Joined
<1> QED BY <1>1, <1>5, <1>8

LEMMA TurnTotal ==
  ASSUME DevInv, DevInv', NEW p \in Proc,
         NEW s, NEW from, NEW d, NEW n, NEW v, Turn(p, s, from, d, n, v),
         TakesLine(p, s, from, d, n, v)
  PROVE  Total' = Total \o v
<1>1. /\ pc[p] = "wloop" /\ s = mem[copy[p]] /\ s \in Seq(Byte) /\ copy[p] \in CopyPtrs
      /\ v = SubSeq(s, from + 1, from + n) /\ retval[p] = from /\ from \in Nat
      /\ n \in Nat /\ from + n <= Len(s) /\ v \in Seq(Byte)
      /\ Keeps(mem, mem', CopyPtrs) /\ copy' = copy /\ accepted' = accepted
      /\ retval' = [retval EXCEPT ![p] = @ + n]
      /\ pc' = [pc EXCEPT ![p] = "wunlock"] \/ pc' = pc
  BY DEF Turn, Taking, RestKept, LineGrows, LineEnds, TakesLine
<1>2. /\ pc \in [Proc -> Labels] /\ CallersOK /\ accepted \in Seq(Byte)
  BY DEF DevInv, LockInv, DeviceOK
<1>3. Storing(p) /\ Storing(p)'
  BY <1>1, <1>2 DEF Storing
<1>4. Total = accepted \o Taken(p) /\ Total' = accepted' \o Taken(p)'
  BY <1>3, TotalIs DEF TotalFact
<1>5. Taken(p) = SubSeq(s, 1, from)
  <2>1. from # -1
    BY <1>1
  <2> QED BY <1>1, <2>1 DEF Taken
<1>6. Taken(p)' = SubSeq(s, 1, from + n)
  <2>1. retval'[p] = from + n /\ from + n # -1
    BY <1>1, <1>2 DEF CallersOK
  <2>2. mem'[copy'[p]] = s
    BY <1>1 DEF Keeps
  <2> QED BY <2>1, <2>2 DEF Taken
<1>7. SubSeq(s, 1, from + n) = SubSeq(s, 1, from) \o v
  <2>1. /\ s \in Seq(Byte) /\ from \in Nat /\ n \in Nat /\ from + n <= Len(s)
        /\ v = SubSeq(s, from + 1, from + n)
    BY <1>1
  <2> QED BY <2>1, TakenGrows
<1>8. PICK a \in Seq(Byte) : a = SubSeq(s, 1, from)
  <2>1. SubSeq(s, 1, from) \in Seq(Byte)
    BY <1>1
  <2> QED BY <2>1
<1>9. Total = accepted \o a /\ Total' = accepted \o (a \o v)
  BY <1>1, <1>4, <1>5, <1>6, <1>7, <1>8
<1>10. accepted \o (a \o v) = (accepted \o a) \o v
  <2>1. accepted \in Seq(Byte) /\ v \in Seq(Byte)
    BY <1>1, <1>2
  <2> QED BY <2>1, BytesJoined
<1> QED BY <1>9, <1>10

LEMMA LoggedType ==
  ASSUME NEW log \in Seq(Seq(Byte)), NEW x \in Seq(Byte), NEW t, t = Logged(log, x)
  PROVE  /\ t \in Seq(Seq(Byte)) /\ FlattenSeq(t) \in Seq(Byte)
         /\ Len(t) = IF Len(log) = N THEN N ELSE Len(log) + 1
<1>1. CASE Len(log) = N
  <2>1. log # <<>>
    BY <1>1, NAssumption
  <2>2. PICK rest \in Seq(Seq(Byte)) : rest = Tail(log) /\ Len(rest) = N - 1
    <3>1. Tail(log) \in Seq(Seq(Byte)) /\ Len(Tail(log)) = N - 1
      BY <1>1, <2>1
    <3> QED BY <3>1
  <2>3. t = Append(rest, x)
    BY <1>1, <2>2 DEF Logged
  <2>4. t \in Seq(Seq(Byte)) /\ Len(t) = (N - 1) + 1
    BY <2>2, <2>3
  <2> QED BY <1>1, <2>4, FlattenInSeq, NAssumption
<1>2. CASE Len(log) # N
  <2>1. t = Append(log, x)
    BY <1>2 DEF Logged
  <2>2. t \in Seq(Seq(Byte)) /\ Len(t) = Len(log) + 1
    BY <2>1
  <2> QED BY <1>2, <2>2, FlattenInSeq
<1> QED BY <1>1, <1>2

LEMMA TurnKeepsLog ==
  ASSUME DevInv, DevInv', LineInv, LogInv, NEW p \in Proc, WriteChunk(p)
  PROVE  LogInv'
<1>1. PICK s, from, d, n, v : Turn(p, s, from, d, n, v)
  BY TurnIs
<1>2. TakesLine(p, s, from, d, n, v)
  BY <1>1, TurnTakesLine DEF LineInv
<1>3. Total' = Total \o v /\ v \in Seq(Byte)
  BY <1>1, <1>2, TurnTotal DEF TakesLine
<1>4. Recorded(Total, Kept, Len(Commands))
  BY <1>1 DEF LogInv, Turn, RestKept
<1>5. /\ Commands \in Seq(Seq(Byte)) /\ Unfinished \in Seq(Byte) /\ FlattenSeq(Commands) \in Seq(Byte)
      /\ Len(Commands) \in 0 .. N /\ NoNewline(Unfinished)
  BY ContentsType, FlattenInSeq DEF LineInv, LinesOK
<1>6. CASE d = -1
  <2>1. Commands' = Commands /\ Unfinished' = Unfinished \o v
    BY <1>1, <1>6, TurnContents
  <2>2. Kept' = Kept \o v
    BY <1>3, <1>5, <2>1, BytesJoined DEF Kept
  <2>3. NoNewline(v)
    BY <1>2, <1>6 DEF TakesLine
  <2>4. Recorded(Total \o v, Kept', Len(Commands))
    BY <1>3, <1>4, <2>2, <2>3, RecordedText
  <2> QED BY <1>3, <2>1, <2>4 DEF LogInv
<1>7. CASE d # -1
  <2>1. Commands' = Logged(Commands, Unfinished \o v) /\ Unfinished' = <<>>
    BY <1>1, <1>7, TurnContents
  <2>2. PICK x \in Seq(Byte) : x = Unfinished \o v
    <3>1. Unfinished \o v \in Seq(Byte)
      BY <1>3, <1>5
    <3> QED BY <3>1
  <2>3. /\ Commands' \in Seq(Seq(Byte)) /\ FlattenSeq(Commands') \in Seq(Byte)
        /\ Len(Commands') = IF Len(Commands) = N THEN N ELSE Len(Commands) + 1
    BY <1>5, <2>1, <2>2, LoggedType
  <2>4. Kept' = FlattenSeq(Commands')
    <3>1. Kept' = FlattenSeq(Commands') \o <<>>
      BY <2>1 DEF Kept
    <3> QED BY <2>3, <3>1
  <2>5. IsLine(v)
    BY <1>2, <1>7 DEF TakesLine
  <2>6. Kept \o v = FlattenSeq(Commands) \o x
    BY <1>3, <1>5, <2>2, BytesJoined DEF Kept
  <2>7. PICK old \in Seq(Byte) : old \o Kept' = Kept \o v
    <3>1. CASE Len(Commands) = N
      BY <1>5, <2>1, <2>2, <2>4, <2>6, <3>1, LoggedFlat
    <3>2. CASE Len(Commands) # N
      <4>1. Kept' = Kept \o v
        BY <1>5, <2>1, <2>2, <2>4, <2>6, <3>2, LoggedFlat
      <4>2. <<>> \in Seq(Byte) /\ <<>> \o Kept' = Kept'
        BY <2>3, <2>4
      <4> QED BY <4>1, <4>2
    <3> QED BY <3>1, <3>2
  <2>8. Kept' \in Seq(Byte)
    BY <2>3, <2>4
  <2>9. Recorded(Total \o v, Kept', IF Len(Commands) = N THEN N ELSE Len(Commands) + 1)
    BY <1>3, <1>4, <2>5, <2>7, <2>8, RecordedCommand
  <2> QED BY <1>3, <2>3, <2>9 DEF LogInv
<1> QED BY <1>6, <1>7

LEMMA LogInvStep ==
  ASSUME ~KreallocFails, DevInv, DevInv', LineInv, LogInv, [Next]_vars
  PROVE  LogInv'
<1>1. CASE Load
  <2>1. /\ \A q \in Proc : pc'[q] = "closed"
        /\ accepted' = <<>>
    BY <1>1 DEF Load, DevInv, LockInv
  <2>2. Total' = <<>>
    BY <2>1, TotalIs DEF TotalFact, Storing
  <2>3. Commands' = <<>> /\ Unfinished' = <<>>
    BY <1>1, ReloadContents
  <2>4. Kept' = <<>> /\ Len(Commands') = 0
    <3>1. FlattenSeq(<<>>) = <<>>
      BY FlattenEmpty
    <3> QED BY <2>3, <3>1 DEF Kept
  <2>5. NewlineCount(<<>>) = 0
    <3>1. {i \in DOMAIN <<>> : <<>>[i] = NL} = {}
      OBVIOUS
    <3> QED BY <3>1, FS_EmptySet DEF NewlineCount
  <2>6. <<>> \in Seq(Byte) /\ <<>> = <<>> \o <<>>
    OBVIOUS
  <2>7. Recorded(<<>>, <<>>, 0)
    <3>1. 0 = IF NewlineCount(<<>>) < N THEN NewlineCount(<<>>) ELSE N
      BY <2>5, NAssumption
    <3>2. \E lost \in Seq(Byte) : <<>> = lost \o <<>>
      BY <2>6
    <3> QED BY <2>6, <3>1, <3>2, Zenon DEF Recorded
  <2> QED BY <2>2, <2>4, <2>7 DEF LogInv
<1>2. CASE Unload
  BY <1>2 DEF Unload, LogInv
<1>3. CASE UNCHANGED vars
  <2>1. UNCHANGED <<Commands, Unfinished>>
    BY <1>3, StutterKeepsContents
  <2>2. UNCHANGED <<loaded, lock, pc, accepted, mem, copy, start, retval>>
    BY <1>3 DEF vars
  <2>3. Total' = Total
    BY <2>2 DEF Total, Storing, Taken
  <2> QED BY <2>1, <2>2, <2>3 DEF LogInv, Kept
<1>4. ASSUME NEW p \in Proc, OtherStep(p) PROVE LogInv'
  <2>1. UNCHANGED <<Commands, Unfinished>>
    BY <1>4, OtherStepKeepsContents
  <2>2. Total' = Total
    BY <1>4, OtherStepKeepsTotal
  <2>3. loaded' = loaded
    BY <1>4 DEF OtherStep, Besides
  <2> QED BY <2>1, <2>2, <2>3 DEF LogInv, Kept
<1>5. ASSUME NEW p \in Proc, WriteChunk(p) PROVE LogInv'
  BY <1>5, TurnKeepsLog
<1> QED BY <1>1, <1>2, <1>3, <1>4, <1>5, StepIs

LEMMA LogInvHolds == ASSUME ~KreallocFails, OneLine PROVE Spec => []LogInv
<1>1. Init => LogInv
  BY DEF Init, LogInv
<1>2. LogInv /\ LineInv /\ DevInv /\ DevInv' /\ [Next]_vars => LogInv'
  BY LogInvStep
<1> QED BY <1>1, <1>2, DevInvHolds, LineInvHolds, PTL DEF Spec

LEMMA ReverseIs ==
  ASSUME NEW t \in Seq(Byte), NEW n, n = Len(t)
  PROVE  /\ Reverse(t) \in Seq(Byte) /\ Len(Reverse(t)) = n
         /\ \A i \in 1 .. n : Reverse(t)[i] = t[n - i + 1]
<1>1. n \in Nat /\ \A i \in 1 .. n : n - i + 1 \in 1 .. n /\ t[n - i + 1] \in Byte
  OBVIOUS
<1>2. Reverse(t) = [i \in 1 .. n |-> t[n - i + 1]]
  BY DEF Reverse
<1> QED BY <1>1, <1>2

LEMMA SuffixIs ==
  ASSUME NEW u \in Seq(Byte), NEW k \in Seq(Byte), NEW t, t = u \o k
  PROVE  IsSuffix(k, t)
<1>1. PICK a, b \in Nat : a = Len(u) /\ b = Len(k)
  OBVIOUS
<1>2. /\ t \in Seq(Byte) /\ Len(t) = a + b
      /\ \A i \in a + 1 .. a + b : t[i] = k[i - a]
  BY <1>1
<1>3. PICK rk \in Seq(Byte) :
        rk = Reverse(k) /\ Len(rk) = b /\ \A i \in 1 .. b : rk[i] = k[b - i + 1]
  BY <1>1, ReverseIs
<1>4. PICK rt \in Seq(Byte) :
        /\ rt = Reverse(t) /\ Len(rt) = a + b
        /\ \A i \in 1 .. a + b : rt[i] = t[(a + b) - i + 1]
  BY <1>2, ReverseIs
<1>5. ASSUME NEW i \in 1 .. b PROVE rk[i] = rt[i]
  <2>1. /\ i \in 1 .. a + b /\ (a + b) - i + 1 \in a + 1 .. a + b
        /\ ((a + b) - i + 1) - a = b - i + 1
    OBVIOUS
  <2> QED BY <1>2, <1>3, <1>4, <2>1
<1>6. IsPrefix(rk, rt)
  BY <1>3, <1>4, <1>5, PrefixIs
<1> QED BY <1>3, <1>4, <1>6 DEF IsSuffix

(* Between two calls the device holds exactly the last bytes its callers
   passed, in the order of their calls and no call split: the N most recent
   commands and the unfinished one. *)
THEOREM KeepsRecentCommands ==
  ASSUME ~KreallocFails, OneLine PROVE Spec => []HoldsRecentCommands
<1>1. ASSUME DevInv, LineInv, LogInv PROVE HoldsRecentCommands
  <2> SUFFICES ASSUME loaded, lock = NoOwner
               PROVE  /\ IsSuffix(Kept, accepted)
                      /\ Len(Commands) = IF NewlineCount(accepted) < N THEN NewlineCount(accepted) ELSE N
                      /\ NoNewline(Unfinished)
    BY DEF HoldsRecentCommands, Kept, NewlineCount, NoNewline
  <2>1. Recorded(accepted, Kept, Len(Commands))
    BY <1>1 DEF LogInv, Total
  <2>2. PICK lost \in Seq(Byte) : accepted = lost \o Kept /\ Kept \in Seq(Byte)
    BY <2>1 DEF Recorded
  <2>3. IsSuffix(Kept, accepted)
    BY <2>2, SuffixIs
  <2> QED BY <1>1, <2>1, <2>3 DEF Recorded, LineInv, LinesOK
<1>2. DevInv /\ LineInv /\ LogInv => HoldsRecentCommands
  BY <1>1
<1> QED BY <1>2, DevInvHolds, LineInvHolds, LogInvHolds, PTL
=============================================================================
