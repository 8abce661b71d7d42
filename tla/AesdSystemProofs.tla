--------------------------- MODULE AesdSystemProofs ---------------------------
(***************************************************************************)
(* Proofs about the server and the driver together, for any number of      *)
(* threads, packets and signals: what the threads do to the device is what *)
(* AesdChar says its callers may do, so the theorems of AesdCharProofs     *)
(* hold here too; a packet that a thread takes for stored is in the device *)
(* once; and the echo of a packet contains it.                             *)
(***************************************************************************)
EXTENDS AesdSystem, AesdCharProofs

(* The driver runs under the server as it does under any callers. *)
LEMMA SystemStep ==
  ASSUME [SysNext]_sysVars
  PROVE  [Next]_vars
<1>1. CASE UNCHANGED sysVars
  BY <1>1 DEF sysVars
<1>2. CASE LoadDriver
  BY <1>2 DEF LoadDriver, Next
<1>3. ASSUME NEW p \in Proc, OpenDevice(p) \/ CallInterrupted(p)
      PROVE  Next
  BY <1>3 DEF OpenDevice, CallInterrupted, Calls, Next
<1>4. ASSUME NEW p \in Proc, SendFails(p)
      PROVE  UNCHANGED vars
  BY <1>4 DEF SendFails
<1>5. ASSUME NEW p \in Proc, Worker(p)
      PROVE  Next
  <2>1. CASE CallWrite(p) \/ CallIoctl(p) \/ CallRead(p) \/ CloseDevice(p) \/ CloseAndEnd(p)
    BY <2>1 DEF CallWrite, CallIoctl, CallRead, CloseDevice, CloseAndEnd, Calls, Next
  <2>2. CASE InDriver(p) \/ WriteDone(p) \/ IoctlDone(p) \/ ReadSome(p) \/ ReadEnd(p)
    BY <2>2 DEF InDriver, WriteDone, IoctlDone, ReadSome, ReadEnd, Holding, Next
  <2> QED BY <1>5, <2>1, <2>2 DEF Worker
<1> QED BY <1>1, <1>2, <1>3, <1>4, <1>5 DEF SysNext

(* The connection threads call the device as AesdChar lets its processes do. *)
THEOREM SystemUsesDevice == SysSpec => Spec
<1>1. SysInit => Init
  BY DEF SysInit
<1>2. [SysNext]_sysVars => [Next]_vars
  BY SystemStep
<1> QED BY <1>1, <1>2, PTL DEF SysSpec, Spec

----------------------------------------------------------------------------
(* The inductive invariants.  A packet is a data byte and its newline, as in
   the run; a call of write has one in its copy buffer until it returns. *)
OnePacket == NL # "x" /\ Payload = {<<"x", NL>>}

Stops == {"recv", "write", "ioctl", "read", "close", "end", "ended"}

SysTypes ==
  at \in [Proc -> Stops] /\ stored \in [Proc -> Nat] /\ since \in [Proc -> Nat]

PacketOK(p) == pc[p] \in Writing =>
  /\ at[p] = "write" /\ mem[copy[p]] = <<p, NL>>
  /\ pc[p] = "wloop" => start[p] \in {0, 2}
  /\ pc[p] = "wunlock" => (retval[p] = -1 /\ start[p] = 0) \/ retval[p] = 2

CountOf(p, t) == Cardinality({i \in DOMAIN t : t[i] = p})

StoredInv ==
  /\ SysTypes
  /\ ~loaded => accepted = <<>> /\ \A p \in Proc : stored[p] = 0 /\ since[p] = 0
  /\ \A p \in Proc : PacketOK(p) /\ CountOf(p, accepted) = stored[p]

(* A thread's step moves it on, and changes what is stored only when a call of
   write returns. *)
ThreadStep(p) ==
  /\ WriteChunk(p) \/ OtherStep(p) \/ UNCHANGED vars
  /\ \E l \in Stops : at' = [at EXCEPT ![p] = l]
  /\ pc'[p] \in Writing => at'[p] = "write"
  /\ WriteDone(p) \/ UNCHANGED <<accepted, stored, since>>

LEMMA ThreadStepIs ==
  ASSUME ~KreallocFails, DevInv, SysTypes, NEW p \in Proc, PacketOK(p),
         OpenDevice(p) \/ Worker(p) \/ CallInterrupted(p) \/ SendFails(p)
  PROVE  ThreadStep(p)
<1>1. pc \in [Proc -> Labels] /\ at \in [Proc -> Stops] /\ at = [at EXCEPT ![p] = at[p]]
  BY DEF DevInv, LockInv, SysTypes
<1>2. ASSUME Calls(p) \/ Locking(p) \/ Holding(p)
      PROVE  WriteChunk(p) \/ OtherStep(p)
  BY <1>2, StepsBesides DEF OtherStep
<1>3. CASE OpenDevice(p)
  <2>1. Calls(p) /\ pc'[p] = "idle" /\ UNCHANGED <<accepted, stored, since>>
    BY <1>1, <1>3 DEF OpenDevice, Calls, Open, Goto
  <2>2. \E l \in Stops : at' = [at EXCEPT ![p] = l]
    BY <1>3 DEF OpenDevice, NowAt, Stops
  <2> QED BY <1>2, <2>1, <2>2 DEF ThreadStep, Writing
<1>4. CASE CallInterrupted(p)
  <2>1. Calls(p) /\ pc'[p] = "idle" /\ accepted' = accepted
    BY <1>1, <1>4 DEF CallInterrupted, Calls, Interrupted, Goto, aux
  <2>2. AfterEINTR(at[p]) \in Stops /\ ~(at[p] = "write" /\ AfterEINTR(at[p]) = "read")
    BY <1>1 DEF AfterEINTR, Stops
  <2>3. at' = [at EXCEPT ![p] = AfterEINTR(at[p])] /\ UNCHANGED <<stored, since>>
    BY <1>4, <2>2 DEF CallInterrupted, GoOn, NowAt
  <2> QED BY <1>2, <2>1, <2>2, <2>3 DEF ThreadStep, Writing
<1>5. CASE SendFails(p)
  <2>1. UNCHANGED vars /\ pc'[p] = "idle" /\ UNCHANGED <<accepted, stored, since>>
        /\ at' = [at EXCEPT ![p] = "end"]
    BY <1>5 DEF SendFails, vars, NowAt
  <2> QED BY <2>1 DEF ThreadStep, Writing, Stops
<1>6. CASE CallWrite(p) \/ CallIoctl(p) \/ CallRead(p)
  <2>1. /\ Calls(p) /\ UNCHANGED <<accepted, stored, since>> /\ at' = at
        /\ at[p] = "write" \/ pc'[p] \in {"slock", "rlock"}
    BY <1>1, <1>6 DEF CallWrite, CallIoctl, CallRead, Calls, WriteCopy, SeekStart, ReadStart,
       Goto, aux, system
  <2> QED BY <1>1, <1>2, <2>1 DEF ThreadStep, Writing
<1>7. CASE CloseDevice(p) \/ CloseAndEnd(p)
  <2>1. /\ Calls(p) /\ UNCHANGED <<accepted, stored, since>> /\ pc'[p] = "closed"
        /\ \E l \in {"recv", "ended"} : at' = [at EXCEPT ![p] = l]
    BY <1>1, <1>7 DEF CloseDevice, CloseAndEnd, Calls, Release, Goto, NowAt
  <2> QED BY <1>2, <2>1 DEF ThreadStep, Writing, Stops
<1>8. CASE InDriver(p)
  <2>1. /\ Locking(p) \/ Holding(p)
        /\ UNCHANGED <<accepted, stored, since>> /\ at' = at
    BY <1>8 DEF InDriver, Locking, Acquire, Holding, WriteChunk, WriteFails, ReadFind, aux, system
  <2>2. pc[p] \in Writing \/ pc'[p] \notin Writing
    BY <1>1, <1>8 DEF InDriver, Locking, Acquire, WriteChunk, WriteFails, ReadFind, Goto, Writing
  <2> QED BY <1>1, <1>2, <2>1, <2>2 DEF ThreadStep, PacketOK
<1>9. CASE WriteDone(p)
  <2>1. Holding(p) /\ pc'[p] = "idle"
    BY <1>1, <1>9 DEF WriteDone, Holding, WriteReturn, Goto
  <2>2. \E l \in Stops : at' = [at EXCEPT ![p] = l]
    BY <1>9 DEF WriteDone, GoOn, NowAt, Stops
  <2> QED BY <1>2, <1>9, <2>1, <2>2 DEF ThreadStep, Writing
<1>10. CASE IoctlDone(p) \/ ReadSome(p) \/ ReadEnd(p)
  <2>1. Holding(p) /\ pc'[p] = "idle" /\ UNCHANGED <<accepted, stored, since>>
    BY <1>1, <1>10 DEF IoctlDone, ReadSome, ReadEnd, Holding, SeekToCommand, ReadCopy, ReadEOF,
       Goto, system
  <2>2. \E l \in Stops : at' = [at EXCEPT ![p] = l]
    BY <1>1, <1>10 DEF IoctlDone, ReadSome, ReadEnd, NowAt, Stops, system
  <2> QED BY <1>2, <2>1, <2>2 DEF ThreadStep, Writing
<1> QED BY <1>3, <1>4, <1>5, <1>6, <1>7, <1>8, <1>9, <1>10 DEF Worker

(* A packet, once copied, as a text. *)
LEMMA PacketIs ==
  ASSUME NEW p \in Proc, NEW s, s = <<p, NL>>
  PROVE  /\ s \in Seq(Byte) /\ Len(s) = 2 /\ s[1] = p /\ s[2] = NL /\ p # NL
         /\ IsLine(s) /\ SubSeq(s, 1, 2) = s /\ SubSeq(s, 1, 0) = <<>>
<1>1. s \in Seq(Byte) /\ Len(s) = 2 /\ s[1] = p /\ s[2] = NL /\ p # NL /\ DOMAIN s = 1 .. 2
  BY ProcAssumption DEF Byte
<1>2. IsLine(s)
  BY <1>1 DEF IsLine
<1>3. SubSeq(s, 1, 2) = s
  <2>1. PICK c : c = SubSeq(s, 1, 2)
    OBVIOUS
  <2>2. c \in Seq(Byte) /\ Len(c) = 2 /\ \A i \in 1 .. 2 : c[i] = s[i]
    BY <1>1, <2>1
  <2>3. Len(s) = Len(c) /\ \A i \in 1 .. Len(s) : s[i] = c[i]
    BY <1>1, <2>2
  <2>4. s = c
    BY <1>1, <2>2, <2>3
  <2> QED BY <2>1, <2>4
<1>4. SubSeq(s, 1, 0) = <<>>
  BY <1>1
<1> QED BY <1>1, <1>2, <1>3, <1>4

LEMMA PacketsAreLines == OnePacket => OneLine
<1> SUFFICES ASSUME OnePacket, NEW w \in Payload, NEW i \in DOMAIN w, NEW j \in DOMAIN w,
                    w[i] = NL, w[j] = NL
             PROVE  i = j
  BY DEF OneLine
<1>1. w = <<"x", NL>> /\ NL # "x"
  BY DEF OnePacket
<1>2. DOMAIN w = 1 .. 2 /\ w[1] = "x"
  BY <1>1
<1> QED BY <1>1, <1>2

(* A turn of the loop takes the packet, and the next one nothing. *)
LEMMA TurnOfPacket ==
  ASSUME NEW p \in Proc, PacketOK(p), pc[p] = "wloop",
         NEW s, s = mem[copy[p]], NEW from, from = start[p], NEW d, NEW n, Chunked(s, from, d, n)
  PROVE  /\ from = 0 => d = 1 /\ n = 2
         /\ from # 0 => d = -1 /\ n = 0 /\ from = 2
<1>1. s = <<p, NL>> /\ from \in {0, 2}
  BY DEF PacketOK, Writing
<1>2. Len(s) = 2 /\ s[1] = p /\ s[2] = NL /\ p # NL
  BY <1>1, PacketIs
<1>3. d \in Int /\ d >= -1
  BY DEF Chunked
<1>4. CASE from = 0
  <2>1. d # -1
    BY <1>2, <1>4 DEF Chunked
  <2>2. n = d - from + 1 /\ from + d + 1 <= Len(s) /\ s[from + d + 1] = NL
    BY <2>1 DEF Chunked
  <2>3. d = 0 \/ d = 1
    BY <1>2, <1>3, <1>4, <2>1, <2>2
  <2>4. d # 0
    BY <1>2, <1>4, <2>2
  <2> QED BY <1>4, <2>2, <2>3, <2>4
<1>5. CASE from = 2
  <2>1. d = -1
    BY <1>2, <1>3, <1>5 DEF Chunked
  <2> QED BY <1>2, <1>5, <2>1 DEF Chunked
<1> QED BY <1>1, <1>4, <1>5

LEMMA PacketAfterTurn ==
  ASSUME DevInv, DevInv', LineInv, LineInv', NEW p \in Proc, PacketOK(p), WriteChunk(p),
         pc'[p] \in Writing => at'[p] = "write"
  PROVE  PacketOK(p)'
<1>1. PICK s, from, d, n, v : Turn(p, s, from, d, n, v)
  BY TurnIs
<1>2. /\ pc[p] = "wloop" /\ s = mem[copy[p]] /\ copy[p] \in CopyPtrs /\ from = start[p]
      /\ Chunked(s, from, d, n) /\ Keeps(mem, mem', CopyPtrs) /\ copy' = copy
      /\ retval' = [retval EXCEPT ![p] = @ + n]
      /\ d = -1 => pc' = [pc EXCEPT ![p] = "wunlock"] /\ start' = start
      /\ d # -1 => pc' = pc /\ start' = [start EXCEPT ![p] = from + d + 1]
  BY <1>1 DEF Turn, Taking, RestKept, LineGrows, LineEnds
<1>3. pc \in [Proc -> Labels] /\ CallersOK /\ CopyOK(p)
  BY DEF DevInv, LockInv, LineInv
<1>4. mem'[copy'[p]] = <<p, NL>> /\ retval[p] = start[p]
  BY <1>2, <1>3 DEF Keeps, PacketOK, CopyOK, Writing
<1>5. (from = 0 => d = 1 /\ n = 2) /\ (from # 0 => d = -1 /\ n = 0 /\ from = 2)
  BY <1>2, TurnOfPacket
<1>6. CASE from = 0
  <2>1. pc'[p] = "wloop" /\ start'[p] = 2
    BY <1>2, <1>3, <1>5, <1>6 DEF CallersOK
  <2> QED BY <1>4, <2>1 DEF PacketOK, Writing
<1>7. CASE from # 0
  <2>1. pc'[p] = "wunlock" /\ retval'[p] = 2
    BY <1>2, <1>3, <1>4, <1>5, <1>7 DEF CallersOK
  <2> QED BY <1>4, <2>1 DEF PacketOK, Writing
<1> QED BY <1>6, <1>7

LEMMA PacketAfterOther ==
  ASSUME ~KreallocFails, OnePacket, DevInv, NEW p \in Proc, PacketOK(p), OtherStep(p),
         pc'[p] \in Writing => at'[p] = "write"
  PROVE  PacketOK(p)'
<1>1. pc \in [Proc -> Labels] /\ CallersOK /\ WriteOK(p)
  BY DEF DevInv, LockInv
<1>2. CASE WriteCopy(p)
  <2>1. PICK w \in Payload :
          mem' = Allocated(mem, Fresh, [i \in DOMAIN w |-> IF w[i] = NL THEN NL ELSE p])
    BY <1>2 DEF WriteCopy
  <2>2. [i \in DOMAIN w |-> IF w[i] = NL THEN NL ELSE p] = <<p, NL>>
    <3>1. w = <<"x", NL>> /\ NL # "x"
      BY DEF OnePacket
    <3>2. DOMAIN w = 1 .. 2 /\ w[1] # NL /\ w[2] = NL
      BY <3>1
    <3> QED BY <3>2
  <2>3. pc'[p] = "wlock" /\ mem'[copy'[p]] = <<p, NL>>
    BY <1>1, <1>2, <2>1, <2>2 DEF WriteCopy, Goto, Allocated, CallersOK
  <2> QED BY <2>3 DEF PacketOK, Writing
<1>3. CASE Locking(p)
  <2>1. \/ pc[p] = "wlock" /\ pc'[p] = "wloop" /\ UNCHANGED <<mem, copy, start>>
        \/ pc'[p] \in {"rfind", "sbody"}
    BY <1>1, <1>3 DEF Locking, Acquire, Goto
  <2> QED BY <1>1, <2>1 DEF PacketOK, WriteOK, Writing
<1>4. CASE WriteFails(p)
  <2>1. /\ pc[p] = "wloop" /\ pc'[p] = "wunlock" /\ copy' = copy /\ start' = start
        /\ mem' = Freed(mem, WorkingPtr) /\ retval'[p] = -1
        /\ MayFail(MemToMalloc(mem[copy[p]], start[p], FindDelimiter(mem[copy[p]], start[p])))
    BY <1>1, <1>4 DEF WriteFails, Goto, CallersOK
  <2>2. WorkingPtr = {}
    BY <2>1 DEF MayFail, MustFail, WorkingPtr
  <2>3. mem'[copy'[p]] = <<p, NL>>
    <3>1. Keeps(mem, mem', DOMAIN mem \ {})
      BY <2>1, <2>2, FreedIs
    <3>2. copy[p] \in DOMAIN mem
      BY <1>1, <2>1 DEF WriteOK, Writing, DevInv, DeviceOK, Held, CopyPtrs
    <3> QED BY <2>1, <3>1, <3>2 DEF Keeps, PacketOK, Writing
  <2>4. start[p] = 0
    <3>1. PICK s : s = mem[copy[p]] /\ s \in Seq(Byte) /\ Len(s) = 2
      BY <2>1, PacketIs DEF PacketOK, Writing
    <3>2. PICK from : from = start[p] /\ from \in 0 .. Len(s)
      BY <2>1, <3>1 DEF PacketOK, Writing
    <3>3. PICK d, n : d = FindDelimiter(s, from) /\ n = MemToMalloc(s, from, d)
      OBVIOUS
    <3>4. Chunked(s, from, d, n)
      BY <3>1, <3>2, <3>3, ChunkIs
    <3>5. n # 0
      BY <2>1, <3>1, <3>2, <3>3 DEF MayFail, MustFail
    <3> QED BY <2>1, <3>1, <3>2, <3>4, <3>5, TurnOfPacket
  <2> QED BY <2>1, <2>3, <2>4 DEF PacketOK, Writing
<1>5. CASE ~(WriteCopy(p) \/ Locking(p) \/ WriteFails(p))
  BY <1>5, OnlyTheseWrite DEF PacketOK
<1> QED BY <1>2, <1>3, <1>4, <1>5

(* What the other threads see of a step of p. *)
LEMMA OtherPackets ==
  ASSUME DevInv, SysTypes, NEW p \in Proc, ThreadStep(p), NEW q \in Proc \ {p}, PacketOK(q)
  PROVE  PacketOK(q)'
<1>1. at'[q] = at[q]
  BY DEF ThreadStep, SysTypes
<1>2. CASE UNCHANGED vars
  BY <1>1, <1>2 DEF vars, PacketOK
<1>3. WriteOK(q) /\ LockInv /\ CallersOK
  BY DEF DevInv
<1>4. ASSUME WriteChunk(p) \/ OtherStep(p)
      PROVE  /\ pc'[q] = pc[q] /\ copy'[q] = copy[q] /\ start'[q] = start[q]
             /\ retval'[q] = retval[q]
             /\ Keeps(mem, mem', CopyPtrs \ {copy[p]})
  <2>1. CASE OtherStep(p)
    BY <2>1 DEF OtherStep, Besides
  <2>2. CASE WriteChunk(p)
    <3>1. PICK s, from, d, n, v : Turn(p, s, from, d, n, v)
      BY <2>2, TurnIs
    <3>2. /\ Keeps(mem, mem', CopyPtrs) /\ copy' = copy
          /\ retval' = [retval EXCEPT ![p] = @ + n]
          /\ pc' = [pc EXCEPT ![p] = "wunlock"] \/ pc' = pc
          /\ start' = start \/ start' = [start EXCEPT ![p] = from + d + 1]
      BY <3>1 DEF Turn, RestKept, LineGrows, LineEnds
    <3>3. Keeps(mem, mem', CopyPtrs \ {copy[p]})
      BY <3>2 DEF Keeps
    <3> QED BY <1>3, <3>2, <3>3 DEF LockInv, CallersOK
  <2> QED BY <1>4, <2>1, <2>2
<1>5. pc[q] \in Writing => copy[q] \in CopyPtrs \ {copy[p]}
  BY <1>3 DEF WriteOK, CallersOK, CopyPtrs
<1> QED BY <1>1, <1>2, <1>4, <1>5 DEF ThreadStep, PacketOK, Keeps

(* A packet more, of one byte of p. *)
LEMMA CountAfterPacket ==
  ASSUME NEW p \in Proc, NEW q \in Proc, NEW t \in Seq(Byte), NEW t2 \in Seq(Byte),
         t2 = t \o <<p, NL>>
  PROVE  /\ q = p => CountOf(q, t2) = CountOf(q, t) + 1
         /\ q # p => CountOf(q, t2) = CountOf(q, t)
<1>1. PICK k \in Nat : k = Len(t)
  OBVIOUS
<1>2. /\ DOMAIN t = 1 .. k /\ DOMAIN t2 = 1 .. k + 2 /\ p # NL /\ q # NL
      /\ \A i \in 1 .. k : t2[i] = t[i]
      /\ t2[k + 1] = p /\ t2[k + 2] = NL
  BY <1>1, ProcAssumption DEF Byte
<1>3. PICK were, are : were = {i \in 1 .. k : t[i] = q} /\ are = {i \in 1 .. k + 2 : t2[i] = q}
  OBVIOUS
<1>4. CountOf(q, t) = Cardinality(were) /\ CountOf(q, t2) = Cardinality(are)
  BY <1>2, <1>3 DEF CountOf
<1>5. IsFiniteSet(were) /\ k + 1 \notin were
  <2>1. IsFiniteSet(1 .. k)
    BY FS_Interval
  <2>2. were \in SUBSET (1 .. k) /\ k + 1 \notin 1 .. k
    BY <1>3
  <2> QED BY <2>1, <2>2, FS_Subset
<1>6. are = were \cup (IF q = p THEN {k + 1} ELSE {})
  <2>1. \A i \in 1 .. k + 2 : i \in 1 .. k \/ i = k + 1 \/ i = k + 2
    OBVIOUS
  <2>2. k + 1 \in 1 .. k + 2 /\ \A i \in 1 .. k : i \in 1 .. k + 2
    OBVIOUS
  <2> QED BY <1>2, <1>3, <2>1, <2>2
<1>7. CASE q = p
  <2>1. are = were \cup {k + 1}
    BY <1>6, <1>7
  <2>2. Cardinality(are) = Cardinality(were) + 1
    BY <1>5, <2>1, FS_AddElement
  <2> QED BY <1>4, <1>7, <2>2
<1>8. CASE q # p
  <2>1. are = were
    BY <1>6, <1>8
  <2> QED BY <1>4, <1>8, <2>1
<1> QED BY <1>7, <1>8

(* What a return of write adds: nothing if it failed, else the packet. *)
Adds(p) ==
  /\ accepted' = accepted \o <<p, NL>>
  /\ stored' = [stored EXCEPT ![p] = @ + 1]
  /\ since' = [since EXCEPT ![p] = Newlines(accepted')]

LEMMA ReturnIs ==
  ASSUME DevInv, NEW p \in Proc, PacketOK(p), WriteDone(p)
  PROVE  Adds(p) \/ UNCHANGED <<accepted, stored, since>>
<1>1. /\ pc[p] = "wunlock" /\ accepted \in Seq(Byte)
      /\ accepted' = accepted \o
           SubSeq(mem[copy[p]], 1, IF retval[p] = -1 THEN start[p] ELSE retval[p])
      /\ GoOn(p, IF retval[p] = -1 THEN "end" ELSE "read")
  BY DEF WriteDone, WriteReturn, DevInv, DeviceOK
<1>2. at[p] = "write" /\ mem[copy[p]] = <<p, NL>>
  BY <1>1 DEF PacketOK, Writing
<1>3. SubSeq(mem[copy[p]], 1, 2) = <<p, NL>> /\ SubSeq(mem[copy[p]], 1, 0) = <<>>
  BY <1>2, PacketIs
<1>4. CASE retval[p] = -1 /\ start[p] = 0
  <2>1. accepted' = accepted \o <<>>
    BY <1>1, <1>3, <1>4
  <2>2. accepted \o <<>> = accepted
    BY <1>1
  <2>3. UNCHANGED <<stored, since>>
    BY <1>1, <1>4 DEF GoOn
  <2> QED BY <2>1, <2>2, <2>3
<1>5. CASE retval[p] = 2
  <2>1. retval[p] # -1
    BY <1>5
  <2>2. accepted' = accepted \o <<p, NL>>
    BY <1>1, <1>3, <1>5, <2>1
  <2>3. /\ stored' = [stored EXCEPT ![p] = @ + 1]
        /\ since' = [since EXCEPT ![p] = Newlines(accepted')]
    BY <1>1, <1>2, <2>1 DEF GoOn
  <2> QED BY <2>2, <2>3 DEF Adds
<1> QED BY <1>1, <1>4, <1>5 DEF PacketOK, Writing

LEMMA NewlinesType ==
  ASSUME NEW t \in Seq(Byte)
  PROVE  Newlines(t) = NewlineCount(t) /\ Newlines(t) \in Nat
  BY NewlinesAre DEF Newlines, NewlineCount

LEMMA ThreadStepKeepsStored ==
  ASSUME ~KreallocFails, OnePacket, DevInv, DevInv', LineInv, LineInv', StoredInv,
         NEW p \in Proc, ThreadStep(p)
  PROVE  StoredInv'
<1>1. /\ accepted \in Seq(Byte) /\ accepted' \in Seq(Byte) /\ SysTypes /\ PacketOK(p)
      /\ \A q \in Proc : CountOf(q, accepted) = stored[q]
  BY DEF DevInv, DeviceOK, StoredInv
<1>2. Adds(p) \/ UNCHANGED <<accepted, stored, since>>
  BY <1>1, ReturnIs DEF ThreadStep
<1>3. SysTypes'
  <2>1. at' \in [Proc -> Stops]
    BY <1>1 DEF ThreadStep, SysTypes
  <2>2. stored' \in [Proc -> Nat] /\ since' \in [Proc -> Nat]
    <3>1. PICK k \in Nat : k = Newlines(accepted')
      BY <1>1, NewlinesType
    <3>2. CASE Adds(p)
      <4>1. /\ stored' = [stored EXCEPT ![p] = @ + 1] /\ since' = [since EXCEPT ![p] = k]
        BY <3>1, <3>2 DEF Adds
      <4> QED BY <1>1, <4>1 DEF SysTypes
    <3>3. CASE UNCHANGED <<accepted, stored, since>>
      BY <1>1, <3>3 DEF SysTypes
    <3> QED BY <1>2, <3>2, <3>3
  <2> QED BY <2>1, <2>2 DEF SysTypes
<1>4. loaded' = loaded
  <2>1. CASE UNCHANGED vars
    BY <2>1 DEF vars
  <2>2. CASE OtherStep(p)
    BY <2>2 DEF OtherStep, Besides
  <2>3. CASE WriteChunk(p)
    BY <2>3 DEF WriteChunk
  <2> QED BY <2>1, <2>2, <2>3 DEF ThreadStep
<1>5. ~loaded => UNCHANGED <<accepted, stored, since>>
  <2>1. WriteDone(p) => loaded
    BY DEF WriteDone, WriteReturn, DevInv, LockInv
  <2> QED BY <2>1 DEF ThreadStep
<1>6. ~loaded' => accepted' = <<>> /\ \A q \in Proc : stored'[q] = 0 /\ since'[q] = 0
  BY <1>4, <1>5 DEF StoredInv
<1>7. PacketOK(p)'
  <2>1. CASE UNCHANGED vars
    BY <1>1, <2>1 DEF vars, PacketOK, ThreadStep
  <2> QED BY <1>1, <2>1, PacketAfterTurn, PacketAfterOther DEF ThreadStep
<1>8. ASSUME NEW q \in Proc PROVE PacketOK(q)'
  BY <1>1, <1>7, OtherPackets DEF StoredInv
<1>9. ASSUME NEW q \in Proc PROVE CountOf(q, accepted') = stored'[q]
  <2>1. CASE Adds(p)
    <3>1. accepted' = accepted \o <<p, NL>>
      BY <2>1 DEF Adds
    <3>2. /\ q = p => CountOf(q, accepted') = CountOf(q, accepted) + 1
          /\ q # p => CountOf(q, accepted') = CountOf(q, accepted)
      BY <1>1, <3>1, CountAfterPacket
    <3>3. stored'[q] = IF q = p THEN stored[q] + 1 ELSE stored[q]
      BY <1>1, <2>1 DEF Adds, SysTypes
    <3> QED BY <1>1, <3>2, <3>3
  <2>2. CASE UNCHANGED <<accepted, stored, since>>
    BY <1>1, <2>2
  <2> QED BY <1>2, <2>1, <2>2
<1> QED BY <1>3, <1>6, <1>8, <1>9 DEF StoredInv

LEMMA StoredInvInit == SysInit => StoredInv
<1> SUFFICES ASSUME SysInit PROVE StoredInv
  OBVIOUS
<1>1. SysTypes
  BY DEF SysInit, SysTypes, Stops
<1>2. accepted = <<>> /\ \A p \in Proc : stored[p] = 0 /\ since[p] = 0 /\ pc[p] = "closed"
  BY DEF SysInit, Init
<1>3. ASSUME NEW p \in Proc PROVE CountOf(p, accepted) = stored[p]
  <2>1. {i \in DOMAIN accepted : accepted[i] = p} = {}
    BY <1>2
  <2> QED BY <1>2, <2>1, FS_EmptySet DEF CountOf
<1> QED BY <1>1, <1>2, <1>3 DEF StoredInv, PacketOK, Writing

LEMMA StoredInvStep ==
  ASSUME ~KreallocFails, OnePacket, DevInv, DevInv', LineInv, LineInv', StoredInv,
         [SysNext]_sysVars
  PROVE  StoredInv'
<1>1. CASE UNCHANGED sysVars
  BY <1>1 DEF sysVars, vars, system, StoredInv, SysTypes, PacketOK
<1>2. CASE LoadDriver
  <2>1. /\ ~loaded /\ accepted' = <<>> /\ UNCHANGED <<at, stored, since>>
        /\ \A p \in Proc : pc'[p] = "closed"
    BY <1>2 DEF LoadDriver, Load, system, DevInv, LockInv
  <2>2. accepted' = accepted /\ \A p \in Proc : stored'[p] = 0 /\ since'[p] = 0
    BY <2>1 DEF StoredInv
  <2> QED BY <2>1, <2>2 DEF StoredInv, SysTypes, PacketOK, Writing
<1>3. ASSUME NEW p \in Proc, OpenDevice(p) \/ Worker(p) \/ CallInterrupted(p) \/ SendFails(p)
      PROVE  StoredInv'
  <2>1. SysTypes /\ PacketOK(p)
    BY DEF StoredInv
  <2>2. ThreadStep(p)
    BY <1>3, <2>1, ThreadStepIs
  <2> QED BY <2>2, ThreadStepKeepsStored
<1> QED BY <1>1, <1>2, <1>3 DEF SysNext

LEMMA StoredInvHolds == ASSUME ~KreallocFails, OnePacket PROVE SysSpec => []StoredInv
<1>1. StoredInv /\ DevInv /\ DevInv' /\ LineInv /\ LineInv' /\ [SysNext]_sysVars => StoredInv'
  BY StoredInvStep
<1>2. Spec => []DevInv
  BY DevInvHolds
<1>3. Spec => []LineInv
  BY PacketsAreLines, LineInvHolds
<1> QED BY <1>1, <1>2, <1>3, StoredInvInit, SystemUsesDevice, PTL DEF SysSpec

(* A packet that its thread takes for stored is in what the device has taken,
   and there once, although dump_content calls write again whenever a signal
   interrupts it, and whatever the other threads write in between. *)
THEOREM PacketsStoredOnce ==
  ASSUME ~KreallocFails, OnePacket PROVE SysSpec => []StoredOnce
<1>1. StoredInv => StoredOnce
  BY DEF StoredInv, StoredOnce, CountOf
<1> QED BY <1>1, StoredInvHolds, PTL

----------------------------------------------------------------------------
(* What the device has taken is packets, and its commands are the last N. *)
PairsInv ==
  /\ Unfinished = <<>> /\ \A k \in DOMAIN Commands : Len(Commands[k]) = 2
  /\ Len(FlattenSeq(Commands)) = 2 * Len(Commands)

Packets(t) ==
  Len(t) = 2 * Newlines(t) /\ \A k \in 1 .. Newlines(t) : t[2 * k] = NL

EndsAt(t, p, k) == k <= Newlines(t) /\ t[2 * k - 1] = p /\ t[2 * k] = NL

SinceInv ==
  Packets(accepted) /\ \A p \in Proc : since[p] > 0 => EndsAt(accepted, p, since[p])

LEMMA PacketsGrow ==
  ASSUME NEW p \in Proc, NEW t \in Seq(Byte), Packets(t), NEW t2 \in Seq(Byte), t2 = t \o <<p, NL>>
  PROVE  /\ Packets(t2) /\ EndsAt(t2, p, Newlines(t2))
         /\ \A q \in Proc, k \in Nat : k > 0 /\ EndsAt(t, q, k) => EndsAt(t2, q, k)
<1>1. PICK m \in Nat : m = Newlines(t) /\ Len(t) = 2 * m
  BY NewlinesType DEF Packets
<1>2. /\ Len(t2) = 2 * m + 2
      /\ \A i \in 1 .. 2 * m : t2[i] = t[i]
      /\ t2[2 * m + 1] = p /\ t2[2 * m + 2] = NL
  <2>1. PICK l \in Nat : l = Len(t)
    OBVIOUS
  <2>2. /\ Len(t2) = l + 2
        /\ \A i \in 1 .. l : t2[i] = t[i]
        /\ t2[l + 1] = p /\ t2[l + 2] = NL
    BY <2>1
  <2>3. l = 2 * m
    BY <1>1, <2>1
  <2> QED BY <2>2, <2>3
<1>3. Newlines(t2) = m + 1
  <2>1. PICK s \in Seq(Byte) : s = <<p, NL>> /\ IsLine(s)
    BY PacketIs
  <2>2. NewlineCount(t2) = NewlineCount(t) + 1
    BY <2>1, NewlinesOf
  <2> QED BY <1>1, <2>2, NewlinesType
<1>4. ASSUME NEW k \in 1 .. m + 1 PROVE t2[2 * k] = NL
  <2>1. CASE k \in 1 .. m
    <3>1. 2 * k \in 1 .. 2 * m /\ t[2 * k] = NL
      BY <1>1, <2>1 DEF Packets
    <3> QED BY <1>2, <3>1
  <2>2. CASE k = m + 1
    <3>1. 2 * k = 2 * m + 2
      BY <2>2
    <3> QED BY <1>2, <3>1
  <2>3. k \in 1 .. m \/ k = m + 1
    OBVIOUS
  <2> QED BY <2>1, <2>2, <2>3
<1>5. Packets(t2)
  <2>1. Len(t2) = 2 * (m + 1)
    BY <1>2
  <2> QED BY <1>3, <1>4, <2>1 DEF Packets
<1>6. EndsAt(t2, p, Newlines(t2))
  <2>1. 2 * (m + 1) - 1 = 2 * m + 1 /\ 2 * (m + 1) = 2 * m + 2 /\ m + 1 <= m + 1
    OBVIOUS
  <2> QED BY <1>2, <1>3, <2>1 DEF EndsAt
<1>7. ASSUME NEW q \in Proc, NEW k \in Nat, k > 0, EndsAt(t, q, k) PROVE EndsAt(t2, q, k)
  <2>1. k <= m /\ t[2 * k - 1] = q /\ t[2 * k] = NL
    BY <1>1, <1>7 DEF EndsAt
  <2>2. 2 * k - 1 \in 1 .. 2 * m /\ 2 * k \in 1 .. 2 * m /\ k <= m + 1
    BY <1>7, <2>1
  <2> QED BY <1>2, <1>3, <2>1, <2>2 DEF EndsAt
<1> QED BY <1>5, <1>6, <1>7

(* One command of two bytes more, and one less if the log is full. *)
LEMMA PairsLogged ==
  ASSUME NEW log \in Seq(Seq(Byte)), Len(log) \in 0 .. N, \A k \in DOMAIN log : Len(log[k]) = 2,
         Len(FlattenSeq(log)) = 2 * Len(log),
         NEW x \in Seq(Byte), Len(x) = 2, NEW t, t = Logged(log, x)
  PROVE  (\A k \in DOMAIN t : Len(t[k]) = 2) /\ Len(FlattenSeq(t)) = 2 * Len(t)
<1>1. PICK flat, flat2 \in Seq(Byte) : flat = FlattenSeq(log) /\ flat2 = FlattenSeq(t)
  BY FlattenInSeq, LoggedType
<1>2. CASE Len(log) # N
  <2>1. t = Append(log, x) /\ flat2 = flat \o x /\ Len(t) = Len(log) + 1
    BY <1>1, <1>2, LoggedFlat, LoggedType DEF Logged
  <2>2. Len(flat \o x) = Len(flat) + Len(x)
    BY ConcatProperties
  <2>3. \A k \in DOMAIN Append(log, x) : Len(Append(log, x)[k]) = 2
    OBVIOUS
  <2>4. Len(flat2) = 2 * Len(t)
    BY <1>1, <2>1, <2>2
  <2> QED BY <1>1, <2>1, <2>3, <2>4
<1>3. CASE Len(log) = N
  <2>1. log # <<>> /\ 1 \in DOMAIN log /\ Len(t) = N
    BY <1>3, NAssumption, LoggedType
  <2>2. PICK rest \in Seq(Seq(Byte)) :
          /\ rest = Tail(log)
          /\ \A k \in DOMAIN rest : k + 1 \in DOMAIN log /\ rest[k] = log[k + 1]
    <3>1. Tail(log) \in Seq(Seq(Byte))
          /\ \A k \in DOMAIN Tail(log) : k + 1 \in DOMAIN log /\ Tail(log)[k] = log[k + 1]
      BY <2>1
    <3> QED BY <3>1
  <2>3. t = Append(rest, x)
    BY <1>3, <2>2 DEF Logged
  <2>4. \A k \in DOMAIN t : Len(t[k]) = 2
    BY <2>2, <2>3
  <2>5. PICK old \in Seq(Byte) : old = log[1] /\ Len(old) = 2 /\ old \o flat2 = flat \o x
    BY <1>1, <1>3, <2>1, LoggedFlat
  <2>6. Len(old \o flat2) = Len(old) + Len(flat2) /\ Len(flat \o x) = Len(flat) + Len(x)
    BY ConcatProperties
  <2>7. Len(flat2) = Len(flat)
    BY <1>1, <2>5, <2>6
  <2> QED BY <1>1, <1>3, <2>1, <2>4, <2>7
<1> QED BY <1>2, <1>3

LEMMA TurnKeepsPairs ==
  ASSUME DevInv, LineInv, PairsInv, NEW p \in Proc, PacketOK(p), WriteChunk(p)
  PROVE  PairsInv'
<1>1. PICK s, from, d, n, v : Turn(p, s, from, d, n, v)
  BY TurnIs
<1>2. v \in Seq(Byte) /\ Len(v) = n
  <2>1. TakesLine(p, s, from, d, n, v)
    BY <1>1, TurnTakesLine DEF LineInv
  <2> QED BY <2>1 DEF TakesLine
<1>3. (from = 0 => d = 1 /\ n = 2) /\ (from # 0 => d = -1 /\ n = 0 /\ from = 2)
  <2>1. pc[p] = "wloop" /\ s = mem[copy[p]] /\ from = start[p] /\ Chunked(s, from, d, n)
    BY <1>1 DEF Turn, Taking
  <2> QED BY <2>1, TurnOfPacket
<1>4. <<>> \o v = v
  BY <1>2
<1>5. CASE from = 0
  <2>1. Commands' = Logged(Commands, v) /\ Unfinished' = <<>>
    BY <1>1, <1>3, <1>4, <1>5, TurnContents DEF PairsInv
  <2>2. /\ Commands \in Seq(Seq(Byte)) /\ Len(Commands) \in 0 .. N
        /\ \A k \in DOMAIN Commands : Len(Commands[k]) = 2
        /\ Len(FlattenSeq(Commands)) = 2 * Len(Commands)
    BY ContentsType DEF PairsInv
  <2>3. PICK t : t = Logged(Commands, v)
    OBVIOUS
  <2>4. (\A k \in DOMAIN t : Len(t[k]) = 2) /\ Len(FlattenSeq(t)) = 2 * Len(t)
    BY <1>2, <1>3, <1>5, <2>2, <2>3, PairsLogged
  <2> QED BY <2>1, <2>3, <2>4 DEF PairsInv
<1>6. CASE from # 0
  <2>1. v = <<>>
    BY <1>2, <1>3, <1>6
  <2>2. Commands' = Commands /\ Unfinished' = <<>>
    BY <1>1, <1>3, <1>4, <1>6, <2>1, TurnContents DEF PairsInv
  <2> QED BY <2>2 DEF PairsInv
<1> QED BY <1>5, <1>6

LEMMA PairsKept == UNCHANGED <<Commands, Unfinished>> /\ PairsInv => PairsInv'
  BY DEF PairsInv

LEMMA PairsAtLoad == Commands = <<>> /\ Unfinished = <<>> => PairsInv
<1> SUFFICES ASSUME Commands = <<>>, Unfinished = <<>> PROVE PairsInv
  OBVIOUS
<1>1. Len(FlattenSeq(<<>>)) = 0
  <2>1. FlattenSeq(<<>>) = <<>>
    BY FlattenEmpty
  <2> QED BY <2>1
<1> QED BY <1>1 DEF PairsInv

LEMMA SinceInvInit == accepted = <<>> /\ (\A p \in Proc : since[p] = 0) => SinceInv
<1> SUFFICES ASSUME accepted = <<>>, \A p \in Proc : since[p] = 0 PROVE SinceInv
  OBVIOUS
<1>1. Newlines(<<>>) = 0
  <2>1. {i \in DOMAIN <<>> : <<>>[i] = NL} = {}
    OBVIOUS
  <2> QED BY <2>1, FS_EmptySet DEF Newlines
<1> QED BY <1>1 DEF SinceInv, Packets

LEMMA ReturnKeepsSince ==
  ASSUME DevInv, DevInv', SysTypes, SinceInv, NEW p \in Proc, Adds(p)
  PROVE  SinceInv'
<1>1. PICK t, t2 \in Seq(Byte) : t = accepted /\ t2 = accepted'
  BY DEF DevInv, DeviceOK
<1>2. t2 = t \o <<p, NL>> /\ since' = [since EXCEPT ![p] = Newlines(t2)]
  BY <1>1 DEF Adds
<1>3. Packets(t) /\ \A q \in Proc : since[q] > 0 => EndsAt(t, q, since[q])
  BY <1>1 DEF SinceInv
<1>4. /\ Packets(t2) /\ EndsAt(t2, p, Newlines(t2))
      /\ \A q \in Proc, k \in Nat : k > 0 /\ EndsAt(t, q, k) => EndsAt(t2, q, k)
  BY <1>2, <1>3, PacketsGrow
<1>5. ASSUME NEW q \in Proc, since'[q] > 0 PROVE EndsAt(t2, q, since'[q])
  <2>1. CASE q = p
    BY <1>2, <1>4, <2>1 DEF SysTypes
  <2>2. CASE q # p
    <3>1. since'[q] = since[q] /\ since[q] \in Nat
      BY <1>2, <2>2 DEF SysTypes
    <3> QED BY <1>3, <1>4, <1>5, <3>1
  <2> QED BY <2>1, <2>2
<1> QED BY <1>1, <1>4, <1>5 DEF SinceInv

EchoInv == PairsInv /\ SinceInv

LEMMA EchoInvInit == SysInit => EchoInv
<1> SUFFICES ASSUME SysInit PROVE EchoInv
  OBVIOUS
<1>1. loaded = FALSE /\ accepted = <<>> /\ \A p \in Proc : since[p] = 0
  BY DEF SysInit, Init
<1>2. Commands = <<>> /\ Unfinished = <<>>
  BY <1>1, CommandsAre DEF CommandsFact
<1> QED BY <1>1, <1>2, PairsAtLoad, SinceInvInit DEF EchoInv

LEMMA EchoInvStep ==
  ASSUME ~KreallocFails, DevInv, DevInv', LineInv, StoredInv, EchoInv, [SysNext]_sysVars
  PROVE  EchoInv'
<1>1. ASSUME UNCHANGED <<accepted, since>> PROVE SinceInv'
  BY <1>1 DEF EchoInv, SinceInv
<1>2. CASE UNCHANGED sysVars
  <2>1. UNCHANGED vars /\ UNCHANGED <<accepted, since>>
    BY <1>2 DEF sysVars, vars, system
  <2> QED BY <1>1, <2>1, StutterKeepsContents, PairsKept DEF EchoInv
<1>3. CASE LoadDriver
  <2>1. Load /\ ~loaded /\ accepted' = <<>> /\ since' = since
    BY <1>3 DEF LoadDriver, Load, system
  <2>2. accepted' = accepted
    BY <2>1 DEF StoredInv
  <2>3. PairsInv'
    <3>1. Commands' = <<>> /\ Unfinished' = <<>>
      BY <2>1, ReloadContents
    <3>2. (Commands = <<>> /\ Unfinished = <<>> => PairsInv)'
      BY PairsAtLoad, PTL
    <3> QED BY <3>1, <3>2
  <2> QED BY <1>1, <2>1, <2>2, <2>3 DEF EchoInv
<1>4. ASSUME NEW p \in Proc, OpenDevice(p) \/ Worker(p) \/ CallInterrupted(p) \/ SendFails(p)
      PROVE  EchoInv'
  <2>1. SysTypes /\ PacketOK(p)
    BY DEF StoredInv
  <2>2. ThreadStep(p)
    BY <1>4, <2>1, ThreadStepIs
  <2>3. PairsInv'
    <3>1. CASE WriteChunk(p)
      BY <2>1, <3>1, TurnKeepsPairs DEF EchoInv
    <3>2. CASE OtherStep(p) \/ UNCHANGED vars
      BY <3>2, OtherStepKeepsContents, StutterKeepsContents, PairsKept DEF EchoInv
    <3> QED BY <2>2, <3>1, <3>2 DEF ThreadStep
  <2>4. SinceInv'
    <3>1. Adds(p) \/ UNCHANGED <<accepted, stored, since>>
      BY <2>1, <2>2, ReturnIs DEF ThreadStep
    <3> QED BY <1>1, <2>1, <3>1, ReturnKeepsSince DEF EchoInv
  <2> QED BY <2>3, <2>4 DEF EchoInv
<1> QED BY <1>2, <1>3, <1>4 DEF SysNext

LEMMA EchoInvHolds == ASSUME ~KreallocFails, OnePacket PROVE SysSpec => []EchoInv
<1>1. EchoInv /\ StoredInv /\ DevInv /\ DevInv' /\ LineInv /\ [SysNext]_sysVars => EchoInv'
  BY EchoInvStep
<1>2. (Spec => []DevInv) /\ (Spec => []LineInv)
  BY PacketsAreLines, DevInvHolds, LineInvHolds
<1> QED BY <1>1, <1>2, EchoInvInit, StoredInvHolds, SystemUsesDevice, PTL DEF SysSpec

(* At the end of an echo the device holds the last N packets of those it has
   taken, in their places. *)
LEMMA PacketInEcho ==
  ASSUME DevInv, LineInv, ScanInv, LogInv, SysTypes, EchoInv, NEW p \in Proc, ReadEOF(p),
         scan[p] # Torn, since[p] > 0, Newlines(accepted) - since[p] < N
  PROVE  \E i \in 1 .. Len(scan[p]) - 1 : SubSeq(scan[p], i, i + 1) = <<p, NL>>
<1>1. pc[p] = "rfind" /\ lock = p /\ loaded /\ accepted \in Seq(Byte)
  BY DEF ReadEOF, DevInv, LockInv, LockDiscipline, Critical, DeviceOK
<1>2. Total = accepted
  BY <1>1 DEF Total, Storing
<1>3. /\ Commands \in Seq(Seq(Byte)) /\ FlattenSeq(Commands) \in Seq(Byte)
      /\ Len(FlattenSeq(Commands)) = 2 * Len(Commands)
  BY ContentsType, FlattenInSeq DEF EchoInv, PairsInv
<1>4. Kept = FlattenSeq(Commands)
  <2>1. Kept = FlattenSeq(Commands) \o <<>>
    BY DEF Kept, EchoInv, PairsInv
  <2> QED BY <1>3, <2>1
<1>5. PICK flat, lost \in Seq(Byte) :
        flat = FlattenSeq(Commands) /\ accepted = lost \o flat
  BY <1>1, <1>2, <1>4 DEF LogInv, Recorded
<1>6. scan[p] = flat
  BY <1>5, EndIsAll
<1>7. PICK m, k \in Nat : m = Newlines(accepted) /\ k = since[p]
  BY <1>1, NewlinesType DEF SysTypes
<1>8. Len(flat) = IF m < N THEN 2 * m ELSE 2 * N
  <2>1. Len(Commands) = IF m < N THEN m ELSE N
    BY <1>1, <1>2, <1>7, NewlinesType DEF LogInv, Recorded
  <2> QED BY <1>3, <1>5, <2>1
<1>9. Len(accepted) = 2 * m /\ k <= m /\ accepted[2 * k - 1] = p /\ accepted[2 * k] = NL
  BY <1>7 DEF EchoInv, SinceInv, Packets, EndsAt
<1>10. PICK a, b \in Nat : a = Len(lost) /\ b = Len(flat)
  OBVIOUS
<1>11. a + b = 2 * m /\ \A i \in 1 .. b : accepted[a + i] = flat[i]
  <2>1. /\ Len(accepted) = a + b
        /\ \A i \in 1 .. b : accepted[a + i] = flat[i]
    BY <1>5, <1>10
  <2> QED BY <1>9, <2>1
<1>12. PICK i \in Int : i = 2 * k - 1 - a
  OBVIOUS
<1>13. i >= 1 /\ i + 1 <= b /\ a + i = 2 * k - 1 /\ a + (i + 1) = 2 * k
  <2>1. k > 0 /\ m - k < N /\ k <= m /\ N \in Nat
    BY <1>7, <1>9, NAssumption
  <2>2. a + b = 2 * m /\ b = IF m < N THEN 2 * m ELSE 2 * N
    BY <1>8, <1>10, <1>11
  <2>3. CASE m < N
    BY <1>12, <2>1, <2>2, <2>3
  <2>4. CASE ~(m < N)
    BY <1>12, <2>1, <2>2, <2>4
  <2> QED BY <2>3, <2>4
<1>14. flat[i] = p /\ flat[i + 1] = NL
  <2>1. i \in 1 .. b /\ i + 1 \in 1 .. b
    BY <1>13
  <2> QED BY <1>9, <1>11, <1>13, <2>1
<1>15. SubSeq(flat, i, i + 1) = <<p, NL>>
  <2>1. PICK s : s = SubSeq(flat, i, i + 1)
    OBVIOUS
  <2>2. s \in Seq(Byte) /\ Len(s) = 2 /\ \A j \in 1 .. 2 : s[j] = flat[i + j - 1]
    BY <1>10, <1>13, <2>1
  <2>3. s[1] = p /\ s[2] = NL
    <3>1. i + 1 - 1 = i /\ i + 2 - 1 = i + 1
      OBVIOUS
    <3> QED BY <1>14, <2>2, <3>1
  <2>4. s = <<p, NL>>
    BY <2>2, <2>3
  <2> QED BY <2>1, <2>4
<1> QED BY <1>6, <1>10, <1>13, <1>15

(* The echo of a packet contains the packet, unless at least N packets were
   stored after it or an eviction moved the positions under the echo. *)
THEOREM EchoesContainPacket ==
  ASSUME ~KreallocFails, OnePacket PROVE SysSpec => EchoHasPacket
<1>1. DevInv /\ LineInv /\ ScanInv /\ LogInv /\ StoredInv /\ EchoInv =>
        \A p \in Proc :
          ReadEOF(p) /\ scan[p] # Torn /\ since[p] > 0 /\ Newlines(accepted) - since[p] < N
            => \E i \in 1 .. Len(scan[p]) - 1 : SubSeq(scan[p], i, i + 1) = <<p, NL>>
  BY PacketInEcho DEF StoredInv
<1>2. /\ Spec => []DevInv
      /\ Spec => []LineInv
      /\ Spec => []ScanInv
      /\ Spec => []LogInv
  BY PacketsAreLines, DevInvHolds, LineInvHolds, ScanInvHolds, LogInvHolds
<1> QED BY <1>1, <1>2, StoredInvHolds, EchoInvHolds, SystemUsesDevice, PTL DEF EchoHasPacket
=============================================================================
