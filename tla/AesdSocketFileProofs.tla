------------------------ MODULE AesdSocketFileProofs ------------------------
(***************************************************************************)
(* Proofs about the file build, for any number of threads, any sizes and   *)
(* any alarms: the mutex is held exactly between a lock and its unlock, on *)
(* every path of a connection thread and of main, and under it an echo is  *)
(* the file, whole, with the thread's own packet at its end.  The ring of  *)
(* timestamps stays in order when alarms interrupt main only, what is      *)
(* written stays whole, and the state keeps its type.                      *)
(***************************************************************************)
EXTENDS AesdSocketFile, TLAPS

Labels == {"none", "recv", "lock", "write", "echo", "dequeue", "completed", "joined"}

(* Whoever takes a timestamp from the ring holds the mutex. *)
HeldInv ==
  /\ pc \in [Thread -> Labels]
  /\ mpc \in {"accept", "join", "trylock", "dequeue"}
  /\ mutex \in Owner \cup {NoOwner}
  /\ \A p \in Owner : mutex = p <=> Inside(p)
  /\ reader # "idle" => \/ mpc = "dequeue"
                        \/ \E t \in Thread : pc[t] = "dequeue"

LEMMA HeldInit == Init => HeldInv
  BY OwnerAssumption DEF Init, RingInit, HeldInv, Labels, Owner, Inside

(* A connection thread on its way through its critical section. *)
LEMMA WorkerKeepsHeld ==
  ASSUME HeldInv, NEW t \in Thread, NEW l \in Labels,
         pc' = [pc EXCEPT ![t] = l], UNCHANGED mpc,
         \/ mutex = NoOwner /\ mutex' = t /\ l \in {"write", "echo", "dequeue"}
            /\ UNCHANGED reader
         \/ /\ pc[t] \in {"write", "echo", "dequeue"} /\ mutex' = NoOwner
            /\ l \notin {"write", "echo", "dequeue"}
            /\ reader' = "idle" \/ (UNCHANGED reader /\ pc[t] # "dequeue")
         \/ /\ UNCHANGED mutex
            /\ l \in {"write", "echo", "dequeue"} <=> pc[t] \in {"write", "echo", "dequeue"}
            /\ l = "dequeue" \/ (UNCHANGED reader /\ pc[t] # "dequeue")
  PROVE  HeldInv'
<1>1. t # Main /\ t # NoOwner /\ Main # NoOwner /\ t \in Owner /\ Main \in Owner
  BY OwnerAssumption DEF Owner
<1>2. \A p \in Owner : p # t => p # NoOwner /\ Inside(p)' = Inside(p)
  BY OwnerAssumption DEF Owner, Inside, HeldInv
<1>3. /\ Inside(t) <=> pc[t] \in {"write", "echo", "dequeue"}
      /\ Inside(t)' <=> l \in {"write", "echo", "dequeue"}
      /\ mutex = t <=> Inside(t)
  BY <1>1 DEF Inside, HeldInv
<1>4. \A p \in Owner : mutex' = p <=> Inside(p)'
  BY <1>1, <1>2, <1>3 DEF HeldInv
<1>5. reader' # "idle" => mpc' = "dequeue" \/ \E u \in Thread : pc'[u] = "dequeue"
  <2>1. CASE reader' = "idle"
    BY <2>1
  <2>2. CASE l = "dequeue"
    BY <2>2 DEF HeldInv
  <2>3. CASE UNCHANGED reader /\ pc[t] # "dequeue"
    BY <2>3 DEF HeldInv
  <2> QED BY <1>1, <1>3, <2>1, <2>2, <2>3
<1> QED
  BY <1>1, <1>4, <1>5 DEF HeldInv

LEMMA HeldStep == HeldInv /\ [Next]_vars => HeldInv'
<1> SUFFICES ASSUME HeldInv, [Next]_vars PROVE HeldInv'
  OBVIOUS
<1>0. {"recv", "write", "echo", "dequeue", "completed"} \subseteq Labels
  BY DEF Labels
<1>1. ASSUME NEW t \in Thread, Worker(t) PROVE HeldInv'
  <2> USE <1>0 DEF Goto
  <2>0. pc = [pc EXCEPT ![t] = pc[t]] /\ pc[t] \in Labels
    BY DEF HeldInv
  <2>1. CASE Receive(t)
    <3>1. UNCHANGED <<mutex, mpc, reader>> /\ pc[t] = "recv"
      BY <2>1 DEF Receive, ringVars, consumer
    <3>2. pc' = [pc EXCEPT ![t] = "lock"] \/ pc' = [pc EXCEPT ![t] = "recv"]
      BY <2>0, <2>1, <3>1 DEF Receive
    <3> QED BY <3>1, <3>2, WorkerKeepsHeld DEF Labels
  <2>2. CASE Leave(t)
    BY <2>2, WorkerKeepsHeld DEF Leave, Return, ringVars, consumer
  <2>3. CASE Lock(t)
    BY <2>3, WorkerKeepsHeld DEF Lock, CanLock, ringVars, consumer
  <2>4. CASE WriteFails(t)
    BY <2>4, WorkerKeepsHeld DEF WriteFails, Fail, Return, ringVars, consumer
  <2>5. CASE WritePacket(t)
    <3>1. UNCHANGED <<mutex, mpc, reader>> /\ pc[t] = "write"
      BY <2>5 DEF WritePacket, ringVars, consumer
    <3>2. pc' = [pc EXCEPT ![t] = "echo"] \/ pc' = [pc EXCEPT ![t] = "write"]
      BY <2>0, <2>5, <3>1 DEF WritePacket
    <3> QED BY <3>1, <3>2, WorkerKeepsHeld
  <2>6. CASE Echo(t)
    <3>1. UNCHANGED <<mutex, mpc, reader>> /\ pc[t] = "echo"
      BY <2>6 DEF Echo, ringVars, consumer
    <3>2. pc' = [pc EXCEPT ![t] = "dequeue"] \/ pc' = [pc EXCEPT ![t] = "echo"]
      BY <2>0, <2>6, <3>1 DEF Echo
    <3> QED BY <3>1, <3>2, WorkerKeepsHeld
  <2>7. CASE EchoFails(t)
    BY <2>7, WorkerKeepsHeld DEF EchoFails, Fail, Return, ringVars, consumer
  <2>8. CASE Dequeue(t)
    BY <2>0, <2>8, WorkerKeepsHeld DEF Dequeue, DequeueStep, fileVars
  <2>9. CASE NoStamp(t)
    BY <2>9, WorkerKeepsHeld DEF NoStamp, Finish, Unlocked, ringVars, consumer
  <2>10. CASE WriteStamp(t)
    BY <2>0, <2>10, WorkerKeepsHeld DEF WriteStamp, ringVars, consumer
  <2>11. CASE StampWritten(t)
    BY <2>11, WorkerKeepsHeld DEF StampWritten, Finish, Unlocked, EndDequeue
  <2>12. CASE StampFails(t)
    BY <2>12, WorkerKeepsHeld DEF StampFails, Finish, Unlocked, EndDequeue
  <2> QED
    BY <1>1, <2>1, <2>2, <2>3, <2>4, <2>5, <2>6, <2>7, <2>8, <2>9, <2>10, <2>11, <2>12
       DEF Worker
<1>2. CASE MainThread
  <2> USE OwnerAssumption DEF HeldInv, Owner, Inside, GotoMain, MainUnlock
  <2>0. (\E t \in Thread : pc[t] = "dequeue") /\ mpc = "dequeue" => FALSE
    OBVIOUS
  <2>1. CASE Accept
    <3>1. /\ mpc = "accept" /\ mpc' = "join" /\ UNCHANGED <<mutex, reader>>
          /\ UNCHANGED pc \/ \E t \in Thread : pc[t] = "none" /\ pc' = [pc EXCEPT ![t] = "recv"]
      BY <2>1 DEF Accept, Goto, ringVars, consumer
    <3> QED BY <1>0, <3>1
  <2>2. CASE Join
    <3>1. /\ mpc = "join" /\ mpc' \in {"trylock", "accept"} /\ UNCHANGED <<mutex, reader>>
          /\ pc' = [t \in Thread |-> IF pc[t] = "completed" THEN "joined" ELSE pc[t]]
      BY <2>2 DEF Join, ringVars, consumer
    <3> QED BY <3>1 DEF Labels
  <2>3. CASE TryLock
    BY <2>3 DEF TryLock, CanLock, ringVars, consumer
  <2>4. CASE MainDequeue
    BY <2>4 DEF MainDequeue, DequeueStep, fileVars
  <2>5. CASE MainNoStamp
    BY <2>0, <2>5 DEF MainNoStamp, ringVars, consumer
  <2>6. CASE MainWrite
    BY <2>6 DEF MainWrite, ringVars, consumer
  <2>7. CASE MainWritten
    BY <2>0, <2>7 DEF MainWritten, EndDequeue
  <2> QED BY <1>2, <2>1, <2>2, <2>3, <2>4, <2>5, <2>6, <2>7 DEF MainThread
<1>3. CASE Tick
  <2>1. UNCHANGED <<mutex, pc, reader>> /\ mpc' = IF mpc = "accept" THEN "join" ELSE mpc
    BY <1>3 DEF Tick, Alarm, consumer
  <2> QED BY <2>1, OwnerAssumption DEF HeldInv, Owner, Inside
<1>4. CASE Handler /\ UNCHANGED fileVars
  <2>1. UNCHANGED <<mutex, pc, mpc, reader>>
    BY <1>4 DEF Handler, Store, AdvanceWrite, ClearEmpty, TestFull, SetFull, fileVars, consumer
  <2> QED BY <2>1 DEF HeldInv, Inside
<1>5. CASE UNCHANGED vars
  BY <1>5 DEF vars, fileVars, ringVars, consumer, HeldInv, Inside
<1> QED
  BY <1>1, <1>2, <1>3, <1>4, <1>5 DEF Next

LEMMA Held == Spec => []HeldInv
  BY HeldInit, HeldStep, PTL DEF Spec

(* The mutex is held exactly between a lock and its unlock, by main and by
   the connection threads, and only its holder reads the ring. *)
THEOREM MutexIsHeld == Spec => []MutexHeld
<1>1. HeldInv => MutexHeld
  BY OwnerAssumption DEF HeldInv, MutexHeld, Owner, Inside
<1> QED
  BY <1>1, Held, PTL

----------------------------------------------------------------------------
(* Each step of the server is one of the ring or leaves the ring alone. *)
LEMMA StepOfRing == [Next]_vars => [RingNext]_ringVars
<1> SUFFICES ASSUME [Next]_vars PROVE [RingNext]_ringVars
  OBVIOUS
<1>1. ASSUME NEW t \in Thread, Worker(t) PROVE [RingNext]_ringVars
  <2>1. CASE Receive(t) \/ Leave(t) \/ Lock(t) \/ WriteFails(t) \/ WritePacket(t)
             \/ Echo(t) \/ EchoFails(t) \/ NoStamp(t) \/ WriteStamp(t)
    BY <2>1 DEF Receive, Leave, Lock, WriteFails, Fail, WritePacket, Echo, EchoFails, NoStamp,
                WriteStamp
  <2>2. CASE Dequeue(t) \/ StampWritten(t) \/ StampFails(t)
    BY <2>2 DEF Dequeue, DequeueStep, StampWritten, StampFails, RingNext
  <2> QED BY <1>1, <2>1, <2>2 DEF Worker
<1>2. CASE MainThread
  BY <1>2 DEF MainThread, Accept, Join, TryLock, MainDequeue, DequeueStep, MainNoStamp,
              MainWrite, MainWritten, RingNext
<1>3. CASE Tick \/ (Handler /\ UNCHANGED fileVars) \/ UNCHANGED vars
  BY <1>3 DEF Tick, RingNext, vars
<1> QED
  BY <1>1, <1>2, <1>3 DEF Next

(* The server uses the ring only through alarmhandler and the dequeue that
   TimestampRing models. *)
THEOREM ServerUsesRing == Spec => RingSpec
<1>1. Init => RingInit
  BY DEF Init
<1> QED
  BY <1>1, StepOfRing, PTL DEF Spec, RingSpec

RingTypes ==
  /\ alarms \in Nat /\ got \in Nat
  /\ time_buf \in [0 .. CIRCULAR_BUF_DEPTH - 1 -> Nat]
  /\ rptr \in 0 .. CIRCULAR_BUF_DEPTH - 1

LEMMA RingTyped == RingSpec => []RingTypes
<1>1. RingInit => RingTypes
  BY DepthAssumption DEF RingInit, RingTypes
<1>2. RingTypes /\ [RingNext]_ringVars => RingTypes'
  <2> SUFFICES ASSUME RingTypes, [RingNext]_ringVars PROVE RingTypes'
    OBVIOUS
  <2> USE DEF RingTypes, flags, producer, consumer
  <2>1. CASE Alarm \/ UNCHANGED ringVars
    BY <2>1 DEF Alarm, ringVars
  <2>2. CASE Handler
    BY <2>2 DEF Handler, Store, AdvanceWrite, ClearEmpty, TestFull, SetFull
  <2>3. CASE BeginDequeue \/ EndDequeue
    BY <2>3 DEF BeginDequeue, EndDequeue
  <2>4. CASE AdvanceRead
    <3>1. (rptr + 1) % CIRCULAR_BUF_DEPTH \in 0 .. CIRCULAR_BUF_DEPTH - 1
      BY DepthAssumption
    <3> QED BY <2>4, <3>1 DEF AdvanceRead, NextPtr
  <2>5. CASE Copy \/ ClearFull \/ TestEmpty \/ SetEmpty
    BY <2>5 DEF Copy, ClearFull, TestEmpty, SetEmpty
  <2> QED BY <2>1, <2>2, <2>3, <2>4, <2>5 DEF RingNext, Dequeuing
<1> QED
  BY <1>1, <1>2, PTL DEF RingSpec

----------------------------------------------------------------------------
UnitSet == (Thread \cup {"timestamp"}) \X Nat \X {1, 2}

LEMMA Units ==
  /\ \A t \in Thread, i \in Nat : Unit(t, i) \in UnitSet
  /\ RingTypes => Stamp \in Seq(UnitSet) /\ Len(Stamp) \in {0, 2}
<1>1. ASSUME NEW t \in Thread, NEW i \in Nat PROVE Unit(t, i) \in UnitSet
  <2>1. (i + 1) \div 2 \in Nat
    OBVIOUS
  <2> QED BY <2>1 DEF Unit, UnitsPerString, UnitSet
<1>2. ASSUME RingTypes PROVE Stamp \in Seq(UnitSet) /\ Len(Stamp) \in {0, 2}
  <2>1. CASE got = 0
    BY <2>1 DEF Stamp
  <2>2. CASE got # 0
    <3>1. Stamp = [i \in 1 .. 2 |-> <<"timestamp", got, i>>]
      BY <2>2 DEF Stamp, UnitsPerString
    <3>2. \A i \in 1 .. 2 : <<"timestamp", got, i>> \in UnitSet
      BY <1>2 DEF RingTypes, UnitSet
    <3> QED BY <3>1, <3>2
  <2> QED BY <2>1, <2>2
<1> QED
  BY <1>1, <1>2

(* One write of dump_content: the next units of the string, at the end of the
   file, and nothing else. *)
LEMMA DumpAppends ==
  ASSUME NEW p \in Owner, NEW s \in Seq(UnitSet), file \in Seq(UnitSet),
         written \in [Owner -> Nat], Dump(p, s)
  PROVE  /\ written' = [written EXCEPT ![p] = written'[p]] /\ written' \in [Owner -> Nat]
         /\ written'[p] \in written[p] + 1 .. Len(s)
         /\ file' \in Seq(UnitSet) /\ Len(file') = Len(file) + (written'[p] - written[p])
         /\ \A i \in 1 .. Len(file) : file'[i] = file[i]
         /\ \A i \in 1 .. written'[p] - written[p] : file'[Len(file) + i] = s[written[p] + i]
<1>1. PICK k \in 1 .. Len(s) - written[p] :
        /\ file' = file \o SubSeq(s, written[p] + 1, written[p] + k)
        /\ written' = [written EXCEPT ![p] = @ + k]
  BY DEF Dump, Rest
<1>2. /\ k \in Nat /\ k >= 1 /\ written[p] \in Nat /\ written[p] + k <= Len(s)
      /\ Len(s) \in Nat
  BY <1>1
<1> DEFINE part == SubSeq(s, written[p] + 1, written[p] + k)
<1>3. /\ part \in Seq(UnitSet) /\ Len(part) = k
      /\ \A i \in 1 .. k : part[i] = s[written[p] + i]
  BY <1>2
<1>4. file' = file \o part
  BY <1>1
<1> HIDE DEF part
<1>5. /\ file' \in Seq(UnitSet) /\ Len(file') = Len(file) + k
      /\ \A i \in 1 .. Len(file) : file'[i] = file[i]
      /\ \A i \in 1 .. k : file'[Len(file) + i] = part[i]
  BY <1>2, <1>3, <1>4
<1>6. written'[p] = written[p] + k /\ written' = [written EXCEPT ![p] = written'[p]]
      /\ written' \in [Owner -> Nat]
  BY <1>1, <1>2
<1>7. written'[p] - written[p] = k
  BY <1>2, <1>6
<1> QED
  BY <1>2, <1>3, <1>5, <1>6, <1>7

----------------------------------------------------------------------------
DataTypes ==
  /\ file \in Seq(UnitSet)
  /\ {len, nread, start, upto} \subseteq [Thread -> Nat]
  /\ written \in [Owner -> Nat]
  /\ sent \in [Thread -> Seq(UnitSet)]

(* The end of the file is what t has written of its packet. *)
EndsWithPacket(t) ==
  /\ written[t] <= Len(file)
  /\ \A i \in 1 .. written[t] : file[Len(file) - written[t] + i] = Unit(t, start[t] + i)

EchoedPrefix(t) ==
  /\ Len(sent[t]) <= Len(file)
  /\ \A i \in 1 .. Len(sent[t]) : sent[t][i] = file[i]

(* What a thread has written and sent, at each place. *)
Progress(t) ==
  /\ pc[t] \notin {"write", "echo", "dequeue"} => written[t] = 0
  /\ pc[t] = "dequeue" /\ reader # "done" => written[t] = 0
  /\ pc[t] \notin {"echo", "dequeue"} => sent[t] = <<>>
  /\ pc[t] = "write" => EndsWithPacket(t)
  /\ pc[t] = "echo" => EndsWithPacket(t) /\ written[t] = upto[t] /\ EchoedPrefix(t)

DataInv == DataTypes /\ \A t \in Thread : Progress(t)

LEMMA DataInit == Init => DataInv
<1> SUFFICES ASSUME Init PROVE DataInv
  OBVIOUS
<1>1. /\ pc = [t \in Thread |-> "none"] /\ file = <<>>
      /\ len = [t \in Thread |-> 0] /\ nread = len /\ start = len /\ upto = len
      /\ written = [p \in Owner |-> 0] /\ sent = [t \in Thread |-> <<>>]
  BY DEF Init, Owner
<1>2. DataTypes
  BY <1>1 DEF DataTypes
<1>3. \A t \in Thread : Progress(t)
  BY <1>1 DEF Progress, Owner
<1> QED
  BY <1>2, <1>3 DEF DataInv

(* What another thread does outside the file and the ring, or inside while t
   is outside, does not disturb t. *)
LEMMA OtherKeepsProgress ==
  ASSUME NEW t \in Thread, Progress(t),
         pc'[t] = pc[t], written'[t] = written[t], sent'[t] = sent[t],
         start'[t] = start[t], upto'[t] = upto[t],
         (pc[t] \notin {"write", "echo", "dequeue"}) \/ UNCHANGED <<file, reader>>
  PROVE  Progress(t)'
<1>1. CASE pc[t] \notin {"write", "echo", "dequeue"}
  BY <1>1 DEF Progress
<1>2. CASE UNCHANGED <<file, reader>>
  BY <1>2 DEF Progress, EndsWithPacket, EchoedPrefix
<1> QED
  BY <1>1, <1>2

(* The number of units until the next newline is 1 or 2. *)
LEMMA NewlineNear ==
  ASSUME NEW t \in Thread, NEW k \in Nat, DataTypes, Newline(t, k) # {}
  PROVE  (CHOOSE i \in Newline(t, k) : \A j \in Newline(t, k) : i <= j) \in Nat
<1> DEFINE ends == Newline(t, k)
<1>1. start[t] \in Nat /\ len[t] \in Nat
  BY DEF DataTypes
<1>2. ends = {i \in 1 .. (len[t] - start[t]) + k : (start[t] + i) % 2 = 0}
  BY DEF Newline, UnitsPerString
<1>3. PICK e \in ends : TRUE
  OBVIOUS
<1>4. e \in Nat /\ e >= 1 /\ e <= (len[t] - start[t]) + k /\ (start[t] + e) % 2 = 0
  BY <1>1, <1>2
<1> HIDE DEF ends
<1>5. \E i \in ends : i \in Nat /\ \A j \in ends : i <= j
  <2>1. CASE start[t] % 2 = 1
    <3>1. 1 \in ends
      BY <1>1, <1>2, <1>4, <2>1
    <3> QED BY <1>1, <1>2, <3>1
  <2>2. CASE start[t] % 2 = 0
    <3>1. e # 1
      BY <1>1, <1>4, <2>2
    <3>2. 2 \in ends /\ 1 \notin ends
      BY <1>1, <1>2, <1>4, <2>2, <3>1
    <3> QED BY <1>1, <1>2, <3>2
  <2> QED BY <1>1, <2>1, <2>2
<1>6. \A i \in ends : i \in Nat
  BY <1>1, <1>2
<1> QED
  BY <1>5, <1>6 DEF ends

(* A step of t reaches the file and the ring only while it holds the mutex. *)
LEMMA WorkerKeepsData ==
  ASSUME HeldInv, DataInv, NEW t \in Thread, DataTypes', Progress(t)',
         \A u \in Thread \ {t} :
           /\ pc'[u] = pc[u] /\ written'[u] = written[u] /\ sent'[u] = sent[u]
           /\ start'[u] = start[u] /\ upto'[u] = upto[u],
         UNCHANGED <<file, reader>> \/ pc[t] \in {"write", "echo", "dequeue"}
  PROVE  DataInv'
<1>1. ASSUME NEW u \in Thread, u # t PROVE Progress(u)'
  <2>1. CASE UNCHANGED <<file, reader>>
    BY <1>1, <2>1, OtherKeepsProgress DEF DataInv
  <2>2. CASE pc[t] \in {"write", "echo", "dequeue"}
    <3>1. pc[u] \notin {"write", "echo", "dequeue"}
      BY <1>1, <2>2, OwnerAssumption DEF HeldInv, Owner, Inside
    <3> QED BY <1>1, <3>1, OtherKeepsProgress DEF DataInv
  <2> QED BY <2>1, <2>2
<1> QED
  BY <1>1 DEF DataInv

LEMMA ReceiveKeepsData ==
  ASSUME HeldInv, DataInv, NEW t \in Thread, Receive(t) \/ Leave(t) \/ Lock(t)
  PROVE  DataInv'
<1> USE DEF HeldInv
<1>1. CASE Receive(t)
  <2>1. PICK k \in 1 .. UnitsPerString :
          \/ len' = [len EXCEPT ![t] = @ + k] /\ UNCHANGED <<nread, upto, pc>>
          \/ /\ Newline(t, k) # {}
             /\ nread' = [nread EXCEPT ![t] = k]
             /\ upto' = [upto EXCEPT ![t] = CHOOSE i \in Newline(t, k) :
                                              \A j \in Newline(t, k) : i <= j]
             /\ pc' = [pc EXCEPT ![t] = "lock"]
             /\ UNCHANGED len
    BY <1>1 DEF Receive, Goto
  <2>2. /\ pc[t] = "recv" /\ UNCHANGED <<file, start, written, sent, reader>>
    BY <1>1 DEF Receive, ringVars, consumer
  <2>3. k \in Nat
    BY <2>1 DEF UnitsPerString
  <2>4. DataTypes'
    <3>1. CASE len' = [len EXCEPT ![t] = @ + k] /\ UNCHANGED <<nread, upto, pc>>
      BY <2>2, <2>3, <3>1 DEF DataInv, DataTypes
    <3>2. CASE /\ Newline(t, k) # {}
               /\ nread' = [nread EXCEPT ![t] = k]
               /\ upto' = [upto EXCEPT ![t] = CHOOSE i \in Newline(t, k) :
                                                \A j \in Newline(t, k) : i <= j]
               /\ UNCHANGED len
      <4> DEFINE u == CHOOSE i \in Newline(t, k) : \A j \in Newline(t, k) : i <= j
      <4>1. u \in Nat
        BY <2>3, <3>2, NewlineNear DEF DataInv
      <4>2. upto' = [upto EXCEPT ![t] = u] /\ nread' = [nread EXCEPT ![t] = k] /\ len' = len
        BY <3>2
      <4> HIDE DEF u
      <4> QED BY <2>2, <2>3, <4>1, <4>2 DEF DataInv, DataTypes
    <3> QED BY <2>1, <3>1, <3>2
  <2>5. Progress(t)'
    BY <2>1, <2>2 DEF DataInv, Progress
  <2>6. \A u \in Thread \ {t} : pc'[u] = pc[u] /\ upto'[u] = upto[u]
    BY <2>1 DEF DataInv, DataTypes
  <2> QED BY <2>2, <2>4, <2>5, <2>6, WorkerKeepsData
<1>2. CASE Leave(t)
  <2>1. /\ pc[t] = "recv" /\ pc' = [pc EXCEPT ![t] = "completed"]
        /\ len' = [len EXCEPT ![t] = 0] /\ nread' = [nread EXCEPT ![t] = 0]
        /\ start' = [start EXCEPT ![t] = 0] /\ upto' = [upto EXCEPT ![t] = 0]
        /\ UNCHANGED <<file, written, sent, reader>>
    BY <1>2 DEF Leave, Return, Goto, ringVars, consumer
  <2>2. DataTypes'
    BY <2>1 DEF DataInv, DataTypes
  <2>3. Progress(t)'
    <3>1. pc'[t] = "completed"
      BY <2>1
    <3> QED BY <2>1, <3>1 DEF DataInv, Progress
  <2>4. \A u \in Thread \ {t} :
          pc'[u] = pc[u] /\ start'[u] = start[u] /\ upto'[u] = upto[u]
    BY <2>1 DEF DataInv, DataTypes
  <2> QED BY <2>1, <2>2, <2>3, <2>4, WorkerKeepsData
<1>3. CASE Lock(t)
  <2>1. /\ pc[t] = "lock" /\ pc' = [pc EXCEPT ![t] = "write"]
        /\ UNCHANGED <<file, len, nread, start, upto, written, sent, reader>>
    BY <1>3 DEF Lock, Goto, window, ringVars, consumer
  <2>2. DataTypes'
    BY <2>1 DEF DataInv, DataTypes
  <2>3. Progress(t)'
    BY <2>1 DEF DataInv, DataTypes, Progress, EndsWithPacket
  <2> QED BY <2>1, <2>2, <2>3, WorkerKeepsData
<1> QED
  BY <1>1, <1>2, <1>3

(* A thread that fails leaves its critical section with nothing in hand. *)
LEMMA FailKeepsData ==
  ASSUME HeldInv, DataInv, NEW t \in Thread, WriteFails(t) \/ EchoFails(t)
  PROVE  DataInv'
<1>1. /\ pc[t] \in {"write", "echo"} /\ pc' = [pc EXCEPT ![t] = "completed"]
      /\ len' = [len EXCEPT ![t] = 0] /\ nread' = [nread EXCEPT ![t] = 0]
      /\ start' = [start EXCEPT ![t] = 0] /\ upto' = [upto EXCEPT ![t] = 0]
      /\ written' = [written EXCEPT ![t] = 0] /\ sent' = [sent EXCEPT ![t] = <<>>]
      /\ file' = file
  BY DEF WriteFails, EchoFails, GiveUp, Fail, Return, Goto
<1>2. t \in Owner /\ \A u \in Thread : u \in Owner
  BY DEF Owner
<1>3. DataTypes' /\ Progress(t)'
  BY <1>1, <1>2 DEF HeldInv, DataInv, DataTypes, Progress
<1>4. \A u \in Thread \ {t} :
        /\ pc'[u] = pc[u] /\ written'[u] = written[u] /\ sent'[u] = sent[u]
        /\ start'[u] = start[u] /\ upto'[u] = upto[u]
  BY <1>1, <1>2 DEF HeldInv, DataInv, DataTypes
<1> QED
  BY <1>1, <1>3, <1>4, WorkerKeepsData

LEMMA WriteKeepsData ==
  ASSUME HeldInv, DataInv, NEW t \in Thread, WritePacket(t)
  PROVE  DataInv'
<1> DEFINE w == written[t]
           v == written'[t]
<1>1. /\ pc[t] = "write" /\ Dump(t, Packet(t))
      /\ pc' = IF v = upto[t] THEN [pc EXCEPT ![t] = "echo"] ELSE pc
      /\ UNCHANGED <<len, nread, start, upto, sent, reader>>
  BY DEF WritePacket, Goto, window, ringVars, consumer
<1>2. /\ file \in Seq(UnitSet) /\ written \in [Owner -> Nat] /\ t \in Owner
      /\ start[t] \in Nat /\ upto[t] \in Nat /\ Thread \subseteq Owner
  BY DEF DataInv, DataTypes, Owner
<1>3. /\ Packet(t) \in Seq(UnitSet) /\ Len(Packet(t)) = upto[t]
      /\ \A i \in 1 .. upto[t] : Packet(t)[i] = Unit(t, start[t] + i)
  <2>1. \A i \in 1 .. upto[t] : Unit(t, start[t] + i) \in UnitSet
    BY <1>2, Units
  <2> QED BY <1>2, <2>1 DEF Packet
<1>4. /\ written' = [written EXCEPT ![t] = v] /\ written' \in [Owner -> Nat]
      /\ v \in w + 1 .. upto[t]
      /\ file' \in Seq(UnitSet) /\ Len(file') = Len(file) + (v - w)
      /\ \A i \in 1 .. Len(file) : file'[i] = file[i]
      /\ \A i \in 1 .. v - w : file'[Len(file) + i] = Packet(t)[w + i]
  BY <1>1, <1>2, <1>3, DumpAppends
<1>5. w \in Nat /\ v \in Nat /\ Len(file) \in Nat /\ Len(file') \in Nat
  BY <1>2, <1>4
<1>6. w <= Len(file) /\ \A i \in 1 .. w : file[Len(file) - w + i] = Unit(t, start[t] + i)
  BY <1>1 DEF DataInv, Progress, EndsWithPacket
<1>7. sent[t] = <<>>
  BY <1>1 DEF DataInv, Progress
<1> HIDE DEF w, v
<1>8. ASSUME NEW i \in 1 .. v
      PROVE  file'[Len(file') - v + i] = Unit(t, start[t] + i)
  <2>1. Len(file') - v + i = Len(file) - w + i
    BY <1>4, <1>5
  <2>2. CASE i <= w
    <3>1. Len(file) - w + i \in 1 .. Len(file) /\ i \in 1 .. w
      BY <1>5, <1>6, <2>2
    <3> QED BY <1>4, <1>6, <2>1, <3>1
  <2>3. CASE i > w
    <3>1. /\ Len(file) - w + i = Len(file) + (i - w) /\ i - w \in 1 .. v - w
          /\ w + (i - w) = i /\ i \in 1 .. upto[t]
      BY <1>2, <1>4, <1>5, <2>3
    <3> QED BY <1>3, <1>4, <2>1, <3>1
  <2> QED BY <1>5, <2>2, <2>3
<1>9. EndsWithPacket(t)'
  <2>1. v <= Len(file')
    BY <1>4, <1>5, <1>6
  <2> QED BY <1>1, <1>8, <2>1 DEF EndsWithPacket, v
<1>10. Progress(t)'
  <2>1. EchoedPrefix(t)'
    BY <1>1, <1>5, <1>7 DEF EchoedPrefix
  <2>2. pc'[t] = "write" \/ (pc'[t] = "echo" /\ v = upto[t])
    BY <1>1 DEF HeldInv
  <2> QED BY <1>1, <1>7, <1>9, <2>1, <2>2 DEF Progress, v
<1>11. DataTypes'
  BY <1>1, <1>4 DEF DataInv, DataTypes
<1>12. \A u \in Thread \ {t} : pc'[u] = pc[u] /\ written'[u] = written[u]
  BY <1>1, <1>2, <1>4 DEF HeldInv
<1> QED
  BY <1>1, <1>10, <1>11, <1>12, WorkerKeepsData

(* A read of the file and its sends extend what the client has by the next
   units of the file. *)
LEMMA EchoKeepsData ==
  ASSUME HeldInv, DataInv, NEW t \in Thread, Echo(t)
  PROVE  DataInv'
<1>1. /\ pc[t] = "echo" /\ UNCHANGED <<file, len, nread, start, upto, reader>>
  BY DEF Echo, window, ringVars, consumer
<1>2. /\ file \in Seq(UnitSet) /\ sent \in [Thread -> Seq(UnitSet)]
      /\ written \in [Owner -> Nat] /\ t \in Owner /\ Thread \subseteq Owner
  BY DEF DataInv, DataTypes, Owner
<1>3. CASE Len(sent[t]) < Len(file)
  <2> DEFINE s == sent[t]
             hi == IF Len(file) - Len(s) < BUF_SIZE_UNIT THEN Len(file)
                   ELSE Len(s) + BUF_SIZE_UNIT
             piece == SubSeq(file, Len(s) + 1, hi)
  <2>1. /\ Len(s) \in Nat /\ Len(file) \in Nat /\ Len(s) < Len(file)
        /\ s \in Seq(UnitSet) /\ BUF_SIZE_UNIT \in Nat \ {0}
    BY <1>2, <1>3, BytesAssumption
  <2>2. hi \in Nat /\ Len(s) < hi /\ hi <= Len(file)
    BY <2>1
  <2>3. sent' = [sent EXCEPT ![t] = s \o piece] /\ UNCHANGED <<pc, written>>
    BY <1>3 DEF Echo, Piece
  <2>4. \A i \in 1 .. Len(s) : s[i] = file[i]
    BY <1>1 DEF DataInv, Progress, EchoedPrefix
  <2> HIDE DEF s, hi
  <2>5. /\ piece \in Seq(UnitSet) /\ Len(piece) = hi - Len(s)
        /\ \A i \in 1 .. hi - Len(s) : piece[i] = file[Len(s) + i]
    BY <1>2, <2>1, <2>2
  <2> HIDE DEF piece
  <2>6. s \o piece \in Seq(UnitSet) /\ Len(s \o piece) = hi
    BY <2>1, <2>2, <2>5
  <2>7. ASSUME NEW i \in 1 .. hi PROVE (s \o piece)[i] = file[i]
    <3>1. CASE i <= Len(s)
      BY <2>1, <2>4, <2>5, <3>1
    <3>2. CASE i > Len(s)
      <4>1. i - Len(s) \in 1 .. hi - Len(s) /\ Len(s) + (i - Len(s)) = i
        BY <2>1, <2>2, <3>2
      <4>2. (s \o piece)[i] = piece[i - Len(s)]
        BY <2>1, <2>2, <2>5, <3>2
      <4> QED BY <2>5, <4>1, <4>2
    <3>3. i <= Len(s) \/ i > Len(s)
      BY <2>1, <2>2
    <3> QED BY <3>1, <3>2, <3>3
  <2>8. sent'[t] = s \o piece /\ sent' \in [Thread -> Seq(UnitSet)]
        /\ \A u \in Thread \ {t} : sent'[u] = sent[u]
    BY <1>2, <2>3, <2>6
  <2>9. EchoedPrefix(t)'
    BY <1>1, <2>2, <2>6, <2>7, <2>8 DEF EchoedPrefix
  <2>10. Progress(t)'
    BY <1>1, <2>3, <2>9 DEF DataInv, Progress, EndsWithPacket
  <2>11. DataTypes'
    BY <1>1, <2>3, <2>8 DEF DataInv, DataTypes
  <2> QED BY <1>1, <2>3, <2>8, <2>10, <2>11, WorkerKeepsData
<1>4. CASE ~(Len(sent[t]) < Len(file))
  <2>1. /\ pc' = [pc EXCEPT ![t] = "dequeue"] /\ written' = [written EXCEPT ![t] = 0]
        /\ UNCHANGED sent
    BY <1>4 DEF Echo, Goto
  <2>2. /\ written' \in [Owner -> Nat] /\ written'[t] = 0 /\ pc'[t] = "dequeue"
        /\ \A u \in Thread \ {t} : pc'[u] = pc[u] /\ written'[u] = written[u]
    BY <1>2, <2>1 DEF HeldInv
  <2>3. DataTypes' /\ Progress(t)'
    BY <1>1, <2>1, <2>2 DEF DataInv, DataTypes, Progress
  <2> QED BY <1>1, <2>1, <2>2, <2>3, WorkerKeepsData
<1> QED
  BY <1>3, <1>4

(* The timestamp is written while t is in its critical section. *)
LEMMA DequeueKeepsData ==
  ASSUME HeldInv, DataInv, RingTypes, NEW t \in Thread,
         Dequeue(t) \/ NoStamp(t) \/ WriteStamp(t) \/ StampWritten(t) \/ StampFails(t)
  PROVE  DataInv'
<1>0. /\ pc[t] = "dequeue" /\ t \in Owner /\ Thread \subseteq Owner
      /\ written \in [Owner -> Nat] /\ file \in Seq(UnitSet)
      /\ Stamp \in Seq(UnitSet) /\ Len(Stamp) \in {0, 2}
  BY Units DEF Dequeue, NoStamp, WriteStamp, StampWritten, StampFails, DataInv, DataTypes, Owner
<1>1. CASE Dequeue(t)
  <2>1. reader # "done" /\ UNCHANGED <<file, pc, len, nread, start, upto, written, sent>>
    BY <1>1 DEF Dequeue, DequeueStep, fileVars, window
  <2>2. DataTypes' /\ Progress(t)'
    BY <1>0, <2>1 DEF DataInv, DataTypes, Progress
  <2> QED BY <1>0, <2>1, <2>2, WorkerKeepsData
<1>2. CASE WriteStamp(t)
  <2>1. /\ Dump(t, Stamp) /\ reader = "done"
        /\ UNCHANGED <<pc, len, nread, start, upto, sent, reader>>
    BY <1>2 DEF WriteStamp, window, ringVars, consumer
  <2>2. /\ written' = [written EXCEPT ![t] = written'[t]] /\ written' \in [Owner -> Nat]
        /\ file' \in Seq(UnitSet)
    BY <1>0, <2>1, DumpAppends
  <2>3. \A u \in Thread \ {t} : written'[u] = written[u]
    BY <1>0, <2>2
  <2>4. DataTypes' /\ Progress(t)'
    BY <1>0, <2>1, <2>2 DEF DataInv, DataTypes, Progress
  <2> QED BY <1>0, <2>1, <2>3, <2>4, WorkerKeepsData
<1>3. ASSUME NEW stamp \in Nat, Finish(t, stamp), file' = file,
             written' = [written EXCEPT ![t] = 0]
      PROVE  DataInv'
  <2>1. /\ start' = [start EXCEPT ![t] = upto[t] + stamp]
        /\ len' = [len EXCEPT ![t] = @ + nread[t]] /\ sent' = [sent EXCEPT ![t] = <<>>]
        /\ pc' = [pc EXCEPT ![t] = "recv"]
        /\ nread' = [nread EXCEPT ![t] = 0] /\ upto' = [upto EXCEPT ![t] = 0]
    BY <1>3 DEF Finish, Goto
  <2>2. DataTypes'
    BY <1>0, <1>3, <2>1 DEF DataInv, DataTypes
  <2>3. Progress(t)'
    <3>1. pc'[t] = "recv" /\ written'[t] = 0 /\ sent'[t] = <<>>
      BY <1>0, <1>3, <2>1 DEF HeldInv, DataInv, DataTypes
    <3> QED BY <3>1 DEF Progress
  <2>4. \A u \in Thread \ {t} :
          /\ pc'[u] = pc[u] /\ written'[u] = written[u] /\ sent'[u] = sent[u]
          /\ start'[u] = start[u] /\ upto'[u] = upto[u]
    BY <1>0, <1>3, <2>1 DEF HeldInv, DataInv, DataTypes
  <2> QED BY <1>0, <2>2, <2>3, <2>4, WorkerKeepsData
<1>4. CASE NoStamp(t)
  <2>1. reader = "idle" /\ Finish(t, 0) /\ UNCHANGED <<file, written>>
    BY <1>4 DEF NoStamp
  <2>2. written[t] = 0
    BY <1>0, <2>1 DEF DataInv, Progress
  <2>3. written' = [written EXCEPT ![t] = 0]
    BY <1>0, <2>1, <2>2
  <2> QED BY <1>3, <2>1, <2>3
<1>5. CASE StampWritten(t)
  BY <1>0, <1>3, <1>5 DEF StampWritten
<1>6. CASE StampFails(t)
  BY <1>3, <1>6 DEF StampFails, GiveUp
<1> QED
  BY <1>1, <1>2, <1>4, <1>5, <1>6

(* Main takes connections in and out, and writes only as holder of the mutex. *)
LEMMA MainKeepsData ==
  ASSUME HeldInv, DataInv, RingTypes, MainThread
  PROVE  DataInv'
<1>0. /\ Main \in Owner /\ Thread \subseteq Owner /\ \A t \in Thread : t # Main
      /\ written \in [Owner -> Nat] /\ file \in Seq(UnitSet)
      /\ Stamp \in Seq(UnitSet) /\ Len(Stamp) \in {0, 2}
  BY Units, OwnerAssumption DEF DataInv, DataTypes, Owner
<1>1. CASE Accept \/ Join
  <2>1. UNCHANGED <<file, len, nread, start, upto, written, sent, reader>>
    BY <1>1 DEF Accept, Join, window, ringVars, consumer
  <2>2. \A u \in Thread : \/ pc'[u] = pc[u]
                          \/ /\ pc[u] \in {"none", "completed"}
                             /\ pc'[u] \in {"recv", "joined"}
    BY <1>1 DEF Accept, Join, Goto, HeldInv
  <2>3. DataTypes'
    BY <2>1 DEF DataInv, DataTypes
  <2>4. ASSUME NEW u \in Thread PROVE Progress(u)'
    BY <2>1, <2>2 DEF DataInv, Progress, EndsWithPacket, EchoedPrefix
  <2> QED BY <2>3, <2>4 DEF DataInv
<1>2. CASE TryLock \/ MainNoStamp
  <2>1. UNCHANGED <<file, pc, len, nread, start, upto, written, sent, reader>>
    BY <1>2 DEF TryLock, MainNoStamp, MainUnlock, GotoMain, window, ringVars, consumer
  <2> QED BY <2>1 DEF DataInv, DataTypes, Progress, EndsWithPacket, EchoedPrefix
<1>3. CASE MainDequeue \/ MainWrite \/ MainWritten
  <2>1. mpc = "dequeue" /\ UNCHANGED <<pc, len, nread, start, upto, sent>>
    BY <1>3 DEF MainDequeue, DequeueStep, fileVars, MainWrite, MainWritten, MainUnlock, GotoMain,
                window
  <2>2. \A u \in Thread : pc[u] \notin {"write", "echo", "dequeue"}
    BY <1>0, <2>1 DEF HeldInv, Inside
  <2>3. /\ file' \in Seq(UnitSet) /\ written' \in [Owner -> Nat]
        /\ \A u \in Thread : written'[u] = written[u]
    <3>1. CASE MainDequeue
      BY <1>0, <3>1 DEF MainDequeue, DequeueStep, fileVars
    <3>2. CASE MainWrite
      <4>1. Dump(Main, Stamp)
        BY <3>2 DEF MainWrite
      <4>2. /\ written' = [written EXCEPT ![Main] = written'[Main]]
            /\ written' \in [Owner -> Nat] /\ file' \in Seq(UnitSet)
        BY <1>0, <4>1, DumpAppends
      <4> QED BY <1>0, <4>2
    <3>3. CASE MainWritten
      <4>1. file' = file /\ written' = [written EXCEPT ![Main] = 0]
        BY <3>3 DEF MainWritten, GiveUp
      <4> QED BY <1>0, <4>1
    <3> QED BY <1>3, <3>1, <3>2, <3>3
  <2>4. DataTypes'
    BY <2>1, <2>3 DEF DataInv, DataTypes
  <2>5. ASSUME NEW u \in Thread PROVE Progress(u)'
    BY <2>1, <2>2, <2>3, OtherKeepsProgress DEF DataInv
  <2> QED BY <2>4, <2>5 DEF DataInv
<1> QED
  BY <1>1, <1>2, <1>3 DEF MainThread

LEMMA DataStep == HeldInv /\ RingTypes /\ DataInv /\ [Next]_vars => DataInv'
<1> SUFFICES ASSUME HeldInv, RingTypes, DataInv, [Next]_vars PROVE DataInv'
  OBVIOUS
<1>1. ASSUME NEW t \in Thread, Worker(t) PROVE DataInv'
  BY <1>1, ReceiveKeepsData, FailKeepsData, WriteKeepsData, EchoKeepsData, DequeueKeepsData
     DEF Worker
<1>2. CASE Tick \/ (Handler /\ UNCHANGED fileVars) \/ UNCHANGED vars
  <2>1. UNCHANGED <<file, pc, len, nread, start, upto, written, sent, reader>>
    BY <1>2 DEF Tick, Alarm, Handler, Store, AdvanceWrite, ClearEmpty, TestFull, SetFull,
                fileVars, window, vars, ringVars, consumer
  <2> QED BY <2>1 DEF DataInv, DataTypes, Progress, EndsWithPacket, EchoedPrefix
<1> QED
  BY <1>1, <1>2, MainKeepsData DEF Next

(* While a thread echoes, nobody writes: what its client has got is the
   beginning of the file, and the file ends with the client's packet. *)
THEOREM EchoesFile == Spec => []EchoIsFile
<1>1. HeldInv /\ DataInv => EchoIsFile
  <2> SUFFICES ASSUME DataInv, NEW t \in Thread, pc[t] = "echo"
               PROVE  /\ sent[t] = SubSeq(file, 1, Len(sent[t]))
                      /\ SubSeq(file, Len(file) - upto[t] + 1, Len(file)) = Packet(t)
    BY DEF EchoIsFile
  <2>1. /\ file \in Seq(UnitSet) /\ sent[t] \in Seq(UnitSet) /\ upto[t] \in Nat
        /\ start[t] \in Nat
    BY DEF DataInv, DataTypes
  <2>2. EndsWithPacket(t) /\ written[t] = upto[t] /\ EchoedPrefix(t)
    BY DEF DataInv, Progress
  <2>3. sent[t] = SubSeq(file, 1, Len(sent[t]))
    BY <2>1, <2>2 DEF EchoedPrefix
  <2>4. SubSeq(file, Len(file) - upto[t] + 1, Len(file)) = Packet(t)
    <3> DEFINE s == SubSeq(file, Len(file) - upto[t] + 1, Len(file))
    <3>1. upto[t] <= Len(file) /\ Len(file) \in Nat
      BY <2>1, <2>2 DEF EndsWithPacket
    <3>2. /\ s \in Seq(UnitSet) /\ Len(s) = upto[t]
          /\ \A i \in 1 .. upto[t] : s[i] = file[Len(file) - upto[t] + i]
      BY <2>1, <3>1
    <3> HIDE DEF s
    <3>3. \A i \in 1 .. upto[t] : s[i] = Unit(t, start[t] + i)
      BY <2>2, <3>2 DEF EndsWithPacket
    <3>4. s = [i \in 1 .. upto[t] |-> s[i]]
      BY <2>1, <3>2
    <3>5. s = Packet(t)
      BY <3>3, <3>4 DEF Packet
    <3> QED BY <3>5 DEF s
  <2> QED BY <2>3, <2>4
<1> QED
  BY <1>1, DataInit, DataStep, Held, ServerUsesRing, RingTyped, PTL DEF Spec

----------------------------------------------------------------------------
(* The ring under alarms that interrupt only the main thread: an alarm is
   then handled in one go between two steps of a dequeue, at most once in each.
   Left is how many timestamps wait, and SlotFrom(rptr, k) where the k-th of them,
   counted from 0, is. *)
Left == Len(kept) - removed

SlotFrom(r, k) == IF r + k < CIRCULAR_BUF_DEPTH THEN r + k ELSE r + k - CIRCULAR_BUF_DEPTH

RingPlaces ==
  /\ kept \in Seq(Nat) /\ removed \in Nat /\ removed <= Len(kept)
  /\ Left <= CIRCULAR_BUF_DEPTH
  /\ wptr = SlotFrom(rptr, Left)
  /\ \A k \in 0 .. Left - 1 : time_buf[SlotFrom(rptr, k)] = kept[removed + k + 1]

(* What the handler has seen or written stays true until it is done. *)
HandlerOK ==
  /\ handler # "idle" /\ reader # "idle" => alarmed
  /\ handler \in {"store", "advance"} => ~queue_full
  /\ handler = "advance" => time_buf[wptr] = alarms
  /\ handler \in {"clear_empty", "test_full", "set_full"} => Left > 0
  /\ handler = "set_full" => Left = CIRCULAR_BUF_DEPTH

(* Between the reader's two steps AdvanceRead and ClearFull a ring that is not
   marked full has room for the one alarm that may come: ClearFull would clear
   the mark of a ring that this alarm has filled. *)
ReaderOK ==
  /\ reader \in {"copy", "advance"} => Left > 0
  /\ reader \in {"idle", "done"} /\ ~queue_empty => Left > 0
  /\ IF reader = "clear_full"
     THEN /\ Left < CIRCULAR_BUF_DEPTH
          /\ ~queue_full /\ (~alarmed \/ handler \in {"store", "advance"})
               => Left < CIRCULAR_BUF_DEPTH - 1
     ELSE ~queue_full /\ handler \in {"idle", "store", "advance"} => Left < CIRCULAR_BUF_DEPTH

FlagTypes ==
  /\ {queue_full, queue_empty, alarmed} \subseteq BOOLEAN
  /\ handler \in {"idle", "store", "advance", "clear_empty", "test_full", "set_full"}
  /\ reader \in {"idle", "copy", "advance", "clear_full", "test_empty", "set_empty", "done"}

RingOrder == FlagTypes /\ RingPlaces /\ HandlerOK /\ ReaderOK

(* All the arithmetic of the pointers. *)
LEMMA WrapAround ==
  ASSUME NEW i \in 0 .. CIRCULAR_BUF_DEPTH - 1, NEW k \in 0 .. CIRCULAR_BUF_DEPTH
  PROVE  /\ (i + k) % CIRCULAR_BUF_DEPTH =
              IF i + k < CIRCULAR_BUF_DEPTH THEN i + k ELSE i + k - CIRCULAR_BUF_DEPTH
         /\ (i + k) % CIRCULAR_BUF_DEPTH \in 0 .. CIRCULAR_BUF_DEPTH - 1
<1>1. CIRCULAR_BUF_DEPTH \in Nat \ {0}
  BY DepthAssumption
<1> QED BY <1>1

(* The write pointer, one further. *)
LEMMA NextIs ==
  ASSUME NEW i \in 0 .. CIRCULAR_BUF_DEPTH - 1
  PROVE  /\ NextPtr(i) = IF i + 1 < CIRCULAR_BUF_DEPTH THEN i + 1 ELSE 0
         /\ NextPtr(i) \in 0 .. CIRCULAR_BUF_DEPTH - 1
<1>1. CIRCULAR_BUF_DEPTH \in Nat \ {0} /\ 1 \in 0 .. CIRCULAR_BUF_DEPTH
  BY DepthAssumption
<1>2. /\ (i + 1) % CIRCULAR_BUF_DEPTH =
           IF i + 1 < CIRCULAR_BUF_DEPTH THEN i + 1 ELSE i + 1 - CIRCULAR_BUF_DEPTH
      /\ (i + 1) % CIRCULAR_BUF_DEPTH \in 0 .. CIRCULAR_BUF_DEPTH - 1
  BY <1>1, WrapAround
<1> QED BY <1>1, <1>2 DEF NextPtr

LEMMA SlotsApart ==
  ASSUME RingTypes, NEW j \in 0 .. CIRCULAR_BUF_DEPTH, NEW k \in 0 .. CIRCULAR_BUF_DEPTH
  PROVE  /\ j < CIRCULAR_BUF_DEPTH => SlotFrom(rptr, j) \in 0 .. CIRCULAR_BUF_DEPTH - 1
         /\ SlotFrom(rptr, CIRCULAR_BUF_DEPTH) = SlotFrom(rptr, 0) /\ SlotFrom(rptr, 0) = rptr
         /\ j < k /\ SlotFrom(rptr, j) = SlotFrom(rptr, k) => j = 0 /\ k = CIRCULAR_BUF_DEPTH
         /\ j < CIRCULAR_BUF_DEPTH => NextPtr(SlotFrom(rptr, j)) = SlotFrom(rptr, j + 1)
<1>1. CIRCULAR_BUF_DEPTH \in Nat \ {0} /\ rptr \in 0 .. CIRCULAR_BUF_DEPTH - 1
  BY DepthAssumption DEF RingTypes
<1>2. j < CIRCULAR_BUF_DEPTH => SlotFrom(rptr, j) \in 0 .. CIRCULAR_BUF_DEPTH - 1
  BY <1>1 DEF SlotFrom
<1>3. SlotFrom(rptr, CIRCULAR_BUF_DEPTH) = SlotFrom(rptr, 0) /\ SlotFrom(rptr, 0) = rptr
  BY <1>1 DEF SlotFrom
<1>4. j < k /\ SlotFrom(rptr, j) = SlotFrom(rptr, k) => j = 0 /\ k = CIRCULAR_BUF_DEPTH
  BY <1>1 DEF SlotFrom
<1>5. j < CIRCULAR_BUF_DEPTH => NextPtr(SlotFrom(rptr, j)) = SlotFrom(rptr, j + 1)
  <2> SUFFICES ASSUME j < CIRCULAR_BUF_DEPTH PROVE NextPtr(SlotFrom(rptr, j)) = SlotFrom(rptr, j + 1)
    OBVIOUS
  <2>1. NextPtr(SlotFrom(rptr, j)) = IF SlotFrom(rptr, j) + 1 < CIRCULAR_BUF_DEPTH THEN SlotFrom(rptr, j) + 1 ELSE 0
    BY <1>2, NextIs
  <2> QED BY <1>1, <2>1 DEF SlotFrom
<1> QED BY <1>2, <1>3, <1>4, <1>5

(* The handler and the reader's accesses to the ring do not overlap. *)
QuietStep ==
  \/ Alarm \/ Handler
  \/ handler = "idle" /\ (BeginDequeue \/ Dequeuing)
  \/ EndDequeue

LEMMA OrderInit == RingInit => RingOrder
<1> SUFFICES ASSUME RingInit PROVE RingOrder
  OBVIOUS
<1>1. /\ kept = <<>> /\ removed = 0 /\ wptr = 0 /\ rptr = 0 /\ queue_full = FALSE
      /\ queue_empty = TRUE /\ handler = "idle" /\ reader = "idle" /\ alarmed = FALSE
  BY DEF RingInit
<1>2. CIRCULAR_BUF_DEPTH \in Nat \ {0}
  BY DepthAssumption
<1>3. Left = 0 /\ <<>> \in Seq(Nat)
  BY <1>1 DEF Left
<1>4. RingPlaces
  <2>1. kept \in Seq(Nat) /\ removed \in Nat /\ removed <= Len(kept) /\ Left <= CIRCULAR_BUF_DEPTH
    BY <1>1, <1>2, <1>3
  <2>2. wptr = SlotFrom(rptr, Left)
    BY <1>1, <1>2, <1>3 DEF SlotFrom
  <2>3. \A k \in 0 .. Left - 1 : FALSE
    BY <1>3
  <2> QED BY <2>1, <2>2, <2>3 DEF RingPlaces
<1>5. FlagTypes /\ HandlerOK
  BY <1>1 DEF FlagTypes, HandlerOK
<1>6. ReaderOK
  BY <1>1, <1>2, <1>3 DEF ReaderOK
<1> QED BY <1>4, <1>5, <1>6 DEF RingOrder

(* An alarm stores one timestamp in the free slot at wptr, or none. *)
LEMMA ProducerKeepsOrder ==
  ASSUME RingTypes, RingOrder, Alarm \/ Handler
  PROVE  RingOrder'
<1>1. /\ CIRCULAR_BUF_DEPTH \in Nat \ {0} /\ rptr \in 0 .. CIRCULAR_BUF_DEPTH - 1
      /\ alarms \in Nat /\ time_buf \in [0 .. CIRCULAR_BUF_DEPTH - 1 -> Nat]
  BY DepthAssumption DEF RingTypes
<1>2. /\ kept \in Seq(Nat) /\ removed \in Nat /\ Len(kept) \in Nat /\ removed <= Len(kept)
      /\ Left \in 0 .. CIRCULAR_BUF_DEPTH /\ Left \in Nat
      /\ wptr = SlotFrom(rptr, Left)
      /\ \A k \in 0 .. Left - 1 : time_buf[SlotFrom(rptr, k)] = kept[removed + k + 1]
  BY <1>1 DEF RingOrder, RingPlaces, Left
<1>3. FlagTypes /\ HandlerOK /\ ReaderOK
  BY DEF RingOrder
<1>4. rptr' = rptr /\ reader' = reader /\ removed' = removed
  BY DEF Alarm, Handler, Store, AdvanceWrite, ClearEmpty, TestFull, SetFull, consumer
<1>5. CASE Alarm \/ ClearEmpty \/ TestFull \/ SetFull
  <2>1. UNCHANGED <<kept, time_buf, wptr>>
    BY <1>5 DEF Alarm, ClearEmpty, TestFull, SetFull
  <2>2. RingPlaces' /\ Left' = Left
    BY <1>1, <1>2, <1>4, <2>1 DEF RingPlaces, Left
  <2>3. CASE Alarm
    BY <1>1, <1>2, <1>3, <1>4, <2>1, <2>2, <2>3
       DEF Alarm, Refuses, flags, RingOrder, FlagTypes, HandlerOK, ReaderOK
  <2>4. CASE ClearEmpty
    BY <1>1, <1>2, <1>3, <1>4, <2>1, <2>2, <2>4
       DEF ClearEmpty, RingOrder, FlagTypes, HandlerOK, ReaderOK
  <2>5. CASE TestFull
    <3>1. wptr = rptr => Left = CIRCULAR_BUF_DEPTH
      <4>1. 0 \in 0 .. CIRCULAR_BUF_DEPTH /\ 0 < Left
        BY <1>1, <1>2, <1>3, <2>5 DEF TestFull, HandlerOK
      <4>2. SlotFrom(rptr, 0) = rptr
        BY <4>1, SlotsApart
      <4>3. SlotFrom(rptr, 0) = SlotFrom(rptr, Left) => Left = CIRCULAR_BUF_DEPTH
        BY <1>2, <4>1, SlotsApart
      <4> QED BY <1>2, <4>2, <4>3
    <3>2. wptr # rptr => Left # CIRCULAR_BUF_DEPTH
      BY <1>1, <1>2, SlotsApart
    <3> QED BY <1>1, <1>2, <1>3, <1>4, <2>1, <2>2, <2>5, <3>1, <3>2
            DEF TestFull, flags, RingOrder, FlagTypes, HandlerOK, ReaderOK
  <2>6. CASE SetFull
    BY <1>1, <1>2, <1>3, <1>4, <2>1, <2>2, <2>6
       DEF SetFull, RingOrder, FlagTypes, HandlerOK, ReaderOK
  <2> QED BY <1>5, <2>3, <2>4, <2>5, <2>6
<1>6. CASE Store
  <2>1. /\ handler = "store" /\ handler' = "advance" /\ time_buf' = [time_buf EXCEPT ![wptr] = alarms]
        /\ UNCHANGED <<wptr, alarms, kept, flags, alarmed>>
    BY <1>6 DEF Store
  <2>2. Left < CIRCULAR_BUF_DEPTH
    BY <1>1, <1>2, <1>3, <2>1 DEF HandlerOK, ReaderOK
  <2>3. wptr \in 0 .. CIRCULAR_BUF_DEPTH - 1
    BY <1>2, <2>2, SlotsApart
  <2>4. \A k \in 0 .. Left - 1 : SlotFrom(rptr, k) # wptr
    <3> SUFFICES ASSUME NEW k \in 0 .. Left - 1 PROVE SlotFrom(rptr, k) # SlotFrom(rptr, Left)
      BY <1>2
    <3>1. k \in 0 .. CIRCULAR_BUF_DEPTH /\ k < Left
      BY <1>1, <1>2
    <3> QED BY <1>2, <2>2, <3>1, SlotsApart
  <2>5. time_buf'[wptr'] = alarms' /\ \A k \in 0 .. Left - 1 : time_buf'[SlotFrom(rptr, k)] = time_buf[SlotFrom(rptr, k)]
    BY <1>1, <2>1, <2>3, <2>4
  <2>6. Left' = Left
    BY <1>4, <2>1 DEF Left
  <2>7. RingPlaces'
    BY <1>1, <1>2, <1>4, <2>1, <2>5, <2>6 DEF RingPlaces
  <2> QED BY <1>3, <1>4, <2>1, <2>5, <2>6, <2>7 DEF RingOrder, FlagTypes, HandlerOK, ReaderOK, flags
<1>7. CASE AdvanceWrite
  <2>1. /\ handler = "advance" /\ handler' = "clear_empty" /\ wptr' = NextPtr(wptr)
        /\ kept' = Append(kept, alarms) /\ UNCHANGED <<time_buf, alarms, flags, alarmed>>
    BY <1>7 DEF AdvanceWrite
  <2>2. /\ Left < CIRCULAR_BUF_DEPTH /\ time_buf[wptr] = alarms
        /\ reader = "clear_full" => Left < CIRCULAR_BUF_DEPTH - 1
    BY <1>1, <1>2, <1>3, <2>1 DEF HandlerOK, ReaderOK
  <2>3. wptr' = SlotFrom(rptr, Left + 1)
    BY <1>1, <1>2, <2>1, <2>2, SlotsApart
  <2>4. /\ kept' \in Seq(Nat) /\ Len(kept') = Len(kept) + 1
        /\ \A i \in 1 .. Len(kept) : kept'[i] = kept[i]
        /\ kept'[Len(kept) + 1] = alarms
    BY <1>1, <1>2, <2>1
  <2>5. Left' = Left + 1
    BY <1>2, <1>4, <2>4 DEF Left
  <2>6. ASSUME NEW k \in 0 .. Left PROVE time_buf'[SlotFrom(rptr', k)] = kept'[removed' + k + 1]
    <3>1. CASE k = Left
      <4>1. removed + k + 1 = Len(kept) + 1
        BY <1>2, <3>1 DEF Left
      <4>2. time_buf[SlotFrom(rptr, k)] = alarms
        BY <1>2, <2>2, <3>1
      <4> QED BY <1>4, <2>1, <2>4, <4>1, <4>2
    <3>2. CASE k # Left
      <4>1. k \in 0 .. Left - 1 /\ removed + k + 1 \in 1 .. Len(kept)
        BY <1>2, <3>2 DEF Left
      <4> QED BY <1>2, <1>4, <2>1, <2>4, <4>1
    <3> QED BY <3>1, <3>2
  <2>7. RingPlaces'
    <3>1. Left' - 1 = Left /\ Left' <= CIRCULAR_BUF_DEPTH /\ removed' <= Len(kept')
      BY <1>1, <1>2, <1>4, <2>2, <2>4, <2>5
    <3> QED BY <1>2, <1>4, <2>3, <2>4, <2>5, <2>6, <3>1 DEF RingPlaces
  <2>8. FlagTypes'
    BY <1>3, <1>4, <2>1 DEF FlagTypes, flags
  <2>9. HandlerOK'
    BY <1>2, <1>3, <1>4, <2>1, <2>5 DEF HandlerOK
  <2>10. ReaderOK'
    <3>1. Left' > 0 /\ handler' = "clear_empty"
      BY <1>2, <2>1, <2>5
    <3>2. reader' = "clear_full" => Left' < CIRCULAR_BUF_DEPTH /\ alarmed'
      BY <1>1, <1>2, <1>3, <1>4, <2>1, <2>2, <2>5 DEF HandlerOK
    <3> QED BY <3>1, <3>2 DEF ReaderOK
  <2> QED BY <2>7, <2>8, <2>9, <2>10 DEF RingOrder
<1> QED BY <1>5, <1>6, <1>7 DEF Handler

(* A step of a dequeue while no alarm is handled. *)
LEMMA ConsumerKeepsOrder ==
  ASSUME RingTypes, RingOrder, handler = "idle", BeginDequeue \/ Dequeuing
  PROVE  RingOrder'
<1>1. CIRCULAR_BUF_DEPTH \in Nat \ {0} /\ rptr \in 0 .. CIRCULAR_BUF_DEPTH - 1
  BY DepthAssumption DEF RingTypes
<1>2. /\ kept \in Seq(Nat) /\ removed \in Nat /\ Len(kept) \in Nat /\ removed <= Len(kept)
      /\ Left \in 0 .. CIRCULAR_BUF_DEPTH /\ Left \in Nat
      /\ wptr = SlotFrom(rptr, Left)
      /\ \A k \in 0 .. Left - 1 : time_buf[SlotFrom(rptr, k)] = kept[removed + k + 1]
  BY <1>1 DEF RingOrder, RingPlaces, Left
<1>3. FlagTypes /\ HandlerOK /\ ReaderOK
  BY DEF RingOrder
<1>4. UNCHANGED <<time_buf, wptr, handler, alarms, kept>>
  BY DEF BeginDequeue, Dequeuing, Copy, AdvanceRead, ClearFull, TestEmpty, SetEmpty,
         producer
<1>5. HandlerOK' /\ handler' = "idle"
  BY <1>4 DEF HandlerOK
<1>6. CASE ~AdvanceRead
  <2>1. UNCHANGED <<rptr, removed>>
    BY <1>6 DEF BeginDequeue, Dequeuing, Copy, ClearFull, TestEmpty, SetEmpty
  <2>2. Left' = Left
    BY <1>4, <2>1 DEF Left
  <2>3. RingPlaces'
    BY <1>2, <1>4, <2>1, <2>2 DEF RingPlaces
  <2>4. wptr = rptr \/ Left > 0
    BY <1>1, <1>2 DEF SlotFrom
  <2>5. wptr = rptr => Left = 0 \/ Left = CIRCULAR_BUF_DEPTH
    BY <1>1, <1>2 DEF SlotFrom
  <2>6. FlagTypes'
    BY <1>3, <1>4, <1>6 DEF FlagTypes, BeginDequeue, Dequeuing, Copy, ClearFull, TestEmpty, SetEmpty,
       flags
  <2>7. ReaderOK'
    <3>1. CASE BeginDequeue \/ Copy
      BY <1>3, <1>4, <2>2, <3>1 DEF ReaderOK, BeginDequeue, Copy, flags
    <3>2. CASE ClearFull
      BY <1>3, <1>4, <2>2, <3>2 DEF ReaderOK, ClearFull
    <3>3. CASE TestEmpty
      BY <1>3, <1>4, <2>2, <2>4, <3>3 DEF ReaderOK, TestEmpty, flags
    <3>4. CASE SetEmpty
      BY <1>3, <1>4, <2>2, <3>4 DEF ReaderOK, SetEmpty
    <3> QED BY <1>6, <3>1, <3>2, <3>3, <3>4 DEF Dequeuing
  <2> QED BY <1>5, <2>3, <2>6, <2>7 DEF RingOrder
<1>7. CASE AdvanceRead
  <2>1. /\ reader = "advance" /\ reader' = "clear_full" /\ rptr' = NextPtr(rptr)
        /\ removed' = removed + 1 /\ UNCHANGED <<flags, alarmed>>
    BY <1>7 DEF AdvanceRead
  <2>2. Left > 0 /\ (~queue_full => Left < CIRCULAR_BUF_DEPTH)
    BY <1>3, <2>1 DEF ReaderOK
  <2>3. Left' = Left - 1
    BY <1>2, <1>4, <2>1 DEF Left
  <2>4. rptr' = IF rptr + 1 < CIRCULAR_BUF_DEPTH THEN rptr + 1 ELSE 0
    BY <1>1, <2>1, NextIs
  <2>5. ASSUME NEW k \in 0 .. Left - 1 PROVE SlotFrom(rptr', k) = SlotFrom(rptr, k + 1)
    BY <1>1, <1>2, <2>4 DEF SlotFrom
  <2>6. wptr' = SlotFrom(rptr', Left')
    <3>1. Left - 1 \in 0 .. Left - 1 /\ (Left - 1) + 1 = Left
      BY <1>2, <2>2
    <3>2. SlotFrom(rptr', Left - 1) = SlotFrom(rptr, Left)
      BY <2>5, <3>1
    <3> QED BY <1>2, <1>4, <2>3, <3>2
  <2>7. ASSUME NEW k \in 0 .. Left - 2 PROVE time_buf'[SlotFrom(rptr', k)] = kept'[removed' + k + 1]
    <3>1. k + 1 \in 0 .. Left - 1 /\ k \in 0 .. Left - 1 /\ removed + (k + 1) + 1 = removed' + k + 1
      BY <1>2, <2>1
    <3>2. time_buf[SlotFrom(rptr, k + 1)] = kept[removed + (k + 1) + 1]
      BY <1>2, <3>1
    <3> QED BY <1>4, <2>5, <3>1, <3>2
  <2>8. RingPlaces'
    <3>1. Left' - 1 = Left - 2 /\ Left' <= CIRCULAR_BUF_DEPTH /\ removed' <= Len(kept') /\ removed' \in Nat
      BY <1>1, <1>2, <1>4, <2>1, <2>2, <2>3 DEF Left
    <3> QED BY <1>2, <1>4, <2>6, <2>7, <3>1 DEF RingPlaces
  <2>9. FlagTypes'
    BY <1>3, <1>4, <2>1 DEF FlagTypes, flags
  <2>10. ReaderOK'
    BY <1>1, <1>2, <1>4, <2>1, <2>2, <2>3 DEF ReaderOK, flags
  <2> QED BY <1>5, <2>8, <2>9, <2>10 DEF RingOrder
<1> QED BY <1>6, <1>7

LEMMA OrderStep == RingTypes /\ RingOrder /\ [QuietStep]_ringVars => RingOrder'
<1> SUFFICES ASSUME RingTypes, RingOrder, [QuietStep]_ringVars PROVE RingOrder'
  OBVIOUS
<1>1. CASE QuietStep
  <2>1. CASE EndDequeue
    BY <2>1 DEF EndDequeue, flags, producer, RingOrder, FlagTypes, RingPlaces, HandlerOK, ReaderOK, Left
  <2> QED BY <1>1, <2>1, ProducerKeepsOrder, ConsumerKeepsOrder DEF QuietStep
<1>2. CASE UNCHANGED ringVars
  BY <1>2 DEF ringVars, producer, consumer, flags, RingOrder, FlagTypes, RingPlaces, HandlerOK,
     ReaderOK, Left
<1> QED BY <1>1, <1>2

(* While main is the only one that was interrupted in a dequeue, the steps of
   the ring are quiet: main does nothing while it handles an alarm. *)
LEMMA StepIsQuiet == HeldInv /\ [Next]_vars /\ ~raced' => [QuietStep]_ringVars
<1> SUFFICES ASSUME HeldInv, [Next]_vars, ~raced' PROVE [QuietStep]_ringVars
  OBVIOUS
<1>1. CASE UNCHANGED vars
  BY <1>1 DEF vars
<1>2. CASE Tick \/ (Handler /\ UNCHANGED fileVars)
  BY <1>2 DEF Tick, QuietStep
<1>3. CASE handler = "idle" /\ MainThread
  BY <1>3 DEF MainThread, Accept, Join, TryLock, MainDequeue, DequeueStep, MainNoStamp,
              MainWrite, MainWritten, QuietStep
<1>4. ASSUME NEW t \in Thread, Worker(t), Next PROVE [QuietStep]_ringVars
  <2>1. CASE Receive(t) \/ Leave(t) \/ Lock(t) \/ WriteFails(t) \/ WritePacket(t)
             \/ Echo(t) \/ EchoFails(t) \/ NoStamp(t) \/ WriteStamp(t)
    BY <2>1 DEF Receive, Leave, Lock, WriteFails, Fail, WritePacket, Echo, EchoFails, NoStamp,
                WriteStamp
  <2>2. CASE Dequeue(t)
    <3>1. mutex = t /\ mutex' = mutex /\ t # Main
      BY <2>2, OwnerAssumption DEF Dequeue, DequeueStep, fileVars, HeldInv, Owner, Inside
    <3>2. handler' = handler /\ reader' # "idle"
      BY <2>2 DEF Dequeue, DequeueStep, BeginDequeue, Dequeuing, Copy, AdvanceRead, ClearFull,
         TestEmpty, SetEmpty, producer
    <3>3. handler = "idle"
      BY <1>4, <3>1, <3>2 DEF Next
    <3> QED BY <2>2, <3>3 DEF Dequeue, DequeueStep, QuietStep
  <2>3. CASE StampWritten(t) \/ StampFails(t)
    <3>1. EndDequeue
      BY <2>3 DEF StampWritten, StampFails
    <3> QED BY <3>1 DEF QuietStep
  <2> QED BY <1>4, <2>1, <2>2, <2>3 DEF Worker
<1> QED BY <1>1, <1>2, <1>3, <1>4 DEF Next

(* The rest of a sequence from place k + 1 on, l elements. *)
RestOf(x, s, k, l) ==
  /\ x \in Seq(Nat) /\ Len(x) = l /\ DOMAIN x = 1 .. l
  /\ \A i \in 1 .. l : x[i] = s[k + i]

LEMMA PartIs ==
  ASSUME NEW s \in Seq(Nat), NEW k \in Nat, NEW l \in Nat, k + l <= Len(s)
  PROVE  RestOf(SubSeq(s, k + 1, k + l), s, k, l)
<1> DEFINE x == SubSeq(s, k + 1, k + l)
<1>1. x \in Seq(Nat) /\ Len(x) = l
  OBVIOUS
<1>2. ASSUME NEW i \in 1 .. l PROVE x[i] = s[k + i]
  OBVIOUS
<1> HIDE DEF x
<1>3. DOMAIN x = 1 .. l
  BY <1>1
<1>4. RestOf(x, s, k, l)
  BY <1>1, <1>2, <1>3 DEF RestOf
<1> QED BY <1>4 DEF x

LEMMA RestIs ==
  ASSUME NEW s \in Seq(Nat), NEW k \in Nat, k <= Len(s)
  PROVE  RestOf(SubSeq(s, k + 1, Len(s)), s, k, Len(s) - k)
<1>1. Len(s) - k \in Nat /\ k + (Len(s) - k) = Len(s)
  OBVIOUS
<1>2. RestOf(SubSeq(s, k + 1, k + (Len(s) - k)), s, k, Len(s) - k)
  BY <1>1, PartIs
<1> QED BY <1>1, <1>2

OrderUnlessRaced == ~raced => RingOrder

LEMMA OrderHolds == Spec => []OrderUnlessRaced
<1>1. Init => OrderUnlessRaced
  BY OrderInit DEF Init, OrderUnlessRaced
<1>2. HeldInv /\ RingTypes /\ OrderUnlessRaced /\ [Next]_vars => OrderUnlessRaced'
  <2> SUFFICES ASSUME HeldInv, RingTypes, OrderUnlessRaced, [Next]_vars, ~raced' PROVE RingOrder'
    BY DEF OrderUnlessRaced
  <2>1. ~raced
    BY DEF Next, vars
  <2> QED BY <2>1, StepIsQuiet, OrderStep DEF OrderUnlessRaced
<1> QED BY <1>1, <1>2, Held, ServerUsesRing, RingTyped, PTL DEF Spec

(* As long as no thread has dequeued while an alarm was handled, no timestamp
   is lost after it was stored, they come out in order and once each, and the
   flags err on the safe side: the alarms that interrupt main do no harm. *)
THEOREM MainsAlarmsAreSafe == Spec => []RingSafeOnMain
<1>1. ASSUME RingTypes, RingOrder PROVE SlotsHoldPending /\ FlagsSafe
  <2>1. /\ CIRCULAR_BUF_DEPTH \in Nat \ {0} /\ rptr \in 0 .. CIRCULAR_BUF_DEPTH - 1
        /\ kept \in Seq(Nat) /\ removed \in Nat /\ Len(kept) \in Nat /\ removed <= Len(kept)
        /\ Left \in 0 .. CIRCULAR_BUF_DEPTH /\ wptr = SlotFrom(rptr, Left)
        /\ \A k \in 0 .. Left - 1 : time_buf[SlotFrom(rptr, k)] = kept[removed + k + 1]
    BY <1>1, DepthAssumption DEF RingTypes, RingOrder, RingPlaces, Left
  <2>2. /\ Pending \in Seq(Nat) /\ Len(Pending) = Left /\ DOMAIN Pending = 1 .. Left
        /\ \A i \in 1 .. Left : Pending[i] = kept[removed + i]
    <3>1. Left \in Nat /\ Left = Len(kept) - removed
      BY <2>1 DEF Left
    <3>2. RestOf(Pending, kept, removed, Len(kept) - removed)
      BY <2>1, RestIs DEF Pending
    <3> QED BY <3>1, <3>2 DEF RestOf
  <2>3. ASSUME NEW i \in 1 .. Left
        PROVE  time_buf[(rptr + i - 1) % CIRCULAR_BUF_DEPTH] = Pending[i]
    <3>1. /\ i - 1 \in 0 .. Left - 1 /\ i - 1 \in 0 .. CIRCULAR_BUF_DEPTH
          /\ removed + (i - 1) + 1 = removed + i /\ rptr + (i - 1) = rptr + i - 1
      BY <2>1
    <3>2. (rptr + (i - 1)) % CIRCULAR_BUF_DEPTH = SlotFrom(rptr, i - 1)
      BY <2>1, <3>1, WrapAround DEF SlotFrom
    <3>3. time_buf[SlotFrom(rptr, i - 1)] = kept[removed + (i - 1) + 1]
      BY <2>1, <3>1
    <3> QED BY <2>2, <3>1, <3>2, <3>3
  <2>4. (rptr + Left) % CIRCULAR_BUF_DEPTH = wptr
    BY <2>1, WrapAround DEF SlotFrom
  <2>5. SlotsHoldPending
    BY <2>1, <2>2, <2>3, <2>4 DEF SlotsHoldPending
  <2>6. FlagsSafe
    <3>1. AtRest => (~queue_full => Left < CIRCULAR_BUF_DEPTH) /\ (~queue_empty => Left > 0)
      BY <1>1 DEF RingOrder, ReaderOK, AtRest
    <3>2. Left > 0 => Pending # <<>>
      BY <2>2
    <3> QED BY <2>2, <3>1, <3>2 DEF FlagsSafe
  <2> QED BY <2>5, <2>6
<1>2. RingTypes /\ OrderUnlessRaced => RingSafeOnMain
  BY <1>1 DEF OrderUnlessRaced, RingSafeOnMain
<1> QED BY <1>2, OrderHolds, ServerUsesRing, RingTyped, PTL

----------------------------------------------------------------------------

(* u and v are the two halves of one string. *)
Halves(u, v) == u[3] = 1 /\ v[3] = 2 /\ u[1] = v[1] /\ u[2] = v[2]

(* No string of the file f is torn, but at `cut', and at the end when one unit
   of the string in hand is written. *)
Whole(f, cut, w) ==
  \A i \in 1 .. Len(f) :
    /\ f[i][3] = 2 => i > 1 /\ Halves(f[i - 1], f[i])
    /\ f[i][3] = 1 => \/ i < Len(f) /\ Halves(f[i], f[i + 1])
                      \/ f[i] \in cut
                      \/ i = Len(f) /\ w = 1

LEMMA OtherHalf ==
  ASSUME NEW u \in UnitSet, NEW v \in UnitSet, Halves(u, v)
  PROVE  u = [v EXCEPT ![3] = 1] /\ v = [u EXCEPT ![3] = 2]
  BY DEF Halves, UnitSet

(* What is cut off is remembered in `torn'. *)
LEMMA WholeKept ==
  ASSUME NEW f \in Seq(UnitSet), NEW cut, NEW more, NEW w \in Nat, NEW v \in Nat,
         Whole(f, cut, w), cut \subseteq more, w = 1 => v = 1 \/ f[Len(f)] \in more
  PROVE  Whole(f, more, v)
  BY DEF Whole

(* One write of a string of two halves keeps them together. *)
LEMMA WholeGrows ==
  ASSUME NEW f \in Seq(UnitSet), NEW g \in Seq(UnitSet), NEW cut, NEW s \in Seq(UnitSet),
         NEW w \in Nat, NEW v \in Nat,
         Len(s) = 2, Halves(s[1], s[2]), w < v, v <= 2, w = 1 => Len(f) > 0 /\ f[Len(f)] = s[1],
         Len(g) = Len(f) + (v - w), \A i \in 1 .. Len(f) : g[i] = f[i],
         \A i \in 1 .. v - w : g[Len(f) + i] = s[w + i],
         Whole(f, cut, w)
  PROVE  Whole(g, cut, v)
<1> SUFFICES ASSUME NEW i \in 1 .. Len(g)
             PROVE  /\ g[i][3] = 2 => i > 1 /\ Halves(g[i - 1], g[i])
                    /\ g[i][3] = 1 => \/ i < Len(g) /\ Halves(g[i], g[i + 1])
                                      \/ g[i] \in cut
                                      \/ i = Len(g) /\ v = 1
  BY DEF Whole
<1>1. Len(f) \in Nat /\ Len(g) \in Nat
  OBVIOUS
<1>2. CASE i < Len(f)
  <2>1. /\ i \in 1 .. Len(f) /\ i + 1 \in 1 .. Len(f) /\ i # Len(f) /\ i < Len(g)
        /\ g[i] = f[i] /\ g[i + 1] = f[i + 1]
        /\ i > 1 => g[i - 1] = f[i - 1]
    BY <1>1, <1>2
  <2>2. /\ f[i][3] = 2 => i > 1 /\ Halves(f[i - 1], f[i])
        /\ f[i][3] = 1 => Halves(f[i], f[i + 1]) \/ f[i] \in cut
    BY <2>1 DEF Whole
  <2> QED BY <2>1, <2>2
<1>3. CASE i = Len(f)
  <2>1. /\ i \in 1 .. Len(f) /\ g[i] = f[i] /\ (i > 1 => g[i - 1] = f[i - 1])
        /\ i < Len(g) /\ g[i + 1] = s[w + 1]
    <3>1. 1 \in 1 .. v - w /\ i \in 1 .. Len(f) /\ (i > 1 => i - 1 \in 1 .. Len(f))
      BY <1>1, <1>3
    <3> QED BY <1>1, <1>3, <3>1
  <2>2. /\ f[i][3] = 2 => i > 1 /\ Halves(f[i - 1], f[i])
        /\ f[i][3] = 1 => f[i] \in cut \/ w = 1
    BY <1>3, <2>1 DEF Whole
  <2>3. CASE w = 1
    <3>1. g[i] = s[1] /\ g[i + 1] = s[2]
      BY <1>3, <2>1, <2>3
    <3>2. Halves(g[i], g[i + 1])
      BY <3>1
    <3> QED BY <2>1, <2>2, <3>2
  <2>4. CASE w # 1
    BY <2>1, <2>2, <2>4
  <2> QED BY <2>3, <2>4
<1>4. CASE i > Len(f)
  <2>1. w \in {0, 1} /\ v \in {1, 2}
    OBVIOUS
  <2>2. CASE i = Len(f) + 1
    <3>1. g[i] = s[w + 1]
      BY <1>1, <2>2
    <3>2. CASE w = 1
      <4>1. v = 2 /\ g[i - 1] = f[Len(f)] /\ i > 1
        BY <1>1, <2>1, <2>2, <3>2
      <4> QED BY <3>1, <3>2, <4>1 DEF Halves
    <3>3. CASE w = 0
      <4>1. g[i] = s[1] /\ g[i][3] = 1
        BY <3>1, <3>3 DEF Halves
      <4>2. CASE v = 1
        BY <1>1, <2>2, <3>3, <4>1, <4>2
      <4>3. CASE v = 2
        <5>1. i < Len(g) /\ g[i + 1] = s[2]
          BY <1>1, <2>2, <3>3, <4>3
        <5> QED BY <4>1, <5>1
      <4> QED BY <2>1, <4>2, <4>3
    <3> QED BY <2>1, <3>2, <3>3
  <2>3. CASE i = Len(f) + 2
    <3>1. w = 0 /\ v = 2 /\ i > 1
      BY <1>1, <2>1, <2>3
    <3>2. g[i] = s[2] /\ g[i - 1] = s[1]
      BY <1>1, <2>3, <3>1
    <3> QED BY <3>1, <3>2 DEF Halves
  <2> QED BY <1>1, <1>4, <2>1, <2>2, <2>3
<1> QED
  BY <1>1, <1>2, <1>3, <1>4

----------------------------------------------------------------------------
(* What the holder of the mutex has written of its string. *)
InHand == IF mutex = NoOwner THEN 0 ELSE written[mutex]

InDequeue(p) == IF p = Main THEN mpc = "dequeue" ELSE pc[p] = "dequeue"

(* The end of the file is what p has written of the timestamp. *)
EndsWithStamp(p) ==
  /\ written[p] <= Len(file)
  /\ \A i \in 1 .. written[p] : file[Len(file) - written[p] + i] = Stamp[i]

StampInHand(p) ==
  IF InDequeue(p) /\ reader = "done" THEN written[p] <= Len(Stamp) /\ EndsWithStamp(p)
                                     ELSE p = Main => written[p] = 0

(* Packets are two units long, and so are timestamps: windows start on even
   places. *)
WindowEven(t) ==
  /\ start[t] \in {0, 2, 4} /\ upto[t] \in {0, 2}
  /\ pc[t] \in {"lock", "write", "echo", "dequeue"} => upto[t] = 2

StringInv ==
  /\ Whole(file, torn, InHand)
  /\ \A p \in Owner : StampInHand(p)
  /\ \A t \in Thread : WindowEven(t)

Known == HeldInv /\ RingTypes /\ DataInv

LEMMA StringInit == Init => StringInv
<1> SUFFICES ASSUME Init PROVE StringInv
  OBVIOUS
<1>1. /\ pc = [t \in Thread |-> "none"] /\ file = <<>> /\ mutex = NoOwner /\ mpc = "accept"
      /\ upto = [t \in Thread |-> 0] /\ start = [t \in Thread |-> 0]
      /\ written = [p \in Owner |-> 0]
  BY DEF Init, Owner
<1>2. Whole(file, torn, InHand)
  BY <1>1 DEF Whole
<1>3. ASSUME NEW p \in Owner PROVE StampInHand(p)
  BY <1>1, <1>3 DEF StampInHand, InDequeue, Owner
<1>4. \A t \in Thread : WindowEven(t)
  BY <1>1 DEF WindowEven
<1> QED
  BY <1>2, <1>3, <1>4 DEF StringInv

(* The number of units until the next newline is 2 at an even place. *)
LEMMA NewlineIsTwo ==
  ASSUME NEW t \in Thread, NEW k \in Nat, DataTypes, start[t] \in {0, 2, 4}, Newline(t, k) # {}
  PROVE  (CHOOSE i \in Newline(t, k) : \A j \in Newline(t, k) : i <= j) = 2
<1> DEFINE ends == Newline(t, k)
<1>1. start[t] \in Nat /\ len[t] \in Nat
  BY DEF DataTypes
<1>2. ends = {i \in 1 .. (len[t] - start[t]) + k : (start[t] + i) % 2 = 0}
  BY DEF Newline, UnitsPerString
<1>3. PICK e \in ends : TRUE
  OBVIOUS
<1>4. e \in Nat /\ e >= 1 /\ e <= (len[t] - start[t]) + k /\ (start[t] + e) % 2 = 0
  BY <1>1, <1>2
<1> HIDE DEF ends
<1>5. e # 1 /\ (start[t] + 1) % 2 = 1 /\ (start[t] + 2) % 2 = 0
  BY <1>4
<1>6. 2 \in ends /\ \A i \in ends : i \in Nat /\ 2 <= i
  <2>1. \A i \in ends : i \in Nat /\ 1 <= i /\ i # 1
    BY <1>1, <1>2, <1>5
  <2>2. 2 \in ends
    BY <1>1, <1>2, <1>4, <1>5
  <2> QED BY <2>1, <2>2
<1> QED
  BY <1>6 DEF ends

(* The file stays, and what is in hand stays, is complete or is given up. *)
HandStays ==
  /\ file' = file /\ torn \subseteq torn'
  /\ InHand = 1 => InHand' = 1 \/ file[Len(file)] \in torn'

LEMMA HandIsNat == HeldInv /\ DataInv => InHand \in Nat
  BY DEF HeldInv, DataInv, DataTypes, InHand

LEMMA HandStaysWhole ==
  ASSUME Known, Known', StringInv, HandStays
  PROVE  Whole(file, torn, InHand)'
<1>1. InHand \in Nat /\ InHand' \in Nat /\ file \in Seq(UnitSet)
  <2>1. InHand \in Nat
    BY HandIsNat DEF Known
  <2>2. InHand' \in Nat
    BY HandIsNat DEF Known, HeldInv, DataInv, DataTypes, InHand
  <2> QED BY <2>1, <2>2 DEF Known, DataInv, DataTypes
<1>2. Whole(file, torn', InHand')
  BY <1>1, WholeKept DEF StringInv, HandStays
<1> QED
  BY <1>2 DEF HandStays

(* Who is inside holds the mutex, alone. *)
LEMMA InsideHolds ==
  ASSUME HeldInv, NEW p \in Owner, Inside(p)
  PROVE  /\ mutex = p /\ InHand = written[p]
         /\ \A q \in Owner : Inside(q) => p = q
  BY OwnerAssumption DEF HeldInv, InHand, Owner

LEMMA NothingWritten ==
  ASSUME Known', NEW p \in Owner, written'[p] = 0
  PROVE  StampInHand(p)'
  BY DEF StampInHand, EndsWithStamp, Known, DataInv, DataTypes, Stamp, UnitsPerString

LEMMA WorkerKeepsStamps ==
  ASSUME Known, Known', StringInv, NEW t \in Thread,
         \A q \in Owner \ {t} : written'[q] = written[q],
         \A u \in Thread \ {t} : pc'[u] = pc[u], mpc' = mpc,
         UNCHANGED <<file, reader, got>> \/ Inside(t)
  PROVE  \A q \in Owner \ {t} : StampInHand(q)'
<1> SUFFICES ASSUME NEW q \in Owner, q # t PROVE StampInHand(q)'
  OBVIOUS
<1>1. written'[q] = written[q] /\ (InDequeue(q)' <=> InDequeue(q)) /\ StampInHand(q)
  BY DEF InDequeue, StringInv, Owner
<1>2. CASE UNCHANGED <<file, reader, got>>
  BY <1>1, <1>2 DEF StampInHand, EndsWithStamp, Stamp
<1>3. CASE Inside(t)
  <2>1. ~Inside(q)
    BY <1>3, InsideHolds DEF Known, Owner
  <2>2. ~InDequeue(q)
    BY <2>1 DEF InDequeue, Inside
  <2> QED BY <1>1, <2>2 DEF StampInHand
<1> QED
  BY <1>2, <1>3

LEMMA WorkerKeepsStrings ==
  ASSUME Known, Known', StringInv, NEW t \in Thread,
         \A q \in Owner \ {t} : written'[q] = written[q],
         \A u \in Thread \ {t} : /\ pc'[u] = pc[u]
                                 /\ start'[u] = start[u] /\ upto'[u] = upto[u],
         mpc' = mpc,
         UNCHANGED <<file, reader, got>> \/ Inside(t),
         HandStays \/ Whole(file, torn, InHand)',
         StampInHand(t)', WindowEven(t)'
  PROVE  StringInv'
<1>1. Whole(file, torn, InHand)'
  BY HandStaysWhole
<1>2. \A q \in Owner : StampInHand(q)'
  BY WorkerKeepsStamps
<1>3. \A u \in Thread : WindowEven(u)'
  BY DEF WindowEven, StringInv
<1> QED
  BY <1>1, <1>2, <1>3 DEF StringInv

LEMMA EntersKeepStrings ==
  ASSUME Known, Known', StringInv, NEW t \in Thread, Receive(t) \/ Leave(t) \/ Lock(t)
  PROVE  StringInv'
<1>0. /\ t \in Owner /\ t # Main /\ pc \in [Thread -> Labels] /\ pc' \in [Thread -> Labels]
      /\ start \in [Thread -> Nat] /\ upto \in [Thread -> Nat] /\ DataTypes
      /\ WindowEven(t)
  BY OwnerAssumption DEF Known, HeldInv, DataInv, DataTypes, Owner, StringInv
<1>1. /\ UNCHANGED <<file, written, torn, mpc, reader, got>> /\ pc[t] \in {"recv", "lock"}
      /\ \A u \in Thread \ {t} : pc'[u] = pc[u] /\ start'[u] = start[u] /\ upto'[u] = upto[u]
      /\ pc'[t] # "dequeue"
  <2>1. CASE Receive(t)
    BY <1>0, <2>1 DEF Receive, Goto, ringVars, consumer
  <2>2. CASE Leave(t) \/ Lock(t)
    BY <1>0, <2>2 DEF Leave, Lock, Return, Goto, window, ringVars, consumer
  <2> QED BY <2>1, <2>2
<1>2. HandStays
  <2>1. CASE mutex' = mutex
    BY <1>1, <2>1 DEF HandStays, InHand
  <2>2. CASE mutex = NoOwner
    BY <1>1, <2>2 DEF HandStays, InHand
  <2>3. mutex' = mutex \/ mutex = NoOwner
    BY DEF Receive, Leave, Lock, CanLock
  <2> QED BY <2>1, <2>2, <2>3
<1>3. StampInHand(t)'
  BY <1>0, <1>1 DEF StampInHand, InDequeue
<1>4. WindowEven(t)'
  <2>1. CASE Receive(t)
    <3>1. CASE UNCHANGED <<start, upto, pc>>
      BY <1>0, <3>1 DEF WindowEven
    <3>2. CASE ~UNCHANGED <<start, upto, pc>>
      <4>1. PICK k \in 1 .. UnitsPerString :
              /\ Newline(t, k) # {}
              /\ upto' = [upto EXCEPT ![t] = CHOOSE i \in Newline(t, k) :
                                               \A j \in Newline(t, k) : i <= j]
        BY <2>1, <3>2 DEF Receive
      <4>2. k \in Nat /\ start[t] \in {0, 2, 4} /\ start' = start
        BY <1>0, <2>1 DEF UnitsPerString, WindowEven, Receive
      <4>3. (CHOOSE i \in Newline(t, k) : \A j \in Newline(t, k) : i <= j) = 2
        BY <1>0, <4>1, <4>2, NewlineIsTwo
      <4>4. upto' = [upto EXCEPT ![t] = 2]
        BY <4>1, <4>3
      <4> QED BY <1>0, <4>2, <4>4 DEF WindowEven
    <3> QED BY <3>1, <3>2
  <2>2. CASE Leave(t)
    <3>1. start'[t] = 0 /\ upto'[t] = 0 /\ pc'[t] = "completed"
      BY <1>0, <2>2 DEF Leave, Return, Goto
    <3> QED BY <3>1 DEF WindowEven
  <2>3. CASE Lock(t)
    BY <1>0, <2>3 DEF Lock, Goto, window, WindowEven
  <2> QED BY <2>1, <2>2, <2>3
<1> QED
  BY <1>1, <1>2, <1>3, <1>4, WorkerKeepsStrings

(* A thread that fails leaves behind a part of its packet at most. *)
LEMMA FailKeepsStrings ==
  ASSUME Known, Known', StringInv, NEW t \in Thread, WriteFails(t) \/ EchoFails(t)
  PROVE  StringInv'
<1>0. /\ t \in Owner /\ t # Main /\ pc \in [Thread -> Labels] /\ pc' \in [Thread -> Labels]
      /\ written \in [Owner -> Nat] /\ start \in [Thread -> Nat] /\ upto \in [Thread -> Nat]
      /\ WindowEven(t) /\ Progress(t)
  BY OwnerAssumption DEF Known, HeldInv, DataInv, DataTypes, Owner, StringInv
<1>1. /\ pc[t] \in {"write", "echo"} /\ pc' = [pc EXCEPT ![t] = "completed"]
      /\ start' = [start EXCEPT ![t] = 0] /\ upto' = [upto EXCEPT ![t] = 0]
      /\ written' = [written EXCEPT ![t] = 0] /\ UNCHANGED <<file, mpc, reader, got>>
      /\ mutex' = NoOwner
  BY DEF WriteFails, EchoFails, GiveUp, Fail, Return, Goto, ringVars, consumer
<1>2. Inside(t)
  BY <1>0, <1>1 DEF Inside
<1>3. InHand = written[t]
  BY <1>0, <1>2, InsideHolds DEF Known
<1>4. HandStays
  <2>1. CASE WriteFails(t)
    BY <1>1, <1>3, <2>1 DEF WriteFails, GiveUp, HandStays
  <2>2. CASE EchoFails(t)
    <3>1. written[t] = 2 /\ torn' = torn
      BY <1>0, <2>2 DEF EchoFails, Progress, WindowEven
    <3> QED BY <1>1, <1>3, <3>1 DEF HandStays
  <2> QED BY <2>1, <2>2
<1>5. StampInHand(t)' /\ WindowEven(t)'
  BY <1>0, <1>1 DEF StampInHand, InDequeue, WindowEven
<1>6. /\ \A q \in Owner \ {t} : written'[q] = written[q]
      /\ \A u \in Thread \ {t} : pc'[u] = pc[u] /\ start'[u] = start[u] /\ upto'[u] = upto[u]
  BY <1>0, <1>1
<1> QED
  BY <1>1, <1>2, <1>4, <1>5, <1>6, WorkerKeepsStrings

LEMMA StampHalves ==
  ASSUME RingTypes, Len(Stamp) # 0
  PROVE  Len(Stamp) = 2 /\ Halves(Stamp[1], Stamp[2])
<1>1. got # 0
  BY DEF Stamp
<1>2. Stamp = [i \in 1 .. 2 |-> <<"timestamp", got, i>>]
  BY <1>1 DEF Stamp, UnitsPerString
<1> QED
  BY <1>2 DEF Halves

LEMMA PacketHalves ==
  ASSUME NEW t \in Thread, WindowEven(t), upto[t] = 2
  PROVE  /\ Packet(t) \in Seq(UnitSet) /\ Len(Packet(t)) = 2
         /\ Packet(t)[1] = Unit(t, start[t] + 1) /\ Packet(t)[2] = Unit(t, start[t] + 2)
         /\ Halves(Packet(t)[1], Packet(t)[2])
<1>1. start[t] \in {0, 2, 4}
  BY DEF WindowEven
<1>2. Packet(t) = [i \in 1 .. 2 |-> Unit(t, start[t] + i)]
  BY DEF Packet
<1>3. \A i \in 1 .. 2 : Unit(t, start[t] + i) \in UnitSet
  BY <1>1, Units
<1>4. Halves(Unit(t, start[t] + 1), Unit(t, start[t] + 2))
  BY <1>1 DEF Halves, Unit, UnitsPerString
<1> QED
  BY <1>2, <1>3, <1>4

LEMMA DumpKeepsWhole ==
  ASSUME Known, Known', StringInv, NEW p \in Owner, NEW s \in Seq(UnitSet),
         Len(s) = 2, Halves(s[1], s[2]), Dump(p, s), mutex = p, mutex' = p, torn' = torn,
         written[p] <= Len(file),
         \A i \in 1 .. written[p] : file[Len(file) - written[p] + i] = s[i]
  PROVE  Whole(file, torn, InHand)'
<1> DEFINE w == written[p]
           v == written'[p]
<1>1. /\ file \in Seq(UnitSet) /\ file' \in Seq(UnitSet)
      /\ written \in [Owner -> Nat] /\ written' \in [Owner -> Nat] /\ p # NoOwner
  BY OwnerAssumption DEF Known, DataInv, DataTypes, Owner
<1>2. /\ v \in w + 1 .. Len(s)
      /\ Len(file') = Len(file) + (v - w)
      /\ \A i \in 1 .. Len(file) : file'[i] = file[i]
      /\ \A i \in 1 .. v - w : file'[Len(file) + i] = s[w + i]
  BY <1>1, DumpAppends
<1>3. w \in Nat /\ v \in Nat /\ w < v /\ v <= 2 /\ InHand = w /\ InHand' = v
  BY <1>1, <1>2 DEF InHand
<1>4. w = 1 => Len(file) > 0 /\ file[Len(file)] = s[1]
  BY <1>1
<1>5. Whole(file, torn, w)
  BY <1>3 DEF StringInv
<1> HIDE DEF w, v
<1>6. Whole(file', torn, v)
  BY <1>1, <1>2, <1>3, <1>4, <1>5, WholeGrows
<1> QED
  BY <1>3, <1>6

LEMMA WriteKeepsStrings ==
  ASSUME Known, Known', StringInv, NEW t \in Thread, WritePacket(t)
  PROVE  StringInv'
<1>0. /\ t \in Owner /\ t # Main /\ pc \in [Thread -> Labels] /\ pc' \in [Thread -> Labels]
      /\ written \in [Owner -> Nat] /\ WindowEven(t) /\ Progress(t) /\ file \in Seq(UnitSet)
  BY OwnerAssumption DEF Known, HeldInv, DataInv, DataTypes, Owner, StringInv
<1>1. /\ pc[t] = "write" /\ Dump(t, Packet(t)) /\ UNCHANGED <<start, upto, mpc, torn, mutex>>
      /\ pc' = [pc EXCEPT ![t] = "echo"] \/ pc' = pc
  BY DEF WritePacket, Goto, window
<1>2. Inside(t) /\ mutex = t /\ mutex' = t /\ upto[t] = 2
  BY <1>0, <1>1, InsideHolds DEF Known, Inside, WindowEven
<1>3. /\ Packet(t) \in Seq(UnitSet) /\ Len(Packet(t)) = 2
      /\ Packet(t)[1] = Unit(t, start[t] + 1) /\ Packet(t)[2] = Unit(t, start[t] + 2)
      /\ Halves(Packet(t)[1], Packet(t)[2])
  BY <1>0, <1>2, PacketHalves
<1>4. /\ written' = [written EXCEPT ![t] = written'[t]]
      /\ written'[t] \in written[t] + 1 .. Len(Packet(t))
  BY <1>0, <1>1, <1>3, DumpAppends
<1>5. /\ written[t] <= Len(file)
      /\ \A i \in 1 .. written[t] : file[Len(file) - written[t] + i] = Packet(t)[i]
  <2>1. /\ written[t] <= Len(file)
        /\ \A i \in 1 .. written[t] : file[Len(file) - written[t] + i] = Unit(t, start[t] + i)
    BY <1>0, <1>1 DEF Progress, EndsWithPacket
  <2>2. written[t] \in Nat /\ written[t] <= 2
    BY <1>0, <1>3, <1>4
  <2>3. \A i \in 1 .. written[t] : Packet(t)[i] = Unit(t, start[t] + i)
    BY <1>3, <2>2
  <2> QED BY <2>1, <2>3
<1>6. Whole(file, torn, InHand)'
  BY <1>0, <1>1, <1>2, <1>3, <1>5, DumpKeepsWhole
<1>7. /\ \A q \in Owner \ {t} : written'[q] = written[q]
      /\ \A u \in Thread \ {t} : pc'[u] = pc[u] /\ start'[u] = start[u] /\ upto'[u] = upto[u]
      /\ pc'[t] \in {"write", "echo"}
  BY <1>0, <1>1, <1>4
<1>8. StampInHand(t)' /\ WindowEven(t)'
  BY <1>0, <1>1, <1>2, <1>7 DEF StampInHand, InDequeue, WindowEven
<1> QED
  BY <1>1, <1>2, <1>6, <1>7, <1>8, WorkerKeepsStrings

LEMMA EchoKeepsStrings ==
  ASSUME Known, Known', StringInv, NEW t \in Thread, Echo(t)
  PROVE  StringInv'
<1>0. /\ t \in Owner /\ t # Main /\ pc \in [Thread -> Labels] /\ pc' \in [Thread -> Labels]
      /\ written \in [Owner -> Nat] /\ WindowEven(t) /\ Progress(t)
  BY OwnerAssumption DEF Known, HeldInv, DataInv, DataTypes, Owner, StringInv
<1>1. /\ pc[t] = "echo" /\ UNCHANGED <<file, mutex, start, upto, mpc, torn>>
      /\ \/ pc' = pc /\ written' = written
         \/ /\ pc' = [pc EXCEPT ![t] = "dequeue"] /\ written' = [written EXCEPT ![t] = 0]
  BY DEF Echo, Goto, window
<1>2. Inside(t) /\ upto[t] = 2 /\ written[t] = 2
  BY <1>0, <1>1 DEF Inside, WindowEven, Progress
<1>3. InHand = 2
  BY <1>0, <1>2, InsideHolds DEF Known
<1>4. HandStays
  BY <1>1, <1>3 DEF HandStays
<1>5. /\ \A q \in Owner \ {t} : written'[q] = written[q]
      /\ \A u \in Thread \ {t} : pc'[u] = pc[u] /\ start'[u] = start[u] /\ upto'[u] = upto[u]
  BY <1>0, <1>1
<1>6. StampInHand(t)'
  <2>1. CASE pc' = pc
    BY <1>0, <1>1, <2>1 DEF StampInHand, InDequeue
  <2>2. CASE written' = [written EXCEPT ![t] = 0]
    BY <1>0, <2>2, NothingWritten
  <2> QED BY <1>1, <2>1, <2>2
<1>7. WindowEven(t)'
  BY <1>1, <1>2, <1>0 DEF WindowEven
<1> QED
  BY <1>1, <1>2, <1>4, <1>5, <1>6, <1>7, WorkerKeepsStrings

(* A dequeue hands over its timestamp with none of it written. *)
LEMMA DequeueHands ==
  ASSUME Known', StringInv, NEW p \in Owner, DequeueStep, written[p] = 0
  PROVE  StampInHand(p)' /\ UNCHANGED <<file, mutex, pc, start, upto, written, torn, mpc>>
<1>1. UNCHANGED <<file, mutex, pc, start, upto, written, torn, mpc>>
  BY DEF DequeueStep, fileVars, window
<1> QED
  BY <1>1, NothingWritten

(* One write of the timestamp leaves what is written at the end of the file. *)
LEMMA StampGrows ==
  ASSUME Known, Known', StringInv, NEW p \in Owner, InDequeue(p), reader = "done",
         mutex = p, UNCHANGED <<mutex, torn, got, reader, pc, mpc>>, Dump(p, Stamp)
  PROVE  /\ Whole(file, torn, InHand)' /\ StampInHand(p)'
         /\ \A q \in Owner \ {p} : written'[q] = written[q]
<1> DEFINE w == written[p]
           v == written'[p]
<1>1. /\ file \in Seq(UnitSet) /\ Stamp \in Seq(UnitSet) /\ written \in [Owner -> Nat]
      /\ file' \in Seq(UnitSet)
  BY Units DEF Known, DataInv, DataTypes
<1>2. /\ written' = [written EXCEPT ![p] = v] /\ v \in w + 1 .. Len(Stamp)
      /\ Len(file') = Len(file) + (v - w)
      /\ \A i \in 1 .. Len(file) : file'[i] = file[i]
      /\ \A i \in 1 .. v - w : file'[Len(file) + i] = Stamp[w + i]
  BY <1>1, DumpAppends
<1>3. /\ w \in Nat /\ v \in Nat /\ Len(file) \in Nat /\ Len(file') \in Nat /\ Len(Stamp) \in Nat
      /\ Len(Stamp) # 0
  BY <1>1, <1>2
<1>4. Len(Stamp) = 2 /\ Halves(Stamp[1], Stamp[2])
  BY <1>3, StampHalves DEF Known
<1>5. w <= Len(file) /\ \A i \in 1 .. w : file[Len(file) - w + i] = Stamp[i]
  BY DEF StringInv, StampInHand, EndsWithStamp
<1>6. Whole(file, torn, InHand)'
  BY <1>1, <1>4, <1>5, DumpKeepsWhole
<1>7. Stamp' = Stamp /\ (InDequeue(p)' <=> InDequeue(p))
  BY DEF Stamp, InDequeue
<1> HIDE DEF w, v
<1>8. ASSUME NEW i \in 1 .. v PROVE file'[Len(file') - v + i] = Stamp[i]
  <2>1. Len(file') - v + i = Len(file) - w + i
    BY <1>2, <1>3
  <2>2. CASE i <= w
    <3>1. Len(file) - w + i \in 1 .. Len(file) /\ i \in 1 .. w
      BY <1>3, <1>5, <2>2
    <3> QED BY <1>2, <1>5, <2>1, <3>1
  <2>3. CASE i > w
    <3>1. /\ Len(file) - w + i = Len(file) + (i - w) /\ i - w \in 1 .. v - w
          /\ w + (i - w) = i
      BY <1>3, <2>3
    <3> QED BY <1>2, <2>1, <3>1
  <2> QED BY <1>3, <2>2, <2>3
<1>9. v <= Len(file') /\ v <= Len(Stamp)
  BY <1>2, <1>3, <1>5
<1>10. StampInHand(p)'
  BY <1>7, <1>8, <1>9 DEF StampInHand, EndsWithStamp, v
<1> QED
  BY <1>1, <1>2, <1>6, <1>10

LEMMA DequeueKeepsStrings ==
  ASSUME Known, Known', StringInv, NEW t \in Thread,
         Dequeue(t) \/ NoStamp(t) \/ WriteStamp(t) \/ StampWritten(t) \/ StampFails(t)
  PROVE  StringInv'
<1>0. /\ t \in Owner /\ t # Main /\ pc \in [Thread -> Labels] /\ pc' \in [Thread -> Labels]
      /\ written \in [Owner -> Nat] /\ start \in [Thread -> Nat] /\ upto \in [Thread -> Nat]
      /\ WindowEven(t) /\ Progress(t) /\ StampInHand(t) /\ Len(Stamp) \in {0, 2}
  BY OwnerAssumption, Units DEF Known, HeldInv, DataInv, DataTypes, Owner, StringInv
<1>1. pc[t] = "dequeue" /\ mpc' = mpc
  BY DEF Dequeue, DequeueStep, NoStamp, WriteStamp, StampWritten, StampFails, Finish, fileVars
<1>2. Inside(t) /\ InDequeue(t) /\ upto[t] = 2
  BY <1>0, <1>1 DEF Inside, WindowEven, InDequeue
<1>3. InHand = written[t] /\ mutex = t
  BY <1>0, <1>2, InsideHolds DEF Known
<1>4. CASE Dequeue(t)
  <2>1. written[t] = 0
    BY <1>0, <1>1, <1>4 DEF Dequeue, Progress
  <2>2. StampInHand(t)' /\ UNCHANGED <<file, mutex, pc, start, upto, written, torn>>
    BY <1>0, <1>4, <2>1, DequeueHands DEF Dequeue
  <2>3. HandStays
    BY <2>2 DEF HandStays, InHand
  <2>4. WindowEven(t)'
    BY <1>0, <2>2 DEF WindowEven
  <2> QED BY <1>1, <1>2, <2>2, <2>3, <2>4, WorkerKeepsStrings
<1>5. CASE WriteStamp(t)
  <2>1. /\ Dump(t, Stamp) /\ reader = "done"
        /\ UNCHANGED <<mutex, pc, start, upto, mpc, torn, got, reader>>
    BY <1>5 DEF WriteStamp, window, ringVars, consumer
  <2>2. /\ Whole(file, torn, InHand)' /\ StampInHand(t)'
        /\ \A q \in Owner \ {t} : written'[q] = written[q]
    BY <1>0, <1>2, <1>3, <2>1, StampGrows
  <2>3. WindowEven(t)'
    BY <1>0, <2>1 DEF WindowEven
  <2> QED BY <1>2, <2>1, <2>2, <2>3, WorkerKeepsStrings
<1>6. ASSUME NEW stamp \in {0, 2}, Finish(t, stamp), HandStays, written' = [written EXCEPT ![t] = 0]
      PROVE  StringInv'
  <2>1. /\ pc' = [pc EXCEPT ![t] = "recv"] /\ start' = [start EXCEPT ![t] = 2 + stamp]
        /\ upto' = [upto EXCEPT ![t] = 0]
    BY <1>2, <1>6 DEF Finish, Goto
  <2>2. StampInHand(t)' /\ WindowEven(t)'
    BY <1>0, <2>1 DEF StampInHand, InDequeue, WindowEven
  <2>3. /\ \A q \in Owner \ {t} : written'[q] = written[q]
        /\ \A u \in Thread \ {t} : pc'[u] = pc[u] /\ start'[u] = start[u] /\ upto'[u] = upto[u]
    BY <1>0, <1>6, <2>1
  <2> QED BY <1>1, <1>2, <1>6, <2>2, <2>3, WorkerKeepsStrings
<1>7. CASE NoStamp(t)
  <2>1. written[t] = 0
    BY <1>0, <1>1, <1>7 DEF NoStamp, Progress
  <2>2. written' = [written EXCEPT ![t] = 0] /\ HandStays /\ Finish(t, 0)
    BY <1>0, <1>3, <1>7, <2>1 DEF NoStamp, HandStays
  <2> QED BY <1>6, <2>2
<1>8. CASE StampWritten(t)
  <2>1. HandStays
    <3>1. file' = file /\ torn' = torn /\ written[t] = Len(Stamp)
      BY <1>8 DEF StampWritten
    <3>2. PICK n \in {0, 2} : Len(Stamp) = n
      BY <1>0
    <3>3. InHand # 1
      BY <1>3, <3>1, <3>2
    <3> QED BY <3>1, <3>3 DEF HandStays
  <2>2. Finish(t, Len(Stamp)) /\ written' = [written EXCEPT ![t] = 0]
    BY <1>8 DEF StampWritten
  <2>3. CASE Len(Stamp) = 0
    BY <1>6, <2>1, <2>2, <2>3
  <2>4. CASE Len(Stamp) = 2
    BY <1>6, <2>1, <2>2, <2>4
  <2> QED BY <1>0, <2>3, <2>4
<1>9. CASE StampFails(t)
  <2>1. HandStays
    BY <1>0, <1>3, <1>9 DEF StampFails, GiveUp, HandStays
  <2> QED BY <1>6, <1>9, <2>1 DEF StampFails, GiveUp
<1> QED
  BY <1>4, <1>5, <1>7, <1>8, <1>9

LEMMA MainStepKeepsStrings ==
  ASSUME Known, Known', StringInv,
         \A u \in Thread :
           /\ written'[u] = written[u] /\ start'[u] = start[u] /\ upto'[u] = upto[u]
           /\ \/ pc'[u] = pc[u]
              \/ /\ pc[u] # "dequeue"
                 /\ pc'[u] \notin {"lock", "write", "echo", "dequeue"},
         UNCHANGED <<file, reader, got>> \/ Inside(Main),
         HandStays \/ Whole(file, torn, InHand)',
         StampInHand(Main)'
  PROVE  StringInv'
<1>1. Whole(file, torn, InHand)'
  BY HandStaysWhole
<1>2. ASSUME NEW q \in Thread PROVE StampInHand(q)'
  <2>1. q # Main /\ q \in Owner /\ Main \in Owner
    BY OwnerAssumption DEF Owner
  <2>2. written'[q] = written[q] /\ StampInHand(q) /\ (InDequeue(q)' <=> InDequeue(q))
    BY <2>1 DEF InDequeue, StringInv
  <2>3. CASE UNCHANGED <<file, reader, got>>
    BY <2>1, <2>2, <2>3 DEF StampInHand, EndsWithStamp, Stamp
  <2>4. CASE Inside(Main)
    <3>1. ~Inside(q)
      BY <2>1, <2>4, InsideHolds DEF Known
    <3>2. ~InDequeue(q)
      BY <2>1, <3>1 DEF InDequeue, Inside
    <3> QED BY <2>1, <2>2, <3>2 DEF StampInHand
  <2> QED BY <2>3, <2>4
<1>3. \A u \in Thread : WindowEven(u)'
  BY DEF WindowEven, StringInv
<1> QED
  BY <1>1, <1>2, <1>3 DEF StringInv, Owner

LEMMA MainKeepsStrings ==
  ASSUME Known, Known', StringInv, MainThread
  PROVE  StringInv'
<1>0. /\ Main \in Owner /\ Thread \subseteq Owner /\ \A u \in Thread : u # Main
      /\ written \in [Owner -> Nat] /\ pc \in [Thread -> Labels]
      /\ StampInHand(Main) /\ Len(Stamp) \in {0, 2}
  BY OwnerAssumption, Units DEF Known, HeldInv, DataInv, DataTypes, Owner, StringInv
<1>1. CASE Accept \/ Join \/ TryLock
  <2>1. /\ mpc # "dequeue" /\ UNCHANGED <<file, start, upto, written, torn, reader, got>>
    BY <1>1 DEF Accept, Join, TryLock, window, ringVars, consumer
  <2>2. ASSUME NEW u \in Thread
        PROVE  \/ pc'[u] = pc[u]
               \/ pc[u] # "dequeue" /\ pc'[u] \notin {"lock", "write", "echo", "dequeue"}
    <3>1. CASE Accept
      BY <1>0, <3>1 DEF Accept, Goto
    <3>2. CASE Join
      BY <1>0, <3>2 DEF Join
    <3>3. CASE TryLock
      BY <3>3 DEF TryLock, GotoMain
    <3> QED BY <1>1, <3>1, <3>2, <3>3
  <2>3. written[Main] = 0
    BY <1>0, <2>1 DEF StampInHand, InDequeue
  <2>4. StampInHand(Main)'
    BY <1>0, <2>1, <2>3, NothingWritten
  <2>5. HandStays
    <3>1. CASE mutex' = mutex
      BY <2>1, <3>1 DEF HandStays, InHand
    <3>2. CASE mutex = NoOwner
      BY <2>1, <3>2 DEF HandStays, InHand
    <3>3. mutex' = mutex \/ mutex = NoOwner
      BY <1>1 DEF Accept, Join, TryLock, CanLock
    <3> QED BY <3>1, <3>2, <3>3
  <2> QED BY <2>1, <2>2, <2>4, <2>5, MainStepKeepsStrings
<1>2. CASE MainDequeue \/ MainNoStamp \/ MainWrite \/ MainWritten
  <2>1. mpc = "dequeue" /\ Inside(Main) /\ InDequeue(Main)
    BY <1>2 DEF MainDequeue, MainNoStamp, MainWrite, MainWritten, Inside, InDequeue
  <2>2. InHand = written[Main] /\ mutex = Main
    BY <1>0, <2>1, InsideHolds DEF Known
  <2>3. UNCHANGED <<pc, start, upto>>
    BY <1>2 DEF MainDequeue, DequeueStep, fileVars, MainNoStamp, MainWrite, MainWritten,
                MainUnlock, GotoMain, window
  <2>4. CASE MainDequeue
    <3>1. written[Main] = 0
      BY <1>0, <2>4 DEF MainDequeue, StampInHand
    <3>2. StampInHand(Main)' /\ UNCHANGED <<file, mutex, written, torn>>
      BY <1>0, <2>4, <3>1, DequeueHands DEF MainDequeue
    <3>3. HandStays
      BY <3>2 DEF HandStays, InHand
    <3> QED BY <2>1, <2>3, <3>2, <3>3, MainStepKeepsStrings
  <2>5. CASE MainNoStamp
    <3>1. written[Main] = 0 /\ UNCHANGED <<file, written, torn>>
      BY <1>0, <2>5 DEF MainNoStamp, StampInHand
    <3>2. HandStays
      BY <2>2, <3>1 DEF HandStays
    <3>3. StampInHand(Main)'
      BY <1>0, <3>1, NothingWritten
    <3> QED BY <2>1, <2>3, <3>1, <3>2, <3>3, MainStepKeepsStrings
  <2>6. CASE MainWrite
    <3>1. Dump(Main, Stamp) /\ reader = "done" /\ UNCHANGED <<mutex, mpc, torn, got, reader>>
      BY <2>6 DEF MainWrite, ringVars, consumer
    <3>2. /\ Whole(file, torn, InHand)' /\ StampInHand(Main)'
          /\ \A q \in Owner \ {Main} : written'[q] = written[q]
      BY <1>0, <2>1, <2>2, <2>3, <3>1, StampGrows
    <3> QED BY <1>0, <2>1, <2>3, <3>2, MainStepKeepsStrings
  <2>7. CASE MainWritten
    <3>1. written' = [written EXCEPT ![Main] = 0] /\ file' = file
      BY <2>7 DEF MainWritten, GiveUp
    <3>2. HandStays
      <4>1. CASE written[Main] = Len(Stamp)
        <5>1. torn' = torn
          BY <2>7, <4>1 DEF MainWritten
        <5>2. PICK n \in {0, 2} : Len(Stamp) = n
          BY <1>0
        <5>3. InHand # 1
          BY <2>2, <4>1, <5>2
        <5> QED BY <3>1, <5>1, <5>3 DEF HandStays
      <4>2. CASE GiveUp(Main)
        BY <2>2, <3>1, <4>2 DEF GiveUp, HandStays
      <4> QED BY <2>7, <4>1, <4>2 DEF MainWritten
    <3>3. StampInHand(Main)'
      BY <1>0, <3>1, NothingWritten
    <3>4. \A u \in Thread : written'[u] = written[u]
      BY <1>0, <3>1
    <3> QED BY <2>1, <2>3, <3>2, <3>3, <3>4, MainStepKeepsStrings
  <2> QED BY <1>2, <2>4, <2>5, <2>6, <2>7
<1> QED
  BY <1>1, <1>2 DEF MainThread

LEMMA StringStep == Known /\ Known' /\ StringInv /\ [Next]_vars => StringInv'
<1> SUFFICES ASSUME Known, Known', StringInv, [Next]_vars PROVE StringInv'
  OBVIOUS
<1>1. ASSUME NEW t \in Thread, Worker(t) PROVE StringInv'
  BY <1>1, EntersKeepStrings, FailKeepsStrings, WriteKeepsStrings, EchoKeepsStrings,
     DequeueKeepsStrings DEF Worker
<1>2. CASE Tick \/ (Handler /\ UNCHANGED fileVars) \/ UNCHANGED vars
  <2>1. /\ UNCHANGED <<file, mutex, pc, start, upto, written, torn, reader, got>>
        /\ mpc' = "dequeue" <=> mpc = "dequeue"
    <3>1. CASE Tick
      BY <3>1 DEF Tick, Alarm, window, consumer
    <3>2. CASE Handler /\ UNCHANGED fileVars
      BY <3>2 DEF Handler, Store, AdvanceWrite, ClearEmpty, TestFull, SetFull, consumer, fileVars,
                  window
    <3>3. CASE UNCHANGED vars
      BY <3>3 DEF vars, fileVars, window, ringVars, consumer
    <3> QED BY <1>2, <3>1, <3>2, <3>3
  <2>2. Whole(file, torn, InHand)'
    BY <2>1 DEF InHand, StringInv
  <2>3. ASSUME NEW q \in Owner PROVE StampInHand(q)'
    <3>1. /\ StampInHand(q) /\ Stamp' = Stamp /\ (InDequeue(q)' <=> InDequeue(q))
          /\ written'[q] = written[q]
      BY <2>1, <2>3 DEF StringInv, InDequeue, Stamp
    <3>2. EndsWithStamp(q)' <=> EndsWithStamp(q)
      BY <2>1, <3>1 DEF EndsWithStamp
    <3> QED BY <2>1, <3>1, <3>2 DEF StampInHand
  <2>4. \A u \in Thread : WindowEven(u)'
    BY <2>1 DEF StringInv, WindowEven
  <2> QED BY <2>2, <2>3, <2>4 DEF StringInv
<1> QED
  BY <1>1, <1>2, MainKeepsStrings DEF Next

LEMMA StringsHold == Spec => [](Known /\ StringInv)
<1>1. Spec => []Known
  <2>1. Spec => []DataInv
    BY DataInit, DataStep, Held, ServerUsesRing, RingTyped, PTL DEF Spec
  <2> QED BY <2>1, Held, ServerUsesRing, RingTyped, PTL DEF Known
<1> QED
  BY <1>1, StringInit, StringStep, PTL DEF Spec

(* The other half of the unit at place i is beside it. *)
TwinNear(i) ==
  IF file[i][3] = 2
  THEN i > 1 /\ file[i - 1] = [file[i] EXCEPT ![3] = 1]
  ELSE \/ i < Len(file) /\ file[i + 1] = [file[i] EXCEPT ![3] = 2]
       \/ i = Len(file) /\ mutex # NoOwner
       \/ file[i] \in torn

(* In the file nothing comes between the two halves of a timestamp, or of the
   first packet of a connection, whoever else writes and whatever fails:
   dump_content resumes a partial write before the mutex is given up. *)
THEOREM StringsStayWhole == Spec => []StringsWhole
<1>1. ASSUME Known, StringInv PROVE StringsWhole
  <2>0. DOMAIN file = 1 .. Len(file)
    BY <1>1 DEF Known, DataInv, DataTypes
  <2> SUFFICES ASSUME NEW i \in 1 .. Len(file) PROVE TwinNear(i)
    BY <2>0 DEF StringsWhole, TwinNear
  <2>1. file \in Seq(UnitSet) /\ file[i] \in UnitSet
    BY <1>1 DEF Known, DataInv, DataTypes
  <2>2. file[i][3] \in {1, 2}
    BY <2>1 DEF UnitSet
  <2>3. /\ file[i][3] = 2 => i > 1 /\ Halves(file[i - 1], file[i])
        /\ file[i][3] = 1 => \/ i < Len(file) /\ Halves(file[i], file[i + 1])
                             \/ file[i] \in torn
                             \/ i = Len(file) /\ InHand = 1
    BY <1>1 DEF StringInv, Whole
  <2>4. CASE file[i][3] = 2
    <3>1. i > 1 /\ i - 1 \in 1 .. Len(file) /\ Halves(file[i - 1], file[i])
      BY <2>1, <2>3, <2>4
    <3>2. file[i - 1] \in UnitSet
      BY <2>1, <3>1
    <3>3. file[i - 1] = [file[i] EXCEPT ![3] = 1]
      BY <2>1, <3>1, <3>2, OtherHalf
    <3> QED BY <2>4, <3>1, <3>3 DEF TwinNear
  <2>5. CASE file[i][3] = 1
    <3>1. CASE i < Len(file) /\ Halves(file[i], file[i + 1])
      <4>1. i + 1 \in 1 .. Len(file)
        BY <2>1, <3>1
      <4>2. file[i + 1] \in UnitSet
        BY <2>1, <4>1
      <4>3. file[i + 1] = [file[i] EXCEPT ![3] = 2]
        BY <2>1, <3>1, <4>2, OtherHalf
      <4> QED BY <2>5, <3>1, <4>3 DEF TwinNear
    <3>2. InHand = 1 => mutex # NoOwner
      BY DEF InHand
    <3> QED BY <2>3, <2>5, <3>1, <3>2 DEF TwinNear
  <2> QED BY <2>2, <2>4, <2>5
<1> QED
  BY <1>1, StringsHold, PTL

----------------------------------------------------------------------------

(* The ring's pointers stay inside it, and its numbers are those of alarms. *)
RingBounds ==
  /\ alarms \in 0 .. MaxAlarms /\ got \in 0 .. MaxAlarms
  /\ time_buf \in [0 .. CIRCULAR_BUF_DEPTH - 1 -> 0 .. MaxAlarms]
  /\ wptr \in 0 .. CIRCULAR_BUF_DEPTH - 1 /\ rptr \in 0 .. CIRCULAR_BUF_DEPTH - 1
  /\ queue_full \in BOOLEAN /\ queue_empty \in BOOLEAN

LEMMA RingBounded == RingSpec => []RingBounds
<1>0. \A i \in 0 .. CIRCULAR_BUF_DEPTH - 1 : NextPtr(i) \in 0 .. CIRCULAR_BUF_DEPTH - 1
  BY DepthAssumption DEF NextPtr
<1>1. RingInit => RingBounds
  BY DepthAssumption, AlarmsAssumption DEF RingInit, RingBounds
<1>2. RingBounds /\ [RingNext]_ringVars => RingBounds'
  <2> SUFFICES ASSUME RingBounds, [RingNext]_ringVars PROVE RingBounds'
    OBVIOUS
  <2> USE DEF RingBounds, flags, producer, consumer
  <2>1. CASE Alarm \/ UNCHANGED ringVars
    <3>1. CASE Alarm
      <4>1. alarms' = alarms + 1 /\ alarms < MaxAlarms
            /\ UNCHANGED <<got, time_buf, wptr, rptr, queue_full, queue_empty>>
        BY <3>1 DEF Alarm
      <4> QED BY <4>1, AlarmsAssumption
    <3>2. CASE UNCHANGED ringVars
      BY <3>2 DEF ringVars
    <3> QED BY <2>1, <3>1, <3>2
  <2>2. CASE Store \/ TestFull
    BY <2>2 DEF Store, TestFull
  <2>3. CASE AdvanceWrite
    BY <1>0, <2>3 DEF AdvanceWrite
  <2>4. CASE ClearEmpty \/ SetFull
    BY <2>4 DEF ClearEmpty, SetFull
  <2>5. CASE BeginDequeue \/ EndDequeue \/ TestEmpty
    BY <2>5, AlarmsAssumption DEF BeginDequeue, EndDequeue, TestEmpty
  <2>6. CASE Copy
    BY <2>6 DEF Copy
  <2>7. CASE AdvanceRead
    BY <1>0, <2>7 DEF AdvanceRead
  <2>8. CASE ClearFull \/ SetEmpty
    BY <2>8 DEF ClearFull, SetEmpty
  <2> QED BY <2>1, <2>2, <2>3, <2>4, <2>5, <2>6, <2>7, <2>8 DEF RingNext, Dequeuing, Handler
<1> QED
  BY <1>1, <1>2, PTL DEF RingSpec

----------------------------------------------------------------------------
(* What a thread has received is within what its client sends, and the stamps
   added to its window are one at most. *)
WindowBounds(t) ==
  /\ len[t] + nread[t] <= MaxBytes /\ upto[t] <= MaxBytes /\ start[t] <= MaxBytes + 2
  /\ Len(sent[t]) <= Len(file)
  /\ pc[t] \in {"none", "recv"} => nread[t] = 0

Bounds ==
  /\ \A t \in Thread : WindowBounds(t)
  /\ \A p \in Owner : written[p] <= MaxBytes + 2

LEMMA BoundsInit == Init => Bounds
<1> SUFFICES ASSUME Init PROVE Bounds
  OBVIOUS
<1>1. /\ len = [t \in Thread |-> 0] /\ nread = [t \in Thread |-> 0]
      /\ upto = [t \in Thread |-> 0] /\ start = [t \in Thread |-> 0]
      /\ written = [p \in Owner |-> 0] /\ sent = [t \in Thread |-> <<>>] /\ file = <<>>
      /\ pc = [t \in Thread |-> "none"] /\ MaxBytes \in Nat
  BY BytesAssumption DEF Init, Owner
<1>2. \A t \in Thread : WindowBounds(t)
  BY <1>1 DEF WindowBounds
<1>3. \A p \in Owner : written[p] <= MaxBytes + 2
  BY <1>1
<1> QED
  BY <1>1, <1>2, <1>3 DEF Bounds

(* Only a write makes a string in hand longer, up to its end. *)
LEMMA DumpBounded ==
  ASSUME Known, Bounds, NEW p \in Owner, NEW s \in Seq(UnitSet), Dump(p, s),
         Len(s) <= MaxBytes + 2
  PROVE  /\ Len(file) <= Len(file')
         /\ \A q \in Owner : written'[q] <= MaxBytes + 2
<1>1. /\ file \in Seq(UnitSet) /\ written \in [Owner -> Nat] /\ MaxBytes \in Nat
  BY BytesAssumption DEF Known, DataInv, DataTypes
<1>2. /\ written' = [written EXCEPT ![p] = written'[p]]
      /\ written'[p] \in written[p] + 1 .. Len(s)
      /\ file' \in Seq(UnitSet) /\ Len(file') = Len(file) + (written'[p] - written[p])
  BY <1>1, DumpAppends
<1>3. written'[p] <= MaxBytes + 2
  BY <1>1, <1>2
<1> QED
  BY <1>1, <1>2, <1>3 DEF Bounds

(* A thread's window is its own. *)
LEMMA OwnWindow ==
  ASSUME Known, Known', Bounds, NEW u \in Thread,
         len'[u] = len[u], nread'[u] = nread[u], start'[u] = start[u], upto'[u] = upto[u],
         sent'[u] = sent[u], Len(file) <= Len(file'),
         pc'[u] \in {"none", "recv"} => pc[u] \in {"none", "recv"}
  PROVE  WindowBounds(u)'
<1>1. Len(sent[u]) \in Nat /\ Len(file) \in Nat /\ Len(file') \in Nat
  BY DEF Known, DataInv, DataTypes
<1> QED
  BY <1>1 DEF WindowBounds, Bounds

LEMMA WorkerKeepsBounds ==
  ASSUME Known, Known', Bounds, NEW t \in Thread,
         \A u \in Thread \ {t} :
           /\ len'[u] = len[u] /\ nread'[u] = nread[u] /\ start'[u] = start[u]
           /\ upto'[u] = upto[u] /\ sent'[u] = sent[u] /\ pc'[u] = pc[u],
         Len(file) <= Len(file'), WindowBounds(t)',
         \A p \in Owner : written'[p] <= MaxBytes + 2
  PROVE  Bounds'
<1>1. \A u \in Thread \ {t} : WindowBounds(u)'
  BY OwnWindow
<1> QED
  BY <1>1 DEF Bounds

LEMMA ReceiveKeepsBounds ==
  ASSUME Known, Known', StringInv, Bounds, NEW t \in Thread, Receive(t)
  PROVE  Bounds'
<1>0. /\ pc \in [Thread -> Labels] /\ DataTypes /\ DataTypes' /\ WindowBounds(t) /\ WindowEven(t)
      /\ MaxBytes \in Nat
  BY BytesAssumption DEF Known, HeldInv, DataInv, Bounds, StringInv
<1>1. PICK k \in 1 .. UnitsPerString :
        /\ len[t] + k <= MaxBytes
        /\ \/ len' = [len EXCEPT ![t] = @ + k] /\ UNCHANGED <<nread, upto, pc>>
           \/ /\ Newline(t, k) # {}
              /\ nread' = [nread EXCEPT ![t] = k]
              /\ upto' = [upto EXCEPT ![t] = CHOOSE i \in Newline(t, k) :
                                               \A j \in Newline(t, k) : i <= j]
              /\ pc' = [pc EXCEPT ![t] = "lock"]
              /\ UNCHANGED len
  BY DEF Receive, Goto
<1>2. /\ pc[t] = "recv" /\ UNCHANGED <<file, start, written, sent>> /\ k \in Nat
  BY <1>1 DEF Receive, UnitsPerString
<1>3. /\ len \in [Thread -> Nat] /\ nread \in [Thread -> Nat] /\ upto \in [Thread -> Nat]
      /\ start[t] \in {0, 2, 4} /\ nread[t] = 0
  BY <1>0, <1>2 DEF DataTypes, WindowEven, WindowBounds
<1>6. Len(file) <= Len(file') /\ \A p \in Owner : written'[p] <= MaxBytes + 2
  BY <1>0, <1>2 DEF Bounds, DataTypes
<1>4. CASE len' = [len EXCEPT ![t] = @ + k] /\ UNCHANGED <<nread, upto, pc>>
  <2>1. WindowBounds(t)'
    BY <1>0, <1>1, <1>2, <1>3, <1>4 DEF WindowBounds
  <2>2. \A u \in Thread \ {t} :
          /\ len'[u] = len[u] /\ nread'[u] = nread[u] /\ start'[u] = start[u]
          /\ upto'[u] = upto[u] /\ sent'[u] = sent[u] /\ pc'[u] = pc[u]
    BY <1>2, <1>3, <1>4
  <2> QED BY <1>6, <2>1, <2>2, WorkerKeepsBounds
<1>5. CASE /\ Newline(t, k) # {}
           /\ nread' = [nread EXCEPT ![t] = k]
           /\ upto' = [upto EXCEPT ![t] = CHOOSE i \in Newline(t, k) :
                                            \A j \in Newline(t, k) : i <= j]
           /\ pc' = [pc EXCEPT ![t] = "lock"]
           /\ UNCHANGED len
  <2>1. (CHOOSE i \in Newline(t, k) : \A j \in Newline(t, k) : i <= j) = 2
    BY <1>0, <1>2, <1>3, <1>5, NewlineIsTwo
  <2>2. upto' = [upto EXCEPT ![t] = 2]
    BY <1>5, <2>1
  <2>3. 2 <= MaxBytes
    <3>1. PICK e \in Newline(t, k) : TRUE
      BY <1>5
    <3>2. len[t] \in Nat /\ e \in Nat /\ e >= 1 /\ e <= (len[t] - start[t]) + k
          /\ (start[t] + e) % 2 = 0
      BY <1>2, <1>3, <3>1 DEF Newline, UnitsPerString
    <3>3. e # 1
      BY <1>3, <3>2
    <3> QED BY <1>0, <1>1, <1>2, <1>3, <3>2, <3>3
  <2>4. WindowBounds(t)'
    BY <1>0, <1>1, <1>2, <1>3, <1>5, <2>2, <2>3 DEF WindowBounds
  <2>5. \A u \in Thread \ {t} :
          /\ len'[u] = len[u] /\ nread'[u] = nread[u] /\ start'[u] = start[u]
          /\ upto'[u] = upto[u] /\ sent'[u] = sent[u] /\ pc'[u] = pc[u]
    BY <1>0, <1>2, <1>3, <1>5, <2>2
  <2> QED BY <1>6, <2>4, <2>5, WorkerKeepsBounds
<1> QED
  BY <1>1, <1>4, <1>5

(* A string that is given up is not in hand any more. *)
LEMMA HandsBounded ==
  ASSUME Known, Bounds, NEW t \in Owner,
         written' = written \/ written' = [written EXCEPT ![t] = 0]
  PROVE  \A p \in Owner : written'[p] <= MaxBytes + 2
<1>1. written \in [Owner -> Nat] /\ 0 <= MaxBytes + 2
  BY BytesAssumption DEF Known, DataInv, DataTypes
<1>2. CASE written' = written
  BY <1>2 DEF Bounds
<1>3. CASE written' = [written EXCEPT ![t] = 0]
  BY <1>1, <1>3 DEF Bounds
<1> QED
  BY <1>2, <1>3

(* A thread that returns has no window any more. *)
LEMMA ReturnKeepsBounds ==
  ASSUME Known, Known', Bounds, NEW t \in Thread, Leave(t) \/ WriteFails(t) \/ EchoFails(t)
  PROVE  Bounds'
<1>0. /\ pc \in [Thread -> Labels] /\ DataTypes /\ DataTypes' /\ WindowBounds(t)
      /\ t \in Owner /\ MaxBytes \in Nat
  BY BytesAssumption DEF Known, HeldInv, DataInv, Bounds, Owner
<1>1. /\ len' = [len EXCEPT ![t] = 0] /\ nread' = [nread EXCEPT ![t] = 0]
      /\ start' = [start EXCEPT ![t] = 0] /\ upto' = [upto EXCEPT ![t] = 0]
      /\ pc' = [pc EXCEPT ![t] = "completed"] /\ file' = file
      /\ sent' = sent \/ sent' = [sent EXCEPT ![t] = <<>>]
      /\ written' = written \/ written' = [written EXCEPT ![t] = 0]
  BY DEF Leave, WriteFails, EchoFails, GiveUp, Fail, Return, Goto
<1>2. Len(file) \in Nat /\ Len(file') \in Nat /\ Len(file) <= Len(file')
  BY <1>0, <1>1 DEF DataTypes
<1>3. /\ len'[t] = 0 /\ nread'[t] = 0 /\ start'[t] = 0 /\ upto'[t] = 0
      /\ pc'[t] = "completed"
  BY <1>0, <1>1 DEF DataTypes
<1>4. Len(sent'[t]) <= Len(file')
  <2>1. CASE sent' = sent
    BY <1>0, <1>1, <2>1 DEF WindowBounds
  <2>2. CASE sent' = [sent EXCEPT ![t] = <<>>]
    BY <1>0, <1>2, <2>2 DEF DataTypes
  <2> QED BY <1>1, <2>1, <2>2
<1>5. WindowBounds(t)'
  BY <1>0, <1>3, <1>4 DEF WindowBounds
<1>6. \A u \in Thread \ {t} :
        /\ len'[u] = len[u] /\ nread'[u] = nread[u] /\ start'[u] = start[u]
        /\ upto'[u] = upto[u] /\ sent'[u] = sent[u] /\ pc'[u] = pc[u]
  BY <1>0, <1>1 DEF DataTypes
<1>7. \A p \in Owner : written'[p] <= MaxBytes + 2
  BY <1>0, <1>1, HandsBounded
<1> QED
  BY <1>2, <1>5, <1>6, <1>7, WorkerKeepsBounds

LEMMA EchoKeepsBounds ==
  ASSUME Known, Known', Bounds, NEW t \in Thread, Lock(t) \/ Echo(t)
  PROVE  Bounds'
<1>0. /\ pc \in [Thread -> Labels] /\ DataTypes /\ DataTypes' /\ WindowBounds(t)
      /\ t \in Owner /\ MaxBytes \in Nat /\ Progress(t)'
  BY BytesAssumption DEF Known, HeldInv, DataInv, Bounds, Owner
<1>1. /\ UNCHANGED <<file, len, nread, start, upto>> /\ pc[t] \in {"lock", "echo"}
      /\ \E l \in Labels \ {"none", "recv"} : pc' = [pc EXCEPT ![t] = l]
      /\ sent' = sent \/ \E s : sent' = [sent EXCEPT ![t] = s]
      /\ written' = written \/ written' = [written EXCEPT ![t] = 0]
  <2>1. CASE Lock(t)
    BY <2>1 DEF Lock, Goto, window, Labels
  <2>2. CASE Echo(t)
    <3>1. UNCHANGED <<file, len, nread, start, upto>> /\ pc[t] = "echo"
      BY <2>2 DEF Echo, window
    <3>2. CASE UNCHANGED <<pc, written>> /\ sent' = [sent EXCEPT ![t] = @ \o Piece(t)]
      <4>1. pc' = [pc EXCEPT ![t] = "echo"]
        BY <1>0, <3>1, <3>2
      <4> QED BY <3>1, <3>2, <4>1 DEF Labels
    <3>3. CASE /\ pc' = [pc EXCEPT ![t] = "dequeue"] /\ written' = [written EXCEPT ![t] = 0]
               /\ UNCHANGED sent
      BY <3>1, <3>3 DEF Labels
    <3> QED BY <2>2, <3>2, <3>3 DEF Echo, Goto
  <2> QED BY <2>1, <2>2
<1>2. Len(file) \in Nat /\ Len(file') \in Nat /\ Len(file) <= Len(file')
  BY <1>0, <1>1 DEF DataTypes
<1>3. Len(sent'[t]) <= Len(file')
  <2>1. CASE sent' = sent
    BY <1>0, <1>1, <2>1 DEF WindowBounds
  <2>2. CASE sent' # sent
    <3>1. pc'[t] = "echo"
      BY <1>0, <2>2 DEF Lock, Echo
    <3> QED BY <1>0, <3>1 DEF Progress, EchoedPrefix
  <2> QED BY <2>1, <2>2
<1>4. pc'[t] \notin {"none", "recv"}
  BY <1>0, <1>1
<1>5. WindowBounds(t)'
  BY <1>0, <1>1, <1>3, <1>4 DEF WindowBounds
<1>6. \A u \in Thread \ {t} :
        /\ len'[u] = len[u] /\ nread'[u] = nread[u] /\ start'[u] = start[u]
        /\ upto'[u] = upto[u] /\ sent'[u] = sent[u] /\ pc'[u] = pc[u]
  BY <1>0, <1>1 DEF DataTypes
<1>7. \A p \in Owner : written'[p] <= MaxBytes + 2
  BY <1>0, <1>1, HandsBounded
<1> QED
  BY <1>2, <1>5, <1>6, <1>7, WorkerKeepsBounds

LEMMA WriteKeepsBounds ==
  ASSUME Known, Known', StringInv, Bounds, NEW t \in Thread, WritePacket(t)
  PROVE  Bounds'
<1>0. /\ pc \in [Thread -> Labels] /\ DataTypes /\ WindowBounds(t)
      /\ t \in Owner /\ MaxBytes \in Nat /\ WindowEven(t)
  BY BytesAssumption DEF Known, HeldInv, DataInv, Bounds, Owner, StringInv
<1>1. /\ UNCHANGED <<len, nread, start, upto, sent>> /\ Dump(t, Packet(t)) /\ pc[t] = "write"
      /\ pc' = [pc EXCEPT ![t] = "echo"] \/ pc' = pc
  BY DEF WritePacket, Goto, window
<1>2. upto[t] = 2
  BY <1>0, <1>1 DEF WindowEven
<1>3. Packet(t) \in Seq(UnitSet) /\ Len(Packet(t)) = 2
  BY <1>0, <1>2, PacketHalves
<1>4. Len(file) <= Len(file') /\ \A p \in Owner : written'[p] <= MaxBytes + 2
  <2>1. Len(Packet(t)) <= MaxBytes + 2
    BY <1>0, <1>3
  <2> QED BY <1>0, <1>1, <1>3, <2>1, DumpBounded
<1>5. \A u \in Thread : pc'[u] \in {"none", "recv"} => pc[u] \in {"none", "recv"}
  BY <1>0, <1>1
<1>6. \A u \in Thread : WindowBounds(u)'
  BY <1>1, <1>4, <1>5, OwnWindow
<1> QED
  BY <1>4, <1>6 DEF Bounds

LEMMA DequeueKeepsBounds ==
  ASSUME Known, Known', StringInv, Bounds, NEW t \in Thread,
         Dequeue(t) \/ NoStamp(t) \/ WriteStamp(t) \/ StampWritten(t) \/ StampFails(t)
  PROVE  Bounds'
<1>0. /\ pc \in [Thread -> Labels] /\ DataTypes /\ DataTypes' /\ WindowBounds(t)
      /\ t \in Owner /\ MaxBytes \in Nat
      /\ Stamp \in Seq(UnitSet) /\ Len(Stamp) \in {0, 2}
  BY BytesAssumption, Units DEF Known, HeldInv, DataInv, Bounds, Owner
<1>1. CASE Dequeue(t)
  <2>1. UNCHANGED <<file, len, nread, start, upto, sent, pc, written>>
    BY <1>1 DEF Dequeue, DequeueStep, fileVars, window
  <2>2. Len(file) <= Len(file')
    BY <1>0, <2>1 DEF DataTypes
  <2>3. \A u \in Thread : WindowBounds(u)'
    BY <2>1, <2>2, OwnWindow
  <2> QED BY <2>1, <2>3 DEF Bounds
<1>2. CASE WriteStamp(t)
  <2>1. UNCHANGED <<len, nread, start, upto, sent, pc>> /\ Dump(t, Stamp)
    BY <1>2 DEF WriteStamp, window
  <2>2. Len(file) <= Len(file') /\ \A p \in Owner : written'[p] <= MaxBytes + 2
    <3>0. PICK n \in {0, 2} : Len(Stamp) = n
      BY <1>0
    <3>1. Len(Stamp) <= MaxBytes + 2
      BY <1>0, <3>0
    <3> QED BY <1>0, <2>1, <3>1, DumpBounded
  <2>3. \A u \in Thread : WindowBounds(u)'
    BY <2>1, <2>2, OwnWindow
  <2> QED BY <2>2, <2>3 DEF Bounds
<1>3. ASSUME NEW stamp \in {0, 2}, Finish(t, stamp), file' = file,
             written' = written \/ written' = [written EXCEPT ![t] = 0]
      PROVE  Bounds'
  <2>1. /\ start' = [start EXCEPT ![t] = upto[t] + stamp]
        /\ len' = [len EXCEPT ![t] = @ + nread[t]] /\ sent' = [sent EXCEPT ![t] = <<>>]
        /\ pc' = [pc EXCEPT ![t] = "recv"]
        /\ nread' = [nread EXCEPT ![t] = 0] /\ upto' = [upto EXCEPT ![t] = 0]
    BY <1>3 DEF Finish, Goto
  <2>2. Len(file) \in Nat /\ Len(file') \in Nat /\ Len(file) <= Len(file')
    BY <1>0, <1>3 DEF DataTypes
  <2>3. /\ start'[t] = upto[t] + stamp /\ len'[t] = len[t] + nread[t] /\ nread'[t] = 0
        /\ upto'[t] = 0 /\ len[t] \in Nat /\ nread[t] \in Nat /\ upto[t] \in Nat
    BY <1>0, <2>1 DEF DataTypes
  <2>4. Len(sent'[t]) = 0
    BY <1>0, <2>1 DEF DataTypes
  <2>5. WindowBounds(t)'
    BY <1>0, <2>2, <2>3, <2>4 DEF WindowBounds
  <2>6. \A u \in Thread \ {t} :
          /\ len'[u] = len[u] /\ nread'[u] = nread[u] /\ start'[u] = start[u]
          /\ upto'[u] = upto[u] /\ sent'[u] = sent[u] /\ pc'[u] = pc[u]
    BY <1>0, <2>1 DEF DataTypes
  <2>7. \A p \in Owner : written'[p] <= MaxBytes + 2
    BY <1>0, <1>3, HandsBounded
  <2> QED BY <2>2, <2>5, <2>6, <2>7, WorkerKeepsBounds
<1>4. CASE NoStamp(t)
  BY <1>3, <1>4 DEF NoStamp
<1>5. CASE StampWritten(t)
  <2>1. Finish(t, Len(Stamp)) /\ file' = file /\ written' = [written EXCEPT ![t] = 0]
    BY <1>5 DEF StampWritten
  <2>2. CASE Len(Stamp) = 0
    BY <1>3, <2>1, <2>2
  <2>3. CASE Len(Stamp) = 2
    BY <1>3, <2>1, <2>3
  <2> QED BY <1>0, <2>2, <2>3
<1>6. CASE StampFails(t)
  BY <1>3, <1>6 DEF StampFails, GiveUp
<1> QED
  BY <1>1, <1>2, <1>4, <1>5, <1>6

(* Main takes threads in and out, and writes timestamps. *)
LEMMA MainKeepsBounds ==
  ASSUME Known, Known', Bounds, MainThread
  PROVE  Bounds'
<1>0. /\ Main \in Owner /\ pc \in [Thread -> Labels] /\ DataTypes /\ DataTypes' /\ MaxBytes \in Nat
      /\ Stamp \in Seq(UnitSet) /\ Len(Stamp) \in {0, 2}
  BY BytesAssumption, Units DEF Known, HeldInv, DataInv, Owner
<1>1. UNCHANGED <<len, nread, start, upto, sent>>
  BY DEF MainThread, Accept, Join, TryLock, MainDequeue, DequeueStep, fileVars, MainNoStamp,
         MainWrite, MainWritten, window
<1>2. ASSUME NEW u \in Thread, pc'[u] \in {"none", "recv"} PROVE pc[u] \in {"none", "recv"}
  <2>1. CASE Accept
    BY <1>0, <1>2, <2>1 DEF Accept, Goto
  <2>2. CASE Join
    BY <1>0, <1>2, <2>2 DEF Join
  <2>3. CASE TryLock \/ MainDequeue \/ MainNoStamp \/ MainWrite \/ MainWritten
    <3>1. pc' = pc
      BY <2>3 DEF TryLock, MainDequeue, DequeueStep, fileVars, MainNoStamp, MainWrite, MainWritten,
                  MainUnlock, GotoMain
    <3> QED BY <1>2, <3>1
  <2> QED BY <2>1, <2>2, <2>3 DEF MainThread
<1>3. Len(file) <= Len(file') /\ \A p \in Owner : written'[p] <= MaxBytes + 2
  <2>1. CASE MainWrite
    <3>0. PICK n \in {0, 2} : Len(Stamp) = n
      BY <1>0
    <3>1. Len(Stamp) <= MaxBytes + 2
      BY <1>0, <3>0
    <3> QED BY <1>0, <2>1, <3>1, DumpBounded DEF MainWrite
  <2>2. CASE ~MainWrite
    <3>1. file' = file
      BY <2>2 DEF MainThread, Accept, Join, TryLock, MainDequeue, DequeueStep, fileVars,
                  MainNoStamp, MainWritten
    <3>2. written' = written \/ written' = [written EXCEPT ![Main] = 0]
      BY <2>2 DEF MainThread, Accept, Join, TryLock, MainDequeue, DequeueStep, fileVars,
                  MainNoStamp, MainWritten, GiveUp
    <3>3. \A p \in Owner : written'[p] <= MaxBytes + 2
      BY <1>0, <3>2, HandsBounded
    <3> QED BY <1>0, <3>1, <3>3 DEF DataTypes
  <2> QED BY <2>1, <2>2
<1>4. \A u \in Thread : WindowBounds(u)'
  BY <1>1, <1>2, <1>3, OwnWindow
<1> QED
  BY <1>3, <1>4 DEF Bounds

LEMMA BoundsStep ==
  ASSUME Known, Known', StringInv, Bounds, [Next]_vars
  PROVE  Bounds'
<1>1. ASSUME NEW t \in Thread, Worker(t) PROVE Bounds'
  BY <1>1, ReceiveKeepsBounds, ReturnKeepsBounds, EchoKeepsBounds, WriteKeepsBounds,
     DequeueKeepsBounds DEF Worker
<1>2. CASE Tick \/ (Handler /\ UNCHANGED fileVars) \/ UNCHANGED vars
  <2>1. UNCHANGED <<file, pc, len, nread, start, upto, sent, written>>
    BY <1>2 DEF Tick, fileVars, window, vars
  <2>2. Len(file) <= Len(file')
    BY <2>1 DEF Known, DataInv, DataTypes
  <2>3. \A u \in Thread : WindowBounds(u)'
    BY <2>1, <2>2, OwnWindow
  <2> QED BY <2>1, <2>3 DEF Bounds
<1> QED
  BY <1>1, <1>2, MainKeepsBounds DEF Next

RacedFlag == raced \in BOOLEAN

(* Every variable stays in its range, for any number of threads and alarms. *)
THEOREM TypeCorrect == Spec => []TypeOK
<1>1. Known /\ StringInv /\ Bounds /\ [Next]_vars /\ Known' => Bounds'
  BY BoundsStep
<1>2. Init => raced \in BOOLEAN
  BY DEF Init
<1>3. raced \in BOOLEAN /\ [Next]_vars => raced' \in BOOLEAN
  <2>1. CASE UNCHANGED vars
    BY <2>1 DEF vars
  <2>2. CASE Next
    BY <2>2, Zenon DEF Next
  <2> QED BY <2>1, <2>2
<1>4. ASSUME Known, RingBounds, Bounds, raced \in BOOLEAN PROVE TypeOK
  <2>1. /\ DataTypes /\ HeldInv /\ MaxBytes \in Nat
        /\ \A t \in Thread : WindowBounds(t)
    BY <1>4, BytesAssumption DEF Known, DataInv, Bounds
  <2>2. file \in Seq((Thread \cup {"timestamp"}) \X Nat \X {1, 2})
    BY <2>1 DEF DataTypes, UnitSet
  <2>3. /\ mutex \in Owner \cup {NoOwner} /\ mpc \in {"accept", "join", "trylock", "dequeue"}
        /\ pc \in [Thread -> {"none", "recv", "lock", "write", "echo", "dequeue", "completed",
                              "joined"}]
    BY <2>1 DEF HeldInv, Labels
  <2>4. {len, nread, start, upto} \subseteq [Thread -> 0 .. MaxBytes + UnitsPerString]
    <3>1. ASSUME NEW t \in Thread
          PROVE  /\ len[t] \in 0 .. MaxBytes + 2 /\ nread[t] \in 0 .. MaxBytes + 2
                 /\ start[t] \in 0 .. MaxBytes + 2 /\ upto[t] \in 0 .. MaxBytes + 2
      BY <2>1 DEF WindowBounds, DataTypes
    <3> QED BY <2>1, <3>1 DEF DataTypes, UnitsPerString
  <2>5. written \in [Owner -> 0 .. MaxBytes + UnitsPerString]
    <3>1. \A p \in Owner : written[p] \in 0 .. MaxBytes + 2
      BY <1>4, <2>1 DEF Bounds, DataTypes
    <3> QED BY <2>1, <3>1 DEF DataTypes, UnitsPerString
  <2>6. \A t \in Thread : Len(sent[t]) <= Len(file)
    BY <2>1 DEF WindowBounds
  <2>7. /\ time_buf \in [0 .. CIRCULAR_BUF_DEPTH - 1 -> 0 .. MaxAlarms]
        /\ {wptr, rptr} \subseteq 0 .. CIRCULAR_BUF_DEPTH - 1
        /\ {queue_full, queue_empty, raced} \subseteq BOOLEAN
        /\ got \in 0 .. MaxAlarms
    BY <1>4 DEF RingBounds
  <2> QED BY <2>2, <2>3, <2>4, <2>5, <2>6, <2>7 DEF TypeOK
<1>5. Known /\ RingBounds /\ Bounds /\ raced \in BOOLEAN => TypeOK
  BY <1>4
<1>6. Spec => []RacedFlag
  <2>1. Init => RacedFlag
    BY <1>2 DEF RacedFlag
  <2>2. RacedFlag /\ [Next]_vars => RacedFlag'
    BY <1>3 DEF RacedFlag
  <2> QED BY <2>1, <2>2, PTL DEF Spec
<1>7. Spec => []Bounds
  BY <1>1, BoundsInit, StringsHold, PTL DEF Spec
<1>8. Known /\ RingBounds /\ Bounds /\ RacedFlag => TypeOK
  BY <1>5 DEF RacedFlag
<1> QED
  BY <1>6, <1>7, <1>8, StringsHold, ServerUsesRing, RingBounded, PTL
=============================================================================
