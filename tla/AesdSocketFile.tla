--------------------------- MODULE AesdSocketFile ---------------------------
(***************************************************************************)
(* server/aesdsocket.c, built without USE_AESD_CHAR_DEVICE: the connection *)
(* threads (server_thread) and the main thread share the file, under a     *)
(* mutex, and the TimestampRing, under none.  SIGALRM is handled on the    *)
(* main thread, which does nothing else meanwhile; the connection threads  *)
(* go on.                                                                  *)
(*                                                                         *)
(* A thread of server_thread keeps its buffer as AesdSocketWorker does;    *)
(* what is left of it here is the window.  The walk that joins threads is  *)
(* AesdSocketMain; here it is one step.  A packet or a timestamp is two    *)
(* units <<who, number, 1 or 2>>: a write may stop between them.           *)
(***************************************************************************)
EXTENDS TimestampRing, FiniteSets

CONSTANTS
  Thread, Main, NoOwner,
  BUF_SIZE_UNIT,  (* units read from the file at once; 1024 bytes in the code *)
  MaxBytes        (* bound: units a client sends                            *)

ASSUME OwnerAssumption == Main \notin Thread /\ NoOwner \notin Thread \cup {Main}
ASSUME BytesAssumption == MaxBytes \in Nat /\ BUF_SIZE_UNIT \in Nat \ {0}

VARIABLES
  file,      (* /var/tmp/aesdsocketdata                                     *)
  mutex,     (* socket_state.mutex                                          *)
  pc,        (* where each thread is                                        *)
  len, nread, start, upto,   (* buf_len, num_bytes_read, start_ptr,         *)
                             (* bytes_written_until_newline of each thread  *)
  written,   (* dump_content: units written of the current string           *)
  sent,      (* echo_file_socket: what the client got for this packet       *)
  mpc,       (* where main is                                               *)
  torn,      (* auxiliary: units after which a write failed                 *)
  raced      (* auxiliary: has a thread dequeued while an alarm was handled?*)

window == <<len, nread, start, upto>>
fileVars == <<file, mutex, pc, window, written, sent, mpc, torn>>
vars == <<fileVars, ringVars, raced>>

UnitsPerString == 2

Init ==
  /\ RingInit
  /\ file = <<>> /\ mutex = NoOwner
  /\ pc = [t \in Thread |-> "none"]
  /\ len = [t \in Thread |-> 0] /\ nread = len /\ start = len /\ upto = len
  /\ written = [p \in Thread \cup {Main} |-> 0]
  /\ sent = [t \in Thread |-> <<>>]
  /\ mpc = "accept"
  /\ torn = {} /\ raced = FALSE

Goto(t, l) == pc' = [pc EXCEPT ![t] = l]

(* The units of the timestamp in got, none if the slot was empty. *)
Stamp == [i \in 1 .. (IF got = 0 THEN 0 ELSE UnitsPerString) |-> <<"timestamp", got, i>>]

(* Unit i of what client t sends. *)
Unit(t, i) == <<t, (i + 1) \div UnitsPerString, IF i % UnitsPerString = 0 THEN 2 ELSE 1>>

Packet(t) == [i \in 1 .. upto[t] |-> Unit(t, start[t] + i)]

(* dump_content: where the rest of the string begins. *)
RestFromStart(p) == 0

Rest(p) == written[p]

(* dump_content on behalf of p: one write, which takes some of the rest. *)
Dump(p, string) ==
  \E k \in 1 .. Len(string) - written[p] :
    /\ file' = file \o SubSeq(string, Rest(p) + 1, Rest(p) + k)
    /\ written' = [written EXCEPT ![p] = @ + k]

(* dump_content gives up; what it had written stays. *)
GiveUp(p) ==
  /\ torn' = IF written[p] > 0 THEN torn \cup {file[Len(file)]} ELSE torn
  /\ written' = [written EXCEPT ![p] = 0]

----------------------------------------------------------------------------
(* recv, and the search for a newline in the window. *)
Newline(t, seen) ==
  {i \in 1 .. (len[t] - start[t]) + seen : (start[t] + i) % UnitsPerString = 0}

Receive(t) ==
  /\ pc[t] = "recv"
  /\ \E k \in 1 .. UnitsPerString :
       /\ len[t] + k <= MaxBytes
       /\ LET ends == Newline(t, k)
          IN  IF ends = {}
              THEN len' = [len EXCEPT ![t] = @ + k] /\ UNCHANGED <<nread, upto, pc>>
              ELSE /\ nread' = [nread EXCEPT ![t] = k]
                   /\ upto' = [upto EXCEPT ![t] = CHOOSE i \in ends : \A j \in ends : i <= j]
                   /\ Goto(t, "lock")
                   /\ UNCHANGED len
  /\ UNCHANGED <<file, mutex, start, written, sent, mpc, torn, ringVars>>

(* The thread returns, and its variables are gone. *)
Return(t) ==
  /\ Goto(t, "completed")
  /\ len' = [len EXCEPT ![t] = 0] /\ nread' = [nread EXCEPT ![t] = 0]
  /\ start' = [start EXCEPT ![t] = 0] /\ upto' = [upto EXCEPT ![t] = 0]

(* The client has closed, or recv or an allocation fails. *)
Leave(t) ==
  /\ pc[t] = "recv"
  /\ Return(t)
  /\ UNCHANGED <<file, mutex, written, sent, mpc, torn, ringVars>>

(* pthread_mutex_lock *)
CanLockAlways == TRUE

CanLock == mutex = NoOwner

Lock(t) ==
  /\ pc[t] = "lock" /\ CanLock
  /\ mutex' = t
  /\ Goto(t, "write")
  /\ UNCHANGED <<file, window, written, sent, mpc, torn, ringVars>>

(* unlock_mutex and the labels after it. *)
Fail(t) ==
  /\ mutex' = NoOwner
  /\ Return(t)
  /\ sent' = [sent EXCEPT ![t] = <<>>]
  /\ UNCHANGED <<file, mpc, ringVars>>

(* open or the first write fails, or a later one. *)
WriteFails(t) == pc[t] = "write" /\ GiveUp(t) /\ Fail(t)

WritePacket(t) ==
  /\ pc[t] = "write"
  /\ Dump(t, Packet(t))
  /\ IF written'[t] = upto[t] THEN Goto(t, "echo") ELSE UNCHANGED pc
  /\ UNCHANGED <<mutex, window, sent, mpc, torn, ringVars>>

(* One read of the file, as much as fits BUF_SIZE_UNIT, and its sends. *)
Piece(t) == SubSeq(file, Len(sent[t]) + 1,
                   IF Len(file) - Len(sent[t]) < BUF_SIZE_UNIT THEN Len(file)
                   ELSE Len(sent[t]) + BUF_SIZE_UNIT)

Echo(t) ==
  /\ pc[t] = "echo"
  /\ IF Len(sent[t]) < Len(file)
     THEN sent' = [sent EXCEPT ![t] = @ \o Piece(t)] /\ UNCHANGED <<pc, written>>
     ELSE Goto(t, "dequeue") /\ written' = [written EXCEPT ![t] = 0] /\ UNCHANGED sent
  /\ UNCHANGED <<file, mutex, window, mpc, torn, ringVars>>

EchoFails(t) ==
  /\ pc[t] = "echo"
  /\ written' = [written EXCEPT ![t] = 0]
  /\ Fail(t)
  /\ UNCHANGED torn

(* dequeue_data_from_circ_buf, step by step. *)
DequeueStep ==
  /\ BeginDequeue \/ Dequeuing
  /\ UNCHANGED fileVars

Dequeue(t) == pc[t] = "dequeue" /\ reader # "done" /\ DequeueStep

(* start_ptr, close and pthread_mutex_unlock: `stamp' is the length added to
   bytes_written_until_newline. *)
UnlockedNever(t) == t

Unlocked(t) == NoOwner

Finish(t, stamp) ==
  /\ start' = [start EXCEPT ![t] = upto[t] + stamp]
  /\ len' = [len EXCEPT ![t] = @ + nread[t]]
  /\ sent' = [sent EXCEPT ![t] = <<>>]
  /\ mutex' = Unlocked(t)
  /\ Goto(t, "recv")
  /\ nread' = [nread EXCEPT ![t] = 0] /\ upto' = [upto EXCEPT ![t] = 0]
  /\ UNCHANGED mpc

NoStamp(t) ==
  /\ pc[t] = "dequeue" /\ reader = "idle" /\ queue_empty
  /\ Finish(t, 0)
  /\ UNCHANGED <<file, written, torn, ringVars>>

WriteStamp(t) ==
  /\ pc[t] = "dequeue" /\ reader = "done"
  /\ Dump(t, Stamp)
  /\ UNCHANGED <<mutex, pc, window, sent, mpc, torn, ringVars>>

StampWritten(t) ==
  /\ pc[t] = "dequeue" /\ reader = "done" /\ written[t] = Len(Stamp)
  /\ written' = [written EXCEPT ![t] = 0]
  /\ Finish(t, Len(Stamp))
  /\ EndDequeue
  /\ UNCHANGED <<file, torn>>

StampFails(t) ==
  /\ pc[t] = "dequeue" /\ reader = "done" /\ written[t] < Len(Stamp)
  /\ GiveUp(t)
  /\ Finish(t, 0)
  /\ EndDequeue
  /\ UNCHANGED file

Worker(t) ==
  \/ Receive(t) \/ Leave(t) \/ Lock(t) \/ WriteFails(t) \/ WritePacket(t) \/ Echo(t)
  \/ EchoFails(t) \/ Dequeue(t) \/ NoStamp(t) \/ WriteStamp(t) \/ StampWritten(t)
  \/ StampFails(t)

----------------------------------------------------------------------------
GotoMain(l) == mpc' = l /\ UNCHANGED pc

(* accept returns a connection, which gets a thread, or fails. *)
Accept ==
  /\ mpc = "accept"
  /\ mpc' = "join"
  /\ \/ \E t \in Thread : pc[t] = "none" /\ Goto(t, "recv")
     \/ UNCHANGED pc
  /\ UNCHANGED <<file, mutex, window, written, sent, torn, ringVars>>

(* Join_threads; then connection_count is tested. *)
Join ==
  /\ mpc = "join"
  /\ pc' = [t \in Thread |-> IF pc[t] = "completed" THEN "joined" ELSE pc[t]]
  /\ mpc' = IF \A t \in Thread : pc'[t] \in {"none", "joined"} THEN "trylock" ELSE "accept"
  /\ UNCHANGED <<file, mutex, window, written, sent, torn, ringVars>>

(* pthread_mutex_trylock *)
TryLock ==
  /\ mpc = "trylock"
  /\ IF CanLock THEN mutex' = Main /\ GotoMain("dequeue")
                ELSE GotoMain("accept") /\ UNCHANGED mutex
  /\ UNCHANGED <<file, window, written, sent, torn, ringVars>>

MainDequeue == mpc = "dequeue" /\ reader # "done" /\ DequeueStep

MainUnlock == mutex' = NoOwner /\ GotoMain("accept")

MainNoStamp ==
  /\ mpc = "dequeue" /\ reader = "idle" /\ queue_empty
  /\ MainUnlock
  /\ UNCHANGED <<file, window, written, sent, torn, ringVars>>

MainWrite ==
  /\ mpc = "dequeue" /\ reader = "done"
  /\ Dump(Main, Stamp)
  /\ UNCHANGED <<mutex, pc, mpc, window, sent, torn, ringVars>>

(* Everything is written, or open or a write failed; close and unlock. *)
MainWritten ==
  /\ mpc = "dequeue" /\ reader = "done"
  /\ IF written[Main] = Len(Stamp)
     THEN written' = [written EXCEPT ![Main] = 0] /\ UNCHANGED torn
     ELSE GiveUp(Main)
  /\ MainUnlock
  /\ EndDequeue
  /\ UNCHANGED <<file, window, sent>>

MainThread ==
  \/ Accept \/ Join \/ TryLock \/ MainDequeue \/ MainNoStamp \/ MainWrite \/ MainWritten

(* SIGALRM: accept returns EINTR. *)
Tick ==
  /\ Alarm
  /\ mpc' = IF mpc = "accept" THEN "join" ELSE mpc
  /\ UNCHANGED <<file, mutex, pc, window, written, sent, torn>>

Next ==
  /\ \/ Tick
     \/ Handler /\ UNCHANGED fileVars
     \/ handler = "idle" /\ MainThread
     \/ \E t \in Thread : Worker(t)
  /\ raced' = (raced \/ (handler' # "idle" /\ reader' # "idle" /\ mutex' # Main))

Spec == Init /\ [][Next]_vars
----------------------------------------------------------------------------
Owner == Thread \cup {Main}

(* Type invariant. *)
TypeOK ==
  /\ file \in Seq(((Thread \cup {"timestamp"}) \X Nat \X {1, 2}))
  /\ mutex \in Owner \cup {NoOwner}
  /\ pc \in [Thread -> {"none", "recv", "lock", "write", "echo", "dequeue", "completed",
                        "joined"}]
  /\ {len, nread, start, upto} \subseteq [Thread -> 0 .. MaxBytes + UnitsPerString]
  /\ written \in [Owner -> 0 .. MaxBytes + UnitsPerString]
  /\ \A t \in Thread : Len(sent[t]) <= Len(file)
  /\ mpc \in {"accept", "join", "trylock", "dequeue"}
  /\ time_buf \in [0 .. CIRCULAR_BUF_DEPTH - 1 -> 0 .. MaxAlarms]
  /\ {wptr, rptr} \subseteq 0 .. CIRCULAR_BUF_DEPTH - 1
  /\ {queue_full, queue_empty, raced} \subseteq BOOLEAN
  /\ got \in 0 .. MaxAlarms

(* The mutex is held exactly by the thread that is between its lock and its
   unlock, on every path, and the ring has one reader at a time. *)
Inside(p) == IF p = Main THEN mpc = "dequeue" ELSE pc[p] \in {"write", "echo", "dequeue"}

MutexHeld ==
  /\ \A p \in Owner : mutex = p <=> Inside(p)
  /\ reader # "idle" => \E p \in Owner : Inside(p)

(* In the file nothing comes between the two halves of a timestamp, or of the
   first packet of a connection, whoever else writes and whatever fails. *)
Guarded(u) == u[1] = "timestamp" \/ u[2] = 1

StringsWhole ==
  \A i \in DOMAIN file : Guarded(file[i]) =>
    IF file[i][3] = 2
    THEN i > 1 /\ file[i - 1] = [file[i] EXCEPT ![3] = 1]
    ELSE \/ i < Len(file) /\ file[i + 1] = [file[i] EXCEPT ![3] = 2]
         \/ i = Len(file) /\ mutex # NoOwner
         \/ file[i] \in torn

(* A client gets back the whole file, byte by byte, with its packet at the
   end: nobody writes between a thread's write and the end of its echo. *)
EchoIsFile ==
  \A t \in Thread : pc[t] = "echo" =>
    /\ sent[t] = SubSeq(file, 1, Len(sent[t]))
    /\ SubSeq(file, Len(file) - upto[t] + 1, Len(file)) = Packet(t)

(* As long as no thread has dequeued while an alarm was handled, the ring
   keeps its order: alarms that interrupt the main thread's dequeue overwrite
   nothing, and each timestamp comes out once. *)
RingSafeOnMain == ~raced => SlotsHoldPending /\ FlagsSafe
=============================================================================
