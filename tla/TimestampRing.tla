---------------------------- MODULE TimestampRing ----------------------------
(***************************************************************************)
(* server/aesdsocket.c, built without USE_AESD_CHAR_DEVICE: the ring of    *)
(* timestamps between alarmhandler, which runs on SIGALRM, and the thread  *)
(* that writes the next timestamp to the file.  Nothing locks it, so one   *)
(* action is one access to a field that both sides use.                    *)
(*                                                                         *)
(* The timer expires every 10 s and a dequeue takes microseconds: at most  *)
(* one alarm is handled while a dequeue is under way (guard of Alarm).     *)
(***************************************************************************)
EXTENDS Integers, Sequences

CONSTANTS
  CIRCULAR_BUF_DEPTH,   (* 8 in the code                                    *)
  MaxAlarms             (* bound: alarms                                    *)

ASSUME DepthAssumption ==
  CIRCULAR_BUF_DEPTH \in Nat \ {0} /\ CIRCULAR_BUF_DEPTH \in {2 ^ k : k \in 1 .. 30}
ASSUME AlarmsAssumption == MaxAlarms \in Nat

VARIABLES
  time_buf,      (* slot -> the number of the alarm stored there, 0 if none *)
  wptr, rptr, queue_full, queue_empty,
  handler,       (* where enqueue_data_into_circ_buf is                     *)
  reader,        (* where dequeue_data_from_circ_buf is                     *)
  got,           (* the buffer dequeue_data_from_circ_buf copies to         *)
  alarmed,       (* did an alarm come during this dequeue?                  *)
  alarms,        (* auxiliary: alarms so far                                *)
  kept,          (* auxiliary: the timestamps stored, in order              *)
  removed        (* auxiliary: how many of them were taken out              *)

flags == <<queue_full, queue_empty>>
producer == <<time_buf, wptr, handler, alarms, kept>>
consumer == <<rptr, reader, got, removed>>
ringVars == <<flags, producer, consumer, alarmed>>

RingInit ==
  /\ time_buf = [i \in 0 .. CIRCULAR_BUF_DEPTH - 1 |-> 0]
  /\ wptr = 0 /\ rptr = 0
  /\ queue_full = FALSE /\ queue_empty = TRUE
  /\ handler = "idle" /\ reader = "idle" /\ got = 0
  /\ alarmed = FALSE /\ alarms = 0
  /\ kept = <<>> /\ removed = 0

(* nextPtr: & (DEPTH - 1) is % DEPTH for a power of two. *)
NextPtrUnmasked(ptr) == ptr + 1

NextPtr(ptr) == (ptr + 1) % CIRCULAR_BUF_DEPTH

----------------------------------------------------------------------------
(* A full ring drops the timestamp. *)
RefusesNever == FALSE

Refuses == queue_full

Alarm ==
  /\ handler = "idle" /\ alarms < MaxAlarms
  /\ reader # "idle" => ~alarmed
  /\ alarms' = alarms + 1
  /\ alarmed' = (reader # "idle")
  /\ handler' = IF Refuses THEN "idle" ELSE "store"
  /\ UNCHANGED <<time_buf, wptr, kept, flags, consumer>>

Store ==
  /\ handler = "store"
  /\ time_buf' = [time_buf EXCEPT ![wptr] = alarms]
  /\ handler' = "advance"
  /\ UNCHANGED <<wptr, alarms, kept, flags, consumer, alarmed>>

AdvanceWrite ==
  /\ handler = "advance"
  /\ wptr' = NextPtr(wptr)
  /\ kept' = Append(kept, alarms)
  /\ handler' = "clear_empty"
  /\ UNCHANGED <<time_buf, alarms, flags, consumer, alarmed>>

ClearEmpty ==
  /\ handler = "clear_empty"
  /\ queue_empty' = FALSE
  /\ handler' = "test_full"
  /\ UNCHANGED <<time_buf, wptr, alarms, kept, queue_full, consumer, alarmed>>

TestFull ==
  /\ handler = "test_full"
  /\ handler' = IF wptr = rptr THEN "set_full" ELSE "idle"
  /\ UNCHANGED <<time_buf, wptr, alarms, kept, flags, consumer, alarmed>>

SetFull ==
  /\ handler = "set_full"
  /\ queue_full' = TRUE
  /\ handler' = "idle"
  /\ UNCHANGED <<time_buf, wptr, alarms, kept, queue_empty, consumer, alarmed>>

Handler == Store \/ AdvanceWrite \/ ClearEmpty \/ TestFull \/ SetFull

----------------------------------------------------------------------------
(* dequeue_data_from_circ_buf after its test of queue_empty. *)
BeginDequeue ==
  /\ reader = "idle" /\ ~queue_empty
  /\ reader' = "copy"
  /\ alarmed' = (handler # "idle")
  /\ UNCHANGED <<rptr, got, removed, flags, producer>>

Copy ==
  /\ reader = "copy"
  /\ got' = time_buf[rptr]
  /\ reader' = "advance"
  /\ UNCHANGED <<rptr, removed, flags, producer, alarmed>>

AdvanceRead ==
  /\ reader = "advance"
  /\ rptr' = NextPtr(rptr)
  /\ removed' = removed + 1
  /\ reader' = "clear_full"
  /\ UNCHANGED <<got, flags, producer, alarmed>>

ClearFull ==
  /\ reader = "clear_full"
  /\ queue_full' = FALSE
  /\ reader' = "test_empty"
  /\ UNCHANGED <<rptr, got, removed, queue_empty, producer, alarmed>>

TestEmpty ==
  /\ reader = "test_empty"
  /\ reader' = IF wptr = rptr THEN "set_empty" ELSE "done"
  /\ UNCHANGED <<rptr, got, removed, flags, producer, alarmed>>

SetEmpty ==
  /\ reader = "set_empty"
  /\ queue_empty' = TRUE
  /\ reader' = "done"
  /\ UNCHANGED <<rptr, got, removed, queue_full, producer, alarmed>>

Dequeuing == Copy \/ AdvanceRead \/ ClearFull \/ TestEmpty \/ SetEmpty

(* The caller has used what it got. *)
EndDequeue ==
  /\ reader = "done"
  /\ reader' = "idle"
  /\ got' = 0
  /\ UNCHANGED <<rptr, removed, flags, producer, alarmed>>

RingNext == Alarm \/ Handler \/ BeginDequeue \/ Dequeuing \/ EndDequeue

RingSpec == RingInit /\ [][RingNext]_ringVars

----------------------------------------------------------------------------
AtRest == handler = "idle" /\ reader \in {"idle", "done"}

Pending == SubSeq(kept, removed + 1, Len(kept))

(* No timestamp is overwritten before it was taken out, and they come out in
   the order of the alarms: the slots from rptr on hold the pending ones. *)
SlotsHoldPending ==
  /\ Len(Pending) <= CIRCULAR_BUF_DEPTH
  /\ \A i \in DOMAIN Pending :
       time_buf[(rptr + i - 1) % CIRCULAR_BUF_DEPTH] = Pending[i]
  /\ wptr = (rptr + Len(Pending)) % CIRCULAR_BUF_DEPTH

(* The flags err on the safe side only: a ring that is not full can take a
   timestamp, and one that is not empty holds one. *)
FlagsSafe ==
  AtRest => /\ ~queue_full => Len(Pending) < CIRCULAR_BUF_DEPTH
            /\ ~queue_empty => Pending # <<>>

(* aesdsocket.c:292: the two functions "do not modify the same variables and
   hence calls to enqueue from within dequeue will not cause race conditions".
   Then no alarm could lock the ring up, marked full and empty at once, so that
   it takes and gives no timestamp any more.  False: both write both flags. *)
NeverStuck == AtRest => ~(queue_full /\ queue_empty)
=============================================================================
