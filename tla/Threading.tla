------------------------------ MODULE Threading ------------------------------
(***************************************************************************)
(* examples/threading/threading.c: start_thread_obtaining_mutex starts     *)
(* threads that sleep, lock a common mutex, sleep and unlock it.  Signals  *)
(* interrupt nanosleep, which then says how much is left.                  *)
(*                                                                         *)
(* Time is counted in milliseconds.  Waits are not negative: the callers   *)
(* pass lengths of time.  pthread_mutex_unlock by the owner does not fail. *)
(***************************************************************************)
EXTENDS Integers

CONSTANTS
  Thread,
  NoThread,
  Wait,            (* the waits, in ms                                      *)
  MSEC_PER_SEC     (* 1000 in the code                                      *)

ASSUME ThreadingAssumption ==
  NoThread \notin Thread /\ Wait \subseteq Nat /\ MSEC_PER_SEC \in Nat \ {0}

VARIABLES
  pcs,         (* thread -> where it is                                     *)
  params,      (* thread -> the waits in its thread_data                    *)
  sleep_time,  (* thread -> what nanosleep is asked for next                *)
  slept,       (* auxiliary: thread -> how long it has slept since it began
                  this sleep                                                *)
  mutex,       (* the thread that holds it                                  *)
  success,     (* thread -> thread_complete_success                         *)
  leaked       (* the threads whose thread_data nobody can free             *)

threadVars == <<pcs, params, sleep_time, slept, mutex, success, leaked>>

(* A timespec; tv_nsec is counted in ms. *)
Timespec(ms) == [tv_sec |-> ms \div MSEC_PER_SEC, tv_nsec |-> ms % MSEC_PER_SEC]

Milliseconds(t) == MSEC_PER_SEC * t.tv_sec + t.tv_nsec

ThreadingInit ==
  /\ pcs = [t \in Thread |-> "none"]
  /\ params = [t \in Thread |-> [obtain |-> Timespec(0), release |-> Timespec(0)]]
  /\ sleep_time = [t \in Thread |-> Timespec(0)]
  /\ slept = [t \in Thread |-> 0]
  /\ mutex = NoThread
  /\ success = [t \in Thread |-> FALSE]
  /\ leaked = {}

(* start_thread_obtaining_mutex: malloc, pthread_create ... *)
StartThread(t) ==
  /\ pcs[t] = "none"
  /\ \E w1, w2 \in Wait :
       /\ params' = [params EXCEPT ![t] = [obtain |-> Timespec(w1), release |-> Timespec(w2)]]
       /\ sleep_time' = [sleep_time EXCEPT ![t] = Timespec(w1)]
  /\ pcs' = [pcs EXCEPT ![t] = "sleep"]
  /\ UNCHANGED <<slept, mutex, success, leaked>>

(* ... either of which may fail: false is returned, and after malloc the
   thread_data is lost. *)
StartFails(t) ==
  /\ pcs[t] = "none"
  /\ pcs' = [pcs EXCEPT ![t] = "failed"]
  /\ leaked' \in {leaked, leaked \cup {t}}
  /\ UNCHANGED <<params, sleep_time, slept, mutex, success>>

Asleep(t) == pcs[t] \in {"sleep", "hold"}

AfterSleep(t) == IF pcs[t] = "sleep" THEN "lock" ELSE "unlock"

(* nanosleep returns 0 ... *)
Sleep(t) ==
  /\ Asleep(t)
  /\ slept' = [slept EXCEPT ![t] = @ + Milliseconds(sleep_time[t])]
  /\ pcs' = [pcs EXCEPT ![t] = AfterSleep(t)]
  /\ UNCHANGED <<params, sleep_time, mutex, success, leaked>>

(* ... or is interrupted, and called again for what remains of the time. *)
RepeatsSeconds(remaining) == remaining.tv_sec > 0

Repeats(remaining) == remaining.tv_sec > 0 \/ remaining.tv_nsec > 0

SleepInterrupted(t) ==
  /\ Asleep(t)
  /\ \E left \in 0 .. Milliseconds(sleep_time[t]) :
       /\ slept' = [slept EXCEPT ![t] = @ + Milliseconds(sleep_time[t]) - left]
       /\ sleep_time' = [sleep_time EXCEPT ![t] = Timespec(left)]
       /\ pcs' = [pcs EXCEPT ![t] = IF Repeats(Timespec(left)) THEN @ ELSE AfterSleep(t)]
  /\ UNCHANGED <<params, mutex, success, leaked>>

Lock(t) ==
  /\ pcs[t] = "lock" /\ mutex = NoThread
  /\ mutex' = t
  /\ sleep_time' = [sleep_time EXCEPT ![t] = params[t].release]
  /\ slept' = [slept EXCEPT ![t] = 0]
  /\ pcs' = [pcs EXCEPT ![t] = "hold"]
  /\ UNCHANGED <<params, success, leaked>>

(* pthread_mutex_lock returns an error. *)
LockFails(t) ==
  /\ pcs[t] = "lock"
  /\ pcs' = [pcs EXCEPT ![t] = "ended"]
  /\ UNCHANGED <<params, sleep_time, slept, mutex, success, leaked>>

Unlock(t) ==
  /\ pcs[t] = "unlock"
  /\ mutex' = NoThread
  /\ success' = [success EXCEPT ![t] = TRUE]
  /\ pcs' = [pcs EXCEPT ![t] = "ended"]
  /\ UNCHANGED <<params, sleep_time, slept, leaked>>

ThreadingNext ==
  \E t \in Thread :
    \/ StartThread(t) \/ StartFails(t) \/ Sleep(t) \/ SleepInterrupted(t)
    \/ Lock(t) \/ LockFails(t) \/ Unlock(t)

(* threading.h:35: however often signals interrupt it, a thread sleeps the
   whole time before it takes the mutex and the whole time while it holds
   it, and holds it exactly then. *)
SleptInFull ==
  \A t \in Thread :
    /\ pcs[t] = "lock" => slept[t] = Milliseconds(params[t].obtain)
    /\ pcs[t] = "unlock" \/ success[t] => slept[t] = Milliseconds(params[t].release)
    /\ mutex = t <=> pcs[t] \in {"hold", "unlock"}
=============================================================================
