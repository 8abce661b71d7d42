--------------------------- MODULE AesdSocketMain ---------------------------
(***************************************************************************)
(* server/aesdsocket.c, built with USE_AESD_CHAR_DEVICE: the loop of main  *)
(* that accepts connections, starts a thread for each, joins the threads   *)
(* that are done and exits on SIGINT or SIGTERM.  What a thread does with  *)
(* its connection is AesdSocketWorker; here it serves, closes the socket   *)
(* and sets thread_completed, logs the address kept in its node, and ends. *)
(*                                                                         *)
(* A node is the address malloc returned; freed addresses are used again.  *)
(* The list head and entries of queue.h's TAILQ are the sequence list.     *)
(*                                                                         *)
(* A signal goes to any thread of the process.  If that is the main thread *)
(* and it is inside accept(), accept() returns EINTR; anywhere else only   *)
(* the flag is set.                                                        *)
(***************************************************************************)
EXTENDS Integers, Sequences, SequencesExt

CONSTANTS
  Node,      (* addresses of worker_thread_t                                *)
  NULL,
  MaxLost    (* bound: connections that get no thread                       *)

ASSUME NodeAssumption == NULL \notin Node /\ IsFiniteSet(Node)
ASSUME LostAssumption == MaxLost \in Nat

VARIABLES
  pc,          (* where main is: "start" is before its loop, "call" on its
                  way into accept()                                         *)
  list,        (* the nodes in the list                                     *)
  count,       (* connection_count                                          *)
  var, tvar,   (* of TAILQ_FOREACH_SAFE                                     *)
  caught,      (* signal_caught                                             *)
  thread,      (* node -> "none", "serving", "completed" or "ended"         *)
  lost         (* sockets accepted for which there was no node or thread    *)

vars == <<pc, list, count, var, tvar, caught, thread, lost>>

Init ==
  /\ caught = FALSE
  /\ pc = "start"
  /\ list = <<>> /\ count = 0
  /\ var = NULL /\ tvar = NULL
  /\ thread = [n \in Node |-> "none"]
  /\ lost = 0

Allocated == {n \in Node : thread[n] # "none"}

----------------------------------------------------------------------------
(* The signal handlers are installed by now, so the loop first looks whether
   a signal has come already. *)
Begin ==
  /\ pc = "start"
  /\ pc' = IF caught THEN "join" ELSE "call"
  /\ UNCHANGED <<list, count, var, tvar, caught, thread, lost>>

(* main enters accept() and waits there. *)
EnterAccept ==
  /\ pc = "call"
  /\ pc' = "accept"
  /\ UNCHANGED <<list, count, var, tvar, caught, thread, lost>>

(* A client connects and gets a thread; main goes on to Join_threads. *)
CountForgotten(c) == c

CountAfterAccept(c) == c + 1

AcceptConnection ==
  /\ pc = "accept"
  /\ \E n \in Node \ Allocated :
       /\ thread' = [thread EXCEPT ![n] = "serving"]
       /\ list' = Append(list, n)
  /\ count' = CountAfterAccept(count)
  /\ pc' = "join"
  /\ UNCHANGED <<var, tvar, caught, lost>>

(* A client connects, but malloc or pthread_create fails: its socket stays
   open and nothing refers to it. *)
AcceptWithoutThread ==
  /\ pc = "accept"
  /\ lost < MaxLost
  /\ lost' = lost + 1
  /\ pc' = "join"
  /\ UNCHANGED <<list, count, var, tvar, caught, thread>>

AcceptFails ==
  /\ pc = "accept"
  /\ pc' = "join"
  /\ UNCHANGED <<list, count, var, tvar, caught, thread, lost>>

----------------------------------------------------------------------------
(* TAILQ_FIRST *)
First == IF list = <<>> THEN NULL ELSE Head(list)

(* Join_threads: the walk over the list starts if there are connections. *)
JoinThreads ==
  /\ pc = "join"
  /\ IF count > 0
     THEN pc' = "visit" /\ var' = First
     ELSE pc' = "check" /\ UNCHANGED var
  /\ UNCHANGED <<list, count, tvar, caught, thread, lost>>

IndexIn(n) == CHOOSE i \in DOMAIN list : list[i] = n

(* TAILQ_NEXT *)
NextOf(n) == IF IndexIn(n) = Len(list) THEN NULL ELSE list[IndexIn(n) + 1]

(* thread_completed *)
Completed(n) == thread[n] \in {"completed", "ended"}

Visit ==
  /\ pc = "visit" /\ var # NULL
  /\ tvar' = NextOf(var)
  /\ IF Completed(var)
     THEN pc' = "pthread_join" /\ UNCHANGED var
     ELSE var' = tvar' /\ UNCHANGED pc
  /\ UNCHANGED <<list, count, caught, thread, lost>>

EndOfList ==
  /\ pc = "visit" /\ var = NULL
  /\ pc' = "check"
  /\ UNCHANGED <<list, count, var, tvar, caught, thread, lost>>

(* pthread_join waits for the thread to end. *)
JoinableAtOnce(n) == TRUE

Joinable(n) == thread[n] = "ended"

(* The walk goes on from the node that followed the one just freed. *)
ResumeAtFreed(v, t) == v

Resume(v, t) == t

CountedTwice(c) == c - 2

CountAfterJoin(c) == c - 1

JoinAndFree ==
  /\ pc = "pthread_join"
  /\ Joinable(var)
  /\ list' = RemoveAt(list, IndexIn(var))
  /\ thread' = [thread EXCEPT ![var] = "none"]
  /\ count' = CountAfterJoin(count)
  /\ var' = Resume(var, tvar)
  /\ pc' = "visit"
  /\ UNCHANGED <<tvar, caught, lost>>

(* shutdown_function once every thread is joined; until then main walks the
   list again and again. *)
ExitsAtOnce(c) == TRUE

ExitsWithOneLeft(c) == c = 1

Exits(c) == c = 0

CheckSignal ==
  /\ pc = "check"
  /\ pc' = IF ~caught THEN "call" ELSE IF Exits(count) THEN "exit" ELSE "join"
  /\ UNCHANGED <<list, count, var, tvar, caught, thread, lost>>

----------------------------------------------------------------------------
(* sighandler, on the main thread ... *)
SignalToMain ==
  /\ pc # "exit"
  /\ caught' = TRUE
  /\ pc' = IF pc = "accept" THEN "join" ELSE pc
  /\ UNCHANGED <<list, count, var, tvar, thread, lost>>

(* ... or on another.  A recv() that it interrupts ends that connection,
   which Serve allows at any time. *)
SignalToThread(n) ==
  /\ pc # "exit"
  /\ thread[n] \in {"serving", "completed"}
  /\ caught' = TRUE
  /\ UNCHANGED <<pc, list, count, var, tvar, thread, lost>>

(* A thread finishes with its connection: it closes the socket and sets
   thread_completed. *)
Serve(n) ==
  /\ pc # "exit" /\ thread[n] = "serving"
  /\ thread' = [thread EXCEPT ![n] = "completed"]
  /\ UNCHANGED <<pc, list, count, var, tvar, caught, lost>>

(* It logs node->ip_addr and returns. *)
Return(n) ==
  /\ pc # "exit" /\ thread[n] = "completed"
  /\ thread' = [thread EXCEPT ![n] = "ended"]
  /\ UNCHANGED <<pc, list, count, var, tvar, caught, lost>>

Main ==
  \/ Begin \/ EnterAccept \/ JoinThreads \/ Visit \/ EndOfList \/ JoinAndFree \/ CheckSignal

Client == AcceptConnection \/ AcceptWithoutThread \/ AcceptFails

Next ==
  \/ Main \/ Client \/ SignalToMain
  \/ \E n \in Node : SignalToThread(n) \/ Serve(n) \/ Return(n)

Spec == Init /\ [][Next]_vars

(* Threads that can run keep running, and every client closes in the end.
   Nobody has to connect. *)
FairSpec ==
  /\ Spec
  /\ WF_vars(Main)
  /\ \A n \in Node : WF_vars(Serve(n)) /\ WF_vars(Return(n))

----------------------------------------------------------------------------
(* Type invariant. *)
TypeOK ==
  /\ pc \in {"start", "call", "accept", "join", "visit", "pthread_join", "check", "exit"}
  /\ list \in Seq(Node)
  /\ count \in Nat
  /\ {var, tvar} \subseteq Node \cup {NULL}
  /\ caught \in BOOLEAN
  /\ thread \in [Node -> {"none", "serving", "completed", "ended"}]
  /\ lost \in 0 .. MaxLost

(* Every thread that is not joined yet has its node in the list, once, and
   connection_count, which decides whether the server may exit, counts them. *)
ListOwnsThreads ==
  /\ \A i, j \in DOMAIN list : list[i] = list[j] => i = j
  /\ {list[i] : i \in DOMAIN list} = Allocated
  /\ count = Len(list)

(* The walk never looks into a node that was freed, although it frees nodes
   as it goes. *)
CursorAllocated ==
  /\ pc = "visit" => var \in Allocated \cup {NULL}
  /\ pc = "pthread_join" => /\ var \in Allocated
                            /\ tvar \in (Allocated \ {var}) \cup {NULL}

(* A node is freed only after the thread that reads its ip_addr has ended:
   thread_completed is set before that read. *)
FreedAfterEnd ==
  [][\A n \in Node : thread[n] # "none" /\ thread'[n] = "none" => thread[n] = "ended"]_vars

(* The server exits only on a signal, and with no connection being served. *)
ExitIsClean == pc = "exit" => caught /\ Allocated = {}

(* aesdsocket.c:220: with no open connection the signal "performs neccessarry
   cleanup and exits".  False when it arrives between the test of the flag
   and accept(), or on another thread while main waits in accept(). *)
IdleSignalExits == (caught /\ Allocated = {}) ~> pc = "exit"
=============================================================================
