----------------------------- MODULE AesdServer -----------------------------
(***************************************************************************)
(* server/aesdsocket.c: all of main, in both builds.  Before its loop it   *)
(* finds and binds a socket, may become a daemon, listens, installs the    *)
(* signal handlers and, in the build without the driver, arms the timer;   *)
(* whatever fails goes through perform_cleanup, as does the exit.          *)
(* The loop is AesdSocketMain; here its list also has the pointers of      *)
(* queue.h.  What the loop does with timestamps is AesdSocketFile.         *)
(***************************************************************************)
EXTENDS AesdSocketMain

CONSTANTS
  TQHead,    (* the list head of main                                       *)
  MaxAddr    (* bound: addresses that getaddrinfo returns                   *)

ASSUME ServerAssumption == TQHead \notin Node \cup {NULL} /\ MaxAddr \in Nat \ {0}

TQ == INSTANCE TailQueue

VARIABLES
  fileBuild,   (* whether USE_AESD_CHAR_DEVICE is left out                  *)
  daemon,      (* run_as_daemon                                             *)
  at,          (* the call that main is to make before its loop, "loop", or
                  how it ended without one                                  *)
  p,           (* which address is tried                                    *)
  addr,        (* host_addr_info                                            *)
  sock,        (* what socket_descriptor is                                 *)
  flag,        (* the booleans that tell perform_cleanup what to release    *)
  handled,     (* the signals that have a handler                           *)
  ring,        (* whether the ring of timestamps is initialised             *)
  timer,
  file,        (* whether /var/tmp/aesdsocketdata exists                    *)
  queue        (* the pointers of head and entries                          *)

build == <<fileBuild, daemon>>
socket == <<p, addr, sock>>
alarm == <<ring, timer>>
startup == <<build, at, socket, flag, handled, alarm>>
serverVars == <<vars, startup, file, queue>>

(* initialize_socket_state, and getopt.  A data file may be left by a server
   that was killed. *)
ServerInit ==
  /\ Init
  /\ fileBuild \in BOOLEAN /\ daemon \in BOOLEAN
  /\ at = "getaddrinfo"
  /\ p = 0 /\ addr = "none" /\ sock = "none"
  /\ flag = [address |-> FALSE, socket |-> FALSE, alarm |-> FALSE]
  /\ handled = {} /\ ring = FALSE /\ timer = "none"
  /\ file \in {FALSE, fileBuild}
  /\ queue = TQ!Forget(TQ!InitQueue(Node), TQHead)

----------------------------------------------------------------------------
(* freeaddrinfo *)
Freed == IF addr = "held" THEN "freed" ELSE "freed twice"

disarm_and_destroy_timer == timer' = "deleted"

(* The second flag that perform_cleanup tests is the first one again. *)
perform_cleanup ==
  /\ addr' = IF addr # "none" /\ flag.address THEN Freed ELSE addr
  /\ sock' = IF flag.address THEN "closed" ELSE sock
  /\ IF flag.alarm THEN disarm_and_destroy_timer ELSE UNCHANGED timer

At(call) == pc = "start" /\ at = call

(* The call fails: clean up and return -1. *)
Fails(call) ==
  /\ At(call)
  /\ perform_cleanup
  /\ at' = "failed"
  /\ UNCHANGED <<build, p, flag, handled, ring>>

GetAddrInfo ==
  /\ At("getaddrinfo")
  /\ \/ at' = "failed" /\ UNCHANGED <<p, addr, flag>>
     \/ /\ at' = "socket" /\ p' = 1 /\ addr' = "held"
        /\ flag' = [flag EXCEPT !.address = TRUE]
  /\ UNCHANGED <<build, sock, handled, alarm>>

(* The for loop over the addresses. *)
MakeSocket ==
  /\ At("socket") /\ p <= MaxAddr
  /\ \/ p' = p + 1 /\ UNCHANGED <<at, sock, flag>>
     \/ /\ at' = "setsockopt" /\ sock' = "open"
        /\ flag' = [flag EXCEPT !.socket = TRUE]
        /\ UNCHANGED p
  /\ UNCHANGED <<build, addr, handled, alarm>>

NoAddressLeft == p > MaxAddr /\ Fails("socket")

SetSockOpt ==
  /\ At("setsockopt")
  /\ at' = "bind"
  /\ UNCHANGED <<build, socket, flag, handled, alarm>>

Bind ==
  /\ At("bind")
  /\ \/ at' = "socket" /\ p' = p + 1 /\ sock' = "closed"
     \/ at' = "freeaddrinfo" /\ sock' = "bound" /\ UNCHANGED p
  /\ UNCHANGED <<build, addr, flag, handled, alarm>>

(* p, which points into the list, is not used any more. *)
KeepFlag(f) == f

ClearFlag(f) == [f EXCEPT !.address = FALSE]

FreeAddrInfo ==
  /\ At("freeaddrinfo")
  /\ addr' = Freed /\ p' = 0
  /\ flag' = ClearFlag(flag)
  /\ at' = IF daemon THEN "fork" ELSE "listen"
  /\ UNCHANGED <<build, sock, handled, alarm>>

(* The child goes on.  The parent calls perform_cleanup on its own copy of
   the state and exits; the socket stays open in the child. *)
Fork == At("fork") /\ at' = "setsid" /\ UNCHANGED <<build, socket, flag, handled, alarm>>

SetSid == At("setsid") /\ at' = "chdir" /\ UNCHANGED <<build, socket, flag, handled, alarm>>

Chdir == At("chdir") /\ at' = "listen" /\ UNCHANGED <<build, socket, flag, handled, alarm>>

Listen ==
  /\ At("listen")
  /\ sock' = "listening" /\ at' = "SIGINT"
  /\ UNCHANGED <<build, p, addr, flag, handled, alarm>>

(* setup_signal; the ring is initialised after SIGTERM, before SIGALRM gets
   its handler. *)
SetupSignal(sig, to) ==
  /\ At(sig)
  /\ handled' = handled \cup {sig}
  /\ at' = to
  /\ ring' = (ring \/ (sig = "SIGTERM" /\ fileBuild))
  /\ UNCHANGED <<build, socket, flag, timer>>

Handlers ==
  \/ SetupSignal("SIGINT", "SIGTERM")
  \/ SetupSignal("SIGTERM", IF fileBuild THEN "SIGALRM" ELSE "loop")
  \/ SetupSignal("SIGALRM", "timer_create")

(* create_and_arm_timer; disarm_alarm is set after both calls. *)
TimerCreate ==
  /\ At("timer_create")
  /\ timer' = "created" /\ at' = "timer_settime"
  /\ UNCHANGED <<build, socket, flag, handled, ring>>

TimerSetTime ==
  /\ At("timer_settime")
  /\ timer' = "armed" /\ at' = "loop"
  /\ flag' = [flag EXCEPT !.alarm = TRUE]
  /\ UNCHANGED <<build, socket, handled, ring>>

CallFails ==
  \E call \in {"setsockopt", "fork", "setsid", "chdir", "listen", "SIGINT", "SIGTERM",
               "SIGALRM", "timer_create", "timer_settime"} : Fails(call)

StartUp ==
  /\ \/ GetAddrInfo \/ MakeSocket \/ NoAddressLeft \/ SetSockOpt \/ Bind \/ FreeAddrInfo
     \/ Fork \/ SetSid \/ Chdir \/ Listen \/ Handlers \/ TimerCreate \/ TimerSetTime
     \/ CallFails
  /\ UNCHANGED <<vars, file, queue>>

----------------------------------------------------------------------------
(* TAILQ_INIT, and into the loop. *)
EnterLoop ==
  /\ at = "loop"
  /\ Begin
  /\ queue' = TQ!InitQueue(Node)
  /\ UNCHANGED <<startup, file>>

(* TAILQ_INSERT_TAIL *)
InsertNode ==
  /\ AcceptConnection
  /\ queue' = TQ!InsertTail(queue, Last(list'))
  /\ UNCHANGED <<startup, file>>

(* TAILQ_REMOVE, and free *)
RemoveNode ==
  /\ JoinAndFree
  /\ queue' = TQ!Forget(TQ!Remove(queue, var), var)
  /\ UNCHANGED <<startup, file>>

(* The file build creates its data file with the first packet, or with a
   timestamp that main writes when nobody is connected. *)
MayCreateFile == file' \in {file, file \/ fileBuild}

EndOfWalk ==
  /\ JoinThreads \/ EndOfList
  /\ IF pc' = "check" /\ count = 0 THEN MayCreateFile ELSE UNCHANGED file
  /\ UNCHANGED <<startup, queue>>

Elsewhere ==
  /\ EnterAccept \/ Visit \/ (CheckSignal /\ pc' # "exit")
  /\ UNCHANGED <<startup, file, queue>>

(* shutdown_function *)
Shutdown ==
  /\ CheckSignal /\ pc' = "exit"
  /\ perform_cleanup
  /\ file' = FALSE
  /\ UNCHANGED <<build, at, p, flag, handled, ring, queue>>

LoopOfMain == EnterLoop \/ RemoveNode \/ EndOfWalk \/ Elsewhere \/ Shutdown

ServeConnection(n) == Serve(n) /\ MayCreateFile /\ UNCHANGED <<startup, queue>>

OtherClient == (AcceptWithoutThread \/ AcceptFails) /\ UNCHANGED <<startup, file, queue>>

(* A signal kills a process that has no handler for it yet. *)
ServerSignal ==
  \E sig \in {"SIGINT", "SIGTERM"} :
    /\ at \notin {"failed", "killed"}
    /\ IF sig \in handled
       THEN SignalToMain /\ UNCHANGED startup
       ELSE at' = "killed" /\ UNCHANGED <<vars, build, socket, flag, handled, alarm>>
    /\ UNCHANGED <<file, queue>>

ServerNext ==
  \/ StartUp \/ LoopOfMain \/ InsertNode \/ OtherClient \/ ServerSignal
  \/ \E n \in Node : \/ ServeConnection(n)
                     \/ (SignalToThread(n) \/ Return(n)) /\ UNCHANGED <<startup, file, queue>>

ServerSpec == ServerInit /\ [][ServerNext]_serverVars

(* main and its threads keep running while they can; every client closes in
   the end, and nobody has to connect. *)
ServerFairSpec ==
  /\ ServerSpec
  /\ WF_serverVars(StartUp \/ LoopOfMain)
  /\ \A n \in Node : /\ WF_serverVars(ServeConnection(n))
                     /\ WF_serverVars(Return(n) /\ UNCHANGED <<startup, file, queue>>)

----------------------------------------------------------------------------
(* The pointers of the TAILQ spell the list of main, forward and backward,
   through every insertion at the tail and every removal in the middle of a
   walk (queue.h:757). *)
QueueIsList == pc # "start" => TQ!Spells(queue, list)

(* The flags that main keeps by hand release each thing once on every way
   out: the addresses are freed once and never leak, no timer is left armed
   and no data file stays after an orderly exit. *)
ReleasedOnce ==
  /\ addr # "freed twice"
  /\ at \in {"failed", "loop"} => addr # "held"
  /\ at = "failed" \/ pc = "exit" => timer # "armed"
  /\ pc = "exit" => ~file

(* Once the loop runs, clients can connect, the signals that end the server
   have their handler, and no alarm comes without handler and ring. *)
ReadyInLoop ==
  /\ timer = "armed" => "SIGALRM" \in handled /\ ring
  /\ pc \notin {"start", "exit"} =>
       /\ sock = "listening"
       /\ {"SIGINT", "SIGTERM"} \subseteq handled
       /\ fileBuild => timer = "armed"

StartIsWhole == ReleasedOnce /\ ReadyInLoop

(* A signal that the handler takes before main is in accept() ends the server
   whatever is being served, also when it comes before the loop. *)
SeenSignalExits ==
  (caught /\ pc \notin {"call", "accept"}) ~> (pc = "exit" \/ at \in {"failed", "killed"})
=============================================================================
