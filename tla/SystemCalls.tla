----------------------------- MODULE SystemCalls -----------------------------
(***************************************************************************)
(* examples/systemcalls/systemcalls.c: a process calls do_system, do_exec  *)
(* and do_exec_redirect one after the other.  Each forks a child, which    *)
(* executes the command, and waits for it; the k-th call's child, file and *)
(* descriptor carry the number k.  Any library call may fail, a signal may *)
(* interrupt waitpid or kill the child, and the command may exit with any  *)
(* code.  stdout is taken to be buffered: text that printf has not yet     *)
(* written out is copied into the child by fork.                           *)
(***************************************************************************)
EXTENDS Integers

CONSTANTS
  MaxCalls,    (* bound: calls the process makes                            *)
  ExitCode,    (* what a command may exit with                              *)
  Signal       (* what may kill it                                          *)

ASSUME CallsAssumption ==
  /\ MaxCalls \in Nat /\ 0 \in ExitCode /\ ExitCode \subseteq 0 .. 255
  /\ Signal \subseteq 1 .. 126

VARIABLES
  call,        (* the number of calls so far                                *)
  fn,          (* call -> the function                                      *)
  at,          (* where the caller is in it                                 *)
  result,      (* call -> what it returned                                  *)
  fd,          (* the calls whose output file the caller has open           *)
  child,       (* call -> its child                                         *)
  status,      (* call -> the child's wait status                           *)
  unflushed,   (* the processes with text in their stdout buffer: 0 is the
                  caller, k the child of call k                             *)
  ran,         (* auxiliary: call -> where the command's output goes, once
                  it runs                                                   *)
  file,        (* call -> who wrote in its output file                      *)
  failed       (* auxiliary: call -> the library calls that failed          *)

callVars == <<call, fn, at, result, fd, child, status, unflushed, ran, file, failed>>

Call == 1 .. MaxCalls

SystemCallsInit ==
  /\ call = 0
  /\ fn = [k \in Call |-> "none"]
  /\ at = "caller"
  /\ result = [k \in Call |-> FALSE]
  /\ fd = {}
  /\ child = [k \in Call |-> "none"]
  /\ status = [k \in Call |-> 0]
  /\ unflushed = {}
  /\ ran = [k \in Call |-> "no"]
  /\ file = [k \in Call |-> {}]
  /\ failed = [k \in Call |-> {}]

(* The wait status of an exit, and WIFEXITED and WEXITSTATUS of a status. *)
StatusOfExit(code) == 256 * code

ExitedAnyway(s) == TRUE

Exited(s) == s % 128 = 0

ExitStatus(s) == (s \div 256) % 256

(* exit(-1) *)
ExecFailed == StatusOfExit(255)

Returns(r) ==
  /\ at' = "caller"
  /\ result' = [result EXCEPT ![call] = r]

FailsWith(libcall) == failed' = [failed EXCEPT ![call] = @ \cup {libcall}]

Starts(f) ==
  /\ at = "caller" /\ call < MaxCalls
  /\ call' = call + 1
  /\ fn' = [fn EXCEPT ![call'] = f]
  /\ at' = IF f = "do_exec_redirect" THEN "open" ELSE IF f = "do_exec" THEN "fork" ELSE "system"
  /\ UNCHANGED <<result, fd, child, status, unflushed, ran, file, failed>>

----------------------------------------------------------------------------
(* do_system: system() runs a shell and waits for it; what it returns is the
   shell's wait status, or with no command whether there is a shell. *)
SystemFails ==
  /\ at = "system"
  /\ Returns(FALSE) /\ FailsWith("system")
  /\ UNCHANGED <<call, fn, fd, child, status, unflushed, ran, file>>

SystemRuns ==
  /\ at = "system" /\ fn[call] = "do_system"
  /\ \E s \in {StatusOfExit(c) : c \in ExitCode} \cup Signal :
       /\ Returns(~(s > 0))
       /\ status' = [status EXCEPT ![call] = s]
  /\ child' = [child EXCEPT ![call] = "reaped"]
  /\ ran' = [ran EXCEPT ![call] = "stdout"]
  /\ UNCHANGED <<call, fn, fd, unflushed, file, failed>>

SystemAsks ==
  /\ at = "system" /\ fn[call] = "do_system(NULL)"
  /\ \E shell \in BOOLEAN : Returns(shell)
  /\ unflushed' = unflushed \cup {0}
  /\ UNCHANGED <<call, fn, fd, child, status, ran, file, failed>>

(* do_exec_redirect opens its file first. *)
Open ==
  /\ at = "open"
  /\ \/ Returns(FALSE) /\ FailsWith("open") /\ UNCHANGED fd
     \/ at' = "fork" /\ fd' = fd \cup {call} /\ UNCHANGED <<result, failed>>
  /\ UNCHANGED <<call, fn, child, status, unflushed, ran, file>>

(* fork; the parent in do_exec_redirect then closes the file. *)
NoClose(f) == "waitpid"

AfterFork(f) == IF f = "do_exec_redirect" THEN "close" ELSE "waitpid"

Fork ==
  /\ at = "fork"
  /\ child' = [child EXCEPT ![call] = "forked"]
  /\ unflushed' = IF 0 \in unflushed THEN unflushed \cup {call} ELSE unflushed
  /\ at' = AfterFork(fn[call])
  /\ UNCHANGED <<call, fn, result, fd, status, ran, file, failed>>

(* The file stays open. *)
ForkFails ==
  /\ at = "fork"
  /\ Returns(FALSE) /\ FailsWith("fork")
  /\ UNCHANGED <<call, fn, fd, child, status, unflushed, ran, file>>

Close ==
  /\ at = "close"
  /\ fd' = fd \ {call}
  /\ at' = "waitpid"
  /\ UNCHANGED <<call, fn, result, child, status, unflushed, ran, file, failed>>

(* waitpid for this child; a code other than 0 is reported with printf. *)
WaitPid ==
  /\ at = "waitpid" /\ child[call] = "zombie"
  /\ child' = [child EXCEPT ![call] = "reaped"]
  /\ LET s == status[call]
     IN  /\ Returns(Exited(s) /\ ExitStatus(s) = 0)
         /\ unflushed' = IF Exited(s) /\ ExitStatus(s) # 0 THEN unflushed \cup {0} ELSE unflushed
  /\ UNCHANGED <<call, fn, fd, status, ran, file, failed>>

(* A signal interrupts waitpid: the child goes on, and nobody waits for it. *)
WaitPidFails ==
  /\ at = "waitpid"
  /\ Returns(FALSE) /\ FailsWith("waitpid")
  /\ UNCHANGED <<call, fn, fd, child, status, unflushed, ran, file>>

Caller ==
  \/ \E f \in {"do_system", "do_system(NULL)", "do_exec", "do_exec_redirect"} : Starts(f)
  \/ SystemFails \/ SystemRuns \/ SystemAsks
  \/ Open \/ Fork \/ ForkFails \/ Close \/ WaitPid \/ WaitPidFails

----------------------------------------------------------------------------
(* The child of do_exec_redirect makes the file its stdout. *)
Dup2(k) ==
  /\ child[k] = "forked" /\ fn[k] = "do_exec_redirect"
  /\ child' = [child EXCEPT ![k] = "redirected"]
  /\ UNCHANGED <<call, fn, at, result, fd, status, unflushed, ran, file, failed>>

(* If that fails the child returns false, as a second copy of the caller. *)
Dup2Fails(k) ==
  /\ child[k] = "forked" /\ fn[k] = "do_exec_redirect"
  /\ child' = [child EXCEPT ![k] = "caller"]
  /\ failed' = [failed EXCEPT ![k] = @ \cup {"dup2"}]
  /\ UNCHANGED <<call, fn, at, result, fd, status, unflushed, ran, file>>

AtExec(k) == child[k] = (IF fn[k] = "do_exec_redirect" THEN "redirected" ELSE "forked")

(* The command takes the place of the child, with its buffer. *)
Exec(k) ==
  /\ AtExec(k)
  /\ child' = [child EXCEPT ![k] = "command"]
  /\ ran' = [ran EXCEPT ![k] = IF child[k] = "redirected" THEN "file" ELSE "stdout"]
  /\ file' = IF child[k] = "redirected" THEN [file EXCEPT ![k] = @ \cup {"command"}] ELSE file
  /\ unflushed' = unflushed \ {k}
  /\ UNCHANGED <<call, fn, at, result, fd, status, failed>>

(* The child exits and so writes out what the caller had in its buffer, to
   the output file if it has that as stdout. *)
ExecFails(k) ==
  /\ AtExec(k)
  /\ child' = [child EXCEPT ![k] = "zombie"]
  /\ status' = [status EXCEPT ![k] = ExecFailed]
  /\ file' = IF child[k] = "redirected" /\ k \in unflushed
             THEN [file EXCEPT ![k] = @ \cup {"caller"}] ELSE file
  /\ unflushed' = unflushed \ {k}
  /\ failed' = [failed EXCEPT ![k] = @ \cup {"execv"}]
  /\ UNCHANGED <<call, fn, at, result, fd, ran>>

(* The command exits, as may the copy of the caller, with any code. *)
Exits(k) ==
  /\ child[k] \in {"command", "caller"}
  /\ \E c \in ExitCode : status' = [status EXCEPT ![k] = StatusOfExit(c)]
  /\ unflushed' = unflushed \ {k}
  /\ child' = [child EXCEPT ![k] = "zombie"]
  /\ UNCHANGED <<call, fn, at, result, fd, ran, file, failed>>

Killed(k) ==
  /\ child[k] \in {"forked", "redirected", "command", "caller"}
  /\ \E s \in Signal : status' = [status EXCEPT ![k] = s]
  /\ unflushed' = unflushed \ {k}
  /\ child' = [child EXCEPT ![k] = "zombie"]
  /\ UNCHANGED <<call, fn, at, result, fd, ran, file, failed>>

Child(k) == Dup2(k) \/ Dup2Fails(k) \/ Exec(k) \/ ExecFails(k) \/ Exits(k) \/ Killed(k)

SystemCallsNext == Caller \/ \E k \in Call : Child(k)

----------------------------------------------------------------------------
Returned == IF at = "caller" THEN 1 .. call ELSE 1 .. call - 1

(* systemcalls.c:83: a call returns true only if its own command was executed
   and exited with 0, and do_exec_redirect only if the output is in the file,
   with nothing of the caller's in it.  Excepted is a child that returns into
   the caller's code because dup2 failed: its exit is taken for the
   command's. *)
TrueMeansDone ==
  \A k \in Returned :
    result[k] /\ fn[k] # "do_system(NULL)" /\ "dup2" \notin failed[k] =>
      /\ child[k] = "reaped" /\ status[k] = 0
      /\ ran[k] = (IF fn[k] = "do_exec_redirect" THEN "file" ELSE "stdout")
      /\ file[k] \subseteq {"command"}

(* A call leaves no descriptor open and no child behind, whatever fails in it,
   except that the file stays open if fork fails (systemcalls.c:212) and the
   child is left if waitpid does. *)
ReturnsClean ==
  \A k \in Returned :
    /\ k \in fd => "fork" \in failed[k]
    /\ child[k] \notin {"none", "reaped"} => "waitpid" \in failed[k]
=============================================================================
