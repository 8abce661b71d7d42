--------------------------- MODULE ExamplesProofs ---------------------------
(***************************************************************************)
(* Proofs about the two course libraries: for any number of threads, any   *)
(* waits and any signals a thread sleeps its whole time, and for any       *)
(* number of calls and any exit codes a call returns true only for a       *)
(* command that ran and exited with 0.                                     *)
(***************************************************************************)
EXTENDS Examples, TLAPS

Time == {ts \in [tv_sec : Nat, tv_nsec : Nat] : Milliseconds(ts) \in Nat}

(* Splitting a time into seconds and the rest, and adding them up again,
   loses nothing. *)
LEMMA TimespecExact ==
  ASSUME NEW ms \in Nat
  PROVE  Timespec(ms) \in Time /\ Milliseconds(Timespec(ms)) = ms
<1>1. /\ ms \div MSEC_PER_SEC \in Nat /\ ms % MSEC_PER_SEC \in Nat
      /\ ms = MSEC_PER_SEC * (ms \div MSEC_PER_SEC) + (ms % MSEC_PER_SEC)
  BY ThreadingAssumption
<1> QED
  BY <1>1 DEF Timespec, Milliseconds, Time

(* A sleep that has not ended lacks exactly what nanosleep is asked for. *)
SleepInv ==
  /\ pcs \in [Thread -> {"none", "failed", "sleep", "lock", "hold", "unlock", "ended"}]
  /\ params \in [Thread -> [obtain : Time, release : Time]]
  /\ sleep_time \in [Thread -> Time]
  /\ slept \in [Thread -> Nat]
  /\ success \in [Thread -> BOOLEAN]
  /\ mutex \in Thread \cup {NoThread}
  /\ \A t \in Thread :
       /\ pcs[t] = "none" => slept[t] = 0
       /\ pcs[t] = "sleep" =>
            slept[t] + Milliseconds(sleep_time[t]) = Milliseconds(params[t].obtain)
       /\ pcs[t] = "hold" =>
            slept[t] + Milliseconds(sleep_time[t]) = Milliseconds(params[t].release)
       /\ success[t] => pcs[t] = "ended"
  /\ SleptInFull

LEMMA SleepInvInit == ThreadingInit => SleepInv
<1> SUFFICES ASSUME ThreadingInit PROVE SleepInv
  OBVIOUS
<1>1. Timespec(0) \in Time
  BY TimespecExact
<1> QED
  BY <1>1, ThreadingAssumption DEF ThreadingInit, SleepInv, SleptInFull

LEMMA SleepInvStep == SleepInv /\ [ThreadingNext]_threadVars => SleepInv'
<1> SUFFICES ASSUME SleepInv, [ThreadingNext]_threadVars PROVE SleepInv'
  OBVIOUS
<1>1. CASE UNCHANGED threadVars
  BY <1>1 DEF threadVars, SleepInv, SleptInFull
<1>2. ASSUME NEW t \in Thread, StartThread(t) PROVE SleepInv'
  <2>1. PICK w1 \in Nat, w2 \in Nat :
          /\ params' = [params EXCEPT ![t] = [obtain |-> Timespec(w1), release |-> Timespec(w2)]]
          /\ sleep_time' = [sleep_time EXCEPT ![t] = Timespec(w1)]
    BY <1>2, ThreadingAssumption DEF StartThread
  <2>2. Timespec(w1) \in Time /\ Timespec(w2) \in Time /\ Milliseconds(Timespec(w1)) \in Nat
    BY TimespecExact
  <2>3. params' \in [Thread -> [obtain : Time, release : Time]] /\ sleep_time' \in [Thread -> Time]
    BY <2>1, <2>2 DEF SleepInv
  <2>4. params'[t].obtain = sleep_time'[t] /\ sleep_time'[t] = Timespec(w1)
        /\ \A u \in Thread \ {t} : params'[u] = params[u] /\ sleep_time'[u] = sleep_time[u]
    BY <2>1 DEF SleepInv
  <2> QED BY <1>2, <2>2, <2>3, <2>4, ThreadingAssumption DEF StartThread, SleepInv, SleptInFull
<1>3. ASSUME NEW t \in Thread, StartFails(t) PROVE SleepInv'
  BY <1>3, ThreadingAssumption DEF StartFails, SleepInv, SleptInFull
<1>4. ASSUME NEW t \in Thread, Sleep(t) PROVE SleepInv'
  <2>1. Milliseconds(sleep_time[t]) \in Nat
    BY DEF SleepInv, Time
  <2> QED BY <1>4, <2>1, ThreadingAssumption
             DEF Sleep, Asleep, AfterSleep, SleepInv, SleptInFull
<1>5. ASSUME NEW t \in Thread, SleepInterrupted(t) PROVE SleepInv'
  <2> DEFINE all == Milliseconds(sleep_time[t])
  <2>1. all \in Nat
    BY DEF SleepInv, Time
  <2>2. PICK left \in 0 .. all :
          /\ slept' = [slept EXCEPT ![t] = @ + all - left]
          /\ sleep_time' = [sleep_time EXCEPT ![t] = Timespec(left)]
          /\ pcs' = [pcs EXCEPT ![t] = IF Repeats(Timespec(left)) THEN @ ELSE AfterSleep(t)]
    BY <1>5 DEF SleepInterrupted
  <2>3. left \in Nat /\ Timespec(left) \in Time /\ Milliseconds(Timespec(left)) = left
    BY <2>1, <2>2, TimespecExact
  <2>4. ~Repeats(Timespec(left)) => left = 0
    BY <2>3, ThreadingAssumption DEF Repeats, Time, Milliseconds
  <2>5. slept[t] + all - left \in Nat
    BY <2>1, <2>2 DEF SleepInv
  <2> HIDE DEF all
  <2>6. CASE Repeats(Timespec(left))
    <3>1. pcs' = pcs
      BY <2>2, <2>6 DEF SleepInv
    <3>2. slept'[t] + Milliseconds(sleep_time'[t]) = slept[t] + all
      BY <2>1, <2>2, <2>3, <2>5 DEF SleepInv
    <3> QED BY <1>5, <2>1, <2>2, <2>3, <2>5, <3>1, <3>2, ThreadingAssumption
               DEF SleepInterrupted, Asleep, SleepInv, SleptInFull, all
  <2>7. CASE ~Repeats(Timespec(left))
    <3>1. pcs' = [pcs EXCEPT ![t] = AfterSleep(t)] /\ slept'[t] = slept[t] + all
      BY <2>1, <2>2, <2>4, <2>7 DEF SleepInv
    <3> QED BY <1>5, <2>1, <2>2, <2>3, <2>5, <3>1, ThreadingAssumption
               DEF SleepInterrupted, Asleep, AfterSleep, SleepInv, SleptInFull, all
  <2> QED BY <2>6, <2>7
<1>6. ASSUME NEW t \in Thread, Lock(t) PROVE SleepInv'
  <2>1. params[t].release \in Time /\ Milliseconds(params[t].release) \in Nat
    BY DEF SleepInv, Time
  <2> QED BY <1>6, <2>1, ThreadingAssumption DEF Lock, SleepInv, SleptInFull
<1>7. ASSUME NEW t \in Thread, LockFails(t) PROVE SleepInv'
  BY <1>7, ThreadingAssumption DEF LockFails, SleepInv, SleptInFull
<1>8. ASSUME NEW t \in Thread, Unlock(t) PROVE SleepInv'
  BY <1>8, ThreadingAssumption DEF Unlock, SleepInv, SleptInFull
<1> QED
  BY <1>1, <1>2, <1>3, <1>4, <1>5, <1>6, <1>7, <1>8 DEF ThreadingNext

(* However often it is interrupted, each thread sleeps the whole of both its
   times, and it holds the mutex exactly for the second one. *)
THEOREM SleepsInFull == Spec => []SleptInFull
<1>1. Init => SleepInv
  BY SleepInvInit DEF Init
<1>2. SleepInv /\ [Next]_vars => SleepInv'
  BY SleepInvStep DEF Next, vars, threadVars
<1>3. SleepInv => SleptInFull
  BY DEF SleepInv
<1> QED
  BY <1>1, <1>2, <1>3, PTL DEF Spec

----------------------------------------------------------------------------
WaitStatus == {StatusOfExit(c) : c \in 0 .. 255} \cup 0 .. 126

(* A status says exit with code 0 only if it is 0. *)
LEMMA ZeroStatus ==
  /\ 0 \in WaitStatus /\ ExecFailed \in WaitStatus /\ ExecFailed # 0
  /\ \A s \in WaitStatus : s \in Nat /\ (Exited(s) /\ ExitStatus(s) = 0 => s = 0)
  /\ \A c \in ExitCode : StatusOfExit(c) \in WaitStatus
  /\ \A s \in Signal : s \in WaitStatus /\ s # 0
<1>1. \A c \in 0 .. 255 : (256 * c) % 128 = 0 /\ (256 * c) \div 256 = c /\ c % 256 = c
  OBVIOUS
<1>2. \A s \in 0 .. 126 : s % 128 = s
  OBVIOUS
<1> QED
  BY <1>1, <1>2, CallsAssumption
     DEF WaitStatus, StatusOfExit, ExecFailed, Exited, ExitStatus

CallTypeOK ==
  /\ call \in 0 .. MaxCalls
  /\ fn \in [Call -> {"none", "do_system", "do_system(NULL)", "do_exec", "do_exec_redirect"}]
  /\ at \in {"caller", "system", "open", "fork", "close", "waitpid"}
  /\ at # "caller" => call \in Call
  /\ result \in [Call -> BOOLEAN]
  /\ child \in [Call -> {"none", "forked", "redirected", "caller", "command", "zombie", "reaped"}]
  /\ status \in [Call -> WaitStatus]
  /\ ran \in [Call -> {"no", "stdout", "file"}]
  /\ file \in [Call -> SUBSET {"command", "caller"}]
  /\ failed \in [Call -> SUBSET {"system", "open", "fork", "waitpid", "dup2", "execv"}]

(* The command ran where the function promises, and only it wrote there. *)
RanThere(k) ==
  /\ ran[k] = (IF fn[k] = "do_exec_redirect" THEN "file" ELSE "stdout")
  /\ file[k] \subseteq {"command"}

(* A child on its way: until its command runs nothing is in the file, and one
   that has exited with 0 was its command, or the copy of the caller. *)
ChildInv(k) ==
  /\ child[k] \in {"none", "forked", "redirected"} => file[k] = {}
  /\ child[k] = "redirected" => fn[k] = "do_exec_redirect"
  /\ child[k] = "command" => RanThere(k)
  /\ child[k] = "caller" => "dup2" \in failed[k]
  /\ child[k] \in {"zombie", "reaped"} /\ status[k] = 0 /\ "dup2" \notin failed[k] =>
       RanThere(k)

(* A call on its way. *)
CallInv(k) ==
  /\ k > call => child[k] = "none" /\ k \notin fd
  /\ k = call /\ at # "caller" =>
       /\ at \in {"system", "open", "fork"} => child[k] = "none"
       /\ at \in {"close", "waitpid"} => child[k] \notin {"none", "reaped"}
       /\ at = "system" => fn[k] \in {"do_system", "do_system(NULL)"}
       /\ at = "open" => fn[k] = "do_exec_redirect"
       /\ at \in {"system", "open", "waitpid"} => k \notin fd
       /\ at # "system" => fn[k] \in {"do_exec", "do_exec_redirect"}
       /\ at = "fork" /\ k \in fd => fn[k] = "do_exec_redirect"

(* A call that has returned. *)
ReturnInv(k) ==
  /\ result[k] /\ fn[k] # "do_system(NULL)" => child[k] = "reaped" /\ status[k] = 0
  /\ k \in fd => "fork" \in failed[k]
  /\ child[k] \notin {"none", "reaped"} => "waitpid" \in failed[k]

CallsInv ==
  /\ CallTypeOK
  /\ \A k \in Call : ChildInv(k) /\ CallInv(k)
  /\ \A k \in Returned : ReturnInv(k)

LEMMA CallsInvInit == SystemCallsInit => CallsInv
  BY ZeroStatus, CallsAssumption
     DEF SystemCallsInit, CallsInv, CallTypeOK, ChildInv, CallInv, Returned, Call

(* A step of the caller inside a call changes nothing of the other calls. *)
LEMMA OwnCall ==
  ASSUME CallsInv, at # "caller", UNCHANGED <<call, fn>>, CallTypeOK',
         \A k \in Call \ {call} :
           /\ child'[k] = child[k] /\ status'[k] = status[k] /\ ran'[k] = ran[k]
           /\ file'[k] = file[k] /\ failed'[k] = failed[k] /\ result'[k] = result[k]
           /\ k \in fd' <=> k \in fd,
         ChildInv(call)', CallInv(call)', at' = "caller" => ReturnInv(call)'
  PROVE  CallsInv'
<1>1. MaxCalls \in Nat /\ Call = 1 .. MaxCalls /\ call \in Call
  BY CallsAssumption DEF Call, CallsInv, CallTypeOK
<1>2. ASSUME NEW k \in Call PROVE ChildInv(k)' /\ CallInv(k)'
  <2>1. CASE k # call
    BY <1>1, <2>1 DEF CallsInv, ChildInv, CallInv, RanThere
  <2> QED BY <2>1
<1>3. ASSUME NEW k \in Returned' PROVE ReturnInv(k)'
  <2>1. CASE k # call
    <3>1. k \in Returned /\ k \in Call
      BY <1>1, <1>3, <2>1 DEF Returned
    <3> QED BY <2>1, <3>1 DEF CallsInv, ReturnInv
  <2>2. CASE k = call
    <3>1. at' = "caller"
      BY <1>1, <1>3, <2>2 DEF Returned
    <3> QED BY <2>2, <3>1
  <2> QED BY <2>1, <2>2
<1> QED
  BY <1>2, <1>3 DEF CallsInv

(* The caller's steps change its own call and nothing of the others; a call
   has returned when `at' is "caller" again. *)
LEMMA CallerKeepsCalls == CallsInv /\ Caller => CallsInv'
<1> SUFFICES ASSUME CallsInv, Caller PROVE CallsInv'
  OBVIOUS
<1>0. MaxCalls \in Nat /\ Call = 1 .. MaxCalls
  BY CallsAssumption DEF Call
<1> USE DEF CallsInv, CallTypeOK
<1>1. ASSUME NEW f \in {"do_system", "do_system(NULL)", "do_exec", "do_exec_redirect"}, Starts(f)
      PROVE  CallsInv'
  <2>1. /\ at = "caller" /\ call' = call + 1 /\ call' \in Call /\ call \in Nat
        /\ fn' = [fn EXCEPT ![call'] = f]
        /\ at' = IF f = "do_exec_redirect" THEN "open"
                 ELSE IF f = "do_exec" THEN "fork" ELSE "system"
        /\ UNCHANGED <<result, fd, child, status, unflushed, ran, file, failed>>
    BY <1>0, <1>1 DEF Starts
  <2>2. Returned' = Returned /\ \A k \in Returned : k \in Call /\ k # call'
    BY <1>0, <2>1 DEF Returned
  <2>3. child[call'] = "none" /\ call' \notin fd
    BY <2>1 DEF CallInv
  <2>4. ASSUME NEW k \in Call PROVE ChildInv(k)' /\ CallInv(k)'
    <3>1. CASE k = call'
      BY <2>1, <2>3, <3>1 DEF ChildInv, CallInv
    <3>2. CASE k # call'
      BY <1>0, <2>1, <3>2 DEF ChildInv, CallInv, RanThere
    <3> QED BY <3>1, <3>2
  <2>5. \A k \in Returned' : ReturnInv(k)'
    BY <2>1, <2>2 DEF ReturnInv
  <2>6. CallTypeOK'
    BY <1>0, <2>1
  <2> QED BY <2>4, <2>5, <2>6
<1>2. CASE SystemFails
  BY <1>2, OwnCall DEF SystemFails, Returns, FailsWith, ChildInv, CallInv, ReturnInv, RanThere
<1>3. CASE SystemRuns
  <2>1. PICK s \in WaitStatus :
          /\ result' = [result EXCEPT ![call] = ~(s > 0)]
          /\ status' = [status EXCEPT ![call] = s]
    <3>1. \A s \in {StatusOfExit(c) : c \in ExitCode} \cup Signal : s \in WaitStatus
      BY ZeroStatus
    <3> QED BY <1>3, <3>1, Zenon DEF SystemRuns, Returns
  <2>2. s \in Nat /\ (result'[call] => status'[call] = 0)
    <3>1. s \in Nat /\ call \in Call
      BY <1>3, ZeroStatus DEF SystemRuns
    <3>2. result'[call] <=> ~(s > 0)
      BY <2>1, <3>1, Zenon
    <3>3. status'[call] = s
      BY <2>1, <3>1
    <3> QED BY <3>1, <3>2, <3>3
  <2>3. /\ at = "system" /\ at' = "caller" /\ fn[call] = "do_system" /\ call \in Call
        /\ child' = [child EXCEPT ![call] = "reaped"] /\ ran' = [ran EXCEPT ![call] = "stdout"]
        /\ UNCHANGED <<call, fn, fd, unflushed, file, failed>>
    BY <1>3 DEF SystemRuns, Returns
  <2>4. CallTypeOK'
    BY <2>1, <2>3
  <2>5. child[call] = "none" /\ call \notin fd /\ file[call] = {}
    BY <2>3 DEF ChildInv, CallInv
  <2>6. ChildInv(call)' /\ CallInv(call)' /\ ReturnInv(call)'
    BY <2>2, <2>3, <2>5 DEF ChildInv, CallInv, ReturnInv, RanThere
  <2> QED BY <2>1, <2>3, <2>4, <2>6, OwnCall
<1>4. CASE SystemAsks
  <2>1. PICK shell \in BOOLEAN : result' = [result EXCEPT ![call] = shell]
    BY <1>4, Zenon DEF SystemAsks, Returns
  <2>2. /\ at = "system" /\ at' = "caller" /\ fn[call] = "do_system(NULL)" /\ call \in Call
        /\ UNCHANGED <<call, fn, fd, child, status, ran, file, failed>>
    BY <1>4 DEF SystemAsks, Returns
  <2>3. child[call] = "none" /\ call \notin fd
    BY <2>2 DEF CallInv
  <2>4. ChildInv(call)' /\ CallInv(call)' /\ ReturnInv(call)'
    BY <2>2, <2>3 DEF ChildInv, CallInv, ReturnInv, RanThere
  <2> QED BY <2>1, <2>2, <2>4, OwnCall
<1>5. CASE Open
  <2>1. /\ at = "open" /\ call \in Call
        /\ UNCHANGED <<call, fn, child, status, ran, file>>
    BY <1>5 DEF Open
  <2>2. child[call] = "none" /\ call \notin fd /\ fn[call] = "do_exec_redirect"
    BY <2>1 DEF CallInv
  <2>3. CASE Returns(FALSE) /\ FailsWith("open") /\ UNCHANGED fd
    BY <2>1, <2>2, <2>3, OwnCall
       DEF Returns, FailsWith, ChildInv, CallInv, ReturnInv, RanThere
  <2>4. CASE at' = "fork" /\ fd' = fd \cup {call} /\ UNCHANGED <<result, failed>>
    BY <2>1, <2>2, <2>4, OwnCall DEF ChildInv, CallInv, RanThere
  <2> QED BY <1>5, <2>3, <2>4 DEF Open
<1>6. CASE Fork
  BY <1>6, OwnCall DEF Fork, AfterFork, ChildInv, CallInv, ReturnInv, RanThere
<1>7. CASE ForkFails
  BY <1>7, OwnCall DEF ForkFails, Returns, FailsWith, ChildInv, CallInv, ReturnInv, RanThere
<1>8. CASE Close
  BY <1>8, OwnCall DEF Close, ChildInv, CallInv, ReturnInv, RanThere
<1>9. CASE WaitPid
  <2>1. /\ at = "waitpid" /\ at' = "caller" /\ child[call] = "zombie" /\ call \in Call
        /\ child' = [child EXCEPT ![call] = "reaped"]
        /\ result' = [result EXCEPT ![call] =
                        Exited(status[call]) /\ ExitStatus(status[call]) = 0]
        /\ UNCHANGED <<call, fn, fd, status, ran, file, failed>>
    BY <1>9 DEF WaitPid, Returns
  <2>2. Exited(status[call]) /\ ExitStatus(status[call]) = 0 => status[call] = 0
    BY <2>1, ZeroStatus
  <2>3. CallTypeOK'
    BY <2>1
  <2>4. ChildInv(call)' /\ CallInv(call)' /\ ReturnInv(call)'
    BY <2>1, <2>2 DEF ChildInv, CallInv, ReturnInv, RanThere
  <2> QED BY <2>1, <2>3, <2>4, OwnCall
<1>10. CASE WaitPidFails
  BY <1>10, OwnCall DEF WaitPidFails, Returns, FailsWith, ChildInv, CallInv, ReturnInv, RanThere
<1> QED
  BY <1>1, <1>2, <1>3, <1>4, <1>5, <1>6, <1>7, <1>8, <1>9, <1>10 DEF Caller

(* A child changes nothing of the caller and of the other calls. *)
LEMMA ChildKeepsCalls == ASSUME CallsInv, NEW k \in Call, Child(k) PROVE CallsInv'
<1> USE DEF CallsInv, CallTypeOK
<1>1. UNCHANGED <<call, fn, at, result, fd>>
  BY DEF Child, Dup2, Dup2Fails, Exec, ExecFails, Exits, Killed
<1>2. /\ child[k] \notin {"none", "zombie", "reaped"} /\ child'[k] \notin {"none", "reaped"}
      /\ failed[k] \subseteq failed'[k]
      /\ \A j \in Call \ {k} :
           /\ child'[j] = child[j] /\ status'[j] = status[j] /\ ran'[j] = ran[j]
           /\ file'[j] = file[j] /\ failed'[j] = failed[j]
      /\ CallTypeOK'
  <2>1. CASE Dup2(k) \/ Dup2Fails(k)
    BY <2>1 DEF Dup2, Dup2Fails
  <2>2. CASE Exec(k)
    BY <2>2 DEF Exec, AtExec
  <2>3. CASE ExecFails(k)
    BY <2>3, ZeroStatus DEF ExecFails, AtExec
  <2>4. CASE Exits(k)
    BY <2>4, ZeroStatus DEF Exits
  <2>5. CASE Killed(k)
    BY <2>5, ZeroStatus DEF Killed
  <2> QED BY <2>1, <2>2, <2>3, <2>4, <2>5 DEF Child
<1>3. ChildInv(k)'
  <2>1. CASE Dup2(k) \/ Dup2Fails(k)
    BY <2>1 DEF Dup2, Dup2Fails, ChildInv
  <2>2. CASE Exec(k)
    BY <2>2 DEF Exec, AtExec, ChildInv, RanThere
  <2>3. CASE ExecFails(k)
    BY <1>2, <2>3, ZeroStatus DEF ExecFails, ChildInv
  <2>4. CASE Exits(k)
    BY <2>4 DEF Exits, ChildInv, RanThere
  <2>5. CASE Killed(k)
    <3>1. child'[k] = "zombie" /\ status'[k] # 0
      BY <2>5, ZeroStatus DEF Killed
    <3> QED BY <3>1 DEF ChildInv
  <2> QED BY <2>1, <2>2, <2>3, <2>4, <2>5 DEF Child
<1>4. ASSUME NEW j \in Call PROVE ChildInv(j)' /\ CallInv(j)'
  <2>1. CASE j = k
    BY <1>1, <1>2, <1>3, <2>1 DEF CallInv
  <2>2. CASE j # k
    BY <1>1, <1>2, <2>2 DEF ChildInv, CallInv, RanThere
  <2> QED BY <2>1, <2>2
<1>5. ASSUME NEW j \in Returned' PROVE ReturnInv(j)'
  <2>1. j \in Returned /\ j \in Call
    BY <1>1, <1>5, CallsAssumption DEF Returned, Call
  <2>2. CASE j = k
    BY <1>1, <1>2, <2>1, <2>2 DEF ReturnInv
  <2>3. CASE j # k
    BY <1>1, <1>2, <2>1, <2>3 DEF ReturnInv
  <2> QED BY <2>2, <2>3
<1> QED
  BY <1>2, <1>4, <1>5

LEMMA CallsInvStep == CallsInv /\ [SystemCallsNext]_callVars => CallsInv'
<1> SUFFICES ASSUME CallsInv, [SystemCallsNext]_callVars PROVE CallsInv'
  OBVIOUS
<1>1. CASE UNCHANGED callVars
  BY <1>1 DEF callVars, CallsInv, CallTypeOK, Returned, ReturnInv, CallInv, ChildInv, RanThere
<1> QED
  BY <1>1, CallerKeepsCalls, ChildKeepsCalls DEF SystemCallsNext

LEMMA CallsInvAlways == Spec => []CallsInv
<1>1. Init => CallsInv
  BY CallsInvInit DEF Init
<1>2. CallsInv /\ [Next]_vars => CallsInv'
  BY CallsInvStep DEF Next, vars, callVars
<1> QED
  BY <1>1, <1>2, PTL DEF Spec

(* true means that the command of this call ran, exited with 0 and wrote
   where it was told to, unless dup2 failed. *)
THEOREM TrueIsDone == Spec => []TrueMeansDone
<1>1. CallsInv => TrueMeansDone
  <2> SUFFICES ASSUME CallsInv, NEW k \in Returned, result[k], fn[k] # "do_system(NULL)",
                      "dup2" \notin failed[k]
               PROVE  child[k] = "reaped" /\ status[k] = 0 /\ RanThere(k)
    BY DEF TrueMeansDone, RanThere
  <2>1. k \in Call
    BY CallsAssumption DEF Returned, Call, CallsInv, CallTypeOK
  <2> QED BY <2>1 DEF CallsInv, ReturnInv, ChildInv
<1> QED
  BY <1>1, CallsInvAlways, PTL

(* A call that returned left a descriptor only if fork failed, and a child
   only if waitpid did. *)
THEOREM CallsReturnClean == Spec => []ReturnsClean
<1>1. CallsInv => ReturnsClean
  BY DEF CallsInv, ReturnInv, ReturnsClean
<1> QED
  BY <1>1, CallsInvAlways, PTL
=============================================================================
