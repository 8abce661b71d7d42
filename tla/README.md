# aesdsocket and aesdchar in TLA+

This directory is a verification project for the repository's programs that have state worth
checking: the character device `/dev/aesdchar` (`aesd-char-driver/`), the socket server
`aesdsocket` (`server/`), and the two libraries under `examples/`. It holds TLA+ modules translated from the C code, TLC configurations
that model-check small instances of them, and proofs that TLAPS checks for every value of the
constants. Paths and line numbers are those of the repository at the modelled commit.

Contents: 1 the system, 2 modules and code, 3 what the runs check, 4 bounds, 5 fairness, 6 what is
proved, 7 findings, 8 what is not modelled, 9 plan.

## 1. The system: an inventory

| part | state | operations | talks to |
|---|---|---|---|
| circular buffer (`aesd-circular-buffer.c/.h`) | 10 slots, `in_offs`, `out_offs`, `full`, `buff_size` | `add_entry`, `find_entry_offset_for_fpos`, `ret_offset`, `init`, destroy walk | called by the driver under its mutex |
| character device (`main.c`, `aesdchar.h`, `aesd_ioctl.h`) | the ring, `working_buffer`, `lock`; per open file `f_pos` | open, release, read, write, llseek, ioctl, module init and exit | processes through system calls; the ring; `kmalloc`/`kfree` |
| connection thread (`aesdsocket.c`: `aesd_char_thread`, `dump_content`, `echo_file_socket`) | `buf`, `buf_len`, `buf_cap`, `start_ptr`, the socket, the device's descriptor | receive, find a newline, write or ioctl, read and send back, finish | the client; the device; its list node (`thread_completed`) |
| main thread (`main`, `sighandler`) | list of nodes, `connection_count`, `signal_caught` | accept, start a thread, walk and join, exit | threads through the list; signals |
| file build (`#ifndef USE_AESD_CHAR_DEVICE`: `server_thread`, timer, `alarmhandler`, ring of timestamps) | `/var/tmp/aesdsocketdata`, a mutex, 8 timestamps with two flags | packet under the mutex, timestamp by whoever finishes, or by main when nobody is connected | SIGALRM handler and threads share the ring with no lock |
| list macros (`queue.h`) | `tqh_first`, `tqe_next` | INIT, INSERT_TAIL, FOREACH_SAFE, REMOVE | main |
| start-up and cleanup (`main` before its loop, `perform_cleanup`, `shutdown_function`) | address list, socket, signal handlers, ring, timer, data file, and the flags that say what to release | getaddrinfo, socket, bind, fork and setsid of the daemon, listen, sigaction, timer calls; cleanup by flags | signals at every step; the loop |
| `examples/systemcalls` | children, their wait status, the output file, stdout's buffer | `do_system`, `do_exec`, `do_exec_redirect` | the kernel: fork, dup2, execv, waitpid |
| `examples/threading` | per thread its waits and success, one mutex | `start_thread_obtaining_mutex`, `threadfunc` | signals end `nanosleep` early |
| `finder-app`, scripts, CI, autotest examples | – | straight-line utilities and build tooling | – |

The path of a packet: a client sends bytes that end with a newline; its thread opens the device,
writes the packet (or turns `AESDCHAR_IOCSEEKTO:a,b` into an ioctl), reads the device to its end,
sends what it reads, and closes the device. The device cuts what is written into commands at
newlines, keeps an unfinished one in `working_buffer`, and keeps the last 10 commands. Threads are
started and joined by main; a signal only sets a flag that main tests once per turn of its loop.

What is hard here, and hard to test:

* *interleaving*: writers and readers of the device meet at one interruptible mutex; threads finish
  while main walks the list; a signal handler and threads share the ring of timestamps unlocked;
* *stale state*: a file position is an index from the oldest command and outlives evictions; a
  thread touches its node after it announced that it is done;
* *partial failure*: an allocation, a copy to user space, a write, a send or a realloc fails in the
  middle, and every such place has its own label to jump to; what start-up took is recorded in flags kept by hand;
  a child whose `dup2` or `execv` fails must not look like a command that worked;
* *retries*: `write` and `read` on the device return `EINTR` and are called again; `nanosleep` is
  called again for what remains;
* *boundaries*: full and empty look the same to the offsets, `size - 1` comparisons, wrapping;
* *long legal sequences*: `buff_size`, `start_ptr`, `connection_count` are kept by hand;
* *liveness*: every call returns, every packet is served, a signal ends the server.

`PROJECT.json` lists these as hazards, each at its line and with the properties that cover it.
What makes each component correct is stated there and, in words, before each property.

## 2. Modules and code

| module | models | notes |
|---|---|---|
| `CircularBufferOps` | every function of `aesd-circular-buffer.c` as an operator on one record | no variables; size_t arithmetic of `ret_offset` modulo `UIntMod` |
| `CircularBuffer` | the ring as a state machine: `Add` is `add_entry` plus the caller's `kfree` of what it returns | |
| `BoundedLog` | abstract: the last N entries, oldest first | refined by `CircularBuffer` |
| `AesdChar` | `main.c`: each process has one open file | actions below |
| `CommandDevice` | abstract: a log of commands and a partial command, extended by whole chunks | refined by `AesdChar` |
| `AesdSocketWorker` | one connection thread, one action per system call | stream contents and cuts are arbitrary |
| `AesdSystem` | `AesdChar` where each process is a connection thread | composition of server and driver |
| `AesdSocketMain` | the loop of `main`, the list of threads, join and free, signals | list = sequence of node addresses; addresses are reused |
| `TailQueue` | INIT, INSERT_TAIL and REMOVE of `queue.h` on the pointers themselves | operators only |
| `AesdServer` | all of `main` in both builds: start-up, `AesdSocketMain`'s loop on `TailQueue`'s pointers, `perform_cleanup`, timer, data file | implements `AesdSocketMain` |
| `TimestampRing` | the ring of timestamps, one action per shared access | |
| `AesdSocketFile` | `server_thread`, main, mutex and file of the file build, over `TimestampRing` | implements `TimestampRing` |
| `SystemCalls` | `systemcalls.c`: the caller and its children, one action per system call | |
| `Threading` | `threading.c`: threads that sleep, lock, sleep, unlock | time in ms, split into seconds and rest |
| `Examples` | a program that uses one of the two libraries | one run for both |
| `MC*` | values for constants and symmetry sets | |
| `*Proofs` | theorems, one module for each of `CircularBufferOps` (lemmas only), `CircularBuffer`, `AesdChar`, `AesdSystem`, `AesdServer` (with `AesdSocketMain`), `AesdSocketWorker`, `AesdSocketFile`, `Examples` | section 6 |

**AesdChar.** Kernel memory is a function `mem` whose domain is what is allocated, so a use after
free, a double free and a leak are visible as states. `aesd_write` is `WriteCopy` (kmalloc and
copy_from_user), `Acquire` or `Interrupted`, then one `WriteChunk` or `WriteFails` for each turn of
its loop, then `WriteReturn` (unlock, free, return). `aesd_read` is `ReadStart`, `Acquire`,
`ReadFind` (or `ReadEOF`), then `ReadCopy` or `ReadFault`. ioctl and llseek are `SeekStart`,
`Acquire`, then `SeekToCommand` or `Llseek`. `Load` and `Unload` are module init and exit.
Everything inside the mutex could be one step; it is cut so that a mutated lock shows.
Calls that fail before they change anything are not actions. A byte is the process that wrote it or
the newline: that is enough to see whose bytes went where. With every address of `Ptr` in use
(`Exhausted`) `kmalloc` fails, so a write does not start and a turn of its loop that needs a new buffer
takes the error path (`MustFail`); no theorem assumes that memory suffices.

**AesdSocketWorker.** `recv` returns any bytes (x, newline, or K for the text of a seek command),
`write`, `read` and `send` take or give any part. The device's contents are positions `1 .. k`, so a
repeated or lost byte of the echo is visible. `Exit(label)` is the chain of labels at the end of the
function. The thread's `EINTR` retries change nothing here; they are in `AesdSystem`.

**AesdSocketMain.** `pc` is "start" until `Begin`, and then names the states of the code's switch and the
places inside them that matter (on the way into `accept`, inside it, the walk, the join). A signal goes to main
(`SignalToMain`: `accept` returns EINTR if main is in it) or to another thread (`SignalToThread`:
only the flag is set). A thread is serving, then completed (`thread_completed` set), then ended
(after its last use of the node).

**AesdServer.** `at` is the library call that main is to make before its loop; `Fails(call)` is that call
failing, with the `perform_cleanup` and the return that follow. The flags are the three booleans of the code, and
`perform_cleanup` tests `free_address_info` twice, as line 428 does. A signal kills a process that has no
handler for it yet. Each action of the loop is the one of `AesdSocketMain` together with what it does
to the list's pointers and to the data file; freeing a node forgets its pointers, so a pointer left in a freed
node shows. The daemon's parent works on its own copy of the state and exits; only the child goes on.

**SystemCalls, Threading.** The k-th call, its child, file and descriptor carry the number k. A child is
forked, redirected, then the command, or a zombie; a wait status has the encoding that
`WIFEXITED` and `WEXITSTATUS` take apart. Text in stdout's buffer at a `fork` is in the child's buffer too.
In `Threading` a wait is a timespec, and a signal may leave any part of it.

**AesdSystem.** `at[p]` is the call the thread is about to make; every action is an action of
`AesdChar` together with what the thread does with its result. It assumes the device is loaded
before the server and stays.

**TimestampRing, AesdSocketFile.** Enqueue and dequeue are cut at every access to `wptr`, `rptr`,
the slots and the two flags. The handler runs on main, which does nothing meanwhile; the other threads
go on. A packet or timestamp is two units, so that a write can stop in the middle.

## 3. What the runs check

| run | question | shows |
|---|---|---|
| `ring` | is the ring a bounded log, whatever is added? | `LogSpec` (refinement); the flag and the offsets agree (`RingShape`); every buffer in exactly one slot (`BuffersAccounted`); `buff_size` is the sum of sizes; `find_entry…` returns the byte at each position and nothing past the end (`FindLocatesByte`); until the ring wraps, a seek by command number is right (`SeekBeforeWrap`) |
| `driver` | do concurrent calls with failures keep the device right? | `DeviceSpec` (refinement of `CommandDevice`); the mutex is held exactly between lock and unlock; every buffer has one owner over load, unload, failures (`OneOwner`); the device holds the last N commands and the unfinished one (`HoldsRecentCommands`); readers skip and repeat nothing (`ScanIsPrefix`, `EOFMeansAll`); a copy stays in a live buffer (`ReadsInBounds`) |
| `system` | do threads and driver together serve packets? | each packet is stored once though `EINTR` repeats writes (`StoredOnce`); the echo has the thread's own packet unless N later ones displaced it (`EchoHasPacket`); every packet is served, so every call returns (`PacketServed`) |
| `worker` | what does one thread do with an arbitrary stream? | the window it scans was received (`WindowReceived`); the first two packets are exact; the echo is exact; every way out releases everything once (`CleanExit`); the thread ends after its peer (`EndsAfterPeer`) |
| `main_loop` | does main start, serve and stop in order, whatever fails and whenever a signal comes? | the loop is entered only when clients can connect and every handler is in place, and each resource is released once (`StartIsWhole`); the TAILQ's pointers spell the list (`QueueIsList`), the walk never steps into a freed node (`CursorAllocated`), list and count agree (`ListOwnsThreads`), exit only when all are joined (`ExitIsClean`), no node freed under its thread (`FreedAfterEnd`), a signal that main sees, also one during start-up, ends the server (`SeenSignalExits`) |
| `file_build` | is the shared file right? | the mutex is held exactly inside (`MutexHeld`), strings are whole (`StringsWhole`), the echo is the file (`EchoIsFile`), the timestamps stay in order unless a thread dequeues while an alarm is being handled (`RingSafeOnMain`) |
| `examples` | do the two libraries keep what their headers promise? | true means the command ran, exited with 0 and wrote where it should (`TrueMeansDone`); no descriptor and no child left (`ReturnsClean`); sleeps last the whole time and the mutex is held for it, however often they are interrupted (`SleptInFull`) |
| `seek_after_wrap`, `multi_line_write`, `third_packet`, `idle_signal`, `timestamp_race` | violations, see section 7 | |

Every property of a passing run has a mutant in `PROJECT.json`: a plausible bug in one definition
(a dropped guard, an off-by-one, a forgotten reset) under which TLC finds the property violated.
The mutated forms stand beside the definitions they replace (`NextSlotUnbounded`,
`AfterEINTRGivesUp`, ...); no specification uses them.

## 4. Bounds, and why they are enough

* `ring`: N = 3 slots instead of 10, sizes up to 2, 4 addresses. All offsets, wraps and the full
  ring occur; the state space is finite without a counter. `UIntMod` = 8 stands for the wrap of
  `size - 1`. The proofs cover every N.
* `driver`: N = 2, two processes, 3 writes: enough to fill the ring, evict, and have one writer and
  one reader at every point of each other's calls. Payloads are a whole command and one with its
  newline first, so that commands are split over calls. 6 addresses are enough that `kmalloc` always finds a
  free one. `KreallocFails` is FALSE (see section 7).
* `system`: N = 2, two threads, two packets each, one interrupted call (`MaxSignals`). Four packets in two
  slots evict under a running echo. `MaxWrites` is at least packets plus signals
  (`BoundsAssumption`), so the bound never stops a thread. A read asks for 2 bytes, a whole packet;
  after a seek into the middle of one it gets the rest.
* `worker`: 5 bytes, buffer unit 2, echo of 2 bytes: up to five packets, growth of the buffer twice,
  every cut. The third packet is the first that goes wrong.
* `main_loop`: 3 nodes, reused without limit; 1 lost socket; 2 addresses, so that a bind can fail and the next one
  succeed, or all fail. With three nodes the walk removes the first, a middle and the last one. Both builds and
  daemon mode are chosen at the start.
* `examples`: 2 calls (the first may leave text, a descriptor or a child to the second), exit codes 0, 1 and 127, one
  signal; 2 threads that wait 0, 1 or 3 ms where a second has 2 ms, so that a wait has seconds, a rest, both or neither.
* `file_build`: 2 threads with 4 units (two packets) each, a ring of 2 timestamps, 3 alarms: the ring
  gets full, refuses, and wraps. Its depth is a power of 2, as `% CIRCULAR_BUF_DEPTH` of the code's unsigned pointers
  needs (`DepthAssumption`). At most one alarm is handled during a dequeue: the timer has a period
  of 10 s.
* `CHECK_DEADLOCK FALSE` where the program can stop: the server exits, a thread ends, or the bounded
  client has nothing more to send.
* Symmetry (processes, threads) is used only in runs without liveness.

## 5. Fairness

* `AesdSystem!SysFairSpec`: a process inside a call keeps running (weak fairness of
  what it does while it holds the mutex), and a waiter gets the mutex in the end (strong fairness of
  `Locking`): the kernel's mutex queues its waiters and hands over to the first one that waits too long.
  No fairness makes anybody call, a signal come, or an allocation fail. `PacketServed` needs that
  only finitely many signals interrupt a thread: `dump_content` repeats for ever otherwise.
* `AesdSocketWorker!FairSpec`: the thread keeps running. `recv` returning is part of `Step`, but no
  property needs a client to send: `EndsAfterPeer` starts when it has closed, and then `recv` returns.
* `AesdServer!ServerFairSpec`: main keeps running, in start-up and in its loop, and the threads keep running;
  clients that are being served finish. Nobody has to connect; so `SeenSignalExits` starts where the handler has set the
  flag and main is not on its way into `accept` or inside it: during start-up or while it walks its list.
* `AesdSocketMain!FairSpec` is the same for the loop alone; under it `IdleSignalExits`, which asks the same when main
  is at `accept` with nobody connected, fails.
* The examples have no liveness property: a thread may be asked to hold its mutex for any length of time, and signals may
  interrupt its sleep for ever.

## 6. What is proved

All theorems are for every value of the constants that satisfies the named assumptions of the modules,
with three hypotheses that some of them state:

* `~KreallocFails`, in the theorems about the driver's state. When `krealloc` fails the code frees `working_buffer` and
  keeps its address and size (`main.c:88`), so ownership is false after it, and TLC shows that; `kmalloc` may fail.
* `OneLine`, a write passes at most one newline, in the theorems about commands. With two newlines in one write the code
  stores the second command short (section 7, `multi_line_write`), so they are false without it. Commands may still be split
  over any number of writes of any processes.
* `OnePacket`, in the theorems about server and driver together: a packet is one data byte and its newline. `StoredOnce` counts
  packets by their data bytes.

`SeeksBeforeWrap` needs `N * MaxSize <= UIntMod`: `size_t` holds the sum of all entries.

**Ring.** `CircularBufferOpsProofs` has the lemmas on the operators. What a sum, a fold or a flattened sequence of
unknown length is, is shown without an induction theorem, by the least counterexample: the numbers below the length have a
least one at which the claim fails (`LeastIn`, from the library's `WFMin`), and `Climb` packs this into "0 is in T, and k + 1
with every k, so 0 .. n is". `FlattenSeqIs`, `FlattenAppend` and `FlattenHead` follow.
`CircularBufferProofs` proves all six properties of the run and the type invariant: `TypeCorrect`, `ShapeKept`, `BuffersKept`,
`SizeKept`, `PositionsLocateBytes`, `SeeksBeforeWrap`, `ImplementsLog`. `TypeOK` alone says nothing of which slots are in use, so
the inductive invariant adds `RingShape` (slot `out_offs + k` is empty exactly for k >= Count), that the used slots hold distinct
buffers, and that `buff_size` is the sum over the used slots (`Exact`). A reader's position and the lookup's walk meet in
`BytesBefore`, the running sum of the sizes from `out_offs` on.

**Driver.** `AesdCharProofs`, in four layers, each inductive relative to those before it:

* `DevInv` is the state: `LockInv` (the mutex, the program counters, nobody inside while the module is not loaded), `DeviceOK`
  (the ring is a ring; `Held`: every allocated buffer belongs to exactly one of the ring, the working buffer, the calls of write and
  what a reload lost; sizes of entries are lengths of buffers), `CallersOK` and, for each process, `WriteOK` and `ReadOK`, what
  its call has in hand. Memory changes in four ways, and `HeldFree`, `HeldNew`, `HeldAppend` and `HeldMove` say once what each does to
  ownership; `TurnIs` combines them into what a turn of `aesd_write`'s loop does. It gives `TypeCorrect`, `LockHeld`, `MutualExclusion`,
  `BuffersOwned` and `ReadsStayInBounds`.
* `LineInv` adds that a call's copy has one newline at most, and that the commands are lines and the unfinished one has no newline.
  It gives `OneCommandPerEntry` and `ImplementsDevice`, the refinement of `CommandDevice`: a turn is a step of the abstract device
  (`TurnIsDeviceStep`), every other step of a process leaves the contents alone (`Besides`, `StepsBesides`).
* `ScanInv` ties positions to the bytes read: a reader that no eviction and no seek has moved has read a prefix of the contents, and what a
  lookup found is the byte at its position. It gives `ScansArePrefixes` and `EndMeansAll`.
* `LogInv` says that the device keeps the tail of all it has taken (`Total`, the call in progress included), and the last N commands of
  it. It gives `KeepsRecentCommands`.

**Server and driver.** `AesdSystemProofs`: `SystemUsesDevice` shows that a step of the composition is a step of `AesdChar` or changes nothing
of it, so all of the above holds under the server. `PacketsStoredOnce`: `StoredInv` says where a packet is while its call runs, namely whole in
the copy buffer until the call returns, and counts it only then; an interrupted call has stored nothing, and a failed one fails in its first
turn. `EchoesContainPacket`: `EchoInv` says that the log is packets, that each command is one, and where in the log a thread's last packet ended;
with `LogInv` and `EndIsAll` the echo is the last N packets of the log, so the packet is in it.

**main.** `AesdServerProofs` starts with the loop, `AesdSocketMain`: `TypeCorrect`, `ThreadsAccounted`, `WalkIsSafe`, `ExitsClean`,
`NoFreeUnderThread`. The four state properties together are inductive: that the cursor `tvar` is
allocated rests on the list having no duplicates and holding exactly the allocated nodes; that
`connection_count` never goes below zero and that an exit leaves nobody behind rest on count being the list's
length. The key lemma is `Removed`, on what removing one element of a sequence leaves.
`ServerRunsLoop` shows that `AesdServer` implements `AesdSocketMain`, so that these
theorems hold of the whole process (`ServerInv` takes them over). `PointersSpellList` needs only them and
the range of the pointers (`QueueInv`): the list has no duplicates, so an insertion or removal disturbs the
pointers of the neighbours alone. `StartsWhole` rests on `StartInv`, which says for each call of the start-up
what has been taken before it: the addresses (`AddressInv`), handlers and ring (`HandlersInv`), timer, socket and
file.

**Connection thread.** `AesdSocketWorkerProofs`: `TypeCorrect`, `WindowIsReceived`, `EchoesExactly`, `ExitsCleanly`, `FirstTwoExact`. `Inv`
adds `ControlInv`, what holds at each system call (where `buf_len` stands between calls, that a
packet being written is not complete, that a chunk being sent is not empty). `FirstTwoExact` needs `TwoInv`, which
says why the code is right twice: `start_ptr` is 0 for the first packet, and the length of the first packet is where the
second one starts. Of the third packet this is false (section 7). `EndOfFirst` and `EndOfSecond` tie this to the
count of newlines that the property speaks of.

**File build.** `AesdSocketFileProofs`:

* `MutexIsHeld` (`HeldInv`: `mutex = p` exactly when p is inside), `ServerUsesRing` (every step of
  the server is a step of `TimestampRing`; nobody enters `dequeue` while another is in it, because of the mutex)
  and `EchoesFile` (`DataInv`: while a thread is inside, the file ends with what it has written so far). `TypeCorrect` bounds the offsets by what
  the file can hold.
* `MainsAlarmsAreSafe`: as long as no thread's dequeue met an alarm, each access to the ring is either the handler's, or the reader's while no
  handler is under way (`QuietStep`). `RingOrder` says, for each place the handler and the reader can stand at, what the two pointers and
  flags then mean for the timestamps that are pending; the pointers grow without bound modulo the depth, and `WrapAround` has the arithmetic.
  The handler may interrupt main's dequeue between any two accesses.
* `StringsStayWhole`: `StringInv` says that every string in the file has its halves side by side, except those whose write failed and one at the
  end of which the holder of the mutex has written one unit (`InHand`), and that a thread's window starts at an even offset. That second part is
  what limits the property to the first packet of a connection (finding `third_packet`).

**Examples.** `ExamplesProofs`: `SleepsInFull` (`SleepInv`: slept and still to sleep add up to the wait; the lemmas on div and mod
show that splitting into seconds and a rest loses nothing), `TrueIsDone` and `CallsReturnClean` (`CallsInv`: for each state of a
child which steps it has taken and what its status says, for the current call what the caller has open).

Every invariant and every safety action property of a passing run is the statement of a theorem. Only model-checked: the three liveness
properties (`PacketServed`, `EndsAfterPeer`, `SeenSignalExits`), because TLAPS here reasons neither about fairness nor about ENABLED; and, in
the violation runs, the properties that the code breaks.

## 7. Findings

Each is a `violation` run: TLC finds a behaviour of the code that contradicts a comment or a
document of the repository.

1. `seek_after_wrap` — `aesd_circular_buffer_ret_offset` counts physical slots and not commands from the
   oldest (`aesd-circular-buffer.c:46`): once the ring has wrapped, a seek by command number goes elsewhere.
2. `multi_line_write` — `main.c:272` subtracts `start_ptr` from an offset that is already relative to it:
   the second command of one write is stored short.
3. `third_packet` — `aesdsocket.c:802` sets `start_ptr` to the length of the last packet, not to its
   end: from the third packet of a connection on, old bytes are stored again.
4. `idle_signal` — a signal between the test at `aesdsocket.c:1095` and `accept()`, or on another
   thread, leaves main waiting for a client.
5. `timestamp_race` — an alarm inside a dequeue, or a dequeue inside an alarm, can set both
   `queue_full` and `queue_empty`; the ring then takes and gives nothing any more
   (`aesdsocket.c:292` says it cannot).

Seen while modelling, in the models or described here, without a run of their own (most contradict no line of the repository):

* a failed `krealloc` leaves `working_buffer` pointing to freed memory (`main.c:88`): `OneOwner` fails with
  `KreallocFails = TRUE`; an unfinished command is not freed at module exit (`leaked` in `AesdChar`);
* an eviction moves the positions of readers that are under way (`Torn` scans);
  two writers' unfinished bytes share one `working_buffer`;
* `ret_offset` accepts any offset into the first empty slot (`size - 1` is unsigned, `aesd-circular-buffer.c:40`);
* an interrupted ioctl is only logged, so the echo starts at the old position (`AfterEINTR`);
* `free(buf)` twice after a failed realloc (`aesdsocket.c:707`); a `recv` that a signal interrupts drops the connection;
  SIGPIPE from `send` ends the server (`SigPipe`);
* a socket accepted before a failing malloc or pthread_create is never closed (`lost` in `AesdSocketMain`);
* `perform_cleanup` tests `free_address_info` where `free_socket_descriptor` is meant (`aesdsocket.c:428`), so the
  listening socket is not closed once the address list is freed, and the last socket is closed a second time when every bind fails;
* the daemon's parent exits before its child listens, so its exit code does not say whether the server is up (`Fork`);
* the file build adds a timestamp's length to `start_ptr` (`aesdsocket.c:648`);
* `do_exec_redirect` does not close its file when `fork` fails (`systemcalls.c:212`; `:171` says the file is closed at
  completion), which `ReturnsClean` sets apart;
* when `dup2` fails its child returns into the caller's code (`:224`): two copies of the caller go on, and if the copy exits with 0
  the original's call returns true, against `:83`; `TrueMeansDone` sets this apart;
* when `execv` fails, `exit(-1)` in the child writes out what the caller had in its stdout buffer, in `do_exec_redirect` into the
  output file (`ExecFails`);
* a `waitpid` that a signal interrupts returns false and leaves the child unwaited for (`WaitPidFails`);
* `threading.c:117` leaks its parameters when `pthread_create` fails;
* `aesdsocket-start-stop.sh` starts the server before `aesdchar_load`; a packet in between makes `open(O_CREAT)`
  create a regular file `/dev/aesdchar`, which `aesdchar_load` then removes.

## 8. What is not modelled

* `finder-app`: sequential programs with no state kept between calls; the loop in which `writer.c` writes is
  `dump_content`'s, which `AesdSocketWorker` has. Autotest examples, build and CI: constants, assertions, shell.
* The rest of `queue.h`: a BSD header of which the server uses five macros.
* The shell scripts, except that `AesdChar` loads and unloads the module as they do.
* Of `AesdChar`: several open files per process, and `copy_from_user` and `put_user` faults that change nothing.
* Of `AesdSocketFile`: the thread's buffer beyond its window (it is `AesdSocketWorker`'s).
* Of `threading.c`: a `pthread_mutex_unlock` by the owner that fails, and negative waits.
* Memory ordering: `thread_completed`, `signal_caught` and the ring's flags are plain variables; the models take each access
  as atomic and in program order, which the default build (`-O0` on a strongly ordered processor) gives.
* Syslog, printing, addresses, permissions.

## 9. Plan

Order of construction: ring (core of the driver), driver, connection thread, main loop, file build, threads and driver
together, all of main, examples; then the proofs, component by component. Left:

1. A composition of `AesdServer`'s loop with the threads of `AesdSystem`, so that the shutdown is shown over the device
   and not over threads that are assumed to end. The product of the two state spaces is too large for one
   run with the bounds above; it needs one packet per thread and a driver without failures. The pieces it would join are checked:
   a thread ends after its peer (`EndsAfterPeer`), every call on the device returns (`PacketServed`), and main ends
   once its threads do (`SeenSignalExits`).
2. Proofs: the theorems about server and driver for packets of any length. `OnePacket` would become "a packet ends with its only newline",
   `StoredOnce` would count newlines by who wrote them, and `EchoInv` would keep the lengths.
