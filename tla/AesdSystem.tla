------------------------------ MODULE AesdSystem ------------------------------
(***************************************************************************)
(* The server and the driver together: every process of AesdChar is a      *)
(* connection thread of server/aesdsocket.c, and calls the device the way  *)
(* aesd_char_thread, dump_content and echo_file_socket do.  For each       *)
(* packet it opens the device, writes the packet or seeks, reads to the    *)
(* end and closes.  A signal interrupts a call that waits for the mutex;   *)
(* what the thread makes of EINTR is here.  How a packet is found in what  *)
(* recv returns is AesdSocketWorker.                                       *)
(***************************************************************************)
EXTENDS AesdChar

CONSTANTS
  MaxPackets,      (* bound: packets a client sends                         *)
  MaxSignals       (* bound: calls that a signal interrupts                 *)

(* MaxWrites of AesdChar never stops a thread. *)
ASSUME BoundsAssumption ==
  /\ MaxPackets \in Nat /\ MaxSignals \in Nat
  /\ MaxWrites >= Cardinality(Proc) * MaxPackets + MaxSignals

VARIABLES
  at,        (* what the thread is about to call, or is inside              *)
  packets,   (* how many packets its client has sent                        *)
  signals,   (* auxiliary: how many calls a signal has interrupted          *)
  stored,    (* auxiliary: how many of them the thread takes for stored     *)
  since      (* auxiliary: newlines in the device's log when it last did    *)

system == <<at, packets, signals, stored, since>>
sysVars == <<vars, system>>

SysInit ==
  /\ Init
  /\ at = [p \in Proc |-> "recv"]
  /\ packets = [p \in Proc |-> 0] /\ signals = 0
  /\ stored = [p \in Proc |-> 0]
  /\ since = [p \in Proc |-> 0]

NowAt(p, l) == at' = [at EXCEPT ![p] = l]

(* aesdsocket-start-stop.sh: the driver is loaded, and not removed while the
   server runs. *)
LoadDriver == Load /\ UNCHANGED system

(* A packet has come: open, and then a write or, for a seek command, ioctl. *)
OpenDevice(p) ==
  /\ at[p] = "recv" /\ packets[p] < MaxPackets
  /\ Open(p)
  /\ packets' = [packets EXCEPT ![p] = @ + 1]
  /\ \E call \in {"write", "ioctl"} : NowAt(p, call)
  /\ UNCHANGED <<signals, stored, since>>

CallWrite(p) == at[p] = "write" /\ WriteCopy(p) /\ UNCHANGED system

CallIoctl(p) == at[p] = "ioctl" /\ SeekStart(p) /\ UNCHANGED system

CallRead(p) == at[p] = "read" /\ ReadStart(p) /\ UNCHANGED system

(* The driver takes the mutex, or goes through the packet. *)
InDriver(p) ==
  /\ Locking(p) \/ WriteChunk(p) \/ WriteFails(p) \/ ReadFind(p)
  /\ UNCHANGED system

Newlines(s) == Cardinality({i \in DOMAIN s : s[i] = NL})

(* The thread goes on with call `to'; from a write to the echo it takes the
   packet for stored. *)
GoOn(p, to) ==
  /\ NowAt(p, to)
  /\ IF at[p] = "write" /\ to = "read"
     THEN /\ stored' = [stored EXCEPT ![p] = @ + 1]
          /\ since' = [since EXCEPT ![p] = Newlines(accepted')]
     ELSE UNCHANGED <<stored, since>>

(* dump_content: the driver has taken all of the packet, or failed. *)
WriteDone(p) ==
  /\ WriteReturn(p)
  /\ GoOn(p, IF retval[p] = -1 THEN "end" ELSE "read")
  /\ UNCHANGED <<packets, signals>>

(* EINTR: dump_content and echo_file_socket call again; a failed ioctl is
   logged and the echo starts where the position is. *)
AfterEINTRGivesUp(call) == "read"

AfterEINTR(call) == IF call = "ioctl" THEN "read" ELSE call

CallInterrupted(p) ==
  /\ signals < MaxSignals
  /\ Interrupted(p)
  /\ signals' = signals + 1
  /\ GoOn(p, AfterEINTR(at[p]))
  /\ UNCHANGED packets

IoctlDone(p) == SeekToCommand(p) /\ NowAt(p, "read") /\ UNCHANGED <<packets, signals, stored, since>>

(* echo_file_socket: read returned some bytes, which are sent, ... *)
ReadSome(p) == ReadCopy(p) /\ UNCHANGED system

(* ... or nothing, ... *)
ReadEnd(p) == ReadEOF(p) /\ NowAt(p, "close") /\ UNCHANGED <<packets, signals, stored, since>>

(* ... or the peer is gone. *)
SendFails(p) ==
  /\ at[p] = "read" /\ pc[p] = "idle"
  /\ NowAt(p, "end")
  /\ UNCHANGED <<vars, packets, signals, stored, since>>

(* close, and the next packet ... *)
CloseDevice(p) ==
  /\ at[p] = "close"
  /\ Release(p)
  /\ NowAt(p, "recv")
  /\ UNCHANGED <<packets, signals, stored, since>>

(* ... or, after an error, no more of this connection. *)
CloseAndEnd(p) ==
  /\ at[p] = "end"
  /\ Release(p)
  /\ NowAt(p, "ended")
  /\ UNCHANGED <<packets, signals, stored, since>>

Worker(p) ==
  \/ CallWrite(p) \/ CallIoctl(p) \/ CallRead(p) \/ InDriver(p) \/ WriteDone(p)
  \/ IoctlDone(p) \/ ReadSome(p) \/ ReadEnd(p) \/ CloseDevice(p) \/ CloseAndEnd(p)

SysNext ==
  \/ LoadDriver
  \/ \E p \in Proc : OpenDevice(p) \/ Worker(p) \/ CallInterrupted(p) \/ SendFails(p)

SysSpec == SysInit /\ [][SysNext]_sysVars

(* A thread keeps running, and the mutex passes to each of its waiters in the
   end.  Nothing makes a client send, a signal come or a call fail. *)
SysFairSpec ==
  /\ SysSpec
  /\ \A p \in Proc : WF_sysVars(Worker(p)) /\ SF_sysVars(Locking(p) /\ UNCHANGED system)
----------------------------------------------------------------------------
(* Every packet that a thread takes for stored when it starts the echo is
   stored, and stored once, although write is called again whenever a signal
   interrupts it. *)
StoredOnce ==
  lock = NoOwner =>
    \A p \in Proc : Cardinality({i \in DOMAIN accepted : accepted[i] = p}) = stored[p]

(* The echo of a packet contains the packet, unless at least N packets were
   stored after it or an eviction moved the positions under the echo. *)
EchoHasPacket ==
  [][\A p \in Proc :
       ReadEOF(p) /\ scan[p] # Torn /\ since[p] > 0 /\ Newlines(accepted) - since[p] < N
         => \E i \in 1 .. Len(scan[p]) - 1 : SubSeq(scan[p], i, i + 1) = <<p, NL>>]_sysVars

(* Every packet is served: whatever the other threads do, and if only finitely
   many signals come, the thread is back in recv or has ended. *)
PacketServed ==
  \A p \in Proc : (at[p] \notin {"recv", "ended"}) ~> (at[p] \in {"recv", "ended"})
=============================================================================
