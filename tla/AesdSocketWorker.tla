-------------------------- MODULE AesdSocketWorker --------------------------
(***************************************************************************)
(* server/aesdsocket.c, built with USE_AESD_CHAR_DEVICE: the thread that   *)
(* serves one connection (aesd_char_thread, dump_content and               *)
(* echo_file_socket).  One action per system call; the peer sends what it  *)
(* likes in whatever pieces recv returns, and may close at any time.       *)
(*                                                                         *)
(* A byte is "x", the newline, or "K", which stands for the whole text     *)
(* AESDCHAR_IOCSEEKTO:a,b.  Whether its numbers parse and its ioctl        *)
(* succeeds makes no difference to the thread.  A write or a read of the   *)
(* device that returns EINTR is repeated and changes nothing.              *)
(***************************************************************************)
EXTENDS Integers, Sequences, FiniteSets

CONSTANTS
  BUF_SIZE_UNIT,   (* 1024 in the code                                      *)
  MaxBytes,        (* bound: bytes the peer sends                           *)
  MaxEcho          (* bound: bytes the device returns for one echo          *)

ASSUME BoundsAssumption == {BUF_SIZE_UNIT, MaxBytes, MaxEcho} \subseteq Nat \ {0}

VARIABLES
  pc,         (* the system call the thread is at, "done" or "dead"         *)
  buf,        (* the bytes received so far                                  *)
  block,      (* the allocation of buf: "none", "held", "freed", "twice",   *)
              (* or "realloc": freed twice after a realloc that failed      *)
  cap, len,   (* buf_cap, buf_len                                           *)
  nread,      (* num_bytes_read                                             *)
  start,      (* start_ptr                                                  *)
  upto,       (* bytes_written_until_newline                                *)
  fd,         (* is the device open?                                        *)
  stray,      (* was a closed descriptor closed again?                      *)
  sock,       (* is the connection open on our side?                        *)
  peer,       (* does the peer still hold its end?                          *)
  handled,    (* the packets given to the device by this connection         *)
  chunk,      (* echo_file_socket: bytes read and not yet sent              *)
  fetched,    (* bytes read from the device for this echo                   *)
  echoed      (* what was sent to the peer, by position in the device       *)

conn == <<sock, peer>>
window == <<buf, block, cap, len, nread, start>>
echo == <<chunk, fetched, echoed>>
vars == <<pc, buf, block, cap, len, nread, start, upto, fd, stray, sock, peer,
          handled, chunk, fetched, echoed>>

NL == "newline"
Symbol == {"x", "K", NL}

Init ==
  /\ pc = "recv"
  /\ buf = <<>> /\ block = "none" /\ cap = 0 /\ len = 0 /\ nread = 0
  /\ start = 0 /\ upto = 0
  /\ fd = FALSE /\ stray = FALSE /\ sock = TRUE /\ peer = TRUE
  /\ handled = <<>>
  /\ chunk = <<>> /\ fetched = 0 /\ echoed = <<>>

----------------------------------------------------------------------------
(* The labels at the end of the function, from the one jumped to. *)
ClosesNothing(label) == FALSE

ClosesFd(label) == label = "close_file_descriptor"

FreesBuf(label) == label # "free_socket_fd"

Exit(label) ==
  /\ fd' = (fd /\ ~ClosesFd(label))
  /\ stray' = (stray \/ (ClosesFd(label) /\ ~fd))
  /\ block' = IF ~FreesBuf(label) THEN block
              ELSE IF block = "held" THEN "freed" ELSE "twice"
  /\ sock' = FALSE
  /\ pc' = "done"
  /\ UNCHANGED <<buf, cap, len, nread, start, upto, peer, handled, echo>>

(* Receive_From_Socket with a full buffer. *)
Grow ==
  /\ pc = "recv" /\ cap = len
  /\ cap' = cap + BUF_SIZE_UNIT
  /\ block' = "held"
  /\ UNCHANGED <<pc, buf, len, nread, start, upto, fd, stray, conn, handled, echo>>

MallocFails == pc = "recv" /\ cap = len /\ cap = 0 /\ Exit("free_socket_fd")

(* realloc fails: free(buf), and then goto free_mem, where it is freed again.
   Undefined: the C library stops the process or does not notice. *)
ReallocFailed ==
  /\ pc = "recv" /\ cap = len /\ cap > 0
  /\ block' = "realloc"
  /\ \/ pc' = "dead" /\ UNCHANGED sock
     \/ pc' = "done" /\ sock' = FALSE
  /\ UNCHANGED <<buf, cap, len, nread, start, upto, fd, stray, peer, handled, echo>>

Receive ==
  /\ pc = "recv" /\ cap > len
  /\ \E k \in 1 .. cap - len :
       /\ len + k <= MaxBytes
       /\ \E bytes \in [1 .. k -> Symbol] : buf' = SubSeq(buf, 1, len) \o bytes
       /\ nread' = k
  /\ pc' = "parse"
  /\ UNCHANGED <<block, cap, len, start, upto, fd, stray, conn, handled, echo>>

ReceiveFails == pc = "recv" /\ cap > len /\ Exit("free_mem")

ReceiveEndRetried == pc = "recv" /\ cap > len /\ ~peer /\ UNCHANGED vars

ReceiveEnd == pc = "recv" /\ cap > len /\ ~peer /\ Exit("free_mem")

----------------------------------------------------------------------------
(* Parse_data scans this many bytes from start_ptr ... *)
Scanned(l, s, k) == (l - s) + k

(* ... and takes the first newline. *)
Newlines ==
  {i \in 1 .. Scanned(len, start, nread) : start + i <= Len(buf) /\ buf[start + i] = NL}

ParseNothing ==
  /\ pc = "parse" /\ Newlines = {}
  /\ len' = len + nread
  /\ pc' = "recv"
  /\ UNCHANGED <<buf, block, cap, nread, start, upto, fd, stray, conn, handled, echo>>

(* The device is opened, and the packet is a seek or the start of a write. *)
OpenDevice ==
  /\ pc = "parse" /\ Newlines # {}
  /\ upto' = CHOOSE i \in Newlines : \A j \in Newlines : i <= j
  /\ fd' = TRUE
  /\ fetched' = 0 /\ echoed' = <<>> /\ chunk' = <<>>
  /\ IF buf[start + 1] = "K"
     THEN /\ handled' = Append(handled, SubSeq(buf, start + 1, start + upto'))
          /\ pc' = "read"
     ELSE /\ handled' = Append(handled, <<>>)
          /\ pc' = "write"
  /\ UNCHANGED <<window, stray, conn>>

OpenFails == pc = "parse" /\ Newlines # {} /\ Exit("free_mem")

----------------------------------------------------------------------------
Written == Len(handled[Len(handled)])

(* dump_content: where the rest of the packet begins. *)
RestFromStart == start

Rest == start + Written

(* write() may take only a part of the rest. *)
WriteDevice ==
  /\ pc = "write"
  /\ \E k \in 1 .. upto - Written :
       /\ handled' = [handled EXCEPT ![Len(handled)] = @ \o SubSeq(buf, Rest + 1, Rest + k)]
       /\ pc' = IF Written + k = upto THEN "read" ELSE "write"
  /\ UNCHANGED <<window, upto, fd, stray, conn, echo>>

WriteFails == pc = "write" /\ Exit("close_file_descriptor")

(* echo_file_socket *)
ReadDevice ==
  /\ pc = "read"
  /\ \E k \in 1 .. BUF_SIZE_UNIT :
       /\ fetched + k <= MaxEcho
       /\ chunk' = [i \in 1 .. k |-> fetched + i]
       /\ fetched' = fetched + k
  /\ pc' = "send"
  /\ UNCHANGED <<window, upto, fd, stray, conn, handled, echoed>>

(* str_index after a send of k bytes: the bytes still to send. *)
UnsentStuck(c, k) == SubSeq(c, 1, Len(c) - k)

Unsent(c, k) == SubSeq(c, k + 1, Len(c))

Send ==
  /\ pc = "send"
  /\ \E k \in 1 .. Len(chunk) :
       /\ echoed' = echoed \o SubSeq(chunk, 1, k)
       /\ chunk' = Unsent(chunk, k)
       /\ pc' = IF k = Len(chunk) THEN "read" ELSE "send"
  /\ UNCHANGED <<window, upto, fd, stray, conn, handled, fetched>>

ReadFails == pc = "read" /\ Exit("close_file_descriptor")

SendFails == pc = "send" /\ Exit("close_file_descriptor")

(* send() to a peer that is gone: SIGPIPE has its default action. *)
SigPipe ==
  /\ pc = "send" /\ ~peer
  /\ pc' = "dead"
  /\ UNCHANGED <<window, upto, fd, stray, conn, handled, echo>>

(* start_ptr for the next packet. *)
NextStartDifference(s, n) == n - s

NextStartSkipping(s, n) == n + 1

NextStart(s, n) == n

(* The device is read to its end: the packet is done. *)
FinishPacket ==
  /\ pc = "read"
  /\ start' = NextStart(start, upto)
  /\ fd' = FALSE
  /\ len' = len + nread
  /\ pc' = "recv"
  /\ UNCHANGED <<buf, block, cap, nread, upto, stray, conn, handled, echo>>

(* The peer closes its end of the connection. *)
PeerCloses ==
  /\ peer /\ sock
  /\ peer' = FALSE
  /\ UNCHANGED <<pc, window, upto, fd, stray, sock, handled, echo>>

Step ==
  \/ Grow \/ Receive \/ ReceiveEnd \/ ParseNothing \/ OpenDevice
  \/ WriteDevice \/ ReadDevice \/ Send \/ FinishPacket

Fault ==
  \/ MallocFails \/ ReallocFailed \/ ReceiveFails \/ OpenFails
  \/ WriteFails \/ ReadFails \/ SendFails \/ SigPipe

Next == Step \/ Fault \/ PeerCloses

Spec == Init /\ [][Next]_vars

(* The scheduler keeps running a thread that can run; no fault has to happen. *)
FairSpec == Spec /\ WF_vars(Step)

----------------------------------------------------------------------------
(* Type invariant. *)
TypeOK ==
  /\ pc \in {"recv", "parse", "write", "read", "send", "done", "dead"}
  /\ buf \in Seq(Symbol)
  /\ block \in {"none", "held", "freed", "twice", "realloc"}
  /\ {cap, len, nread, start, upto, fetched} \subseteq Nat
  /\ {fd, stray, sock, peer} \subseteq BOOLEAN
  /\ handled \in Seq(Seq(Symbol))
  /\ chunk \in Seq(1 .. MaxEcho) /\ echoed \in Seq(1 .. MaxEcho)

(* The window Parse_data looks at, and the packet it finds there, are bytes
   that were received, and what was received fits the allocation. *)
WindowReceived ==
  /\ start <= len /\ len <= cap
  /\ pc \in {"parse", "write", "read", "send"} =>
       /\ len + nread <= cap /\ Len(buf) = len + nread
       /\ start + Scanned(len, start, nread) = len + nread
  /\ pc \in {"write", "read", "send"} => upto > 0 /\ start + upto <= len + nread

(* The i-th packet of what the peer sent. *)
EndOf(i) ==
  IF i = 0 THEN 0
  ELSE CHOOSE e \in DOMAIN buf :
         buf[e] = NL /\ Cardinality({j \in 1 .. e : buf[j] = NL}) = i

Sent(i) == SubSeq(buf, EndOf(i - 1) + 1, EndOf(i))

Complete(i) == i < Len(handled) \/ pc \notin {"write", "done"}

HandledWell(i) ==
  /\ Cardinality({j \in DOMAIN buf : buf[j] = NL}) >= i
  /\ handled[i] = SubSeq(Sent(i), 1, Len(handled[i]))
  /\ Complete(i) => handled[i] = Sent(i)

(* The first two packets of a connection reach the device whole and in order,
   however recv cuts the stream and write cuts the packet. *)
FirstTwoPacketsExact == \A i \in DOMAIN handled : i <= 2 => HandledWell(i)

(* aesdsocket.c:3: the server "stores any packet received", and :4: packets
   are separated by newlines.  False from the third packet on. *)
PacketsExact == \A i \in DOMAIN handled : HandledWell(i)

(* The peer receives what the device holds, each byte once and in order, and
   all of it before the next packet is looked at. *)
EchoExact ==
  /\ echoed \o chunk = [i \in 1 .. fetched |-> i]
  /\ pc = "recv" => Len(echoed) = fetched

(* Every way out closes the connection and the device and frees the buffer,
   each once.  (The exception is ReallocFailed.) *)
CleanExit ==
  /\ ~stray /\ block # "twice"
  /\ pc = "done" => ~fd /\ ~sock /\ block # "held"
  /\ pc = "recv" => ~fd

(* Once the peer has closed, the thread ends. *)
EndsAfterPeer == ~peer ~> pc \in {"done", "dead"}
=============================================================================
