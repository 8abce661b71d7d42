------------------------ MODULE AesdSocketWorkerProofs ------------------------
(***************************************************************************)
(* Proofs about a connection's thread, for every size of its buffer, every *)
(* stream of bytes and every way the system calls may cut it.              *)
(***************************************************************************)
EXTENDS AesdSocketWorker, TLAPS, SequenceTheorems, FiniteSetTheorems, WellFoundedInduction

(* A set of natural numbers that is not empty has a least element. *)
LEMMA LeastIn ==
  ASSUME NEW T \in SUBSET Nat, T # {}
  PROVE  \E m \in T : \A n \in T : m <= n
<1>1. PICK m \in T : \A n \in T : ~(<<n, m>> \in OpToRel(<, Nat))
  BY WFMin, NatLessThanWellFounded, Zenon
<1>2. ASSUME NEW n \in T PROVE m <= n
  <2>1. ~(<<n, m>> \in OpToRel(<, Nat))
    BY <1>1
  <2>2. n < m => <<n, m>> \in OpToRel(<, Nat)
    BY DEF OpToRel
  <2>3. n \in Nat /\ m \in Nat /\ ~(n < m)
    BY <2>1, <2>2
  <2> QED
    BY <2>3
<1> QED
  BY <1>2

(* The newline that OpenDevice chooses is the first one of the window. *)
LEMMA FirstNewline ==
  ASSUME Newlines # {}, len \in Nat, start \in Nat, nread \in Nat
  PROVE  LET u == CHOOSE i \in Newlines : \A j \in Newlines : i <= j
         IN  u \in Newlines /\ \A j \in Newlines : u <= j
<1>1. Newlines \in SUBSET Nat
  BY DEF Newlines, Scanned
<1>2. PICK m \in Newlines : \A j \in Newlines : m <= j
  BY <1>1, LeastIn
<1> QED
  BY <1>2, Zenon

(* k elements of a sequence after the first m. *)
LEMMA Piece ==
  ASSUME NEW S, NEW s \in Seq(S), NEW m \in Nat, NEW k \in Nat, k > 0, m + k <= Len(s)
  PROVE  SubSeq(s, m + 1, m + k) \in Seq(S) /\ Len(SubSeq(s, m + 1, m + k)) = k
<1> DEFINE a == m + 1
           b == m + k
<1>1. a \in Int /\ b \in Int /\ a <= b /\ b - a + 1 = k
  OBVIOUS
<1>2. \A i \in a .. b : s[i] \in S
  OBVIOUS
<1> HIDE DEF a, b
<1>3. SubSeq(s, a, b) \in Seq(S) /\ Len(SubSeq(s, a, b)) = k
  BY <1>1, <1>2, SubSeqProperties
<1> QED
  BY <1>3 DEF a, b

(* A sequence cut in two. *)
LEMMA Cut ==
  ASSUME NEW S, NEW s \in Seq(S), NEW k \in 1 .. Len(s)
  PROVE  /\ SubSeq(s, 1, k) \in Seq(S) /\ SubSeq(s, k + 1, Len(s)) \in Seq(S)
         /\ SubSeq(s, 1, k) \o SubSeq(s, k + 1, Len(s)) = s
         /\ k = Len(s) => SubSeq(s, k + 1, Len(s)) = <<>>
<1> DEFINE b == k + 1
           n == Len(s)
<1>1. k \in Nat /\ k > 0 /\ n \in Nat /\ k <= n /\ b \in Int /\ b > k
  OBVIOUS
<1>2. (\A i \in 1 .. k : s[i] \in S) /\ (\A i \in b .. n : s[i] \in S)
  BY ElementOfSeq
<1>3. SubSeq(s, 1, k) \o SubSeq(s, k + 1, n) = SubSeq(s, 1, n)
  <2>1. 1 \in 1 .. n + 1 /\ k \in 1 - 1 .. n /\ n \in k .. n
    BY <1>1
  <2> QED
    BY <2>1, ConcatAdjacentSubSeq
<1>4. SubSeq(s, 1, n) = s
  BY SubSeqFull
<1> HIDE DEF b, n
<1>5. SubSeq(s, 1, k) \in Seq(S) /\ SubSeq(s, b, n) \in Seq(S)
  BY <1>1, <1>2, SubSeqProperties
<1>6. k = n => SubSeq(s, b, n) = <<>>
  BY <1>1, SubSeqEmpty
<1> QED
  BY <1>3, <1>4, <1>5, <1>6 DEF b, n

LEMMA Bounds == BUF_SIZE_UNIT \in Nat /\ BUF_SIZE_UNIT > 0 /\ MaxEcho \in Nat
BY BoundsAssumption

----------------------------------------------------------------------------
(* Between two packets the received bytes are exactly the counted ones; the
   buffer is held once it has a capacity; nothing read from the device is
   unsent unless the thread is sending; the device is open only for a packet. *)
ControlInv ==
  /\ pc = "recv" => Len(buf) = len /\ block = IF cap = 0 THEN "none" ELSE "held"
  /\ pc \in {"parse", "write", "read", "send"} => block = "held" /\ cap > 0
  /\ pc \in {"recv", "parse"} => ~fd
  /\ pc \in {"write", "read", "send"} => fd /\ handled # <<>>
  /\ pc = "write" => upto - Written \in Nat /\ upto > Written
  /\ pc \in {"recv", "parse", "write", "read"} => chunk = <<>>

Inv == TypeOK /\ WindowReceived /\ ControlInv /\ EchoExact /\ CleanExit

(* What EchoExact says, byte by byte. *)
LEMMA EchoByByte ==
  ASSUME NEW e \in Seq(1 .. MaxEcho), NEW c \in Seq(1 .. MaxEcho), NEW n \in Nat
  PROVE  e \o c = [i \in 1 .. n |-> i] <=>
           /\ Len(e) + Len(c) = n
           /\ \A i \in 1 .. Len(e) : e[i] = i
           /\ \A i \in 1 .. Len(c) : c[i] = Len(e) + i
<1> DEFINE all == [i \in 1 .. n |-> i]
<1>1. /\ e \o c \in Seq(1 .. MaxEcho) /\ Len(e \o c) = Len(e) + Len(c)
      /\ \A i \in 1 .. Len(e) + Len(c) :
           (e \o c)[i] = IF i <= Len(e) THEN e[i] ELSE c[i - Len(e)]
  BY ConcatProperties
<1>2. Len(e) \in Nat /\ Len(c) \in Nat /\ all \in Seq(Nat) /\ Len(all) = n
  OBVIOUS
<1>3. ASSUME e \o c = all
      PROVE  /\ Len(e) + Len(c) = n
             /\ \A i \in 1 .. Len(e) : e[i] = i
             /\ \A i \in 1 .. Len(c) : c[i] = Len(e) + i
  <2>1. Len(e) + Len(c) = n
    BY <1>1, <1>2, <1>3
  <2>2. \A i \in 1 .. Len(e) : e[i] = i
    BY <1>1, <1>2, <1>3, <2>1
  <2>3. ASSUME NEW i \in 1 .. Len(c) PROVE c[i] = Len(e) + i
    <3>1. Len(e) + i \in 1 .. n /\ ~(Len(e) + i <= Len(e)) /\ Len(e) + i - Len(e) = i
      BY <1>2, <2>1
    <3> QED
      BY <1>1, <1>3, <2>1, <3>1
  <2> QED
    BY <2>1, <2>2, <2>3
<1>4. ASSUME Len(e) + Len(c) = n,
             \A i \in 1 .. Len(e) : e[i] = i,
             \A i \in 1 .. Len(c) : c[i] = Len(e) + i
      PROVE  e \o c = all
  <2>1. ASSUME NEW i \in 1 .. n PROVE (e \o c)[i] = i
    <3>1. CASE i <= Len(e)
      BY <1>1, <1>2, <1>4, <3>1
    <3>2. CASE ~(i <= Len(e))
      <4>1. i - Len(e) \in 1 .. Len(c)
        BY <1>2, <1>4, <3>2
      <4> QED
        BY <1>1, <1>2, <1>4, <3>2, <4>1
    <3> QED
      BY <3>1, <3>2
  <2>2. all \in Seq(1 .. MaxEcho)
    <3>1. ASSUME NEW i \in 1 .. n PROVE i \in 1 .. MaxEcho
      <4>1. CASE i <= Len(e)
        <5>1. i \in 1 .. Len(e) /\ e[i] = i
          BY <1>2, <1>4, <4>1
        <5>2. e[i] \in 1 .. MaxEcho
          BY <5>1, ElementOfSeq
        <5> QED
          BY <5>1, <5>2
      <4>2. CASE ~(i <= Len(e))
        <5>1. i - Len(e) \in 1 .. Len(c) /\ Len(e) + (i - Len(e)) = i
          BY <1>2, <1>4, <4>2
        <5>2. c[i - Len(e)] \in 1 .. MaxEcho
          BY <5>1, ElementOfSeq
        <5> QED
          BY <1>4, <5>1, <5>2
      <4> QED
        BY <4>1, <4>2
    <3> QED
      BY <3>1
  <2>3. Len(e \o c) = Len(all) /\ \A i \in 1 .. Len(e \o c) : (e \o c)[i] = all[i]
    BY <1>1, <1>2, <1>4, <2>1
  <2> QED
    BY <1>1, <2>2, <2>3, SeqEqual
<1> QED
  BY <1>3, <1>4

LEMMA InvInit == Init => Inv
<1> SUFFICES ASSUME Init PROVE Inv
  OBVIOUS
<1>1. TypeOK
  <2>1. <<>> \in Seq(Symbol) /\ <<>> \in Seq(Seq(Symbol)) /\ <<>> \in Seq(1 .. MaxEcho)
    OBVIOUS
  <2>2. {cap, len, nread, start, upto, fetched} \subseteq Nat
    BY DEF Init
  <2>3. {fd, stray, sock, peer} \subseteq BOOLEAN
    BY DEF Init
  <2> QED
    BY <2>1, <2>2, <2>3 DEF Init, TypeOK
<1>2. WindowReceived
  BY DEF Init, WindowReceived
<1>3. ControlInv
  BY DEF Init, ControlInv
<1>4. CleanExit
  BY DEF Init, CleanExit
<1>5. EchoExact
  BY <1>1, EchoByByte DEF Init, EchoExact, TypeOK
<1> QED
  BY <1>1, <1>2, <1>3, <1>4, <1>5 DEF Inv

(* A call that only moves the way out: from a place inside a packet to the
   label that closes the device too, from one before it to free_mem. *)
LEMMA ExitStep ==
  ASSUME Inv, NEW label, Exit(label),
         \/ label = "free_socket_fd" /\ pc = "recv" /\ cap = 0
         \/ label = "free_mem" /\ (pc = "parse" \/ (pc = "recv" /\ cap > len))
         \/ label = "close_file_descriptor" /\ pc \in {"write", "read", "send"}
  PROVE  Inv'
<1>1. TypeOK'
  BY DEF Inv, TypeOK, Exit, ClosesFd, FreesBuf, echo
<1>2. WindowReceived' /\ EchoExact'
  BY DEF Inv, TypeOK, Exit, WindowReceived, EchoExact, echo
<1>3. block' # "twice" /\ block' # "held" /\ ~fd' /\ ~stray'
  BY DEF Inv, TypeOK, Exit, ClosesFd, FreesBuf, ControlInv, WindowReceived, CleanExit
<1>4. ControlInv' /\ CleanExit'
  BY <1>3 DEF Exit, ControlInv, CleanExit, echo
<1> QED
  BY <1>1, <1>2, <1>4 DEF Inv

LEMMA GrowStep == Inv /\ Grow => Inv'
BY BoundsAssumption
   DEF Inv, TypeOK, WindowReceived, ControlInv, EchoExact, CleanExit, Grow, conn, echo, Scanned

(* recv puts its bytes behind those received before. *)
LEMMA ReceiveAppends ==
  ASSUME Inv, Receive
  PROVE  \E bytes \in Seq(Symbol) :
           /\ Len(bytes) \in 1 .. cap - len
           /\ buf' = buf \o bytes /\ nread' = Len(bytes)
<1>1. PICK k \in 1 .. cap - len :
        /\ \E bytes \in [1 .. k -> Symbol] : buf' = SubSeq(buf, 1, len) \o bytes
        /\ nread' = k
  BY DEF Receive
<1>2. PICK bytes \in [1 .. k -> Symbol] : buf' = SubSeq(buf, 1, len) \o bytes
  BY <1>1
<1>3. bytes \in Seq(Symbol) /\ Len(bytes) = k
  BY DEF Inv, TypeOK
<1>4. SubSeq(buf, 1, len) = buf
  BY SubSeqFull DEF Inv, TypeOK, ControlInv, Receive
<1> QED
  BY <1>1, <1>2, <1>3, <1>4

LEMMA ReceiveStep == Inv /\ Receive => Inv'
<1> SUFFICES ASSUME Inv, Receive PROVE Inv'
  OBVIOUS
<1>1. PICK bytes \in Seq(Symbol) :
        /\ Len(bytes) \in 1 .. cap - len
        /\ buf' = buf \o bytes /\ nread' = Len(bytes)
  BY ReceiveAppends
<1> DEFINE k == Len(bytes)
<1>2. /\ len = Len(buf) /\ len \in Nat /\ cap \in Nat /\ k \in Nat /\ len + k <= cap
      /\ buf \in Seq(Symbol)
  BY <1>1 DEF Inv, TypeOK, ControlInv, Receive
<1>3. buf' \in Seq(Symbol) /\ Len(buf') = len + k
  BY <1>1, <1>2, ConcatProperties
<1>4. TypeOK'
  BY <1>1, <1>2, <1>3 DEF Receive, Inv, TypeOK, conn, echo
<1>5. WindowReceived'
  <2>1. /\ start' = start /\ len' = len /\ cap' = cap /\ pc' = "parse"
        /\ start <= len /\ len <= cap /\ start \in Nat
    BY DEF Receive, Inv, TypeOK, WindowReceived
  <2>2. start + ((len - start) + k) = len + k
    BY <1>2, <2>1
  <2> QED
    BY <1>1, <1>2, <1>3, <2>1, <2>2 DEF WindowReceived, Scanned
<1>6. ControlInv' /\ EchoExact' /\ CleanExit'
  BY <1>2 DEF Receive, Inv, ControlInv, EchoExact, CleanExit, conn, echo
<1> QED
  BY <1>4, <1>5, <1>6 DEF Inv

LEMMA ParseNothingStep == Inv /\ ParseNothing => Inv'
<1> SUFFICES ASSUME Inv, ParseNothing PROVE Inv'
  OBVIOUS
<1>1. /\ len \in Nat /\ start \in Nat /\ nread \in Nat /\ cap \in Nat /\ cap > 0
      /\ start <= len /\ len + nread <= cap
  BY DEF Inv, TypeOK, WindowReceived, ControlInv, ParseNothing
<1>2. TypeOK' /\ WindowReceived'
  BY <1>1 DEF Inv, TypeOK, WindowReceived, ParseNothing, conn, echo
<1>3. cap # 0 /\ chunk = <<>> /\ block = "held" /\ ~fd /\ Len(buf) = len + nread
  BY <1>1 DEF Inv, TypeOK, WindowReceived, ControlInv, ParseNothing
<1>4. ControlInv' /\ CleanExit'
  BY <1>1, <1>3 DEF Inv, ControlInv, CleanExit, ParseNothing, conn, echo
<1>5. Len(echoed) = fetched
  BY <1>3, EchoByByte DEF Inv, TypeOK, EchoExact
<1>6. EchoExact'
  BY <1>5 DEF Inv, EchoExact, ParseNothing, echo
<1> QED
  BY <1>2, <1>4, <1>6 DEF Inv

LEMMA OpenDeviceStep == Inv /\ OpenDevice => Inv'
<1> SUFFICES ASSUME Inv, OpenDevice PROVE Inv'
  OBVIOUS
<1>1. /\ len \in Nat /\ start \in Nat /\ nread \in Nat /\ cap \in Nat /\ buf \in Seq(Symbol) /\ handled \in Seq(Seq(Symbol))
      /\ Len(buf) = len + nread /\ start <= len /\ len + nread <= cap
      /\ pc = "parse" /\ Newlines # {}
  BY DEF Inv, TypeOK, WindowReceived, OpenDevice
<1>2. PICK u \in Newlines : upto' = u
  BY <1>1, FirstNewline DEF OpenDevice
<1>3. u \in Nat /\ u > 0 /\ start + u <= len + nread
  <2>1. u \in 1 .. (len - start) + nread
    BY <1>2 DEF Newlines, Scanned
  <2> QED
    BY <1>1, <2>1
<1>4. SubSeq(buf, start + 1, start + u) \in Seq(Symbol) /\ <<>> \in Seq(Symbol)
  <2>1. start + u <= Len(buf)
    BY <1>1, <1>3
  <2> QED
    BY <1>1, <1>3, <2>1, Piece
<1>5. PICK p \in Seq(Symbol) :
        /\ handled' = Append(handled, p)
        /\ pc' \in {"read", "write"}
        /\ pc' = "write" => p = <<>>
  BY <1>2, <1>4 DEF OpenDevice
<1>6. handled' \in Seq(Seq(Symbol)) /\ Len(handled') = Len(handled) + 1 /\ handled'[Len(handled')] = p
  BY <1>1, <1>5, AppendProperties
<1>7. TypeOK'
  <2>1. <<>> \in Seq(1 .. MaxEcho)
    OBVIOUS
  <2>2. chunk' \in Seq(1 .. MaxEcho) /\ echoed' \in Seq(1 .. MaxEcho) /\ fetched' \in Nat
    BY <2>1 DEF OpenDevice
  <2> QED
    BY <1>2, <1>3, <1>5, <1>6, <2>2 DEF OpenDevice, Inv, TypeOK, window, conn
<1>8. WindowReceived'
  BY <1>1, <1>2, <1>3, <1>5 DEF OpenDevice, Inv, WindowReceived, window, Scanned
<1>9. handled' # <<>> /\ (pc' = "write" => Written' = 0)
  <2>1. Len(handled') # 0 /\ Len(p) \in Nat
    BY <1>1, <1>6
  <2>2. Written' = Len(p)
    BY <1>6 DEF Written
  <2> QED
    BY <1>5, <2>1, <2>2
<1>10. pc' = "write" => upto' - Written' \in Nat /\ upto' > Written'
  BY <1>2, <1>3, <1>9
<1>11. ControlInv'
  BY <1>5, <1>9, <1>10 DEF OpenDevice, Inv, ControlInv, window
<1>12. EchoExact'
  BY <1>5, EchoByByte DEF OpenDevice, EchoExact
<1>13. CleanExit'
  BY <1>5 DEF OpenDevice, Inv, CleanExit, window, conn
<1> QED
  BY <1>7, <1>8, <1>11, <1>12, <1>13 DEF Inv

(* Where dump_content is in its packet. *)
Writing ==
  /\ pc = "write" /\ handled \in Seq(Seq(Symbol)) /\ handled # <<>> /\ buf \in Seq(Symbol)
  /\ len \in Nat /\ start \in Nat /\ nread \in Nat /\ cap \in Nat /\ upto \in Nat
  /\ Len(buf) = len + nread /\ start + upto <= len + nread
  /\ upto - Written \in Nat /\ upto > Written
  /\ Len(handled) \in DOMAIN handled /\ handled[Len(handled)] \in Seq(Symbol) /\ Written \in Nat

LEMMA WriteIn == ASSUME Inv, WriteDevice PROVE Writing
<1>1. /\ pc = "write" /\ handled \in Seq(Seq(Symbol)) /\ handled # <<>> /\ buf \in Seq(Symbol)
      /\ len \in Nat /\ start \in Nat /\ nread \in Nat /\ cap \in Nat /\ upto \in Nat
      /\ Len(buf) = len + nread /\ start + upto <= len + nread
      /\ upto - Written \in Nat /\ upto > Written
  BY DEF Inv, TypeOK, ControlInv, WindowReceived, WriteDevice
<1>2. Len(handled) \in DOMAIN handled /\ handled[Len(handled)] \in Seq(Symbol) /\ Written \in Nat
  BY <1>1 DEF Written
<1> QED
  BY <1>1, <1>2 DEF Writing

(* write() appends to the last packet, and changes no other. *)
LEMMA WriteAppends ==
  ASSUME Writing, WriteDevice
  PROVE  \E k \in Nat :
           /\ k > 0 /\ k <= upto - Written
           /\ pc' = IF Written + k = upto THEN "read" ELSE "write"
           /\ handled' \in Seq(Seq(Symbol)) /\ Len(handled') = Len(handled) /\ handled' # <<>>
           /\ handled'[Len(handled)] = handled[Len(handled)] \o SubSeq(buf, Rest + 1, Rest + k)
           /\ Len(handled'[Len(handled)]) = Written + k
           /\ \A i \in 1 .. Len(handled) : i # Len(handled) => handled'[i] = handled[i]
<1>1. PICK k \in 1 .. upto - Written :
        /\ handled' = [handled EXCEPT ![Len(handled)] = @ \o SubSeq(buf, Rest + 1, Rest + k)]
        /\ pc' = IF Written + k = upto THEN "read" ELSE "write"
  BY DEF WriteDevice
<1>2. k \in Nat /\ k > 0 /\ k <= upto - Written
  BY DEF Writing
<1>3. SubSeq(buf, Rest + 1, Rest + k) \in Seq(Symbol) /\ Len(SubSeq(buf, Rest + 1, Rest + k)) = k
  <2>1. Rest \in Nat /\ Rest + k <= Len(buf)
    BY <1>2 DEF Rest, Writing
  <2> QED
    BY <1>2, <2>1, Piece DEF Writing
<1> DEFINE last == Len(handled)
           more == handled[last] \o SubSeq(buf, Rest + 1, Rest + k)
<1>4. more \in Seq(Symbol) /\ Len(more) = Written + k
  BY <1>3, ConcatProperties DEF Written, Writing
<1>5. last \in 1 .. Len(handled) /\ Len(handled) # 0
  BY DEF Writing
<1>6. handled' = [handled EXCEPT ![last] = more]
  BY <1>1
<1> HIDE DEF last, more
<1>7. /\ handled' \in Seq(Seq(Symbol)) /\ Len(handled') = Len(handled) /\ handled'[last] = more
      /\ \A i \in 1 .. Len(handled) : i # last => handled'[i] = handled[i]
  BY <1>4, <1>5, <1>6, ExceptSeq DEF Writing
<1>8. handled' # <<>>
  BY <1>5, <1>7
<1> QED
  BY <1>1, <1>2, <1>4, <1>7, <1>8 DEF last, more

LEMMA WriteDeviceStep == Inv /\ WriteDevice => Inv'
<1> SUFFICES ASSUME Inv, WriteDevice PROVE Inv'
  OBVIOUS
<1>0. Writing
  BY WriteIn
<1>1. Written \in Nat /\ upto \in Nat /\ pc = "write"
  BY <1>0 DEF Writing
<1>2. PICK k \in Nat :
        /\ k > 0 /\ k <= upto - Written
        /\ pc' = IF Written + k = upto THEN "read" ELSE "write"
        /\ handled' \in Seq(Seq(Symbol)) /\ Len(handled') = Len(handled) /\ handled' # <<>>
        /\ Len(handled'[Len(handled)]) = Written + k
  BY <1>0, WriteAppends
<1>4. handled' \in Seq(Seq(Symbol)) /\ Len(handled') = Len(handled) /\ handled' # <<>>
  BY <1>2
<1>5. Written' = Written + k
  BY <1>2 DEF Written
<1>6. TypeOK'
  BY <1>2, <1>4 DEF WriteDevice, Inv, TypeOK, window, conn, echo
<1>7. WindowReceived'
  BY <1>1, <1>2 DEF WriteDevice, Inv, WindowReceived, window, Scanned
<1>8. ControlInv'
  <2>1. pc' = "write" => upto - Written' \in Nat /\ upto > Written'
    BY <1>1, <1>2, <1>5
  <2> QED
    BY <1>1, <1>2, <1>4, <2>1 DEF WriteDevice, Inv, ControlInv, window, echo
<1>9. EchoExact' /\ CleanExit'
  BY <1>2 DEF WriteDevice, Inv, EchoExact, CleanExit, window, conn, echo
<1> QED
  BY <1>6, <1>7, <1>8, <1>9 DEF Inv

LEMMA ReadDeviceStep == Inv /\ ReadDevice => Inv'
<1> SUFFICES ASSUME Inv, ReadDevice PROVE Inv'
  OBVIOUS
<1>0. fetched \in Nat /\ echoed \in Seq(1 .. MaxEcho) /\ chunk = <<>> /\ <<>> \in Seq(1 .. MaxEcho)
  BY DEF Inv, TypeOK, ControlInv, ReadDevice
<1>1. PICK k \in 1 .. BUF_SIZE_UNIT :
        /\ fetched + k <= MaxEcho
        /\ chunk' = [i \in 1 .. k |-> fetched + i]
        /\ fetched' = fetched + k
  BY DEF ReadDevice
<1>2. /\ k \in Nat /\ chunk' \in Seq(1 .. MaxEcho) /\ Len(chunk') = k
      /\ \A i \in 1 .. k : chunk'[i] = fetched + i
  <2>1. k \in Nat /\ k > 0
    BY Bounds
  <2>2. \A i \in 1 .. k : fetched + i \in 1 .. MaxEcho
    BY <1>0, <1>1, <2>1, Bounds
  <2> QED
    BY <1>1, <2>1, <2>2
<1>3. Len(echoed) = fetched /\ \A i \in 1 .. Len(echoed) : echoed[i] = i
  BY <1>0, EchoByByte DEF Inv, EchoExact
<1>4. EchoExact'
  <2>1. echoed' = echoed /\ pc' # "recv"
    BY DEF ReadDevice
  <2>2. PICK c \in Seq(1 .. MaxEcho) : chunk' = c
    BY <1>2
  <2>3. PICK n \in Nat : n = fetched + k
    BY <1>0, <1>2
  <2>4. Len(c) = k /\ \A i \in 1 .. Len(c) : c[i] = Len(echoed) + i
    BY <1>2, <1>3, <2>2
  <2>5. Len(echoed) + Len(c) = n
    BY <1>3, <2>3, <2>4
  <2>6. echoed \o c = [i \in 1 .. n |-> i]
    BY <1>0, <1>3, <2>4, <2>5, EchoByByte, Zenon
  <2> QED
    BY <1>1, <2>1, <2>2, <2>3, <2>6 DEF EchoExact
<1>5. TypeOK'
  BY <1>0, <1>1, <1>2 DEF ReadDevice, Inv, TypeOK, window, conn
<1>6. WindowReceived' /\ ControlInv' /\ CleanExit'
  BY DEF ReadDevice, Inv, WindowReceived, ControlInv, CleanExit, window, conn, Scanned
<1> QED
  BY <1>4, <1>5, <1>6 DEF Inv

LEMMA SendStep == Inv /\ Send => Inv'
<1> SUFFICES ASSUME Inv, Send PROVE Inv'
  OBVIOUS
<1>0. fetched \in Nat /\ echoed \in Seq(1 .. MaxEcho) /\ chunk \in Seq(1 .. MaxEcho)
  BY DEF Inv, TypeOK
<1>1. PICK k \in 1 .. Len(chunk) :
        /\ echoed' = echoed \o SubSeq(chunk, 1, k)
        /\ chunk' = Unsent(chunk, k)
        /\ pc' = IF k = Len(chunk) THEN "read" ELSE "send"
  BY DEF Send
<1>2. /\ SubSeq(chunk, 1, k) \in Seq(1 .. MaxEcho) /\ SubSeq(chunk, k + 1, Len(chunk)) \in Seq(1 .. MaxEcho)
      /\ SubSeq(chunk, 1, k) \o SubSeq(chunk, k + 1, Len(chunk)) = chunk
      /\ k = Len(chunk) => SubSeq(chunk, k + 1, Len(chunk)) = <<>>
  BY <1>0, Cut
<1>3. echoed' \o chunk' = echoed \o chunk
  <2>1. PICK a \in Seq(1 .. MaxEcho) : a = SubSeq(chunk, 1, k)
    BY <1>2
  <2>2. PICK b \in Seq(1 .. MaxEcho) : b = SubSeq(chunk, k + 1, Len(chunk))
    BY <1>2
  <2>3. \A e \in Seq(1 .. MaxEcho) : (e \o a) \o b = e \o (a \o b)
    BY ONLY ConcatAssociative, a \in Seq(1 .. MaxEcho), b \in Seq(1 .. MaxEcho)
  <2>4. a \o b = chunk /\ echoed' = echoed \o a /\ chunk' = b
    BY <1>1, <1>2, <2>1, <2>2 DEF Unsent
  <2> QED
    BY <1>0, <2>3, <2>4
<1>4. TypeOK'
  <2>1. echoed' \in Seq(1 .. MaxEcho) /\ chunk' \in Seq(1 .. MaxEcho)
    BY <1>0, <1>1, <1>2, ConcatProperties DEF Unsent
  <2> QED
    BY <1>1, <2>1 DEF Send, Inv, TypeOK, window, conn
<1>5. EchoExact'
  BY <1>1, <1>3 DEF Send, Inv, EchoExact
<1>6. WindowReceived' /\ CleanExit'
  BY <1>1 DEF Send, Inv, WindowReceived, CleanExit, window, conn, Scanned
<1>7. ControlInv'
  BY <1>1, <1>2 DEF Send, Inv, ControlInv, window, Unsent
<1> QED
  BY <1>4, <1>5, <1>6, <1>7 DEF Inv

LEMMA FinishPacketStep == Inv /\ FinishPacket => Inv'
<1> SUFFICES ASSUME Inv, FinishPacket PROVE Inv'
  OBVIOUS
<1>1. /\ len \in Nat /\ start \in Nat /\ nread \in Nat /\ cap \in Nat /\ upto \in Nat
      /\ len + nread <= cap /\ Len(buf) = len + nread /\ start + upto <= len + nread
      /\ block = "held" /\ cap # 0 /\ chunk = <<>>
  BY DEF Inv, TypeOK, WindowReceived, ControlInv, FinishPacket
<1>2. /\ len' = len + nread /\ start' = upto /\ start' <= len' /\ len' <= cap /\ pc' = "recv"
  BY <1>1 DEF FinishPacket, NextStart
<1>3. TypeOK'
  <2>1. len' \in Nat /\ start' \in Nat
    BY <1>1, <1>2
  <2> QED
    BY <1>2, <2>1 DEF FinishPacket, Inv, TypeOK, conn, echo
<1>4. WindowReceived' /\ ControlInv' /\ CleanExit'
  BY <1>1, <1>2 DEF FinishPacket, Inv, WindowReceived, ControlInv, CleanExit, conn, echo
<1>5. Len(echoed) = fetched
  <2>1. Len(chunk) = 0 /\ Len(echoed) \in Nat
    BY <1>1 DEF Inv, TypeOK
  <2> QED
    BY <2>1, EchoByByte DEF Inv, TypeOK, EchoExact
<1>6. EchoExact'
  BY <1>5 DEF FinishPacket, Inv, EchoExact, echo
<1> QED
  BY <1>3, <1>4, <1>6 DEF Inv

(* Steps that only mark the end, or the peer's. *)
LEMMA OtherStep ==
  Inv /\ (ReallocFailed \/ SigPipe \/ PeerCloses \/ UNCHANGED vars) => Inv'
<1> SUFFICES ASSUME Inv, ReallocFailed \/ SigPipe \/ PeerCloses \/ UNCHANGED vars PROVE Inv'
  OBVIOUS
<1>1. CASE ReallocFailed
  <2>1. TypeOK' /\ WindowReceived' /\ EchoExact'
    BY <1>1 DEF Inv, ReallocFailed, TypeOK, WindowReceived, EchoExact, echo
  <2>2. ControlInv' /\ CleanExit'
    BY <1>1 DEF Inv, ReallocFailed, ControlInv, CleanExit, echo
  <2> QED
    BY <2>1, <2>2 DEF Inv
<1>2. CASE SigPipe
  <2>1. TypeOK' /\ WindowReceived' /\ EchoExact'
    BY <1>2 DEF Inv, SigPipe, TypeOK, WindowReceived, EchoExact, window, conn, echo
  <2>2. ControlInv' /\ CleanExit'
    BY <1>2 DEF Inv, SigPipe, ControlInv, CleanExit, window, conn, echo
  <2> QED
    BY <2>1, <2>2 DEF Inv
<1>3. CASE PeerCloses
  <2>1. TypeOK' /\ WindowReceived' /\ EchoExact'
    BY <1>3 DEF Inv, PeerCloses, TypeOK, WindowReceived, EchoExact, window, echo, Scanned
  <2>2. ControlInv' /\ CleanExit'
    BY <1>3 DEF Inv, PeerCloses, ControlInv, CleanExit, window, echo, Written
  <2> QED
    BY <2>1, <2>2 DEF Inv
<1>4. CASE UNCHANGED vars
  <2>1. TypeOK' /\ WindowReceived' /\ EchoExact'
    BY <1>4 DEF Inv, TypeOK, WindowReceived, EchoExact, vars, Scanned
  <2>2. ControlInv' /\ CleanExit'
    BY <1>4 DEF Inv, ControlInv, CleanExit, vars, Written
  <2> QED
    BY <2>1, <2>2 DEF Inv
<1> QED
  BY <1>1, <1>2, <1>3, <1>4

LEMMA InvStep == Inv /\ [Next]_vars => Inv'
<1> SUFFICES ASSUME Inv, [Next]_vars PROVE Inv'
  OBVIOUS
<1>1. CASE MallocFails \/ ReceiveFails \/ ReceiveEnd \/ OpenFails
  BY <1>1, ExitStep DEF MallocFails, ReceiveFails, ReceiveEnd, OpenFails
<1>2. CASE WriteFails \/ ReadFails \/ SendFails
  BY <1>2, ExitStep DEF WriteFails, ReadFails, SendFails
<1>3. CASE Grow \/ Receive \/ ParseNothing \/ OpenDevice
  BY <1>3, GrowStep, ReceiveStep, ParseNothingStep, OpenDeviceStep
<1>4. CASE WriteDevice \/ ReadDevice \/ Send \/ FinishPacket
  BY <1>4, WriteDeviceStep, ReadDeviceStep, SendStep, FinishPacketStep
<1>5. CASE ReallocFailed \/ SigPipe \/ PeerCloses \/ UNCHANGED vars
  BY <1>5, OtherStep
<1> QED
  BY <1>1, <1>2, <1>3, <1>4, <1>5 DEF Next, Step, Fault

(* The inductive invariant holds throughout. *)
THEOREM Invariance == Spec => []Inv
BY InvInit, InvStep, PTL DEF Spec

(* The thread's state keeps its type. *)
THEOREM TypeCorrect == Spec => []TypeOK
<1>1. Inv => TypeOK
  BY DEF Inv
<1> QED
  BY <1>1, Invariance, PTL

(* aesdsocket.c:631 to :658 and :680 to :802: for every size of the buffer
   and however recv cuts the stream, the window that is scanned and the packet
   found in it are bytes that were received, inside the allocation. *)
THEOREM WindowIsReceived == Spec => []WindowReceived
<1>1. Inv => WindowReceived
  BY DEF Inv
<1> QED
  BY <1>1, Invariance, PTL

(* echo_file_socket: what was sent and what is still to be sent are the
   bytes read from the device, each once and in order. *)
THEOREM EchoesExactly == Spec => []EchoExact
<1>1. Inv => EchoExact
  BY DEF Inv
<1> QED
  BY <1>1, Invariance, PTL

(* The labels at the end of aesd_char_thread: every way out but that of a
   failed realloc releases the socket, the device and the buffer once. *)
THEOREM ExitsCleanly == Spec => []CleanExit
<1>1. Inv => CleanExit
  BY DEF Inv
<1> QED
  BY <1>1, Invariance, PTL

----------------------------------------------------------------------------
(* The newlines among the first n received bytes. *)
NewlinesUpTo(n) == {j \in 1 .. n : buf[j] = NL}

LEMMA NewlinesFinite ==
  ASSUME NEW n \in Nat
  PROVE  IsFiniteSet(NewlinesUpTo(n)) /\ Cardinality(NewlinesUpTo(n)) \in Nat
<1>1. IsFiniteSet(1 .. n)
  BY FS_Interval
<1>2. NewlinesUpTo(n) \in SUBSET (1 .. n)
  BY DEF NewlinesUpTo
<1> QED
  BY <1>1, <1>2, FS_Subset, FS_CardinalityType

(* Counting never goes down, and goes up at a newline. *)
LEMMA CountGrows ==
  ASSUME NEW x \in Nat, NEW y \in Nat, x < y
  PROVE  /\ Cardinality(NewlinesUpTo(x)) <= Cardinality(NewlinesUpTo(y))
         /\ buf[y] = NL => Cardinality(NewlinesUpTo(x)) + 1 <= Cardinality(NewlinesUpTo(y))
<1> DEFINE X == NewlinesUpTo(x)
           Y == NewlinesUpTo(y)
<1>1. IsFiniteSet(X) /\ IsFiniteSet(Y) /\ Cardinality(X) \in Nat /\ Cardinality(Y) \in Nat
  BY NewlinesFinite
<1>2. X \in SUBSET Y /\ y \notin X /\ (buf[y] = NL => X \cup {y} \in SUBSET Y)
  BY DEF NewlinesUpTo
<1> HIDE DEF X, Y
<1>3. Cardinality(X) <= Cardinality(Y)
  BY <1>1, <1>2, FS_Subset
<1>4. Cardinality(X \cup {y}) = Cardinality(X) + 1
  BY <1>1, <1>2, FS_AddElement
<1>5. buf[y] = NL => Cardinality(X \cup {y}) <= Cardinality(Y)
  BY <1>1, <1>2, FS_Subset
<1> QED
  BY <1>3, <1>4, <1>5 DEF X, Y

(* No newline among the bytes after the first a, up to the b-th. *)
Without(a, b) == \A j \in a + 1 .. b : buf[j] # NL

FirstEnd(e) == e \in 1 .. Len(buf) /\ buf[e] = NL /\ Without(0, e - 1)

SecondEnd(e, f) == f \in 1 .. Len(buf) /\ e < f /\ buf[f] = NL /\ Without(e, f - 1)

LEMMA CountFirst ==
  ASSUME NEW e, FirstEnd(e), buf \in Seq(Symbol)
  PROVE  Cardinality(NewlinesUpTo(e)) = 1
<1>1. NewlinesUpTo(e) = {e}
  BY DEF FirstEnd, Without, NewlinesUpTo
<1> QED
  BY <1>1, FS_Singleton

LEMMA CountSecond ==
  ASSUME NEW e, NEW f, FirstEnd(e), SecondEnd(e, f), buf \in Seq(Symbol)
  PROVE  Cardinality(NewlinesUpTo(f)) = 2
<1>1. NewlinesUpTo(f) = NewlinesUpTo(e) \cup {f} /\ f \notin NewlinesUpTo(e) /\ e \in Nat
  BY DEF FirstEnd, SecondEnd, Without, NewlinesUpTo
<1>2. IsFiniteSet(NewlinesUpTo(e)) /\ Cardinality(NewlinesUpTo(e)) = 1
  BY <1>1, NewlinesFinite, CountFirst
<1> QED
  BY <1>1, <1>2, FS_AddElement

(* EndOf finds the newlines that end the first two packets. *)
LEMMA EndOfFirst ==
  ASSUME NEW e, FirstEnd(e), buf \in Seq(Symbol)
  PROVE  /\ EndOf(1) = e
         /\ Cardinality({j \in DOMAIN buf : buf[j] = NL}) >= 1
<1>1. e \in Nat /\ e \in DOMAIN buf /\ buf[e] = NL /\ e <= Len(buf) /\ Len(buf) \in Nat
  BY DEF FirstEnd
<1>2. Cardinality(NewlinesUpTo(e)) = 1
  BY CountFirst
<1>3. ASSUME NEW x \in DOMAIN buf, buf[x] = NL, Cardinality(NewlinesUpTo(x)) = 1
      PROVE  x = e
  <2>1. x \in Nat /\ x > 0
    OBVIOUS
  <2>2. CASE x < e
    BY <1>1, <1>3, <2>1, <2>2 DEF FirstEnd, Without
  <2>3. CASE e < x
    BY <1>1, <1>2, <1>3, <2>1, <2>3, CountGrows
  <2> QED
    BY <1>1, <2>1, <2>2, <2>3
<1>4. EndOf(1) = CHOOSE x \in DOMAIN buf : buf[x] = NL /\ Cardinality(NewlinesUpTo(x)) = 1
  BY DEF EndOf, NewlinesUpTo
<1>5. EndOf(1) = e
  BY <1>1, <1>2, <1>3, <1>4, Zenon
<1>6. NewlinesUpTo(Len(buf)) = {j \in DOMAIN buf : buf[j] = NL}
  BY DEF NewlinesUpTo
<1>7. Cardinality(NewlinesUpTo(Len(buf))) >= 1
  BY <1>1, <1>2, CountGrows
<1> QED
  BY <1>5, <1>6, <1>7

LEMMA EndOfSecond ==
  ASSUME NEW e, NEW f, FirstEnd(e), SecondEnd(e, f), buf \in Seq(Symbol)
  PROVE  /\ EndOf(2) = f
         /\ Cardinality({j \in DOMAIN buf : buf[j] = NL}) >= 2
<1>1. /\ e \in Nat /\ f \in Nat /\ f \in DOMAIN buf /\ buf[f] = NL
      /\ f <= Len(buf) /\ Len(buf) \in Nat /\ e < f
  BY DEF FirstEnd, SecondEnd
<1>2. Cardinality(NewlinesUpTo(e)) = 1 /\ Cardinality(NewlinesUpTo(f)) = 2
  BY CountFirst, CountSecond
<1>3. ASSUME NEW x \in DOMAIN buf, buf[x] = NL, Cardinality(NewlinesUpTo(x)) = 2
      PROVE  x = f
  <2>1. x \in Nat /\ x > 0
    OBVIOUS
  <2>2. CASE x <= e
    <3>1. x = e \/ x < e
      BY <1>1, <2>1, <2>2
    <3>2. Cardinality(NewlinesUpTo(x)) <= 1
      BY <1>1, <1>2, <1>3, <2>1, <3>1, CountGrows
    <3> QED
      BY <1>3, <3>2
  <2>3. CASE e < x /\ x < f
    BY <1>1, <1>3, <2>1, <2>3 DEF SecondEnd, Without
  <2>4. CASE f < x
    BY <1>1, <1>2, <1>3, <2>1, <2>4, CountGrows
  <2> QED
    BY <1>1, <2>1, <2>2, <2>3, <2>4
<1>4. EndOf(2) = CHOOSE x \in DOMAIN buf : buf[x] = NL /\ Cardinality(NewlinesUpTo(x)) = 2
  BY DEF EndOf, NewlinesUpTo
<1>5. EndOf(2) = f
  BY <1>1, <1>2, <1>3, <1>4, Zenon
<1>6. NewlinesUpTo(Len(buf)) = {j \in DOMAIN buf : buf[j] = NL}
  BY DEF NewlinesUpTo
<1>7. Cardinality(NewlinesUpTo(Len(buf))) >= 2
  BY <1>1, <1>2, CountGrows
<1> QED
  BY <1>5, <1>6, <1>7

----------------------------------------------------------------------------
(* handled[i] is what the device has of the bytes from a + 1 to b: all of
   them once the packet is complete. *)
PacketAt(i, a, b) ==
  /\ handled[i] = SubSeq(buf, a + 1, a + Len(handled[i]))
  /\ Len(handled[i]) <= b - a
  /\ Complete(i) => Len(handled[i]) = b - a

InPacket == pc \in {"write", "read", "send"}

Between == pc \in {"recv", "parse"}

(* start_ptr is right until the second packet is handled: it is 0 for the
   first packet and, being the length of the first packet, the place where
   the second one starts. *)
FirstDone(e) ==
  /\ PacketAt(1, 0, e)
  /\ Len(handled) = 1 => /\ Between => start = e
                         /\ InPacket => start = 0 /\ upto = e

SecondDone(e, f) ==
  /\ PacketAt(2, e, f)
  /\ Len(handled) = 2 /\ InPacket => start = e /\ e + upto = f

Begun(e) ==
  /\ FirstEnd(e) /\ FirstDone(e)
  /\ Len(handled) > 1 => \E f \in Nat : SecondEnd(e, f) /\ SecondDone(e, f)

TwoInv ==
  /\ handled = <<>> => start = 0 /\ Without(0, len)
  /\ handled # <<>> => \E e \in Nat : Begun(e)

(* A part of a packet is a part of what was sent. *)
LEMMA PartSent ==
  ASSUME NEW a \in Nat, NEW b \in Nat, NEW n \in Nat, n <= b - a, b <= Len(buf),
         buf \in Seq(Symbol)
  PROVE  SubSeq(SubSeq(buf, a + 1, b), 1, n) = SubSeq(buf, a + 1, a + n)
<1>1. CASE n = 0
  <2>1. SubSeq(SubSeq(buf, a + 1, b), 1, n) = <<>>
    BY <1>1, SubSeqEmpty
  <2>2. a + n \in Int /\ a + 1 \in Int /\ a + n < a + 1
    BY <1>1
  <2>3. SubSeq(buf, a + 1, a + n) = <<>>
    BY <2>2, SubSeqEmpty
  <2> QED
    BY <2>1, <2>3
<1>2. CASE n > 0
  <2> DEFINE i == a + 1
  <2>1. i \in 1 .. Len(buf) /\ b \in 1 .. Len(buf) /\ 1 \in 1 .. b - i + 1 /\ n \in 1 .. b - i + 1
    BY <1>2
  <2>2. i + 1 - 1 = i /\ i + n - 1 = a + n
    OBVIOUS
  <2> HIDE DEF i
  <2>3. SubSeq(SubSeq(buf, i, b), 1, n) = SubSeq(buf, i + 1 - 1, i + n - 1)
    BY <2>1, SubSeqOfSubSeq
  <2> QED
    BY <2>2, <2>3 DEF i
<1> QED
  BY <1>1, <1>2

LEMMA TwoInvSuffices == Inv /\ TwoInv => FirstTwoPacketsExact
<1> SUFFICES ASSUME Inv, TwoInv, NEW i \in DOMAIN handled, i <= 2
             PROVE  HandledWell(i)
  BY DEF FirstTwoPacketsExact
<1>1. buf \in Seq(Symbol) /\ handled \in Seq(Seq(Symbol)) /\ handled # <<>> /\ i \in {1, 2}
  BY DEF Inv, TypeOK
<1>2. handled[i] \in Seq(Symbol) /\ Len(handled[i]) \in Nat
  BY <1>1
<1>3. PICK e \in Nat : Begun(e)
  BY <1>1 DEF TwoInv
<1>4. /\ FirstEnd(e) /\ PacketAt(1, 0, e) /\ e <= Len(buf)
      /\ EndOf(0) = 0 /\ EndOf(1) = e
      /\ Cardinality({j \in DOMAIN buf : buf[j] = NL}) >= 1
  <2>1. FirstEnd(e) /\ PacketAt(1, 0, e)
    BY <1>3 DEF Begun, FirstDone
  <2>2. e <= Len(buf)
    BY <2>1 DEF FirstEnd
  <2>3. EndOf(0) = 0
    BY DEF EndOf
  <2> QED
    BY <1>1, <2>1, <2>2, <2>3, EndOfFirst
<1>5. ASSUME NEW a \in Nat, NEW b \in Nat, PacketAt(i, a, b), b <= Len(buf),
             EndOf(i - 1) = a, EndOf(i) = b,
             Cardinality({j \in DOMAIN buf : buf[j] = NL}) >= i
      PROVE  HandledWell(i)
  <2>1. Sent(i) = SubSeq(buf, a + 1, b)
    BY <1>5 DEF Sent
  <2>2. PICK n \in Nat : n = Len(handled[i])
    BY <1>2
  <2>3. handled[i] = SubSeq(buf, a + 1, a + n) /\ n <= b - a /\ (Complete(i) => a + n = b)
    BY <1>5, <2>2 DEF PacketAt
  <2>4. SubSeq(SubSeq(buf, a + 1, b), 1, n) = SubSeq(buf, a + 1, a + n)
    BY <1>1, <1>5, <2>3, PartSent
  <2> QED
    BY <1>5, <2>1, <2>2, <2>3, <2>4 DEF HandledWell
<1>6. CASE i = 1
  <2>1. EndOf(i - 1) = 0
    BY <1>4, <1>6
  <2> QED
    BY <1>4, <1>5, <1>6, <2>1
<1>7. CASE i = 2
  <2>1. Len(handled) > 1
    BY <1>1, <1>7
  <2>2. PICK f \in Nat : SecondEnd(e, f) /\ PacketAt(2, e, f)
    BY <1>3, <2>1 DEF Begun, SecondDone
  <2>3. f <= Len(buf) /\ EndOf(i - 1) = e
    BY <1>4, <1>7, <2>2 DEF SecondEnd
  <2>4. EndOf(2) = f /\ Cardinality({j \in DOMAIN buf : buf[j] = NL}) >= 2
    BY <1>1, <1>4, <2>2, EndOfSecond
  <2> QED
    BY <1>5, <1>7, <2>2, <2>3, <2>4
<1> QED
  BY <1>1, <1>6, <1>7

LEMMA TwoInvInit == Init => TwoInv
BY DEF Init, TwoInv, Without

(* A step that leaves the stream, the packets and start_ptr alone and does
   not begin a packet or the search for one. *)
LEMMA QuietStep ==
  ASSUME TwoInv, UNCHANGED <<buf, handled, start, upto, len>>,
         Between' => Between, InPacket' => InPacket,
         pc \in {"write", "done"} => pc' \in {"write", "done"}
  PROVE  TwoInv'
<1>1. handled' = <<>> => start' = 0 /\ Without(0, len)'
  BY DEF TwoInv, Without
<1>2. ASSUME handled # <<>> PROVE \E e \in Nat : Begun(e)'
  <2>1. PICK e \in Nat : Begun(e)
    BY <1>2 DEF TwoInv
  <2>2. FirstEnd(e)' /\ FirstDone(e)'
    BY <2>1 DEF Begun, FirstEnd, FirstDone, PacketAt, Complete, Without
  <2>3. Len(handled) > 1 => \E f \in Nat : SecondEnd(e, f)' /\ SecondDone(e, f)'
    BY <2>1 DEF Begun, SecondEnd, SecondDone, PacketAt, Complete, Without
  <2> QED
    BY <2>2, <2>3 DEF Begun
<1> QED
  BY <1>1, <1>2 DEF TwoInv

LEMMA QuietSteps ==
  ASSUME TwoInv,
         \/ MallocFails \/ ReallocFailed \/ ReceiveFails \/ ReceiveEnd \/ OpenFails
         \/ WriteFails \/ ReadFails \/ SendFails \/ SigPipe
         \/ Grow \/ ReadDevice \/ Send \/ PeerCloses \/ UNCHANGED vars
  PROVE  TwoInv'
<1>1. ASSUME NEW label, Exit(label) PROVE TwoInv'
  <2>1. UNCHANGED <<buf, handled, start, upto, len>> /\ pc' = "done"
    BY <1>1 DEF Exit
  <2> QED
    BY <2>1, QuietStep DEF Between, InPacket
<1>2. CASE MallocFails \/ ReceiveFails \/ ReceiveEnd \/ OpenFails \/ WriteFails \/ ReadFails \/ SendFails
  BY <1>1, <1>2 DEF MallocFails, ReceiveFails, ReceiveEnd, OpenFails, WriteFails, ReadFails, SendFails
<1>3. CASE ReallocFailed
  <2>1. UNCHANGED <<buf, handled, start, upto, len>> /\ pc = "recv" /\ pc' \in {"done", "dead"}
    BY <1>3 DEF ReallocFailed
  <2> QED
    BY <2>1, QuietStep DEF Between, InPacket
<1>4. CASE SigPipe
  <2>1. UNCHANGED <<buf, handled, start, upto, len>> /\ pc = "send" /\ pc' = "dead"
    BY <1>4 DEF SigPipe, window
  <2> QED
    BY <2>1, QuietStep DEF Between, InPacket
<1>5. CASE Grow \/ PeerCloses \/ UNCHANGED vars
  <2>1. UNCHANGED <<buf, handled, start, upto, len, pc>>
    BY <1>5 DEF Grow, PeerCloses, vars, window
  <2> QED
    BY <2>1, QuietStep DEF Between, InPacket
<1>6. CASE ReadDevice \/ Send
  <2>1. /\ UNCHANGED <<buf, handled, start, upto, len>>
        /\ pc \in {"read", "send"} /\ pc' \in {"read", "send"}
    BY <1>6 DEF ReadDevice, Send, window
  <2> QED
    BY <2>1, QuietStep DEF Between, InPacket
<1> QED
  BY <1>2, <1>3, <1>4, <1>5, <1>6

LEMMA TwoParseNothing == Inv /\ TwoInv /\ ParseNothing => TwoInv'
<1> SUFFICES ASSUME Inv, TwoInv, ParseNothing PROVE TwoInv'
  OBVIOUS
<1>1. /\ UNCHANGED <<buf, handled, start, upto, nread>>
      /\ pc = "parse" /\ pc' = "recv" /\ len' = len + nread /\ Newlines = {}
  BY DEF ParseNothing
<1>2. len \in Nat /\ nread \in Nat /\ Len(buf) = len + nread
  BY <1>1 DEF Inv, TypeOK, WindowReceived
<1>3. handled = <<>> => start' = 0 /\ Without(0, len)'
  <2>1. ASSUME handled = <<>>, NEW j \in 1 .. len + nread PROVE buf[j] # NL
    <3>1. start = 0
      BY <2>1 DEF TwoInv
    <3>2. j \in 1 .. Scanned(len, start, nread) /\ start + j = j /\ start + j <= Len(buf)
      BY <1>2, <3>1 DEF Scanned
    <3> QED
      BY <1>1, <3>2 DEF Newlines
  <2> QED
    BY <1>1, <2>1 DEF TwoInv, Without
<1>4. ASSUME handled # <<>> PROVE \E e \in Nat : Begun(e)'
  <2>1. PICK e \in Nat : Begun(e)
    BY <1>4 DEF TwoInv
  <2>2. FirstEnd(e)' /\ FirstDone(e)'
    BY <1>1, <2>1 DEF Begun, FirstEnd, FirstDone, PacketAt, Complete, Without, Between, InPacket
  <2>3. Len(handled) > 1 => \E f \in Nat : SecondEnd(e, f)' /\ SecondDone(e, f)'
    BY <1>1, <2>1 DEF Begun, SecondEnd, SecondDone, PacketAt, Complete, Without, InPacket
  <2> QED
    BY <1>1, <2>2, <2>3 DEF Begun
<1> QED
  BY <1>1, <1>3, <1>4 DEF TwoInv

LEMMA TwoFinishPacket == Inv /\ TwoInv /\ FinishPacket => TwoInv'
<1> SUFFICES ASSUME Inv, TwoInv, FinishPacket PROVE TwoInv'
  OBVIOUS
<1>1. /\ UNCHANGED <<buf, handled, upto>>
      /\ pc = "read" /\ pc' = "recv" /\ start' = upto /\ handled # <<>>
  BY DEF FinishPacket, NextStart, Inv, ControlInv
<1>2. PICK e \in Nat : Begun(e)
  BY <1>1 DEF TwoInv
<1>3. FirstEnd(e)' /\ FirstDone(e)'
  BY <1>1, <1>2 DEF Begun, FirstEnd, FirstDone, PacketAt, Complete, Without, Between, InPacket
<1>4. Len(handled) > 1 => \E f \in Nat : SecondEnd(e, f)' /\ SecondDone(e, f)'
  BY <1>1, <1>2 DEF Begun, SecondEnd, SecondDone, PacketAt, Complete, Without, InPacket
<1> QED
  BY <1>1, <1>3, <1>4 DEF Begun, TwoInv

(* What was received stays where it is when more comes. *)
LEMMA PieceKept ==
  ASSUME NEW s \in Seq(Symbol), NEW t \in Seq(Symbol),
         NEW a \in Nat, NEW n \in Nat, a + n <= Len(s)
  PROVE  SubSeq(s \o t, a + 1, a + n) = SubSeq(s, a + 1, a + n)
<1> DEFINE i == a + 1
           j == a + n
<1>1. CASE n = 0
  <2>1. i \in Int /\ j \in Int /\ j < i
    BY <1>1
  <2> HIDE DEF i, j
  <2>2. SubSeq(s \o t, i, j) = <<>> /\ SubSeq(s, i, j) = <<>>
    BY <2>1, SubSeqEmpty
  <2> QED
    BY <2>2 DEF i, j
<1>2. CASE n > 0
  <2>1. i \in 1 .. Len(s) /\ j \in 1 .. Len(s)
    BY <1>2
  <2> HIDE DEF i, j
  <2>2. SubSeq(s \o t, i, j) = SubSeq(s, i, j)
    BY <2>1, SubSeqOfConcat1
  <2> QED
    BY <2>2 DEF i, j
<1> QED
  BY <1>1, <1>2

LEMMA TwoReceive == Inv /\ TwoInv /\ Receive => TwoInv'
<1> SUFFICES ASSUME Inv, TwoInv, Receive PROVE TwoInv'
  OBVIOUS
<1>1. PICK bytes \in Seq(Symbol) : buf' = buf \o bytes
  BY ReceiveAppends
<1>2. /\ buf \in Seq(Symbol) /\ handled \in Seq(Seq(Symbol)) /\ len = Len(buf) /\ len \in Nat
      /\ UNCHANGED <<handled, start, upto, len>> /\ pc = "recv" /\ pc' = "parse"
  BY DEF Receive, Inv, TypeOK, ControlInv
<1>3. Len(buf') \in Nat /\ Len(buf) <= Len(buf') /\ \A j \in 1 .. Len(buf) : buf'[j] = buf[j]
  <2>1. Len(buf') = Len(buf) + Len(bytes) /\ Len(bytes) \in Nat
    BY <1>1, <1>2, ConcatProperties
  <2>2. \A j \in 1 .. Len(buf) : buf'[j] = buf[j]
    BY <1>1, <1>2, ConcatProperties
  <2> QED
    BY <1>2, <2>1, <2>2
<1>4. handled' = <<>> => start' = 0 /\ Without(0, len)'
  BY <1>2, <1>3 DEF TwoInv, Without
<1>5. ASSUME NEW i \in DOMAIN handled, NEW a \in Nat, NEW b \in Nat,
             b <= Len(buf), PacketAt(i, a, b)
      PROVE  PacketAt(i, a, b)'
  <2>1. PICK n \in Nat : n = Len(handled[i])
    BY <1>2
  <2>2. a + n <= Len(buf)
    BY <1>2, <1>5, <2>1 DEF PacketAt
  <2>3. SubSeq(buf', a + 1, a + n) = SubSeq(buf, a + 1, a + n)
    BY <1>1, <1>2, <2>2, PieceKept
  <2> QED
    BY <1>2, <1>5, <2>1, <2>3 DEF PacketAt, Complete
<1>6. ASSUME handled # <<>> PROVE \E e \in Nat : Begun(e)'
  <2>1. PICK e \in Nat : Begun(e)
    BY <1>6 DEF TwoInv
  <2>2. FirstEnd(e)' /\ e <= Len(buf)
    <3>1. e \in 1 .. Len(buf) /\ buf[e] = NL /\ \A j \in 0 + 1 .. e - 1 : buf[j] # NL
      BY <2>1 DEF Begun, FirstEnd, Without
    <3>2. e \in 1 .. Len(buf') /\ buf'[e] = NL
      BY <1>2, <1>3, <3>1
    <3>3. ASSUME NEW j \in 0 + 1 .. e - 1 PROVE buf'[j] # NL
      <4>1. j \in 1 .. Len(buf)
        BY <1>2, <3>1
      <4> QED
        BY <1>3, <3>1, <4>1
    <3> QED
      BY <3>1, <3>2, <3>3 DEF FirstEnd, Without
  <2>3. PacketAt(1, 0, e)'
    <3>1. 1 \in DOMAIN handled
      BY <1>2, <1>6
    <3> QED
      BY <1>5, <2>1, <2>2, <3>1 DEF Begun, FirstDone
  <2>4. FirstDone(e)'
    BY <1>2, <2>1, <2>3 DEF Begun, FirstDone, Between, InPacket
  <2>5. ASSUME Len(handled) > 1 PROVE \E f \in Nat : SecondEnd(e, f)' /\ SecondDone(e, f)'
    <3>1. PICK f \in Nat : SecondEnd(e, f) /\ SecondDone(e, f)
      BY <2>1, <2>5 DEF Begun
    <3>2. SecondEnd(e, f)' /\ f <= Len(buf)
      <4>1. f \in 1 .. Len(buf) /\ e < f /\ buf[f] = NL /\ \A j \in e + 1 .. f - 1 : buf[j] # NL
        BY <3>1 DEF SecondEnd, Without
      <4>2. f \in 1 .. Len(buf') /\ buf'[f] = NL
        BY <1>2, <1>3, <4>1
      <4>3. ASSUME NEW j \in e + 1 .. f - 1 PROVE buf'[j] # NL
        <5>1. j \in 1 .. Len(buf)
          BY <1>2, <4>1
        <5> QED
          BY <1>3, <4>1, <5>1
      <4> QED
        BY <4>1, <4>2, <4>3 DEF SecondEnd, Without
    <3>3. 2 \in DOMAIN handled
      BY <1>2, <2>5
    <3>4. PacketAt(2, e, f)'
      BY <1>5, <3>1, <3>2, <3>3 DEF SecondDone
    <3> QED
      BY <1>2, <3>1, <3>2, <3>4 DEF SecondDone, InPacket
  <2> QED
    BY <1>2, <2>2, <2>4, <2>5 DEF Begun
<1> QED
  BY <1>2, <1>4, <1>6 DEF TwoInv

(* A packet that is being written grows by the bytes that come next in it. *)
LEMMA PacketGrows ==
  ASSUME Writing, WriteDevice, NEW a \in Nat, NEW b \in Nat,
         PacketAt(Len(handled), a, b), start = a, a + upto = b
  PROVE  PacketAt(Len(handled), a, b)'
<1>1. PICK k \in Nat :
        /\ k > 0 /\ k <= upto - Written
        /\ pc' = IF Written + k = upto THEN "read" ELSE "write"
        /\ Len(handled') = Len(handled)
        /\ handled'[Len(handled)] = handled[Len(handled)] \o SubSeq(buf, Rest + 1, Rest + k)
        /\ Len(handled'[Len(handled)]) = Written + k
  BY WriteAppends
<1>2. PICK w \in Nat : w = Written
  BY DEF Writing
<1>3. handled[Len(handled)] = SubSeq(buf, a + 1, a + w) /\ Rest = a + w
  BY <1>2 DEF PacketAt, Rest, Written
<1>4. handled'[Len(handled)] = SubSeq(buf, a + 1, a + (w + k))
  <2> DEFINE m == a + 1
             l == a + w
             n == a + (w + k)
  <2>1. /\ m \in 1 .. Len(buf) + 1 /\ l \in m - 1 .. Len(buf) /\ n \in l .. Len(buf)
        /\ n = l + k
    BY <1>1, <1>2 DEF Writing
  <2> HIDE DEF m, l, n
  <2>2. SubSeq(buf, m, l) \o SubSeq(buf, l + 1, n) = SubSeq(buf, m, n)
    BY <2>1, ConcatAdjacentSubSeq DEF Writing
  <2>3. handled'[Len(handled)] = SubSeq(buf, m, l) \o SubSeq(buf, l + 1, n)
    BY <1>1, <1>3, <2>1 DEF m, l
  <2> QED
    BY <2>2, <2>3 DEF m, n
<1>5. w + k <= b - a /\ (pc' \notin {"write", "done"} => w + k = b - a)
  BY <1>1, <1>2 DEF Writing
<1>6. UNCHANGED buf /\ Len(handled') = Len(handled) /\ Len(handled'[Len(handled)]) = w + k
  BY <1>1, <1>2 DEF WriteDevice, window
<1>7. PICK q \in Nat : q = Len(handled)
  BY DEF Writing
<1> QED
  BY <1>4, <1>5, <1>6, <1>7 DEF PacketAt, Complete

LEMMA TwoWriteDevice == Inv /\ TwoInv /\ WriteDevice => TwoInv'
<1> SUFFICES ASSUME Inv, TwoInv, WriteDevice PROVE TwoInv'
  OBVIOUS
<1>0. Writing
  BY WriteIn
<1>1. /\ UNCHANGED <<buf, start, upto, len>> /\ pc = "write" /\ pc' \in {"read", "write"}
      /\ handled # <<>> /\ handled' # <<>> /\ Len(handled') = Len(handled) /\ Len(handled) \in Nat
      /\ Len(handled) > 0
      /\ \A i \in 1 .. Len(handled) : i # Len(handled) => handled'[i] = handled[i]
  BY <1>0, WriteAppends DEF WriteDevice, window, Writing
<1>2. PICK e \in Nat : Begun(e)
  BY <1>1 DEF TwoInv
<1>3. FirstEnd(e)'
  BY <1>1, <1>2 DEF Begun, FirstEnd, Without
<1>4. PacketAt(1, 0, e)'
  <2>1. CASE Len(handled) = 1
    <3>1. PacketAt(Len(handled), 0, e) /\ start = 0 /\ 0 + upto = e
      BY <1>0, <1>1, <1>2, <2>1 DEF Begun, FirstDone, InPacket, Writing
    <3>2. PacketAt(Len(handled), 0, e)'
      BY <1>0, <3>1, PacketGrows
    <3> QED
      BY <1>1, <2>1, <3>2
  <2>2. CASE Len(handled) > 1
    <3>1. handled'[1] = handled[1]
      BY <1>1, <2>2
    <3> QED
      BY <1>1, <1>2, <2>2, <3>1 DEF Begun, FirstDone, PacketAt, Complete
  <2> QED
    BY <1>1, <2>1, <2>2
<1>5. FirstDone(e)'
  BY <1>1, <1>2, <1>4 DEF Begun, FirstDone, Between, InPacket
<1>6. ASSUME Len(handled) > 1 PROVE \E f \in Nat : SecondEnd(e, f)' /\ SecondDone(e, f)'
  <2>1. PICK f \in Nat : SecondEnd(e, f) /\ SecondDone(e, f)
    BY <1>2, <1>6 DEF Begun
  <2>2. SecondEnd(e, f)'
    BY <1>1, <2>1 DEF SecondEnd, Without
  <2>3. PacketAt(2, e, f)'
    <3>1. CASE Len(handled) = 2
      <4>1. PacketAt(Len(handled), e, f) /\ start = e /\ e + upto = f
        BY <1>1, <2>1, <3>1 DEF SecondDone, InPacket
      <4>2. PacketAt(Len(handled), e, f)'
        BY <1>0, <4>1, PacketGrows
      <4> QED
        BY <1>1, <3>1, <4>2
    <3>2. CASE Len(handled) > 2
      <4>1. handled'[2] = handled[2]
        BY <1>1, <3>2
      <4> QED
        BY <1>1, <2>1, <3>2, <4>1 DEF SecondDone, PacketAt, Complete
    <3> QED
      BY <1>1, <1>6, <3>1, <3>2
  <2> QED
    BY <1>1, <2>1, <2>2, <2>3 DEF SecondDone, InPacket
<1> QED
  BY <1>1, <1>3, <1>5, <1>6 DEF Begun, TwoInv

(* OpenDevice adds a packet at start_ptr that ends at the next newline; the
   device has all of it (a seek) or none of it (a write). *)
LEMMA OpenAppends ==
  ASSUME Inv, OpenDevice
  PROVE  \E u \in Nat, p \in Seq(Symbol) :
           /\ u > 0 /\ start + u <= Len(buf) /\ buf[start + u] = NL
           /\ \A j \in 1 .. u - 1 : buf[start + j] # NL
           /\ upto' = u /\ handled' = Append(handled, p)
           /\ p = SubSeq(buf, start + 1, start + Len(p)) /\ Len(p) <= u
           /\ pc' # "write" => Len(p) = u
<1>1. /\ len \in Nat /\ start \in Nat /\ nread \in Nat /\ buf \in Seq(Symbol)
      /\ Len(buf) = len + nread /\ start <= len /\ Newlines # {}
  BY DEF Inv, TypeOK, WindowReceived, OpenDevice
<1>2. PICK u \in Newlines : upto' = u /\ \A j \in Newlines : u <= j
  BY <1>1, FirstNewline DEF OpenDevice
<1>3. u \in 1 .. (len - start) + nread /\ start + u <= Len(buf) /\ buf[start + u] = NL
  BY <1>2 DEF Newlines, Scanned
<1>4. u \in Nat /\ u > 0
  BY <1>1, <1>3
<1>5. ASSUME NEW j \in 1 .. u - 1, buf[start + j] = NL PROVE FALSE
  <2>1. j \in 1 .. (len - start) + nread /\ start + j <= Len(buf) /\ j < u
    BY <1>1, <1>3, <1>4
  <2>2. j \in Newlines
    BY <1>5, <2>1 DEF Newlines, Scanned
  <2> QED
    BY <1>2, <1>4, <2>1, <2>2
<1>6. CASE buf[start + 1] = "K"
  <2> DEFINE p == SubSeq(buf, start + 1, start + u)
  <2>1. p \in Seq(Symbol) /\ Len(p) = u
    BY <1>1, <1>3, <1>4, Piece
  <2>2. handled' = Append(handled, p)
    BY <1>2, <1>6 DEF OpenDevice
  <2> HIDE DEF p
  <2>3. p = SubSeq(buf, start + 1, start + Len(p))
    BY <2>1 DEF p
  <2> QED
    BY <1>2, <1>3, <1>4, <1>5, <2>1, <2>2, <2>3
<1>7. CASE buf[start + 1] # "K"
  <2> DEFINE a == start + 1
  <2>1. start \in Int /\ a \in Int /\ start < a
    BY <1>1
  <2> HIDE DEF a
  <2>2. SubSeq(buf, a, start) = <<>>
    BY <2>1, SubSeqEmpty
  <2>3. <<>> \in Seq(Symbol) /\ Len(<<>>) = 0 /\ start + 0 = start
    BY <1>1
  <2>4. handled' = Append(handled, <<>>) /\ pc' = "write"
    BY <1>7 DEF OpenDevice
  <2>5. <<>> = SubSeq(buf, start + 1, start + Len(<<>>))
    BY <2>2, <2>3 DEF a
  <2>6. PICK p \in Seq(Symbol) :
          /\ handled' = Append(handled, p) /\ Len(p) = 0
          /\ p = SubSeq(buf, start + 1, start + Len(p))
    BY <2>3, <2>4, <2>5
  <2>7. Len(p) <= u
    BY <1>4, <2>6
  <2> QED
    BY <1>2, <1>3, <1>4, <1>5, <2>4, <2>6, <2>7
<1> QED
  BY <1>6, <1>7

LEMMA TwoOpenDevice == Inv /\ TwoInv /\ OpenDevice => TwoInv'
<1> SUFFICES ASSUME Inv, TwoInv, OpenDevice PROVE TwoInv'
  OBVIOUS
<1>1. PICK u \in Nat, p \in Seq(Symbol) :
        /\ u > 0 /\ start + u <= Len(buf) /\ buf[start + u] = NL
        /\ \A j \in 1 .. u - 1 : buf[start + j] # NL
        /\ upto' = u /\ handled' = Append(handled, p)
        /\ p = SubSeq(buf, start + 1, start + Len(p)) /\ Len(p) <= u
        /\ pc' # "write" => Len(p) = u
  BY OpenAppends
<1>2. /\ UNCHANGED <<buf, start, len>> /\ pc = "parse" /\ pc' \in {"read", "write"}
      /\ start \in Nat /\ Len(buf) \in Nat /\ handled \in Seq(Seq(Symbol))
  BY DEF OpenDevice, window, Inv, TypeOK
<1>3. PICK q \in Nat : q = Len(handled)
  BY <1>2
<1>4. /\ Len(handled') = q + 1 /\ handled'[q + 1] = p /\ handled' # <<>>
      /\ \A i \in 1 .. q : handled'[i] = handled[i]
  BY <1>1, <1>2, <1>3, AppendProperties
<1>5. PacketAt(q + 1, start, start + u)'
  <2>1. PICK n \in Nat : n = Len(p)
    OBVIOUS
  <2>2. Complete(q + 1)' <=> pc' # "write"
    BY <1>2, <1>3, <1>4 DEF Complete
  <2>3. (start + u) - start = u
    BY <1>1, <1>2
  <2> QED
    BY <1>1, <1>2, <1>4, <2>1, <2>2, <2>3 DEF PacketAt
<1>6. ASSUME NEW i \in 1 .. q, NEW a, NEW b, PacketAt(i, a, b)
      PROVE  PacketAt(i, a, b)'
  BY <1>2, <1>3, <1>4, <1>6 DEF PacketAt, Complete
<1>7. CASE q = 0
  <2>1. start = 0 /\ start + u = u
    <3>1. handled = <<>>
      BY <1>2, <1>3, <1>7, EmptySeq
    <3>2. start = 0
      BY <3>1 DEF TwoInv
    <3>3. \A x \in Nat : 0 + x = x
      OBVIOUS
    <3> QED
      BY <3>2, <3>3, Zenon
  <2>2. FirstEnd(u)'
    <3>1. u \in 1 .. Len(buf) /\ buf[u] = NL
      <4>1. u <= Len(buf) /\ buf[u] = NL
        BY <1>1, <2>1, Zenon
      <4> QED
        BY <1>1, <1>2, <4>1
    <3>2. ASSUME NEW j \in 0 + 1 .. u - 1 PROVE buf[j] # NL
      <4>1. j \in 1 .. u - 1 /\ 0 + j = j
        BY <1>1
      <4>2. buf[start + j] # NL
        BY <1>1, <4>1, Zenon
      <4> QED
        BY <2>1, <4>1, <4>2, Zenon
    <3> QED
      BY <1>2, <3>1, <3>2 DEF FirstEnd, Without
  <2>3. PacketAt(1, 0, u)'
    BY <1>2, <1>5, <1>7, <2>1
  <2>4. FirstDone(u)'
    BY <1>1, <1>2, <2>1, <2>3 DEF FirstDone, Between
  <2> QED
    BY <1>4, <1>7, <2>2, <2>4 DEF TwoInv, Begun
<1>8. CASE q > 0
  <2>1. PICK e \in Nat : Begun(e)
    BY <1>2, <1>3, <1>8 DEF TwoInv
  <2>2. FirstEnd(e)' /\ Len(handled') > 1
    BY <1>2, <1>3, <1>4, <1>8, <2>1 DEF Begun, FirstEnd, Without
  <2>3. FirstDone(e)'
    <3>1. 1 \in 1 .. q /\ PacketAt(1, 0, e)
      BY <1>8, <2>1 DEF Begun, FirstDone
    <3>2. PacketAt(1, 0, e)'
      BY <1>6, <3>1
    <3>3. Len(handled') # 1
      BY <2>2
    <3> QED
      BY <3>2, <3>3 DEF FirstDone
  <2>4. CASE q = 1
    <3>1. start = e
      BY <1>2, <1>3, <2>1, <2>4 DEF Begun, FirstDone, Between
    <3>2. PICK f \in Nat : f = e + u
      OBVIOUS
    <3>3. SecondEnd(e, f)'
      <4>1. f \in 1 .. Len(buf) /\ e < f /\ buf[f] = NL
        BY <1>1, <1>2, <3>1, <3>2
      <4>2. ASSUME NEW j \in e + 1 .. f - 1 PROVE buf[j] # NL
        <5>1. PICK d \in 1 .. u - 1 : j = start + d
          <6>1. j - e \in 1 .. u - 1 /\ j = start + (j - e)
            BY <1>1, <2>1, <3>1, <3>2
          <6> QED
            BY <6>1
        <5> QED
          BY <1>1, <5>1
      <4> QED
        BY <1>2, <4>1, <4>2 DEF SecondEnd, Without
    <3>4. PacketAt(2, e, f)'
      BY <1>2, <1>5, <2>4, <3>1, <3>2
    <3>5. SecondDone(e, f)'
      BY <1>1, <1>2, <3>1, <3>2, <3>4 DEF SecondDone
    <3> QED
      BY <1>4, <2>2, <2>3, <3>3, <3>5 DEF TwoInv, Begun
  <2>5. CASE q > 1
    <3>1. PICK f \in Nat : SecondEnd(e, f) /\ SecondDone(e, f)
      BY <1>3, <2>1, <2>5 DEF Begun
    <3>2. SecondEnd(e, f)'
      BY <1>2, <3>1 DEF SecondEnd, Without
    <3>3. SecondDone(e, f)'
      BY <1>4, <1>6, <2>5, <3>1 DEF SecondDone
    <3> QED
      BY <1>4, <2>2, <2>3, <3>2, <3>3 DEF TwoInv, Begun
  <2> QED
    BY <1>8, <2>4, <2>5
<1> QED
  BY <1>7, <1>8

LEMMA TwoInvStep == Inv /\ TwoInv /\ [Next]_vars => TwoInv'
<1> SUFFICES ASSUME Inv, TwoInv, [Next]_vars PROVE TwoInv'
  OBVIOUS
<1>1. CASE Receive \/ ParseNothing \/ OpenDevice \/ WriteDevice \/ FinishPacket
  BY <1>1, TwoReceive, TwoParseNothing, TwoOpenDevice, TwoWriteDevice, TwoFinishPacket
<1>2. CASE Grow \/ ReceiveEnd \/ ReadDevice \/ Send \/ Fault \/ PeerCloses \/ UNCHANGED vars
  BY <1>2, QuietSteps DEF Fault
<1> QED
  BY <1>1, <1>2 DEF Next, Step

(* aesdsocket.c:3 and :4, aesd_char_thread and dump_content: for every size of
   the buffer and every stream of bytes, however recv cuts the stream and write
   the packet, the first two packets of a connection reach the device whole
   and in order.  (A third one need not: start_ptr becomes the length of the
   second packet and not the place where it ends.) *)
THEOREM FirstTwoExact == Spec => []FirstTwoPacketsExact
<1>1. Init => Inv /\ TwoInv
  BY InvInit, TwoInvInit
<1>2. Inv /\ TwoInv /\ [Next]_vars => (Inv /\ TwoInv)'
  BY InvStep, TwoInvStep
<1> QED
  BY <1>1, <1>2, TwoInvSuffices, PTL DEF Spec
=============================================================================
