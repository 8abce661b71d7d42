-------------------------- MODULE AesdServerProofs --------------------------
(***************************************************************************)
(* Proofs about main, for every set of nodes and any number of addresses.  *)
(* First its loop, AesdSocketMain: the list holds each thread once, and    *)
(* the walk, the join and the exit are right.  Then the whole of it: with  *)
(* its start-up, its flags and its pointers it is still that loop, the     *)
(* pointers of the TAILQ spell the loop's list, and the flags release each *)
(* thing once.                                                             *)
(***************************************************************************)
EXTENDS AesdServer, TLAPS

----------------------------------------------------------------------------
(* TAILQ_REMOVE: the list without its i-th node, in the same order. *)
LEMMA Removed ==
  ASSUME NEW s \in Seq(Node), NEW i \in DOMAIN s,
         \A j, k \in DOMAIN s : s[j] = s[k] => j = k
  PROVE  LET r == RemoveAt(s, i)
         IN  /\ r \in Seq(Node) /\ Len(r) = Len(s) - 1
             /\ \A j \in 1 .. Len(s) - 1 : r[j] = IF j < i THEN s[j] ELSE s[j + 1]
             /\ \A j, k \in DOMAIN r : r[j] = r[k] => j = k
             /\ {r[j] : j \in DOMAIN r} = {s[j] : j \in DOMAIN s} \ {s[i]}
<1> DEFINE r == RemoveAt(s, i)
<1>1. /\ r \in Seq(Node) /\ Len(r) = Len(s) - 1
      /\ \A j \in 1 .. Len(s) - 1 : r[j] = IF j < i THEN s[j] ELSE s[j + 1]
  <2> DEFINE a == SubSeq(s, 1, i - 1)
             b == SubSeq(s, i + 1, Len(s))
  <2>1. Len(s) \in Nat /\ i \in 1 .. Len(s)
    OBVIOUS
  <2>2. a \in Seq(Node) /\ Len(a) = i - 1 /\ \A j \in 1 .. i - 1 : a[j] = s[j]
    BY <2>1
  <2>3. /\ b \in Seq(Node) /\ Len(b) = Len(s) - i
        /\ \A j \in 1 .. Len(s) - i : b[j] = s[i + j]
    BY <2>1
  <2>4. r = a \o b
    BY DEF RemoveAt
  <2> HIDE DEF a, b, r
  <2>5. r \in Seq(Node) /\ Len(r) = Len(s) - 1
    BY <2>1, <2>2, <2>3, <2>4
  <2>6. ASSUME NEW j \in 1 .. Len(s) - 1
        PROVE  r[j] = IF j < i THEN s[j] ELSE s[j + 1]
    <3>1. CASE j < i
      BY <2>1, <2>2, <2>3, <2>4, <3>1
    <3>2. CASE ~(j < i)
      <4>1. j - (i - 1) \in 1 .. Len(s) - i /\ i + (j - (i - 1)) = j + 1
        BY <2>1, <3>2
      <4>2. r[j] = b[j - (i - 1)]
        <5>1. j \in Len(a) + 1 .. Len(a) + Len(b) /\ j - Len(a) = j - (i - 1)
          BY <2>1, <2>2, <2>3, <3>2
        <5> QED BY <2>2, <2>3, <2>4, <5>1
      <4> QED BY <2>3, <3>2, <4>1, <4>2
    <3> QED BY <3>1, <3>2
  <2> QED BY <2>5, <2>6
<1>2. /\ DOMAIN r = 1 .. Len(s) - 1 /\ DOMAIN s = 1 .. Len(s)
      /\ Len(s) \in Nat /\ i \in 1 .. Len(s)
  BY <1>1
<1> HIDE DEF r
<1>3. \A j, k \in DOMAIN r : r[j] = r[k] => j = k
  BY <1>1, <1>2
<1>4. \A j \in DOMAIN r : r[j] \in {s[k] : k \in DOMAIN s} \ {s[i]}
  <2> SUFFICES ASSUME NEW j \in DOMAIN r
               PROVE  \E k \in DOMAIN s : k # i /\ r[j] = s[k]
    OBVIOUS
  <2>1. CASE j < i
    <3>1. j \in DOMAIN s /\ j # i /\ r[j] = s[j]
      BY <1>1, <1>2, <2>1
    <3> QED BY <3>1
  <2>2. CASE ~(j < i)
    <3>1. j + 1 \in DOMAIN s /\ j + 1 # i /\ r[j] = s[j + 1]
      BY <1>1, <1>2, <2>2
    <3> QED BY <3>1
  <2> QED BY <2>1, <2>2
<1>5. ASSUME NEW j \in DOMAIN s, s[j] # s[i]
      PROVE  \E k \in DOMAIN r : r[k] = s[j]
  <2>1. CASE j < i
    <3>1. j \in DOMAIN r /\ r[j] = s[j]
      BY <1>1, <1>2, <2>1
    <3> QED BY <3>1
  <2>2. CASE j > i
    <3>1. j - 1 \in DOMAIN r /\ r[j - 1] = s[j]
      BY <1>1, <1>2, <2>2
    <3> QED BY <3>1
  <2> QED BY <1>2, <1>5, <2>1, <2>2
<1>6. {r[j] : j \in DOMAIN r} = {s[j] : j \in DOMAIN s} \ {s[i]}
  BY <1>4, <1>5
<1> QED
  BY <1>1, <1>3, <1>6 DEF r

(* The inductive invariant. *)
Inv == TypeOK /\ ListOwnsThreads /\ CursorAllocated /\ ExitIsClean

(* A node with a thread has a place in the list, and TAILQ_NEXT leads from it
   to another such node. *)
LEMMA InList ==
  ASSUME TypeOK, ListOwnsThreads, NEW n \in Allocated
  PROVE  /\ IndexIn(n) \in DOMAIN list /\ list[IndexIn(n)] = n
         /\ NextOf(n) \in (Allocated \ {n}) \cup {NULL}
<1>1. \E i \in DOMAIN list : list[i] = n
  BY DEF ListOwnsThreads
<1>2. IndexIn(n) \in DOMAIN list /\ list[IndexIn(n)] = n
  BY <1>1 DEF IndexIn
<1>3. ASSUME IndexIn(n) # Len(list)
      PROVE  list[IndexIn(n) + 1] \in Allocated \ {n}
  <2>1. /\ IndexIn(n) + 1 \in DOMAIN list /\ IndexIn(n) + 1 # IndexIn(n)
    BY <1>2, <1>3 DEF TypeOK
  <2> QED BY <1>2, <2>1 DEF ListOwnsThreads
<1> QED
  BY <1>2, <1>3 DEF NextOf

LEMMA InvInit == Init => Inv
<1> SUFFICES ASSUME Init PROVE Inv
  OBVIOUS
<1>1. Allocated = {}
  BY DEF Init, Allocated
<1>2. TypeOK
  <2>1. caught \in BOOLEAN
    BY Zenon DEF Init
  <2> QED BY <2>1, LostAssumption DEF Init, TypeOK
<1> QED
  BY <1>1, <1>2 DEF Init, Inv, ListOwnsThreads, CursorAllocated, ExitIsClean

(* Accepting a connection adds a node that was not in the list. *)
LEMMA AcceptKeepsInv == Inv /\ AcceptConnection => Inv'
<1> SUFFICES ASSUME Inv, AcceptConnection PROVE Inv'
  OBVIOUS
<1> USE DEF Inv
<1>1. PICK n \in Node \ Allocated :
        /\ thread' = [thread EXCEPT ![n] = "serving"]
        /\ list' = Append(list, n)
  BY DEF AcceptConnection
<1>2. /\ count' = count + 1 /\ pc' = "join"
      /\ UNCHANGED <<var, tvar, caught, lost>>
  BY DEF AcceptConnection, CountAfterAccept
<1>3. TypeOK'
  BY <1>1, <1>2 DEF TypeOK
<1>4. Allocated' = Allocated \cup {n}
  BY <1>1 DEF TypeOK, Allocated
<1>5. /\ Len(list') = Len(list) + 1 /\ DOMAIN list' = 1 .. Len(list) + 1
      /\ \A i \in 1 .. Len(list) : list'[i] = list[i]
      /\ list'[Len(list) + 1] = n
      /\ Len(list) \in Nat /\ DOMAIN list = 1 .. Len(list)
  BY <1>1 DEF TypeOK
<1>6. \A i \in DOMAIN list : list[i] # n
  BY <1>1 DEF ListOwnsThreads
<1>7. {list'[i] : i \in DOMAIN list'} = {list[i] : i \in DOMAIN list} \cup {n}
  BY <1>5
<1>8. ListOwnsThreads'
  <2>1. \A i, j \in DOMAIN list' : list'[i] = list'[j] => i = j
    BY <1>5, <1>6 DEF ListOwnsThreads
  <2>2. count' = Len(list')
    BY <1>2, <1>5 DEF ListOwnsThreads
  <2> QED BY <1>4, <1>7, <2>1, <2>2 DEF ListOwnsThreads
<1> QED
  BY <1>2, <1>3, <1>8 DEF CursorAllocated, ExitIsClean

(* Freeing a joined node takes exactly that node out of the list. *)
LEMMA JoinKeepsInv == Inv /\ JoinAndFree => Inv'
<1> SUFFICES ASSUME Inv, JoinAndFree PROVE Inv'
  OBVIOUS
<1> USE DEF Inv
<1>1. /\ pc = "pthread_join" /\ pc' = "visit"
      /\ list' = RemoveAt(list, IndexIn(var))
      /\ thread' = [thread EXCEPT ![var] = "none"]
      /\ count' = count - 1 /\ var' = tvar
      /\ UNCHANGED <<tvar, caught, lost>>
  BY DEF JoinAndFree, Resume, CountAfterJoin
<1>2. /\ var \in Allocated /\ tvar \in (Allocated \ {var}) \cup {NULL}
  BY <1>1 DEF CursorAllocated
<1>3. IndexIn(var) \in DOMAIN list /\ list[IndexIn(var)] = var
  BY <1>2, InList
<1>4. /\ list' \in Seq(Node) /\ Len(list') = Len(list) - 1
      /\ \A i, j \in DOMAIN list' : list'[i] = list'[j] => i = j
      /\ {list'[i] : i \in DOMAIN list'} = {list[i] : i \in DOMAIN list} \ {var}
  <2>1. list \in Seq(Node) /\ \A i, j \in DOMAIN list : list[i] = list[j] => i = j
    BY DEF TypeOK, ListOwnsThreads
  <2> DEFINE r == RemoveAt(list, IndexIn(var))
  <2>2. /\ r \in Seq(Node) /\ Len(r) = Len(list) - 1
        /\ \A i, j \in DOMAIN r : r[i] = r[j] => i = j
        /\ {r[i] : i \in DOMAIN r} = {list[i] : i \in DOMAIN list} \ {list[IndexIn(var)]}
    BY <1>3, <2>1, Removed
  <2>3. list' = r
    BY <1>1
  <2> HIDE DEF r
  <2> QED BY <1>3, <2>2, <2>3
<1>5. Allocated' = Allocated \ {var}
  BY <1>1, <1>2 DEF TypeOK, Allocated
<1>6. ListOwnsThreads'
  BY <1>1, <1>4, <1>5 DEF ListOwnsThreads
<1>7. count' \in Nat
  BY <1>1, <1>3, <1>4 DEF TypeOK, ListOwnsThreads
<1>8. TypeOK'
  BY <1>1, <1>2, <1>4, <1>7 DEF TypeOK, Allocated
<1>9. CursorAllocated' /\ ExitIsClean'
  BY <1>1, <1>2, <1>5 DEF CursorAllocated, ExitIsClean
<1> QED
  BY <1>6, <1>8, <1>9

(* A step of a thread frees and allocates nothing. *)
LEMMA ThreadKeepsInv == \A n \in Node : Inv /\ (Serve(n) \/ Return(n)) => Inv'
<1> SUFFICES ASSUME NEW n \in Node, Inv, Serve(n) \/ Return(n) PROVE Inv'
  OBVIOUS
<1> USE DEF Inv
<1>1. /\ Allocated' = Allocated /\ thread' \in [Node -> {"none", "serving", "completed", "ended"}]
      /\ UNCHANGED <<pc, list, count, var, tvar, caught, lost>>
  BY DEF TypeOK, Allocated, Serve, Return
<1> QED
  BY <1>1 DEF TypeOK, ListOwnsThreads, CursorAllocated, ExitIsClean

(* The other steps of main leave list, count and threads alone. *)
LEMMA WalkKeepsInv ==
  Inv /\ (Begin \/ EnterAccept \/ AcceptWithoutThread \/ AcceptFails \/ JoinThreads \/ Visit
          \/ EndOfList \/ CheckSignal \/ SignalToMain \/ \E n \in Node : SignalToThread(n))
  => Inv'
<1> SUFFICES ASSUME Inv,
       Begin \/ EnterAccept \/ AcceptWithoutThread \/ AcceptFails \/ JoinThreads \/ Visit
       \/ EndOfList \/ CheckSignal \/ SignalToMain \/ \E n \in Node : SignalToThread(n)
     PROVE Inv'
  OBVIOUS
<1> USE DEF Inv
<1>1. UNCHANGED <<list, count, thread>>
  BY DEF Begin, EnterAccept, AcceptWithoutThread, AcceptFails, JoinThreads, Visit, EndOfList,
         CheckSignal, SignalToMain, SignalToThread
<1>2. Allocated' = Allocated /\ ListOwnsThreads'
  BY <1>1 DEF Allocated, ListOwnsThreads
<1>3. CASE Begin \/ EnterAccept \/ AcceptFails \/ AcceptWithoutThread \/ EndOfList
  BY <1>1, <1>2, <1>3, LostAssumption
     DEF Begin, EnterAccept, AcceptFails, AcceptWithoutThread, EndOfList, TypeOK,
         CursorAllocated, ExitIsClean
<1>4. CASE JoinThreads
  <2>1. First \in Allocated \cup {NULL}
    BY DEF First, TypeOK, ListOwnsThreads
  <2>2. First \in Node \cup {NULL}
    BY <2>1 DEF Allocated
  <2> QED
    BY <1>1, <1>2, <1>4, <2>1, <2>2 DEF JoinThreads, TypeOK, CursorAllocated, ExitIsClean
<1>5. CASE Visit
  <2>1. /\ pc = "visit" /\ var \in Allocated /\ tvar' = NextOf(var)
        /\ \/ pc' = "pthread_join" /\ var' = var
           \/ pc' = "visit" /\ var' = tvar'
        /\ UNCHANGED <<caught, lost>>
    BY <1>5 DEF Visit, CursorAllocated
  <2>2. NextOf(var) \in (Allocated \ {var}) \cup {NULL}
    BY <2>1, InList
  <2>3. CursorAllocated'
    BY <1>2, <2>1, <2>2 DEF CursorAllocated
  <2>4. TypeOK'
    BY <1>1, <2>1, <2>2 DEF TypeOK, Allocated
  <2> QED BY <1>2, <2>1, <2>3, <2>4 DEF ExitIsClean
<1>6. CASE CheckSignal
  <2>1. pc' = "exit" => caught /\ Allocated = {}
    <3> SUFFICES ASSUME pc' = "exit" PROVE caught /\ Allocated = {}
      OBVIOUS
    <3>1. caught /\ count = 0
      BY <1>6 DEF CheckSignal, Exits
    <3>2. Len(list) = 0
      BY <3>1 DEF ListOwnsThreads
    <3>3. list = <<>>
      BY <3>2 DEF TypeOK
    <3> QED BY <3>1, <3>3 DEF ListOwnsThreads
  <2> QED
    BY <1>1, <1>2, <1>6, <2>1 DEF CheckSignal, TypeOK, CursorAllocated, ExitIsClean
<1>7. CASE SignalToMain \/ \E n \in Node : SignalToThread(n)
  BY <1>1, <1>2, <1>7 DEF SignalToMain, SignalToThread, TypeOK, CursorAllocated, ExitIsClean
<1> QED
  BY <1>3, <1>4, <1>5, <1>6, <1>7

(* Inv holds always. *)
THEOREM Invariance == Spec => []Inv
<1>1. Inv /\ [Next]_vars => Inv'
  <2> SUFFICES ASSUME Inv, [Next]_vars PROVE Inv'
    OBVIOUS
  <2>1. CASE Next
    BY <2>1, AcceptKeepsInv, JoinKeepsInv, ThreadKeepsInv, WalkKeepsInv
       DEF Next, Main, Client
  <2>2. CASE UNCHANGED vars
    BY <2>2 DEF vars, Inv, TypeOK, ListOwnsThreads, CursorAllocated, ExitIsClean, Allocated
  <2> QED BY <2>1, <2>2
<1> QED
  BY InvInit, <1>1, PTL DEF Spec

(* Types are kept. *)
THEOREM TypeCorrect == Spec => []TypeOK
  BY Invariance, PTL DEF Inv

(* connection_count and the list account for every thread not yet joined. *)
THEOREM ThreadsAccounted == Spec => []ListOwnsThreads
  BY Invariance, PTL DEF Inv

(* The walk over the list, which frees nodes as it goes, never uses a freed
   one. *)
THEOREM WalkIsSafe == Spec => []CursorAllocated
  BY Invariance, PTL DEF Inv

(* The server exits only on a signal and with every thread joined. *)
THEOREM ExitsClean == Spec => []ExitIsClean
  BY Invariance, PTL DEF Inv

(* No node is freed before its thread has ended. *)
THEOREM NoFreeUnderThread == Spec => FreedAfterEnd
<1>1. Inv /\ [Next]_vars =>
        [\A n \in Node : thread[n] # "none" /\ thread'[n] = "none" => thread[n] = "ended"]_vars
  <2> SUFFICES ASSUME Inv, Next, NEW n \in Node, thread[n] # "none", thread'[n] = "none"
               PROVE  thread[n] = "ended"
    OBVIOUS
  <2>1. thread \in [Node -> {"none", "serving", "completed", "ended"}]
    BY DEF Inv, TypeOK
  <2>2. JoinAndFree
    BY <2>1 DEF Next, Main, Client, Begin, EnterAccept, AcceptConnection, AcceptWithoutThread,
                AcceptFails, JoinThreads, Visit, EndOfList, CheckSignal, SignalToMain,
                SignalToThread, Serve, Return
  <2>3. thread[var] = "ended" /\ thread' = [thread EXCEPT ![var] = "none"]
    BY <2>2 DEF JoinAndFree, Joinable
  <2> QED BY <2>1, <2>3
<1> QED
  BY <1>1, Invariance, PTL DEF Spec, FreedAfterEnd

----------------------------------------------------------------------------

(* Every step of the server is one of the loop or leaves the loop alone. *)
LEMMA StepOfLoop == [ServerNext]_serverVars => [Next]_vars
<1> SUFFICES ASSUME [ServerNext]_serverVars PROVE [Next]_vars
  OBVIOUS
<1>1. CASE StartUp \/ UNCHANGED serverVars
  BY <1>1 DEF StartUp, serverVars
<1>2. CASE LoopOfMain
  BY <1>2 DEF LoopOfMain, EnterLoop, RemoveNode, EndOfWalk, Elsewhere, Shutdown, Next, Main
<1>3. CASE InsertNode \/ OtherClient
  BY <1>3 DEF InsertNode, OtherClient, Next, Client
<1>4. CASE ServerSignal
  BY <1>4 DEF ServerSignal, Next
<1>5. CASE \E n \in Node : \/ ServeConnection(n)
                           \/ /\ SignalToThread(n) \/ Return(n)
                              /\ UNCHANGED <<startup, file, queue>>
  BY <1>5 DEF ServeConnection, Next
<1> QED
  BY <1>1, <1>2, <1>3, <1>4, <1>5 DEF ServerNext

(* Start-up, exit and the pointers add nothing to what the loop may do, so
   all that is proved of the loop holds of the server. *)
THEOREM ServerRunsLoop == ServerSpec => Spec
<1>1. ServerInit => Init
  BY DEF ServerInit
<1> QED
  BY <1>1, StepOfLoop, PTL DEF ServerSpec, Spec

LEMMA ServerInv == ServerSpec => []Inv
  BY ServerRunsLoop, Invariance, PTL

----------------------------------------------------------------------------
(* The pointers that main can have made. *)
Cell == Node \cup {TQHead}

Queue == [next : [Cell -> Node \cup {NULL}], prev : [Cell -> Cell \cup {NULL}]]

Distinct(s) == \A i, j \in DOMAIN s : s[i] = s[j] => i = j

(* The places before, between and after the nodes are different fields. *)
LEMMA Places ==
  ASSUME NEW s \in Seq(Node), Distinct(s)
  PROVE  /\ \A i \in 0 .. Len(s) : TQ!Place(s, i) \in Cell
         /\ \A i, j \in 0 .. Len(s) : TQ!Place(s, i) = TQ!Place(s, j) => i = j
<1>1. \A i \in 1 .. Len(s) : s[i] \in Node /\ s[i] # TQHead /\ TQ!Place(s, i) = s[i]
  BY ServerAssumption DEF TQ!Place
<1>2. TQ!Place(s, 0) = TQHead
  BY DEF TQ!Place
<1>3. ASSUME NEW i \in 0 .. Len(s) PROVE TQ!Place(s, i) \in Cell
  BY <1>1, <1>2 DEF Cell
<1>4. ASSUME NEW i \in 0 .. Len(s), NEW j \in 0 .. Len(s), TQ!Place(s, i) = TQ!Place(s, j)
      PROVE  i = j
  <2>1. CASE i = 0 \/ j = 0
    BY <1>1, <1>2, <1>4, <2>1
  <2>2. CASE i # 0 /\ j # 0
    <3>1. i \in DOMAIN s /\ j \in DOMAIN s /\ s[i] = s[j]
      BY <1>1, <1>4, <2>2
    <3> QED BY <3>1 DEF Distinct
  <2> QED BY <2>1, <2>2
<1> QED
  BY <1>3, <1>4

(* TAILQ_INSERT_TAIL of a node that is not in the queue appends it. *)
LEMMA InsertAppends ==
  ASSUME NEW q \in Queue, NEW s \in Seq(Node), Distinct(s), TQ!Spells(q, s),
         NEW n \in Node, \A i \in DOMAIN s : s[i] # n
  PROVE  TQ!InsertTail(q, n) \in Queue /\ TQ!Spells(TQ!InsertTail(q, n), Append(s, n))
<1> DEFINE r == TQ!InsertTail(q, n)
           t == Append(s, n)
           last == TQ!Place(s, Len(s))
<1>1. /\ Len(s) \in Nat /\ Len(t) = Len(s) + 1 /\ t[Len(s) + 1] = n
      /\ \A i \in 1 .. Len(s) : t[i] = s[i] /\ s[i] \in Node
  OBVIOUS
<1>2. \A i \in 0 .. Len(s) : TQ!Place(t, i) = TQ!Place(s, i)
  BY <1>1 DEF TQ!Place
<1>3. TQ!Place(t, Len(t)) = n
  BY <1>1 DEF TQ!Place
<1>4. last \in Cell /\ q.prev[TQHead] = last
  BY <1>1, Places DEF TQ!Spells
<1>5. n # TQHead /\ n \in Cell /\ TQHead \in Cell
  BY ServerAssumption DEF Cell
<1>6. \A i \in 0 .. Len(s) : TQ!Place(s, i) # n
  BY <1>1, <1>5 DEF TQ!Place
<1>7. /\ r.next = [q.next EXCEPT ![n] = NULL, ![last] = n]
      /\ r.prev = [q.prev EXCEPT ![n] = last, ![TQHead] = n]
  BY <1>4 DEF TQ!InsertTail
<1>8. r \in Queue
  <2>1. /\ r.next \in [Cell -> Node \cup {NULL}]
        /\ r.prev \in [Cell -> Cell \cup {NULL}]
    BY <1>4, <1>5, <1>7 DEF Queue
  <2>2. r = [next |-> r.next, prev |-> r.prev]
    BY DEF TQ!InsertTail
  <2> HIDE DEF r
  <2> QED BY <2>1, <2>2 DEF Queue
<1> HIDE DEF r, t, last
<1>9. /\ \A c \in Cell : r.next[c] = IF c = last THEN n ELSE IF c = n THEN NULL ELSE q.next[c]
      /\ \A c \in Cell : r.prev[c] = IF c = TQHead THEN n ELSE IF c = n THEN last ELSE q.prev[c]
  BY <1>4, <1>5, <1>7 DEF Queue
<1>10. last # n
  BY <1>1, <1>6 DEF last
<1>11. ASSUME NEW i \in 0 .. Len(t) - 1
       PROVE  r.next[TQ!Place(t, i)] = t[i + 1] /\ r.prev[t[i + 1]] = TQ!Place(t, i)
  <2>1. CASE i = Len(s)
    BY <1>1, <1>2, <1>4, <1>5, <1>9, <2>1 DEF last
  <2>2. CASE i < Len(s)
    <3>1. i \in 0 .. Len(s) - 1 /\ i \in 0 .. Len(s) /\ i + 1 \in 1 .. Len(s) /\ i # Len(s)
          /\ Len(s) \in 0 .. Len(s)
      BY <1>1, <2>2
    <3>2. q.next[TQ!Place(s, i)] = s[i + 1] /\ q.prev[s[i + 1]] = TQ!Place(s, i)
      BY <3>1 DEF TQ!Spells
    <3>3. TQ!Place(s, i) \in Cell /\ TQ!Place(s, i) # last /\ TQ!Place(s, i) # n
      BY <1>6, <3>1, Places DEF last
    <3>4. s[i + 1] \in Cell /\ s[i + 1] # n /\ s[i + 1] # TQHead /\ t[i + 1] = s[i + 1]
      BY <1>1, <3>1, ServerAssumption DEF Cell
    <3> QED BY <1>2, <1>9, <3>1, <3>2, <3>3, <3>4
  <2> QED BY <1>1, <2>1, <2>2
<1>12. r.next[TQ!Place(t, Len(t))] = NULL /\ r.prev[TQHead] = TQ!Place(t, Len(t))
  BY <1>3, <1>5, <1>9, <1>10
<1>13. TQ!Spells(r, t)
  BY <1>11, <1>12 DEF TQ!Spells
<1> QED
  BY <1>8, <1>13 DEF r, t

(* TAILQ_REMOVE and free of the k-th node take that node out. *)
LEMMA RemoveTakesOut ==
  ASSUME NEW q \in Queue, NEW s \in Seq(Node), Distinct(s), TQ!Spells(q, s),
         NEW k \in DOMAIN s
  PROVE  LET r == TQ!Forget(TQ!Remove(q, s[k]), s[k])
         IN  r \in Queue /\ TQ!Spells(r, RemoveAt(s, k))
<1> DEFINE r == TQ!Forget(TQ!Remove(q, s[k]), s[k])
           t == RemoveAt(s, k)
           n == s[k]
           before == TQ!Place(s, k - 1)
           after == TQ!PointsBack(q, n)
<1>1. Len(s) \in Nat /\ k \in 1 .. Len(s) /\ \A i \in 1 .. Len(s) : s[i] \in Node
  OBVIOUS
<1>2. /\ Len(t) = Len(s) - 1
      /\ \A i \in 1 .. Len(s) - 1 : t[i] = IF i < k THEN s[i] ELSE s[i + 1]
  BY Removed DEF Distinct
<1>3. \A i \in 0 .. Len(s) - 1 :
        TQ!Place(t, i) = IF i < k THEN TQ!Place(s, i) ELSE TQ!Place(s, i + 1)
  BY <1>1, <1>2 DEF TQ!Place
<1>4. /\ k - 1 \in 0 .. Len(s) - 1 /\ k - 1 \in 0 .. Len(s) /\ k \in 0 .. Len(s)
      /\ (k - 1) + 1 = k /\ TQ!Place(s, k) = n
  BY <1>1 DEF TQ!Place
<1>5. before \in Cell /\ q.prev[n] = before /\ before # n
  <2>1. q.prev[n] = before
    BY <1>4 DEF TQ!Spells
  <2> QED BY <1>1, <1>4, <2>1, Places
<1>6. n \in Node /\ n # TQHead /\ n \in Cell /\ TQHead \in Cell
  BY <1>1, ServerAssumption DEF Cell
<1>7. q.next[n] = IF k < Len(s) THEN s[k + 1] ELSE NULL
  BY <1>1, <1>4 DEF TQ!Spells
<1>8. after = IF k < Len(s) THEN s[k + 1] ELSE TQHead
  <2>1. k < Len(s) => s[k + 1] # NULL
    BY <1>1, NodeAssumption
  <2> QED BY <1>7, <2>1 DEF TQ!PointsBack
<1>9. after \in Cell /\ after # n /\ q.next[n] \in Node \cup {NULL}
  <2>1. k < Len(s) => k + 1 \in DOMAIN s /\ s[k + 1] \in Node /\ k + 1 # k
    BY <1>1
  <2> QED BY <1>6, <1>7, <1>8, <2>1 DEF Cell, Distinct
<1>10. /\ r.next = [[q.next EXCEPT ![before] = q.next[n]] EXCEPT ![n] = NULL]
       /\ r.prev = [[q.prev EXCEPT ![after] = before] EXCEPT ![n] = NULL]
       /\ r = [next |-> r.next, prev |-> r.prev]
  BY <1>5 DEF TQ!Forget, TQ!Remove
<1> HIDE DEF r, t, n, before, after
<1>11. r \in Queue
  <2>1. /\ r.next \in [Cell -> Node \cup {NULL}]
        /\ r.prev \in [Cell -> Cell \cup {NULL}]
    BY <1>5, <1>6, <1>9, <1>10 DEF Queue
  <2> QED BY <1>10, <2>1 DEF Queue
<1>12. /\ \A c \in Cell : c # n =>
            r.next[c] = IF c = before THEN q.next[n] ELSE q.next[c]
       /\ \A c \in Cell : c # n =>
            r.prev[c] = IF c = after THEN before ELSE q.prev[c]
  BY <1>5, <1>6, <1>9, <1>10 DEF Queue
<1>13. \A i \in 0 .. Len(s) : i # k => TQ!Place(s, i) \in Cell /\ TQ!Place(s, i) # n
  BY <1>4, Places
<1>14. ASSUME NEW i \in 0 .. Len(t) - 1
       PROVE  r.next[TQ!Place(t, i)] = t[i + 1] /\ r.prev[t[i + 1]] = TQ!Place(t, i)
  <2>1. CASE i < k - 1
    <3>1. /\ i \in 0 .. Len(s) - 1 /\ i \in 0 .. Len(s) /\ i + 1 \in 0 .. Len(s)
          /\ i # k /\ i + 1 # k /\ i # k - 1 /\ i + 1 \in 1 .. Len(s)
          /\ i + 1 \in 1 .. Len(s) - 1 /\ i + 1 < k /\ i < k
      BY <1>1, <1>2, <2>1
    <3>2. TQ!Place(t, i) = TQ!Place(s, i) /\ t[i + 1] = s[i + 1]
      BY <1>2, <1>3, <3>1
    <3>3. q.next[TQ!Place(s, i)] = s[i + 1] /\ q.prev[s[i + 1]] = TQ!Place(s, i)
      BY <3>1 DEF TQ!Spells
    <3>4. TQ!Place(s, i) # before
      BY <1>4, <3>1, Places DEF before
    <3>5. s[i + 1] \in Cell /\ s[i + 1] # n /\ s[i + 1] # after
      <4>1. s[i + 1] # TQHead /\ s[i + 1] \in Cell
        BY <1>1, <3>1, ServerAssumption DEF Cell
      <4>2. \A j \in DOMAIN s : s[j] = s[i + 1] => j = i + 1
        BY <1>1, <3>1 DEF Distinct
      <4>3. k \in DOMAIN s /\ (k < Len(s) => k + 1 \in DOMAIN s) /\ k + 1 # i + 1
        BY <1>1, <3>1
      <4> QED BY <1>8, <3>1, <4>1, <4>2, <4>3 DEF n
    <3> QED BY <1>12, <1>13, <3>1, <3>2, <3>3, <3>4, <3>5
  <2>2. CASE i = k - 1
    <3>1. /\ i \in 0 .. Len(s) - 1 /\ i < k /\ k < Len(s) /\ i + 1 = k
          /\ i + 1 \in 1 .. Len(s) - 1
      BY <1>1, <1>2, <2>2
    <3>2. TQ!Place(t, i) = before /\ t[i + 1] = s[k + 1]
      BY <1>2, <1>3, <2>2, <3>1 DEF before
    <3> QED BY <1>5, <1>7, <1>8, <1>9, <1>12, <3>1, <3>2
  <2>3. CASE i > k - 1
    <3>1. /\ i \in 0 .. Len(s) - 1 /\ i + 1 \in 0 .. Len(s) - 1 /\ i + 1 \in 0 .. Len(s)
          /\ i + 1 # k /\ i + 1 # k - 1 /\ i + 2 \in 1 .. Len(s) /\ (i + 1) + 1 = i + 2
          /\ i + 1 \in 1 .. Len(s) - 1 /\ ~(i + 1 < k) /\ ~(i < k)
      BY <1>1, <1>2, <2>3
    <3>2. TQ!Place(t, i) = TQ!Place(s, i + 1) /\ t[i + 1] = s[i + 2]
      BY <1>2, <1>3, <3>1
    <3>3. q.next[TQ!Place(s, i + 1)] = s[i + 2] /\ q.prev[s[i + 2]] = TQ!Place(s, i + 1)
      BY <3>1 DEF TQ!Spells
    <3>4. TQ!Place(s, i + 1) # before
      BY <1>4, <3>1, Places DEF before
    <3>5. s[i + 2] \in Cell /\ s[i + 2] # n /\ s[i + 2] # after
      <4>1. s[i + 2] # TQHead /\ s[i + 2] \in Cell
        BY <1>1, <3>1, ServerAssumption DEF Cell
      <4>2. \A j \in DOMAIN s : s[j] = s[i + 2] => j = i + 2
        BY <1>1, <3>1 DEF Distinct
      <4>3. k \in DOMAIN s /\ (k < Len(s) => k + 1 \in DOMAIN s) /\ k + 1 # i + 2 /\ k # i + 2
        BY <1>1, <2>3, <3>1
      <4> QED BY <1>8, <3>1, <4>1, <4>2, <4>3 DEF n
    <3> QED BY <1>12, <1>13, <3>1, <3>2, <3>3, <3>4, <3>5
  <2> QED BY <1>1, <1>2, <2>1, <2>2, <2>3
<1>15. r.next[TQ!Place(t, Len(t))] = NULL /\ r.prev[TQHead] = TQ!Place(t, Len(t))
  <2>1. q.next[TQ!Place(s, Len(s))] = NULL /\ q.prev[TQHead] = TQ!Place(s, Len(s))
    BY DEF TQ!Spells
  <2>2. CASE k = Len(s)
    <3>1. TQ!Place(t, Len(t)) = before
      BY <1>1, <1>2, <1>3, <1>4, <2>2 DEF before
    <3>2. q.next[n] = NULL /\ after = TQHead
      BY <1>1, <1>7, <1>8, <2>2
    <3> QED BY <1>5, <1>6, <1>12, <3>1, <3>2
  <2>3. CASE k < Len(s)
    <3>1. /\ TQ!Place(t, Len(t)) = TQ!Place(s, Len(s)) /\ Len(s) \in 0 .. Len(s)
          /\ Len(s) # k /\ Len(s) # k - 1
      <4>1. /\ Len(s) - 1 \in 0 .. Len(s) - 1 /\ ~(Len(s) - 1 < k)
            /\ (Len(s) - 1) + 1 = Len(s)
        BY <1>1, <2>3
      <4> QED BY <1>1, <1>2, <1>3, <2>3, <4>1
    <3>2. TQ!Place(s, Len(s)) # before
      BY <1>4, <3>1, Places DEF before
    <3>3. after # TQHead
      BY <1>1, <1>8, <2>3, ServerAssumption
    <3> QED BY <1>6, <1>12, <1>13, <2>1, <3>1, <3>2, <3>3
  <2> QED BY <1>1, <2>2, <2>3
<1>16. TQ!Spells(r, t)
  BY <1>14, <1>15 DEF TQ!Spells
<1> QED
  BY <1>11, <1>16 DEF r, t, n

----------------------------------------------------------------------------
(* Before the loop there is nothing in the list; from then on the pointers
   spell it. *)
QueueInv ==
  /\ queue \in Queue
  /\ pc = "start" => list = <<>>
  /\ QueueIsList

LEMMA QueueInvInit == ServerInit => QueueInv
<1> SUFFICES ASSUME ServerInit PROVE QueueInv
  OBVIOUS
<1>1. queue \in Queue
  BY DEF ServerInit, Queue, Cell, TQ!Forget, TQ!InitQueue
<1> QED
  BY <1>1 DEF ServerInit, Init, QueueInv, QueueIsList

LEMMA QueueInvStep == Inv /\ QueueInv /\ [ServerNext]_serverVars => QueueInv'
<1> SUFFICES ASSUME Inv, QueueInv, [ServerNext]_serverVars PROVE QueueInv'
  OBVIOUS
<1> USE DEF QueueInv
<1>1. list \in Seq(Node) /\ Distinct(list) /\ {list[i] : i \in DOMAIN list} = Allocated
  BY DEF Inv, TypeOK, ListOwnsThreads, Distinct
<1>2. CASE EnterLoop
  <2>1. /\ queue' = TQ!InitQueue(Node) /\ list' = <<>> /\ pc' # "start"
    BY <1>2 DEF EnterLoop, Begin
  <2>2. queue' \in Queue
    BY <2>1 DEF Queue, Cell, TQ!InitQueue
  <2>3. TQ!Spells(TQ!InitQueue(Node), <<>>)
    BY DEF TQ!Spells, TQ!InitQueue, TQ!Place
  <2> QED BY <2>1, <2>2, <2>3 DEF QueueIsList
<1>3. CASE InsertNode
  <2>1. PICK n \in Node \ Allocated : list' = Append(list, n)
    BY <1>3 DEF InsertNode, AcceptConnection
  <2>2. queue' = TQ!InsertTail(queue, n)
    <3>1. Last(list') = n
      BY <1>1, <2>1 DEF Last
    <3> QED BY <1>3, <3>1 DEF InsertNode
  <2>3. TQ!Spells(queue, list) /\ pc' # "start"
    BY <1>3 DEF InsertNode, AcceptConnection, QueueIsList
  <2>4. \A i \in DOMAIN list : list[i] # n
    BY <1>1, <2>1
  <2>5. queue' \in Queue /\ TQ!Spells(queue', list')
    BY <1>1, <2>1, <2>2, <2>3, <2>4, InsertAppends
  <2> QED BY <2>3, <2>5 DEF QueueIsList
<1>4. CASE RemoveNode
  <2>1. /\ pc = "pthread_join" /\ pc' = "visit"
        /\ list' = RemoveAt(list, IndexIn(var))
        /\ queue' = TQ!Forget(TQ!Remove(queue, var), var)
    BY <1>4 DEF RemoveNode, JoinAndFree
  <2>2. IndexIn(var) \in DOMAIN list /\ list[IndexIn(var)] = var
    BY <2>1, InList DEF Inv, CursorAllocated
  <2>3. TQ!Spells(queue, list)
    BY <2>1 DEF QueueIsList
  <2>4. queue' \in Queue /\ TQ!Spells(queue', list')
    BY <1>1, <2>1, <2>2, <2>3, RemoveTakesOut
  <2> QED BY <2>1, <2>4 DEF QueueIsList
<1>5. ASSUME UNCHANGED <<list, queue>>, pc = "start" <=> pc' = "start"
      PROVE  QueueInv'
  BY <1>5 DEF QueueIsList
<1>6. CASE StartUp \/ UNCHANGED serverVars
  BY <1>5, <1>6 DEF StartUp, serverVars, vars
<1>7. CASE EndOfWalk \/ Elsewhere \/ Shutdown
  BY <1>5, <1>7 DEF EndOfWalk, Elsewhere, Shutdown, JoinThreads, EndOfList, EnterAccept, Visit,
                    CheckSignal
<1>8. CASE OtherClient
  BY <1>5, <1>8 DEF OtherClient, AcceptWithoutThread, AcceptFails
<1>9. CASE ServerSignal
  BY <1>5, <1>9 DEF ServerSignal, SignalToMain, vars
<1>10. ASSUME NEW n \in Node,
              \/ ServeConnection(n)
              \/ (SignalToThread(n) \/ Return(n)) /\ UNCHANGED <<startup, file, queue>>
       PROVE  QueueInv'
  BY <1>5, <1>10 DEF ServeConnection, Serve, SignalToThread, Return
<1> QED
  BY <1>2, <1>3, <1>4, <1>6, <1>7, <1>8, <1>9, <1>10 DEF ServerNext, LoopOfMain

(* The TAILQ of queue.h is the list of main, whatever nodes are inserted and
   removed. *)
THEOREM PointersSpellList == ServerSpec => []QueueIsList
<1>1. QueueInv => QueueIsList
  BY DEF QueueInv
<1> QED
  BY <1>1, QueueInvInit, QueueInvStep, ServerInv, PTL DEF ServerSpec

----------------------------------------------------------------------------
Calls == {"getaddrinfo", "socket", "setsockopt", "bind", "freeaddrinfo", "fork", "setsid",
          "chdir", "listen", "SIGINT", "SIGTERM", "SIGALRM", "timer_create", "timer_settime"}

Flags == [address : BOOLEAN, socket : BOOLEAN, alarm : BOOLEAN]

(* What each call of the start-up finds done.  disarm_alarm is set before
   the loop and never with the timer unarmed; close_address is set exactly
   while the addresses are held. *)
StartTypeOK ==
  /\ at \in Calls \cup {"loop", "failed", "killed"}
  /\ flag \in Flags
  /\ timer \in {"none", "created", "armed", "deleted"}

AddressInv ==
  /\ addr \in {"none", "held", "freed"}
  /\ at # "failed" => (flag.address <=> addr = "held")
  /\ at = "failed" => addr # "held"
  /\ at = "getaddrinfo" => addr = "none"
  /\ at \in {"socket", "setsockopt", "bind", "freeaddrinfo"} => addr = "held"
  /\ at \in {"fork", "setsid", "chdir", "listen", "SIGINT", "SIGTERM", "SIGALRM",
             "timer_create", "timer_settime", "loop"} => addr = "freed"

HandlersInv ==
  /\ at \in {"SIGTERM", "SIGALRM", "timer_create", "timer_settime", "loop"} =>
       "SIGINT" \in handled
  /\ at \in {"SIGALRM", "timer_create", "timer_settime", "loop"} =>
       "SIGTERM" \in handled /\ (fileBuild => ring)
  /\ at \in {"SIGALRM", "timer_create", "timer_settime"} => fileBuild
  /\ at \in {"timer_create", "timer_settime"} => "SIGALRM" \in handled

TimerInv ==
  /\ timer = "armed" => /\ at \in {"loop", "killed"} /\ flag.alarm
                        /\ "SIGALRM" \in handled /\ ring
  /\ at = "loop" /\ pc # "exit" => (fileBuild => timer = "armed")
  /\ pc = "exit" => timer # "armed"

SocketInv ==
  at \in {"SIGINT", "SIGTERM", "SIGALRM", "timer_create", "timer_settime", "loop"} /\ pc # "exit"
    => sock = "listening"

FileInv ==
  /\ file => fileBuild
  /\ pc = "exit" => ~file

StartInv ==
  /\ StartTypeOK /\ AddressInv /\ HandlersInv /\ TimerInv /\ SocketInv /\ FileInv
  /\ pc # "start" => at = "loop"

LEMMA StartInvInit == ServerInit => StartInv
<1> SUFFICES ASSUME ServerInit PROVE StartInv
  OBVIOUS
<1>1. /\ at = "getaddrinfo" /\ pc = "start" /\ addr = "none" /\ timer = "none"
      /\ flag = [address |-> FALSE, socket |-> FALSE, alarm |-> FALSE]
  BY DEF ServerInit, Init
<1>2. flag \in Flags /\ ~flag.address
  BY <1>1 DEF Flags
<1>3. file => fileBuild
  BY Zenon DEF ServerInit
<1> QED
  BY <1>1, <1>2, <1>3 DEF StartInv, StartTypeOK, Calls, AddressInv, HandlersInv, TimerInv,
                          SocketInv, FileInv

(* A call that fails leaves nothing to release. *)
LEMMA FailKeepsStart ==
  ASSUME StartInv, NEW call \in Calls, Fails(call), UNCHANGED <<vars, file, queue>>
  PROVE  StartInv'
<1>1. /\ pc = "start" /\ pc' = pc /\ at = call /\ at # "failed" /\ at # "loop" /\ at # "killed"
      /\ at' = "failed"
      /\ addr' = IF addr # "none" /\ flag.address THEN Freed ELSE addr
      /\ timer' = "deleted" \/ timer' = timer
      /\ UNCHANGED <<fileBuild, daemon, flag, handled, ring, file>>
  BY DEF Fails, At, Calls, perform_cleanup, disarm_and_destroy_timer, build, vars
<1>2. addr' \in {"none", "freed"}
  BY <1>1 DEF StartInv, StartTypeOK, AddressInv, Freed
<1>3. timer' # "armed"
  BY <1>1 DEF StartInv, TimerInv
<1> QED
  BY <1>1, <1>2, <1>3
     DEF StartInv, StartTypeOK, AddressInv, HandlersInv, TimerInv, SocketInv, FileInv

(* Setting one flag leaves the others. *)
LEMMA FlagSet ==
  ASSUME NEW f \in Flags
  PROVE  /\ [f EXCEPT !.address = TRUE] \in Flags /\ [f EXCEPT !.address = TRUE].address
         /\ [f EXCEPT !.address = FALSE] \in Flags /\ ~[f EXCEPT !.address = FALSE].address
         /\ [f EXCEPT !.socket = TRUE] \in Flags
         /\ [f EXCEPT !.socket = TRUE].address = f.address
         /\ [f EXCEPT !.alarm = TRUE] \in Flags
         /\ [f EXCEPT !.alarm = TRUE].address = f.address
         /\ [f EXCEPT !.alarm = TRUE].alarm
  BY DEF Flags

LEMMA StartUpKeepsStart == StartInv /\ StartUp => StartInv'
<1> SUFFICES ASSUME StartInv, StartUp PROVE StartInv'
  OBVIOUS
<1>1. UNCHANGED <<pc, file>> /\ UNCHANGED <<vars, file, queue>>
  BY DEF StartUp, vars
<1> USE DEF At, build, socket, alarm, Calls
<1>0. /\ flag \in Flags
      /\ [flag EXCEPT !.address = TRUE] \in Flags /\ [flag EXCEPT !.address = TRUE].address
      /\ [flag EXCEPT !.socket = TRUE] \in Flags
      /\ [flag EXCEPT !.socket = TRUE].address = flag.address
  BY FlagSet DEF StartInv, StartTypeOK
<1>2. CASE GetAddrInfo
  <2>1. /\ at = "getaddrinfo" /\ pc = "start"
        /\ \/ at' = "failed" /\ UNCHANGED <<addr, flag>>
           \/ /\ at' = "socket" /\ addr' = "held" /\ flag'.address
              /\ flag' \in Flags
        /\ UNCHANGED <<fileBuild, handled, ring, timer>>
    <3>1. /\ \/ at' = "failed" /\ UNCHANGED <<addr, flag>>
             \/ /\ at' = "socket" /\ addr' = "held"
                /\ flag' = [flag EXCEPT !.address = TRUE]
          /\ at = "getaddrinfo" /\ pc = "start" /\ UNCHANGED <<fileBuild, handled, ring, timer>>
      BY <1>2 DEF GetAddrInfo
    <3> QED BY <1>0, <3>1, Zenon
  <2>2. CASE at' = "failed" /\ UNCHANGED <<addr, flag>>
    BY <1>1, <2>1, <2>2 DEF StartInv, StartTypeOK, AddressInv, HandlersInv, TimerInv,
                            SocketInv, FileInv
  <2>3. CASE at' = "socket" /\ addr' = "held" /\ flag'.address /\ flag' \in Flags
    BY <1>1, <2>1, <2>3 DEF StartInv, StartTypeOK, AddressInv, HandlersInv, TimerInv,
                            SocketInv, FileInv
  <2> QED BY <2>1, <2>2, <2>3
<1>3. CASE MakeSocket \/ SetSockOpt \/ Bind
  <2>1. /\ at \in {"socket", "setsockopt", "bind"} /\ pc = "start"
        /\ at' \in {"socket", "setsockopt", "bind", "freeaddrinfo"}
        /\ flag'.address = flag.address
        /\ flag' \in Flags
        /\ UNCHANGED <<fileBuild, addr, handled, ring, timer>>
    BY <1>0, <1>3 DEF MakeSocket, SetSockOpt, Bind
  <2> QED BY <1>1, <2>1 DEF StartInv, StartTypeOK, AddressInv,
                    HandlersInv, TimerInv, SocketInv, FileInv
<1>4. CASE FreeAddrInfo
  <2>1. /\ at = "freeaddrinfo" /\ pc = "start" /\ at' \in {"fork", "listen"}
        /\ addr' = "freed" /\ ~flag'.address
        /\ flag' \in Flags
        /\ UNCHANGED <<fileBuild, handled, ring, timer>>
    BY <1>4, FlagSet DEF FreeAddrInfo, Freed, ClearFlag, StartInv, StartTypeOK, AddressInv
  <2> QED BY <1>1, <2>1 DEF StartInv, StartTypeOK, AddressInv,
                    HandlersInv, TimerInv, SocketInv, FileInv
<1>5. CASE Fork \/ SetSid \/ Chdir \/ Listen
  BY <1>1, <1>5 DEF Fork, SetSid, Chdir, Listen, StartInv, StartTypeOK, AddressInv,
                    HandlersInv, TimerInv, SocketInv, FileInv
<1>6. CASE Handlers
  <2>1. /\ pc = "start" /\ UNCHANGED <<fileBuild, addr, sock, flag, timer>>
        /\ at \in {"SIGINT", "SIGTERM", "SIGALRM"}
        /\ handled' = handled \cup {at} /\ (ring => ring')
        /\ at = "SIGTERM" /\ fileBuild => ring'
    BY <1>6 DEF Handlers, SetupSignal
  <2>2. CASE at = "SIGINT" /\ at' = "SIGTERM"
    BY <1>1, <2>1, <2>2 DEF StartInv, StartTypeOK, AddressInv, HandlersInv, TimerInv,
                            SocketInv, FileInv
  <2>3. CASE at = "SIGTERM" /\ at' = IF fileBuild THEN "SIGALRM" ELSE "loop"
    BY <1>1, <2>1, <2>3 DEF StartInv, StartTypeOK, AddressInv, HandlersInv, TimerInv,
                            SocketInv, FileInv
  <2>4. CASE at = "SIGALRM" /\ at' = "timer_create"
    BY <1>1, <2>1, <2>4 DEF StartInv, StartTypeOK, AddressInv, HandlersInv, TimerInv,
                            SocketInv, FileInv
  <2> QED BY <1>6, <2>2, <2>3, <2>4 DEF Handlers, SetupSignal
<1>7. CASE TimerCreate
  BY <1>1, <1>7 DEF TimerCreate, StartInv, StartTypeOK, AddressInv, HandlersInv,
                    TimerInv, SocketInv, FileInv
<1>8. CASE TimerSetTime
  <2>1. /\ at = "timer_settime" /\ pc = "start" /\ at' = "loop" /\ timer' = "armed"
        /\ flag'.alarm /\ flag'.address = flag.address
        /\ flag' \in Flags
        /\ UNCHANGED <<fileBuild, addr, sock, handled, ring>>
    BY <1>8, FlagSet DEF TimerSetTime, StartInv, StartTypeOK
  <2> QED BY <1>1, <2>1 DEF StartInv, StartTypeOK, AddressInv, HandlersInv, TimerInv,
                            SocketInv, FileInv
<1>9. CASE NoAddressLeft \/ CallFails
  BY <1>1, <1>9, FailKeepsStart DEF NoAddressLeft, CallFails
<1> QED
  BY <1>2, <1>3, <1>4, <1>5, <1>6, <1>7, <1>8, <1>9 DEF StartUp

LEMMA LoopKeepsStart == StartInv /\ (LoopOfMain \/ InsertNode \/ OtherClient) => StartInv'
<1> SUFFICES ASSUME StartInv, LoopOfMain \/ InsertNode \/ OtherClient PROVE StartInv'
  OBVIOUS
<1>1. CASE Shutdown
  <2>1. /\ pc = "check" /\ pc' = "exit" /\ at = "loop" /\ ~flag.address
        /\ UNCHANGED <<fileBuild, daemon, at, addr, flag, handled, ring>>
        /\ timer' = IF flag.alarm THEN "deleted" ELSE timer
        /\ file' = FALSE
    BY <1>1 DEF Shutdown, CheckSignal, perform_cleanup, disarm_and_destroy_timer, build,
                StartInv, AddressInv
  <2> QED BY <2>1 DEF StartInv, StartTypeOK, AddressInv, HandlersInv, TimerInv, SocketInv, FileInv
<1>2. CASE EnterLoop \/ RemoveNode \/ EndOfWalk \/ Elsewhere \/ InsertNode \/ OtherClient
  <2>1. /\ at = "loop" /\ pc # "exit" /\ pc' # "exit" /\ pc' # "start"
        /\ UNCHANGED startup
    BY <1>2 DEF EnterLoop, Begin, RemoveNode, JoinAndFree, EndOfWalk, JoinThreads, EndOfList,
                Elsewhere, EnterAccept, Visit, CheckSignal, InsertNode, AcceptConnection,
                OtherClient, AcceptWithoutThread, AcceptFails, StartInv
  <2>2. MayCreateFile \/ UNCHANGED file
    BY <1>2 DEF EnterLoop, RemoveNode, EndOfWalk, Elsewhere, InsertNode, OtherClient
  <2>3. file' => fileBuild
    BY <2>2 DEF MayCreateFile, StartInv, FileInv
  <2> QED BY <2>1, <2>3 DEF startup, build, socket, alarm, StartInv, StartTypeOK,
                      AddressInv, HandlersInv, TimerInv, SocketInv, FileInv
<1> QED
  BY <1>1, <1>2 DEF LoopOfMain

(* Threads and signals: a signal without handler comes only before the loop. *)
LEMMA OthersKeepStart ==
  ASSUME StartInv,
         \/ ServerSignal
         \/ \E n \in Node : \/ ServeConnection(n)
                            \/ /\ SignalToThread(n) \/ Return(n)
                               /\ UNCHANGED <<startup, file, queue>>
  PROVE  StartInv'
<1>1. ASSUME NEW sig \in {"SIGINT", "SIGTERM"}, sig \notin handled,
             at \notin {"failed", "killed"},
             at' = "killed", UNCHANGED <<vars, build, socket, flag, handled, alarm, file, queue>>
      PROVE  StartInv'
  <2>1. at # "loop" /\ pc = "start" /\ pc' = "start"
    BY <1>1 DEF StartInv, HandlersInv, vars
  <2> QED BY <1>1, <2>1 DEF build, socket, alarm, vars, StartInv, StartTypeOK, AddressInv,
                            HandlersInv, TimerInv, SocketInv, FileInv
<1>2. ASSUME UNCHANGED startup, MayCreateFile \/ UNCHANGED file, pc # "exit", pc' # "exit",
             pc = "start" <=> pc' = "start"
      PROVE  StartInv'
  <2>1. file' => fileBuild
    BY <1>2 DEF MayCreateFile, StartInv, FileInv
  <2> QED BY <1>2, <2>1 DEF startup, build, socket, alarm, StartInv, StartTypeOK, AddressInv,
                            HandlersInv, TimerInv, SocketInv, FileInv
<1>3. CASE ServerSignal
  BY <1>1, <1>2, <1>3 DEF ServerSignal, SignalToMain
<1>4. ASSUME NEW n \in Node,
             \/ ServeConnection(n)
             \/ (SignalToThread(n) \/ Return(n)) /\ UNCHANGED <<startup, file, queue>>
      PROVE  StartInv'
  BY <1>2, <1>4 DEF ServeConnection, Serve, SignalToThread, Return
<1> QED
  BY <1>3, <1>4

LEMMA StartInvStep == StartInv /\ [ServerNext]_serverVars => StartInv'
<1> SUFFICES ASSUME StartInv, [ServerNext]_serverVars PROVE StartInv'
  OBVIOUS
<1>1. CASE UNCHANGED serverVars
  BY <1>1 DEF serverVars, vars, startup, build, socket, alarm, StartInv, StartTypeOK,
              AddressInv, HandlersInv, TimerInv, SocketInv, FileInv
<1>2. CASE ServerNext
  BY <1>2, StartUpKeepsStart, LoopKeepsStart, OthersKeepStart DEF ServerNext
<1> QED
  BY <1>1, <1>2

(* Whichever call of the start-up fails, and at the exit, the flags have each
   thing released once; and the loop runs only with socket, handlers and
   timer in place. *)
THEOREM StartsWhole == ServerSpec => []StartIsWhole
<1>1. StartInv => StartIsWhole
  BY DEF StartInv, StartTypeOK, AddressInv, HandlersInv, TimerInv, SocketInv, FileInv,
         StartIsWhole, ReleasedOnce, ReadyInLoop
<1> QED
  BY <1>1, StartInvInit, StartInvStep, PTL DEF ServerSpec
=============================================================================
