--------------------------- MODULE OnlineListProofs ---------------------------
(***************************************************************************)
(* Proofs about OnlineList, for every number of connections, users and     *)
(* heap cells.  The inductive invariant IInv adds to the checked           *)
(* invariants what each thread's program counter implies (ThreadInv), how  *)
(* far a broadcast in progress has come (NoticeInv, AnnounceInv) and, when *)
(* a connection logs in once, that no thread drops its record (OnceInv).   *)
(***************************************************************************)
EXTENDS OnlineList, SequenceTheorems, TLAPS

\* What the place a thread is at implies about its local variables.
ThreadInv ==
  \A t \in Conns :
    /\ pc[t] = "closed" => client_info[t] = None
    /\ pc[t] \in Broadcasts \cup {"remove", "use"} => client_info[t] # None
    /\ pc[t] = "append" => arg[t] \in Uids
    /\ g_LoginMutex = t => pc[t] \in Broadcasts

\* The handler of record c has said goodbye to record p already.
ToldOff(c, p) ==
  \E t \in Conns :
    /\ client_info[t] = c
    /\ \/ pc[t] = "remove"
       \/ /\ pc[t] = "leave"
          /\ g_LoginMutex = t
          /\ \E i \in DOMAIN g_Online : i < cursor /\ g_Online[i] = p

\* NoStaleNotice, strengthened: the record that accounts for the notice is
\* another one, whose handler will still tell p when it leaves.
NoticeInv ==
  \A p \in Cells \ deaf, u \in Uids :
    told[p][u] = "online" =>
      /\ p \in Listed
      /\ \E c \in Listed \ {p} : uid[c] = u /\ ~ToldOff(c, p)

\* LoginAnnounced, for the part of the list an announcement has walked.
Walked(t, i) ==
  pc[t] = "announce" => g_LoginMutex = t /\ i < cursor

AnnounceInv ==
  \A t \in Conns :
    client_info[t] # None =>
      \A i, j \in DOMAIN g_Online :
        (/\ i < j
         /\ g_Online[j] = client_info[t]
         /\ g_Online[i] \notin deaf
         /\ Walked(t, i)) =>
           told[g_Online[i]][uid[client_info[t]]] # "none"

OnceInv ==
  ReLogin = FALSE =>
    /\ NoGhost
    /\ \A t \in Conns : pc[t] = "append" => client_info[t] = None

IInv ==
  /\ TypeOK
  /\ ListIsHeap
  /\ OwnRecord
  /\ ThreadInv
  /\ NoticeInv
  /\ AnnounceInv
  /\ OnceInv

-----------------------------------------------------------------------------
\* An interval from 1 determines its upper end.
LEMMA SameInterval ==
  ASSUME NEW m \in Nat, NEW n \in Nat, 1..m = 1..n
  PROVE  m = n
<1>1. m > 0 => m \in 1..n
  <2>1. m > 0 => m \in 1..m
    OBVIOUS
  <2> QED
    BY <2>1
<1>2. n > 0 => n \in 1..m
  <2>1. n > 0 => n \in 1..n
    OBVIOUS
  <2> QED
    BY <2>1
<1>3. (m > 0 => m <= n) /\ (n > 0 => n <= m)
  BY <1>1, <1>2
<1> QED
  BY <1>3

\* What unlinking the i-th node leaves: a list one shorter, whose nodes
\* before the i-th stay and whose later nodes move down by one.
LEMMA WithoutProperties ==
  ASSUME NEW S, NEW s \in Seq(S), NEW i \in DOMAIN s
  PROVE  /\ Without(s, i) \in Seq(S)
         /\ Len(s) \in Nat /\ Len(s) >= 1
         /\ Len(Without(s, i)) = Len(s) - 1
         /\ DOMAIN Without(s, i) = 1..(Len(s) - 1)
         /\ \A j \in 1..(Len(s) - 1) :
              Without(s, i)[j] = IF j < i THEN s[j] ELSE s[j + 1]
<1> DEFINE w == Without(s, i)
<1>1. /\ Len(s) \in Nat
      /\ DOMAIN s = 1..Len(s)
      /\ \A j \in 1..Len(s) : s[j] \in S
  BY LenProperties
<1>2. Len(s) >= 1 /\ i \in 1..Len(s)
  BY <1>1
<1>3. DOMAIN w = 1..(Len(s) - 1)
  BY DEF Without
<1>4. \A j \in 1..(Len(s) - 1) :
        w[j] = IF j < i THEN s[j] ELSE s[j + 1]
  BY DEF Without
<1>5. \A j \in 1..(Len(s) - 1) : w[j] \in S
  BY <1>1, <1>2, <1>4
<1>6. w \in [1..(Len(s) - 1) -> S]
  BY <1>5 DEF Without
<1>7. w \in Seq(S)
  BY <1>1, <1>2, <1>6, Len(s) - 1 \in Nat, SeqDef
<1>8. Len(w) = Len(s) - 1
  <2>1. Len(w) \in Nat /\ 1..Len(w) = 1..(Len(s) - 1)
    BY <1>3, <1>7, LenProperties
  <2>2. Len(s) - 1 \in Nat
    BY <1>1, <1>2
  <2> QED
    BY <2>1, <2>2, SameInterval
<1> QED
  BY <1>1, <1>2, <1>3, <1>4, <1>7, <1>8

-----------------------------------------------------------------------------
\* Every variable stays within its type.
THEOREM TypeInit == Init => TypeOK
BY DEF Init, TypeOK, Unheard, Notices, PCs

LEMMA TypeStep == TypeOK /\ [Next]_vars => TypeOK'
<1> SUFFICES ASSUME TypeOK, [Next]_vars
             PROVE  TypeOK'
  OBVIOUS
<1> USE DEF TypeOK, PCs, Goto
<1>1. ASSUME NEW t \in Conns, Accept(t)
      PROVE  TypeOK'
  BY <1>1 DEF Accept, lock, heap
<1>2. ASSUME NEW t \in Conns, NEW u \in Uids, LoginFind(t, u)
      PROVE  TypeOK'
  BY <1>2 DEF LoginFind, lock, heap
<1>3. ASSUME NEW t \in Conns, MallocFails(t)
      PROVE  TypeOK'
  BY <1>3 DEF MallocFails, lock, heap
<1>4. ASSUME NEW t \in Conns, AddClient(t)
      PROVE  TypeOK'
  BY <1>4 DEF AddClient, lock
<1>5. ASSUME NEW t \in Conns, ChangeName(t)
      PROVE  TypeOK'
  BY <1>5 DEF ChangeName, lock, heap
<1>6. ASSUME NEW t \in Conns, NotifyLock(t)
      PROVE  TypeOK'
  BY <1>6 DEF NotifyLock, heap, threads
<1>7. ASSUME NEW t \in Conns, NotifyNext(t)
      PROVE  TypeOK'
  <2>1. cursor \in DOMAIN g_Online
    BY <1>7 DEF NotifyNext
  <2>2. told' \in [Cells -> [Uids -> Notices]]
    <3> DEFINE p == g_Online[cursor]
               u == uid[client_info[t]]
    <3>1. p \in Cells
      BY <2>1
    <3>2. Notice(t) \in Notices
      BY DEF Notice, Notices
    <3>3. [told[p] EXCEPT ![u] = Notice(t)] \in [Uids -> Notices]
      BY <3>1, <3>2
    <3>4. \/ told' = told
          \/ told' = [told EXCEPT ![p] = [told[p] EXCEPT ![u] = Notice(t)]]
      BY <1>7, <3>1 DEF NotifyNext
    <3> QED
      BY <3>1, <3>3, <3>4
  <2>3. cursor' \in Nat \ {0}
    BY <1>7 DEF NotifyNext
  <2> QED
    BY <1>7, <2>2, <2>3 DEF NotifyNext, threads
<1>8. ASSUME NEW t \in Conns, NotifyDone(t)
      PROVE  TypeOK'
  BY <1>8 DEF NotifyDone, heap
<1>9. ASSUME NEW t \in Conns, Disconnect(t)
      PROVE  TypeOK'
  BY <1>9 DEF Disconnect, lock, heap
<1>10. ASSUME NEW t \in Conns, DisconnectClient(t)
       PROVE  TypeOK'
  <2>1. g_Online' \in Seq(Cells)
    BY <1>10, WithoutProperties DEF DisconnectClient
  <2>2. told' \in [Cells -> [Uids -> Notices]]
    BY <1>10 DEF DisconnectClient, Unheard, Notices
  <2> QED
    BY <1>10, <2>1, <2>2 DEF DisconnectClient, lock
<1>11. ASSUME NEW t \in Conns, NEW u \in Uids, Lookup(t, u)
       PROVE  TypeOK'
  BY <1>11 DEF Lookup, lock, heap
<1>12. ASSUME NEW t \in Conns, UseTarget(t)
       PROVE  TypeOK'
  BY <1>12 DEF UseTarget, lock, heap
<1>13. ASSUME NEW c \in Cells, PeerGone(c)
       PROVE  TypeOK'
  BY <1>13 DEF PeerGone, lock, threads
<1>14. CASE (\E c \in Cells : Fill(c) \/ Drain(c)) \/ UNCHANGED vars
  BY <1>14 DEF Fill, Drain, vars, lock, heap, threads
<1> QED
  BY <1>1, <1>2, <1>3, <1>4, <1>5, <1>6, <1>7, <1>8, <1>9, <1>10, <1>11,
     <1>12, <1>13, <1>14 DEF Next, Proceed, Request

\* The type invariant holds in every behaviour.
THEOREM TypeCorrect == Spec => []TypeOK
BY TypeInit, TypeStep, PTL DEF Spec

-----------------------------------------------------------------------------
\* The part of IInv that speaks of the list, the heap and the threads.
CoreInv == TypeOK /\ ListIsHeap /\ OwnRecord /\ ThreadInv

\* login_AddClient links one new node behind all the others.
LEMMA AfterAddClient ==
  ASSUME CoreInv, NEW t \in Conns, AddClient(t)
  PROVE  \E c \in Cells :
           /\ uid[c] = None /\ c \notin Listed
           /\ uid' = [uid EXCEPT ![c] = arg[t]]
           /\ client_info' = [client_info EXCEPT ![t] = c]
           /\ Len(g_Online) \in Nat
           /\ DOMAIN g_Online = 1..Len(g_Online)
           /\ DOMAIN g_Online' = 1..(Len(g_Online) + 1)
           /\ \A i \in DOMAIN g_Online : g_Online'[i] = g_Online[i]
           /\ g_Online'[Len(g_Online) + 1] = c
           /\ Listed' = Listed \cup {c}
<1> USE DEF CoreInv, TypeOK
<1>1. PICK c \in Cells :
        /\ uid[c] = None
        /\ uid' = [uid EXCEPT ![c] = arg[t]]
        /\ g_Online' = Append(g_Online, c)
        /\ client_info' = [client_info EXCEPT ![t] = c]
  BY DEF AddClient
<1>2. c \notin Listed
  BY <1>1 DEF ListIsHeap
<1>3. /\ Len(g_Online) \in Nat
      /\ DOMAIN g_Online = 1..Len(g_Online)
  BY LenProperties
<1>4. /\ DOMAIN g_Online' = 1..(Len(g_Online) + 1)
      /\ \A i \in 1..Len(g_Online) : g_Online'[i] = g_Online[i]
      /\ g_Online'[Len(g_Online) + 1] = c
  <2>1. /\ g_Online' \in Seq(Cells)
        /\ Len(g_Online') = Len(g_Online) + 1
    BY <1>1, AppendProperties
  <2> QED
    BY <1>1, <1>3, <2>1, LenProperties, AppendProperties
<1>5. Listed' = Listed \cup {c}
  <2> HIDE DEF CoreInv, TypeOK
  <2>1. \A i \in DOMAIN g_Online' :
          g_Online'[i] = c \/ \E j \in DOMAIN g_Online : g_Online'[i] = g_Online[j]
    BY <1>3, <1>4
  <2>2. \A j \in DOMAIN g_Online :
          j \in DOMAIN g_Online' /\ g_Online'[j] = g_Online[j]
    BY <1>3, <1>4
  <2>3. Len(g_Online) + 1 \in DOMAIN g_Online'
    BY <1>3, <1>4
  <2> QED
    BY <1>4, <2>1, <2>2, <2>3 DEF Listed
<1> QED
  BY <1>1, <1>2, <1>3, <1>4, <1>5

\* login_DisconnectClient unlinks exactly the thread's own record.
LEMMA AfterDisconnectClient ==
  ASSUME CoreInv, NEW t \in Conns, DisconnectClient(t)
  PROVE  /\ client_info[t] \in Cells
         /\ Listed' = Listed \ {client_info[t]}
         /\ \E k \in DOMAIN g_Online :
              /\ g_Online[k] = client_info[t]
              /\ Len(g_Online) \in Nat
              /\ DOMAIN g_Online = 1..Len(g_Online)
              /\ DOMAIN g_Online' = 1..(Len(g_Online) - 1)
              /\ \A i \in DOMAIN g_Online' :
                   g_Online'[i] = IF i < k THEN g_Online[i]
                                           ELSE g_Online[i + 1]
<1> USE DEF CoreInv, TypeOK
<1>1. PICK k \in DOMAIN g_Online :
        g_Online[k] = client_info[t] /\ g_Online' = Without(g_Online, k)
  BY DEF DisconnectClient
<1>2. /\ Len(g_Online) \in Nat
      /\ DOMAIN g_Online = 1..Len(g_Online)
      /\ \A i \in DOMAIN g_Online : g_Online[i] \in Cells
  BY LenProperties
<1>3. /\ DOMAIN g_Online' = 1..(Len(g_Online) - 1)
      /\ \A i \in DOMAIN g_Online' :
           g_Online'[i] = IF i < k THEN g_Online[i] ELSE g_Online[i + 1]
  BY <1>1, WithoutProperties
<1>4. Listed' = Listed \ {client_info[t]}
  <2>1. \A i \in DOMAIN g_Online' :
          \E j \in DOMAIN g_Online : j # k /\ g_Online'[i] = g_Online[j]
    <3>1. TAKE i \in DOMAIN g_Online'
    <3>2. CASE i < k
      BY <1>2, <1>3, <3>2
    <3>3. CASE ~(i < k)
      BY <1>2, <1>3, <3>3
    <3> QED
      BY <3>2, <3>3
  <2>2. \A j \in DOMAIN g_Online :
          j # k => \E i \in DOMAIN g_Online' : g_Online'[i] = g_Online[j]
    <3>1. SUFFICES ASSUME NEW j \in DOMAIN g_Online, j # k
                   PROVE  \E i \in DOMAIN g_Online' : g_Online'[i] = g_Online[j]
      OBVIOUS
    <3>2. CASE j < k
      BY <1>2, <1>3, <3>2
    <3>3. CASE j > k
      <4>1. j - 1 \in DOMAIN g_Online' /\ ~(j - 1 < k)
        BY <1>2, <1>3, <3>3
      <4>2. g_Online'[j - 1] = g_Online[j]
        BY <1>2, <1>3, <4>1
      <4> QED
        BY <4>1, <4>2
    <3> QED
      BY <1>2, <3>1, <3>2, <3>3
  <2>3. \A j \in DOMAIN g_Online : g_Online[j] = client_info[t] <=> j = k
    BY <1>1 DEF ListIsHeap
  <2> QED
    BY <2>1, <2>2, <2>3 DEF Listed
<1> QED
  BY <1>1, <1>2, <1>3, <1>4

\* Steps that leave the list and the heap alone keep ListIsHeap.
LEMMA SameListIsHeap ==
  ASSUME ListIsHeap, UNCHANGED <<g_Online, uid>>
  PROVE  ListIsHeap' /\ Listed' = Listed
BY DEF ListIsHeap, Listed

LEMMA CoreInit == Init => CoreInv
<1> SUFFICES ASSUME Init
             PROVE  CoreInv
  OBVIOUS
<1> USE OnlineListAssumption DEF Init
<1>1. DOMAIN g_Online = {}
  OBVIOUS
<1>2. Listed = {}
  BY <1>1 DEF Listed
<1>3. ListIsHeap
  BY <1>1, <1>2 DEF ListIsHeap
<1>4. OwnRecord /\ ThreadInv
  BY DEF OwnRecord, ThreadInv, Broadcasts
<1> QED
  BY <1>3, <1>4, TypeInit DEF CoreInv

LEMMA CoreStep == CoreInv /\ [Next]_vars => CoreInv'
<1> SUFFICES ASSUME CoreInv, [Next]_vars
             PROVE  ListIsHeap' /\ OwnRecord' /\ ThreadInv'
  BY TypeStep DEF CoreInv
<1> USE OnlineListAssumption DEF CoreInv, TypeOK, Goto, Broadcasts
<1>1. ASSUME NEW t \in Conns, Accept(t)
      PROVE  ListIsHeap' /\ OwnRecord' /\ ThreadInv'
  <2>1. ListIsHeap' /\ Listed' = Listed
    BY <1>1, SameListIsHeap DEF Accept, heap
  <2>2. OwnRecord'
    BY <1>1, <2>1 DEF Accept, OwnRecord
  <2>3. ThreadInv'
    BY <1>1 DEF Accept, ThreadInv, lock
  <2> QED
    BY <2>1, <2>2, <2>3
<1>2. ASSUME NEW t \in Conns, NEW u \in Uids, LoginFind(t, u)
      PROVE  ListIsHeap' /\ OwnRecord' /\ ThreadInv'
  <2>1. ListIsHeap' /\ Listed' = Listed
    BY <1>2, SameListIsHeap DEF LoginFind, heap
  <2>2. OwnRecord'
    BY <1>2, <2>1 DEF LoginFind, OwnRecord
  <2>3. ThreadInv'
    BY <1>2 DEF LoginFind, ThreadInv, lock
  <2> QED
    BY <2>1, <2>2, <2>3
<1>3. ASSUME NEW t \in Conns, MallocFails(t)
      PROVE  ListIsHeap' /\ OwnRecord' /\ ThreadInv'
  <2>1. ListIsHeap' /\ Listed' = Listed
    BY <1>3, SameListIsHeap DEF MallocFails, heap
  <2>2. OwnRecord'
    BY <1>3, <2>1 DEF MallocFails, OwnRecord
  <2>3. ThreadInv'
    BY <1>3 DEF MallocFails, ThreadInv, lock
  <2> QED
    BY <2>1, <2>2, <2>3
<1>4. ASSUME NEW t \in Conns, AddClient(t)
      PROVE  ListIsHeap' /\ OwnRecord' /\ ThreadInv'
  <2>1. PICK c \in Cells :
           /\ uid[c] = None /\ c \notin Listed
           /\ uid' = [uid EXCEPT ![c] = arg[t]]
           /\ client_info' = [client_info EXCEPT ![t] = c]
           /\ Len(g_Online) \in Nat
           /\ DOMAIN g_Online = 1..Len(g_Online)
           /\ DOMAIN g_Online' = 1..(Len(g_Online) + 1)
           /\ \A i \in DOMAIN g_Online : g_Online'[i] = g_Online[i]
           /\ g_Online'[Len(g_Online) + 1] = c
           /\ Listed' = Listed \cup {c}
    BY <1>4, AfterAddClient
  <2>2. arg[t] \in Uids
    BY <1>4 DEF AddClient, ThreadInv
  <2>3. ListIsHeap'
    <3>1. \A i \in DOMAIN g_Online : g_Online[i] # c
      BY <2>1 DEF Listed
    <3>2. \A i, j \in DOMAIN g_Online' : g_Online'[i] = g_Online'[j] => i = j
      BY <2>1, <3>1 DEF ListIsHeap
    <3>3. Listed' = {d \in Cells : uid'[d] # None}
      BY <2>1, <2>2 DEF ListIsHeap
    <3> QED
      BY <3>2, <3>3 DEF ListIsHeap
  <2>4. OwnRecord'
    BY <2>1 DEF OwnRecord
  <2>5. ThreadInv'
    BY <1>4, <2>1 DEF AddClient, ThreadInv, lock
  <2> QED
    BY <2>3, <2>4, <2>5
<1>5. ASSUME NEW t \in Conns, ChangeName(t)
      PROVE  ListIsHeap' /\ OwnRecord' /\ ThreadInv'
  <2>1. ListIsHeap' /\ Listed' = Listed
    BY <1>5, SameListIsHeap DEF ChangeName, heap
  <2>2. OwnRecord'
    BY <1>5, <2>1 DEF ChangeName, OwnRecord
  <2>3. ThreadInv'
    BY <1>5 DEF ChangeName, ThreadInv, lock
  <2> QED
    BY <2>1, <2>2, <2>3
<1>6. ASSUME NEW t \in Conns, NotifyLock(t)
      PROVE  ListIsHeap' /\ OwnRecord' /\ ThreadInv'
  <2>1. ListIsHeap' /\ Listed' = Listed
    BY <1>6, SameListIsHeap DEF NotifyLock, heap
  <2>2. OwnRecord'
    BY <1>6, <2>1 DEF NotifyLock, OwnRecord, threads
  <2>3. ThreadInv'
    BY <1>6 DEF NotifyLock, ThreadInv, threads
  <2> QED
    BY <2>1, <2>2, <2>3
<1>7. ASSUME NEW t \in Conns, NotifyNext(t)
      PROVE  ListIsHeap' /\ OwnRecord' /\ ThreadInv'
  <2>1. ListIsHeap' /\ Listed' = Listed
    BY <1>7, SameListIsHeap DEF NotifyNext
  <2>2. OwnRecord'
    BY <1>7, <2>1 DEF NotifyNext, OwnRecord, threads
  <2>3. ThreadInv'
    BY <1>7 DEF NotifyNext, ThreadInv, threads
  <2> QED
    BY <2>1, <2>2, <2>3
<1>8. ASSUME NEW t \in Conns, NotifyDone(t)
      PROVE  ListIsHeap' /\ OwnRecord' /\ ThreadInv'
  <2>1. ListIsHeap' /\ Listed' = Listed
    BY <1>8, SameListIsHeap DEF NotifyDone, heap
  <2>2. OwnRecord'
    BY <1>8, <2>1 DEF NotifyDone, OwnRecord
  <2>3. ThreadInv'
    BY <1>8 DEF NotifyDone, ThreadInv
  <2> QED
    BY <2>1, <2>2, <2>3
<1>9. ASSUME NEW t \in Conns, Disconnect(t)
      PROVE  ListIsHeap' /\ OwnRecord' /\ ThreadInv'
  <2>1. ListIsHeap' /\ Listed' = Listed
    BY <1>9, SameListIsHeap DEF Disconnect, heap
  <2>2. OwnRecord'
    BY <1>9, <2>1 DEF Disconnect, OwnRecord
  <2>3. ThreadInv'
    BY <1>9 DEF Disconnect, ThreadInv, lock
  <2> QED
    BY <2>1, <2>2, <2>3
<1>10. ASSUME NEW t \in Conns, DisconnectClient(t)
       PROVE  ListIsHeap' /\ OwnRecord' /\ ThreadInv'
  <2>1. /\ client_info[t] \in Cells
        /\ Listed' = Listed \ {client_info[t]}
    BY <1>10, AfterDisconnectClient
  <2>2. PICK k \in DOMAIN g_Online :
          /\ g_Online[k] = client_info[t]
          /\ Len(g_Online) \in Nat
          /\ DOMAIN g_Online = 1..Len(g_Online)
          /\ DOMAIN g_Online' = 1..(Len(g_Online) - 1)
          /\ \A i \in DOMAIN g_Online' :
               g_Online'[i] = IF i < k THEN g_Online[i] ELSE g_Online[i + 1]
    BY <1>10, AfterDisconnectClient
  <2>3. ListIsHeap'
    <3>1. ASSUME NEW i \in DOMAIN g_Online', NEW j \in DOMAIN g_Online',
                 g_Online'[i] = g_Online'[j]
          PROVE  i = j
      <4>1. /\ i \in DOMAIN g_Online /\ i + 1 \in DOMAIN g_Online
            /\ j \in DOMAIN g_Online /\ j + 1 \in DOMAIN g_Online
        BY <2>2
      <4>2. \A m, n \in DOMAIN g_Online : g_Online[m] = g_Online[n] => m = n
        BY DEF ListIsHeap
      <4> QED
        BY <2>2, <3>1, <4>1, <4>2
    <3>2. Listed' = {d \in Cells : uid'[d] # None}
      BY <1>10, <2>1 DEF DisconnectClient, ListIsHeap
    <3> QED
      BY <3>1, <3>2 DEF ListIsHeap
  <2>4. OwnRecord'
    BY <1>10, <2>1 DEF DisconnectClient, OwnRecord
  <2>5. ThreadInv'
    BY <1>10 DEF DisconnectClient, ThreadInv, lock
  <2> QED
    BY <2>3, <2>4, <2>5
<1>11. ASSUME NEW t \in Conns, NEW u \in Uids, Lookup(t, u)
       PROVE  ListIsHeap' /\ OwnRecord' /\ ThreadInv'
  <2>1. ListIsHeap' /\ Listed' = Listed
    BY <1>11, SameListIsHeap DEF Lookup, heap
  <2>2. OwnRecord'
    BY <1>11, <2>1 DEF Lookup, OwnRecord
  <2>3. ThreadInv'
    BY <1>11 DEF Lookup, ThreadInv, lock
  <2> QED
    BY <2>1, <2>2, <2>3
<1>12. ASSUME NEW t \in Conns, UseTarget(t)
       PROVE  ListIsHeap' /\ OwnRecord' /\ ThreadInv'
  <2>1. ListIsHeap' /\ Listed' = Listed
    BY <1>12, SameListIsHeap DEF UseTarget, heap
  <2>2. OwnRecord'
    BY <1>12, <2>1 DEF UseTarget, OwnRecord
  <2>3. ThreadInv'
    BY <1>12 DEF UseTarget, ThreadInv, lock
  <2> QED
    BY <2>1, <2>2, <2>3
<1>13. ASSUME NEW c \in Cells, PeerGone(c)
       PROVE  ListIsHeap' /\ OwnRecord' /\ ThreadInv'
  <2>1. ListIsHeap' /\ Listed' = Listed
    BY <1>13, SameListIsHeap DEF PeerGone
  <2>2. OwnRecord'
    BY <1>13, <2>1 DEF PeerGone, OwnRecord, threads
  <2>3. ThreadInv'
    BY <1>13 DEF PeerGone, ThreadInv, threads, lock
  <2> QED
    BY <2>1, <2>2, <2>3
<1>14. CASE (\E c \in Cells : Fill(c) \/ Drain(c)) \/ UNCHANGED vars
  <2>1. ListIsHeap' /\ Listed' = Listed
    BY <1>14, SameListIsHeap DEF Fill, Drain, vars, heap
  <2> QED
    BY <1>14, <2>1 DEF Fill, Drain, vars, lock, threads, OwnRecord, ThreadInv
<1> QED
  BY <1>1, <1>2, <1>3, <1>4, <1>5, <1>6, <1>7, <1>8, <1>9, <1>10, <1>11,
     <1>12, <1>13, <1>14 DEF Next, Proceed, Request

\* The list holds exactly the allocated records, each once, and a handler's
\* own record is always among them: login_DisconnectClient never runs off
\* the end of the list and never frees a record twice.
THEOREM ListCorrect == Spec => [](ListIsHeap /\ OwnRecord)
<1>1. Spec => []CoreInv
  BY CoreInit, CoreStep, PTL DEF Spec
<1>2. CoreInv => ListIsHeap /\ OwnRecord
  BY DEF CoreInv
<1> QED
  BY <1>1, <1>2, PTL

\* No step links or unlinks a node while a broadcast holds the mutex.
THEOREM FrozenUnderBroadcast == Spec => ListFrozen
<1>1. [Next]_vars => [~MutexFree => g_Online' = g_Online]_vars
  BY DEF Next, Proceed, Request, vars, lock, threads, Accept, LoginFind,
         MallocFails, AddClient, ChangeName, NotifyLock, NotifyNext,
         NotifyDone, Disconnect, DisconnectClient, Lookup, UseTarget, PeerGone,
         Fill, Drain
<1> QED
  BY <1>1, PTL DEF Spec, ListFrozen

-----------------------------------------------------------------------------
\* A step changes what cells hold only by linking or by freeing a record.
LEMMA CellsFrame ==
  ASSUME [Next]_vars,
         \A t \in Conns : ~AddClient(t) /\ ~DisconnectClient(t)
  PROVE  uid' = uid
BY DEF Next, Proceed, Request, vars, heap, Accept, LoginFind, MallocFails, ChangeName,
       NotifyLock, NotifyNext, NotifyDone, Disconnect, Lookup, UseTarget, PeerGone,
         Fill, Drain

\* Only a lookup that finds nobody makes a handler link a record.
LEMMA AppendingFrame ==
  ASSUME TypeOK, [Next]_vars, NEW u \in Uids, Found(u)
  PROVE  Appending(u)' \subseteq Appending(u)
<1>1. SUFFICES ASSUME NEW s \in Conns, pc'[s] = "append", arg'[s] = u
               PROVE  pc[s] = "append" /\ arg[s] = u
  BY DEF Appending
<1> USE <1>1 DEF TypeOK, Goto
<1>2. ASSUME NEW t \in Conns, NEW v \in Uids, LoginFind(t, v)
      PROVE  pc[s] = "append" /\ arg[s] = u
  BY <1>2 DEF LoginFind
<1>3. ASSUME NEW t \in Conns, NEW v \in Uids, Lookup(t, v)
      PROVE  pc[s] = "append" /\ arg[s] = u
  BY <1>3 DEF Lookup
<1>4. ASSUME NEW t \in Conns, Accept(t) \/ ChangeName(t) \/ Disconnect(t)
      PROVE  pc[s] = "append" /\ arg[s] = u
  BY <1>4 DEF Accept, ChangeName, Disconnect
<1>5. ASSUME NEW t \in Conns, MallocFails(t) \/ UseTarget(t)
      PROVE  pc[s] = "append" /\ arg[s] = u
  BY <1>5 DEF MallocFails, UseTarget
<1>6. ASSUME NEW t \in Conns, AddClient(t)
      PROVE  pc[s] = "append" /\ arg[s] = u
  BY <1>6 DEF AddClient
<1>7. ASSUME NEW t \in Conns, DisconnectClient(t)
      PROVE  pc[s] = "append" /\ arg[s] = u
  BY <1>7 DEF DisconnectClient
<1>8. ASSUME NEW t \in Conns, NotifyLock(t) \/ NotifyNext(t) \/ NotifyDone(t)
      PROVE  pc[s] = "append" /\ arg[s] = u
  BY <1>8 DEF NotifyLock, NotifyNext, NotifyDone, threads
<1>9. CASE (\E c \in Cells : PeerGone(c) \/ Fill(c) \/ Drain(c)) \/ UNCHANGED vars
  BY <1>9 DEF PeerGone, Fill, Drain, vars, threads
<1> QED
  BY <1>2, <1>3, <1>4, <1>5, <1>6, <1>7, <1>8, <1>9 DEF Next, Proceed, Request

\* "UID %d already online": a user who has a record gets no second one by a
\* login that begins then.
THEOREM SecondLoginsRefused == Spec => SecondLoginRefused
<1>1. ASSUME TypeOK, [Next]_vars, NEW u \in Uids, Found(u), Appending(u) = {}
      PROVE  Appending(u)' = {} /\ RecordsOf(u)' \subseteq RecordsOf(u)
  <2>1. Appending(u)' = {}
    BY <1>1, AppendingFrame
  <2>2. ASSUME NEW t \in Conns, AddClient(t)
        PROVE  RecordsOf(u)' \subseteq RecordsOf(u)
    <3>1. arg[t] # u
      BY <1>1, <2>2 DEF AddClient, Appending
    <3> QED
      BY <1>1, <2>2, <3>1 DEF AddClient, RecordsOf, TypeOK
  <2>3. ASSUME NEW t \in Conns, DisconnectClient(t)
        PROVE  RecordsOf(u)' \subseteq RecordsOf(u)
    BY <1>1, <2>3, OnlineListAssumption DEF DisconnectClient, RecordsOf, TypeOK
  <2>4. uid' = uid => RecordsOf(u)' \subseteq RecordsOf(u)
    BY DEF RecordsOf
  <2> QED
    BY <1>1, <2>1, <2>2, <2>3, <2>4, CellsFrame
<1>2. TypeOK /\ [Next]_vars =>
        [\A u \in Uids :
           Found(u) /\ Appending(u) = {} =>
             Appending(u)' = {} /\ RecordsOf(u)' \subseteq RecordsOf(u)]_vars
  BY <1>1
<1> QED
  BY <1>2, TypeCorrect, PTL DEF Spec, SecondLoginRefused

\* A handler that uses a record has looked one up, for a user.
UseInv == \A t \in Conns : pc[t] = "use" => target[t] \in Cells /\ arg[t] \in Uids

LEMMA UseStep == TypeOK /\ UseInv /\ [Next]_vars => UseInv'
<1> SUFFICES ASSUME TypeOK, UseInv, [Next]_vars PROVE UseInv'
  OBVIOUS
<1> USE DEF TypeOK, UseInv, Goto
<1>1. ASSUME NEW t \in Conns, NEW u \in Uids, LoginFind(t, u)
      PROVE  UseInv'
  BY <1>1 DEF LoginFind
<1>2. ASSUME NEW t \in Conns, NEW u \in Uids, Lookup(t, u)
      PROVE  UseInv'
  <2>1. PICK i \in DOMAIN g_Online : target' = [target EXCEPT ![t] = g_Online[i]]
    BY <1>2 DEF Lookup
  <2>2. g_Online[i] \in Cells
    BY <2>1
  <2> QED
    BY <1>2, <2>1, <2>2 DEF Lookup
<1>3. ASSUME NEW t \in Conns, Accept(t) \/ ChangeName(t) \/ Disconnect(t)
      PROVE  UseInv'
  BY <1>3 DEF Accept, ChangeName, Disconnect
<1>4. ASSUME NEW t \in Conns, MallocFails(t) \/ UseTarget(t)
      PROVE  UseInv'
  BY <1>4 DEF MallocFails, UseTarget
<1>5. ASSUME NEW t \in Conns, AddClient(t)
      PROVE  UseInv'
  BY <1>5 DEF AddClient
<1>6. ASSUME NEW t \in Conns, DisconnectClient(t)
      PROVE  UseInv'
  BY <1>6 DEF DisconnectClient
<1>7. ASSUME NEW t \in Conns, NotifyLock(t) \/ NotifyNext(t) \/ NotifyDone(t)
      PROVE  UseInv'
  BY <1>7 DEF NotifyLock, NotifyNext, NotifyDone, threads
<1>8. CASE (\E c \in Cells : PeerGone(c) \/ Fill(c) \/ Drain(c)) \/ UNCHANGED vars
  BY <1>8 DEF PeerGone, Fill, Drain, vars, threads
<1> QED
  BY <1>1, <1>2, <1>3, <1>4, <1>5, <1>6, <1>7, <1>8 DEF Next, Proceed, Request

LEMMA UseCorrect == Spec => []UseInv
<1>1. Init => UseInv
  BY DEF Init, UseInv
<1> QED
  BY <1>1, UseStep, TypeCorrect, PTL DEF Spec

\* A record that a handler has looked up changes hands under it only when the
\* record's own handler frees it.
THEOREM StaleByLeaving == Spec => StaleOnlyAfterLeave
<1>1. ASSUME TypeOK, UseInv, [Next]_vars, NEW t \in Conns,
             pc[t] = "use", uid[target[t]] = arg[t],
             pc'[t] = "use", uid'[target'[t]] # arg'[t]
      PROVE  \E s \in Conns : pc[s] = "remove" /\ client_info[s] = target[t]
  <2>1. target'[t] = target[t] /\ arg'[t] = arg[t]
    <3>1. ASSUME NEW s \in Conns, AddClient(s) \/ MallocFails(s) \/ UseTarget(s)
          PROVE  target'[t] = target[t] /\ arg'[t] = arg[t]
      BY <1>1, <3>1 DEF AddClient, MallocFails, UseTarget, TypeOK, Goto
    <3>2. ASSUME NEW s \in Conns, NEW v \in Uids, LoginFind(s, v) \/ Lookup(s, v)
          PROVE  target'[t] = target[t] /\ arg'[t] = arg[t]
      BY <1>1, <3>2 DEF LoginFind, Lookup, TypeOK, Goto
    <3> QED
      BY <1>1, <3>1, <3>2
         DEF Next, Proceed, Request, vars, threads, Accept, ChangeName, Disconnect,
             NotifyLock, NotifyNext, NotifyDone, DisconnectClient, PeerGone,
             Fill, Drain
  <2>2. target[t] \in Cells /\ arg[t] \in Uids
    BY <1>1 DEF UseInv
  <2>3. PICK s \in Conns : AddClient(s) \/ DisconnectClient(s)
    BY <1>1, <2>1, CellsFrame
  <2>4. CASE AddClient(s)
    BY <1>1, <2>1, <2>2, <2>4, OnlineListAssumption DEF AddClient, TypeOK
  <2>5. CASE DisconnectClient(s)
    BY <1>1, <2>1, <2>2, <2>5 DEF DisconnectClient, TypeOK
  <2> QED
    BY <2>3, <2>4, <2>5
<1>2. TypeOK /\ UseInv /\ [Next]_vars =>
        [\A t \in Conns :
           pc[t] = "use" /\ uid[target[t]] = arg[t] /\ (pc[t] = "use" /\ uid[target[t]] # arg[t])' =>
             \E s \in Conns : pc[s] = "remove" /\ client_info[s] = target[t]]_vars
  BY <1>1
<1> QED
  BY <1>2, TypeCorrect, UseCorrect, PTL DEF Spec, StaleOnlyAfterLeave

-----------------------------------------------------------------------------
\* A step that leaves list, heap, notices and mutex alone keeps NoticeInv
\* when it brings no thread to "remove" and none that holds the mutex to
\* "leave".
LEMMA NoticeFrame ==
  ASSUME CoreInv, NoticeInv,
         UNCHANGED <<g_Online, uid, told, deaf, g_LoginMutex, cursor>>,
         \A t \in Conns :
           \/ client_info'[t] = client_info[t] /\ pc'[t] = pc[t]
           \/ pc'[t] # "remove" /\ (pc'[t] = "leave" => g_LoginMutex # t)
  PROVE  NoticeInv'
<1>1. Listed' = Listed
  BY DEF Listed
<1>2. \A c, p \in Cells : ToldOff(c, p)' => ToldOff(c, p)
  BY DEF ToldOff
<1>3. Listed \subseteq Cells
  BY DEF CoreInv, ListIsHeap
<1> QED
  BY <1>1, <1>2, <1>3 DEF NoticeInv

LEMMA NoticeAddClient ==
  ASSUME CoreInv, NoticeInv, NEW t \in Conns, AddClient(t)
  PROVE  NoticeInv'
<1> USE OnlineListAssumption DEF CoreInv, TypeOK, Goto
<1>1. PICK n \in Cells :
         /\ n \notin Listed
         /\ uid' = [uid EXCEPT ![n] = arg[t]]
         /\ client_info' = [client_info EXCEPT ![t] = n]
         /\ Listed' = Listed \cup {n}
  BY AfterAddClient
<1>2. /\ g_LoginMutex' = None
      /\ pc' = [pc EXCEPT ![t] = "announce"]
      /\ told' = told /\ deaf' = deaf
  BY DEF AddClient, MutexFree, lock
<1>3. ASSUME NEW c \in Cells, NEW p \in Cells, c # n, ToldOff(c, p)'
      PROVE  ToldOff(c, p)
  BY <1>1, <1>2, <1>3 DEF ToldOff
<1>4. Listed \subseteq Cells
  BY DEF ListIsHeap
<1>5. SUFFICES ASSUME NEW p \in Cells \ deaf, NEW u \in Uids, told[p][u] = "online"
               PROVE  /\ p \in Listed'
                      /\ \E c \in Listed' \ {p} : uid'[c] = u /\ ~ToldOff(c, p)'
  BY <1>2 DEF NoticeInv
<1>6. PICK c \in Listed \ {p} : p \in Listed /\ uid[c] = u /\ ~ToldOff(c, p)
  BY <1>5 DEF NoticeInv
<1> QED
  BY <1>1, <1>3, <1>4, <1>6

LEMMA NoticeNotifyNext ==
  ASSUME CoreInv, NoticeInv, NEW t \in Conns, NotifyNext(t)
  PROVE  NoticeInv'
<1> USE OnlineListAssumption DEF CoreInv, TypeOK, Goto, Broadcasts
<1> DEFINE q   == g_Online[cursor]
           own == client_info[t]
<1>1. /\ g_LoginMutex = t /\ g_LoginMutex' = t /\ cursor' = cursor + 1
      /\ cursor \in DOMAIN g_Online
      /\ UNCHANGED <<g_Online, uid, deaf, pc, client_info>>
  BY DEF NotifyNext, threads
<1>2. /\ q \in Listed /\ own \in Listed /\ Listed \subseteq Cells
      /\ own # None /\ uid[own] \in Uids
      /\ pc[t] \in Broadcasts
  BY <1>1 DEF Listed, ThreadInv, OwnRecord, ListIsHeap
<1>3. Listed' = Listed
  BY <1>1 DEF Listed
<1>4. ASSUME NEW c \in Cells, NEW p \in Cells,
             ToldOff(c, p)', ~ToldOff(c, p)
      PROVE  c = own /\ p = q /\ pc[t] = "leave"
  <2>1. PICK s \in Conns :
          /\ client_info[s] = c
          /\ \/ pc[s] = "remove"
             \/ /\ pc[s] = "leave"
                /\ g_LoginMutex = s
                /\ \E i \in DOMAIN g_Online : i < cursor + 1 /\ g_Online[i] = p
    BY <1>1, <1>4 DEF ToldOff
  <2>2. /\ s = t /\ pc[s] = "leave"
        /\ \E i \in DOMAIN g_Online : i < cursor + 1 /\ g_Online[i] = p
    BY <1>1, <1>4, <2>1 DEF ToldOff
  <2>3. PICK i \in DOMAIN g_Online : i < cursor + 1 /\ g_Online[i] = p
    BY <2>2
  <2>4. ~(i < cursor)
    BY <1>1, <1>4, <2>1, <2>2, <2>3 DEF ToldOff
  <2>5. i = cursor
    BY <1>1, <2>3, <2>4, LenProperties
  <2> QED
    BY <2>1, <2>2, <2>3, <2>5
<1>5. \/ told' = told /\ (q = own \/ q \in deaf \/ pc[t] = "renamed")
      \/ /\ q # own
         /\ told' = [told EXCEPT ![q] = [told[q] EXCEPT ![uid[own]] = Notice(t)]]
  BY <1>2 DEF NotifyNext
<1>6. SUFFICES ASSUME NEW p \in Cells \ deaf, NEW u \in Uids, told'[p][u] = "online"
               PROVE  /\ p \in Listed
                      /\ \E c \in Listed \ {p} : uid[c] = u /\ ~ToldOff(c, p)'
  BY <1>1, <1>3 DEF NoticeInv
<1>7. CASE told[p][u] = "online"
  <2>1. PICK c \in Listed \ {p} : p \in Listed /\ uid[c] = u /\ ~ToldOff(c, p)
    BY <1>7 DEF NoticeInv
  <2>2. ASSUME ToldOff(c, p)'
        PROVE  FALSE
    <3>1. c = own /\ p = q /\ pc[t] = "leave"
      BY <1>2, <1>4, <2>1, <2>2
    <3>2. told' = [told EXCEPT ![q] = [told[q] EXCEPT ![uid[own]] = "offline"]]
      BY <1>5, <2>1, <3>1 DEF Notice
    <3>3. told'[p][u] = "offline"
      BY <2>1, <3>1, <3>2
    <3> QED
      BY <1>6, <3>3
  <2> QED
    BY <2>1, <2>2
<1>8. CASE told[p][u] # "online"
  <2>1. /\ p = q /\ u = uid[own] /\ q # own
        /\ Notice(t) = "online"
    BY <1>2, <1>5, <1>6, <1>8
  <2>2. pc[t] # "leave"
    BY <2>1 DEF Notice
  <2>3. PICK c \in Listed : c = own
    BY <1>2
  <2>4. ~ToldOff(c, p)
    <3>1. \A s \in Conns : client_info[s] = own => s = t
      BY <1>2 DEF OwnRecord
    <3> QED
      BY <1>2, <2>2, <2>3, <3>1 DEF ToldOff
  <2>5. ~ToldOff(c, p)'
    BY <1>2, <1>4, <2>2, <2>3, <2>4
  <2> QED
    BY <1>2, <2>1, <2>3, <2>5
<1> QED
  BY <1>7, <1>8

LEMMA NoticeNotifyDone ==
  ASSUME CoreInv, NoticeInv, NEW t \in Conns, NotifyDone(t)
  PROVE  NoticeInv'
<1> USE OnlineListAssumption DEF CoreInv, TypeOK, Goto, Broadcasts
<1>1. /\ g_LoginMutex = t /\ g_LoginMutex' = None
      /\ cursor > Len(g_Online)
      /\ UNCHANGED <<g_Online, uid, told, deaf, client_info>>
      /\ pc' = [pc EXCEPT ![t] = IF pc[t] = "leave" THEN "remove" ELSE "idle"]
  BY DEF NotifyDone, heap
<1>2. Listed' = Listed /\ Listed \subseteq Cells
  BY <1>1 DEF Listed, ListIsHeap
<1>3. ASSUME NEW c \in Cells, NEW p \in Listed, ToldOff(c, p)'
      PROVE  ToldOff(c, p)
  <2>1. PICK s \in Conns : client_info[s] = c /\ pc'[s] = "remove"
    BY <1>1, <1>3 DEF ToldOff
  <2>2. CASE s = t
    <3>1. \A i \in DOMAIN g_Online : i < cursor
      BY <1>1, LenProperties
    <3>2. pc[t] = "leave"
      BY <1>1, <2>1, <2>2
    <3> QED
      BY <1>1, <2>1, <2>2, <3>1, <3>2 DEF ToldOff, Listed
  <2>3. CASE s # t
    BY <1>1, <2>1, <2>3 DEF ToldOff
  <2> QED
    BY <2>2, <2>3
<1> QED
  BY <1>1, <1>2, <1>3 DEF NoticeInv

LEMMA NoticeDisconnectClient ==
  ASSUME CoreInv, NoticeInv, NEW t \in Conns, DisconnectClient(t)
  PROVE  NoticeInv'
<1> USE OnlineListAssumption DEF CoreInv, TypeOK, Goto, Broadcasts
<1> DEFINE own == client_info[t]
<1>1. own \in Cells /\ Listed' = Listed \ {own}
  BY AfterDisconnectClient
<1>2. /\ pc[t] = "remove" /\ g_LoginMutex' = None
      /\ pc' = [pc EXCEPT ![t] = "closed"]
      /\ uid' = [uid EXCEPT ![own] = None]
      /\ told' = [told EXCEPT ![own] = Unheard]
      /\ deaf' = deaf \ {own}
      /\ client_info' = [client_info EXCEPT ![t] = None]
  BY DEF DisconnectClient, MutexFree, lock
<1>3. ASSUME NEW c \in Cells, NEW p \in Cells, ToldOff(c, p)'
      PROVE  ToldOff(c, p)
  BY <1>2, <1>3 DEF ToldOff
<1>4. \A p \in Cells : ToldOff(own, p)
  BY <1>2 DEF ToldOff
<1>5. SUFFICES ASSUME NEW p \in Cells \ deaf', NEW u \in Uids, told'[p][u] = "online"
               PROVE  /\ p \in Listed'
                      /\ \E c \in Listed' \ {p} : uid'[c] = u /\ ~ToldOff(c, p)'
  BY DEF NoticeInv
<1>6. p # own /\ p \in Cells \ deaf /\ told[p][u] = "online"
  BY <1>1, <1>2, <1>5 DEF Unheard
<1>7. PICK c \in Listed \ {p} : p \in Listed /\ uid[c] = u /\ ~ToldOff(c, p)
  BY <1>6 DEF NoticeInv
<1>8. c # own /\ c \in Cells
  BY <1>4, <1>7 DEF ListIsHeap
<1> QED
  BY <1>1, <1>2, <1>3, <1>6, <1>7, <1>8

LEMMA NoticeStep == CoreInv /\ NoticeInv /\ [Next]_vars => NoticeInv'
<1> SUFFICES ASSUME CoreInv, NoticeInv, [Next]_vars
             PROVE  NoticeInv'
  OBVIOUS
<1> USE OnlineListAssumption DEF CoreInv, TypeOK, Goto, ThreadInv, Broadcasts
<1>1. ASSUME NEW t \in Conns, Request(t)
      PROVE  NoticeInv'
  <2>1. UNCHANGED <<g_Online, uid, told, deaf, g_LoginMutex, cursor>>
    BY <1>1 DEF Request, Accept, LoginFind, Lookup, MallocFails, ChangeName,
                Disconnect, lock, heap
  <2>2. ASSUME NEW s \in Conns
        PROVE  \/ client_info'[s] = client_info[s] /\ pc'[s] = pc[s]
               \/ pc'[s] # "remove" /\ (pc'[s] = "leave" => g_LoginMutex # s)
    BY <1>1 DEF Request, Accept, LoginFind, Lookup, MallocFails, ChangeName,
                Disconnect
  <2> QED
    BY <2>1, <2>2, NoticeFrame
<1>2. ASSUME NEW t \in Conns, NotifyLock(t)
      PROVE  NoticeInv'
  <2>1. /\ UNCHANGED <<g_Online, uid, told, deaf, client_info, pc>>
        /\ g_LoginMutex' = t /\ cursor' = 1
    BY <1>2 DEF NotifyLock, heap, threads
  <2>2. \A i \in DOMAIN g_Online : ~(i < 1)
    BY LenProperties
  <2>3. \A c, p \in Cells : ToldOff(c, p)' => ToldOff(c, p)
    BY <2>1, <2>2 DEF ToldOff
  <2>4. Listed' = Listed /\ Listed \subseteq Cells
    BY <2>1 DEF Listed, ListIsHeap
  <2> QED
    BY <2>1, <2>3, <2>4 DEF NoticeInv
<1>3. ASSUME NEW t \in Conns, UseTarget(t)
      PROVE  NoticeInv'
  BY <1>3, NoticeFrame DEF UseTarget, lock, heap
<1>4. ASSUME NEW d \in Cells, PeerGone(d)
      PROVE  NoticeInv'
  <2>1. /\ UNCHANGED <<g_Online, uid, told, pc, client_info, g_LoginMutex, cursor>>
        /\ deaf \subseteq deaf'
    BY <1>4 DEF PeerGone, lock, threads
  <2>2. Listed' = Listed /\ \A c, p \in Cells : ToldOff(c, p)' = ToldOff(c, p)
    BY <2>1 DEF Listed, ToldOff
  <2>3. Listed \subseteq Cells
    BY DEF ListIsHeap
  <2> QED
    BY <2>1, <2>2, <2>3 DEF NoticeInv
<1>5. CASE (\E c \in Cells : Fill(c) \/ Drain(c)) \/ UNCHANGED vars
  BY <1>5, NoticeFrame DEF Fill, Drain, vars, lock, heap, threads
<1> QED
  BY <1>1, <1>2, <1>3, <1>4, <1>5, NoticeAddClient, NoticeNotifyNext,
     NoticeNotifyDone, NoticeDisconnectClient DEF Next, Proceed

-----------------------------------------------------------------------------
\* A step that leaves list, heap and notices alone keeps AnnounceInv when it
\* takes no thread past its announcement.
LEMMA AnnounceFrame ==
  ASSUME AnnounceInv,
         UNCHANGED <<g_Online, uid, told, deaf>>,
         \A t \in Conns :
           \/ client_info'[t] = None
           \/ /\ client_info'[t] = client_info[t]
              /\ \A i \in DOMAIN g_Online : Walked(t, i)' => Walked(t, i)
  PROVE  AnnounceInv'
BY DEF AnnounceInv

LEMMA AnnounceAddClient ==
  ASSUME CoreInv, AnnounceInv, NEW t \in Conns, AddClient(t)
  PROVE  AnnounceInv'
<1> USE OnlineListAssumption DEF CoreInv, TypeOK, Goto
<1>1. PICK n \in Cells :
         /\ n \notin Listed
         /\ uid' = [uid EXCEPT ![n] = arg[t]]
         /\ client_info' = [client_info EXCEPT ![t] = n]
         /\ Len(g_Online) \in Nat
         /\ DOMAIN g_Online = 1..Len(g_Online)
         /\ DOMAIN g_Online' = 1..(Len(g_Online) + 1)
         /\ \A i \in DOMAIN g_Online : g_Online'[i] = g_Online[i]
         /\ g_Online'[Len(g_Online) + 1] = n
  BY AfterAddClient
<1>2. /\ g_LoginMutex' = None /\ g_LoginMutex = None
      /\ pc' = [pc EXCEPT ![t] = "announce"]
      /\ told' = told /\ deaf' = deaf /\ cursor' = cursor
  BY DEF AddClient, MutexFree, lock
<1>3. SUFFICES ASSUME NEW s \in Conns, client_info'[s] # None,
                      NEW i \in DOMAIN g_Online', NEW j \in DOMAIN g_Online',
                      i < j, g_Online'[j] = client_info'[s],
                      g_Online'[i] \notin deaf', Walked(s, i)'
               PROVE  told'[g_Online'[i]][uid'[client_info'[s]]] # "none"
  BY DEF AnnounceInv
<1>4. s # t
  BY <1>2, <1>3 DEF Walked
<1>5. client_info'[s] = client_info[s] /\ client_info[s] \in Listed
  BY <1>1, <1>3, <1>4 DEF OwnRecord
<1>6. j \in DOMAIN g_Online /\ i \in DOMAIN g_Online
  BY <1>1, <1>3, <1>5
<1>7. /\ g_Online'[i] = g_Online[i] /\ g_Online'[j] = g_Online[j]
      /\ uid'[client_info[s]] = uid[client_info[s]]
      /\ Walked(s, i)
  BY <1>1, <1>2, <1>3, <1>4, <1>5, <1>6 DEF Walked
<1> QED
  BY <1>2, <1>3, <1>5, <1>6, <1>7 DEF AnnounceInv

LEMMA AnnounceNotifyNext ==
  ASSUME CoreInv, AnnounceInv, NEW t \in Conns, NotifyNext(t)
  PROVE  AnnounceInv'
<1> USE OnlineListAssumption DEF CoreInv, TypeOK, Goto, Broadcasts
<1> DEFINE q   == g_Online[cursor]
           own == client_info[t]
<1>1. /\ g_LoginMutex = t /\ g_LoginMutex' = t /\ cursor' = cursor + 1
      /\ cursor \in DOMAIN g_Online
      /\ UNCHANGED <<g_Online, uid, deaf, pc, client_info>>
  BY DEF NotifyNext, threads
<1>2. /\ q \in Cells /\ own \in Cells /\ uid[own] \in Uids
  BY <1>1 DEF Listed, ThreadInv, OwnRecord, ListIsHeap
<1>3. \/ told' = told /\ (q = own \/ q \in deaf \/ pc[t] = "renamed")
      \/ told' = [told EXCEPT ![q] = [told[q] EXCEPT ![uid[own]] = Notice(t)]]
  BY <1>2 DEF NotifyNext
<1>4. \A p \in Cells, u \in Uids : told[p][u] # "none" => told'[p][u] # "none"
  BY <1>2, <1>3 DEF Notice
<1>5. SUFFICES ASSUME NEW s \in Conns, client_info[s] # None,
                      NEW i \in DOMAIN g_Online, NEW j \in DOMAIN g_Online,
                      i < j, g_Online[j] = client_info[s],
                      g_Online[i] \notin deaf, Walked(s, i)'
               PROVE  told'[g_Online[i]][uid[client_info[s]]] # "none"
  BY <1>1 DEF AnnounceInv
<1>6. g_Online[i] \in Cells /\ uid[client_info[s]] \in Uids
  BY <1>5 DEF OwnRecord, ListIsHeap
<1>7. CASE Walked(s, i)
  BY <1>4, <1>5, <1>6, <1>7 DEF AnnounceInv
<1>8. CASE ~Walked(s, i)
  <2>1. pc[s] = "announce" /\ s = t /\ i < cursor + 1 /\ ~(i < cursor)
    BY <1>1, <1>5, <1>8 DEF Walked
  <2>2. i = cursor
    BY <2>1, LenProperties
  <2>3. q # own
    BY <1>5, <2>1, <2>2, LenProperties DEF ListIsHeap
  <2>4. told' = [told EXCEPT ![q] = [told[q] EXCEPT ![uid[own]] = "online"]]
    BY <1>3, <1>5, <2>1, <2>2, <2>3 DEF Notice
  <2> QED
    BY <1>2, <2>1, <2>2, <2>4
<1> QED
  BY <1>7, <1>8

LEMMA AnnounceDisconnectClient ==
  ASSUME CoreInv, AnnounceInv, NEW t \in Conns, DisconnectClient(t)
  PROVE  AnnounceInv'
<1> USE OnlineListAssumption DEF CoreInv, TypeOK, Goto
<1>1. PICK k \in DOMAIN g_Online :
        /\ g_Online[k] = client_info[t]
        /\ Len(g_Online) \in Nat
        /\ DOMAIN g_Online = 1..Len(g_Online)
        /\ DOMAIN g_Online' = 1..(Len(g_Online) - 1)
        /\ \A i \in DOMAIN g_Online' :
             g_Online'[i] = IF i < k THEN g_Online[i] ELSE g_Online[i + 1]
  BY AfterDisconnectClient
<1>2. PICK own \in Cells : own = client_info[t] /\ Listed' = Listed \ {own}
  BY AfterDisconnectClient
<1>3. /\ pc[t] = "remove"
      /\ pc' = [pc EXCEPT ![t] = "closed"]
      /\ uid' = [uid EXCEPT ![own] = None]
      /\ told' = [told EXCEPT ![own] = Unheard]
      /\ deaf' = deaf \ {own}
      /\ client_info' = [client_info EXCEPT ![t] = None]
      /\ UNCHANGED <<g_LoginMutex, cursor>>
      /\ MutexFree
  BY <1>2 DEF DisconnectClient, lock
<1>4. SUFFICES ASSUME NEW s \in Conns, client_info'[s] # None,
                      NEW i \in DOMAIN g_Online', NEW j \in DOMAIN g_Online',
                      i < j, g_Online'[j] = client_info'[s],
                      g_Online'[i] \notin deaf', Walked(s, i)'
               PROVE  told'[g_Online'[i]][uid'[client_info'[s]]] # "none"
  BY DEF AnnounceInv
<1>5. s # t /\ client_info'[s] = client_info[s] /\ pc'[s] = pc[s]
  BY <1>3, <1>4
<1>6. g_Online'[i] # own /\ g_Online'[j] # own
  <2>1. g_Online'[i] \in Listed' /\ g_Online'[j] \in Listed'
    BY <1>4 DEF Listed
  <2> QED
    BY <1>2, <2>1
<1>7. PICK m \in DOMAIN g_Online, n \in DOMAIN g_Online :
        m < n /\ g_Online[m] = g_Online'[i] /\ g_Online[n] = g_Online'[j]
  <2> HIDE DEF CoreInv, TypeOK, Goto
  <2> DEFINE old(x) == IF x < k THEN x ELSE x + 1
  <2>1. ASSUME NEW x \in DOMAIN g_Online'
        PROVE  old(x) \in DOMAIN g_Online /\ g_Online[old(x)] = g_Online'[x]
    BY <1>1, <2>1
  <2>2. old(i) < old(j)
    BY <1>1, <1>4
  <2>3. /\ old(i) \in DOMAIN g_Online /\ g_Online[old(i)] = g_Online'[i]
        /\ old(j) \in DOMAIN g_Online /\ g_Online[old(j)] = g_Online'[j]
    BY <1>4, <2>1
  <2> HIDE DEF old
  <2> QED
    BY <2>2, <2>3
<1>8. pc[s] # "announce"
  BY <1>3, <1>4, <1>5 DEF Walked, MutexFree
<1>9. /\ told'[g_Online[m]] = told[g_Online[m]]
      /\ uid'[client_info[s]] = uid[client_info[s]]
      /\ g_Online[m] \notin deaf
  BY <1>3, <1>4, <1>5, <1>6, <1>7
<1>10. told[g_Online[m]][uid[client_info[s]]] # "none"
  BY <1>4, <1>5, <1>7, <1>8, <1>9 DEF AnnounceInv, Walked
<1> QED
  BY <1>5, <1>7, <1>9, <1>10

LEMMA AnnounceStep == CoreInv /\ AnnounceInv /\ [Next]_vars => AnnounceInv'
<1> SUFFICES ASSUME CoreInv, AnnounceInv, [Next]_vars
             PROVE  AnnounceInv'
  OBVIOUS
<1> USE OnlineListAssumption DEF CoreInv, TypeOK, Goto, ThreadInv, Broadcasts
<1>1. ASSUME NEW t \in Conns, Request(t)
      PROVE  AnnounceInv'
  <2>1. UNCHANGED <<g_Online, uid, told, deaf, g_LoginMutex, cursor>>
    BY <1>1 DEF Request, Accept, LoginFind, Lookup, MallocFails, ChangeName,
                Disconnect, lock, heap
  <2>2. ASSUME NEW s \in Conns
        PROVE  \/ client_info'[s] = None
               \/ /\ client_info'[s] = client_info[s]
                  /\ pc'[s] = "announce" <=> pc[s] = "announce"
    BY <1>1 DEF Request, Accept, LoginFind, Lookup, MallocFails, ChangeName,
                Disconnect
  <2> QED
    BY <2>1, <2>2, AnnounceFrame DEF Walked
<1>2. ASSUME NEW t \in Conns, NotifyLock(t)
      PROVE  AnnounceInv'
  <2>1. /\ UNCHANGED <<g_Online, uid, told, deaf, client_info, pc>>
        /\ g_LoginMutex' = t /\ cursor' = 1
    BY <1>2 DEF NotifyLock, heap, threads
  <2>2. \A i \in DOMAIN g_Online : ~(i < 1)
    BY LenProperties
  <2>3. \A s \in Conns, i \in DOMAIN g_Online : Walked(s, i)' => Walked(s, i)
    BY <2>1, <2>2 DEF Walked
  <2> QED
    BY <2>1, <2>3, AnnounceFrame
<1>3. ASSUME NEW t \in Conns, NotifyDone(t)
      PROVE  AnnounceInv'
  <2>1. /\ UNCHANGED <<g_Online, uid, told, deaf, client_info>>
        /\ g_LoginMutex = t /\ g_LoginMutex' = None /\ cursor > Len(g_Online)
        /\ pc' = [pc EXCEPT ![t] = IF pc[t] = "leave" THEN "remove" ELSE "idle"]
    BY <1>3 DEF NotifyDone, heap
  <2>2. \A s \in Conns, i \in DOMAIN g_Online : Walked(s, i)' => Walked(s, i)
    BY <2>1, LenProperties DEF Walked
  <2> QED
    BY <2>1, <2>2, AnnounceFrame
<1>4. ASSUME NEW t \in Conns, UseTarget(t)
      PROVE  AnnounceInv'
  <2>1. UNCHANGED <<g_Online, uid, told, deaf, g_LoginMutex, cursor, client_info>>
    BY <1>4 DEF UseTarget, lock, heap
  <2>2. \A s \in Conns : pc'[s] = "announce" <=> pc[s] = "announce"
    BY <1>4 DEF UseTarget
  <2> QED
    BY <2>1, <2>2, AnnounceFrame DEF Walked
<1>5. ASSUME NEW d \in Cells, PeerGone(d)
      PROVE  AnnounceInv'
  BY <1>5 DEF PeerGone, AnnounceInv, Walked, lock, threads
<1>6. CASE (\E c \in Cells : Fill(c) \/ Drain(c)) \/ UNCHANGED vars
  BY <1>6 DEF Fill, Drain, vars, lock, heap, threads, AnnounceInv, Walked
<1> QED
  BY <1>1, <1>2, <1>3, <1>4, <1>5, <1>6, AnnounceAddClient,
     AnnounceNotifyNext, AnnounceDisconnectClient DEF Next, Proceed

-----------------------------------------------------------------------------
LEMMA OnceStep == CoreInv /\ OnceInv /\ [Next]_vars => OnceInv'
<1> SUFFICES ASSUME CoreInv, OnceInv, [Next]_vars, ReLogin = FALSE
             PROVE  /\ NoGhost'
                    /\ \A t \in Conns : pc'[t] = "append" => client_info'[t] = None
  BY DEF OnceInv
<1> USE OnlineListAssumption DEF CoreInv, TypeOK, Goto, OnceInv
<1>1. ASSUME NEW t \in Conns, AddClient(t)
      PROVE  /\ NoGhost'
             /\ \A s \in Conns : pc'[s] = "append" => client_info'[s] = None
  <2>1. client_info[t] = None /\ pc' = [pc EXCEPT ![t] = "announce"]
    BY <1>1 DEF AddClient
  <2>2. PICK n \in Cells :
          /\ client_info' = [client_info EXCEPT ![t] = n]
          /\ Listed' = Listed \cup {n}
    BY <1>1, AfterAddClient
  <2>3. Listed \subseteq Cells
    BY DEF ListIsHeap
  <2> QED
    BY <2>1, <2>2, <2>3 DEF NoGhost
<1>2. ASSUME NEW t \in Conns, DisconnectClient(t)
      PROVE  /\ NoGhost'
             /\ \A s \in Conns : pc'[s] = "append" => client_info'[s] = None
  <2>1. /\ client_info' = [client_info EXCEPT ![t] = None]
        /\ pc' = [pc EXCEPT ![t] = "closed"]
    BY <1>2 DEF DisconnectClient
  <2>2. Listed' = Listed \ {client_info[t]}
    BY <1>2, AfterDisconnectClient
  <2> QED
    BY <2>1, <2>2 DEF NoGhost
<1>3. ASSUME NEW t \in Conns, Request(t)
      PROVE  /\ NoGhost'
             /\ \A s \in Conns : pc'[s] = "append" => client_info'[s] = None
  <2>1. Listed' = Listed
    BY <1>3 DEF Request, Accept, LoginFind, Lookup, MallocFails, ChangeName,
                Disconnect, Listed
  <2>2. client_info' = client_info
    BY <1>3 DEF Request, Accept, LoginFind, Lookup, MallocFails, ChangeName,
                Disconnect
  <2>3. \A s \in Conns : pc'[s] = "append" => client_info'[s] = None
    BY <1>3, <2>2 DEF Request, Accept, LoginFind, Lookup, MallocFails,
                      ChangeName, Disconnect
  <2> QED
    BY <2>1, <2>2, <2>3 DEF NoGhost
<1>4. ASSUME NEW t \in Conns, NotifyLock(t) \/ NotifyNext(t) \/ NotifyDone(t) \/ UseTarget(t)
      PROVE  /\ NoGhost'
             /\ \A s \in Conns : pc'[s] = "append" => client_info'[s] = None
  <2>1. Listed' = Listed /\ client_info' = client_info
    BY <1>4 DEF NotifyLock, NotifyNext, NotifyDone, UseTarget, threads, Listed
  <2>2. \A s \in Conns : pc'[s] = "append" => pc[s] = "append"
    BY <1>4 DEF NotifyLock, NotifyNext, NotifyDone, UseTarget, threads
  <2> QED
    BY <2>1, <2>2 DEF NoGhost
<1>5. ASSUME NEW d \in Cells, PeerGone(d)
      PROVE  /\ NoGhost'
             /\ \A s \in Conns : pc'[s] = "append" => client_info'[s] = None
  BY <1>5 DEF PeerGone, threads, NoGhost, Listed
<1>6. CASE (\E c \in Cells : Fill(c) \/ Drain(c)) \/ UNCHANGED vars
  <2>1. UNCHANGED <<g_Online, client_info, pc>>
    BY <1>6 DEF Fill, Drain, vars, threads
  <2> QED
    BY <2>1 DEF NoGhost, Listed
<1> QED
  BY <1>1, <1>2, <1>3, <1>4, <1>5, <1>6 DEF Next, Proceed

\* IInv is inductive.
LEMMA Inductive == Spec => []IInv
<1>1. Init => IInv
  <2> SUFFICES ASSUME Init
               PROVE  NoticeInv /\ AnnounceInv /\ OnceInv
    BY CoreInit DEF IInv, CoreInv
  <2>1. DOMAIN g_Online = {}
    BY DEF Init
  <2>2. Listed = {}
    BY <2>1 DEF Listed
  <2> QED
    BY <2>1, <2>2 DEF Init, NoticeInv, AnnounceInv, OnceInv, NoGhost, Unheard
<1>2. IInv /\ [Next]_vars => IInv'
  BY CoreStep, NoticeStep, AnnounceStep, OnceStep DEF IInv, CoreInv
<1> QED
  BY <1>1, <1>2, PTL DEF Spec

\* A client whose last notice says that u is online can rely on it: u is in
\* the list.  login_NotifyAllLogin(c, 1) is complete before
\* login_DisconnectClient(c) unlinks c.
THEOREM NoticesHold == Spec => []NoStaleNotice
<1>1. IInv => NoStaleNotice
  <2>1. IInv => Listed \subseteq Cells
    BY DEF IInv, ListIsHeap
  <2> QED
    BY <2>1 DEF IInv, NoticeInv, NoStaleNotice
<1> QED
  BY <1>1, Inductive, PTL

\* Once a login is answered, everybody before it in the list was notified.
THEOREM LoginsAreAnnounced == Spec => []LoginAnnounced
<1>1. IInv => LoginAnnounced
  BY DEF IInv, AnnounceInv, LoginAnnounced, Walked
<1> QED
  BY <1>1, Inductive, PTL

\* When no connection logs in twice, every record in the list has a handler
\* that will remove it.
THEOREM NoGhostWithoutReLogin ==
  ASSUME ReLogin = FALSE
  PROVE  Spec => []NoGhost
<1>1. IInv => NoGhost
  BY DEF IInv, OnceInv
<1> QED
  BY <1>1, Inductive, PTL

-----------------------------------------------------------------------------
\* One turn of a broadcast is a notice to one session, or nothing.
LEMMA NotifyNextTells ==
  ASSUME IInv, NEW t \in Conns, NotifyNext(t)
  PROVE  Promise!Next \/ UNCHANGED <<uid, told, deaf>>
<1> USE OnlineListAssumption DEF IInv, TypeOK, Broadcasts
<1> DEFINE q   == g_Online[cursor]
           own == client_info[t]
<1>1. /\ g_LoginMutex = t /\ cursor \in DOMAIN g_Online
      /\ UNCHANGED <<uid, deaf>>
  BY DEF NotifyNext
<1>2. /\ q \in Listed /\ q \in Cells /\ uid[q] # None
      /\ own \in Listed /\ own \in Cells /\ uid[own] \in Uids
  BY <1>1 DEF Listed, ThreadInv, OwnRecord, ListIsHeap
<1>3. CASE told' = told
  BY <1>1, <1>3
<1>4. CASE /\ q # own /\ q \notin deaf
           /\ told' = [told EXCEPT ![q] = [told[q] EXCEPT ![uid[own]] = Notice(t)]]
  <2>1. Promise!Other(uid[own], {q})
    BY <1>2, <1>4 DEF Promise!Other
  <2>2. Notice(t) \in {"online", "offline"}
    BY DEF Notice
  <2>3. Promise!Tell(q, uid[own], Notice(t))
    BY <1>1, <1>2, <1>4, <2>1 DEF Promise!Tell
  <2> QED
    BY <1>2, <2>2, <2>3 DEF Promise!Next
<1> QED
  BY <1>2, <1>3, <1>4 DEF NotifyNext

\* Removing a record is a session leaving: everybody reachable who was told
\* of it has been told otherwise, or still has another session to go by.
LEMMA DisconnectClientLeaves ==
  ASSUME IInv, NEW t \in Conns, DisconnectClient(t)
  PROVE  Promise!Next
<1> USE OnlineListAssumption DEF IInv, TypeOK
<1>1. PICK own \in Cells : own = client_info[t] /\ own \in Listed
  BY DEF DisconnectClient, ThreadInv, OwnRecord, Broadcasts
<1>2. /\ pc[t] = "remove"
      /\ uid' = [uid EXCEPT ![own] = None]
      /\ told' = [told EXCEPT ![own] = Unheard]
      /\ deaf' = deaf \ {own}
  BY <1>1 DEF DisconnectClient
<1>3. uid[own] \in Uids
  BY <1>1 DEF ListIsHeap
<1>4. \A p \in Cells : ToldOff(own, p)
  BY <1>1, <1>2 DEF ToldOff
<1>5. ASSUME NEW p \in Cells \ (deaf \cup {own}), told[p][uid[own]] = "online"
      PROVE  Promise!Other(uid[own], {own, p})
  <2>1. PICK c \in Listed \ {p} : uid[c] = uid[own] /\ ~ToldOff(c, p)
    BY <1>3, <1>5 DEF NoticeInv
  <2>2. c \in Cells /\ c # own
    BY <1>4, <2>1 DEF ListIsHeap
  <2> QED
    BY <2>1, <2>2 DEF Promise!Other
<1>6. Promise!Leave(own)
  BY <1>2, <1>3, <1>5 DEF Promise!Leave, Promise!Nothing, Unheard
<1> QED
  BY <1>6 DEF Promise!Next

\* The list implements the abstract presence service.
THEOREM PresenceImplemented == Spec => ImplementsPresence
<1>1. Init => Promise!Init
  BY DEF Init, Promise!Init, Promise!Nothing, Unheard
<1>2. IInv /\ [Next]_vars => [Promise!Next]_(Promise!vars)
  <2> SUFFICES ASSUME IInv, [Next]_vars
               PROVE  Promise!Next \/ UNCHANGED <<uid, told, deaf>>
    BY DEF Promise!vars
  <2>1. ASSUME NEW t \in Conns, AddClient(t)
        PROVE  Promise!Next
    <3>1. arg[t] \in Uids
      BY <2>1 DEF AddClient, IInv, ThreadInv
    <3>2. PICK c \in Cells : uid[c] = None /\ uid' = [uid EXCEPT ![c] = arg[t]]
      BY <2>1 DEF AddClient
    <3>3. UNCHANGED <<told, deaf>>
      BY <2>1 DEF AddClient
    <3>4. Promise!Join(c, arg[t])
      BY <3>2, <3>3 DEF Promise!Join
    <3> QED
      BY <3>1, <3>2, <3>4 DEF Promise!Next
  <2>2. ASSUME NEW t \in Conns, Request(t)
        PROVE  UNCHANGED <<uid, told, deaf>>
    BY <2>2 DEF Request, Accept, LoginFind, Lookup, MallocFails, ChangeName,
                Disconnect, heap
  <2>3. ASSUME NEW t \in Conns, NotifyLock(t) \/ NotifyDone(t) \/ UseTarget(t)
        PROVE  UNCHANGED <<uid, told, deaf>>
    BY <2>3 DEF NotifyLock, NotifyDone, UseTarget, heap
  <2>4. ASSUME NEW c \in Cells, PeerGone(c)
        PROVE  Promise!Next
    <3>1. Promise!Lose(c)
      BY <2>4 DEF PeerGone, Promise!Lose
    <3> QED
      BY <3>1 DEF Promise!Next
  <2>5. CASE (\E c \in Cells : Fill(c) \/ Drain(c)) \/ UNCHANGED vars
    BY <2>5 DEF Fill, Drain, vars, heap
  <2> QED
    BY <2>1, <2>2, <2>3, <2>4, <2>5, NotifyNextTells, DisconnectClientLeaves
       DEF Next, Proceed
<1> QED
  BY <1>1, <1>2, Inductive, PTL DEF Spec, ImplementsPresence, Promise!Spec

=============================================================================
