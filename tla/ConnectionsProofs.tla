--------------------------- MODULE ConnectionsProofs ---------------------------
(***************************************************************************)
(* Proofs about Connections, for any clients, uids and descriptors, any    *)
(* number of attempts and any parameters of the key agreement: who may     *)
(* lose a descriptor, who may be written what was meant for another, what  *)
(* stays open, who is listed, and when a key agreement goes wrong.         *)
(***************************************************************************)
EXTENDS Connections, FiniteSetTheorems, WellFoundedInduction, TLAPS

\* What the place of a handler says of its numbers and of its login.
PlaceOf(t) ==
  /\ handler[t] # "none" => sockfd[t] # None
  /\ handler[t] \in {"none", "handshake"} => msgsock[t] = None
  /\ handler[t] \in {"connectback", "addclient"} => serving[t] # None /\ attempt[t] > 0
  /\ handler[t] = "addclient" => msgsock[t] # None
  /\ program[t] = "waiting" => attempt[t] > 0

\* A control connection is open only as the sockfd of its own handler.
ControlOf(t) ==
  \A f \in Fds : descr[f] = Control(t) => f = sockfd[t] /\ HoldsControl(t)

\* When a handler has a record.
RecordOf(t) ==
  /\ t \in Listed => handler[t] \in {"announce", "announcing", "accepted", "read", "goodbye",
                                     "parting", "closepush", "remove"}
  /\ handler[t] \in {"announce", "announcing", "accepted", "goodbye", "parting", "remove"}
       => t \in Listed

\* A login being served belongs to a program that waits for its answer, or whose
\* connection is lost for good; so no program with a record logs in again.
LoginOf(t) ==
  Connected(t) /\ program[t] # "gone" =>
    /\ handler[t] \in {"connectback", "addclient", "announce", "announcing", "accepted",
                       "refused"}
         => program[t] = "waiting" /\ reply[t] = "none"
    /\ t \in Listed /\ handler[t] = "read"
         => \/ program[t] = "main"
            \/ program[t] = "waiting" /\ reply[t] = "accepted"

ThreadInv(t) == PlaceOf(t) /\ ControlOf(t) /\ RecordOf(t) /\ LoginOf(t)

ThreadsInv == TypeOK /\ \A t \in Clients : ThreadInv(t)

Broadcasting(t) == handler[t] \in {"announcing", "parting"}

\* The mutex is held by the one handler that is in a broadcast, and no record it
\* has still to write to goes away meanwhile.
MutexInv ==
  /\ \A t \in Clients : Broadcasting(t) <=> holder = t
  /\ holder = None => telling = {}
  /\ telling \subseteq Listed

BaseInv == ThreadsInv /\ MutexInv

-----------------------------------------------------------------------------
\* A set of numbers has a least one.
LEMMA LeastOf ==
  ASSUME NEW S, S \subseteq Nat, S # {}
  PROVE  \E n \in S : \A m \in S : n <= m
<1>1. PICK n \in S : \A m \in S : ~(<<m, n>> \in OpToRel(<, Nat))
  BY NatLessThanWellFounded, WFMin
<1>2. ASSUME NEW m \in S
      PROVE  n <= m
  <2>1. n \in Nat /\ m \in Nat
    BY <1>1, <1>2
  <2>2. <<m, n>> \in Nat \X Nat /\ ~(<<m, n>> \in {ss \in Nat \X Nat : ss[1] < ss[2]})
    BY <1>1, <2>1 DEF OpToRel
  <2>3. ~(m < n)
    BY <2>2
  <2> QED
    BY <2>1, <2>3
<1> QED
  BY <1>1, <1>2

\* The kernel always finds a lowest free number.
LEMMA LowestIsFree ==
  ASSUME FreeFds # {}
  PROVE  LowestFd \in Fds /\ descr[LowestFd] = None
<1>1. FreeFds \subseteq Nat
  BY ConnectionsAssumption DEF FreeFds
<1>2. LowestFd \in FreeFds
  BY <1>1, LeastOf DEF LowestFd
<1> QED
  BY <1>2 DEF FreeFds

LEMMA SocketFacts ==
  ASSUME NEW s \in Sockets
  PROVE  /\ s # None /\ s.client \in Clients /\ s.end \in {"control", "push", "unserved"}
         /\ s.end = "control" <=> s = Control(s.client)
         /\ s.end = "unserved" <=> s = Unserved(s.client)
         /\ s.end = "push" => s.attempt \in 1 .. MaxAttempts
<1>1. s # None
  BY NoneIsNothing
<1>2. CASE \E t \in Clients : s = Control(t)
  BY <1>1, <1>2 DEF Control, Unserved
<1>3. CASE \E t \in Clients, n \in 1 .. MaxAttempts : s = Push(t, n)
  BY <1>1, <1>3 DEF Push, Control, Unserved
<1>4. CASE \E t \in Clients : s = Unserved(t)
  BY <1>1, <1>4 DEF Control, Unserved
<1> QED
  BY <1>2, <1>3, <1>4 DEF Sockets

LEMMA CloseFacts ==
  ASSUME TypeOK, NEW t \in Clients, NEW fd \in Fds, NEW end, Close(t, fd, end)
  PROVE  /\ descr' \in [Fds -> Sockets \cup {None}]
         /\ \A f \in Fds : descr'[f] = IF f = fd THEN None ELSE descr[f]
         /\ stray \subseteq stray' /\ stray' \subseteq Clients
<1>1. descr[fd] # None => descr[fd].client \in Clients
  BY SocketFacts DEF TypeOK
<1> QED
  BY <1>1 DEF Close, TypeOK, Names

LEMMA WriteFacts ==
  ASSUME TypeOK, NEW S \in SUBSET Listed, WriteTo(S)
  PROVE  /\ crossed \subseteq crossed' /\ crossed' \subseteq Clients
         /\ down' \in BOOLEAN
<1>1. \A u \in S : client_info[u] \in Records
  BY DEF Listed, TypeOK
<1>2. \A u \in S : client_info[u].msgsock \in Fds
  BY <1>1 DEF Records
<1>3. \A u \in S : descr[client_info[u].msgsock] # None
                     => descr[client_info[u].msgsock].client \in Clients
  BY <1>2, SocketFacts DEF TypeOK
<1>4. down' \in BOOLEAN
  <2>1. \E B \in {BOOLEAN, {FALSE}} : down' \in B
    BY DEF WriteTo
  <2> QED
    BY <2>1
<1>5. crossed' = crossed \cup
        {descr[client_info[u].msgsock].client :
           u \in {v \in S : /\ descr[client_info[v].msgsock] # None
                          /\ ~Names(client_info[v].msgsock, v, "push")}}
  BY DEF WriteTo
<1>6. crossed \subseteq Clients
  BY DEF TypeOK
<1> QED
  BY <1>3, <1>4, <1>5, <1>6

\* A connection that is lost stays lost, but for a handler that starts anew.
LEMMA LostStaysLost ==
  ASSUME NEW t \in Clients, Connected(t)', down => down', crossed \subseteq crossed',
         \A f \in Fds : descr'[f] = Control(t) => descr[f] = Control(t)
  PROVE  Connected(t)
BY DEF Connected

LEMMA ControlNames ==
  ASSUME TypeOK, NEW t \in Clients, NEW f \in Fds
  PROVE  Names(f, t, "control") <=> descr[f] = Control(t)
<1>1. f # None /\ Control(t) # None
  BY ConnectionsAssumption, NoneIsNothing DEF Sockets
<1>2. CASE descr[f] = None
  BY <1>1, <1>2 DEF Names
<1>3. CASE descr[f] \in Sockets
  BY <1>1, <1>3, SocketFacts DEF Names, Control
<1> QED
  BY <1>2, <1>3 DEF TypeOK

\* A step of one client, its handler or its program, touches nobody else's part.
LEMMA OneMoves ==
  ASSUME BaseInv, NEW t \in Clients, TypeOK', ThreadInv(t)',
         \A c \in Clients \ {t} :
           UNCHANGED <<handler[c], sockfd[c], msgsock[c], client_info[c], serving[c],
                       program[c], attempt[c], reply[c]>>,
         down => down', crossed \subseteq crossed',
         \A f \in Fds, c \in Clients \ {t} : descr'[f] = Control(c) => descr[f] = Control(c)
  PROVE  ThreadsInv'
<1> SUFFICES ASSUME NEW c \in Clients \ {t}
             PROVE  ThreadInv(c)'
  BY DEF ThreadsInv
<1>1. ThreadInv(c)
  BY DEF BaseInv, ThreadsInv
<1>2. PlaceOf(c)' /\ RecordOf(c)' /\ (c \in Listed <=> c \in Listed')
  BY <1>1 DEF ThreadInv, PlaceOf, RecordOf, Listed
<1>3. ControlOf(c)'
  BY <1>1 DEF ThreadInv, ControlOf, HoldsControl
<1>4. LoginOf(c)'
  <2>1. Connected(c)' => Connected(c)
    BY LostStaysLost
  <2> QED
    BY <1>1, <1>2, <2>1 DEF ThreadInv, LoginOf
<1> QED
  BY <1>2, <1>3, <1>4 DEF ThreadInv

-----------------------------------------------------------------------------
\* The programs leave the handlers alone.
LEMMA ProgramSteps ==
  ASSUME BaseInv, NEW t \in Clients,
         \/ Connect(t) \/ ReadReply(t) \/ ReplyLost(t) \/ Exit(t)
         \/ \E u \in Uids : SendLogin(t, u)
  PROVE  ThreadsInv'
<1>1. UNCHANGED <<descr, stray, crossed, accepting, down, holder, telling, handler, sockfd, msgsock, client_info, key>>
  BY DEF Connect, ReadReply, ReplyLost, Exit, SendLogin, kernel, server, threads
<1>2. TypeOK'
  <2>1. CASE Connect(t)
    BY <1>1, <2>1 DEF BaseInv, ThreadsInv, TypeOK, Connect, threads, Programs
  <2>2. CASE ReadReply(t)
    BY <1>1, <2>2 DEF BaseInv, ThreadsInv, TypeOK, ReadReply, threads, Programs
  <2>3. CASE ReplyLost(t)
    BY <1>1, <2>3 DEF BaseInv, ThreadsInv, TypeOK, ReplyLost, threads, Programs
  <2>4. CASE Exit(t)
    BY <1>1, <2>4 DEF BaseInv, ThreadsInv, TypeOK, Exit, threads, Programs
  <2>5. CASE \E u \in Uids : SendLogin(t, u)
    <3>1. /\ program' \in [Clients -> Programs] /\ serving' \in [Clients -> Uids \cup {None}]
          /\ reply' = reply
      BY <2>5 DEF BaseInv, ThreadsInv, TypeOK, SendLogin, Programs
    <3>2. /\ attempt' \in [Clients -> 0 .. MaxAttempts]
          /\ receivers' \in [Clients -> [1 .. MaxAttempts -> {"none", "accept", "read"}]]
      BY <2>5, ConnectionsAssumption DEF BaseInv, ThreadsInv, TypeOK, SendLogin
    <3> QED
      BY <1>1, <3>1, <3>2 DEF BaseInv, ThreadsInv, TypeOK
  <2> QED
    BY <2>1, <2>2, <2>3, <2>4, <2>5
<1>3. \A c \in Clients \ {t} : UNCHANGED <<serving[c], program[c], attempt[c], reply[c]>>
  BY DEF BaseInv, ThreadsInv, TypeOK, Connect, ReadReply, ReplyLost, Exit, SendLogin, threads
<1>4. ThreadInv(t)
  BY DEF BaseInv, ThreadsInv
<1>5. PlaceOf(t)'
  BY <1>1, <1>4, ConnectionsAssumption
  DEF BaseInv, ThreadsInv, TypeOK, ThreadInv, PlaceOf, Connect, ReadReply, ReplyLost, Exit, SendLogin, threads
<1>6. ControlOf(t)' /\ RecordOf(t)' /\ (t \in Listed <=> t \in Listed') /\ (Connected(t)' <=> Connected(t))
  BY <1>1, <1>4 DEF ThreadInv, ControlOf, RecordOf, HoldsControl, Listed, Connected
<1>7. LoginOf(t)'
  <2>1. CASE Connect(t)
    BY <1>1, <1>4, <1>6, <2>1 DEF BaseInv, ThreadsInv, TypeOK, ThreadInv, LoginOf, Connect
  <2>2. CASE ReadReply(t)
    BY <1>1, <1>4, <1>6, <2>2 DEF BaseInv, ThreadsInv, TypeOK, ThreadInv, LoginOf, ReadReply, AnswerThere
  <2>3. CASE ReplyLost(t)
    BY <1>6, <2>3 DEF LoginOf, ReplyLost, AnswerLost
  <2>4. CASE Exit(t)
    BY <2>4 DEF BaseInv, ThreadsInv, TypeOK, LoginOf, Exit
  <2>5. CASE \E u \in Uids : SendLogin(t, u)
    BY <1>1, <1>4, <1>6, <2>5 DEF BaseInv, ThreadsInv, TypeOK, ThreadInv, LoginOf, SendLogin
  <2> QED
    BY <2>1, <2>2, <2>3, <2>4, <2>5
<1>8. ThreadInv(t)'
  BY <1>5, <1>6, <1>7 DEF ThreadInv
<1> QED
  BY <1>1, <1>2, <1>3, <1>8, OneMoves

LEMMA RestartStep ==
  ASSUME BaseInv, NEW t \in Clients, Restart(t)
  PROVE  ThreadsInv'
<1>1. TypeOK'
  BY DEF BaseInv, ThreadsInv, TypeOK, Restart, kernel, server, Programs, Handlers
<1>2. ThreadInv(t)
  BY DEF BaseInv, ThreadsInv
<1>3. ThreadInv(t)'
  BY <1>2 DEF BaseInv, ThreadsInv, TypeOK, ThreadInv, PlaceOf, ControlOf, HoldsControl, RecordOf, Listed,
              LoginOf, Restart, kernel
<1>4. /\ UNCHANGED <<down, crossed, descr>>
      /\ \A c \in Clients \ {t} :
           UNCHANGED <<handler[c], sockfd[c], msgsock[c], client_info[c], serving[c],
                       program[c], attempt[c], reply[c]>>
  BY DEF BaseInv, ThreadsInv, TypeOK, Restart, kernel, server
<1> QED
  BY <1>1, <1>3, <1>4, OneMoves

-----------------------------------------------------------------------------
\* The handlers.

\* Steps that move a handler and write, but neither open nor close a descriptor.
Quiet(t) ==
  \/ ReadLogin(t) \/ Announce(t) \/ Goodbye(t) \/ Tell(t) \/ Told(t)
  \/ \E u \in Clients : Relay(t, u)

LEMMA QuietFacts ==
  ASSUME BaseInv, NEW t \in Clients, Quiet(t)
  PROVE  /\ UNCHANGED <<descr, stray, accepting, sockfd, msgsock, client_info, serving, key,
                        program, attempt, receivers, reply>>
         /\ ~down
         /\ crossed \subseteq crossed' /\ crossed' \subseteq Clients
         /\ down' \in BOOLEAN
         /\ handler' \in [Clients -> Handlers]
         /\ \A c \in Clients \ {t} : handler'[c] = handler[c]
         /\ holder' \in Clients \cup {None} /\ telling' \subseteq Clients
         /\ handler[t] = "read" => handler'[t] \in {"read", "connectback", "refused"}
         /\ handler[t] = "announce" => handler'[t] = "announcing"
         /\ handler[t] = "goodbye" => handler'[t] = "parting"
         /\ handler[t] = "announcing" => handler'[t] \in {"announcing", "accepted"}
         /\ handler[t] = "parting" => handler'[t] \in {"parting", "closepush"}
         /\ handler[t] \in {"read", "announce", "goodbye", "announcing", "parting"}
<1> USE DEF Quiet
<1>1. /\ UNCHANGED <<descr, stray, accepting, sockfd, msgsock, client_info, serving, key,
                     program, attempt, receivers, reply>>
      /\ ~down
  BY DEF ReadLogin, Announce, Goodbye, Broadcast, Tell, Told, Relay, kernel, server, threads,
         users, At
<1>2. /\ crossed \subseteq crossed' /\ crossed' \subseteq Clients
      /\ down' \in BOOLEAN
  <2>1. CASE ReadLogin(t) \/ Announce(t) \/ Goodbye(t) \/ Told(t)
    BY <2>1 DEF BaseInv, ThreadsInv, TypeOK, ReadLogin, Announce, Goodbye, Broadcast, Told, kernel,
                server
  <2>2. CASE Tell(t)
    <3>1. PICK u \in telling : WriteTo({u})
      BY <2>2 DEF Tell
    <3>2. {u} \in SUBSET Listed
      BY <3>1 DEF BaseInv, MutexInv
    <3> QED
      BY <3>1, <3>2, WriteFacts DEF BaseInv, ThreadsInv
  <2>3. CASE \E u \in Clients : Relay(t, u)
    BY <2>3, WriteFacts DEF BaseInv, ThreadsInv, Relay
  <2> QED
    BY <2>1, <2>2, <2>3
<1>3. /\ handler' \in [Clients -> Handlers]
      /\ \A c \in Clients \ {t} : handler'[c] = handler[c]
  BY DEF BaseInv, ThreadsInv, TypeOK, ReadLogin, Announce, Goodbye, Tell, Told, Relay, threads,
         Goto, Handlers
<1>4. holder' \in Clients \cup {None} /\ telling' \subseteq Clients
  BY DEF BaseInv, ThreadsInv, TypeOK, ReadLogin, Announce, Goodbye, Broadcast, Tell, Told, Relay,
         server, Listed
<1>5. /\ handler[t] = "read" => handler'[t] \in {"read", "connectback", "refused"}
      /\ handler[t] = "announce" => handler'[t] = "announcing"
      /\ handler[t] = "goodbye" => handler'[t] = "parting"
      /\ handler[t] = "announcing" => handler'[t] \in {"announcing", "accepted"}
      /\ handler[t] = "parting" => handler'[t] \in {"parting", "closepush"}
      /\ handler[t] \in {"read", "announce", "goodbye", "announcing", "parting"}
  BY DEF BaseInv, ThreadsInv, MutexInv, Broadcasting, TypeOK, ReadLogin, Announce, Goodbye, Tell,
         Told, Relay, threads, Goto, At
<1> QED
  BY <1>1, <1>2, <1>3, <1>4, <1>5

LEMMA QuietSteps ==
  ASSUME BaseInv, NEW t \in Clients, Quiet(t)
  PROVE  ThreadsInv'
<1>1. /\ UNCHANGED <<descr, stray, accepting, sockfd, msgsock, client_info, serving, key,
                     program, attempt, receivers, reply>>
      /\ crossed \subseteq crossed' /\ crossed' \subseteq Clients
      /\ down' \in BOOLEAN /\ ~down
      /\ holder' \in Clients \cup {None} /\ telling' \subseteq Clients
  BY QuietFacts
<1>3. /\ handler' \in [Clients -> Handlers]
      /\ \A c \in Clients \ {t} : handler'[c] = handler[c]
  BY QuietFacts
<1>4. TypeOK'
  BY <1>1, <1>3 DEF BaseInv, ThreadsInv, TypeOK
<1>5. ThreadInv(t) /\ handler[t] \in Handlers /\ (t \in Listed <=> t \in Listed')
  BY <1>1 DEF BaseInv, ThreadsInv, TypeOK, Listed
<1>6. /\ handler[t] = "read" => handler'[t] \in {"read", "connectback", "refused"}
      /\ handler[t] = "announce" => handler'[t] = "announcing"
      /\ handler[t] = "goodbye" => handler'[t] = "parting"
      /\ handler[t] = "announcing" => handler'[t] \in {"announcing", "accepted"}
      /\ handler[t] = "parting" => handler'[t] \in {"parting", "closepush"}
      /\ handler[t] \in {"read", "announce", "goodbye", "announcing", "parting"}
  BY QuietFacts
<1>7. Connected(t)' => Connected(t)
  BY <1>1 DEF Connected
<1>8. handler'[t] \in {"connectback", "refused"} =>
        /\ Connected(t) /\ program[t] = "waiting" /\ reply[t] = "none" /\ serving[t] # None
  <2> SUFFICES ASSUME ReadLogin(t)
               PROVE  Connected(t) /\ program[t] = "waiting" /\ reply[t] = "none" /\ serving[t] # None
    BY <1>6 DEF Quiet, Announce, Goodbye, Tell, Told, Relay, At, Goto, threads, BaseInv, ThreadsInv,
                MutexInv, Broadcasting, TypeOK
  <2>1. sockfd[t] \in Fds
    BY <1>5 DEF BaseInv, ThreadsInv, TypeOK, ReadLogin, LoginThere, Names
  <2> QED
    BY <2>1, ControlNames DEF BaseInv, ThreadsInv, ReadLogin, LoginThere, Connected, At
<1>9. ThreadInv(t)'
  <2>1. PlaceOf(t)'
    BY <1>1, <1>5, <1>6, <1>8 DEF ThreadInv, PlaceOf
  <2>2. ControlOf(t)'
    BY <1>1, <1>5, <1>6 DEF ThreadInv, ControlOf, HoldsControl
  <2>3. RecordOf(t)'
    BY <1>5, <1>6, <1>8 DEF ThreadInv, RecordOf, LoginOf
  <2>4. LoginOf(t)'
    BY <1>1, <1>5, <1>6, <1>7, <1>8 DEF ThreadInv, LoginOf
  <2> QED
    BY <2>1, <2>2, <2>3, <2>4 DEF ThreadInv
<1> QED
  BY <1>1, <1>3, <1>4, <1>9, OneMoves

LEMMA ControlDiffers ==
  ASSUME NEW c \in Clients, NEW t \in Clients
  PROVE  /\ Control(c) # None /\ (c # t => Control(c) # Control(t))
         /\ Control(c) \in Sockets
         /\ \A n : Control(c) # Push(t, n)
         /\ Unserved(c) \in Sockets /\ Unserved(c) # None
         /\ Control(c) # Unserved(t) /\ \A n : Unserved(c) # Push(t, n)
         /\ \A n \in 1 .. MaxAttempts : Push(c, n) \in Sockets /\ Push(c, n) # None
BY NoneIsNothing DEF Sockets, Control, Push, Unserved

LEMMA AcceptStep ==
  ASSUME BaseInv, NEW t \in Clients, Accept(t)
  PROVE  ThreadsInv'
<1>1. ThreadInv(t) /\ handler[t] = "none" /\ UNCHANGED <<down, crossed>>
  BY DEF BaseInv, ThreadsInv, Accept
<1>2. CASE accepting' = FALSE /\ UNCHANGED <<descr, handler, sockfd>>
  <2>1. UNCHANGED <<descr, handler, stray, crossed, down, holder, telling, sockfd, msgsock,
                    client_info, serving, key, program, attempt, receivers, reply>>
        /\ accepting' = FALSE
    BY <1>2 DEF Accept, users
  <2>2. TypeOK'
    BY <2>1 DEF BaseInv, ThreadsInv, TypeOK
  <2>3. ThreadInv(t)'
    BY <1>1, <2>1 DEF ThreadInv, PlaceOf, ControlOf, HoldsControl, RecordOf, Listed, LoginOf,
                      Connected
  <2> QED
    BY <2>1, <2>2, <2>3, OneMoves
<1>4. CASE FreeFds # {} /\ handler'[t] = "ended"
  <2>1. LowestFd \in Fds /\ descr[LowestFd] = None
    BY <1>4, LowestIsFree
  <2>2. /\ sockfd' = [sockfd EXCEPT ![t] = LowestFd]
        /\ descr' = [descr EXCEPT ![LowestFd] = Unserved(t)]
        /\ handler' = [handler EXCEPT ![t] = "ended"]
        /\ UNCHANGED <<accepting, holder, telling, stray, crossed, down, msgsock, client_info, serving,
                       key, program, attempt, receivers, reply>>
    BY <1>1, <1>4 DEF BaseInv, ThreadsInv, TypeOK, Accept, Goto, users
  <2>3. TypeOK'
    BY <2>1, <2>2, ControlDiffers DEF BaseInv, ThreadsInv, TypeOK, Handlers
  <2>4. handler'[t] = "ended" /\ sockfd'[t] = LowestFd /\ LowestFd # None
    BY <2>1, <2>2, ConnectionsAssumption DEF BaseInv, ThreadsInv, TypeOK
  <2>5. PlaceOf(t)' /\ RecordOf(t)' /\ LoginOf(t)'
    BY <1>1, <2>2, <2>4 DEF ThreadInv, PlaceOf, RecordOf, Listed, LoginOf
  <2>6. ControlOf(t)'
    BY <1>1, <2>1, <2>2, <2>4, ControlDiffers
    DEF BaseInv, ThreadsInv, TypeOK, ThreadInv, ControlOf, HoldsControl
  <2>7. \A f \in Fds, c \in Clients \ {t} : descr'[f] = Control(c) => descr[f] = Control(c)
    BY <2>1, <2>2, ControlDiffers DEF BaseInv, ThreadsInv, TypeOK
  <2>8. \A c \in Clients \ {t} : UNCHANGED <<handler[c], sockfd[c]>>
    BY <2>2 DEF BaseInv, ThreadsInv, TypeOK
  <2> QED
    BY <1>1, <2>2, <2>3, <2>5, <2>6, <2>7, <2>8, OneMoves DEF ThreadInv
<1>3. CASE FreeFds # {} /\ handler'[t] = "handshake"
  <2>1. LowestFd \in Fds /\ descr[LowestFd] = None
    BY <1>3, LowestIsFree
  <2>2. /\ sockfd' = [sockfd EXCEPT ![t] = LowestFd]
        /\ descr' = [descr EXCEPT ![LowestFd] = Control(t)]
        /\ handler' = [handler EXCEPT ![t] = "handshake"]
        /\ UNCHANGED <<accepting, holder, telling, stray, crossed, down, msgsock, client_info, serving, key,
                       program, attempt, receivers, reply>>
    BY <1>1, <1>3 DEF BaseInv, ThreadsInv, TypeOK, Accept, Goto, users
  <2>3. TypeOK'
    BY <2>1, <2>2, ControlDiffers DEF BaseInv, ThreadsInv, TypeOK, Handlers
  <2>4. handler'[t] = "handshake" /\ sockfd'[t] = LowestFd /\ LowestFd # None
    BY <2>1, <2>2, ConnectionsAssumption DEF BaseInv, ThreadsInv, TypeOK
  <2>5. PlaceOf(t)' /\ RecordOf(t)' /\ LoginOf(t)'
    BY <1>1, <2>2, <2>4 DEF ThreadInv, PlaceOf, RecordOf, Listed, LoginOf
  <2>6. ControlOf(t)'
    BY <1>1, <2>1, <2>2, <2>4 DEF BaseInv, ThreadsInv, TypeOK, ThreadInv, ControlOf, HoldsControl
  <2>7. \A f \in Fds, c \in Clients \ {t} : descr'[f] = Control(c) => descr[f] = Control(c)
    BY <2>1, <2>2, ControlDiffers DEF BaseInv, ThreadsInv, TypeOK
  <2>8. \A c \in Clients \ {t} : UNCHANGED <<handler[c], sockfd[c]>>
    BY <2>2 DEF BaseInv, ThreadsInv, TypeOK
  <2> QED
    BY <1>1, <2>2, <2>3, <2>5, <2>6, <2>7, <2>8, OneMoves DEF ThreadInv
<1> QED
  BY <1>2, <1>3, <1>4 DEF BaseInv, ThreadsInv, TypeOK, Accept, Goto

LEMMA ConnectBackStep ==
  ASSUME BaseInv, NEW t \in Clients, ConnectBack(t)
  PROVE  ThreadsInv'
<1>1. /\ ThreadInv(t) /\ handler[t] = "connectback"
      /\ UNCHANGED <<stray, crossed, accepting, down, holder, telling, sockfd, client_info, serving, key, program,
                     attempt, reply>>
  BY DEF BaseInv, ThreadsInv, ConnectBack, At, server
<1>2. attempt[t] \in 1 .. MaxAttempts /\ serving[t] # None /\ sockfd[t] # None
  BY <1>1, ConnectionsAssumption DEF BaseInv, ThreadsInv, TypeOK, ThreadInv, PlaceOf
<1>3. /\ msgsock'[t] \in Fds \cup {None} /\ msgsock' = [msgsock EXCEPT ![t] = msgsock'[t]]
      /\ descr' \in [Fds -> Sockets \cup {None}]
      /\ \A f \in Fds : descr'[f] = descr[f] \/ descr'[f] = Push(t, attempt[t])
      /\ receivers' \in [Clients -> [1 .. MaxAttempts -> {"none", "accept", "read"}]]
      /\ handler' \in [Clients -> Handlers]
      /\ \A c \in Clients \ {t} : handler'[c] = handler[c]
      /\ handler'[t] \in {"addclient", "refused"}
      /\ handler'[t] = "addclient" => msgsock'[t] # None
  <2>1. CASE FreeFds # {} /\ receivers[t][attempt[t]] = "accept"
    <3>1. LowestFd \in Fds /\ LowestFd # None
      BY <2>1, LowestIsFree, ConnectionsAssumption
    <3>2. /\ msgsock' = [msgsock EXCEPT ![t] = LowestFd]
          /\ descr' = [descr EXCEPT ![LowestFd] = Push(t, attempt[t])]
          /\ receivers' = [receivers EXCEPT ![t][attempt[t]] = "read"]
          /\ handler' = [handler EXCEPT ![t] = "addclient"]
      BY <2>1 DEF ConnectBack, Goto
    <3> QED
      BY <1>2, <3>1, <3>2, ControlDiffers DEF BaseInv, ThreadsInv, TypeOK, Handlers
  <2>2. CASE ~(FreeFds # {} /\ receivers[t][attempt[t]] = "accept")
    <3>1. /\ msgsock' = [msgsock EXCEPT ![t] = None]
          /\ handler' = [handler EXCEPT ![t] = "refused"]
          /\ UNCHANGED <<descr, receivers>>
      BY <2>2 DEF ConnectBack, Goto
    <3> QED
      BY <3>1 DEF BaseInv, ThreadsInv, TypeOK, Handlers
  <2> QED
    BY <2>1, <2>2
<1>4. TypeOK'
  BY <1>1, <1>3 DEF BaseInv, ThreadsInv, TypeOK
<1>5. \A f \in Fds, c \in Clients : descr'[f] = Control(c) => descr[f] = Control(c)
  BY <1>3, ControlDiffers
<1>6. PlaceOf(t)' /\ RecordOf(t)'
  BY <1>1, <1>2, <1>3 DEF ThreadInv, PlaceOf, RecordOf, Listed
<1>7. ControlOf(t)'
  BY <1>1, <1>3, <1>5 DEF ThreadInv, ControlOf, HoldsControl
<1>8. LoginOf(t)'
  BY <1>1, <1>3, <1>5, LostStaysLost DEF ThreadInv, LoginOf
<1>9. \A c \in Clients \ {t} : msgsock'[c] = msgsock[c]
  BY <1>3 DEF BaseInv, ThreadsInv, TypeOK
<1> QED
  BY <1>1, <1>3, <1>4, <1>5, <1>6, <1>7, <1>8, <1>9, OneMoves DEF ThreadInv

LEMMA AddClientStep ==
  ASSUME BaseInv, NEW t \in Clients, AddClient(t)
  PROVE  ThreadsInv'
<1>1. /\ ThreadInv(t) /\ handler[t] = "addclient" /\ t \notin Listed
      /\ UNCHANGED <<descr, stray, crossed, accepting, down, holder, telling, sockfd, msgsock, serving, key, program,
                     attempt, receivers, reply>>
  BY DEF BaseInv, ThreadsInv, AddClient, At, ThreadInv, RecordOf, kernel, server, users
<1>2. [uid |-> serving[t], msgsock |-> msgsock[t]] \in Records
  BY <1>1 DEF BaseInv, ThreadsInv, TypeOK, ThreadInv, PlaceOf, Records
<1>3. /\ handler' \in [Clients -> Handlers]
      /\ client_info' \in [Clients -> Records \cup {None}]
      /\ \A c \in Clients \ {t} : UNCHANGED <<handler[c], client_info[c]>>
      /\ \/ handler'[t] = "refused" /\ client_info'[t] = None
         \/ handler'[t] = "announce" /\ client_info'[t] # None
  <2>1. CASE \E u \in Listed : client_info[u].uid = serving[t]
    BY <1>1, <2>1 DEF BaseInv, ThreadsInv, TypeOK, AddClient, Goto, Handlers, Listed
  <2>2. CASE ~\E u \in Listed : client_info[u].uid = serving[t]
    <3>1. [uid |-> serving[t], msgsock |-> msgsock[t]] # None
      BY <1>2, NoneIsNothing
    <3>2. /\ client_info' = [client_info EXCEPT ![t] = [uid |-> serving[t], msgsock |-> msgsock[t]]]
          /\ handler' = [handler EXCEPT ![t] = "announce"]
      BY <2>2 DEF AddClient, Goto
    <3> QED
      BY <1>2, <3>1, <3>2 DEF BaseInv, ThreadsInv, TypeOK, Handlers
  <2> QED
    BY <2>1, <2>2
<1>4. TypeOK'
  BY <1>1, <1>3 DEF BaseInv, ThreadsInv, TypeOK
<1>5. PlaceOf(t)' /\ RecordOf(t)' /\ ControlOf(t)'
  BY <1>1, <1>3 DEF ThreadInv, PlaceOf, RecordOf, ControlOf, HoldsControl, Listed
<1>6. LoginOf(t)'
  BY <1>1, <1>3, LostStaysLost DEF ThreadInv, LoginOf
<1> QED
  BY <1>1, <1>3, <1>4, <1>5, <1>6, OneMoves DEF ThreadInv

\* Steps that close the handler's control connection.
LEMMA ControlClosed ==
  ASSUME BaseInv, NEW t \in Clients, handler[t] # "none",
         Close(t, sockfd[t], "control")
  PROVE  /\ sockfd[t] \in Fds
         /\ descr' \in [Fds -> Sockets \cup {None}] /\ stray' \subseteq Clients
         /\ \A f \in Fds, c \in Clients : descr'[f] = Control(c) => descr[f] = Control(c)
         /\ \A f \in Fds : descr'[f] # Control(t)
<1>1. sockfd[t] \in Fds /\ ControlOf(t)
  BY DEF BaseInv, ThreadsInv, TypeOK, ThreadInv, PlaceOf
<1> QED
  BY <1>1, CloseFacts, ControlDiffers DEF BaseInv, ThreadsInv, ControlOf

LEMMA HandshakeStep ==
  ASSUME BaseInv, NEW t \in Clients, Handshake(t)
  PROVE  ThreadsInv'
<1>1. /\ ThreadInv(t) /\ handler[t] = "handshake"
      /\ UNCHANGED <<crossed, accepting, down, holder, telling, sockfd, msgsock, client_info, serving, attempt,
                     receivers, reply>>
  BY DEF BaseInv, ThreadsInv, Handshake, At, server
<1>2. t \notin Listed /\ t \notin Listed'
  BY <1>1 DEF ThreadInv, RecordOf, Listed
<1>3. CASE program[t] = "connected" /\ UNCHANGED <<descr, stray>>
           /\ (\E outcome \in Outcomes : key' = [key EXCEPT ![t] = outcome])
           /\ program' = [program EXCEPT ![t] = "form"] /\ Goto(t, "read")
  <2>1. TypeOK'
    BY <1>1, <1>3 DEF BaseInv, ThreadsInv, TypeOK, Goto, Handlers, Programs
  <2>2. handler'[t] = "read" /\ program'[t] = "form"
    BY <1>3 DEF BaseInv, ThreadsInv, TypeOK, Goto
  <2>3. ThreadInv(t)'
    BY <1>1, <1>2, <1>3, <2>2 DEF ThreadInv, PlaceOf, ControlOf, HoldsControl, RecordOf, LoginOf
  <2>4. \A c \in Clients \ {t} : UNCHANGED <<handler[c], program[c]>>
    BY <1>3 DEF BaseInv, ThreadsInv, TypeOK, Goto
  <2> QED
    BY <1>1, <1>3, <2>1, <2>3, <2>4, OneMoves
<1>4. CASE Close(t, sockfd[t], "control") /\ program' = [program EXCEPT ![t] = "gone"]
           /\ Goto(t, "ended") /\ key' = key
  <2>1. /\ descr' \in [Fds -> Sockets \cup {None}] /\ stray' \subseteq Clients
        /\ \A f \in Fds, c \in Clients : descr'[f] = Control(c) => descr[f] = Control(c)
        /\ \A f \in Fds : descr'[f] # Control(t)
    BY <1>1, <1>4, ControlClosed
  <2>2. TypeOK'
    BY <1>1, <1>4, <2>1 DEF BaseInv, ThreadsInv, TypeOK, Goto, Handlers, Programs
  <2>3. handler'[t] = "ended" /\ program'[t] = "gone"
    BY <1>4 DEF BaseInv, ThreadsInv, TypeOK, Goto
  <2>4. ThreadInv(t)'
    BY <1>1, <1>2, <2>1, <2>3 DEF ThreadInv, PlaceOf, ControlOf, RecordOf, LoginOf
  <2>5. \A c \in Clients \ {t} : UNCHANGED <<handler[c], program[c]>>
    BY <1>4 DEF BaseInv, ThreadsInv, TypeOK, Goto
  <2> QED
    BY <1>1, <2>1, <2>2, <2>4, <2>5, OneMoves
<1> QED
  BY <1>3, <1>4 DEF Handshake

LEMMA DisconnectStep ==
  ASSUME BaseInv, NEW t \in Clients, Disconnect(t)
  PROVE  ThreadsInv'
<1>1. /\ ThreadInv(t) /\ handler[t] = "read" /\ Close(t, sockfd[t], "control")
      /\ handler' = [handler EXCEPT ![t] = IF client_info[t] = None THEN "closepush" ELSE "goodbye"]
      /\ UNCHANGED <<crossed, accepting, down, holder, telling, sockfd, msgsock, client_info, serving, key, program,
                     attempt, receivers, reply>>
  BY DEF BaseInv, ThreadsInv, Disconnect, At, Goto, server, users
<1>2. /\ descr' \in [Fds -> Sockets \cup {None}] /\ stray' \subseteq Clients
      /\ \A f \in Fds, c \in Clients : descr'[f] = Control(c) => descr[f] = Control(c)
      /\ \A f \in Fds : descr'[f] # Control(t)
  BY <1>1, ControlClosed
<1>3. TypeOK'
  BY <1>1, <1>2 DEF BaseInv, ThreadsInv, TypeOK, Handlers
<1>4. handler'[t] = IF t \in Listed THEN "goodbye" ELSE "closepush"
  BY <1>1 DEF BaseInv, ThreadsInv, TypeOK, Listed
<1>5. ThreadInv(t)'
  BY <1>1, <1>2, <1>4 DEF ThreadInv, PlaceOf, ControlOf, RecordOf, LoginOf, Listed
<1>6. \A c \in Clients \ {t} : handler'[c] = handler[c]
  BY <1>1 DEF BaseInv, ThreadsInv, TypeOK
<1> QED
  BY <1>1, <1>2, <1>3, <1>5, <1>6, OneMoves

LEMMA AnswerStep ==
  ASSUME BaseInv, NEW t \in Clients, Answer(t)
  PROVE  ThreadsInv'
<1>1. /\ ThreadInv(t) /\ handler[t] \in {"accepted", "refused"} /\ ~down
      /\ handler[t] = "accepted" <=> t \in Listed
      /\ serving' = [serving EXCEPT ![t] = None]
      /\ UNCHANGED <<accepting, holder, telling, sockfd, msgsock, client_info, key, program,
                     attempt, receivers>>
  BY DEF BaseInv, ThreadsInv, Answer, At, ThreadInv, RecordOf
<1>2. sockfd[t] \in Fds
  BY <1>1 DEF BaseInv, ThreadsInv, TypeOK, ThreadInv, PlaceOf
<1>3. /\ t \in Listed <=> t \in Listed'
      /\ \A c \in Clients \ {t} : serving'[c] = serving[c]
      /\ serving' \in [Clients -> Uids \cup {None}]
  BY <1>1 DEF BaseInv, ThreadsInv, TypeOK, Listed
<1>4. CASE /\ Names(sockfd[t], t, "control")
           /\ reply' = [reply EXCEPT ![t] = IF Alive(t) THEN handler[t] ELSE "none"]
           /\ Goto(t, "read")
           /\ UNCHANGED <<descr, stray, crossed, down>>
  <2>1. TypeOK'
    BY <1>1, <1>3, <1>4 DEF BaseInv, ThreadsInv, TypeOK, Goto, Handlers
  <2>2. handler'[t] = "read" /\ reply'[t] = IF Alive(t) THEN handler[t] ELSE "none"
    BY <1>4 DEF BaseInv, ThreadsInv, TypeOK, Goto
  <2>3. PlaceOf(t)' /\ ControlOf(t)' /\ RecordOf(t)'
    BY <1>1, <1>3, <1>4, <2>2 DEF ThreadInv, PlaceOf, ControlOf, HoldsControl, RecordOf
  <2>4. LoginOf(t)'
    BY <1>1, <1>3, <1>4, <2>2 DEF ThreadInv, LoginOf, Connected, Alive
  <2>5. \A c \in Clients \ {t} : UNCHANGED <<handler[c], reply[c]>>
    BY <1>4 DEF BaseInv, ThreadsInv, TypeOK, Goto
  <2> QED
    BY <1>1, <1>3, <1>4, <2>1, <2>3, <2>4, <2>5, OneMoves DEF ThreadInv
<1>5. CASE /\ descr[sockfd[t]] # None /\ ~Names(sockfd[t], t, "control")
           /\ crossed' = crossed \cup {descr[sockfd[t]].client}
           /\ Goto(t, "read")
           /\ UNCHANGED <<descr, stray, down, reply>>
  <2>1. crossed' \subseteq Clients
    BY <1>2, <1>5, SocketFacts DEF BaseInv, ThreadsInv, TypeOK
  <2>2. TypeOK'
    BY <1>1, <1>3, <1>5, <2>1 DEF BaseInv, ThreadsInv, TypeOK, Goto, Handlers
  <2>3. handler'[t] = "read"
    BY <1>5 DEF BaseInv, ThreadsInv, TypeOK, Goto
  <2>4. PlaceOf(t)' /\ ControlOf(t)' /\ RecordOf(t)'
    BY <1>1, <1>3, <1>5, <2>3 DEF ThreadInv, PlaceOf, ControlOf, HoldsControl, RecordOf
  <2>5. ~Connected(t)'
    BY <1>1, <1>2, <1>5, ControlNames DEF BaseInv, ThreadsInv, ThreadInv, ControlOf, Connected
  <2>6. \A c \in Clients \ {t} : handler'[c] = handler[c]
    BY <1>5 DEF BaseInv, ThreadsInv, TypeOK, Goto
  <2> QED
    BY <1>1, <1>3, <1>5, <2>2, <2>4, <2>5, <2>6, OneMoves DEF ThreadInv, LoginOf
<1>6. CASE /\ Close(t, sockfd[t], "control")
           /\ down' \in IF Signals /\ ~Alive(t) THEN BOOLEAN ELSE {FALSE}
           /\ Goto(t, IF client_info[t] = None THEN "closepush" ELSE "goodbye")
           /\ UNCHANGED <<crossed, reply>>
  <2>1. /\ descr' \in [Fds -> Sockets \cup {None}] /\ stray' \subseteq Clients
        /\ \A f \in Fds, c \in Clients : descr'[f] = Control(c) => descr[f] = Control(c)
        /\ \A f \in Fds : descr'[f] # Control(t)
    BY <1>1, <1>6, ControlClosed
  <2>2. down' \in BOOLEAN
    BY <1>6
  <2>3. TypeOK'
    BY <1>1, <1>3, <1>6, <2>1, <2>2 DEF BaseInv, ThreadsInv, TypeOK, Goto, Handlers
  <2>4. handler'[t] = IF t \in Listed THEN "goodbye" ELSE "closepush"
    BY <1>6 DEF BaseInv, ThreadsInv, TypeOK, Goto, Listed
  <2>5. ThreadInv(t)'
    BY <1>1, <1>3, <2>1, <2>4 DEF ThreadInv, PlaceOf, ControlOf, RecordOf, LoginOf
  <2>6. \A c \in Clients \ {t} : handler'[c] = handler[c]
    BY <1>6 DEF BaseInv, ThreadsInv, TypeOK, Goto
  <2> QED
    BY <1>1, <1>3, <1>6, <2>1, <2>3, <2>5, <2>6, OneMoves
<1> QED
  BY <1>4, <1>5, <1>6 DEF Answer

\* Steps that close the push connection; the second one frees the record.
LEMMA PushClosed ==
  ASSUME BaseInv, NEW t \in Clients, NEW fd \in Fds, Close(t, fd, "push")
  PROVE  /\ descr' \in [Fds -> Sockets \cup {None}] /\ stray' \subseteq Clients
         /\ \A f \in Fds, c \in Clients : descr'[f] = Control(c) => descr[f] = Control(c)
BY CloseFacts, ControlDiffers DEF BaseInv, ThreadsInv

LEMMA ClosePushStep ==
  ASSUME BaseInv, NEW t \in Clients, ClosePush(t)
  PROVE  ThreadsInv'
<1>1. /\ ThreadInv(t) /\ handler[t] = "closepush"
      /\ handler' = [handler EXCEPT ![t] = IF client_info[t] = None THEN "ended" ELSE "remove"]
      /\ UNCHANGED <<crossed, accepting, down, holder, telling, sockfd, msgsock, client_info, serving, key, program,
                     attempt, receivers, reply>>
  BY DEF BaseInv, ThreadsInv, ClosePush, At, Goto, server, users
<1>2. /\ descr' \in [Fds -> Sockets \cup {None}] /\ stray' \subseteq Clients
      /\ \A f \in Fds, c \in Clients : descr'[f] = Control(c) => descr[f] = Control(c)
  BY PushClosed DEF BaseInv, ThreadsInv, TypeOK, ClosePush
<1>3. TypeOK'
  BY <1>1, <1>2 DEF BaseInv, ThreadsInv, TypeOK, Handlers
<1>4. handler'[t] = IF t \in Listed THEN "remove" ELSE "ended"
  BY <1>1 DEF BaseInv, ThreadsInv, TypeOK, Listed
<1>5. ThreadInv(t)'
  BY <1>1, <1>2, <1>4 DEF ThreadInv, PlaceOf, ControlOf, HoldsControl, RecordOf, LoginOf, Listed
<1>6. \A c \in Clients \ {t} : handler'[c] = handler[c]
  BY <1>1 DEF BaseInv, ThreadsInv, TypeOK
<1> QED
  BY <1>1, <1>2, <1>3, <1>5, <1>6, OneMoves

LEMMA RemoveStep ==
  ASSUME BaseInv, NEW t \in Clients, Remove(t)
  PROVE  ThreadsInv'
<1>1. /\ ThreadInv(t) /\ handler[t] = "remove" /\ t \in Listed
      /\ Close(t, client_info[t].msgsock, "push")
      /\ client_info' = [client_info EXCEPT ![t] = None]
      /\ handler' = [handler EXCEPT ![t] = "ended"]
      /\ UNCHANGED <<crossed, accepting, down, holder, telling, sockfd, msgsock, serving, key, program, attempt,
                     receivers, reply>>
  BY DEF BaseInv, ThreadsInv, Remove, At, Goto, ThreadInv, RecordOf, server, users
<1>2. client_info[t].msgsock \in Fds
  BY <1>1 DEF BaseInv, ThreadsInv, TypeOK, Listed, Records
<1>3. /\ descr' \in [Fds -> Sockets \cup {None}] /\ stray' \subseteq Clients
      /\ \A f \in Fds, c \in Clients : descr'[f] = Control(c) => descr[f] = Control(c)
  BY <1>1, <1>2, PushClosed
<1>4. TypeOK'
  BY <1>1, <1>3 DEF BaseInv, ThreadsInv, TypeOK, Handlers
<1>5. handler'[t] = "ended" /\ client_info'[t] = None
  BY <1>1 DEF BaseInv, ThreadsInv, TypeOK
<1>6. ThreadInv(t)'
  BY <1>1, <1>3, <1>5 DEF ThreadInv, PlaceOf, ControlOf, HoldsControl, RecordOf, LoginOf, Listed
<1>7. \A c \in Clients \ {t} : UNCHANGED <<handler[c], client_info[c]>>
  BY <1>1 DEF BaseInv, ThreadsInv, TypeOK
<1> QED
  BY <1>1, <1>3, <1>4, <1>6, <1>7, OneMoves

\* A step that leaves the mutex alone.
LEMMA MutexFrame ==
  ASSUME BaseInv, NEW t \in Clients, UNCHANGED <<holder, telling>>,
         ~Broadcasting(t), ~Broadcasting(t)',
         \A c \in Clients \ {t} : UNCHANGED <<handler[c], client_info[c]>>,
         t \in Listed => t \in Listed' \/ holder = None
  PROVE  MutexInv'
<1>1. \A c \in Clients : Broadcasting(c)' <=> Broadcasting(c)
  BY DEF Broadcasting
<1>2. telling' \subseteq Listed'
  BY DEF BaseInv, MutexInv, Listed
<1> QED
  BY <1>1, <1>2 DEF BaseInv, MutexInv

LEMMA MutexStep ==
  ASSUME BaseInv, NEW t \in Clients,
         \/ HandlerStep(t) \/ ProgramReads(t)
         \/ Connect(t) \/ Exit(t) \/ Restart(t) \/ Accept(t)
         \/ \E u \in Uids : SendLogin(t, u)
         \/ \E u \in Clients : Relay(t, u)
  PROVE  MutexInv'
<1> USE DEF At, Goto, kernel, server, threads, users
<1>1. /\ handler \in [Clients -> Handlers] /\ client_info \in [Clients -> Records \cup {None}]
      /\ None \notin Clients /\ MutexInv
  BY ConnectionsAssumption DEF BaseInv, ThreadsInv, TypeOK
<1>2. CASE Announce(t) \/ Goodbye(t)
  BY <1>1, <1>2 DEF Announce, Goodbye, Broadcast, MutexInv, Broadcasting, Listed
<1>3. CASE Tell(t)
  BY <1>1, <1>3 DEF Tell, MutexInv, Broadcasting, Listed
<1>4. CASE Told(t)
  BY <1>1, <1>4 DEF Told, MutexInv, Broadcasting, Listed
<1>5. CASE \/ ProgramReads(t) \/ Connect(t) \/ Exit(t)
           \/ (\E u \in Uids : SendLogin(t, u)) \/ (\E u \in Clients : Relay(t, u))
  <2>1. UNCHANGED <<handler, client_info, holder, telling>>
    BY <1>5 DEF ProgramReads, ReadReply, ReplyLost, Connect, Exit, SendLogin, Relay
  <2> QED
    BY <1>1, <2>1 DEF MutexInv, Broadcasting, Listed
<1>6. CASE \/ Handshake(t) \/ ReadLogin(t) \/ ConnectBack(t) \/ Answer(t) \/ Disconnect(t)
           \/ ClosePush(t) \/ Restart(t) \/ Accept(t)
  <2>1. UNCHANGED <<client_info, holder, telling>>
    BY <1>6 DEF Handshake, ReadLogin, ConnectBack, Answer, Disconnect, ClosePush, Restart, Accept
  <2>2. /\ \A c \in Clients \ {t} : handler'[c] = handler[c]
        /\ ~Broadcasting(t) /\ ~Broadcasting(t)'
    BY <1>1, <1>6 DEF Handshake, ReadLogin, ConnectBack, Answer, Disconnect, ClosePush, Restart,
                      Accept, Broadcasting
  <2> QED
    BY <2>1, <2>2, MutexFrame DEF Listed
<1>7. CASE AddClient(t) \/ Remove(t)
  <2>1. UNCHANGED <<holder, telling>> /\ holder = None
    BY <1>7 DEF AddClient, Remove
  <2>2. /\ \A c \in Clients \ {t} : UNCHANGED <<handler[c], client_info[c]>>
        /\ ~Broadcasting(t) /\ ~Broadcasting(t)'
    BY <1>1, <1>7 DEF AddClient, Remove, Broadcasting
  <2> QED
    BY <2>1, <2>2, MutexFrame
<1> QED
  BY <1>2, <1>3, <1>4, <1>5, <1>6, <1>7 DEF HandlerStep

LEMMA BaseStep ==
  ASSUME BaseInv, [Next]_vars
  PROVE  BaseInv'
<1>1. CASE UNCHANGED vars
  BY <1>1 DEF vars, kernel, server, threads, users, BaseInv, ThreadsInv, MutexInv, Broadcasting,
              TypeOK, ThreadInv, PlaceOf, ControlOf,
              HoldsControl, RecordOf, Listed, LoginOf, Connected
<1>2. ASSUME NEW t \in Clients, HandlerStep(t)
      PROVE  BaseInv'
  BY <1>2, HandshakeStep, QuietSteps, ConnectBackStep, AddClientStep, AnswerStep, DisconnectStep,
     ClosePushStep, RemoveStep, MutexStep DEF HandlerStep, BaseInv, Quiet
<1>3. ASSUME NEW t \in Clients,
             \/ ProgramReads(t) \/ Connect(t) \/ Exit(t) \/ Restart(t) \/ Accept(t)
             \/ \E u \in Uids : SendLogin(t, u)
             \/ \E u \in Clients : Relay(t, u)
      PROVE  BaseInv'
  BY <1>3, ProgramSteps, RestartStep, AcceptStep, QuietSteps, MutexStep
  DEF ProgramReads, BaseInv, Quiet
<1> QED
  BY <1>1, <1>2, <1>3 DEF Next

LEMMA BaseInit == Init => BaseInv
<1> SUFFICES ASSUME Init
             PROVE  BaseInv
  OBVIOUS
<1>1. TypeOK
  <2>1. /\ attempt \in [Clients -> 0 .. MaxAttempts]
        /\ receivers \in [Clients -> [1 .. MaxAttempts -> {"none", "accept", "read"}]]
    BY ConnectionsAssumption DEF Init
  <2>2. /\ descr \in [Fds -> Sockets \cup {None}] /\ accepting \in BOOLEAN /\ down \in BOOLEAN
        /\ sockfd \in [Clients -> Fds \cup {None}] /\ msgsock \in [Clients -> Fds \cup {None}]
        /\ client_info \in [Clients -> Records \cup {None}]
        /\ serving \in [Clients -> Uids \cup {None}]
        /\ reply \in [Clients -> {"none", "accepted", "refused"}]
        /\ stray \subseteq Clients /\ crossed \subseteq Clients
        /\ holder \in Clients \cup {None} /\ telling \subseteq Clients
    BY DEF Init
  <2>3. /\ handler \in [Clients -> Handlers] /\ program \in [Clients -> Programs]
        /\ key \in [Clients -> {"none"} \cup Outcomes]
    BY DEF Init, Handlers, Programs
  <2> QED
    BY <2>1, <2>2, <2>3 DEF TypeOK
<1>2. \A t \in Clients : ThreadInv(t)
  BY ControlDiffers DEF Init, ThreadInv, PlaceOf, ControlOf, RecordOf, LoginOf, Listed
<1>3. MutexInv
  BY ConnectionsAssumption DEF Init, MutexInv, Broadcasting, Listed
<1> QED
  BY <1>1, <1>2, <1>3 DEF BaseInv, ThreadsInv

\* Every variable of Connections keeps its type.
THEOREM TypeCorrect == Spec => []TypeOK
<1>1. BaseInv => TypeOK
  BY DEF BaseInv, ThreadsInv
<1> QED
  BY <1>1, BaseInit, BaseStep, PTL DEF Spec

\* A uid is refused as "already online" only while a handler serves its record:
\* no login, retry or restart leaves a record behind.
THEOREM RecordsAreServed == Spec => []ListedIsServed
<1>1. BaseInv => ListedIsServed
  BY DEF BaseInv, ThreadsInv, ThreadInv, RecordOf, ListedIsServed, Listed
<1> QED
  BY <1>1, BaseInit, BaseStep, PTL DEF Spec

-----------------------------------------------------------------------------
\* What a handler has is its own, as long as no descriptor was closed under its
\* owner.
OwnOf(t) ==
  /\ HoldsControl(t) => Names(sockfd[t], t, "control")
  /\ HoldsPush(t) => Names(msgsock[t], t, "push")
  /\ t \in Listed => client_info[t].msgsock = msgsock[t]

LEMMA OwnMeans == OwnDescriptors <=> (stray = {} => \A t \in Clients : OwnOf(t))
BY DEF OwnDescriptors, OwnOf

\* A close that takes nobody else's descriptor leaves all other names alone.
LEMMA CloseSpares ==
  ASSUME TypeOK, NEW t \in Clients, NEW fd \in Fds, NEW end, Close(t, fd, end), stray' = {}
  PROVE  /\ stray = {}
         /\ \A f, c, e : Names(f, c, e) /\ f \in Fds /\ (c # t \/ e # end) => Names(f, c, e)'
<1>1. stray = {} /\ (descr[fd] = None \/ Names(fd, t, end))
  BY DEF Close
<1>2. \A f \in Fds : descr'[f] = IF f = fd THEN None ELSE descr[f]
  BY CloseFacts
<1> QED
  BY <1>1, <1>2 DEF Names

\* A close of one's own number takes nothing from anybody.
LEMMA OwnClose ==
  ASSUME NEW t, NEW fd, NEW end, Close(t, fd, end), Names(fd, t, end)
  PROVE  stray' = stray
BY DEF Close

\* A step of t that spares the descriptors of the others.
LEMMA OwnFrame ==
  ASSUME BaseInv, OwnDescriptors, stray = {}, NEW t \in Clients, OwnOf(t)',
         \A c \in Clients \ {t} :
           UNCHANGED <<handler[c], sockfd[c], msgsock[c], client_info[c]>>,
         \A f \in Fds, c \in Clients \ {t}, e \in {"control", "push"} :
           Names(f, c, e) => Names(f, c, e)'
  PROVE  OwnDescriptors'
<1> SUFFICES ASSUME NEW c \in Clients \ {t}
             PROVE  OwnOf(c)'
  BY OwnMeans DEF OwnDescriptors, OwnOf
<1>1. OwnOf(c) /\ sockfd[c] \in Fds \cup {None} /\ msgsock[c] \in Fds \cup {None}
  BY OwnMeans DEF BaseInv, ThreadsInv, TypeOK
<1> QED
  BY <1>1 DEF OwnOf, HoldsControl, HoldsPush, Listed, Names

\* Steps without a descriptor.
LEMMA OwnQuiet ==
  ASSUME BaseInv, OwnDescriptors, stray' = {}, NEW t \in Clients,
         UNCHANGED <<descr, stray, sockfd, msgsock, client_info>>,
         \A c \in Clients \ {t} : handler'[c] = handler[c],
         HoldsControl(t)' => HoldsControl(t), HoldsPush(t)' => HoldsPush(t)
  PROVE  OwnDescriptors'
<1>1. OwnOf(t)
  BY OwnMeans
<1>2. OwnOf(t)'
  BY <1>1 DEF OwnOf, Names, Listed
<1> QED
  BY <1>2, OwnFrame DEF Names

\* Steps that open one.
LEMMA OpenSpares ==
  ASSUME TypeOK, NEW f \in Fds, descr[f] = None, NEW s \in Sockets,
         descr' = [descr EXCEPT ![f] = s]
  PROVE  \A g \in Fds : \A c, e : Names(g, c, e) => Names(g, c, e)'
BY DEF TypeOK, Names

LEMMA OwnAccept ==
  ASSUME BaseInv, OwnDescriptors, stray' = {}, NEW t \in Clients, Accept(t)
  PROVE  OwnDescriptors'
<1>1. CASE accepting' = FALSE /\ UNCHANGED <<descr, handler, sockfd>>
  BY <1>1, OwnQuiet DEF Accept, HoldsControl, HoldsPush
<1>3. CASE FreeFds # {} /\ handler'[t] = "ended"
  <2>1. LowestFd \in Fds /\ descr[LowestFd] = None
    BY <1>3, LowestIsFree
  <2>2. /\ sockfd' = [sockfd EXCEPT ![t] = LowestFd]
        /\ descr' = [descr EXCEPT ![LowestFd] = Unserved(t)]
        /\ handler' = [handler EXCEPT ![t] = "ended"]
        /\ UNCHANGED <<stray, msgsock, client_info>>
        /\ handler[t] = "none"
    BY <1>3 DEF BaseInv, ThreadsInv, TypeOK, Accept, Goto
  <2>3. t \notin Listed
    BY <2>2 DEF BaseInv, ThreadsInv, ThreadInv, RecordOf
  <2>4. OwnOf(t)'
    BY <1>3, <2>2, <2>3 DEF OwnOf, HoldsControl, HoldsPush, Listed
  <2>5. \A f \in Fds : \A c, e : Names(f, c, e) => Names(f, c, e)'
    BY <2>1, <2>2, OpenSpares, ControlDiffers DEF BaseInv, ThreadsInv
  <2>6. \A c \in Clients \ {t} : UNCHANGED <<handler[c], sockfd[c]>>
    BY <2>2 DEF BaseInv, ThreadsInv, TypeOK
  <2> QED
    BY <2>2, <2>4, <2>5, <2>6, OwnFrame
<1>2. CASE FreeFds # {} /\ handler'[t] = "handshake"
  <2>1. LowestFd \in Fds /\ descr[LowestFd] = None
    BY <1>2, LowestIsFree
  <2>2. /\ sockfd' = [sockfd EXCEPT ![t] = LowestFd]
        /\ descr' = [descr EXCEPT ![LowestFd] = Control(t)]
        /\ handler' = [handler EXCEPT ![t] = "handshake"]
        /\ UNCHANGED <<stray, msgsock, client_info>>
        /\ handler[t] = "none"
    BY <1>2 DEF BaseInv, ThreadsInv, TypeOK, Accept, Goto
  <2>3. msgsock[t] = None /\ t \notin Listed
    BY <2>2 DEF BaseInv, ThreadsInv, ThreadInv, PlaceOf, RecordOf
  <2>4. descr'[LowestFd] = Control(t) /\ sockfd'[t] = LowestFd
    BY <2>1, <2>2 DEF BaseInv, ThreadsInv, TypeOK
  <2>5. TypeOK'
    BY AcceptStep DEF BaseInv, ThreadsInv
  <2>6. Names(sockfd[t], t, "control")'
    <3>1. LowestFd # None /\ Control(t) # None
      BY <2>1, ControlDiffers, ConnectionsAssumption
    <3> QED
      BY <2>4, <3>1 DEF Names, Control
  <2>7. OwnOf(t)'
    BY <2>2, <2>3, <2>6 DEF OwnOf, HoldsPush, Listed
  <2>8. \A f \in Fds : \A c, e : Names(f, c, e) => Names(f, c, e)'
    BY <2>1, <2>2, OpenSpares, ControlDiffers DEF BaseInv, ThreadsInv
  <2>9. \A c \in Clients \ {t} : UNCHANGED <<handler[c], sockfd[c]>>
    BY <2>2 DEF BaseInv, ThreadsInv, TypeOK
  <2> QED
    BY <2>2, <2>7, <2>8, <2>9, OwnFrame
<1> QED
  BY <1>1, <1>2, <1>3 DEF BaseInv, ThreadsInv, TypeOK, Accept, Goto

LEMMA OwnConnectBack ==
  ASSUME BaseInv, OwnDescriptors, stray' = {}, NEW t \in Clients, ConnectBack(t)
  PROVE  OwnDescriptors'
<1>1. /\ ThreadInv(t) /\ OwnOf(t) /\ handler[t] = "connectback" /\ stray = {}
      /\ UNCHANGED <<stray, sockfd, client_info>>
  BY OwnMeans DEF BaseInv, ThreadsInv, ConnectBack, At
<1>2. attempt[t] \in 1 .. MaxAttempts /\ t \notin Listed
  BY <1>1, ConnectionsAssumption DEF BaseInv, ThreadsInv, TypeOK, ThreadInv, PlaceOf, RecordOf
<1>3. CASE FreeFds # {} /\ receivers[t][attempt[t]] = "accept"
  <2>1. LowestFd \in Fds /\ descr[LowestFd] = None
    BY <1>3, LowestIsFree
  <2>2. /\ msgsock' = [msgsock EXCEPT ![t] = LowestFd]
        /\ descr' = [descr EXCEPT ![LowestFd] = Push(t, attempt[t])]
        /\ handler' = [handler EXCEPT ![t] = "addclient"]
    BY <1>3 DEF ConnectBack, Goto
  <2>3. \A f \in Fds : \A c, e : Names(f, c, e) => Names(f, c, e)'
    BY <1>2, <2>1, <2>2, OpenSpares, ControlDiffers DEF BaseInv, ThreadsInv
  <2>4. Names(msgsock[t], t, "push")'
    <3>1. LowestFd # None /\ Push(t, attempt[t]) # None
      BY <1>2, <2>1, ControlDiffers, ConnectionsAssumption
    <3>2. descr'[LowestFd] = Push(t, attempt[t]) /\ msgsock'[t] = LowestFd
      BY <2>1, <2>2 DEF BaseInv, ThreadsInv, TypeOK
    <3> QED
      BY <3>1, <3>2 DEF Names, Push
  <2>5. Names(sockfd[t], t, "control")'
    BY <1>1, <2>3 DEF BaseInv, ThreadsInv, TypeOK, OwnOf, HoldsControl, Names
  <2>6. OwnOf(t)'
    BY <1>1, <1>2, <2>4, <2>5 DEF OwnOf, Listed
  <2>7. \A c \in Clients \ {t} : UNCHANGED <<handler[c], msgsock[c]>>
    BY <2>2 DEF BaseInv, ThreadsInv, TypeOK
  <2> QED
    BY <1>1, <2>3, <2>6, <2>7, OwnFrame
<1>4. CASE ~(FreeFds # {} /\ receivers[t][attempt[t]] = "accept")
  <2>1. /\ msgsock' = [msgsock EXCEPT ![t] = None]
        /\ handler' = [handler EXCEPT ![t] = "refused"]
        /\ descr' = descr
    BY <1>4 DEF ConnectBack, Goto
  <2>2. msgsock'[t] = None /\ handler'[t] = "refused"
    BY <2>1 DEF BaseInv, ThreadsInv, TypeOK
  <2>3. OwnOf(t)'
    BY <1>1, <1>2, <2>1, <2>2 DEF OwnOf, HoldsControl, HoldsPush, Listed, Names
  <2>4. \A c \in Clients \ {t} : UNCHANGED <<handler[c], msgsock[c]>>
    BY <2>1 DEF BaseInv, ThreadsInv, TypeOK
  <2> QED
    BY <1>1, <2>1, <2>3, <2>4, OwnFrame DEF Names
<1> QED
  BY <1>3, <1>4

LEMMA OwnAddClient ==
  ASSUME BaseInv, OwnDescriptors, stray' = {}, NEW t \in Clients, AddClient(t)
  PROVE  OwnDescriptors'
<1>1. /\ ThreadInv(t) /\ OwnOf(t) /\ handler[t] = "addclient" /\ stray = {}
      /\ UNCHANGED <<descr, stray, sockfd, msgsock>>
  BY OwnMeans DEF BaseInv, ThreadsInv, AddClient, At, kernel
<1>2. /\ handler'[t] \in {"refused", "announce"}
      /\ t \in Listed' => client_info'[t].msgsock = msgsock[t]
      /\ \A c \in Clients \ {t} : UNCHANGED <<handler[c], client_info[c]>>
  <2>1. CASE \E u \in Listed : client_info[u].uid = serving[t]
    BY <1>1, <2>1 DEF BaseInv, ThreadsInv, TypeOK, AddClient, Goto, ThreadInv, RecordOf, Listed
  <2>2. CASE ~\E u \in Listed : client_info[u].uid = serving[t]
    BY <2>2 DEF BaseInv, ThreadsInv, TypeOK, AddClient, Goto
  <2> QED
    BY <2>1, <2>2
<1>3. OwnOf(t)'
  BY <1>1, <1>2 DEF OwnOf, HoldsControl, HoldsPush, Names
<1> QED
  BY <1>1, <1>2, <1>3, OwnFrame DEF Names

\* The first close of the control connection.
LEMMA OwnCloseControl ==
  ASSUME BaseInv, OwnDescriptors, stray' = {}, NEW t \in Clients, HoldsControl(t),
         Close(t, sockfd[t], "control"), UNCHANGED <<sockfd, msgsock, client_info>>,
         handler'[t] \in {"goodbye", "closepush", "ended"},
         \A c \in Clients \ {t} : handler'[c] = handler[c]
  PROVE  OwnDescriptors'
<1>1. sockfd[t] \in Fds /\ msgsock[t] \in Fds \cup {None}
  BY DEF BaseInv, ThreadsInv, TypeOK, ThreadInv, PlaceOf, HoldsControl
<1>2. /\ stray = {}
      /\ \A f, c, e : Names(f, c, e) /\ f \in Fds /\ (c # t \/ e # "control") => Names(f, c, e)'
  BY <1>1, CloseSpares DEF BaseInv, ThreadsInv
<1>3. OwnOf(t)
  BY <1>2, OwnMeans
<1>4. OwnOf(t)'
  BY <1>1, <1>2, <1>3 DEF OwnOf, HoldsControl, HoldsPush, Listed, Names
<1> QED
  BY <1>2, <1>4, OwnFrame

\* The two closes of the push connection.
LEMMA OwnClosePush ==
  ASSUME BaseInv, OwnDescriptors, stray' = {}, NEW t \in Clients, NEW fd \in Fds,
         Close(t, fd, "push"), UNCHANGED <<sockfd, msgsock>>, ~HoldsControl(t)', ~HoldsPush(t)',
         client_info'[t] \in {None, client_info[t]},
         \A c \in Clients \ {t} : UNCHANGED <<handler[c], client_info[c]>>
  PROVE  OwnDescriptors'
<1>1. /\ stray = {}
      /\ \A f, c, e : Names(f, c, e) /\ f \in Fds /\ (c # t \/ e # "push") => Names(f, c, e)'
  BY CloseSpares DEF BaseInv, ThreadsInv
<1>2. OwnOf(t)
  BY <1>1, OwnMeans
<1>3. OwnOf(t)'
  BY <1>2 DEF OwnOf, Listed
<1> QED
  BY <1>1, <1>3, OwnFrame

LEMMA OwnStep ==
  ASSUME BaseInv, OwnDescriptors, [Next]_vars
  PROVE  OwnDescriptors'
<1> SUFFICES ASSUME stray' = {}
             PROVE  OwnDescriptors'
  BY DEF OwnDescriptors
<1>1. CASE UNCHANGED vars
  BY <1>1 DEF vars, kernel, server, threads, users, OwnDescriptors, HoldsControl, HoldsPush,
              Listed, Names
<1>2. ASSUME NEW t \in Clients,
             \/ Connect(t) \/ ReadReply(t) \/ ReplyLost(t) \/ Exit(t)
             \/ \E u \in Uids : SendLogin(t, u)
      PROVE  OwnDescriptors'
  <2>1. UNCHANGED <<descr, stray, handler, sockfd, msgsock, client_info>>
    BY <1>2 DEF Connect, ReadReply, ReplyLost, Exit, SendLogin, kernel, threads
  <2> QED
    BY <2>1, OwnQuiet DEF HoldsControl, HoldsPush
<1>3. ASSUME NEW t \in Clients, Restart(t)
      PROVE  OwnDescriptors'
  <2>1. /\ UNCHANGED <<descr, stray, client_info>> /\ handler'[t] = "none" /\ t \notin Listed
        /\ \A c \in Clients \ {t} : UNCHANGED <<handler[c], sockfd[c], msgsock[c]>>
    BY <1>3 DEF BaseInv, ThreadsInv, TypeOK, ThreadInv, RecordOf, Restart, kernel
  <2>2. OwnOf(t)'
    BY <2>1 DEF OwnOf, HoldsControl, HoldsPush, Listed
  <2> QED
    BY <2>1, <2>2, OwnFrame DEF Names
<1>4. ASSUME NEW t \in Clients, Quiet(t)
      PROVE  OwnDescriptors'
  <2>1. /\ UNCHANGED <<descr, stray, sockfd, msgsock, client_info>>
        /\ \A c \in Clients \ {t} : handler'[c] = handler[c]
    BY <1>4, QuietFacts
  <2>2. /\ handler[t] \in {"read", "announce", "goodbye", "announcing", "parting"}
        /\ handler[t] = "goodbye" => handler'[t] = "parting"
        /\ handler[t] = "parting" => handler'[t] \in {"parting", "closepush"}
    BY <1>4, QuietFacts
  <2> QED
    BY <2>1, <2>2, OwnQuiet DEF HoldsControl, HoldsPush
<1>5. ASSUME NEW t \in Clients, Handshake(t)
      PROVE  OwnDescriptors'
  <2>1. /\ handler[t] = "handshake" /\ UNCHANGED <<sockfd, msgsock, client_info>>
        /\ \A c \in Clients \ {t} : handler'[c] = handler[c]
    BY <1>5 DEF BaseInv, ThreadsInv, TypeOK, Handshake, At, Goto
  <2>2. CASE UNCHANGED <<descr, stray>>
    BY <2>1, <2>2, OwnQuiet DEF HoldsControl, HoldsPush
  <2>3. CASE Close(t, sockfd[t], "control") /\ Goto(t, "ended")
    BY <2>1, <2>3, OwnCloseControl DEF BaseInv, ThreadsInv, TypeOK, Goto, HoldsControl
  <2> QED
    BY <1>5, <2>2, <2>3 DEF Handshake
<1>6. ASSUME NEW t \in Clients, Answer(t)
      PROVE  OwnDescriptors'
  <2>1. /\ handler[t] \in {"accepted", "refused"} /\ UNCHANGED <<sockfd, msgsock, client_info>>
        /\ \A c \in Clients \ {t} : handler'[c] = handler[c]
    BY <1>6 DEF BaseInv, ThreadsInv, TypeOK, Answer, At, Goto
  <2>2. CASE UNCHANGED <<descr, stray>>
    BY <2>1, <2>2, OwnQuiet DEF HoldsControl, HoldsPush
  <2>3. CASE /\ Close(t, sockfd[t], "control")
             /\ Goto(t, IF client_info[t] = None THEN "closepush" ELSE "goodbye")
    BY <2>1, <2>3, OwnCloseControl DEF BaseInv, ThreadsInv, TypeOK, Goto, HoldsControl
  <2> QED
    BY <1>6, <2>2, <2>3 DEF Answer
<1>7. ASSUME NEW t \in Clients, Disconnect(t)
      PROVE  OwnDescriptors'
  <2>1. /\ handler[t] = "read" /\ UNCHANGED <<sockfd, msgsock, client_info>>
        /\ Close(t, sockfd[t], "control") /\ handler'[t] \in {"goodbye", "closepush"}
        /\ \A c \in Clients \ {t} : handler'[c] = handler[c]
    BY <1>7 DEF BaseInv, ThreadsInv, TypeOK, Disconnect, At, Goto
  <2> QED
    BY <2>1, OwnCloseControl DEF HoldsControl
<1>8. ASSUME NEW t \in Clients, ClosePush(t)
      PROVE  OwnDescriptors'
  <2>1. /\ UNCHANGED <<sockfd, msgsock, client_info>> /\ handler'[t] \in {"ended", "remove"}
        /\ \A c \in Clients \ {t} : handler'[c] = handler[c]
    BY <1>8 DEF BaseInv, ThreadsInv, TypeOK, ClosePush, At, Goto
  <2>2. CASE msgsock[t] = None
    BY <1>8, <2>1, <2>2, OwnQuiet DEF ClosePush, HoldsControl, HoldsPush
  <2>3. CASE msgsock[t] # None
    BY <1>8, <2>1, <2>3, OwnClosePush DEF BaseInv, ThreadsInv, TypeOK, ClosePush, HoldsControl, HoldsPush
  <2> QED
    BY <2>2, <2>3
<1>9. ASSUME NEW t \in Clients, Remove(t)
      PROVE  OwnDescriptors'
  <2>1. /\ Close(t, client_info[t].msgsock, "push") /\ UNCHANGED <<sockfd, msgsock>>
        /\ handler'[t] = "ended" /\ client_info'[t] = None
        /\ \A c \in Clients \ {t} : UNCHANGED <<handler[c], client_info[c]>>
    BY <1>9 DEF BaseInv, ThreadsInv, TypeOK, Remove, At, Goto
  <2>2. client_info[t].msgsock \in Fds
    BY <1>9 DEF BaseInv, ThreadsInv, TypeOK, ThreadInv, RecordOf, Remove, At, Listed, Records
  <2> QED
    BY <2>1, <2>2, OwnClosePush DEF HoldsControl, HoldsPush
<1> QED
  BY <1>1, <1>2, <1>3, <1>4, <1>5, <1>6, <1>7, <1>8, <1>9, OwnAccept, OwnConnectBack, OwnAddClient
  DEF Next, HandlerStep, ProgramReads, Quiet

\* While no handler is between its two closes and no descriptor has been lost,
\* none is lost and nothing is written to the wrong client.
LEMMA WritesReachOwners ==
  ASSUME BaseInv, OwnDescriptors, stray = {}, \A t \in Clients : handler[t] # "remove",
         NEW S \in SUBSET Listed, WriteTo(S)
  PROVE  crossed' = crossed
<1>1. ASSUME NEW u \in S
      PROVE  Names(client_info[u].msgsock, u, "push")
  <2>1. /\ u \in Clients /\ u \in Listed /\ client_info[u].msgsock \in Fds
        /\ handler[u] \notin {"none", "remove", "ended"}
    BY DEF BaseInv, ThreadsInv, TypeOK, ThreadInv, RecordOf, Listed, Records
  <2>2. client_info[u].msgsock = msgsock[u] /\ msgsock[u] # None
    BY <2>1, OwnMeans, ConnectionsAssumption DEF OwnOf
  <2> QED
    BY <2>1, <2>2, OwnMeans DEF OwnOf, HoldsPush
<1>2. {u \in {v \in S : descr[client_info[v].msgsock] # None} :
         ~Names(client_info[u].msgsock, u, "push")} = {}
  BY <1>1
<1>3. crossed' = crossed \cup
        {descr[client_info[u].msgsock].client :
           u \in {w \in {v \in S : descr[client_info[v].msgsock] # None} :
                    ~Names(client_info[w].msgsock, w, "push")}}
  BY DEF WriteTo
<1> QED
  BY <1>2, <1>3

LEMMA NothingStrays ==
  ASSUME BaseInv, OwnDescriptors, stray = {}, \A t \in Clients : handler[t] # "remove",
         [Next]_vars
  PROVE  stray' = stray /\ crossed' = crossed
<1>1. \A t \in Clients : OwnOf(t)
  BY OwnMeans
<1>2. ASSUME NEW t \in Clients, ReadLogin(t) \/ ConnectBack(t) \/ AddClient(t) \/ Accept(t)
                                  \/ Connect(t) \/ ReadReply(t) \/ ReplyLost(t) \/ Exit(t)
                                  \/ Restart(t) \/ (\E u \in Uids : SendLogin(t, u))
                                  \/ Announce(t) \/ Goodbye(t) \/ Told(t)
      PROVE  stray' = stray /\ crossed' = crossed
  BY <1>2 DEF ReadLogin, ConnectBack, AddClient, Accept, Connect, ReadReply, ReplyLost, Exit,
              Restart, SendLogin, Announce, Goodbye, Broadcast, Told, kernel
<1>3. ASSUME NEW t \in Clients, Tell(t) \/ (\E u \in Clients : Relay(t, u))
      PROVE  stray' = stray /\ crossed' = crossed
  <2>1. PICK u \in Listed : WriteTo({u})
    BY <1>3 DEF Tell, Relay, BaseInv, MutexInv
  <2>2. {u} \in SUBSET Listed
    BY <2>1
  <2> QED
    BY <1>3, <2>1, <2>2, WritesReachOwners DEF Tell, Relay
<1>4. ASSUME NEW t \in Clients, Handshake(t)
      PROVE  stray' = stray /\ crossed' = crossed
  BY <1>1, <1>4, OwnClose DEF Handshake, At, OwnOf, HoldsControl
<1>5. ASSUME NEW t \in Clients, Disconnect(t)
      PROVE  stray' = stray /\ crossed' = crossed
  BY <1>1, <1>5, OwnClose DEF Disconnect, At, OwnOf, HoldsControl
<1>6. ASSUME NEW t \in Clients, ClosePush(t)
      PROVE  stray' = stray /\ crossed' = crossed
  BY <1>1, <1>6, OwnClose DEF ClosePush, At, OwnOf, HoldsPush
<1>7. ASSUME NEW t \in Clients, Answer(t)
      PROVE  stray' = stray /\ crossed' = crossed
  <2>1. Names(sockfd[t], t, "control")
    BY <1>1, <1>7 DEF Answer, At, OwnOf, HoldsControl
  <2> QED
    BY <1>7, <2>1, OwnClose DEF Answer
<1>8. \A t \in Clients : ~Remove(t)
  BY DEF Remove, At
<1> QED
  BY <1>2, <1>3, <1>4, <1>5, <1>6, <1>7, <1>8 DEF Next, HandlerStep, ProgramReads, vars, kernel

LEMMA OwnInit == Init => OwnDescriptors
BY DEF Init, OwnDescriptors, HoldsControl, HoldsPush, Listed

\* As long as nobody has lost a descriptor, every number a handler or a record
\* holds names that client's own connections.
THEOREM NumbersAreOwn == Spec => []OwnDescriptors
BY BaseInit, OwnInit, BaseStep, OwnStep, PTL DEF Spec

\* The first descriptor to be lost is lost to a second close.
THEOREM SecondClosesStray == Spec => OnlySecondCloseStrays
<1>1. BaseInv /\ OwnDescriptors /\ [Next]_vars
        => [stray' # stray => stray # {} \/ \E t \in Clients : handler[t] = "remove"]_vars
  BY NothingStrays
<1> QED
  BY <1>1, BaseInit, OwnInit, BaseStep, OwnStep, PTL DEF Spec, OnlySecondCloseStrays

\* The first packet that reaches the wrong client is written between two closes.
THEOREM CrossedWhileLeaving == Spec => CrossedOnlyWhileLeaving
<1>1. BaseInv /\ OwnDescriptors /\ [Next]_vars
        => [crossed' # crossed => stray # {} \/ \E t \in Clients : handler[t] = "remove"]_vars
  BY NothingStrays
<1> QED
  BY <1>1, BaseInit, OwnInit, BaseStep, OwnStep, PTL DEF Spec, CrossedOnlyWhileLeaving

-----------------------------------------------------------------------------
\* What is open, and who is going to close it.

\* A login is being served whose connect-back is still to come.
Pending(t) ==
  \/ handler[t] = "connectback"
  \/ handler[t] = "read" /\ Connected(t) /\ program[t] = "waiting" /\ reply[t] = "none"

\* The push connections of t: the one in msgsock, which its handler closes, and
\* those of earlier attempts.
IsPush(f, t) == descr[f] # None /\ descr[f].end = "push" /\ descr[f].client = t

PushAt(f, t) ==
  /\ descr[f].attempt <= attempt[t]
  /\ IF msgsock[t] = f THEN HoldsPush(t) ELSE descr[f].attempt < attempt[t]
  /\ Pending(t) => descr[f].attempt < attempt[t]

PushInv == \A t \in Clients, f \in Fds : IsPush(f, t) => PushAt(f, t)

LEMMA PushFrame ==
  ASSUME BaseInv, PushInv, NEW t \in Clients,
         \A f \in Fds : IsPush(f, t)' => PushAt(f, t)',
         \A c \in Clients \ {t} :
           UNCHANGED <<handler[c], msgsock[c], program[c], attempt[c], reply[c]>>,
         down => down', crossed \subseteq crossed',
         \A f \in Fds : descr'[f] \in {None, descr[f]} \/ descr'[f].client = t
  PROVE  PushInv'
<1> SUFFICES ASSUME NEW c \in Clients \ {t}, NEW f \in Fds, IsPush(f, c)'
             PROVE  PushAt(f, c)'
  BY DEF PushInv
<1>1. descr'[f] = descr[f] /\ IsPush(f, c)
  BY DEF IsPush
<1>2. Connected(c)' => Connected(c)
  <2>1. \A g \in Fds : descr'[g] = Control(c) => descr[g] = Control(c)
    BY ControlDiffers DEF Control
  <2> QED
    BY <2>1, LostStaysLost
<1> QED
  BY <1>1, <1>2 DEF PushInv, PushAt, Pending, HoldsPush

\* A step that opens no push connection and keeps msgsock.
LEMMA PushKeeps ==
  ASSUME BaseInv, PushInv, NEW t \in Clients,
         UNCHANGED msgsock, attempt'[t] = attempt[t],
         \A f \in Fds : descr'[f] \in {None, descr[f], Control(t), Unserved(t)},
         HoldsPush(t) => HoldsPush(t)' \/ descr'[msgsock[t]] = None,
         Pending(t)' => Pending(t),
         \A c \in Clients \ {t} :
           UNCHANGED <<handler[c], program[c], attempt[c], reply[c]>>,
         down => down', crossed \subseteq crossed'
  PROVE  PushInv'
<1>1. ASSUME NEW f \in Fds, IsPush(f, t)'
      PROVE  PushAt(f, t)'
  <2>1. descr'[f] = descr[f] /\ IsPush(f, t)
    BY <1>1 DEF IsPush, Control, Unserved
  <2>2. PushAt(f, t)
    BY <2>1 DEF PushInv
  <2> QED
    BY <1>1, <2>1, <2>2 DEF PushAt, IsPush
<1>2. \A f \in Fds : descr'[f] \in {None, descr[f]} \/ descr'[f].client = t
  BY DEF Control, Unserved
<1> QED
  BY <1>1, <1>2, PushFrame

LEMMA PushPrograms ==
  ASSUME BaseInv, PushInv, NEW t \in Clients,
         \/ Connect(t) \/ ReadReply(t) \/ ReplyLost(t) \/ Exit(t) \/ Restart(t)
         \/ \E u \in Uids : SendLogin(t, u)
  PROVE  PushInv'
<1>1. CASE Connect(t) \/ ReadReply(t) \/ ReplyLost(t) \/ Exit(t)
  <2>1. /\ UNCHANGED <<descr, crossed, down, handler, msgsock, attempt>>
        /\ program'[t] # "waiting"
        /\ \A c \in Clients \ {t} : UNCHANGED <<program[c], reply[c]>>
    BY <1>1 DEF BaseInv, ThreadsInv, TypeOK, Connect, ReadReply, ReplyLost, Exit, kernel, server, threads
  <2> QED
    BY <2>1, PushKeeps DEF HoldsPush, Pending
<1>2. CASE Restart(t)
  <2>1. /\ UNCHANGED <<descr, crossed, down, attempt, reply>>
        /\ handler[t] = "ended" /\ handler'[t] = "none" /\ msgsock'[t] = None
        /\ \A c \in Clients \ {t} : UNCHANGED <<handler[c], msgsock[c], program[c]>>
    BY <1>2 DEF BaseInv, ThreadsInv, TypeOK, Restart, kernel, server
  <2>2. ASSUME NEW f \in Fds, IsPush(f, t)'
        PROVE  PushAt(f, t)'
    <3>1. PushAt(f, t) /\ f # None
      BY <2>1, <2>2, ConnectionsAssumption DEF PushInv, IsPush
    <3> QED
      BY <2>1, <3>1 DEF PushAt, HoldsPush, Pending
  <2> QED
    BY <2>1, <2>2, PushFrame
<1>3. CASE \E u \in Uids : SendLogin(t, u)
  <2>1. /\ UNCHANGED <<descr, crossed, down, handler, msgsock, reply>>
        /\ attempt'[t] = attempt[t] + 1 /\ attempt[t] \in Nat
        /\ \A c \in Clients \ {t} : UNCHANGED <<program[c], attempt[c]>>
    BY <1>3, ConnectionsAssumption DEF BaseInv, ThreadsInv, TypeOK, SendLogin, kernel, server
  <2>2. ASSUME NEW f \in Fds, IsPush(f, t)'
        PROVE  PushAt(f, t)'
    <3>1. PushAt(f, t) /\ descr'[f] = descr[f]
      BY <2>1, <2>2 DEF PushInv, IsPush
    <3>2. descr[f].attempt \in Nat
      BY <2>1, <2>2, SocketFacts, ConnectionsAssumption DEF BaseInv, ThreadsInv, TypeOK, IsPush
    <3> QED
      BY <2>1, <3>1, <3>2 DEF PushAt, HoldsPush
  <2> QED
    BY <2>1, <2>2, PushFrame
<1> QED
  BY <1>1, <1>2, <1>3

LEMMA PushConnectBack ==
  ASSUME BaseInv, PushInv, NEW t \in Clients, ConnectBack(t)
  PROVE  PushInv'
<1>1. /\ ThreadInv(t) /\ handler[t] = "connectback"
      /\ UNCHANGED <<crossed, down, program, attempt, reply>>
  BY DEF BaseInv, ThreadsInv, ConnectBack, At, server
<1>2. attempt[t] \in 1 .. MaxAttempts
  BY <1>1, ConnectionsAssumption DEF BaseInv, ThreadsInv, TypeOK, ThreadInv, PlaceOf
<1>3. CASE FreeFds # {} /\ receivers[t][attempt[t]] = "accept"
  <2>1. LowestFd \in Fds /\ LowestFd # None /\ descr[LowestFd] = None
    BY <1>3, LowestIsFree, ConnectionsAssumption
  <2>2. /\ msgsock' = [msgsock EXCEPT ![t] = LowestFd]
        /\ descr' = [descr EXCEPT ![LowestFd] = Push(t, attempt[t])]
        /\ handler' = [handler EXCEPT ![t] = "addclient"]
    BY <1>3 DEF ConnectBack, Goto
  <2>3. /\ msgsock'[t] = LowestFd /\ handler'[t] = "addclient"
        /\ descr'[LowestFd] = Push(t, attempt[t])
        /\ \A f \in Fds \ {LowestFd} : descr'[f] = descr[f]
        /\ \A c \in Clients \ {t} : UNCHANGED <<handler[c], msgsock[c]>>
    BY <2>1, <2>2 DEF BaseInv, ThreadsInv, TypeOK
  <2>4. ASSUME NEW f \in Fds, IsPush(f, t)'
        PROVE  PushAt(f, t)'
    <3>1. CASE f = LowestFd
      BY <1>1, <1>2, <2>1, <2>3, <3>1 DEF PushAt, HoldsPush, Pending, Push
    <3>2. CASE f # LowestFd
      <4>1. PushAt(f, t)
        BY <2>3, <2>4, <3>2 DEF PushInv, IsPush
      <4> QED
        BY <1>1, <2>3, <3>2, <4>1 DEF PushAt, HoldsPush, Pending
    <3> QED
      BY <3>1, <3>2
  <2>5. \A f \in Fds : descr'[f] \in {None, descr[f]} \/ descr'[f].client = t
    BY <2>3 DEF Push
  <2> QED
    BY <1>1, <2>3, <2>4, <2>5, PushFrame
<1>4. CASE ~(FreeFds # {} /\ receivers[t][attempt[t]] = "accept")
  <2>1. /\ msgsock'[t] = None /\ handler'[t] = "refused" /\ descr' = descr
        /\ \A c \in Clients \ {t} : UNCHANGED <<handler[c], msgsock[c]>>
    BY <1>4 DEF BaseInv, ThreadsInv, TypeOK, ConnectBack, Goto
  <2>2. ASSUME NEW f \in Fds, IsPush(f, t)'
        PROVE  PushAt(f, t)'
    <3>1. PushAt(f, t) /\ f # None
      BY <2>1, <2>2, ConnectionsAssumption DEF PushInv, IsPush
    <3> QED
      BY <1>1, <2>1, <3>1 DEF PushAt, Pending
  <2> QED
    BY <1>1, <2>1, <2>2, PushFrame
<1> QED
  BY <1>3, <1>4

LEMMA PushHandlers ==
  ASSUME BaseInv, PushInv, NEW t \in Clients,
         Accept(t) \/ Handshake(t) \/ AddClient(t) \/ Disconnect(t) \/ Quiet(t)
  PROVE  PushInv'
<1>1. ThreadInv(t) /\ UNCHANGED <<msgsock, attempt, reply>>
  BY QuietFacts DEF BaseInv, ThreadsInv, Accept, Handshake, AddClient, Disconnect, users
<1>2. \A c \in Clients \ {t} : UNCHANGED <<handler[c], program[c]>>
  BY QuietFacts DEF BaseInv, ThreadsInv, TypeOK, Accept, Handshake, AddClient, Disconnect, Goto, users
<1>3. \A f \in Fds : descr'[f] \in {None, descr[f], Control(t), Unserved(t)}
  <2>1. CASE Accept(t)
    BY <2>1 DEF BaseInv, ThreadsInv, TypeOK, Accept
  <2>2. CASE Handshake(t)
    BY <1>1, <2>2, ControlClosed, CloseFacts DEF BaseInv, ThreadsInv, Handshake, At
  <2>3. CASE Disconnect(t)
    BY <1>1, <2>3, ControlClosed, CloseFacts DEF BaseInv, ThreadsInv, Disconnect, At
  <2>4. CASE AddClient(t) \/ Quiet(t)
    BY <2>4, QuietFacts DEF AddClient, kernel
  <2> QED
    BY <2>1, <2>2, <2>3, <2>4
<1>4. (down => down') /\ crossed \subseteq crossed'
  <2>1. CASE Quiet(t)
    BY <2>1, QuietFacts
  <2>2. CASE Accept(t) \/ Handshake(t) \/ AddClient(t) \/ Disconnect(t)
    BY <2>2 DEF Accept, Handshake, AddClient, Disconnect, kernel, server
  <2> QED
    BY <2>1, <2>2
<1>5. HoldsPush(t) => HoldsPush(t)'
  <2>1. /\ handler[t] \in {"none", "handshake", "read", "addclient", "announce", "goodbye",
                            "announcing", "parting"}
        /\ handler'[t] \in {handler[t], "handshake", "read", "connectback", "refused", "announce",
                            "announcing", "accepted", "closepush", "goodbye", "parting"}
           \/ handler[t] \in {"none", "handshake"}
    BY QuietFacts DEF BaseInv, ThreadsInv, TypeOK, Accept, Handshake, AddClient, Disconnect, At, Goto
  <2> QED
    BY <1>1, <2>1 DEF HoldsPush, ThreadInv, PlaceOf
<1>6. Pending(t)' => Pending(t)
  <2>1. CASE Accept(t)
    BY <2>1 DEF BaseInv, ThreadsInv, TypeOK, Accept, Goto, Pending
  <2>2. CASE Handshake(t)
    BY <2>2 DEF BaseInv, ThreadsInv, TypeOK, Handshake, Goto, Pending
  <2>3. CASE ReadLogin(t)
    <3>1. sockfd[t] \in Fds
      BY <2>3 DEF BaseInv, ThreadsInv, TypeOK, ReadLogin, LoginThere, Names
    <3> QED
      BY <2>3, <3>1, ControlNames DEF BaseInv, ThreadsInv, ReadLogin, LoginThere, At, Pending, Connected
  <2>4. CASE AddClient(t) \/ Disconnect(t)
    BY <2>4 DEF BaseInv, ThreadsInv, TypeOK, AddClient, Disconnect, Goto, Pending
  <2>5. CASE \E u \in Clients : Relay(t, u)
    BY <2>5 DEF Relay, Pending, At, threads, users
  <2>6. CASE Announce(t) \/ Goodbye(t) \/ Tell(t) \/ Told(t)
    <3>1. handler'[t] \in {"announcing", "parting", "accepted", "closepush"}
      BY <2>6, QuietFacts DEF Quiet, Announce, Goodbye, Tell, Told, At, BaseInv, MutexInv, Broadcasting
    <3> QED
      BY <3>1 DEF Pending
  <2> QED
    BY <2>1, <2>2, <2>3, <2>4, <2>5, <2>6 DEF Quiet
<1> QED
  BY <1>1, <1>2, <1>3, <1>4, <1>5, <1>6, PushKeeps

LEMMA PushAnswer ==
  ASSUME BaseInv, PushInv, NEW t \in Clients, Answer(t)
  PROVE  PushInv'
<1>1. /\ ThreadInv(t) /\ handler[t] \in {"accepted", "refused"} /\ ~down /\ sockfd[t] \in Fds
      /\ UNCHANGED <<msgsock, program, attempt, sockfd>>
      /\ handler'[t] \in {"read", "closepush", "goodbye"}
      /\ \A c \in Clients \ {t} : UNCHANGED <<handler[c], reply[c]>>
  BY DEF BaseInv, ThreadsInv, TypeOK, ThreadInv, PlaceOf, Answer, At, Goto
<1>2. crossed \subseteq crossed' /\ \A f \in Fds : descr'[f] \in {None, descr[f]}
  BY <1>1, CloseFacts DEF BaseInv, ThreadsInv, Answer
<1>3. ~Pending(t)'
  <2>1. CASE /\ Names(sockfd[t], t, "control")
             /\ reply' = [reply EXCEPT ![t] = IF Alive(t) THEN handler[t] ELSE "none"]
             /\ UNCHANGED <<descr, crossed, down>>
    <3>1. Alive(t) => reply'[t] # "none"
      BY <1>1, <2>1 DEF BaseInv, ThreadsInv, TypeOK
    <3> QED
      BY <1>1, <3>1 DEF Pending, Alive
  <2>2. CASE /\ descr[sockfd[t]] # None /\ ~Names(sockfd[t], t, "control")
             /\ descr' = descr
    <3>1. ~Connected(t)'
      BY <1>1, <2>2, ControlNames DEF BaseInv, ThreadsInv, ThreadInv, ControlOf, Connected
    <3> QED
      BY <1>1, <3>1 DEF Pending
  <2>3. CASE Goto(t, IF client_info[t] = None THEN "closepush" ELSE "goodbye")
    BY <2>3 DEF BaseInv, ThreadsInv, TypeOK, Goto, Pending
  <2> QED
    BY <2>1, <2>2, <2>3 DEF Answer
<1>4. HoldsPush(t)'  <=> HoldsPush(t)
  BY <1>1 DEF HoldsPush
<1> QED
  BY <1>1, <1>2, <1>3, <1>4, PushKeeps

LEMMA PushClosing ==
  ASSUME BaseInv, PushInv, NEW t \in Clients, ClosePush(t) \/ Remove(t)
  PROVE  PushInv'
<1>1. /\ handler[t] \in {"closepush", "remove"} /\ handler'[t] \in {"remove", "ended"}
      /\ UNCHANGED <<crossed, down, msgsock, program, attempt, reply>>
      /\ \A c \in Clients \ {t} : handler'[c] = handler[c]
  BY DEF BaseInv, ThreadsInv, TypeOK, ClosePush, Remove, At, Goto, server, users
<1>2. CASE ClosePush(t)
  <2>1. \A f \in Fds : descr'[f] \in {None, descr[f]}
    BY <1>2, CloseFacts DEF BaseInv, ThreadsInv, TypeOK, ClosePush
  <2>2. HoldsPush(t) => descr'[msgsock[t]] = None
    BY <1>2, CloseFacts DEF BaseInv, ThreadsInv, TypeOK, ClosePush, HoldsPush
  <2> QED
    BY <1>1, <2>1, <2>2, PushKeeps DEF Pending
<1>3. CASE Remove(t)
  <2>1. client_info[t].msgsock \in Fds /\ handler[t] = "remove"
    BY <1>3 DEF BaseInv, ThreadsInv, TypeOK, ThreadInv, RecordOf, Remove, At, Listed, Records
  <2>2. \A f \in Fds : descr'[f] \in {None, descr[f]}
    BY <1>3, <2>1, CloseFacts DEF BaseInv, ThreadsInv, Remove
  <2> QED
    BY <1>1, <2>1, <2>2, PushKeeps DEF Pending, HoldsPush
<1> QED
  BY <1>2, <1>3

LEMMA PushStep ==
  ASSUME BaseInv, PushInv, [Next]_vars
  PROVE  PushInv'
<1>1. CASE UNCHANGED vars
  BY <1>1 DEF vars, kernel, server, threads, users, PushInv, IsPush, PushAt, HoldsPush, Pending,
              Connected
<1> QED
  BY <1>1, PushPrograms, PushConnectBack, PushHandlers, PushAnswer, PushClosing
  DEF Next, HandlerStep, ProgramReads, Quiet

LEMMA PushInit == Init => PushInv
BY DEF Init, PushInv, IsPush

LEMMA OpenIsHeld ==
  ASSUME BaseInv, PushInv
  PROVE  LeaksOnlyByRetry
<1> SUFFICES ASSUME NEW f \in Fds, descr[f] # None
             PROVE  LET t == descr[f].client
                    IN  \/ HoldsControl(t) /\ sockfd[t] = f
                        \/ HoldsPush(t) /\ msgsock[t] = f
                        \/ f \in Superseded /\ descr[f].attempt < attempt[t]
                        \/ descr[f] = Unserved(t)
  BY DEF LeaksOnlyByRetry
<1>1. descr[f] \in Sockets /\ descr[f].client \in Clients
  BY SocketFacts DEF BaseInv, ThreadsInv, TypeOK
<1>2. CASE descr[f].end = "control"
  BY <1>1, <1>2, SocketFacts DEF BaseInv, ThreadsInv, ThreadInv, ControlOf
<1>3. CASE descr[f].end = "push"
  BY <1>1, <1>3 DEF PushInv, IsPush, PushAt, Superseded
<1> QED
  BY <1>1, <1>2, <1>3, SocketFacts

\* Every open descriptor is one that a handler is going to close, or belongs to
\* a login that its client has tried again since, or no thread was made for it.
THEOREM LeaksAreRetries == Spec => []LeaksOnlyByRetry
BY BaseInit, PushInit, BaseStep, PushStep, OpenIsHeld, PTL DEF Spec

-----------------------------------------------------------------------------
\* Nobody waits for nothing: a handler that has answered a login has sent the
\* answer or has lost its client.

WaitOf(t) ==
  /\ handler[t] = "none" => program[t] \in {"new", "connected", "gone"}
  /\ program[t] = "waiting" /\ handler[t] = "read" /\ reply[t] = "none" /\ serving[t] = None
       => ReadFails(t)

WaitInv == \A t \in Clients : WaitOf(t)

\* What other clients' steps leave to c.
Untroubled(c) ==
  /\ UNCHANGED <<handler[c], sockfd[c], serving[c], program[c], reply[c], key[c]>>
  /\ c \in crossed => c \in crossed'
  /\ \A f \in Fds : descr'[f] = Control(c) => descr[f] = Control(c)

LEMMA WaitFrame ==
  ASSUME BaseInv, BaseInv', WaitInv, NEW c \in Clients, Untroubled(c)
  PROVE  WaitOf(c)'
<1>1. WaitOf(c) /\ ThreadInv(c) /\ UNCHANGED <<handler[c], sockfd[c], serving[c], program[c], reply[c], key[c]>>
  BY DEF BaseInv, ThreadsInv, WaitInv, Untroubled
<1>2. ASSUME handler[c] = "read", ReadFails(c)
      PROVE  ReadFails(c)'
  <2>1. sockfd[c] \in Fds
    BY <1>1, <1>2 DEF BaseInv, ThreadsInv, TypeOK, ThreadInv, PlaceOf
  <2>2. ASSUME Names(sockfd[c], c, "control")'
        PROVE  Names(sockfd[c], c, "control")
    <3>1. descr'[sockfd[c]] \in Sockets
      BY <1>1, <2>1, <2>2 DEF BaseInv, ThreadsInv, TypeOK, Names
    <3>2. descr'[sockfd[c]] = Control(c)
      BY <1>1, <2>2, <3>1, SocketFacts DEF Names
    <3>3. descr[sockfd[c]] = Control(c)
      BY <2>1, <3>2 DEF Untroubled
    <3> QED
      BY <2>1, <3>3, ControlNames DEF BaseInv, ThreadsInv
  <2> QED
    BY <1>1, <1>2, <2>2 DEF ReadFails, Alive, Untroubled
<1> QED
  BY <1>1, <1>2 DEF WaitOf

\* A step of t.
LEMMA WaitMoves ==
  ASSUME BaseInv, BaseInv', WaitInv, NEW t \in Clients, WaitOf(t)',
         \A c \in Clients \ {t} : Untroubled(c)
  PROVE  WaitInv'
BY WaitFrame DEF WaitInv

LEMMA WaitPrograms ==
  ASSUME BaseInv, BaseInv', WaitInv, NEW t \in Clients,
         \/ ProgramReads(t) \/ Connect(t) \/ Exit(t) \/ Restart(t) \/ Accept(t)
         \/ \E u \in Uids : SendLogin(t, u)
         \/ \E u \in Clients : Relay(t, u)
  PROVE  WaitInv'
<1>1. WaitOf(t)
  BY DEF WaitInv
<1>2. CASE ProgramReads(t) \/ Connect(t) \/ Exit(t) \/ \E u \in Uids : SendLogin(t, u)
  <2>1. UNCHANGED <<descr, crossed, handler, sockfd, key>>
    BY <1>2 DEF ProgramReads, ReadReply, ReplyLost, Connect, Exit, SendLogin, kernel, threads
  <2>2. \A c \in Clients \ {t} : UNCHANGED <<serving[c], program[c], reply[c]>>
    BY <1>2 DEF BaseInv, ThreadsInv, TypeOK, ProgramReads, ReadReply, ReplyLost, Connect, Exit, SendLogin, threads
  <2>3. CASE ProgramReads(t)
    <3>1. handler[t] # "none" /\ program'[t] \in {"main", "form"}
      BY <1>1, <2>3 DEF BaseInv, ThreadsInv, TypeOK, WaitOf, ProgramReads, ReadReply, ReplyLost
    <3> QED
      BY <2>1, <2>2, <3>1, WaitMoves DEF WaitOf, Untroubled
  <2>4. CASE Connect(t) \/ Exit(t)
    <3>1. program'[t] \in {"connected", "gone"}
      BY <2>4 DEF BaseInv, ThreadsInv, TypeOK, Connect, Exit
    <3> QED
      BY <2>1, <2>2, <3>1, WaitMoves DEF WaitOf, Untroubled
  <2>5. CASE \E u \in Uids : SendLogin(t, u)
    <3>1. handler[t] # "none" /\ serving'[t] # None
      BY <1>1, <2>5, ConnectionsAssumption DEF BaseInv, ThreadsInv, TypeOK, WaitOf, SendLogin
    <3> QED
      BY <2>1, <2>2, <3>1, WaitMoves DEF WaitOf, Untroubled
  <2> QED
    BY <1>2, <2>3, <2>4, <2>5
<1>3. CASE Restart(t)
  <2>1. /\ UNCHANGED <<descr, crossed, reply>> /\ program'[t] = "new"
        /\ \A c \in Clients \ {t} : UNCHANGED <<handler[c], sockfd[c], serving[c], program[c], key[c]>>
    BY <1>3 DEF BaseInv, ThreadsInv, TypeOK, Restart, kernel
  <2> QED
    BY <2>1, WaitMoves DEF WaitOf, Untroubled
<1>4. CASE Accept(t)
  <2>1. CASE UNCHANGED <<descr, handler, sockfd>>
    <3>1. UNCHANGED <<descr, crossed, handler, sockfd, key, serving, program, reply>>
      BY <1>4, <2>1 DEF Accept, users
    <3>2. Untroubled(t) /\ \A c \in Clients \ {t} : Untroubled(c)
      BY <3>1 DEF Untroubled
    <3> QED
      BY <3>2, WaitFrame, WaitMoves
  <2>2. CASE ~UNCHANGED <<descr, handler, sockfd>>
    <3>1. /\ UNCHANGED <<crossed, key, serving, program, reply>>
          /\ handler'[t] \in {"handshake", "ended"}
          /\ \A c \in Clients \ {t} : UNCHANGED <<handler[c], sockfd[c]>>
      BY <1>4, <2>2 DEF BaseInv, ThreadsInv, TypeOK, Accept, Goto, users
    <3>2. \A c \in Clients \ {t}, f \in Fds : descr'[f] = Control(c) => descr[f] = Control(c)
      <4>1. /\ \/ descr' = [descr EXCEPT ![LowestFd] = Control(t)]
               \/ descr' = [descr EXCEPT ![LowestFd] = Unserved(t)]
            /\ descr \in [Fds -> Sockets \cup {None}]
        BY <1>4, <2>2 DEF Accept, BaseInv, ThreadsInv, TypeOK
      <4> QED
        BY <4>1, ControlDiffers
    <3> QED
      BY <3>1, <3>2, WaitMoves DEF WaitOf, Untroubled
  <2> QED
    BY <2>1, <2>2
<1>5. CASE \E u \in Clients : Relay(t, u)
  <2>1. UNCHANGED <<descr, handler, sockfd, key, serving, program, reply>>
    BY <1>5 DEF Relay, threads, users
  <2>2. crossed \subseteq crossed'
    BY <1>5, WriteFacts DEF Relay, BaseInv, ThreadsInv
  <2>3. Untroubled(t) /\ \A c \in Clients \ {t} : Untroubled(c)
    BY <2>1, <2>2 DEF Untroubled
  <2> QED
    BY <2>3, WaitFrame, WaitMoves
<1> QED
  BY <1>2, <1>3, <1>4, <1>5

\* What the handler of t leaves alone.
LEMMA HandlerSpares ==
  ASSUME BaseInv, NEW t \in Clients, HandlerStep(t), NEW c \in Clients \ {t}
  PROVE  Untroubled(c)
<1>0. ThreadInv(t)
  BY DEF BaseInv, ThreadsInv
<1>1. UNCHANGED <<handler[c], sockfd[c], serving[c], program[c], reply[c], key[c]>>
  <2>1. CASE Handshake(t) \/ ReadLogin(t) \/ ConnectBack(t)
    BY <2>1 DEF BaseInv, ThreadsInv, TypeOK, Handshake, ReadLogin, ConnectBack, Goto, users
  <2>2. CASE AddClient(t)
    BY <2>2 DEF BaseInv, ThreadsInv, TypeOK, AddClient, Goto, users
  <2>5. CASE Quiet(t)
    BY <2>5, QuietFacts
  <2>3. CASE Answer(t)
    BY <2>3 DEF BaseInv, ThreadsInv, TypeOK, Answer, Goto
  <2>4. CASE Disconnect(t) \/ ClosePush(t) \/ Remove(t)
    BY <2>4 DEF BaseInv, ThreadsInv, TypeOK, Disconnect, ClosePush, Remove, Goto, users
  <2> QED
    BY <2>1, <2>2, <2>3, <2>4, <2>5 DEF HandlerStep, Quiet
<1>2. crossed \subseteq crossed'
  <2>1. CASE Quiet(t)
    BY <2>1, QuietFacts
  <2>2. CASE ~Quiet(t)
    BY <2>2 DEF Quiet, HandlerStep, Handshake, ConnectBack, AddClient, Answer, Disconnect,
                ClosePush, Remove, kernel
  <2> QED
    BY <2>1, <2>2
<1>3. \A f \in Fds : descr'[f] = Control(c) => descr[f] = Control(c)
  <2>1. CASE UNCHANGED descr
    BY <2>1
  <2>2. CASE \E end : Close(t, sockfd[t], "control") /\ handler[t] # "none"
    BY <2>2, ControlClosed
  <2>3. CASE \E fd \in Fds : Close(t, fd, "push")
    BY <2>3, PushClosed
  <2>4. CASE descr' = [descr EXCEPT ![LowestFd] = Push(t, attempt[t])]
    BY <2>4, ControlDiffers DEF BaseInv, ThreadsInv, TypeOK
  <2>5. CASE ClosePush(t)
    <3>1. msgsock[t] \in Fds \cup {None}
      BY DEF BaseInv, ThreadsInv, TypeOK
    <3> QED
      BY <2>1, <2>3, <2>5, <3>1 DEF ClosePush
  <2>6. CASE Remove(t)
    <3>1. client_info[t].msgsock \in Fds
      BY <1>0, <2>6 DEF BaseInv, ThreadsInv, TypeOK, ThreadInv, RecordOf, Listed, Remove, At, Records
    <3> QED
      BY <2>3, <2>6, <3>1 DEF Remove
  <2>7. CASE Handshake(t) \/ Answer(t) \/ Disconnect(t)
    BY <2>1, <2>2, <2>7 DEF Handshake, Answer, Disconnect, At
  <2>8. CASE ConnectBack(t) \/ AddClient(t) \/ Quiet(t)
    BY <2>1, <2>4, <2>8, QuietFacts DEF ConnectBack, AddClient, kernel
  <2> QED
    BY <2>5, <2>6, <2>7, <2>8 DEF HandlerStep, Quiet
<1> QED
  BY <1>1, <1>2, <1>3 DEF Untroubled

LEMMA WaitHandlers ==
  ASSUME BaseInv, BaseInv', WaitInv, NEW t \in Clients, HandlerStep(t)
  PROVE  WaitInv'
<1>1. CASE handler'[t] \notin {"none", "read"}
  BY <1>1, HandlerSpares, WaitMoves DEF WaitOf
<1>2. CASE Handshake(t)
  <2>1. handler'[t] \in {"read", "ended"} /\ program'[t] \in {"form", "gone"}
    BY <1>2 DEF BaseInv, ThreadsInv, TypeOK, Handshake, Goto
  <2> QED
    BY <2>1, HandlerSpares, WaitMoves DEF WaitOf
<1>3. CASE Answer(t)
  <2>1. handler[t] \in {"accepted", "refused"} /\ UNCHANGED <<sockfd, key, program>>
    BY <1>3 DEF Answer, At
  <2>2. CASE Goto(t, "read") /\ reply' = [reply EXCEPT ![t] = IF Alive(t) THEN handler[t] ELSE "none"]
    <3>1. handler'[t] = "read" /\ reply'[t] = IF Alive(t) THEN handler[t] ELSE "none"
      BY <2>2 DEF BaseInv, ThreadsInv, TypeOK, Goto
    <3>2. WaitOf(t)'
      BY <2>1, <3>1 DEF WaitOf, Alive
    <3> QED
      BY <3>2, HandlerSpares, WaitMoves
  <2>3. CASE Goto(t, "read") /\ ~Names(sockfd[t], t, "control") /\ descr' = descr
    <3>1. handler'[t] = "read" /\ ~Names(sockfd[t], t, "control")'
      BY <2>1, <2>3 DEF BaseInv, ThreadsInv, TypeOK, Goto, Names
    <3>2. WaitOf(t)'
      BY <3>1 DEF WaitOf, ReadFails
    <3> QED
      BY <3>2, HandlerSpares, WaitMoves
  <2>4. CASE Goto(t, IF client_info[t] = None THEN "closepush" ELSE "goodbye")
    <3>1. handler'[t] \notin {"none", "read"}
      BY <2>4 DEF BaseInv, ThreadsInv, TypeOK, Goto
    <3> QED
      BY <1>1, <3>1
  <2> QED
    BY <1>3, <2>2, <2>3, <2>4 DEF Answer
<1>4. CASE ReadLogin(t) \/ ConnectBack(t) \/ AddClient(t) \/ Announce(t) \/ Disconnect(t) \/ Goodbye(t)
           \/ ClosePush(t) \/ Remove(t)
  <2>1. handler'[t] \notin {"none", "read"}
    BY <1>4 DEF BaseInv, ThreadsInv, TypeOK, ReadLogin, ConnectBack, AddClient, Announce, Disconnect, Goodbye,
                ClosePush, Remove, Goto
  <2> QED
    BY <1>1, <2>1
<1>5. CASE Tell(t) \/ Told(t)
  <2>1. handler'[t] \in {"announcing", "parting", "accepted", "closepush"}
    BY <1>5, QuietFacts DEF Quiet, Tell, Told, BaseInv, MutexInv, Broadcasting
  <2> QED
    BY <1>1, <2>1
<1> QED
  BY <1>2, <1>3, <1>4, <1>5 DEF HandlerStep

LEMMA WaitStep ==
  ASSUME BaseInv, BaseInv', WaitInv, [Next]_vars
  PROVE  WaitInv'
<1>1. CASE UNCHANGED vars
  BY <1>1 DEF vars, kernel, threads, users, WaitInv, WaitOf, ReadFails, Alive, Names
<1> QED
  BY <1>1, WaitHandlers, WaitPrograms DEF Next

LEMMA WaitersMove ==
  ASSUME BaseInv, WaitInv PROVE WaitersAreServed
<1> SUFFICES ASSUME NEW t \in Clients
             PROVE  /\ program[t] = "waiting" => HandlerMoves(t) \/ ProgramMoves(t)
                    /\ program[t] = "gone" /\ handler[t] \notin {"none", "ended"} /\ ~down
                         => HandlerMoves(t)
  BY DEF WaitersAreServed
<1>1. WaitOf(t) /\ ThreadInv(t) /\ handler[t] \in Handlers
  BY DEF BaseInv, ThreadsInv, TypeOK, WaitInv
<1>4. Queued(t) => handler[holder] \in {"announcing", "parting"}
  BY DEF Queued, BaseInv, ThreadsInv, TypeOK, MutexInv, Broadcasting
<1>2. ASSUME program[t] = "waiting", ~ProgramMoves(t)
      PROVE  HandlerMoves(t)
  <2>1. Connected(t) /\ reply[t] = "none"
    BY <1>2 DEF ProgramMoves, AnswerThere, AnswerLost, Connected
  <2>2. ~down /\ handler[t] # "ended"
    BY <1>1, <2>1 DEF Connected, ThreadInv, ControlOf, HoldsControl
  <2>3. handler[t] # "none"
    BY <1>1, <1>2 DEF WaitOf
  <2>4. handler[t] = "read" => LoginThere(t) \/ ReadFails(t)
    BY <1>1, <1>2, <2>1 DEF WaitOf, LoginThere, ReadFails
  <2> QED
    BY <1>4, <2>2, <2>3, <2>4 DEF HandlerMoves
<1>3. ASSUME program[t] = "gone", handler[t] \notin {"none", "ended"}, ~down
      PROVE  HandlerMoves(t)
  BY <1>3, <1>4 DEF HandlerMoves, ReadFails, Alive
<1> QED
  BY <1>2, <1>3

\* Whoever waits for the answer to a login finds it, or the end of its
\* connection, or has a handler that can go on, whatever keys were agreed and
\* whatever descriptors were lost: on_login_btn_clicked does not wait for a
\* thread that waits itself.
THEOREM WaitersServed == Spec => []WaitersAreServed
<1>1. Init => WaitInv
  BY DEF Init, WaitInv, WaitOf
<1> QED
  BY <1>1, BaseInit, BaseStep, WaitStep, WaitersMove, PTL DEF Spec

-----------------------------------------------------------------------------
\* What descriptors there are for.

Serving == {t \in Clients : handler[t] \notin {"none", "ended"}}

\* A set has at least as many elements as its image.
LEMMA ImageIsSmaller ==
  ASSUME NEW S, IsFiniteSet(S), NEW f
  PROVE  /\ IsFiniteSet({f[x] : x \in S})
         /\ Cardinality({f[x] : x \in S}) <= Cardinality(S)
<1> DEFINE T == {f[x] : x \in S}
           g == [x \in S |-> f[x]]
<1>1. g \in Surjection(S, T)
  BY DEF Surjection
<1> QED
  BY <1>1, FS_Surjection

LEMMA UnionIsSmaller ==
  ASSUME NEW S, NEW T, IsFiniteSet(S), IsFiniteSet(T)
  PROVE  /\ IsFiniteSet(S \cup T)
         /\ Cardinality(S \cup T) <= Cardinality(S) + Cardinality(T)
<1>1. /\ IsFiniteSet(S \cap T)
      /\ Cardinality(S) \in Nat /\ Cardinality(T) \in Nat /\ Cardinality(S \cap T) \in Nat
  BY FS_Intersection, FS_CardinalityType
<1>2. /\ IsFiniteSet(S \cup T)
      /\ Cardinality(S \cup T) = Cardinality(S) + Cardinality(T) - Cardinality(S \cap T)
  BY FS_Union, Zenon
<1> QED
  BY <1>1, <1>2

Threadless == {f \in Fds : descr[f].end = "unserved"}

LEMMA FullIsSpent ==
  ASSUME BaseInv, LeaksOnlyByRetry, FreeFds = {}
  PROVE  2 * Cardinality(Serving) + Cardinality(Superseded) + Cardinality(Threadless)
           >= Cardinality(Fds)
<1> DEFINE Controls == {sockfd[t] : t \in Serving}
           Pushes == {msgsock[t] : t \in Serving}
<1>1. IsFiniteSet(Serving) /\ Cardinality(Serving) \in Nat
  BY FS_Subset, FS_CardinalityType, ConnectionsAssumption DEF Serving
<1>2. /\ IsFiniteSet(Superseded) /\ Cardinality(Superseded) \in Nat
      /\ IsFiniteSet(Threadless) /\ Cardinality(Threadless) \in Nat
  BY FS_Subset, FS_CardinalityType, ConnectionsAssumption DEF Superseded, Threadless
<1>3. /\ IsFiniteSet(Controls) /\ Cardinality(Controls) <= Cardinality(Serving)
      /\ IsFiniteSet(Pushes) /\ Cardinality(Pushes) <= Cardinality(Serving)
  BY <1>1, ImageIsSmaller
<1>4. Cardinality(Controls) \in Nat /\ Cardinality(Pushes) \in Nat
  BY <1>3, FS_CardinalityType
<1>5. /\ IsFiniteSet(Controls \cup Pushes)
      /\ Cardinality(Controls \cup Pushes) <= Cardinality(Controls) + Cardinality(Pushes)
  BY <1>3, UnionIsSmaller
<1>6. Cardinality(Controls \cup Pushes) \in Nat
  BY <1>5, FS_CardinalityType
<1> DEFINE Left == Superseded \cup Threadless
           All == (Controls \cup Pushes) \cup Left
<1>10. /\ IsFiniteSet(Left) /\ Cardinality(Left) \in Nat
       /\ Cardinality(Left) <= Cardinality(Superseded) + Cardinality(Threadless)
  BY <1>2, UnionIsSmaller, FS_CardinalityType
<1>7. /\ IsFiniteSet(All)
      /\ Cardinality(All) <= Cardinality(Controls \cup Pushes) + Cardinality(Left)
  BY <1>5, <1>10, UnionIsSmaller
<1>8. Fds \subseteq All
  <2> SUFFICES ASSUME NEW f \in Fds
               PROVE  f \in All
    OBVIOUS
  <2>1. descr[f] # None /\ descr[f].client \in Clients
    BY SocketFacts DEF BaseInv, ThreadsInv, TypeOK, FreeFds
  <2> DEFINE t == descr[f].client
  <2>2. CASE (HoldsControl(t) /\ sockfd[t] = f) \/ (HoldsPush(t) /\ msgsock[t] = f)
    BY <2>1, <2>2 DEF HoldsControl, HoldsPush, Serving
  <2>3. CASE f \in Superseded
    BY <2>3
  <2>4. CASE descr[f] = Unserved(t)
    BY <2>4 DEF Threadless, Unserved
  <2> QED
    BY <2>1, <2>2, <2>3, <2>4 DEF LeaksOnlyByRetry
<1>9. Cardinality(Fds) \in Nat /\ Cardinality(Fds) <= Cardinality(All) /\ Cardinality(All) \in Nat
  BY <1>7, <1>8, FS_Subset, FS_CardinalityType, ConnectionsAssumption
<1> QED
  BY <1>1, <1>2, <1>3, <1>4, <1>5, <1>6, <1>7, <1>9, <1>10

\* The server is out of descriptors only by two for each client it serves, one
\* for each superseded attempt and one for each connection without a thread.
THEOREM OutOfDescriptors == Spec => []DescriptorBudget
<1>1. BaseInv /\ PushInv => DescriptorBudget
  BY OpenIsHeld, FullIsSpent DEF DescriptorBudget, Serving, Threadless
<1> QED
  BY <1>1, BaseInit, PushInit, BaseStep, PushStep, PTL DEF Spec

-----------------------------------------------------------------------------
\* The key agreement.  Power is a recursive function of the exponent, and what
\* it computes is proved by induction over sets of exponents.

\* Induction for a set of numbers.
LEMMA Induction ==
  ASSUME NEW S, 0 \in S, \A n \in Nat : n \in S => n + 1 \in S
  PROVE  Nat \subseteq S
<1> SUFFICES ASSUME Nat \ S # {} PROVE FALSE
  OBVIOUS
<1>1. PICK n \in Nat \ S : \A m \in Nat \ S : n <= m
  BY LeastOf
<1>2. n \in Nat /\ n # 0 /\ n - 1 \in Nat /\ ~(n <= n - 1) /\ (n - 1) + 1 = n
  BY <1>1
<1>3. n - 1 \in S
  BY <1>1, <1>2
<1> QED
  BY <1>1, <1>2, <1>3

\* Division with a remainder.
LEMMA Divided ==
  ASSUME NEW p \in Nat \ {0}, NEW n \in Nat
  PROVE  /\ n = p * (n \div p) + (n % p)
         /\ n \div p \in Nat /\ n % p \in 0 .. (p - 1)
OBVIOUS

LEMMA Remainder ==
  ASSUME NEW p \in Nat \ {0}, NEW q \in Nat, NEW r \in 0 .. (p - 1)
  PROVE  (p * q + r) % p = r
OBVIOUS

\* A remainder may be taken before a number is multiplied.
LEMMA TimesRemainder ==
  ASSUME NEW p \in Nat \ {0}, NEW x \in Nat, NEW y \in Nat
  PROVE  (x * (y % p)) % p = (x * y) % p
<1> DEFINE r == y % p
           q == y \div p
           z == x * r
<1>1. y = p * q + r /\ q \in Nat /\ r \in Nat
  BY Divided
<1> HIDE DEF r, q
<1>2. x * y = p * (x * q) + x * r /\ x * q \in Nat /\ x * r \in Nat
  BY <1>1
<1> HIDE DEF z
<1>3. z = p * (z \div p) + (z % p) /\ z \div p \in Nat /\ z % p \in 0 .. (p - 1) /\ z \in Nat
  <2>1. z \in Nat
    BY <1>2 DEF z
  <2> QED
    BY <2>1, Divided
<1>4. x * y = p * (x * q) + (p * (z \div p) + (z % p))
  BY <1>2, <1>3 DEF z
<1>5. x * y = p * (x * q + (z \div p)) + (z % p) /\ x * q + (z \div p) \in Nat
  <2>1. \A a, b, c \in Nat : p * a + (p * b + c) = p * (a + b) + c /\ a + b \in Nat
    OBVIOUS
  <2>2. x * q \in Nat /\ z \div p \in Nat /\ z % p \in Nat
    BY <1>2, <1>3
  <2> QED
    BY <1>4, <2>1, <2>2
<1>6. (x * y) % p = z % p
  <2> DEFINE k == x * q + (z \div p)
  <2>1. k \in Nat /\ x * y = p * k + (z % p)
    BY <1>5
  <2> HIDE DEF k
  <2> QED
    BY <1>3, <2>1, Remainder
<1> QED
  BY <1>6 DEF z, r

\* A table that begins with x and goes on by the rule s, up to n.
IsTable(s, x, n, f) == f = [k \in 0 .. n |-> IF k = 0 THEN x ELSE s[<<k, f[k - 1]>>]]

\* The parameters are numbers.
LEMMA PrimeType ==
  Prime \in Nat /\ Prime > 1 /\ Base \in Nat /\ Base > 1 /\ Size \in Nat /\ Size > 0
BY KeyAgreementAssumption

\* Two tables by one rule agree as far as both go.
LEMMA TablesAgree ==
  ASSUME NEW s, NEW x, NEW m \in Nat, NEW n \in Nat, m <= n, NEW e, NEW f,
         IsTable(s, x, m, e), IsTable(s, x, n, f)
  PROVE  \A k \in 0 .. m : e[k] = f[k]
<1> DEFINE S == {k \in Nat : k <= m => e[k] = f[k]}
<1>1. 0 \in S
  BY DEF IsTable
<1>2. \A k \in Nat : k \in S => k + 1 \in S
  <2> SUFFICES ASSUME NEW k \in S, k + 1 <= m PROVE e[k + 1] = f[k + 1]
    OBVIOUS
  <2>1. k \in Nat /\ e[k] = f[k] /\ k + 1 \in 0 .. m /\ k + 1 \in 0 .. n /\ k + 1 # 0 /\ (k + 1) - 1 = k
    OBVIOUS
  <2>2. e[k + 1] = s[<<k + 1, e[k]>>]
    BY <2>1 DEF IsTable
  <2>3. f[k + 1] = s[<<k + 1, f[k]>>]
    BY <2>1 DEF IsTable
  <2> QED
    BY <2>1, <2>2, <2>3
<1> HIDE DEF S
<1>3. Nat \subseteq S
  BY <1>1, <1>2, Induction
<1> QED
  BY <1>3 DEF S

\* There is a table of every length.
LEMMA TablesExist ==
  ASSUME NEW s \in [Nat \X Nat -> Nat], NEW x \in Nat, NEW n \in Nat
  PROVE  \E f \in [0 .. n -> Nat] : IsTable(s, x, n, f)
<1> DEFINE S == {k \in Nat : \E f \in [0 .. k -> Nat] : IsTable(s, x, k, f)}
<1>1. 0 \in S
  <2> DEFINE f == [k \in 0 .. 0 |-> x]
  <2>1. f \in [0 .. 0 -> Nat] /\ IsTable(s, x, 0, f)
    BY DEF IsTable
  <2> QED
    BY <2>1
<1>2. ASSUME NEW k \in Nat, k \in S
      PROVE  k + 1 \in S
  <2>1. PICK e \in [0 .. k -> Nat] : IsTable(s, x, k, e)
    BY <1>2
  <2> DEFINE f == [j \in 0 .. k + 1 |-> IF j = k + 1 THEN s[<<k + 1, e[k]>>] ELSE e[j]]
  <2>2. s[<<k + 1, e[k]>>] \in Nat
    <3>1. e[k] \in Nat /\ k + 1 \in Nat
      OBVIOUS
    <3> QED
      BY <3>1
  <2>3. f \in [0 .. k + 1 -> Nat]
    BY <2>2
  <2>4. ASSUME NEW j \in 0 .. k + 1
        PROVE  f[j] = IF j = 0 THEN x ELSE s[<<j, f[j - 1]>>]
    <3>1. CASE j = k + 1
      <4>1. k \in 0 .. k + 1 /\ k # k + 1 /\ k + 1 \in 0 .. k + 1 /\ k + 1 # 0 /\ (k + 1) - 1 = k
        OBVIOUS
      <4>2. f[k + 1] = s[<<k + 1, e[k]>>] /\ f[k] = e[k]
        BY <4>1
      <4> HIDE DEF f
      <4> QED
        BY <3>1, <4>1, <4>2
    <3>2. CASE j # k + 1
      <4>1. j \in 0 .. k /\ f[j] = e[j] /\ (j # 0 => j - 1 \in 0 .. k + 1 /\ j - 1 # k + 1)
        BY <3>2
      <4>2. j # 0 => f[j - 1] = e[j - 1]
        BY <4>1
      <4>3. e[j] = IF j = 0 THEN x ELSE s[<<j, e[j - 1]>>]
        BY <2>1, <4>1 DEF IsTable
      <4> QED
        BY <4>1, <4>2, <4>3
    <3> QED
      BY <3>1, <3>2
  <2>5. IsTable(s, x, k + 1, f)
    BY <2>4 DEF IsTable
  <2>6. k + 1 \in Nat
    OBVIOUS
  <2> HIDE DEF f
  <2> QED
    BY <2>3, <2>5, <2>6
<1> HIDE DEF S
<1>3. Nat \subseteq S
  BY <1>1, <1>2, Induction
<1> QED
  BY <1>3 DEF S

\* A rule and a beginning make a function of all numbers.
LEMMA Recursion ==
  ASSUME NEW s \in [Nat \X Nat -> Nat], NEW x \in Nat
  PROVE  \E f \in [Nat -> Nat] : f[0] = x /\ \A k \in Nat : f[k + 1] = s[<<k + 1, f[k]>>]
<1> DEFINE Table(n) == CHOOSE e \in [0 .. n -> Nat] : IsTable(s, x, n, e)
           f == [n \in Nat |-> Table(n)[n]]
<1>1. \A n \in Nat : Table(n) \in [0 .. n -> Nat] /\ IsTable(s, x, n, Table(n))
  BY TablesExist
<1> HIDE DEF Table
<1>2. f \in [Nat -> Nat]
  BY <1>1
<1>3. f[0] = x
  <2>1. IsTable(s, x, 0, Table(0))
    BY <1>1
  <2> QED
    BY <2>1 DEF IsTable
<1>4. ASSUME NEW k \in Nat
      PROVE  f[k + 1] = s[<<k + 1, f[k]>>]
  <2>1. /\ k + 1 \in Nat /\ k <= k + 1 /\ k \in 0 .. k /\ k + 1 \in 0 .. k + 1
        /\ k + 1 # 0 /\ (k + 1) - 1 = k
    OBVIOUS
  <2>2. IsTable(s, x, k, Table(k)) /\ IsTable(s, x, k + 1, Table(k + 1))
    BY <1>1, <2>1
  <2>3. Table(k)[k] = Table(k + 1)[k]
    BY <2>1, <2>2, TablesAgree
  <2>4. Table(k + 1)[k + 1] = s[<<k + 1, Table(k + 1)[k]>>]
    BY <2>1, <2>2 DEF IsTable
  <2> QED
    BY <2>1, <2>3, <2>4
<1> HIDE DEF f
<1> QED
  BY <1>2, <1>3, <1>4

\* What Power computes.
LEMMA PowerFacts ==
  ASSUME NEW g \in Nat, NEW n \in Nat
  PROVE  /\ Power(g, n) \in Nat
         /\ Power(g, 0) = 1
         /\ Power(g, n + 1) = (g * Power(g, n)) % Prime
<1> DEFINE s == [p \in Nat \X Nat |-> (g * p[2]) % Prime]
<1>1. \A v \in Nat : (g * v) % Prime \in Nat
  <2>1. SUFFICES ASSUME NEW v \in Nat PROVE (g * v) % Prime \in Nat
    OBVIOUS
  <2>2. g * v \in Nat
    OBVIOUS
  <2> QED
    BY <2>2, PrimeType, Divided
<1>2. s \in [Nat \X Nat -> Nat]
  BY <1>1
<1>3. \A k, v \in Nat : s[<<k, v>>] = (g * v) % Prime
  OBVIOUS
<1> HIDE DEF s
<1>4. PICK f \in [Nat -> Nat] : f[0] = 1 /\ \A k \in Nat : f[k + 1] = s[<<k + 1, f[k]>>]
  <2>1. 1 \in Nat
    OBVIOUS
  <2> QED
    BY <1>2, <2>1, Recursion
<1>5. f = [k \in Nat |-> IF k = 0 THEN 1 ELSE (g * f[k - 1]) % Prime]
  <2>1. ASSUME NEW k \in Nat, k # 0
        PROVE  f[k] = (g * f[k - 1]) % Prime
    <3>1. k - 1 \in Nat /\ (k - 1) + 1 = k
      BY <2>1
    <3>2. f[k] = s[<<k, f[k - 1]>>] /\ f[k - 1] \in Nat
      BY <1>4, <3>1
    <3> QED
      BY <1>3, <3>2
  <2> QED
    BY <1>4, <2>1
<1> DEFINE pow[k \in Nat] == IF k = 0 THEN 1 ELSE (g * pow[k - 1]) % Prime
<1>6. pow = CHOOSE h : h = [k \in Nat |-> IF k = 0 THEN 1 ELSE (g * h[k - 1]) % Prime]
  OBVIOUS
<1>7. Power(g, n) = pow[n] /\ Power(g, 0) = pow[0] /\ Power(g, n + 1) = pow[n + 1]
  BY DEF Power
<1> HIDE DEF pow
<1>8. pow = [k \in Nat |-> IF k = 0 THEN 1 ELSE (g * pow[k - 1]) % Prime]
  BY <1>5, <1>6
<1>9. pow[0] = 1 /\ \A k \in Nat : pow[k + 1] = (g * pow[k]) % Prime
  <2>1. \A k \in Nat : k + 1 \in Nat /\ k + 1 # 0 /\ (k + 1) - 1 = k
    OBVIOUS
  <2>2. \A k \in Nat : pow[k] = IF k = 0 THEN 1 ELSE (g * pow[k - 1]) % Prime
    BY <1>8
  <2> QED
    BY <2>1, <2>2
<1>10. pow[n] \in Nat
  <2> DEFINE S == {k \in Nat : pow[k] \in Nat}
  <2>1. 0 \in S /\ \A k \in Nat : k \in S => k + 1 \in S
    <3>1. \A k \in Nat : pow[k] \in Nat => pow[k + 1] \in Nat
      <4> SUFFICES ASSUME NEW k \in Nat, pow[k] \in Nat PROVE pow[k + 1] \in Nat
        OBVIOUS
      <4> DEFINE v == pow[k]
      <4>1. pow[k + 1] = (g * v) % Prime
        BY <1>9
      <4>2. v \in Nat
        OBVIOUS
      <4> HIDE DEF v
      <4> QED
        BY <1>1, <4>1, <4>2
    <3>2. pow[0] \in Nat
      BY <1>9
    <3> QED
      BY <3>1, <3>2
  <2> HIDE DEF S
  <2>2. Nat \subseteq S
    BY <2>1, Induction
  <2> QED
    BY <2>2 DEF S
<1> QED
  BY <1>7, <1>9, <1>10

\* What is left of a number whose last digits are dropped one by one.
LEMMA DroppedFacts ==
  ASSUME NEW n \in Nat, NEW k \in Nat
  PROVE  /\ Dropped(n, k) \in Nat
         /\ Dropped(n, 0) = n
         /\ Dropped(n, k + 1) = Dropped(n, k) \div Base
<1> DEFINE s == [p \in Nat \X Nat |-> p[2] \div Base]
<1>1. \A v \in Nat : v \div Base \in Nat
  BY PrimeType, Divided
<1>2. s \in [Nat \X Nat -> Nat]
  BY <1>1
<1>3. \A j, v \in Nat : s[<<j, v>>] = v \div Base
  OBVIOUS
<1> HIDE DEF s
<1>4. PICK f \in [Nat -> Nat] : f[0] = n /\ \A j \in Nat : f[j + 1] = s[<<j + 1, f[j]>>]
  BY <1>2, Recursion
<1>5. f = [j \in Nat |-> IF j = 0 THEN n ELSE f[j - 1] \div Base]
  <2>1. ASSUME NEW j \in Nat, j # 0
        PROVE  f[j] = f[j - 1] \div Base
    <3>1. j - 1 \in Nat /\ (j - 1) + 1 = j
      BY <2>1
    <3>2. f[j] = s[<<j, f[j - 1]>>] /\ f[j - 1] \in Nat
      BY <1>4, <3>1
    <3> QED
      BY <1>3, <3>2
  <2> QED
    BY <1>4, <2>1
<1> DEFINE left[j \in Nat] == IF j = 0 THEN n ELSE left[j - 1] \div Base
<1>6. left = CHOOSE h : h = [j \in Nat |-> IF j = 0 THEN n ELSE h[j - 1] \div Base]
  OBVIOUS
<1>7. Dropped(n, k) = left[k] /\ Dropped(n, 0) = left[0] /\ Dropped(n, k + 1) = left[k + 1]
  BY DEF Dropped
<1> HIDE DEF left
<1>8. left = [j \in Nat |-> IF j = 0 THEN n ELSE left[j - 1] \div Base]
  BY <1>5, <1>6
<1>9. left[0] = n /\ \A j \in Nat : left[j + 1] = left[j] \div Base
  <2>1. \A j \in Nat : j + 1 \in Nat /\ j + 1 # 0 /\ (j + 1) - 1 = j
    OBVIOUS
  <2>2. \A j \in Nat : left[j] = IF j = 0 THEN n ELSE left[j - 1] \div Base
    BY <1>8
  <2> QED
    BY <2>1, <2>2
<1>10. left[k] \in Nat
  <2> DEFINE S == {j \in Nat : left[j] \in Nat}
  <2>1. 0 \in S /\ \A j \in Nat : j \in S => j + 1 \in S
    BY <1>1, <1>9
  <2> HIDE DEF S
  <2>2. Nat \subseteq S
    BY <2>1, Induction
  <2> QED
    BY <2>2 DEF S
<1> QED
  BY <1>7, <1>9, <1>10

\* Division by one number keeps the order of what is divided.
LEMMA DivisionOrder ==
  ASSUME NEW p \in Nat \ {0}, NEW x \in Nat, NEW y \in Nat, x <= y
  PROVE  x \div p <= y \div p
<1> DEFINE q == x \div p
           r == y \div p
<1>1. /\ x = p * q + (x % p) /\ y = p * r + (y % p)
      /\ q \in Nat /\ r \in Nat /\ x % p \in 0 .. (p - 1) /\ y % p \in 0 .. (p - 1)
  BY Divided
<1> HIDE DEF q, r
<1>2. SUFFICES ASSUME r + 1 <= q PROVE FALSE
  BY <1>1 DEF q, r
<1>3. p * (r + 1) <= p * q
  <2>1. PICK d \in Nat : q = (r + 1) + d
    <3>1. q - (r + 1) \in Nat /\ q = (r + 1) + (q - (r + 1))
      BY <1>1, <1>2
    <3> QED
      BY <3>1
  <2>2. p * q = p * (r + 1) + p * d /\ p * d \in Nat /\ p * (r + 1) \in Nat
    BY <1>1, <2>1
  <2> QED
    BY <2>2
<1>4. p * (r + 1) = p * r + p /\ p * r \in Nat /\ p * q \in Nat
  BY <1>1
<1> QED
  BY <1>1, <1>3, <1>4

\* A number below the modulus has no more digits than the modulus.
LEMMA DroppedOrder ==
  ASSUME NEW m \in Nat, NEW n \in Nat, m <= n, NEW k \in Nat
  PROVE  Dropped(m, k) <= Dropped(n, k)
<1> DEFINE S == {j \in Nat : Dropped(m, j) <= Dropped(n, j)}
<1>1. 0 \in S
  BY DroppedFacts
<1>2. ASSUME NEW j \in Nat, j \in S
      PROVE  j + 1 \in S
  <2>1. /\ Dropped(m, j) \in Nat /\ Dropped(n, j) \in Nat /\ Dropped(m, j) <= Dropped(n, j)
        /\ Dropped(m, j + 1) = Dropped(m, j) \div Base
        /\ Dropped(n, j + 1) = Dropped(n, j) \div Base
    BY <1>2, DroppedFacts
  <2>2. Base \in Nat \ {0} /\ j + 1 \in Nat
    BY PrimeType
  <2> QED
    BY <2>1, <2>2, DivisionOrder
<1> HIDE DEF S
<1>3. Nat \subseteq S
  BY <1>1, <1>2, Induction
<1> QED
  BY <1>3 DEF S

\* How many digits a number has.
LEMMA DigitsFacts ==
  ASSUME NEW n \in 0 .. (Prime - 1)
  PROVE  /\ Digits(n) \in 1 .. Size /\ Dropped(n, Digits(n)) = 0
         /\ Len(Bn2Bin(n)) = Digits(n) /\ Dropped(n, Size) = 0
<1>1. n \in Nat /\ n <= Prime /\ Prime \in Nat /\ Size \in Nat /\ Size \in 1 .. Size
  BY PrimeType
<1>2. Dropped(n, Size) = 0
  <2>1. Dropped(n, Size) <= Dropped(Prime, Size) /\ Dropped(n, Size) \in Nat
    BY <1>1, DroppedOrder, DroppedFacts
  <2> QED
    BY <2>1, KeyAgreementAssumption
<1> DEFINE S == {k \in 1 .. Size : Dropped(n, k) = 0}
<1>3. PICK k \in S : \A j \in S : k <= j
  <2>1. S \subseteq Nat /\ S # {}
    BY <1>1, <1>2
  <2> HIDE DEF S
  <2> QED
    BY <2>1, LeastOf
<1>4. k \in 1 .. Size /\ Dropped(n, k) = 0 /\ \A j \in 1 .. k - 1 : Dropped(n, j) # 0
  BY <1>1, <1>3
<1>5. Digits(n) \in 1 .. Size /\ Dropped(n, Digits(n)) = 0
  BY <1>4 DEF Digits
<1>6. Len(Bn2Bin(n)) = Digits(n)
  <2>1. Digits(n) \in Nat
    BY <1>1, <1>5
  <2> DEFINE d == Digits(n)
             b == [i \in 1 .. d |-> Dropped(n, d - i) % Base]
  <2>2. Bn2Bin(n) = b /\ d \in Nat
    BY <2>1 DEF Bn2Bin
  <2> HIDE DEF d
  <2>3. Len(b) = d
    BY <2>2
  <2> HIDE DEF b
  <2> QED
    BY <2>2, <2>3 DEF d
<1> QED
  BY <1>2, <1>5, <1>6

\* What the digits of a buffer come to, read from the front.
LEMMA ReadFacts ==
  ASSUME NEW buffer \in [1 .. Size -> Nat]
  PROVE  \E f \in [0 .. Size -> Nat] :
           /\ Bin2Bn(buffer) = f[Size] /\ f[0] = 0
           /\ \A k \in 1 .. Size : f[k] = f[k - 1] * Base + buffer[k]
<1> DEFINE s == [p \in Nat \X Nat |-> p[2] * Base + (IF p[1] \in 1 .. Size THEN buffer[p[1]] ELSE 0)]
<1>0. Base \in Nat /\ Size \in Nat
  BY PrimeType
<1>1. s \in [Nat \X Nat -> Nat]
  <2>1. ASSUME NEW k \in Nat, NEW v \in Nat
        PROVE  v * Base + (IF k \in 1 .. Size THEN buffer[k] ELSE 0) \in Nat
    <3>1. v * Base \in Nat /\ (IF k \in 1 .. Size THEN buffer[k] ELSE 0) \in Nat
      BY <1>0
    <3> QED
      BY <3>1
  <2> QED
    BY <2>1
<1>2. \A k \in 1 .. Size, v \in Nat : s[<<k, v>>] = v * Base + buffer[k]
  BY <1>0
<1> HIDE DEF s
<1>3. PICK g \in [Nat -> Nat] : g[0] = 0 /\ \A k \in Nat : g[k + 1] = s[<<k + 1, g[k]>>]
  <2>1. 0 \in Nat
    OBVIOUS
  <2> QED
    BY <1>1, <2>1, Recursion
<1> DEFINE f == [k \in 0 .. Size |-> g[k]]
<1>4. f \in [0 .. Size -> Nat] /\ f[0] = 0
  BY <1>0, <1>3
<1>5. ASSUME NEW k \in 1 .. Size
      PROVE  f[k] = f[k - 1] * Base + buffer[k]
  <2>1. k - 1 \in Nat /\ (k - 1) + 1 = k /\ k - 1 \in 0 .. Size /\ k \in 0 .. Size
    BY <1>0
  <2>2. g[k] = s[<<k, g[k - 1]>>] /\ g[k - 1] \in Nat
    BY <1>3, <2>1
  <2> QED
    BY <1>2, <2>1, <2>2
<1>6. f = [k \in 0 .. Size |-> IF k = 0 THEN 0 ELSE f[k - 1] * Base + buffer[k]]
  <2>1. \A k \in 0 .. Size : k # 0 => k \in 1 .. Size
    BY <1>0
  <2>2. \A k \in 0 .. Size : f[k] = IF k = 0 THEN 0 ELSE f[k - 1] * Base + buffer[k]
    BY <1>4, <1>5, <2>1
  <2>3. f = [k \in 0 .. Size |-> f[k]]
    BY <1>4
  <2> HIDE DEF f
  <2> QED
    BY <2>2, <2>3
<1> DEFINE read[k \in 0 .. Size] == IF k = 0 THEN 0 ELSE read[k - 1] * Base + buffer[k]
<1>7. read = CHOOSE h : h = [k \in 0 .. Size |-> IF k = 0 THEN 0 ELSE h[k - 1] * Base + buffer[k]]
  OBVIOUS
<1>8. Bin2Bn(buffer) = read[Size]
  BY DEF Bin2Bn
<1> HIDE DEF read, f
<1>9. read = [k \in 0 .. Size |-> IF k = 0 THEN 0 ELSE read[k - 1] * Base + buffer[k]]
  BY <1>6, <1>7
<1>10. read[0] = 0 /\ \A k \in 1 .. Size : read[k] = read[k - 1] * Base + buffer[k]
  <2>1. \A k \in 0 .. Size : read[k] = IF k = 0 THEN 0 ELSE read[k - 1] * Base + buffer[k]
    BY <1>9
  <2>2. 0 \in 0 .. Size /\ \A k \in 1 .. Size : k \in 0 .. Size /\ k # 0
    BY <1>0
  <2> QED
    BY <2>1, <2>2
<1>11. read \in [0 .. Size -> Nat]
  <2> DEFINE S == {k \in Nat : k <= Size => read[k] \in Nat}
  <2>1. 0 \in S
    BY <1>10
  <2>2. ASSUME NEW k \in Nat, k \in S
        PROVE  k + 1 \in S
    <3>1. SUFFICES ASSUME k + 1 <= Size PROVE read[k + 1] \in Nat
      BY <2>2
    <3>2. k + 1 \in 1 .. Size /\ (k + 1) - 1 = k /\ read[k] \in Nat
      BY <1>0, <2>2, <3>1
    <3>3. read[k + 1] = read[k] * Base + buffer[k + 1] /\ buffer[k + 1] \in Nat
      BY <1>10, <3>2
    <3> DEFINE v == read[k]
    <3>4. v \in Nat /\ read[k + 1] = v * Base + buffer[k + 1]
      BY <3>2, <3>3
    <3> HIDE DEF v
    <3>5. v * Base \in Nat
      BY <1>0, <3>4
    <3> DEFINE u == v * Base
               d == buffer[k + 1]
    <3>6. u \in Nat /\ d \in Nat /\ read[k + 1] = u + d
      BY <3>3, <3>4, <3>5
    <3> HIDE DEF u, d
    <3>7. u + d \in Nat
      BY <3>6
    <3> QED
      BY <3>6, <3>7
  <2> HIDE DEF S
  <2>3. Nat \subseteq S
    BY <2>1, <2>2, Induction
  <2>4. \A k \in 0 .. Size : read[k] \in Nat
    BY <1>0, <2>3 DEF S
  <2> QED
    BY <1>9, <2>4
<1> QED
  BY <1>8, <1>10, <1>11

\* The factors of a product may be moved past each other.
LEMMA MoveFactor ==
  ASSUME NEW x \in Nat, NEW y \in Nat, NEW z \in Nat
  PROVE  /\ x * (y * z) = y * (x * z)
         /\ x * (y + 1) = x * y + x
         /\ x * y \in Nat /\ y * z \in Nat /\ x * z \in Nat
OBVIOUS

LEMMA PowerBelow ==
  ASSUME NEW g \in Nat, NEW n \in Nat
  PROVE  Power(g, n) \in 0 .. (Prime - 1)
<1>0. Prime \in Nat \ {0} /\ 1 \in 0 .. (Prime - 1)
  BY PrimeType
<1>2. CASE n = 0
  <2>1. Power(g, 0) = 1
    BY PowerFacts
  <2> QED
    BY <1>0, <1>2, <2>1
<1>3. CASE n # 0
  <2>1. n - 1 \in Nat /\ (n - 1) + 1 = n
    BY <1>3
  <2>2. Power(g, n - 1) \in Nat /\ Power(g, n) = (g * Power(g, n - 1)) % Prime
    BY <2>1, PowerFacts
  <2> DEFINE x == g * Power(g, n - 1)
  <2>3. x \in Nat
    BY <2>2, MoveFactor
  <2>4. Power(g, n) = x % Prime
    BY <2>2
  <2> HIDE DEF x
  <2>5. x % Prime \in 0 .. (Prime - 1)
    BY <1>0, <2>3, Divided
  <2> QED
    BY <2>4, <2>5
<1> QED
  BY <1>2, <1>3

\* Exponents add up.
LEMMA PowerPlus ==
  ASSUME NEW g \in Nat, NEW a \in Nat, NEW b \in Nat
  PROVE  Power(g, a + b) = (Power(g, a) * Power(g, b)) % Prime
<1> DEFINE S == {n \in Nat : Power(g, a + n) = (Power(g, a) * Power(g, n)) % Prime}
           A == Power(g, a)
<1>0. Prime \in Nat \ {0} /\ A \in Nat
  BY PrimeType, PowerFacts
<1>1. 0 \in S
  <2>1. Power(g, 0) = 1 /\ a + 0 = a /\ A * 1 = A
    BY <1>0, PowerFacts
  <2>2. A % Prime = A
    <3>1. A \in 0 .. (Prime - 1)
      BY PowerBelow
    <3>2. Prime * 0 + A = A
      BY <1>0
    <3> QED
      BY <1>0, <3>1, <3>2, Remainder
  <2> QED
    BY <2>1, <2>2
<1>2. ASSUME NEW n \in Nat, n \in S
      PROVE  n + 1 \in S
  <2> DEFINE N == Power(g, n)
  <2>1. Power(g, n) \in Nat /\ Power(g, n + 1) = (g * N) % Prime
    BY PowerFacts
  <2>2. a + n \in Nat /\ a + (n + 1) = (a + n) + 1 /\ n + 1 \in Nat
    OBVIOUS
  <2>3. Power(g, a + (n + 1)) = (g * Power(g, a + n)) % Prime
    BY <2>2, PowerFacts
  <2>4. Power(g, a + n) = (A * N) % Prime
    BY <1>2
  <2> HIDE DEF A, N, S
  <2>5. N \in Nat
    BY <2>1 DEF N
  <2>6. A * N \in Nat /\ g * N \in Nat /\ g * (A * N) = A * (g * N)
    BY <1>0, <2>5, MoveFactor
  <2>7. (g * ((A * N) % Prime)) % Prime = (g * (A * N)) % Prime
    BY <1>0, <2>6, TimesRemainder
  <2>8. (A * ((g * N) % Prime)) % Prime = (A * (g * N)) % Prime
    BY <1>0, <2>6, TimesRemainder
  <2>9. Power(g, a + (n + 1)) = (A * Power(g, n + 1)) % Prime
    BY <2>1, <2>3, <2>4, <2>6, <2>7, <2>8
  <2> QED
    BY <2>2, <2>9 DEF S, A
<1> HIDE DEF S
<1>3. Nat \subseteq S
  BY <1>1, <1>2, Induction
<1> QED
  BY <1>3 DEF S

\* A power of a power has the product of the exponents.
LEMMA PowerTimes ==
  ASSUME NEW g \in Nat, NEW a \in Nat, NEW b \in Nat
  PROVE  Power(Power(g, a), b) = Power(g, a * b)
<1> DEFINE A == Power(g, a)
           S == {n \in Nat : Power(A, n) = Power(g, a * n)}
<1>0. Prime \in Nat \ {0} /\ A \in Nat
  BY PrimeType, PowerFacts
<1>1. 0 \in S
  <2>1. a * 0 = 0
    OBVIOUS
  <2> HIDE DEF A
  <2>2. Power(A, 0) = 1 /\ Power(g, 0) = 1
    BY <1>0, PowerFacts
  <2> QED
    BY <2>1, <2>2
<1>2. ASSUME NEW n \in Nat, n \in S
      PROVE  n + 1 \in S
  <2>1. n + 1 \in Nat /\ a * n \in Nat /\ a * (n + 1) = a * n + a
    BY MoveFactor
  <2> DEFINE k == a * n
  <2>2. Power(A, n + 1) = (A * Power(A, n)) % Prime
    <3> HIDE DEF A
    <3> QED
      BY <1>0, PowerFacts
  <2>3. Power(A, n) = Power(g, k)
    BY <1>2
  <2> HIDE DEF k
  <2>4. k \in Nat /\ k + a = a + k /\ a * (n + 1) = k + a
    BY <2>1 DEF k
  <2>5. Power(g, a + k) = (Power(g, a) * Power(g, k)) % Prime
    BY <2>4, PowerPlus
  <2>6. Power(A, n + 1) = Power(g, a * (n + 1))
    BY <2>2, <2>3, <2>4, <2>5
  <2> QED
    BY <2>1, <2>6
<1> HIDE DEF S
<1>3. Nat \subseteq S
  BY <1>1, <1>2, Induction
<1> QED
  BY <1>3 DEF S, A

\* Both ends come to the same number.
LEMMA PowersCommute ==
  ASSUME NEW g \in Nat, NEW a \in Nat, NEW b \in Nat
  PROVE  Power(Power(g, a), b) = Power(Power(g, b), a)
<1>1. a * b = b * a
  OBVIOUS
<1> QED
  BY <1>1, PowerTimes

\* A number that fills a buffer leaves nothing of what was there, and is read
\* back as it was.
LEMMA FullBuffer ==
  ASSUME NEW n \in 0 .. (Prime - 1), Len(Bn2Bin(n)) = Size, NEW buffer
  PROVE  /\ WrittenOver(buffer, n) = [i \in 1 .. Size |-> Bn2Bin(n)[i]]
         /\ Bin2Bn(WrittenOver(buffer, n)) = n
<1> DEFINE w == WrittenOver(buffer, n)
<1>1. n \in Nat /\ Size \in Nat /\ Base \in Nat \ {0} /\ Digits(n) = Size /\ Dropped(n, Size) = 0
  BY PrimeType, DigitsFacts
<1>2. w = [i \in 1 .. Size |-> Bn2Bin(n)[i]]
  BY <1>1 DEF WrittenOver
<1>3. \A i \in 1 .. Size : w[i] = Dropped(n, Size - i) % Base
  BY <1>1, <1>2 DEF Bn2Bin
<1> HIDE DEF w
<1>4. w \in [1 .. Size -> Nat]
  <2>1. ASSUME NEW i \in 1 .. Size
        PROVE  w[i] \in Nat
    <3>1. Size - i \in Nat
      BY <1>1
    <3>2. Dropped(n, Size - i) \in Nat
      BY <1>1, <3>1, DroppedFacts
    <3>3. Dropped(n, Size - i) % Base \in 0 .. (Base - 1)
      BY <1>1, <3>2, Divided
    <3> QED
      BY <1>1, <1>3, <3>3
  <2> QED
    BY <1>2, <2>1
<1>5. PICK f \in [0 .. Size -> Nat] :
         /\ Bin2Bn(w) = f[Size] /\ f[0] = 0
         /\ \A k \in 1 .. Size : f[k] = f[k - 1] * Base + w[k]
  BY <1>4, ReadFacts
<1> DEFINE S == {k \in Nat : k <= Size => f[k] = Dropped(n, Size - k)}
<1>6. 0 \in S
  BY <1>1, <1>5
<1>7. ASSUME NEW k \in Nat, k \in S
      PROVE  k + 1 \in S
  <2>1. SUFFICES ASSUME k + 1 <= Size PROVE f[k + 1] = Dropped(n, Size - (k + 1))
    BY <1>7
  <2> DEFINE j == Size - (k + 1)
             d == Dropped(n, j)
  <2>2. j \in Nat /\ j + 1 = Size - k /\ k + 1 \in 1 .. Size /\ (k + 1) - 1 = k /\ k <= Size
    BY <1>1, <2>1
  <2>3. f[k] = Dropped(n, j + 1) /\ w[k + 1] = d % Base
    BY <1>3, <1>7, <2>2
  <2>4. d \in Nat /\ Dropped(n, j + 1) = d \div Base
    BY <1>1, <2>2, DroppedFacts
  <2>5. f[k + 1] = f[k] * Base + w[k + 1]
    BY <1>5, <2>2
  <2> HIDE DEF d, j
  <2>6. d = Base * (d \div Base) + (d % Base) /\ d \div Base \in Nat /\ d % Base \in 0 .. (Base - 1)
    BY <1>1, <2>4, Divided
  <2>7. Base * (d \div Base) = (d \div Base) * Base
    BY <1>1, <2>6
  <2>8. f[k + 1] = (d \div Base) * Base + (d % Base)
    BY <2>3, <2>4, <2>5
  <2>9. f[k + 1] = d
    BY <2>6, <2>7, <2>8
  <2> QED
    BY <2>9 DEF d, j
<1> HIDE DEF S
<1>8. Nat \subseteq S
  BY <1>6, <1>7, Induction
<1>9. f[Size] = Dropped(n, 0)
  <2>1. Size \in S /\ Size - Size = 0
    BY <1>1, <1>8
  <2> QED
    BY <1>1, <2>1 DEF S
<1> QED
  BY <1>1, <1>2, <1>5, <1>9, DroppedFacts DEF w

\* A number of one digit does not fill a buffer of two or more.
LEMMA OneIsShort ==
  ASSUME NEW n \in {0, 1} PROVE Len(Bn2Bin(n)) # Size
<1>1. n \in 0 .. (Prime - 1) /\ Prime \in Nat /\ Size \in Nat /\ 2 <= Size /\ Base \in Nat /\ 2 <= Base
  BY KeyAgreementAssumption, PrimeType
<1>2. Dropped(n, 1) = 0
  <2>1. Dropped(n, 0) = n /\ Dropped(n, 0 + 1) = Dropped(n, 0) \div Base
    BY DroppedFacts
  <2> QED
    BY <1>1, <2>1
<1>3. 1 \in 1 .. Size /\ \A j \in 1 .. 1 - 1 : Dropped(n, j) # 0
  BY <1>1
<1>4. Digits(n) \in 1 .. Size /\ \A j \in 1 .. Digits(n) - 1 : Dropped(n, j) # 0
  BY <1>2, <1>3 DEF Digits
<1>5. Digits(n) # Size
  <2>1. ASSUME Digits(n) = Size PROVE FALSE
    <3>1. 1 \in 1 .. Digits(n) - 1
      BY <1>1, <2>1
    <3> QED
      BY <1>2, <1>4, <3>1
  <2> QED
    BY <2>1
<1> QED
  BY <1>1, <1>5, DigitsFacts

\* The powers of p - 1.
LEMMA MinusOne ==
  ASSUME NEW n \in Nat
  PROVE  Power(Prime - 1, n) \in {1, Prime - 1}
<1> DEFINE m == Prime - 1
           S == {k \in Nat : Power(m, k) \in {1, m}}
<1>1. Prime \in Nat /\ Prime > 2 /\ m \in Nat /\ m + 1 = Prime
  BY KeyAgreementAssumption, PrimeType
<1>2. (m * 1) % Prime = m /\ (m * m) % Prime = 1
  <2>1. m * m = (m - 1) * Prime + 1
    <3> HIDE DEF m
    <3> QED
      BY <1>1
  <2>2. m - 1 \in Nat /\ 1 \in 0 .. (Prime - 1) /\ Prime \in Nat \ {0}
    BY <1>1
  <2>3. Prime * (m - 1) = (m - 1) * Prime
    BY <1>1, <2>2
  <2>4. (Prime * (m - 1) + 1) % Prime = 1
    BY <2>2, Remainder
  <2> QED
    BY <1>1, <2>1, <2>3, <2>4
<1>3. 0 \in S
  BY <1>1, PowerFacts
<1>4. ASSUME NEW k \in Nat, k \in S PROVE k + 1 \in S
  <2>1. Power(m, k + 1) = (m * Power(m, k)) % Prime /\ Power(m, k) \in {1, m}
    BY <1>1, <1>4, PowerFacts
  <2> HIDE DEF m
  <2> QED
    BY <1>2, <2>1
<1> HIDE DEF S
<1>5. Nat \subseteq S
  BY <1>3, <1>4, Induction
<1> QED
  BY <1>5 DEF S

\* Key and IV differ only when some number of the exchange is shorter than its
\* buffer: srv_DoHandshake is right but for leading zeros.  The only number that
\* fills its buffer and is refused is p - 1: it stays in the buffer of the end
\* that refuses it, and the other end computes a power of it, 1 or itself.
LEMMA DifferOnlyIfShort == "differ" \notin Outcomes
<1> SUFFICES ASSUME NEW a \in Secrets, NEW b \in Secrets, NEW j \in Buffers, NEW k \in Buffers,
                    Outcome(a, b, j, k) = "differ"
             PROVE  FALSE
  BY DEF Outcomes
<1> DEFINE A == Power(Generator, a)
           B == Power(Generator, b)
           K == Power(A, b)
           fromA == WrittenOver(j, A)
           fromB == WrittenOver(k, B)
<1>1. FullLength(a, b) /\ KeyAndIV(a, fromB) # KeyAndIV(b, fromA)
  BY DEF Outcome, Public
<1>2. a \in Nat /\ b \in Nat /\ Generator \in Nat /\ Prime \in Nat /\ Prime > 2
  BY KeyAgreementAssumption, PrimeType DEF Secrets
<1>3. A \in 0 .. (Prime - 1) /\ B \in 0 .. (Prime - 1)
  BY <1>2, PowerBelow
<1>4. K = Power(B, a)
  BY <1>2, PowersCommute
<1>5. Len(Bn2Bin(A)) = Size /\ Len(Bn2Bin(B)) = Size /\ Len(Bn2Bin(K)) = Size
  BY <1>1 DEF FullLength
<1>6. K \in 0 .. (Prime - 1)
  <2> HIDE DEF A
  <2>1. A \in Nat
    BY <1>3
  <2> QED
    BY <1>2, <2>1, PowerBelow
<1>7. /\ fromA = WrittenOver(j, A) /\ Bin2Bn(fromA) = A
      /\ fromB = WrittenOver(k, B) /\ Bin2Bn(fromB) = B
  <2> HIDE DEF A, B
  <2> QED
    BY <1>3, <1>5, FullBuffer
<1>8. A \in 2 .. (Prime - 2) \/ (A = Prime - 1 /\ K = A)
  <2>1. A # 1 /\ A # 0 /\ K # 1
    BY <1>5, OneIsShort
  <2>2. A = Prime - 1 => K \in {1, Prime - 1}
    BY <1>2, MinusOne
  <2> HIDE DEF A, K
  <2> QED
    BY <1>2, <1>3, <2>1, <2>2
<1>9. B \in 2 .. (Prime - 2) \/ (B = Prime - 1 /\ K = B)
  <2>1. B # 1 /\ B # 0 /\ K # 1
    BY <1>5, OneIsShort
  <2>2. B = Prime - 1 => K \in {1, Prime - 1}
    BY <1>2, <1>4, MinusOne
  <2> HIDE DEF B, K
  <2> QED
    BY <1>2, <1>3, <2>1, <2>2
<1>10. Power(A, b) = K /\ Power(B, a) = K
  BY <1>4
<1> HIDE DEF A, B, K, fromA, fromB
\* Whichever way an end comes to its key, it is the common number.
<1>11. KeyAndIV(b, fromA) = WrittenOver(j, K) \/ KeyAndIV(b, fromA) = WrittenOver(fromA, K)
  <2>1. CASE A \in 2 .. (Prime - 2)
    BY <1>7, <1>10, <2>1 DEF KeyAndIV, Acceptable
  <2>2. CASE A = Prime - 1 /\ K = A
    <3>1. ~Acceptable(fromA)
      BY <1>2, <1>7, <2>2 DEF Acceptable
    <3> QED
      BY <1>7, <2>2, <3>1 DEF KeyAndIV
  <2> QED
    BY <1>8, <2>1, <2>2
<1>12. KeyAndIV(a, fromB) = WrittenOver(k, K) \/ KeyAndIV(a, fromB) = WrittenOver(fromB, K)
  <2>1. CASE B \in 2 .. (Prime - 2)
    BY <1>7, <1>10, <2>1 DEF KeyAndIV, Acceptable
  <2>2. CASE B = Prime - 1 /\ K = B
    <3>1. ~Acceptable(fromB)
      BY <1>2, <1>7, <2>2 DEF Acceptable
    <3> QED
      BY <1>7, <2>2, <3>1 DEF KeyAndIV
  <2> QED
    BY <1>9, <2>1, <2>2
<1>13. \A buffer : WrittenOver(buffer, K) = [i \in 1 .. Size |-> Bn2Bin(K)[i]]
  BY <1>5, <1>6, FullBuffer
<1> DEFINE common == [i \in 1 .. Size |-> Bn2Bin(K)[i]]
<1>14. /\ WrittenOver(j, K) = common /\ WrittenOver(k, K) = common
       /\ WrittenOver(fromA, K) = common /\ WrittenOver(fromB, K) = common
  BY <1>13
<1> HIDE DEF common
<1> QED
  BY <1>1, <1>11, <1>12, <1>14

\* Whatever the parameters, the secrets and the memory of the buffers: the two
\* ends of srv_DoHandshake come to different keys only if a number was short of
\* a byte, also when DH_compute_key refuses the number of an end and the code
\* goes on.
THEOREM OnlyShortKeysDiffer == Spec => []KeysDifferOnlyIfShort
<1>1. TypeOK => KeysDifferOnlyIfShort
  BY DifferOnlyIfShort DEF TypeOK, KeysDifferOnlyIfShort
<1> QED
  BY <1>1, TypeCorrect, PTL

=============================================================================
