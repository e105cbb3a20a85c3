------------------------------ MODULE Connections ------------------------------
(***************************************************************************)
(* The descriptors of the server and the logins that use them.             *)
(*                                                                         *)
(* srv_ServeForever accepts a control connection and starts in_handler on  *)
(* its number; a login makes the server connect back to a port on which    *)
(* the client listens, and that second number is kept twice, in the local  *)
(* msgsock of in_handler and in the CLIENT record, where the handlers of   *)
(* all the other clients find it to write to.  Both ends of a login are    *)
(* here: on_login_btn_clicked starts a listener and a receiver thread for  *)
(* every attempt and leaves them behind when the attempt fails.            *)
(*                                                                         *)
(* A descriptor is a number: the kernel hands out the lowest free one, and *)
(* a number that was closed may name another connection a moment later.    *)
(* A broadcast writes to one record after the other and holds g_LoginMutex *)
(* throughout.  A write is a step here, so a full buffer only delays it:   *)
(* what it can do to everybody else is in PushChannel.  How the list is    *)
(* linked, and that it is searched and linked to in two steps, are in      *)
(* OnlineList.                                                             *)
(***************************************************************************)
EXTENDS KeyAgreement, FiniteSets, Functions

CONSTANTS
  Clients,     \* client programs, each with one control connection
  Uids,        \* registered user ids
  Fds,         \* descriptors the process may have open
  MaxAttempts, \* bound: login attempts of one program
  MaxLogins,   \* bound: login attempts of all programs
  Signals,     \* whether a write to a client that has gone may raise SIGPIPE
  None         \* -1 or NULL: no descriptor, no record, no uid

ASSUME ConnectionsAssumption ==
  /\ Fds \subseteq Nat
  /\ IsFiniteSet(Fds)
  /\ IsFiniteSet(Clients)
  /\ None \notin Fds \cup Clients \cup Uids
  /\ MaxAttempts \in Nat
  /\ Signals \in BOOLEAN

VARIABLES
  descr,      \* per descriptor: the connection it names, or None
  accepting,  \* whether srv_ServeForever is still in its loop
  down,       \* whether the server process has been killed
  holder,     \* g_LoginMutex, while a broadcast holds it
  telling,    \* the records the broadcast has still to write to
  handler,    \* per client: where its in_handler is
  sockfd,     \* per client: the number of its control connection
  msgsock,    \* per client: the local msgsock of its handler
  client_info,\* per client: its record, None when it is NULL
  serving,    \* per client: the uid of the login being served
  key,        \* per client: how the key agreement turned out
  program,    \* per client: where the program is
  attempt,    \* per client: the number of its last login attempt
  receivers,  \* per client: the receiver threads its attempts have started
  reply,      \* per client: the answer to its login, on its way
  stray,      \* clients that had a descriptor closed by somebody else
  crossed     \* clients that were written what was meant for another

kernel  == <<descr, stray, crossed>>
server  == <<accepting, down, holder, telling>>
threads == <<handler, sockfd, msgsock, client_info, serving, key>>
users   == <<program, attempt, receivers, reply>>
vars    == <<kernel, server, threads, users>>

-----------------------------------------------------------------------------
Control(t) == [client |-> t, end |-> "control", attempt |-> 0]
Push(t, n) == [client |-> t, end |-> "push", attempt |-> n]
\* A control connection that was accepted and has no thread.
Unserved(t) == [client |-> t, end |-> "unserved", attempt |-> 0]

Sockets == {Control(t) : t \in Clients} \cup {Unserved(t) : t \in Clients}
             \cup {Push(t, n) : t \in Clients, n \in 1 .. MaxAttempts}
Records == [uid : Uids, msgsock : Fds]

ASSUME NoneIsNothing == None \notin Sockets \cup Records

Handlers == {"none", "handshake", "read", "connectback", "addclient",
             "announce", "announcing", "accepted", "refused", "goodbye",
             "parting", "closepush", "remove", "ended"}
Programs == {"new", "connected", "form", "waiting", "main", "gone"}

FreeFds  == {f \in Fds : descr[f] = None}
LowestFd == CHOOSE f \in FreeFds : \A g \in FreeFds : f <= g

Listed   == {t \in Clients : client_info[t] # None}
Alive(t) == program[t] # "gone"

At(t, where)   == ~down /\ handler[t] = where
Goto(t, where) == handler' = [handler EXCEPT ![t] = where]

\* Whether fd still names a control, or push, connection of t.
Names(fd, t, end) ==
  fd # None /\ descr[fd] # None /\ descr[fd].client = t /\ descr[fd].end = end

\* close(fd) by the handler of t, for its control or push connection.  The
\* number may have been given to another one in the meantime.
Close(t, fd, end) ==
  /\ descr' = [descr EXCEPT ![fd] = None]
  /\ stray' = IF descr[fd] = None \/ Names(fd, t, end)
              THEN stray ELSE stray \cup {descr[fd].client}

\* The handlers' writes to the push connections of the records in S: what a
\* descriptor names that is not the push connection of its record gets the
\* packet all the same.  A client that has gone may raise SIGPIPE.
WriteTo(S) ==
  LET reached == {u \in S : descr[client_info[u].msgsock] # None}
      at(u)   == descr[client_info[u].msgsock].client
      wrong   == {u \in reached : ~Names(client_info[u].msgsock, u, "push")}
      dead    == \E u \in reached : ~Alive(at(u))
  IN  /\ crossed' = crossed \cup {at(u) : u \in wrong}
      /\ down' \in IF Signals /\ dead THEN BOOLEAN ELSE {FALSE}

Init ==
  /\ descr = [f \in Fds |-> None]
  /\ accepting = TRUE /\ down = FALSE
  /\ holder = None /\ telling = {}
  /\ handler = [t \in Clients |-> "none"]
  /\ sockfd = [t \in Clients |-> None]
  /\ msgsock = [t \in Clients |-> None]
  /\ client_info = [t \in Clients |-> None]
  /\ serving = [t \in Clients |-> None]
  /\ key = [t \in Clients |-> "none"]
  /\ program = [t \in Clients |-> "new"]
  /\ attempt = [t \in Clients |-> 0]
  /\ receivers = [t \in Clients |-> [n \in 1 .. MaxAttempts |-> "none"]]
  /\ reply = [t \in Clients |-> "none"]
  /\ stray = {} /\ crossed = {}

\* The program's connection is there and carries only its own packets.
Connected(t) == ~down /\ t \notin crossed /\ \E f \in Fds : descr[f] = Control(t)

-----------------------------------------------------------------------------
\* The client programs.

\* main: srv_TCPConnect.  The kernel completes the connection by itself.
Connect(t) ==
  /\ program[t] = "new" /\ ~down
  /\ program' = [program EXCEPT ![t] = "connected"]
  /\ UNCHANGED <<kernel, server, threads, attempt, receivers, reply>>

\* The bound on the attempts of all programs together.
LoginsLeft == FoldFunction(+, 0, attempt) < MaxLogins

\* on_login_btn_clicked: listen on a random port, start the receiver thread,
\* write the request.  (Ten ports in use leave everything as it was.)  What
\* a program does with a connection that has ended is not followed.
SendLogin(t, u) ==
  /\ program[t] = "form" /\ attempt[t] < MaxAttempts
  /\ LoginsLeft
  /\ Connected(t)
  /\ attempt' = [attempt EXCEPT ![t] = @ + 1]
  /\ receivers' = [receivers EXCEPT ![t][attempt'[t]] = "accept"]
  /\ serving' = [serving EXCEPT ![t] = u]
  /\ program' = [program EXCEPT ![t] = "waiting"]
  /\ UNCHANGED <<kernel, server, handler, sockfd, msgsock, client_info, key, reply>>

\* What a waiting program may find on its connection: an answer, or the end of
\* the stream or what was written for somebody else.
AnswerThere(t) == reply[t] # "none" /\ t \notin crossed
AnswerLost(t)  == (reply[t] = "none" \/ t \in crossed) /\ ~Connected(t)

\* ... read the answer and open the main window, or stay with the form.
ReadReply(t) ==
  /\ program[t] = "waiting" /\ AnswerThere(t)
  /\ reply' = [reply EXCEPT ![t] = "none"]
  /\ program' = [program EXCEPT ![t] = IF reply[t] = "accepted" THEN "main" ELSE "form"]
  /\ UNCHANGED <<kernel, server, threads, attempt, receivers>>

\* srv_ReadPacket returns NULL.  What a program does afterwards with a
\* connection that is out of step is in Session.
ReplyLost(t) ==
  /\ program[t] = "waiting" /\ AnswerLost(t)
  /\ reply' = [reply EXCEPT ![t] = "none"]
  /\ program' = [program EXCEPT ![t] = "form"]
  /\ UNCHANGED <<kernel, server, threads, attempt, receivers>>

\* The program ends and the kernel closes its sockets.
Exit(t) ==
  /\ program[t] \notin {"new", "gone"}
  /\ program' = [program EXCEPT ![t] = "gone"]
  /\ receivers' = [receivers EXCEPT ![t] = [n \in 1 .. MaxAttempts |-> "none"]]
  /\ reply' = [reply EXCEPT ![t] = "none"]
  /\ UNCHANGED <<kernel, server, threads, attempt>>

\* The user starts the program again, once the handler of its last connection
\* has ended; its logins go on counting, and its old sockets are not its own.
Restart(t) ==
  /\ program[t] = "gone" /\ handler[t] = "ended" /\ ~down
  /\ program' = [program EXCEPT ![t] = "new"]
  /\ handler' = [handler EXCEPT ![t] = "none"]
  /\ sockfd' = [sockfd EXCEPT ![t] = None]
  /\ msgsock' = [msgsock EXCEPT ![t] = None]
  /\ serving' = [serving EXCEPT ![t] = None]
  /\ key' = [key EXCEPT ![t] = "none"]
  /\ UNCHANGED <<kernel, server, client_info, attempt, receivers, reply>>

-----------------------------------------------------------------------------
\* The server.

\* srv_ServeForever: any failure of accept(), for want of a descriptor or for
\* another reason, ends the loop for good.  That pthread_create has made a
\* thread for the connection is not looked at.
Accept(t) ==
  /\ ~down /\ accepting
  /\ handler[t] = "none" /\ program[t] # "new"
  /\ \/ /\ accepting' = FALSE
        /\ UNCHANGED <<descr, handler, sockfd>>
     \/ /\ FreeFds # {}
        /\ sockfd' = [sockfd EXCEPT ![t] = LowestFd]
        /\ \/ descr' = [descr EXCEPT ![LowestFd] = Control(t)] /\ Goto(t, "handshake")
           \/ descr' = [descr EXCEPT ![LowestFd] = Unserved(t)] /\ Goto(t, "ended")
        /\ UNCHANGED accepting
  /\ UNCHANGED <<stray, crossed, down, holder, telling, msgsock, client_info, serving, key, users>>

\* srv_DoHandshake at both ends, whatever the keys that come out of it; a
\* failure, of a read or a write, ends the handler.
Handshake(t) ==
  /\ At(t, "handshake")
  /\ \/ /\ program[t] = "connected" /\ Names(sockfd[t], t, "control")
        /\ \E outcome \in Outcomes : key' = [key EXCEPT ![t] = outcome]
        /\ program' = [program EXCEPT ![t] = "form"]
        /\ Goto(t, "read")
        /\ UNCHANGED <<descr, stray>>
     \/ /\ Close(t, sockfd[t], "control")
        /\ program' = [program EXCEPT ![t] = "gone"]
        /\ Goto(t, "ended")
        /\ UNCHANGED key
  /\ UNCHANGED <<crossed, server, sockfd, msgsock, client_info, serving, attempt,
                 receivers, reply>>

\* What the handler may find: a login request that the keys can read, or a
\* client that has gone, a number that is no longer the control connection,
\* bytes that cannot be read.
LoginThere(t) ==
  /\ program[t] = "waiting" /\ reply[t] = "none" /\ serving[t] # None
  /\ Names(sockfd[t], t, "control") /\ t \notin crossed
  /\ key[t] = "same"

ReadFails(t) ==
  ~Alive(t) \/ ~Names(sockfd[t], t, "control") \/ t \in crossed
    \/ (key[t] # "same" /\ program[t] = "waiting")

\* protocol_Login looks the user up and compares the password.
ReadLogin(t) ==
  /\ At(t, "read") /\ LoginThere(t)
  /\ Goto(t, "connectback") \/ Goto(t, "refused")
  /\ UNCHANGED <<kernel, server, sockfd, msgsock, client_info, serving, key, users>>

\* srv_TCPConnectBack, whose result replaces msgsock whatever it held.
ConnectBack(t) ==
  /\ At(t, "connectback")
  /\ \/ /\ FreeFds # {} /\ receivers[t][attempt[t]] = "accept"
        /\ msgsock' = [msgsock EXCEPT ![t] = LowestFd]
        /\ descr' = [descr EXCEPT ![LowestFd] = Push(t, attempt[t])]
        /\ receivers' = [receivers EXCEPT ![t][attempt[t]] = "read"]
        /\ Goto(t, "addclient")
     \/ /\ FreeFds = {} \/ receivers[t][attempt[t]] # "accept"
        /\ msgsock' = [msgsock EXCEPT ![t] = None]
        /\ Goto(t, "refused")
        /\ UNCHANGED <<descr, receivers>>
  /\ UNCHANGED <<stray, crossed, server, sockfd, client_info, serving, key, program,
                 attempt, reply>>

\* Mutant: the record is given the control connection's number.
AddClient_ControlFd(t) ==
  /\ At(t, "addclient") /\ holder = None
  /\ IF \E u \in Listed : client_info[u].uid = serving[t]
     THEN /\ Goto(t, "refused")
          /\ UNCHANGED client_info
     ELSE /\ client_info' = [client_info EXCEPT
               ![t] = [uid |-> serving[t], msgsock |-> sockfd[t]]]
          /\ Goto(t, "announce")
  /\ UNCHANGED <<kernel, server, sockfd, msgsock, serving, key, users>>

\* login_AddClient: "Already Online", or a record with the number in it.
AddClient(t) ==
  /\ At(t, "addclient") /\ holder = None
  /\ IF \E u \in Listed : client_info[u].uid = serving[t]
     THEN /\ Goto(t, "refused")
          /\ UNCHANGED client_info
     ELSE /\ client_info' = [client_info EXCEPT
               ![t] = [uid |-> serving[t], msgsock |-> msgsock[t]]]
          /\ Goto(t, "announce")
  /\ UNCHANGED <<kernel, server, sockfd, msgsock, serving, key, users>>

\* A broadcast gets the mutex, to write to every record but its own ...
Broadcast(t) ==
  /\ holder = None /\ holder' = t
  /\ telling' = Listed \ {t}
  /\ UNCHANGED <<kernel, accepting, down, sockfd, msgsock, client_info, serving, key, users>>

\* login_NotifyAllLogin(client_info, 0)
Announce(t) == At(t, "announce") /\ Broadcast(t) /\ Goto(t, "announcing")

\* ... writes to one of them after the other ...
Tell(t) ==
  /\ ~down /\ holder = t
  /\ \E u \in telling : WriteTo({u}) /\ telling' = telling \ {u}
  /\ UNCHANGED <<descr, stray, accepting, holder, threads, users>>

\* Mutant: sockfd is closed again after the broadcast.
Told_ClosesControl(t) ==
  /\ ~down /\ holder = t /\ telling = {}
  /\ holder' = None
  /\ IF handler[t] = "announcing"
     THEN Goto(t, "accepted") /\ UNCHANGED <<descr, stray>>
     ELSE Goto(t, "closepush") /\ Close(t, sockfd[t], "control")
  /\ UNCHANGED <<crossed, accepting, down, telling, sockfd, msgsock, client_info, serving,
                 key, users>>

\* ... and lets it go.
Told(t) ==
  /\ ~down /\ holder = t /\ telling = {}
  /\ holder' = None
  /\ Goto(t, IF handler[t] = "announcing" THEN "accepted" ELSE "closepush")
  /\ UNCHANGED <<kernel, accepting, down, telling, sockfd, msgsock, client_info, serving,
                 key, users>>

\* The answer; a write that fails ends the handler like a read that fails.
Answer(t) ==
  /\ At(t, "accepted") \/ At(t, "refused")
  /\ serving' = [serving EXCEPT ![t] = None]
  /\ \/ /\ Names(sockfd[t], t, "control")
        /\ reply' = [reply EXCEPT ![t] = IF Alive(t) THEN handler[t] ELSE "none"]
        /\ Goto(t, "read")
        /\ UNCHANGED <<descr, stray, crossed, down>>
     \/ /\ descr[sockfd[t]] # None /\ ~Names(sockfd[t], t, "control")
        /\ crossed' = crossed \cup {descr[sockfd[t]].client}
        /\ Goto(t, "read")
        /\ UNCHANGED <<descr, stray, down, reply>>
     \/ /\ ~Alive(t) \/ descr[sockfd[t]] = None
        /\ Close(t, sockfd[t], "control")
        /\ down' \in IF Signals /\ ~Alive(t) THEN BOOLEAN ELSE {FALSE}
        /\ Goto(t, IF client_info[t] = None THEN "closepush" ELSE "goodbye")
        /\ UNCHANGED <<crossed, reply>>
  /\ UNCHANGED <<accepting, holder, telling, sockfd, msgsock, client_info, key, program,
                 attempt, receivers>>

\* protocol_Message and the others write to another client's record.
Relay(t, u) ==
  /\ At(t, "read") /\ program[t] = "main"
  /\ Names(sockfd[t], t, "control") /\ t \notin crossed
  /\ client_info[t] # None /\ u \in Listed /\ holder = None
  /\ WriteTo({u})
  /\ UNCHANGED <<descr, stray, accepting, holder, telling, threads, users>>

\* Mutants: the control connection is not closed; the push connection is closed
\* with it; only the end of the connection ends the handler.
Disconnect_KeepsControl(t) ==
  /\ At(t, "read")
  /\ ReadFails(t)
  /\ Goto(t, IF client_info[t] = None THEN "closepush" ELSE "goodbye")
  /\ UNCHANGED <<kernel, server, sockfd, msgsock, client_info, serving, key, users>>

Disconnect_ClosesPush(t) ==
  /\ At(t, "read") /\ client_info[t] # None
  /\ ~Alive(t)
  /\ descr' = [descr EXCEPT ![sockfd[t]] = None, ![msgsock[t]] = None]
  /\ Goto(t, "goodbye")
  /\ UNCHANGED <<stray, crossed, server, sockfd, msgsock, client_info, serving, key, users>>

Disconnect_OnlyEOF(t) ==
  /\ At(t, "read")
  /\ ~Alive(t)
  /\ Close(t, sockfd[t], "control")
  /\ Goto(t, IF client_info[t] = None THEN "closepush" ELSE "goodbye")
  /\ UNCHANGED <<crossed, server, sockfd, msgsock, client_info, serving, key, users>>

\* srv_ReadPacket fails.
Disconnect(t) ==
  /\ At(t, "read")
  /\ ReadFails(t)
  /\ Close(t, sockfd[t], "control")
  /\ Goto(t, IF client_info[t] = None THEN "closepush" ELSE "goodbye")
  /\ UNCHANGED <<crossed, server, sockfd, msgsock, client_info, serving, key, users>>

\* login_NotifyAllLogin(client_info, 1)
Goodbye(t) == At(t, "goodbye") /\ Broadcast(t) /\ Goto(t, "parting")

\* if(msgsock != -1) close(msgsock)
ClosePush(t) ==
  /\ At(t, "closepush")
  /\ IF msgsock[t] = None THEN UNCHANGED <<descr, stray>> ELSE Close(t, msgsock[t], "push")
  /\ Goto(t, IF client_info[t] = None THEN "ended" ELSE "remove")
  /\ UNCHANGED <<crossed, server, sockfd, msgsock, client_info, serving, key, users>>

\* login_DisconnectClient closes the number in the record, the same one,
\* again, and frees the record.
Remove(t) ==
  /\ At(t, "remove") /\ holder = None
  /\ Close(t, client_info[t].msgsock, "push")
  /\ client_info' = [client_info EXCEPT ![t] = None]
  /\ Goto(t, "ended")
  /\ UNCHANGED <<crossed, server, sockfd, msgsock, serving, key, users>>
-----------------------------------------------------------------------------
HandlerStep(t) ==
  \/ Handshake(t) \/ ReadLogin(t) \/ ConnectBack(t) \/ AddClient(t)
  \/ Announce(t) \/ Tell(t) \/ Told(t) \/ Answer(t) \/ Disconnect(t)
  \/ Goodbye(t) \/ ClosePush(t) \/ Remove(t)

ProgramReads(t) == ReadReply(t) \/ ReplyLost(t)

Next ==
  \E t \in Clients :
    \/ HandlerStep(t) \/ ProgramReads(t)
    \/ Connect(t) \/ Exit(t) \/ Restart(t) \/ Accept(t)
    \/ \E u \in Uids : SendLogin(t, u)
    \/ \E u \in Clients : Relay(t, u)

Spec == Init /\ [][Next]_vars

-----------------------------------------------------------------------------
\* Every variable keeps its type.
TypeOK ==
  /\ descr \in [Fds -> Sockets \cup {None}]
  /\ accepting \in BOOLEAN /\ down \in BOOLEAN
  /\ holder \in Clients \cup {None} /\ telling \subseteq Clients
  /\ handler \in [Clients -> Handlers]
  /\ sockfd \in [Clients -> Fds \cup {None}]
  /\ msgsock \in [Clients -> Fds \cup {None}]
  /\ client_info \in [Clients -> Records \cup {None}]
  /\ serving \in [Clients -> Uids \cup {None}]
  /\ key \in [Clients -> {"none"} \cup Outcomes]
  /\ program \in [Clients -> Programs]
  /\ attempt \in [Clients -> 0 .. MaxAttempts]
  /\ receivers \in [Clients -> [1 .. MaxAttempts -> {"none", "accept", "read"}]]
  /\ reply \in [Clients -> {"none", "accepted", "refused"}]
  /\ stray \subseteq Clients /\ crossed \subseteq Clients

\* The two ends of a connection leave srv_DoHandshake with different keys only if
\* one of the three numbers was short of a byte: nothing else that is in the
\* buffers, or left over in them, gets into key and IV (server.c:157, 170).  A
\* public number that DH_compute_key refuses becomes the key, but of both ends.
KeysDifferOnlyIfShort == \A t \in Clients : key[t] # "differ"

\* Handlers whose first close of the control, or of the push, connection is
\* still to come.
HoldsControl(t) ==
  handler[t] \notin {"none", "goodbye", "parting", "closepush", "remove", "ended"}
HoldsPush(t)    == msgsock[t] # None /\ handler[t] \notin {"none", "remove", "ended"}

\* As long as no descriptor was closed under its owner, every handler's
\* sockfd and msgsock, and every record that others write to, name that
\* client's own connections, up to the first close of the number.
OwnDescriptors ==
  stray = {} =>
    \A t \in Clients :
      /\ HoldsControl(t) => Names(sockfd[t], t, "control")
      /\ HoldsPush(t) => Names(msgsock[t], t, "push")
      /\ t \in Listed => client_info[t].msgsock = msgsock[t]

\* A client loses a descriptor to somebody else's close only by the second
\* close of a number (server_main.c:33 and login.c:43, 55), or to a handler
\* that has already lost its own that way.
OnlySecondCloseStrays ==
  [][stray' # stray => stray # {} \/ \E t \in Clients : handler[t] = "remove"]_vars

\* A client is written what was meant for another only while a handler is
\* between its two closes, the record still listed and its number free to be
\* handed out, or after a descriptor has been lost.
CrossedOnlyWhileLeaving ==
  [][crossed' # crossed => stray # {} \/ \E t \in Clients : handler[t] = "remove"]_vars

\* Push connections that a later attempt of the client has pushed out of
\* msgsock: no handler closes them any more.
Superseded ==
  {f \in Fds : /\ descr[f] # None
               /\ descr[f].end = "push" /\ msgsock[descr[f].client] # f}

\* Nothing leaks but by a retry, or when no thread could be made: an open
\* descriptor is one that its handler is going to close, or the client has tried
\* to log in again since, or it never had a handler.
LeaksOnlyByRetry ==
  \A f \in Fds : descr[f] # None =>
    LET t == descr[f].client
    IN  \/ HoldsControl(t) /\ sockfd[t] = f
        \/ HoldsPush(t) /\ msgsock[t] = f
        \/ f \in Superseded /\ descr[f].attempt < attempt[t]
        \/ descr[f] = Unserved(t)

\* The server is out of descriptors, and its accept loop bound to end, only by
\* clients it serves, two for each, superseded attempts, one for each, and
\* connections no thread was made for: those that have left, however they were
\* served and whoever closed what, have given all of theirs back.
DescriptorBudget ==
  FreeFds = {} =>
    2 * Cardinality({t \in Clients : handler[t] \notin {"none", "ended"}})
      + Cardinality(Superseded) + Cardinality({f \in Fds : descr[f].end = "unserved"})
        >= Cardinality(Fds)

\* Nobody who has an account is kept out by a record without a client: a
\* uid is "already online" only while a handler serves its connection.
ListedIsServed ==
  \A t \in Listed : handler[t] \notin {"none", "handshake", "addclient", "ended"}

\* Handlers that wait for the mutex of a broadcast.
Queued(t) == handler[t] \in {"addclient", "announce", "goodbye", "remove"} /\ holder # None

\* What the handler of t, and its program when it waits for an answer, need to
\* go on.
HandlerMoves(t) ==
  ~down /\ \/ /\ handler[t] \notin {"none", "read", "ended"}
              /\ Queued(t) => handler[holder] \in {"announcing", "parting"}
           \/ handler[t] = "read" /\ (LoginThere(t) \/ ReadFails(t))

ProgramMoves(t) == AnswerThere(t) \/ AnswerLost(t)

\* Whoever waits for the answer to a login has it, sees the connection end, or
\* has a handler that can go on; a handler whose client has gone can go on to
\* its end.
WaitersAreServed ==
  \A t \in Clients :
    /\ program[t] = "waiting" => HandlerMoves(t) \/ ProgramMoves(t)
    /\ program[t] = "gone" /\ handler[t] \notin {"none", "ended"} /\ ~down => HandlerMoves(t)

\* Nobody is stuck: once a client has gone its handler can go on to its end,
\* and a login is answered or seen to fail, whatever becomes of the keys, the
\* descriptors and the server, or the handler waits for a broadcast that can
\* itself go on (to its next write: what a full buffer does is in PushChannel).
NobodyStuck ==
  \A t \in Clients :
    LET goes == ENABLED HandlerStep(t) \/ (Queued(t) /\ ENABLED HandlerStep(holder))
    IN  /\ program[t] = "gone" /\ handler[t] \notin {"none", "ended"} /\ ~down => goes
        /\ program[t] = "waiting" => goes \/ ENABLED ProgramReads(t)
=============================================================================
