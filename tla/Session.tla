-------------------------------- MODULE Session --------------------------------
(***************************************************************************)
(* One logged-in client and its in_handler thread: requests and answers on *)
(* the control connection, messages pushed by other handlers on the second *)
(* connection, and the one AES-CBC chain they all share.                   *)
(*                                                                         *)
(* Each end keeps a single IV for both connections and both directions     *)
(* (g_IV on the client, the iv of the session on the server) and           *)
(* AES_cbc_encrypt replaces it by the last ciphertext block of what it has *)
(* just encrypted or decrypted.  A packet therefore can be read only by an *)
(* end whose IV is the one it was written under.  Ciphertext blocks are    *)
(* numbered; nothing but their equality matters.                           *)
(*                                                                         *)
(* A packet that is read under another IV has a garbled length, padding    *)
(* included, which srv_ReadPacket refuses.  (About one garbled block in a  *)
(* million would pass for a length; that is left out, and so is a packet's *)
(* own data read as a length.)  It has then taken the length block off the *)
(* connection, and AES128_cbc has left that block as the IV: the rest of   *)
(* the packet stays in the way of everything behind it.                    *)
(***************************************************************************)
EXTENDS Integers, Sequences, FiniteSets

CONSTANTS
  Crossing,    \* whether a push or a request may start during another exchange
  Failures,    \* failures of the server that change what it reads or writes
  MaxPackets   \* bound: exchanges start while fewer packets have been written

ASSUME SessionAssumption ==
  /\ Crossing \in BOOLEAN
  /\ Failures \subseteq {"early", "list"}
  /\ MaxPackets \in Nat

VARIABLES
  g_IV,      \* the client's IV
  iv,        \* the server's IV of this session
  written,   \* the number of packets encrypted so far
  requests,  \* control connection, client to server
  answers,   \* control connection, server to client
  pushes,    \* push connection, server to client
  gtk,       \* the client's GTK thread: where it is in a request
  asked,     \* the request of the GTK thread
  receiver,  \* the client's receiver thread (client_msg_handler)
  names,     \* user names the receiver still has to query for this push
  handler,   \* the session's in_handler
  serving,   \* the request it serves, and its result
  pusher,    \* another handler that writes to this client's msgsock
  gone,      \* which of client, receiver and handler have ended
  lost       \* whether a request of the client was answered by NULL

client == <<gtk, asked, receiver, names>>
server == <<handler, serving, pusher>>
vars   == <<g_IV, iv, written, requests, answers, pushes, client, server, gone, lost>>

-----------------------------------------------------------------------------
\* The shapes of requests: one packet and one answer (most of them), no
\* answer (FOPDONE), a second packet from the client (MESSAGE, CREATEGROUP,
\* GROUPMSG), a second packet from the server (QUERYFRIEND, whose caller
\* reads it in any case, and GETGROUPS, GETGROUPUSERS).
Kinds == {"plain", "silent", "body", "friends", "groups"}

\* The IV of an end that has refused a packet: the packet's length block.  The
\* other end, which wrote it, never has this block for its own IV, so that one
\* value serves for all the blocks of one side.
InsideReply   == -1   \* the client's, after a packet of the server
InsideRequest == -2   \* the server's, after a packet of the client

IVs == Nat \cup {InsideReply, InsideRequest}

Packet == [tag : {"request", "body", "answer", "list", "push", "payload"},
           kind : Kinds \cup {"name"}, ok : BOOLEAN, under : IVs, last : Nat]

\* A packet encrypted under the chain value v.
Encrypted(tag, kind, ok, v) ==
  [tag |-> tag, kind |-> kind, ok |-> ok, under |-> v, last |-> written + 1]

\* The client writes to the control connection.
ClientWrites(tag, kind) ==
  /\ requests' = Append(requests, Encrypted(tag, kind, TRUE, g_IV))
  /\ written' = written + 1
  /\ g_IV' = written'

\* The server writes to a channel.
ServerWrites(channel, tag, kind, ok) ==
  /\ channel' = Append(channel, Encrypted(tag, kind, ok, iv))
  /\ written' = written + 1
  /\ iv' = written'

Running(end) == end \notin gone

Arrived(channel) == channel # <<>>

Readable(channel, v) == Arrived(channel) /\ Head(channel).under = v
Garbled(channel, v)  == Arrived(channel) /\ Head(channel).under # v

\* srv_ReadPacket returns NULL to the client: the end of the stream, or a length
\* that is none.  (A second read takes the next block of what is left; nobody at
\* the client reads or writes after it, so its IV is of no consequence.)
ClientGetsNull(channel) ==
  \/ Garbled(channel, g_IV) /\ g_IV' = InsideReply
  \/ ~Arrived(channel) /\ ~Running("handler") /\ UNCHANGED g_IV

\* Nothing is going on between the client and the server.
Quiet ==
  /\ requests = <<>> /\ answers = <<>> /\ pushes = <<>>
  /\ gtk = "idle" /\ receiver = "header" /\ handler = "read" /\ pusher = "idle"

MayStart == (Crossing \/ Quiet) /\ written < MaxPackets

Init ==
  /\ g_IV = 0 /\ iv = 0 /\ written = 0
  /\ requests = <<>> /\ answers = <<>> /\ pushes = <<>>
  /\ gtk = "idle" /\ asked = "plain"
  /\ receiver = "header" /\ names = 0
  /\ handler = "read" /\ serving = [kind |-> "plain", ok |-> TRUE]
  /\ pusher = "idle"
  /\ gone = {} /\ lost = FALSE

-----------------------------------------------------------------------------
\* The GTK thread.

\* A callback writes the first packet of a request.
Ask(kind) ==
  /\ Running("client") /\ ~lost
  /\ gtk = "idle"
  /\ MayStart
  /\ ClientWrites("request", kind)
  /\ asked' = kind
  /\ gtk' = CASE kind = "silent" -> "idle"
              [] kind = "body"   -> "body"
              [] OTHER           -> "answer"
  /\ UNCHANGED <<iv, answers, pushes, receiver, names, server, gone, lost>>

\* It writes the message, or the list of group members, without waiting for
\* an answer to the first packet.
AskBody ==
  /\ Running("client")
  /\ gtk = "body"
  /\ ClientWrites("body", asked)
  /\ gtk' = "answer"
  /\ UNCHANGED <<iv, answers, pushes, asked, receiver, names, server, gone, lost>>

\* It reads the answer.  get_user_list goes on to the list whatever the
\* answer is; queryGroup and queryGroupUsers only after a good one.
ReadAnswer ==
  /\ Running("client")
  /\ gtk = "answer"
  /\ Readable(answers, g_IV)
  /\ g_IV' = Head(answers).last
  /\ answers' = Tail(answers)
  /\ gtk' = IF asked = "friends" \/ (asked = "groups" /\ Head(answers).ok)
            THEN "list" ELSE "idle"
  /\ UNCHANGED <<iv, written, requests, pushes, asked, receiver, names, server, gone, lost>>

ReadList ==
  /\ Running("client")
  /\ gtk = "list"
  /\ Readable(answers, g_IV)
  /\ g_IV' = Head(answers).last
  /\ answers' = Tail(answers)
  /\ gtk' = "idle"
  /\ UNCHANGED <<iv, written, requests, pushes, asked, receiver, names, server, gone, lost>>

\* srv_ReadPacket returns NULL to the GTK thread: a garbled packet, or the end
\* of the stream.  The request fails; what the callbacks make of the stream
\* afterwards is not followed.
ReadNull ==
  /\ Running("client")
  /\ gtk \in {"answer", "list"}
  /\ ClientGetsNull(answers)
  /\ gtk' = "idle"
  /\ lost' = TRUE
  /\ UNCHANGED <<iv, written, requests, answers, pushes, asked, receiver, names,
                 server, gone>>

\* The user closes the program.
Exit ==
  /\ Running("client")
  /\ gone' = gone \cup {"client", "receiver"}
  /\ UNCHANGED <<g_IV, iv, written, requests, answers, pushes, client, server, lost>>

-----------------------------------------------------------------------------
\* The receiver thread.

\* The header of a push; some have no second packet.
ReadPush ==
  /\ Running("receiver")
  /\ receiver = "header"
  /\ Readable(pushes, g_IV)
  /\ g_IV' = Head(pushes).last
  /\ pushes' = Tail(pushes)
  /\ receiver' = IF Head(pushes).ok THEN "payload" ELSE "header"
  /\ UNCHANGED <<iv, written, requests, answers, gtk, asked, names, server, gone, lost>>

\* The second packet.  A message needs the sender's name for the window or
\* the notice and again for the history file, others once or not at all.
ReadPayload ==
  /\ Running("receiver")
  /\ receiver = "payload"
  /\ Readable(pushes, g_IV)
  /\ g_IV' = Head(pushes).last
  /\ pushes' = Tail(pushes)
  /\ \E n \in 0..2 :
       /\ names' = n
       /\ receiver' = IF n = 0 THEN "header" ELSE "query"
  /\ UNCHANGED <<iv, written, requests, answers, gtk, asked, server, gone, lost>>

\* QueryUserName, on the connection that the GTK thread uses too.
QueryUserName ==
  /\ Running("receiver") /\ ~lost
  /\ receiver = "query"
  /\ ClientWrites("request", "name")
  /\ receiver' = "name"
  /\ UNCHANGED <<iv, answers, pushes, gtk, asked, names, server, gone, lost>>

\* The rest of QueryUserName; the push has been dealt with after the last name.
ReadName ==
  /\ Running("receiver")
  /\ receiver = "name"
  /\ Readable(answers, g_IV)
  /\ g_IV' = Head(answers).last
  /\ answers' = Tail(answers)
  /\ names' = names - 1
  /\ receiver' = IF names = 1 THEN "header" ELSE "query"
  /\ UNCHANGED <<iv, written, requests, pushes, gtk, asked, server, gone, lost>>

\* srv_ReadPacket returns NULL: the receiver logs "Server Disconnected" or
\* "Transmission error" and ends.  In QueryUserName the NULL is parsed.
ReceiverEnds ==
  /\ Running("receiver")
  /\ \/ receiver \in {"header", "payload"} /\ ClientGetsNull(pushes)
     \/ receiver = "name" /\ ClientGetsNull(answers)
  /\ gone' = gone \cup {"receiver"}
  /\ UNCHANGED <<iv, written, requests, answers, pushes, client, server, lost>>

-----------------------------------------------------------------------------
\* The handler of this session.

\* Mutant: FOPDONE is answered like the other requests.
ReadRequest_AnswersAll ==
  /\ Running("handler")
  /\ handler = "read"
  /\ Readable(requests, iv)
  /\ iv' = Head(requests).last
  /\ requests' = Tail(requests)
  /\ serving' = [kind |-> Head(requests).kind, ok |-> TRUE]
  /\ handler' = CASE Head(requests).tag = "body"  -> "read"
                  [] Head(requests).kind = "body" -> "body"
                  [] OTHER                        -> "answer"
  /\ UNCHANGED <<g_IV, written, answers, pushes, client, pusher, gone, lost>>

\* in_handler reads a packet and serves it up to its first answer.  A
\* protocol_* function that fails early (target offline, too many members, no
\* database) returns before it has read the second packet of the request,
\* which is then read, and ignored, as a malformed request.
ReadRequest ==
  /\ Running("handler")
  /\ handler = "read"
  /\ Readable(requests, iv)
  /\ iv' = Head(requests).last
  /\ requests' = Tail(requests)
  /\ LET p == Head(requests)
     IN  \/ /\ p.tag = "body" \/ p.kind = "silent"
            /\ UNCHANGED <<handler, serving>>
         \/ /\ p.tag = "request" /\ p.kind = "body"
            /\ serving' = [kind |-> "body", ok |-> TRUE]
            /\ handler' = "body"
         \/ /\ p.tag = "request" /\ p.kind = "body" /\ "early" \in Failures
            /\ serving' = [kind |-> "body", ok |-> FALSE]
            /\ handler' = "answer"
         \/ /\ p.tag = "request" /\ p.kind \notin {"body", "silent"}
            /\ \E ok \in BOOLEAN :
                 /\ p.kind \in {"friends", "groups"} /\ "list" \notin Failures => ok
                 /\ serving' = [kind |-> p.kind, ok |-> ok]
            /\ handler' = "answer"
  /\ UNCHANGED <<g_IV, written, answers, pushes, client, pusher, gone, lost>>

\* The second packet of a request.
ReadBody ==
  /\ Running("handler")
  /\ handler = "body"
  /\ Readable(requests, iv)
  /\ iv' = Head(requests).last
  /\ requests' = Tail(requests)
  /\ \E ok \in BOOLEAN : serving' = [serving EXCEPT !.ok = ok]
  /\ handler' = "answer"
  /\ UNCHANGED <<g_IV, written, answers, pushes, client, pusher, gone, lost>>

\* Mutants: the answer is encrypted with a copy of the IV; the list that goes
\* with an answer is forgotten.
Answer_CopiesIV ==
  /\ Running("handler")
  /\ handler = "answer"
  /\ answers' = Append(answers, Encrypted("answer", serving.kind, serving.ok, iv))
  /\ written' = written + 1
  /\ handler' = IF serving.kind \in {"friends", "groups"} /\ serving.ok THEN "list" ELSE "read"
  /\ UNCHANGED <<g_IV, iv, requests, pushes, client, serving, pusher, gone, lost>>

Answer_NoList ==
  /\ Running("handler")
  /\ handler = "answer"
  /\ ServerWrites(answers, "answer", serving.kind, serving.ok)
  /\ handler' = "read"
  /\ UNCHANGED <<g_IV, requests, pushes, client, serving, pusher, gone, lost>>

\* The answer; a list follows only a good one.
Answer ==
  /\ Running("handler")
  /\ handler = "answer"
  /\ ServerWrites(answers, "answer", serving.kind, serving.ok)
  /\ handler' = IF serving.kind \in {"friends", "groups"} /\ serving.ok THEN "list" ELSE "read"
  /\ UNCHANGED <<g_IV, requests, pushes, client, serving, pusher, gone, lost>>

AnswerList ==
  /\ Running("handler")
  /\ handler = "list"
  /\ ServerWrites(answers, "list", serving.kind, TRUE)
  /\ handler' = "read"
  /\ UNCHANGED <<g_IV, requests, pushes, client, serving, pusher, gone, lost>>

\* Mutant: a read that finds nothing is taken for the end of the stream.
HandlerEnds_OnSilence ==
  /\ Running("handler")
  /\ \/ handler \in {"read", "body"} /\ Garbled(requests, iv) /\ iv' = InsideRequest
     \/ handler \in {"read", "body"} /\ ~Arrived(requests) /\ UNCHANGED iv
     \/ handler \in {"answer", "list"} /\ ~Running("client") /\ UNCHANGED iv
  /\ gone' = gone \cup {"handler"}
  /\ UNCHANGED <<g_IV, written, requests, answers, pushes, client, server, lost>>

\* The disconnect branch: srv_ReadPacket returned NULL, or a write to a
\* client that has gone failed.
HandlerEnds ==
  /\ Running("handler")
  /\ \/ handler \in {"read", "body"} /\ Garbled(requests, iv) /\ iv' = InsideRequest
     \/ /\ handler \in {"read", "body"} /\ ~Arrived(requests) /\ ~Running("client")
        /\ UNCHANGED iv
     \/ handler \in {"answer", "list"} /\ ~Running("client") /\ UNCHANGED iv
  /\ gone' = gone \cup {"handler"}
  /\ UNCHANGED <<g_IV, written, requests, answers, pushes, client, server, lost>>

-----------------------------------------------------------------------------
\* Another handler thread pushes to this client (protocol_Message, the
\* broadcasts, login_Notify ...) with the key and IV in the client's record.

Push(more) ==
  /\ Running("handler")
  /\ pusher = "idle"
  /\ MayStart
  /\ ServerWrites(pushes, "push", "plain", more)
  /\ pusher' = IF more THEN "payload" ELSE "idle"
  /\ UNCHANGED <<g_IV, requests, answers, client, handler, serving, gone, lost>>

PushPayload ==
  /\ pusher = "payload"
  /\ ServerWrites(pushes, "payload", "plain", TRUE)
  /\ pusher' = "idle"
  /\ UNCHANGED <<g_IV, requests, answers, client, handler, serving, gone, lost>>

-----------------------------------------------------------------------------
GtkStep      == AskBody \/ ReadAnswer \/ ReadList \/ ReadNull
ReceiverStep == ReadPush \/ ReadPayload \/ QueryUserName \/ ReadName \/ ReceiverEnds
HandlerStep  == ReadRequest \/ ReadBody \/ Answer \/ AnswerList \/ HandlerEnds
PusherStep   == PushPayload

Next ==
  \/ \E kind \in Kinds : Ask(kind)
  \/ \E more \in BOOLEAN : Push(more)
  \/ Exit
  \/ GtkStep \/ ReceiverStep \/ HandlerStep \/ PusherStep

\* Threads that can go on do.  Users and other clients need not do anything.
Fairness ==
  /\ WF_vars(GtkStep) /\ WF_vars(ReceiverStep)
  /\ WF_vars(HandlerStep) /\ WF_vars(PusherStep)

Spec == Init /\ [][Next]_vars /\ Fairness

-----------------------------------------------------------------------------
\* Every variable stays within its type.
TypeOK ==
  /\ g_IV \in Nat \cup {InsideReply} /\ iv \in Nat \cup {InsideRequest} /\ written \in Nat
  /\ requests \in Seq(Packet) /\ answers \in Seq(Packet) /\ pushes \in Seq(Packet)
  /\ gtk \in {"idle", "body", "answer", "list"}
  /\ asked \in Kinds
  /\ receiver \in {"header", "payload", "query", "name"}
  /\ names \in 0..2
  /\ handler \in {"read", "body", "answer", "list"}
  /\ serving \in [kind : Kinds \cup {"name"}, ok : BOOLEAN]
  /\ pusher \in {"idle", "payload"}
  /\ gone \subseteq {"client", "receiver", "handler"}
  /\ lost \in BOOLEAN

\* Whenever nothing is going on, both ends have the same IV, whatever crossed or
\* failed before: chains that parted leave a packet that nobody can read.
InStep == Quiet => g_IV = iv

NoneUnder(q, v) == \A n \in 1 .. Len(q) : q[n].under # v

\* The two chains have parted: no end can read what the other has written.
Apart ==
  /\ g_IV # iv
  /\ NoneUnder(requests, iv) /\ NoneUnder(answers, g_IV) /\ NoneUnder(pushes, g_IV)

\* Both channels to the client hold packets: its two threads may read them in
\* another order than they were written in.
BothChannels == Arrived(answers) /\ Arrived(pushes)

\* While the program is open, the handler gives up a client ("Client (%s:%d)
\* disconnected", server_main.c:30) only after the chains have parted: the two
\* ends have written to each other at the same time, or the client has refused a
\* packet.  The receiver ("Server Disconnected", handler.c:417) and a request give
\* up a handler that is there only then, or when an answer and a push arrive
\* together.  No request that fails early, no failed query and no push that takes
\* its turn is taken for a disconnection.
LostOnlyByCrossing ==
  [][Running("client") /\ Running("client")' =>
       /\ (Running("handler") /\ ~Running("handler")') => Apart
       /\ (Running("handler") /\ Running("receiver") /\ ~Running("receiver")')
            => Apart \/ BothChannels
       /\ (Running("handler") /\ ~lost /\ lost') => Apart \/ BothChannels]_vars

\* What the GTK thread finds when it waits for an answer is the answer to its
\* own request, and when it waits for a list, a list; no answer is left over
\* for a request to come.
AnswersMatch ==
  /\ Arrived(answers) /\ Running("client") =>
       \/ gtk = "answer" /\ Head(answers).tag = "answer" /\ Head(answers).kind = asked
       \/ gtk = "list" /\ Head(answers).tag = "list" /\ Head(answers).kind = asked
       \/ receiver = "name" /\ Head(answers).kind = "name"
  /\ gtk = "idle" /\ receiver # "name" /\ Running("client") => ~Arrived(answers)

\* The answers the server still owes or has under way, and the threads of the
\* client that wait for one.
Count(q, tag) == Cardinality({n \in 1 .. Len(q) : q[n].tag = tag /\ q[n].kind # "silent"})

Owed ==
  Count(requests, "request") + Count(answers, "answer")
    + (IF handler \in {"body", "answer"} THEN 1 ELSE 0)

Awaited ==
  (IF gtk \in {"body", "answer"} THEN 1 ELSE 0) + (IF receiver = "name" THEN 1 ELSE 0)

\* However pushes, requests and failures cross, nobody gets an answer that
\* nobody asked for: unless a request was given up for garbled, there are
\* never more answers to come than threads that wait for one.
NoUnsolicitedAnswer == lost \/ Owed <= Awaited

\* A request of the GTK thread comes back: the window is not frozen for ever.
RequestReturns == gtk # "idle" ~> (gtk = "idle" \/ ~Running("client"))
=============================================================================
