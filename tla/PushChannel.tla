----------------------------- MODULE PushChannel -----------------------------
(***************************************************************************)
(* One client's push connection, and all that write to it.                 *)
(*                                                                         *)
(* The handlers of other clients, and the client's own, push to it: a      *)
(* header packet and, for most kinds, a body packet, by two calls of       *)
(* srv_WritePacket.  Broadcasts (login_NotifyAllLogin, login_NotifyAll)    *)
(* hold g_LoginMutex over all their writes, the others                     *)
(* (protocol_Message, protocol_SendFile, protocol_AddFriend, login_Notify) *)
(* only over the lookup.  A write waits while the socket's buffer is full. *)
(* The client's receiver thread, client_msg_handler, reads header by       *)
(* header, and asks the client's own handler for the name of the sender of *)
(* most, over the control connection and behind what the GTK thread has    *)
(* asked.                                                                  *)
(*                                                                         *)
(* srv_WritePacket is two encryptions and two writes under the receiving   *)
(* client's key and IV, which its control connection uses too: two writes  *)
(* at once, or a push that passes a request, and what follows cannot be    *)
(* relied on.  The IVs are in Session, the lengths in Wire; here a packet  *)
(* is the number of its push and the part of it that it is, and a          *)
(* connection once spoilt gives its reader anything.                       *)
(***************************************************************************)
EXTENDS Wire, Sequences, FiniteSets

CONSTANTS
  Others,     \* handlers of other clients
  Home,       \* the handler of this client
  Kinds,      \* the kinds of push that are made
  Sizes,      \* body sizes a client asks to have passed on
  Room,       \* packets the buffer of the connection holds
  MaxPushes,  \* bound: pushes begun
  None

Handlers == Others \cup {Home}

Broadcasts == {"login", "name"}                      \* under the mutex
Plain      == {"friend", "befriend", "delfriend"}    \* a header only
Relayed    == {"message", "group"}                   \* a client's own bytes
AskName    == {"message", "file", "login"}           \* the receiver asks
AllKinds   == Broadcasts \cup Plain \cup Relayed \cup {"file", "newgroup"}

ASSUME PushChannelAssumption ==
  /\ Home \notin Others /\ None \notin Handlers
  /\ Kinds \subseteq AllKinds
  /\ Sizes \subseteq {n \in Nat : TakesGroupMessage(n)}
  /\ Room \in Nat \ {0} /\ MaxPushes \in Nat

VARIABLES
  pc,         \* per handler: where its push is
  push,       \* per handler: kind, size and number of the push it makes
  holder,     \* g_LoginMutex
  channel,    \* the packets in the buffer of the push connection
  requests,   \* what the client has asked its own handler, oldest first
  receiver,   \* where client_msg_handler is
  reading,    \* the push whose body it is about to read
  posted,     \* pushes whose header has been written
  shown,      \* what was read as header and body of one push
  harm        \* "overlapped": a header was written between another's two packets;
              \* "spoilt": two packets were written at once, or one passed a request

vars == <<pc, push, holder, channel, requests, receiver, reading, posted, shown, harm>>

PCs == {"idle", "lookup", "lock", "header", "between", "body"}

\* Inside srv_WritePacket, and between the start and the end of a push's two
\* packets.
Writing(h) == pc[h] \in {"header", "body"}
Halfway(h) == pc[h] \in {"between", "body"}

NoPush == [kind |-> "none", size |-> 0, number |-> 0]

\* Whether a second packet follows the header.
HasBody(kind) == kind \notin Plain

\* The body of a group message has the group's id in front.
BodySize(p) == IF p.kind = "group" THEN p.size + GidSize ELSE p.size

Goto(h, label) == pc' = [pc EXCEPT ![h] = label]

\* Pushes begun whose header is still to be written.
Underway == {h \in Handlers : push[h] # NoPush /\ push[h].number = 0}

Init ==
  /\ pc = [h \in Handlers |-> "idle"]
  /\ push = [h \in Handlers |-> NoPush]
  /\ holder = None
  /\ channel = <<>>
  /\ requests = <<>>
  /\ receiver = "header"
  /\ reading = NoPush
  /\ posted = 0
  /\ shown = <<>>
  /\ harm = "none"

-----------------------------------------------------------------------------
\* The handlers.

\* srv_WritePacket begins: while another is at it, the blocks of the two get
\* between each other.
EnterWrite(h, label) ==
  /\ Goto(h, label)
  /\ harm' = IF \E g \in Handlers \ {h} : Writing(g) THEN "spoilt" ELSE harm

\* A push and a request under way at once may be encrypted in one order and
\* decrypted in the other.
MayCross(meets) == meets /\ harm' = "spoilt"

\* What ends a request: the mutex is released, the client answered.
Finish(h) ==
  /\ Goto(h, "idle")
  /\ push' = [push EXCEPT ![h] = NoPush]
  /\ holder' = IF holder = h THEN None ELSE holder
  /\ requests' = IF h = Home THEN Tail(requests) ELSE requests

\* A handler begins a request of its client that pushes to this one; a size
\* matters for a group message only.
Begin(h, kind, size) ==
  /\ pc[h] = "idle"
  /\ posted + Cardinality(Underway) < MaxPushes
  /\ h = Home => /\ requests # <<>> /\ Head(requests) = "work"
                 /\ kind \notin Broadcasts \cup {"group"}
  /\ kind # "group" => \A n \in Sizes : size <= n
  /\ push' = [push EXCEPT ![h] = [kind |-> kind, size |-> size, number |-> 0]]
  /\ Goto(h, IF kind \in Broadcasts THEN "lock" ELSE "lookup")
  /\ UNCHANGED <<holder, channel, requests, receiver, reading, posted, shown, harm>>

\* The handler of this client begins a request that does not come back to it:
\* a broadcast leaves its own record out, a message is for somebody else.  It
\* needs the mutex all the same; the other connections are taken to have room.
BeginElsewhere ==
  /\ pc[Home] = "idle"
  /\ requests # <<>> /\ Head(requests) = "work"
  /\ Goto(Home, "lookup")
  /\ UNCHANGED <<push, holder, channel, requests, receiver, reading, posted, shown, harm>>

\* login_FindOnlineClientByUID, and the first srv_WritePacket begins.
Lookup(h) ==
  /\ pc[h] = "lookup" /\ holder = None
  /\ IF push[h] = NoPush
     THEN Finish(h) /\ UNCHANGED harm
     ELSE EnterWrite(h, "header") /\ UNCHANGED <<push, holder, requests>>
  /\ UNCHANGED <<channel, receiver, reading, posted, shown>>

\* Mutant: a broadcast goes on without the mutex.
Lock_Free(h) ==
  /\ pc[h] = "lock"
  /\ EnterWrite(h, "header")
  /\ UNCHANGED <<push, holder, channel, requests, receiver, reading, posted, shown>>

\* pthread_mutex_lock of a broadcast, and its first srv_WritePacket.
Lock(h) ==
  /\ pc[h] = "lock" /\ holder = None
  /\ holder' = h
  /\ EnterWrite(h, "header")
  /\ UNCHANGED <<push, channel, requests, receiver, reading, posted, shown>>

\* A write waits for room; to a receiver that has closed its end it fails.
MayWrite == receiver # "ended" /\ Len(channel) < Room

WriteFails(h) ==
  /\ Writing(h) /\ receiver = "ended"
  /\ Finish(h)
  /\ UNCHANGED <<channel, receiver, reading, posted, shown, harm>>

\* The first srv_WritePacket of a push returns.
WriteHeader(h) ==
  LET numbered == [push[h] EXCEPT !.number = posted + 1]
  IN  /\ pc[h] = "header" /\ MayWrite
      /\ channel' = Append(channel, [of |-> numbered, part |-> "header"])
      /\ posted' = posted + 1
      /\ \/ harm' = IF harm = "none" /\ (\E g \in Handlers \ {h} : Halfway(g))
                  THEN "overlapped" ELSE harm
         \/ MayCross(requests # <<>>)
      /\ IF HasBody(push[h].kind)
         THEN /\ push' = [push EXCEPT ![h] = numbered]
              /\ Goto(h, "between")
              /\ UNCHANGED <<holder, requests>>
         ELSE Finish(h)
      /\ UNCHANGED <<receiver, reading, shown>>

\* The second one begins ...
EnterBody(h) ==
  /\ pc[h] = "between"
  /\ EnterWrite(h, "body")
  /\ UNCHANGED <<push, holder, channel, requests, receiver, reading, posted, shown>>

\* ... and returns.
WriteBody(h) ==
  /\ pc[h] = "body" /\ MayWrite
  /\ channel' = Append(channel, [of |-> push[h], part |-> "body"])
  /\ UNCHANGED harm \/ MayCross(requests # <<>>)
  /\ Finish(h)
  /\ UNCHANGED <<receiver, reading, posted, shown>>

\* Mutant: the request is dropped without an answer.
AnswerName_Drops ==
  /\ pc[Home] = "idle"
  /\ requests # <<>> /\ Head(requests) = "name"
  /\ requests' = Tail(requests)
  /\ UNCHANGED <<pc, push, holder, channel, receiver, reading, posted, shown, harm>>

\* The handler of this client answers PTYPE_GETNAME.  Whether the answer can be
\* read is in Session: QueryUserName returns and the thread goes on either way.
AnswerName ==
  /\ pc[Home] = "idle"
  /\ requests # <<>> /\ Head(requests) = "name"
  /\ requests' = Tail(requests)
  /\ receiver' = CASE receiver = "window" -> "show"
                   [] receiver = "notice" -> "file"
                   [] receiver = "name" -> "header"
                   [] OTHER -> receiver
  /\ UNCHANGED <<pc, push, holder, channel, reading, posted, shown, harm>>

-----------------------------------------------------------------------------
\* The client.

\* A request is written, which a push that is under way may pass.
Request(r) ==
  /\ requests' = Append(requests, r)
  /\ UNCHANGED harm \/ MayCross(channel # <<>> \/ \E h \in Handlers : Writing(h))

\* The GTK thread asks for something, and waits for the answer.
Ask ==
  /\ \A i \in 1 .. Len(requests) : requests[i] # "work"
  /\ Request("work")
  /\ UNCHANGED <<pc, push, holder, channel, receiver, reading, posted, shown>>

\* The size of a packet, a USER_MSG of twelve bytes or a body.
PacketSize(packet) == IF packet.part = "header" THEN 12 ELSE BodySize(packet.of)

\* srv_ReadPacket returns NULL: the thread closes its end and exits.
GiveUp ==
  /\ receiver' = "ended" /\ channel' = <<>>
  /\ reading' = NoPush
  /\ UNCHANGED <<requests, shown>>

\* On a spoilt connection that can happen at any read, of the bytes that are left
\* of a packet taken for read too.
ReadRefused ==
  /\ receiver \in {"header", "body"} /\ harm = "spoilt"
  /\ GiveUp
  /\ UNCHANGED <<pc, push, holder, posted, harm>>

\* Mutant: what is read in the place of a header is taken for one.
ReadHeader_NoMagic ==
  /\ receiver = "header" /\ channel # <<>>
  /\ channel' = Tail(channel)
  /\ LET packet == Head(channel)
     IN  IF HasBody(packet.of.kind)
         THEN receiver' = "body" /\ reading' = packet.of /\ UNCHANGED shown
         ELSE /\ shown' = Append(shown, <<packet.of.number, packet.of.number>>)
              /\ UNCHANGED <<receiver, reading>>
  /\ UNCHANGED <<pc, push, holder, requests, posted, harm>>

\* Mutant: what has no magic number is a lost connection.
ReadHeader_Ends ==
  \/ ReadHeader_NoMagic /\ Head(channel).part = "header"
  \/ /\ receiver = "header" /\ channel # <<>> /\ Head(channel).part = "body"
     /\ GiveUp
     /\ UNCHANGED <<pc, push, holder, posted, harm>>

\* client_msg_handler, the first read, of up to MAX_PACKET bytes: a body read in
\* the place of a header, or the junk of a spoilt connection, has none of the
\* magic numbers and is dropped; a refusal ends the thread here too.
ReadHeader ==
  /\ receiver = "header" /\ channel # <<>>
  /\ LET packet == Head(channel)
     IN  \/ /\ Received(PacketSize(packet), MaxPacket) = Refused
            /\ GiveUp
         \/ /\ Received(PacketSize(packet), MaxPacket) # Refused
            /\ channel' = Tail(channel)
            /\ \/ /\ packet.part = "body" \/ harm = "spoilt"
                  /\ UNCHANGED <<receiver, reading, shown>>
               \/ /\ packet.part = "header" /\ ~HasBody(packet.of.kind)
                  /\ shown' = Append(shown, <<packet.of.number, packet.of.number>>)
                  /\ UNCHANGED <<receiver, reading>>
               \/ /\ packet.part = "header" /\ HasBody(packet.of.kind)
                  /\ receiver' = "body" /\ reading' = packet.of
                  /\ UNCHANGED shown
            /\ UNCHANGED requests
  /\ UNCHANGED <<pc, push, holder, posted, harm>>

\* Mutant: the name is asked for before the body is read.
ReadBody_AsksFirst ==
  /\ receiver = "body"
  /\ receiver' = "name" /\ Request("name")
  /\ reading' = NoPush
  /\ UNCHANGED <<pc, push, holder, channel, posted, shown>>

\* ... and the second, of the size the header has told.  The name of the sender
\* is asked for, to be shown in an open window or a notice; not for the notice
\* of a group.  The text of a spoilt packet may be junk.
ReadBody ==
  /\ receiver = "body" /\ channel # <<>>
  /\ \/ /\ Received(PacketSize(Head(channel)), BodySize(reading)) = Refused
        /\ GiveUp
        /\ UNCHANGED harm
     \/ /\ Received(PacketSize(Head(channel)), BodySize(reading)) # Refused
        /\ reading' = NoPush
        /\ channel' = Tail(channel)
        /\ shown' = Append(shown, <<reading.number, Head(channel).of.number>>)
        /\ \/ /\ reading.kind \in AskName \ Relayed
              /\ receiver' = "name" /\ Request("name")
           \/ /\ reading.kind \in Relayed
              /\ receiver' = "window" /\ Request("name")
           \/ /\ reading.kind = "message"
              /\ receiver' = "notice" /\ Request("name")
           \/ /\ reading.kind = "group"
              /\ receiver' = "file" /\ UNCHANGED <<requests, harm>>
           \/ /\ reading.kind \notin AskName \cup Relayed
              /\ receiver' = "header" /\ UNCHANGED <<requests, harm>>
  /\ UNCHANGED <<pc, push, holder, posted>>

\* The text goes into the window under the GDK lock, which the GTK thread holds
\* from a request to its answer.
AppendText ==
  /\ receiver = "show"
  /\ \A i \in 1 .. Len(requests) : requests[i] # "work"
  /\ receiver' = "file"
  /\ UNCHANGED <<pc, push, holder, channel, requests, reading, posted, shown, harm>>

\* addChatHistory and addGroupHistory: with the file open, the name again.
AddHistory ==
  /\ receiver = "file"
  /\ \/ receiver' = "name" /\ Request("name")
     \/ receiver' = "header" /\ UNCHANGED <<requests, harm>>
  /\ UNCHANGED <<pc, push, holder, channel, reading, posted, shown>>

-----------------------------------------------------------------------------
HandlerStep(h) ==
  \/ Lookup(h) \/ Lock(h) \/ EnterBody(h)
  \/ WriteHeader(h) \/ WriteBody(h) \/ WriteFails(h)

Serve == AnswerName \/ BeginElsewhere \/ \E kind \in Kinds, size \in Sizes : Begin(Home, kind, size)

Receive == ReadHeader \/ ReadBody \/ ReadRefused \/ AddHistory

Next ==
  \/ \E h \in Handlers : HandlerStep(h)
  \/ \E h \in Others, kind \in Kinds, size \in Sizes : Begin(h, kind, size)
  \/ Serve \/ Ask \/ Receive \/ AppendText

\* Threads run; the mutex is not handed out in turn.  The GDK lock is free for
\* as long as the user does nothing, which is when the receiver gets it.
Spec ==
  /\ Init /\ [][Next]_vars
  /\ \A h \in Handlers : WF_vars(HandlerStep(h))
  /\ WF_vars(Serve) /\ WF_vars(Receive) /\ SF_vars(AppendText)

-----------------------------------------------------------------------------
Push == [kind : Kinds, size : Sizes, number : Nat]

\* Every variable keeps its type.
TypeOK ==
  /\ pc \in [Handlers -> PCs]
  /\ push \in [Handlers -> Push \cup {NoPush}]
  /\ holder \in Handlers \cup {None}
  /\ channel \in Seq([of : Push, part : {"header", "body"}])
  /\ requests \in Seq({"work", "name"})
  /\ receiver \in {"header", "body", "name", "window", "notice", "show", "file", "ended"}
  /\ reading \in Push \cup {NoPush}
  /\ posted \in Nat
  /\ shown \in Seq(Nat \X Nat)
  /\ harm \in {"none", "overlapped", "spoilt"}

\* Push n is on its way: its header is in the buffer, or its body is still to be
\* read.
OnItsWay(n) ==
  \/ reading # NoPush /\ reading.number = n
  \/ \E i \in 1 .. Len(channel) : channel[i].part = "header" /\ channel[i].of.number = n

\* As long as nothing was written into another push or another packet, and none
\* passed a request, the connection is a queue of whole messages: what was pushed
\* is what was shown, each header with its own body, and then what is on its
\* way, in order.
NothingLost ==
  harm = "none" /\ receiver # "ended" =>
    /\ \A i \in 1 .. Len(shown) : shown[i] = <<i, i>>
    /\ \A n \in Len(shown) + 1 .. posted : OnItsWay(n)
    /\ \A i, j \in 1 .. Len(channel) :
         i < j /\ channel[i].part = channel[j].part
           => channel[i].of.number < channel[j].of.number

\* Two broadcasts never get between each other's packets, or between the blocks
\* of one: what does is a push that does not hold the mutex (login.c:223).
OverlapIsUnlocked ==
  [][/\ harm' # harm
     /\ harm' = "overlapped" \/ \E h \in Handlers : ~Writing(h) /\ Writing(h)'
     => \E h \in Handlers :
         /\ Writing(h) \/ Halfway(h) \/ Writing(h)'
         /\ push[h].kind \notin Broadcasts]_vars

\* The receiver thread ends only on a spoilt connection, or over a group message
\* whose size the server accepts and, with the id in front, no client does.
\* That is so also for a body read out of place, after pushes have overlapped.
EndsOnlyInGap ==
  [][receiver' # receiver /\ receiver' = "ended" =>
       \/ harm = "spoilt"
       \/ /\ Head(channel).of.kind = "group"
          /\ Head(channel).of.size \in (MaxPacket - 20) .. (MaxPacket - 17)]_vars

\* The receiver waits for its own handler, or for the GDK lock of a GTK thread
\* that does, and that one for the mutex whose holder waits for the receiver, or
\* itself for the receiver.
CircularWait ==
  /\ receiver \in {"name", "window", "notice", "show"} /\ Len(channel) = Room
  /\ requests # <<>> /\ Head(requests) = "work"
  /\ (pc[Home] = "lookup" /\ holder # None) \/ Writing(Home)

\* Again and again all that was pushed has been shown, unless that happens, the
\* connection has been overlapped or spoilt, or the receiver has ended.
Delivered ==
  []<>(Len(shown) = posted \/ CircularWait \/ harm # "none" \/ receiver = "ended")

\* A push connection with its handlers and its receiver keeps the promise of Feed:
\* whatever overlaps, pushes are shown in the order in which their headers were
\* written, each at most once, and before an overlap or a spoilt packet none is
\* skipped, none has another's text, and the reader gives up only over a push.
Promise == INSTANCE Feed WITH mixed <- harm # "none", ended <- receiver = "ended"

ImplementsFeed == Promise!Spec
=============================================================================
