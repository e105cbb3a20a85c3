# Verification of Sealink / Linpop

Sealink is a GTK instant messenger in C (`src/sealink`) with its server
(`src/Linpop_Server`). The server runs one thread per client connection over
shared state: a linked list of online clients behind one mutex, and a MySQL
database. This directory holds TLA+ modules translated from that code, their
TLC instances and TLAPS proofs.

## 1. Inventory

| Component | State it keeps | Operations | Interacts with |
|---|---|---|---|
| Handler threads (`server_main.c` `in_handler`) | `sockfd`, `msgsock`, `client_info`, key and IV | one branch per `PTYPE_*`, nine identical disconnect tails | every other server part |
| Online list (`login.c`) | `g_Online`, `g_LoginMutex`; per `CLIENT`: uid, address, `msgsock`, key, iv, `freq`, `next` | `login_AddClient`, `login_DisconnectClient`, `login_FindOnlineClientByUID`, `login_NotifyAll*`, `login_Notify`, `login_AddFileReq`, `login_RemoveFileReq` | handlers; writes to push channels under the mutex |
| Requests (`protocol.c`) | none of their own | `protocol_Message`, `protocol_SendFile`, `protocol_BeFriend`, `protocol_CreateGroup`, ... | look records up, read the caller's socket, query the database, write to the target's push channel |
| Database (`dbconn.c`) | tables user, friends, groups | one or several auto-committed statements per function, one MySQL connection per request | requests |
| Packet layer (`server.c`, `common.c`, both sides) | chained AES-CBC IV (per session on the server, the global `g_IV` on the client) | `srv_ReadPacket`, `srv_WritePacket`, `srv_DoHandshake`, `readAll`, `writeAll` | both sockets of a client share key and IV |
| Client requests (`handler.c`, `user_dao.c`, `group_dao.c`) | `g_sockfd`, `g_IV` | write a request, read its answer | called from the GTK thread and from the receiver thread, without a lock |
| Client receiver (`handler.c` `client_msg_handler`) | its push socket, `windows`, `group_windows`, `g_FileSz` | one branch per `USER*_MAGIC` | client requests (`QueryUserName`), the notification slot, open windows |
| Client notification slot (`notification.c`) | `g_notify`, `watcherStart` | `addnotify`, `notifyWatcher`, `notify` | receiver thread writes, GTK timer reads |
| File transfer (server `protocol.c`, client `handler.c`) | the record's `freq` slot; FILET_PORT on the sender | SENDFILE, GETFILE, FOPDONE, peer-to-peer copy | online list, push channel |
| Groups (`dbconn.c`, `protocol.c`) | table groups, one row per member | create, query, send to all members | database, push channels |
| Accounts (`dbconn.c`, `protocol.c`, `callbacks.c`) | table user; per client `g_s.nick_name`, `g_s.avatar_id` | register, log in, name and avatar | database, the client's windows |
| Chat windows (`chat_window.c`, `callbacks.c`) | `windows`, `group_windows`, the texts, the history files | open, close, append | GTK thread, receiver thread |
| GTK windows, settings, screenshots, avatars | widgets | | user interface only |

### What is hard

* Threads share `CLIENT` records, but only the list is protected by the mutex:
  every request keeps a looked-up pointer after the lookup has unlocked, often
  across a blocking read or a database query.
* Broadcasts write to sockets while they hold the mutex.
* Test-then-act in two critical sections (`login_AddClient`).
* Goodbye broadcast and removal are two critical sections.
* Multi-row changes (friends, groups) commit statement by statement.
* A push message is two packets (header, body) and nothing keeps two senders
  from interleaving theirs on one socket; the IV is chained through both.
* The client's two threads use one request socket without a lock.
* The one-slot notification mailbox is read and cleared without a lock.
* Login can be attempted again on a connection, after a failure or (command
  line client) after a success.
* A connection's descriptors are closed by number in three places, one of them
  twice, while the number stays in a record that others write to.
* The receiver walks lists of windows that the GTK thread changes, and waits for
  the GDK lock that the GTK thread holds while it waits for an answer.
* Any statement may fail, and a request of several statements goes on.

### What makes each part correct

* Online list: holds exactly the live records, each once; a handler owns its
  record until it removes it; no user twice; nobody is left believing that a
  user who has gone is online; broadcasts end; a pointer used after unlocking
  still names the addressee.
* Friends: the relation is symmetric whenever nothing is in flight; an answer
  of 0 means that it is; a failed request changed nothing.
* Packet layer: a reader gets the packets of a writer in order, whole, under
  the IV they were written with.
* Client requests: the reader of an answer is the sender of its request.
* Notification slot: a notice is shown once, with its own data, or dropped whole.
* File transfer: the slot belongs to the pair that negotiates; it does not
  stay occupied after the transfer has ended.
* Descriptors: a thread closes what it opened, once; pushes go to the client
  the record was made for; nothing stays open without somebody to close it.
* Windows: a window shows the messages of its peer, in order; every message gets
  into the history.
* Accounts and groups: what a client shows of itself is what is stored; a group
  reaches its members, all of them and nobody else.

## 2. Plan

In this order; all of it is done.

1. `Presence` (abstract) and `OnlineList` (detailed, implements it), with
   `OnlineListProofs`: the heart of the server; everything else holds records
   of this list.
2. `Friends` with `FriendsProofs`: the multi-statement changes.
3. `Session`: one client and its handler, the requests of the client's two
   threads, the pushes, and the CBC chain they all share; `SessionProofs`.
4. `FileTransfer`: the slot of a record, the offers, the listener on
   FILET_PORT; `FileTransferProofs`.
5. `Connections` with `KeyAgreement`: descriptors as numbers, both ends of a
   login, the broadcasts under the mutex, the key agreement; `ConnectionsProofs`.
6. `Wire`, `Feed` (abstract) and `PushChannel` (detailed, implements it): the
   sizes a packet goes through; header and body packets of several senders on one
   bounded connection, composed with the mutex of the broadcasts, the control
   connection and the GDK lock; `PushChannelProofs`.
7. `Desktop`: the notification slot, the lists of windows, the histories;
   `DesktopProofs`.
8. `Directory`: accounts, names, avatars and groups, from the tables to what the
   clients of a person show; `DirectoryProofs`.

What could be added: `Session` with more than one client.

## 3. Modules

### OnlineList

State and code: `g_Online` is the chain of `next` pointers as a sequence of
heap cells (the code only follows the chain under the mutex); `uid[c]` is
`c->uid`, `None` for memory that is free, so a cell can be handed out again and
a stale pointer can come to name another client; `pc[t]` is the place of thread
`t` in `in_handler`; `client_info[t]` its own record; `target[t]` and `arg[t]`
the record a request looked up and the uid it looked up. `told[c][u]` is what
the client behind record `c` was last told about `u`, `deaf` the records whose
process has gone, `full` those whose client does not read, so that a write to
them waits (`Fill`, `Drain`, `Blocked`).

One action is one critical section, or one turn of a broadcast loop, since the
loop writes to a socket each turn. `login_AddClient` is two actions because it
is two critical sections (`LoginFind`, `AddClient`, with `MallocFails` between
them). `Disconnect` stands for every disconnect tail of `in_handler`; the tails
of requests made before login have no broadcast, and neither has a thread
without a record. `Lookup` and `UseTarget` stand for all requests that keep a
looked-up record: message, file offer, friend request, befriend, group message.

`ReLogin` says whether clients send a second PTYPE_LOGIN after a successful
one. The window client never does (it destroys the login window); the command
line client may, and the server does not refuse it.

`Presence` is what the list promises: sessions come and go, a session that can be
reached is told that a user is online only while another session of that user
exists, and the last session of a user leaves only after everybody who was told so
has been told otherwise. It says nothing of how many announcements run at once, nor
that any is made: `LoginAnnounced` does. `OnlineList` implements it with
`Sessions <- Cells, user <- uid, heard <- told, gone <- deaf`.

### Friends

`friends` is the table's rows; its primary key makes an insert of a row that is
there fail. `pc[u]` is the statement the handler of `u` runs next, `peer[u]`
the user its request names, `answer` the result of the last request about each
pair. `BeFriend` and `DeleteFriend` begin a request, the other actions are one
statement each. `trouble` is a history of each pair: "crossed" once an insertion and
a deletion of it have been under way together, "failed" once a statement about it
has failed for a reason other than the key; a request that begins on a pair that
agrees, with nothing else under way, starts it afresh. `Deletes` says whether
clients delete friends, `Faults` whether statements may fail so.

### Session

One client (`gtk`, `receiver`), its `in_handler` (`handler`) and another
handler that pushes to it (`pusher`). `requests` and `answers` are the two
directions of the control connection, `pushes` the connection that the server
opened back. `g_IV` and `iv` are the IVs of the two ends: a number that names a
ciphertext block. `Encrypted` gives a packet the number it was written under
(`under`) and the one it leaves behind (`last`); the reader whose IV is `under`
can read it, `Garbled` is what any other reader finds. A packet is the length
block and the payload of `srv_WritePacket` in one step: on the control connection
each end has one writer, and for the pushes of several handlers the two writes are
apart in `PushChannel`. A reader that refuses a packet has taken its length block off
the connection and has that block for its IV, which no other packet was written
under (`InsideReply`, `InsideRequest`); the rest of the packet stays in the way of
all that comes after it. The reader is finished then: a handler and a receiver end,
and of the GTK thread it is not followed (`lost`) what the callbacks, most of which
ignore the NULL, read from such a connection. About one garbled block in a million
passes for a length; that, and a packet's own data read as a length, is left out.

`Kinds` are the five shapes of a request; every `PTYPE_*` has one of them.
`Failures` says which failures of the server are considered: "early" (the
handler gives up before it has read the second packet of a request), "list"
(the answer that announces a list is a failure). `Crossing` says whether a push
or a request may start while another exchange is under way; with `FALSE` they
take turns, which nothing in the code enforces.

### FileTransfer

`freq[u]` is the slot of u's record, `heap` the FILE_REQUESTs the slots point
to, `handler[u]` and `job[u]` the place of u's `in_handler` in
`protocol_SendFile` or in the GETFILE branch, `client[u]` the place of u's GTK
thread in `sendFile` or `getFile`, `port[u]` the file that the thread of
`srv_TCPStartFileTransfer` waits with, `notices` the sizes under way to the
receiver thread, `g_FileSz` the last one it has read, `saved` what
`srv_TCPFileTransfer` has stored. A file is its size. The target of a copy is opened
without O_TRUNC, so `saved.length` may be that of a longer file which was there
before. `Refuse` covers both refusals of `protocol_SendFile` (offline, "File transfer
in progress", which frees the request but not its copy of the name: `leaked`); files
over MAX_FILE are not offered. Nothing keeps a user from sending to himself.

The lookup and the use of a record are one step here; that a record may be
freed in between is OnlineList's `StaleOnlyAfterLeave`. Users have a computer
each, so FILET_PORT is one per user. Every user may do anything at any time; three
histories name who has: `impatient` has offered a file while another of his was
out, `hasty` has asked for an offer before its notice came or has left one
unfetched, `cancelled` had a slot emptied by somebody's cancellation. (The server
handles a cancelling FOPDONE; no client of the repository sends one.)

### Connections and KeyAgreement

`descr[f]` is the connection that number `f` names in the server process;
`LowestFd` is what the kernel hands out next. `sockfd`, `msgsock` and
`client_info` are the locals of `in_handler` (a record is its uid and its
number), `handler` its place, `serving` the uid of the login it serves.
`program`, `attempt`, `receivers` and `reply` are the client: its window, its
login attempts, the receiver thread each of them started, the answer on its way.
An action is a call that opens, closes or writes to a descriptor, with the tests
before it. `Accept` may fail for any reason, which ends the loop for good
(`accepting`; the handlers that run go on), and may find no thread for what it has
accepted (`Unserved`: the result of pthread_create is not looked at). A broadcast
(`Announce`, `Goodbye`) takes the mutex (`holder`), writes to one record after the
other (`telling`, `Tell`) and lets go (`Told`); who needs the mutex waits.
`Disconnect`, the goodbye, `ClosePush` and `Remove` are the parts of a disconnect
tail between which other threads may be given the number.
`stray` and `crossed` are ghosts: who has lost a descriptor to somebody else's
close, and who was written what was meant for another. `AnswerThere`, `AnswerLost`,
`LoginThere` and `ReadFails` are what `srv_ReadPacket` may find at either end;
the actions that read and `HandlerMoves` share them. `Signals` says whether a
write to a client that has gone may kill the server (no signal handler is
installed).

`KeyAgreement` is `srv_DoHandshake` as operators: numbers go over the wire
without leading zeros, into buffers of `Size` bytes (32 in the code, of base 256)
that keep what they held. `Digits` is how many bytes `BN_bn2bin` writes, `Bn2Bin`
and `Bin2Bn` the two conversions. `DH_compute_key` returns -1 for a public number
that is not `Acceptable` and writes nothing; `!DH_compute_key` lets that pass, and
the buffer that still holds the peer's number is the key (`KeyAndIV`).
`Outcomes` is what an exchange can come to, over all secrets and all contents
of fresh memory: the two ends have the same key and IV, or different ones, and then
with a short number among the three ("short") or without ("differ"). `Handshake` of
`Connections` chooses from it.

### PushChannel, Feed and Wire

`Wire` has the arithmetic of a packet: what `srv_WritePacket` sends for a size
(a block more than the size even when it is a multiple of 16), what
`srv_ReadPacket` refuses, where it cuts. `PushChannel` is one client's push
connection: `channel` holds at most `Room` packets, a handler that writes to a
full one waits. `pc[h]` is where the push of handler `h` is: in the
`srv_WritePacket` of its "header", "between" its two packets, in that of its "body".
`holder` is the mutex, which broadcasts keep over all their writes and other pushes
only over the lookup. `harm` says what the connection has suffered: "overlapped", a
header was written between the two packets of another push, which leaves packets
whole; "spoilt", two `srv_WritePacket` were at it at once, so that their blocks and
their use of the IV were mixed, or a push and a request passed each other. What the
chain then gives the reader is in `Session`; here it may refuse any packet, take any
for junk or show any (`ReadRefused`). A body read in the place of a header is dropped
for want of a magic number, or refused for its size. `receiver` is
`client_msg_handler`: header, body, and for most kinds a
question to its own handler for the sender's name (`requests`, behind what the
GTK thread has asked), the walk, the append under the GDK lock, the history. A
handler that serves a request of its own client may be pushing itself, so the
receiver may wait for a handler that waits for the mutex whose holder waits for
the receiver: `CircularWait`. The liveness properties name it as their only
exception.

`Feed` is what such a connection promises, with nothing but the pushes posted, the
pairs of header and text shown, whether something was mixed up and whether the
reader has ended. Without a mixture every push is shown in turn with its own text,
and the reader gives up only while a push is pending; after one, pushes may be left
out, a header may be followed by another push's text and the reader may give up
over nothing, but no push is shown twice, out of order or before it was posted.
`PushChannel` implements it with `mixed <- harm # "none", ended <- receiver =
"ended"`; a push is posted when its header has been written.

### Desktop

The two threads of the window client. `gtk` and `recv` are their places; `mode`
and `uinfo` are the two variables of the slot, each holding the number of the
message it was written for, one action per assignment. `windows[n]` is the peer of
the n-th window opened, `Nobody` while it is not in a list: nodes are appended, so
the list of a kind is its windows in the order of their numbers, and `NodeBehind`
is `g_list_next`. `cursor` is the node that the walk has come to, `found` the one it
has found. `Shows` relates the lines of a text or a file to the messages they
should show. What is read through a freed node, or appended to a destroyed widget,
is undefined: the client crashes or goes on. `on_chat_window_destroy` and its
group twin are connected to "destroy", which passes the widget and the user data
in the order in which the functions take them. The history file of a peer has a
path only once `init_settings` has run.

### Directory

A client is a connection and its program; a `Person` may run several, window and
command-line clients, and be in with two at once under one uid: `Login` (the test of
`login_AddClient`, the answer of the table) and `Link` (the record) are two steps,
as in `OnlineList`. A client that is or had a second session of its user is
`shared`, and which of them a lookup finds is open.

`user` and `groups` are tables; row n is uid n. `request`, `pc`, `members`, `group`
and `turn` are a request in progress in a handler: the list it works on and the
place it has come to in it, one action per statement that commits and per user who
is told. `db_GetGroup` lists the users of a group in an order of the database's
(`Listings`). `nick`, `avatar` and `grouplist` are what the client shows, written
where the client writes them. `faults` counts failures of the database: a failing
statement, or a connection that fails, after which some handlers follow a NULL
pointer (`DatabaseFails`, the server is down). `Lists` are the lists that users type
in, uids that do not exist included; an empty one is answered at once, one of more
than `MaxUsers` is refused before it is read, which the client's second packet then
crosses (`RefuseGroup`: `Session` has what that does to a connection, and the client
is lost here). `ReadAnswer` is a window client that reads its own answer,
`ReadAstray` one that finds NULL or what another of its threads has asked for, and
keeps what it showed, but for a name, where it shows what it finds: it is then
`unsure` of its name if the question was about that, and its connection may be out
of step (`cut`). `astray` counts these. An answer to a login that goes astray is not
followed here; logging in again over one connection is `ReLogin` of `OnlineList`.
`late`, `made`, `refused`, `unsure` and `shared` are ghosts.

## 4. Runs

| Run | Instance | Shows |
|---|---|---|
| OnlineListGui | 3 connections, 2 users, 2 cells, no second login | nobody is left with a stale notice; no record without its handler; when a uid can get a second record; how a looked-up record goes stale |
| OnlineListAny | 2 connections, 2 users, 2 cells, second login allowed | handlers own their records, second logins or not; frozen list under a broadcast; the mutex is released; Presence is implemented |
| FriendsAdd | 3 users, adds only | symmetry; half a friendship is completed |
| FriendsAny | 2 users, adds, deletes and failing statements at any time | half a friendship comes from an insertion that crossed a deletion, or from a failed statement, answered -1 |
| SessionTurns | 12 packets, exchanges take turns, no failures | answers match; requests return |
| SessionAny | 6 packets, everything crosses, all failures | what a connection is lost by; nobody gets an answer nobody asked for; a session at rest is in step |
| FileAny | 2 users, 2 files, 2 offers, any order, offers to oneself included | one owner per FILE_REQUEST; no offer is replaced; the offer is there while it is fetched, unless cancelled; an orderly addressee stores the whole file a patient sender offered |
| Connections | 2 clients with 2 attempts, 3 logins in all, 2 users, 3 descriptors, SIGPIPE | keys differ only over a short number; numbers are one's own until a second close; first loss and first misdirected packet only between two closes; what leaks; what uses the descriptors up; nobody is stuck |
| PushChannel | 2 other handlers, 3 pushes of 4 kinds and 2 sizes, room for 2 packets | a queue of whole messages until pushes meet; they meet by pushes without the mutex; the four sizes that end a receiver; Feed is implemented; messages arrive but for the circular wait |
| Desktop | 2 friends, 1 group, 2 messages, 2 windows, 1 send | a notice is shown with its own data, once, and the NULL crash needs both threads in the slot; windows show all, in order; histories are complete; notices are shown |
| Directory | a window client of one person, two command-line clients of another, 2 group ids, lists of 2 users and of 1, 2 free requests, 1 fault | a group's business reaches members only, and all who should be told; groups keep apart |
| DirectoryProfile | 2 window clients of one person, a command-line client of another, an empty list and one that is too long, 2 free requests, 1 fault, 1 answer astray | name and avatar shown = stored |

Where the code falls short of what one would wish, a property states how far
it goes, and the exception is reached by the same run or by another instance:

* `OnlineListGui` reaches states in which a uid has two records (two logins that
  overlap) and in which a request writes to a record that has become somebody
  else's: `SecondLoginRefused` and `StaleOnlyAfterLeave` say what it takes.
* `OnlineList` with `ReLogin = TRUE` violates `NoGhost`: a second login of a
  uid on one connection forgets the record, which stays listed.
* `FriendsAny` reaches half friendships of both kinds that `HalfIsExplained` names:
  an add and a delete of one pair cross and leave one row of the two, with both
  answered 0; a second statement fails after the first. `Faults` alone violates
  `Symmetric`.
* `SessionAny` reaches lost connections though both ends are there:
  `LostOnlyByCrossing` says that the two chains had parted (`Apart`), or that packets
  waited on both connections and the client read them in the wrong order
  (`BothChannels`). One push that crosses a request is enough. Even in turns,
  `Failures = {"early"}` violates `AnswersMatch`: the refusal of a message to a user
  who is offline crosses the message itself, and the connection is lost; with
  `Failures = {"list"}` `RequestReturns` is violated: `get_user_list` waits for a
  list that a failed query never sends.
* `FileAny` reaches an empty slot under a fetch, a stored file that is not the one
  offered and a copy that is not whole. `OfferHeld` excepts users whose slot was
  cancelled; `RightFile` excepts hasty and cancelled addressees and impatient
  senders: a second offer while the first still waits makes the second addressee
  store the first file, and who asks before the notice has come, or comes back to
  an offer left unfetched, uses the size of another file.
* `Connections` reaches states in which a client has lost a descriptor, in which
  one reads what was meant for another, in which the server has stopped
  accepting, and in which a connection has no thread; `PushChannel` reaches the
  circular wait, an overlap, a spoilt connection and a receiver that has ended;
  `Desktop` reaches all three crashes; `DirectoryProfile` reaches a window with a name
  that is not its user's, by an answer astray and by a second session.

Bounds. OnlineList: three connections give a broadcaster, a listener and a
thread that comes or goes between two steps of the broadcast; two users suffice
because no property relates three; two cells force reuse of freed memory and let
`malloc` run out. Friends: three users allow one user's two requests to cross
two different peers; `HalfIsExplained` is about one pair, and two users are one.
Session: 12 packets (`MaxPackets`, a bound on the packets written when an exchange
starts) are several exchanges of every shape one after the other, with pushes and
their name queries between; 6 are enough for the two threads, a push and both
failures to meet. FileTransfer: two users who may also offer to themselves give one
sender two addressees and one addressee two senders; two files of different sizes;
two offers (`MaxOffers`) let a slot be wanted twice, or be taken, emptied and taken
again; a third adds no kind of meeting. Connections: three descriptors are one short
of what two clients need, so numbers are reused at once and `accept` fails; two
attempts (`MaxAttempts`, over all restarts) are a retry, and three in all
(`MaxLogins`) leave the other client a login; base 4, two bytes and prime 13 give
short, full and unacceptable numbers for every role. PushChannel: three pushes
(`MaxPushes`) over room for two packets fill the connection while a broadcast is
between header and body; sizes 1 and 44 with `MaxPacket` 64 are an ordinary one and
one of the four in the gap. Desktop: two messages meet in the slot; two windows
(`MaxWindows`, opened in all) let one be closed under the walk and another take its
place; one send (`MaxSends`) holds the GDK lock. Directory: of the
lists <<3, 1>> and <<2>> the first has an account that exists only if the person of
the command-line clients has registered twice and the window client's user after it,
the second that person's first account, so that groups made at once differ;
`MaxAsked`, 2, is a creation and a message to the
new group, or two creations, which draw equal ids from two; the window client knows
the group when it has logged in after the creation. DirectoryProfile: two windows
of one person are a second session; `MaxUsers` 2 makes the list of three too long;
`MaxFaults` and `MaxAstray` bound the failures and the lost answers.

Fairness. `OnlineList`: a broadcast that holds the mutex goes on while its writes
return, which is the scheduler's promise. That they return is not assumed: nothing
makes a client read, `NotifyNext` is disabled while `Blocked`, and `MutexReleased`
excepts a broadcast that is found blocked again and again; what may block it for
ever is the subject of `PushChannel`. Nothing else is fair there: clients may
stay idle for ever. `Friends`: a request that has begun goes on. `Session`:
each of the four threads goes on when it can; nothing obliges a user to ask or
another client to push. `PushChannel`: handlers, the client's own handler and the
receiver go on when they can; the mutex is not fair; the append is strongly fair
because the GDK lock is released after every request of the GTK thread.
`Desktop`: both threads run and what is sent is answered; the timer is strongly
fair, since sends and windows keep the GTK loop busy only for a while. The others
state safety; `NobodyStuck` of `Connections` says with ENABLED what its handlers
can do, without assuming that they do it.

## 5. Proofs

`OnlineListProofs` proves for any sets of connections, users and cells, from
`OnlineListAssumption` alone (`None` is none of them, `ReLogin` is Boolean):
type correctness, that the list is exactly the allocated records and contains
every handler's own (`ListCorrect`), that it is frozen under a broadcast, that
notices are never stale, that logins are announced, that a uid gets a second
record only from overlapping logins and a looked-up record goes stale only by its
owner's removal, that no record is orphaned when connections log in once, and
that `Presence` is implemented.

They share one inductive invariant, `IInv`: `TypeOK`, `ListIsHeap` and
`OwnRecord`, then `ThreadInv` (what each program counter says of the thread's
record and of the mutex: a thread about to broadcast or to remove has a record,
one that is appending has a uid, the holder of the mutex is broadcasting),
`NoticeInv` (a record that was told "online" of a user finds that user listed,
or the broadcast that will correct it is still before that record),
`AnnounceInv` (while a login is being announced, the records before the cursor
have heard of it) and `OnceInv` (without second logins, a record's owner is a
running thread). `NoStaleNotice` alone is not inductive: the removal of a record
preserves it only because the goodbye broadcast has passed every other record.

`FriendsProofs` proves, for any users, type correctness and what it takes for the
two rows of a friendship to disagree. `HalvesAreExplained` is about adds, deletes and
failing statements in any order: a pair left with one row has had an insertion under
way together with a deletion since its rows last agreed, or a failed statement, and
then its last answer was -1. Two adds that cross, two deletes that cross and rows
that are there already do no harm. The invariant is `ExplainedInv`, one `PairInv` per
pair: while no insertion crossed a deletion, the two handlers of a pair both insert
or both delete, the first statement has done its work (`<<u, v>>` is there before
"insert2", gone before "delete2"), and a row without its mirror image has a handler
that is about to change that, or is what a failed statement has left. A request or a
statement touches its own pair only (`OwnPairOnly`), so this is a matter of one pair;
a user that befriends itself is one too. `SymmetricWithoutDeletes` follows: where
clients only add and no statement fails, `trouble` stays empty.

`SessionProofs` proves type correctness and four results that hold whatever crosses
and whatever fails, for any `MaxPackets`.
`InStep` (theorem `QuietIsInStep`): chains that are not in step leave a packet that
nobody has read (`Trail`), so a session at rest is in step. `PartedForGood`: once
the chains have parted (`Apart`: no end can read what is under way) they never
meet again. `LostOnlyByCrossing`: while both ends are there, the handler gives
its client up only if the chains have parted, and the client gives the handler up
only then or when packets wait on both connections, which its two threads may read
in the wrong order. For this one `LinkInv` says that every packet under way
continues the chain from its reader's IV or from another packet under way;
the oldest packet of the only channel that holds any can be read then
(`OnlyChannelIsReadable`). The fourth is `NoUnsolicitedAnswer`.

They share one invariant: `CrossInv` says that as long as the two ends have not parted for
good, one of them is ahead of the other (`ClientAhead`, `ServerAhead`): the packets on
the way lead one way only, and the end that wrote while others were on their
way to it (`Apart`) can read nothing any more; nor can an end that has refused a
packet, whose IV nothing was written under (`BoundInv`). `NumberInv` keeps the numbers
of the ciphertext blocks apart, `AnswerShape` has the few shapes of the channel of
answers that a client can still read from. Each request adds one to the answers to
come (`Count` of the packets, `Owed`) and one to the threads that wait (`Awaited`).

`FileTransferProofs` proves, for any users, files, cells and offers, type
correctness, that every FILE_REQUEST has exactly one owner and that no pending offer
is replaced, `OfferHeld` and `RightFile`. The first three share `IInv`: `TypeOK`,
`OneOwner` itself and `WorkInv` (threads at work have a job); `OfferHeld` needs
`PlaceInv` besides (a client that is not running is idle, and the handler of one that
is transferring waits for a request). `RightFile` assumes nothing of users: whoever
is impatient, hasty, leaves or cancels spoils his own transfers only. An offer passes
through the slot, the notice, `g_FileSz` and the sender's port before the copy reads
it. `OrderlyInv` says for each orderly addressee which of these hold it already and
that they agree (`SlotOf`), that a handler which is about to announce an offer to him
has it in his slot (`AnnouncedTo`), and that what he has stored is right (`SavedOf`);
`SenderInv` says that a sender who is not impatient works on nothing but the offer
he has out, so that what waits on his port is it.

`ConnectionsProofs` proves the type, that a listed uid is served, and six of the
seven properties its run checks, for any clients, users, descriptors and attempts,
from `ConnectionsAssumption` (descriptors are finitely many numbers, clients
finitely many, `None` is none of them) and `NoneIsNothing` (nor a connection or a
record). `BaseInv` is `TypeOK`, `MutexInv` (the mutex is held by the one handler that
is broadcasting, and no record it has still to write to goes away) and, for every
client, `PlaceOf` (what each place of a handler says of its numbers and its login),
`ControlOf` (a control connection is open only as the sockfd of its own handler),
`RecordOf` (where a handler has a record) and `LoginOf`: a login being served
belongs to a program that waits for its answer, or whose connection is lost for
good. The last one is what keeps a client with a record from logging in again; it
spans both ends of the connection. `OwnDescriptors` is inductive over `BaseInv`:
a close that takes nobody else's number leaves every other name alone
(`CloseSpares`), and the two action properties follow from it (`NothingStrays`).
`PushInv` orders the push connections of a client by attempt and gives
`LeaksOnlyByRetry`; counting the descriptors it accounts for gives `DescriptorBudget`: the server can
run out of them only by clients it serves, retries and connections without a thread.

`NobodyStuck`, the seventh, speaks of ENABLED, which the prover does not reach.
`WaitersAreServed` says the same with the guards written out (`HandlerMoves`,
`ProgramMoves`, made of the operators that the actions themselves use) and is
a theorem (`WaitersServed`): `WaitInv` adds to `BaseInv` that a handler which is back
at its read owes its program nothing: the program's answer is there, its login
is, or the read fails; a handler that waits for the mutex waits for one that is
broadcasting. That the guards are the actions' own is seen in their text;
TLC has compared them with ENABLED on the run's instance.

`KeysDifferOnlyIfShort` is a fact of `KeyAgreement`: "differ" is not among its
`Outcomes`, for any base, modulus of any number of bytes, generator, secrets and
contents of the buffers (`DifferOnlyIfShort`). `Power`, `Dropped` and the value of a
buffer are recursive functions. That such a function exists and obeys its
equations is one lemma, `Recursion`, whose rule is a function and not an operator;
what they compute (exponents add and multiply, so powers commute; dropping more
digits leaves less; a buffer that is full reads as the number written to it,
`FullBuffer`) is proved by `Induction`, which speaks of a set of numbers instead
of an operator and rests on the least element that `WellFoundedInduction` gives.
A public number that `DH_compute_key` refuses makes no exception: 0 and 1 are short,
and if one end's is -1 modulo the prime, the common number is 1 (`OneIsShort`) or
-1 again, and then that number is the key of both ends (`MinusOne`).

`PushChannelProofs` proves for every `MaxPacket` and word size what is received of a
packet of each size, and that the sizes the server passes on in a group message
and every receiver refuses are exactly four (`GroupGap`). It proves type
correctness and three properties of `PushChannel` for any handlers, kinds, sizes,
room and number of pushes: that two broadcasts never get between each other's
packets or blocks (`BaseInv`: who is writing holds the mutex, or makes a push without
it); that the receiver ends only in that gap, be the refused packet a body in its
place or, after an overlap, one read in the place of a header (`RefusedInTheGap`), or
on a spoilt connection, where nothing can be said; and `NothingLost`, for which
`QueueInv` describes a connection that was neither overlapped nor spoilt: the
packets in it are numbered in order
(`RangeInv`, `OrderInv`), each header is followed by its body or by the handler
that is about to write it (`PairInv`, `LastInv`), and nothing between what is
shown and what was posted is missing (`CoverInv`).

That `Feed` is implemented (`FeedImplemented`) is proved step by step: each action
of `PushChannel` is a step of `Feed` or leaves its four variables alone. `QueueInv`
says it all as long as nothing was mixed up and nothing afterwards, so `FeedInv` has
what no mixture takes away: headers are in the order of their numbers, and what is in
the buffer or being read is younger than what was shown. The steps that change
`harm` alone are `Feed`'s `Mix`.

`DesktopProofs` proves for any users, groups, windows and messages all four safety
properties of `Desktop`. For the notification slot (`SlotKeepsNotices`), `OrderInv` says for each place of the two threads what mode
and data may be, `AgeInv` that what is in the slot is newer than what was shown,
`RaceInv` what holds as long as the threads have not met; without the order in
which addnotify and notifyWatcher write the two variables none of them holds.
For the windows, `DeskInv` says what each place of the two threads knows of the
lists, and `TextInv` what every window shows while a message is in hand. Its heart
is `WalkOf`: a window of the sender that was open before the message came is the
one the walk has found or is at or behind the cursor, although the GTK thread may
have opened and closed others since. For the histories, `HistoryInv` says the same of
the line that is still to be written.

`DirectoryProofs` proves for any clients, persons, names, lists, group ids, failures
and answers astray all five properties of `Directory`. `BaseInv` is `TypeOK`,
`PlaceInv`, what each place of a handler and each window know of the request, and
`SoleInv`: clients that are in as one user are `shared`. `ProfileInv` follows a name
(`NameOf`) and an avatar (`AvatarOf`) of a user with one session through a request:
what the window shows and what the table holds differ only while an answer is on its
way that will make them agree, has failed (`refused`) or was missed (`unsure`).
`RowsInv`, `CreateInv` and `KnownInv` have one conjunct per statement of a group that
is half created: every row in the table comes from a list, the rows before `turn` are
written, and a window client knows only groups it has a row of. `ToldInv` says the
same of the pushes: whoever is before `turn`, was online under one session and did
not log in since has had his.

The type invariants of all modules are theorems (`TypeCorrect`), and the runs leave
them out; so they do with `LoginAnnounced`, `ListedIsServed`, `WaitersAreServed` and
`PartedForGood`. The runs check the other theorems' properties on their instances
all the same.

Model-checked only: the liveness properties `MutexReleased`, `HalfIsCompleted`,
`RequestReturns`, `Delivered` and `NoticeShown` (the prover has no fairness),
`NobodyStuck` (ENABLED), and `AnswersMatch`, which holds only when exchanges take
turns: nothing in the code makes them do so, and what holds without it is proved.
Every other property that a run checks is a theorem, under the assumptions on users
and failures that its run makes or weaker ones.

## 6. Not modelled

* The GTK windows themselves, image scaling, capture, skins, the calendar and
  the emoji table: widgets of one thread, with no state another one reads.
* The command-line client's menus; what sets it apart from the window client is
  in `ReLogin` and in the command-line clients of `Directory`.
* Logging (`LogEvent`, `logger.c`): output only.
* OpenSSL and MySQL are modelled from their use: numbers and their bytes,
  tables whose statements commit one by one or fail.
* What a callback goes on to do after a request of its failed, where it ignores
  the result: `Directory` follows it for accounts and groups (avatar, name, list of
  groups), `Session` leaves such a client out (`lost`) and so do the others.
* What is read from a connection after a packet was refused, garbled blocks that
  pass for a length, and answers to a login that the wrong thread reads.
