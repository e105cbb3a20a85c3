------------------------------- MODULE Directory -------------------------------
(***************************************************************************)
(* Accounts and groups: the tables user and groups, the requests that read *)
(* and write them, and what a client keeps of the answers.                 *)
(*                                                                         *)
(* A request opens a database connection of its own and runs statements    *)
(* that commit one by one; nothing is locked between two of them.  A       *)
(* handler serves one request at a time.  The pushes that a group causes   *)
(* are login_Notify: found in the online list or dropped.                  *)
(*                                                                         *)
(* A client is a connection, and a person may have several: a password is  *)
(* a person's, a uid is the number of a row of user.  The window client    *)
(* asks for its avatar, its name and its groups once it is logged in; the  *)
(* command-line client, the others, asks for anything, and is the only one *)
(* to create groups.  The answers to a window client may go astray: two of *)
(* its threads read them (module Session).  Logging in twice over one      *)
(* connection is in OnlineList.                                            *)
(***************************************************************************)
EXTENDS Naturals, FiniteSets, Sequences

CONSTANTS
  Clients,
  Windows,     \* the clients that are window clients
  Person,      \* whose a client is
  Names,
  BadNames,    \* names that are too long or not alphanumeric
  Avatars,     \* avatar ids; 1 is what the client starts with
  NewAvatar,   \* the table's default
  Gids,        \* what getRandom32 draws group ids from
  Lists,       \* the user lists that groups are created with
  MaxUsers,    \* the longest list that is accepted: 10
  Registered,  \* whose rows the table holds at the start, in order
  MaxAsked,    \* bound: requests after the login ones
  MaxFaults,   \* bound: failures of the database
  MaxAstray,   \* bound: answers that go astray
  Junk         \* memory that was never set

ASSUME DirectoryAssumption ==
  /\ Windows \subseteq Clients /\ BadNames \subseteq Names /\ Names \ BadNames # {}
  /\ Avatars \subseteq Nat /\ {1, NewAvatar} \subseteq Avatars
  /\ DOMAIN Person = Clients
  /\ Registered \in Seq({Person[c] : c \in Clients})
  /\ MaxAsked \in Nat /\ MaxFaults \in Nat /\ MaxAstray \in Nat /\ MaxUsers \in Nat
  /\ Lists \subseteq Seq(Nat)

VARIABLES
  user,       \* the table: row n is the user with uid n
  groups,     \* the table: rows <<gid, uid>>
  session,    \* client_info of the connection's handler: a uid, 0 for NULL
  pc,         \* where the handler is
  request,    \* the request under way
  members,    \* the list of users it works on
  group,      \* the group it works on
  turn,       \* its place in that list
  answer,     \* what it answers
  screen,     \* how far the client has come
  nick,       \* its g_s.nick_name
  avatar,     \* its g_s.avatar_id
  grouplist,  \* the groups its main window shows
  heard,      \* the pushes it has had
  cut,        \* the clients whose next request will not be understood
  asked, faults, astray,
  server,     \* "up", or "down" once a null pointer was followed
  late,       \* ghost: who has logged in since a request began
  made,       \* ghost: the groups that were created, with their lists
  refused,    \* ghost: clients whose last avatar request has failed
  unsure,     \* ghost: clients that missed the answer to a name request
  shared      \* ghost: clients that were a second session of a user, or had one

tables  == <<user, groups>>
work    == <<members, group, turn>>
shown   == <<screen, nick, avatar, grouplist>>
ghosts  == <<late, made, refused, unsure, shared>>
bounds  == <<asked, faults, astray>>
vars    == <<tables, session, pc, request, work, answer, shown, heard, cut, bounds, server,
             ghosts>>

Known(uid)  == uid \in 1 .. Len(user)
Members(g)  == {row[2] : row \in {r \in groups : r[1] = g}}
GroupsOf(u) == {g \in Gids : <<g, u>> \in groups}
Online(uid) == \E c \in Clients : session[c] = uid

\* The requests that have a second packet, and push to the users they name.
Pushing == {"creategroup", "groupmsg"}

NoRequest == [kind |-> "none", arg |-> 0]
Failure   == [ok |-> FALSE, value |-> Junk]
Success(value) == [ok |-> TRUE, value |-> value]

FirstName == CHOOSE name \in Names : name \notin BadNames

NewRow(name, person) == [name |-> name, passwd |-> person, avatar |-> NewAvatar]

Init ==
  /\ user = [n \in 1 .. Len(Registered) |-> NewRow(FirstName, Registered[n])]
  /\ groups = {}
  /\ session = [c \in Clients |-> 0]
  /\ pc = [c \in Clients |-> "idle"]
  /\ request = [c \in Clients |-> NoRequest]
  /\ members = [c \in Clients |-> <<>>] /\ turn = [c \in Clients |-> 1]
  /\ group = [c \in Clients |-> Junk]
  /\ answer = [c \in Clients |-> Failure]
  /\ screen = [c \in Clients |-> "login"]
  /\ nick = [c \in Clients |-> Junk] /\ avatar = [c \in Clients |-> 1]
  /\ grouplist = [c \in Clients |-> {}] /\ heard = [c \in Clients |-> {}]
  /\ asked = 0 /\ faults = 0 /\ astray = 0 /\ cut = {} /\ server = "up"
  /\ late = [c \in Clients |-> {}] /\ made = {} /\ refused = {} /\ unsure = {} /\ shared = {}

-----------------------------------------------------------------------------
\* The client.

\* A request is written; avatar_id is set before it is made.
Ask(c, kind, arg) ==
  /\ pc[c] = "idle" /\ c \notin cut
  /\ pc' = [pc EXCEPT ![c] = "work"]
  /\ request' = [request EXCEPT ![c] = [kind |-> kind, arg |-> arg]]
  /\ avatar' = IF kind = "setavatar" THEN [avatar EXCEPT ![c] = arg] ELSE avatar
  /\ UNCHANGED <<tables, session, work, answer, screen, nick, grouplist, heard, cut, faults,
                 astray, server, ghosts>>

\* Bound: a person has one account, or one per client that asked for it at the
\* same time, with the name all accounts begin with.
LoginWindow(c) ==
  /\ screen[c] = "login"
  /\ \/ /\ \A n \in 1 .. Len(user) : user[n].passwd # Person[c]
        /\ \E name \in BadNames \cup {FirstName} : Ask(c, "register", name)
     \/ \E uid \in 1 .. Len(user) : Ask(c, "login", uid)
  /\ UNCHANGED asked

\* The requests that the main window makes, in their order.
MainWindowOpens(c) ==
  /\ \/ screen[c] = "avatar" /\ Ask(c, "getavatar", session[c])
     \/ screen[c] = "name" /\ Ask(c, "getname", session[c])
     \/ screen[c] = "groups" /\ Ask(c, "getgroups", 0)
  /\ UNCHANGED asked

\* What the user of either client asks for.
Use(c) ==
  /\ screen[c] = "main" /\ asked < MaxAsked
  /\ asked' = asked + 1
  /\ \/ \E name \in Names : Ask(c, "changename", name)
     \/ c \in Windows /\ \E n \in Avatars : Ask(c, "setavatar", n)
     \/ c \notin Windows /\ \E list \in Lists : Ask(c, "creategroup", list)
     \/ c \notin Windows /\ \E g \in Gids : Ask(c, "groupusers", g)
     \/ \E g \in IF c \in Windows THEN grouplist[c] ELSE Gids : Ask(c, "groupmsg", g)

\* A read ends the request, whatever was read; the windows open all the same.
Reads(c) ==
  LET kind == request[c].kind
  IN  /\ pc[c] = "answer"
      /\ pc' = [pc EXCEPT ![c] = "idle"]
      /\ request' = [request EXCEPT ![c] = NoRequest]
      /\ answer' = [answer EXCEPT ![c] = Failure]
      /\ screen' = [screen EXCEPT ![c] =
           CASE kind = "login" /\ answer[c].ok -> IF c \in Windows THEN "avatar" ELSE "main"
             [] kind = "getavatar" -> "name"
             [] kind = "getname" -> "groups"
             [] kind = "getgroups" -> "main"
             [] OTHER -> @]
      /\ members' = [members EXCEPT ![c] = <<>>] /\ group' = [group EXCEPT ![c] = Junk]
      /\ late' = [late EXCEPT ![c] = {}]
      /\ UNCHANGED <<tables, session, turn, heard, asked, faults, server, made, shared>>

\* The answer to the request.  protocol_ParseGAResultPacket stores an avatar
\* whatever the result, create_headbar a name; the group list is only stored on
\* success.
ReadAnswer(c) ==
  LET kind == request[c].kind
      a    == answer[c]
  IN  /\ Reads(c)
      /\ nick' = CASE kind = "getname" -> [nick EXCEPT ![c] = a.value]
                   [] kind = "changename" /\ a.ok -> [nick EXCEPT ![c] = request[c].arg]
                   [] OTHER -> nick
      /\ avatar' = IF kind = "getavatar" THEN [avatar EXCEPT ![c] = a.value] ELSE avatar
      /\ grouplist' = IF kind = "getgroups" /\ a.ok
                      THEN [grouplist EXCEPT ![c] = a.value] ELSE grouplist
      /\ refused' = IF kind \in {"getavatar", "setavatar"}
                    THEN IF a.ok THEN refused \ {c} ELSE refused \cup {c} ELSE refused
      /\ unsure' = IF kind \in {"getname", "changename"} /\ a.ok THEN unsure \ {c} ELSE unsure
      /\ UNCHANGED <<cut, astray>>

\* A packet of another type, or none (NULL): the other thread has the answer.
\* The callbacks take it for a failure, except that create_headbar shows its
\* bytes as the name.  A list of groups read from it names no group.  What is
\* left unread puts the two IVs out of step, and the next request ends the
\* connection.
ReadAstray(c) ==
  LET kind == request[c].kind
  IN  /\ c \in Windows /\ kind \notin {"register", "login"}
      /\ astray < MaxAstray /\ astray' = astray + 1
      /\ Reads(c)
      /\ cut' \in {cut, cut \cup {c}}
      /\ \E name \in IF kind = "getname" THEN Names \cup {Junk} ELSE {nick[c]} :
           nick' = [nick EXCEPT ![c] = name]
      /\ unsure' = IF kind = "getname" \/ (kind = "changename" /\ answer[c].ok)
                   THEN unsure \cup {c} ELSE unsure
      /\ refused' = IF kind = "getavatar" \/ (kind = "setavatar" /\ ~answer[c].ok)
                    THEN refused \cup {c} ELSE refused
      /\ UNCHANGED <<avatar, grouplist>>

-----------------------------------------------------------------------------
\* The handler.

Works(c, kind) == pc[c] = "work" /\ request[c].kind = kind

Reply(c, a) ==
  /\ pc' = [pc EXCEPT ![c] = "answer"]
  /\ answer' = [answer EXCEPT ![c] = a]

Untouched == UNCHANGED <<request, shown, heard, cut, bounds, server>>

\* protocol_Register and db_InsertUser; the answer does not tell the uid.
Register(c) ==
  /\ Works(c, "register")
  /\ IF request[c].arg \in BadNames
     THEN Reply(c, Failure) /\ UNCHANGED user
     ELSE /\ user' = Append(user, NewRow(request[c].arg, Person[c]))
          /\ Reply(c, Success(0))
  /\ Untouched /\ UNCHANGED <<groups, session, work, ghosts>>

\* protocol_Login and db_LoginCheck; login_AddClient looks for a session of the
\* user, and lets go of the list.
Login(c) ==
  LET uid == request[c].arg
  IN  /\ Works(c, "login")
      /\ IF Known(uid) /\ user[uid].passwd = Person[c] /\ ~Online(uid)
         THEN pc' = [pc EXCEPT ![c] = "link"] /\ UNCHANGED answer
         ELSE Reply(c, Failure)
      /\ Untouched /\ UNCHANGED <<tables, session, work, ghosts>>

SessionsOf(uid) == {d \in Clients : session[d] = uid}

\* The rest of login_AddClient: the record is linked whatever came before it.
Link(c) ==
  LET uid == request[c].arg
  IN  /\ pc[c] = "link"
      /\ session' = [session EXCEPT ![c] = uid]
      /\ shared' = IF Online(uid) THEN shared \cup SessionsOf(uid) \cup {c} ELSE shared
      /\ late' = [d \in Clients |->
           IF request[d].kind \in Pushing THEN late[d] \cup {c} ELSE late[d]]
      /\ Reply(c, Success(0))
      /\ Untouched /\ UNCHANGED <<tables, work, made, refused, unsure>>

\* protocol_GetName: the name of any uid.
GetName(c) ==
  /\ Works(c, "getname")
  /\ Reply(c, IF Known(request[c].arg) THEN Success(user[request[c].arg].name) ELSE Failure)
  /\ Untouched /\ UNCHANGED <<tables, session, work, ghosts>>

\* Mutant: the update has lost its where clause.
ChangeName_EveryRow(c) ==
  /\ Works(c, "changename")
  /\ IF request[c].arg \in BadNames
     THEN Reply(c, Failure) /\ UNCHANGED user
     ELSE /\ user' = [n \in 1 .. Len(user) |-> [user[n] EXCEPT !.name = request[c].arg]]
          /\ Reply(c, Success(0))
  /\ Untouched /\ UNCHANGED <<groups, session, work, ghosts>>

\* The broadcast of the new name is in OnlineList; clients only print it.
ChangeName(c) ==
  /\ Works(c, "changename")
  /\ IF request[c].arg \in BadNames
     THEN Reply(c, Failure) /\ UNCHANGED user
     ELSE /\ user' = [user EXCEPT ![session[c]].name = request[c].arg]
          /\ Reply(c, Success(0))
  /\ Untouched /\ UNCHANGED <<groups, session, work, ghosts>>

\* protocol_GetAvatar: the avatar of any uid.
GetAvatar(c) ==
  /\ Works(c, "getavatar")
  /\ Reply(c, IF Known(request[c].arg) THEN Success(user[request[c].arg].avatar) ELSE Failure)
  /\ Untouched /\ UNCHANGED <<tables, session, work, ghosts>>

\* protocol_SetAvatar, for the user of the connection.
SetAvatar(c) ==
  /\ Works(c, "setavatar")
  /\ user' = [user EXCEPT ![session[c]].avatar = request[c].arg]
  /\ Reply(c, Success(0))
  /\ Untouched /\ UNCHANGED <<groups, session, work, ghosts>>

\* protocol_GetGroups: the groups with a row for the user of the connection.
GetGroups(c) ==
  /\ Works(c, "getgroups")
  /\ Reply(c, Success(GroupsOf(session[c])))
  /\ Untouched /\ UNCHANGED <<tables, session, work, ghosts>>

\* protocol_GetGroupUsers: whoever asks.
GetGroupUsers(c) ==
  /\ Works(c, "groupusers")
  /\ Reply(c, Success(Members(request[c].arg)))
  /\ Untouched /\ UNCHANGED <<tables, session, work, ghosts>>

\* The connection is lost: an answer has crossed a packet that was not read.
Crossed(c) ==
  /\ session' = [session EXCEPT ![c] = 0]
  /\ screen' = [screen EXCEPT ![c] = "lost"]
  /\ pc' = [pc EXCEPT ![c] = "idle"]

\* A list that is too long is refused before it is read.
RefuseGroup(c) ==
  /\ Works(c, "creategroup") /\ Len(request[c].arg) > MaxUsers
  /\ Crossed(c)
  /\ UNCHANGED <<tables, request, work, answer, nick, avatar, grouplist, heard, cut, bounds,
                 server, ghosts>>

\* protocol_CreateGroup draws an id, which may be in use, and reads the list.
CreateGroup(c) ==
  /\ Works(c, "creategroup") /\ Len(request[c].arg) <= MaxUsers
  /\ \E g \in Gids :
       /\ group' = [group EXCEPT ![c] = g]
       /\ made' = made \cup {[gid |-> g, list |-> request[c].arg, rows |-> Len(user)]}
  /\ members' = [members EXCEPT ![c] = request[c].arg]
  /\ turn' = [turn EXCEPT ![c] = 1]
  /\ IF request[c].arg = <<>>
     THEN Reply(c, Success(0))
     ELSE pc' = [pc EXCEPT ![c] = "insert"] /\ UNCHANGED answer
  /\ Untouched /\ UNCHANGED <<tables, session, late, refused, unsure, shared>>

\* A turn of the loop over the users: what comes after the last one.
NextUser(c, done) ==
  IF turn[c] < Len(members[c]) THEN turn' = [turn EXCEPT ![c] = @ + 1] /\ UNCHANGED <<pc, answer>>
                               ELSE done

\* Then the users are told, if there are any.
Tell(c, list) ==
  /\ turn' = [turn EXCEPT ![c] = 1]
  /\ IF list = <<>>
     THEN Reply(c, Success(0))
     ELSE pc' = [pc EXCEPT ![c] = "tell"] /\ UNCHANGED answer

\* Mutant: the row is written under the id that was drawn last.
Insert_LastGid(c) ==
  /\ pc[c] = "insert"
  /\ \E d \in Clients :
       /\ pc[d] = "insert"
       /\ groups' = groups \cup {<<group[d], members[c][turn[c]]>>}
  /\ NextUser(c, Tell(c, members[c]))
  /\ UNCHANGED <<user, session, request, members, group, shown, heard, cut, bounds, server,
                 ghosts>>

\* db_CreateGroup: a row that is there, a uid that is not, or any other failure
\* is logged, and no more.
Insert(c) ==
  LET row == <<group[c], members[c][turn[c]]>>
  IN  /\ pc[c] = "insert"
      /\ \/ /\ groups' = IF Known(row[2]) THEN groups \cup {row} ELSE groups
            /\ UNCHANGED faults
         \/ /\ faults < MaxFaults /\ faults' = faults + 1
            /\ UNCHANGED groups
      /\ NextUser(c, Tell(c, members[c]))
      /\ UNCHANGED <<user, session, request, members, group, shown, heard, cut, asked, astray,
                     server, ghosts>>

\* What db_GetGroup may return: the users in any order, each once.
Listings(S) ==
  {list \in [1 .. Cardinality(S) -> S] : \A uid \in S : \E i \in DOMAIN list : list[i] = uid}

\* Mutant: everybody in the table is a member.
GroupMessage_AllUsers(c) ==
  \E list \in Listings(1 .. Len(user)) :
    /\ Works(c, "groupmsg")
    /\ members' = [members EXCEPT ![c] = list]
    /\ group' = [group EXCEPT ![c] = request[c].arg]
    /\ Tell(c, list)
    /\ Untouched /\ UNCHANGED <<tables, session, ghosts>>

\* protocol_GroupMessage: whoever asks, the members of this moment are told.
GroupMessage(c) ==
  /\ Works(c, "groupmsg")
  /\ \E list \in Listings(Members(request[c].arg)) :
       /\ members' = [members EXCEPT ![c] = list]
       /\ Tell(c, list)
  /\ group' = [group EXCEPT ![c] = request[c].arg]
  /\ Untouched /\ UNCHANGED <<tables, session, ghosts>>

Push(c) == [kind |-> request[c].kind, from |-> session[c], gid |-> group[c]]

\* The session that a turn writes to: none if the user is the caller or is not
\* online, and the first in the list, whichever that is, if he has several.
Found(c) ==
  LET uid  == members[c][turn[c]]
      them == IF uid = session[c] \/ uid = 0 THEN {} ELSE SessionsOf(uid)
  IN  IF them = {} THEN {{}} ELSE {{d} : d \in them}

Hear(c, them) ==
  heard' = [d \in Clients |-> IF d \in them THEN heard[d] \cup {Push(c)} ELSE heard[d]]

\* Mutant: the first user who is not online ends the loop.
Notify_StopsAtOffline(c) ==
  /\ pc[c] = "tell"
  /\ \E them \in Found(c) : Hear(c, them)
  /\ IF Online(members[c][turn[c]])
     THEN NextUser(c, UNCHANGED turn /\ Reply(c, Success(0)))
     ELSE UNCHANGED turn /\ Reply(c, Success(0))
  /\ UNCHANGED <<tables, session, request, members, group, shown, cut, bounds, server, ghosts>>

\* A turn of the loops around login_Notify.
Notify(c) ==
  /\ pc[c] = "tell"
  /\ \E them \in Found(c) : Hear(c, them)
  /\ NextUser(c, turn' = [turn EXCEPT ![c] = 1] /\ Reply(c, Success(0)))
  /\ UNCHANGED <<tables, session, request, members, group, shown, cut, bounds, server, ghosts>>

\* The requests that follow a pointer which a failure leaves NULL, or -1.
Fatal == {"getname", "getgroups", "groupusers", "groupmsg"}

\* No connection, or a statement that fails.  If it fails before the second
\* packet is read the answer crosses that (module Session).
DatabaseFails(c) ==
  /\ pc[c] = "work" /\ faults < MaxFaults
  /\ faults' = faults + 1
  /\ \/ /\ request[c].kind \in Fatal
        /\ server' = "down"
        /\ UNCHANGED <<pc, answer, session, screen>>
     \/ /\ request[c].kind \in Pushing
        /\ Crossed(c)
        /\ UNCHANGED <<answer, server>>
     \/ /\ request[c].kind \notin Pushing \cup {"getname"}
        /\ Reply(c, Failure)
        /\ UNCHANGED <<session, screen, server>>
  /\ UNCHANGED <<tables, request, work, nick, avatar, grouplist, heard, cut, asked, astray,
                 ghosts>>

\* The client has gone, or has sent what cannot be read: its handler finds out
\* when nothing is under way.
Leave(c) ==
  /\ pc[c] = "idle" /\ session[c] # 0
  /\ screen[c] = "main" \/ c \in cut
  /\ session' = [session EXCEPT ![c] = 0]
  /\ screen' = [screen EXCEPT ![c] = "lost"]
  /\ heard' = [heard EXCEPT ![c] = {}]
  /\ UNCHANGED <<tables, pc, request, work, answer, nick, avatar, grouplist, cut, bounds, server,
                 ghosts>>

-----------------------------------------------------------------------------
Serve(c) ==
  \/ Register(c) \/ Login(c) \/ Link(c) \/ GetName(c) \/ ChangeName(c) \/ GetAvatar(c) \/ SetAvatar(c)
  \/ GetGroups(c) \/ GetGroupUsers(c) \/ RefuseGroup(c) \/ CreateGroup(c) \/ Insert(c)
  \/ GroupMessage(c) \/ Notify(c)

Next ==
  /\ server = "up"
  /\ \E c \in Clients :
       \/ LoginWindow(c) \/ MainWindowOpens(c) \/ Use(c) \/ ReadAnswer(c) \/ ReadAstray(c)
       \/ Serve(c) \/ DatabaseFails(c) \/ Leave(c)

Spec == Init /\ [][Next]_vars

-----------------------------------------------------------------------------
Kinds == {"none", "register", "login", "getavatar", "getname", "getgroups", "changename",
          "setavatar", "creategroup", "groupusers", "groupmsg"}
Args(kind) == CASE kind \in {"register", "changename"} -> Names
                [] kind \in {"login", "getavatar", "getname"} -> Nat
                [] kind = "setavatar" -> Avatars
                [] kind = "creategroup" -> Lists
                [] kind \in {"groupusers", "groupmsg"} -> Gids
                [] OTHER -> {0}

Rows   == [name : Names \ BadNames, passwd : {Person[c] : c \in Clients}, avatar : Avatars]
Pushes == [kind : Pushing, from : 1 .. Len(user), gid : Gids]

TablesOK ==
  /\ user \in Seq(Rows)
  /\ groups \subseteq Gids \X (1 .. Len(user))
  /\ session \in [Clients -> 0 .. Len(user)]
  /\ \A c \in Clients : session[c] # 0 => user[session[c]].passwd = Person[c]

RequestOK(c) ==
  /\ request[c].kind \in Kinds /\ request[c].arg \in Args(request[c].kind)
  /\ answer[c].ok \in BOOLEAN
  /\ pc[c] = "answer" /\ request[c].kind = "getname" => answer[c].value \in Names \cup {Junk}
  /\ pc[c] = "answer" /\ request[c].kind = "getavatar" => answer[c].value \in Avatars \cup {Junk}
  /\ pc[c] = "answer" /\ request[c].kind = "getgroups" /\ answer[c].ok => answer[c].value \in SUBSET Gids
  /\ pc[c] = "link" =>
       request[c].kind = "login" /\ Known(request[c].arg) /\ user[request[c].arg].passwd = Person[c]
  /\ pc[c] \in {"insert", "tell"} => turn[c] <= Len(members[c]) /\ group[c] \in Gids

WorkOK ==
  /\ pc \in [Clients -> {"idle", "work", "link", "insert", "tell", "answer"}]
  /\ DOMAIN request = Clients /\ DOMAIN answer = Clients
  /\ \A c \in Clients : RequestOK(c)
  /\ members \in [Clients -> Seq(Nat)]
  /\ turn \in [Clients -> Nat \ {0}]
  /\ group \in [Clients -> Gids \cup {Junk}]

ShownOK ==
  /\ screen \in [Clients -> {"login", "avatar", "name", "groups", "main", "lost"}]
  /\ nick \in [Clients -> Names \cup {Junk}]
  /\ avatar \in [Clients -> Avatars \cup {Junk}]
  /\ grouplist \in [Clients -> SUBSET Gids]
  /\ heard \in [Clients -> SUBSET Pushes]

RestOK ==
  /\ asked \in 0 .. MaxAsked /\ faults \in 0 .. MaxFaults /\ astray \in 0 .. MaxAstray
  /\ server \in {"up", "down"}
  /\ late \in [Clients -> SUBSET Clients]
  /\ cut \subseteq Clients
  /\ refused \subseteq Clients /\ unsure \subseteq Clients /\ shared \subseteq Clients

\* Every variable keeps its type; the names in the table are names that are
\* allowed, and a connection is logged in as a user of its own person.
TypeOK == TablesOK /\ WorkOK /\ ShownOK /\ RestOK

AtRest(c) == c \in Windows /\ screen[c] = "main" /\ pc[c] = "idle" /\ session[c] # 0

\* What a window client shows as its own name is the name in the table,
\* whatever names were refused, whatever the others do, whatever statement
\* failed; so is its avatar, unless its last request about it failed: the client
\* does not take back an avatar that was refused.  There are two exceptions: a
\* client that missed the answer that told it its name, until it has the next
\* one, and a client whose user had a second session, which may rename him.
OwnProfile ==
  \A c \in Clients \ shared : AtRest(c) =>
    /\ c \notin unsure => nick[c] = user[session[c]].name
    /\ c \notin refused => avatar[c] = user[session[c]].avatar

\* A group is a matter of its members.  Its messages reach members only, and
\* those of a person who has window clients only come from members:
\* protocol_GroupMessage does not ask, but they know no group they were not
\* listed in.  Who is told that a group was created is in the table by then,
\* unless the database failed or his account is younger than the group (nobody
\* is told of a failed insert).
OnlyMembersHear ==
  \A c \in Clients : \A push \in heard[c] :
    /\ push.kind = "groupmsg" /\ session[c] # 0 => session[c] \in Members(push.gid)
    /\ push.kind = "groupmsg" /\ (\A d \in Clients : Person[d] = user[push.from].passwd => d \in Windows)
       => push.from \in Members(push.gid)
    /\ /\ push.kind = "creategroup" /\ session[c] # 0 /\ faults = 0
       /\ \A m \in made : m.gid = push.gid => session[c] <= m.rows
       => session[c] \in Members(push.gid)

\* Once a group or a message to one is answered 0, every user it concerns has
\* been told, except those who came online while it was being done and those
\* who had two sessions, of which one is told.
EveryoneIsTold ==
  \A c, d \in Clients :
    /\ pc[c] = "answer" /\ answer[c].ok /\ request[c].kind \in Pushing
    /\ \E i \in 1 .. Len(members[c]) : members[c][i] = session[d]
    /\ session[d] # 0 /\ d # c /\ d \notin late[c] \cup shared
    => Push(c) \in heard[d]

\* The members of a group are those of one list it was created with, however
\* many groups are being created, unless its id was drawn twice.
GroupsApart ==
  \A m \in made :
    (\A other \in made : other.gid = m.gid => other = m) =>
      \A uid \in Members(m.gid) : \E i \in 1 .. Len(m.list) : m.list[i] = uid
=============================================================================
