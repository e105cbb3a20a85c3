---------------------------- MODULE DirectoryProofs ----------------------------
(***************************************************************************)
(* Proofs about Directory, for any clients, names, avatars, group ids,     *)
(* lists, requests and failures: what a window client shows of itself is   *)
(* what is stored, and a group's business is its members'.                 *)
(***************************************************************************)
EXTENDS Directory, FiniteSetTheorems, TLAPS

\* The requests that are made from a screen.
KindsOf(s) == CASE s = "login"  -> {"register", "login"}
                [] s = "avatar" -> {"getavatar"}
                [] s = "name"   -> {"getname"}
                [] s = "groups" -> {"getgroups"}
                [] s = "main"   -> {"changename", "setavatar", "creategroup", "groupusers", "groupmsg"}
                [] OTHER        -> {}

\* A client, its request and its login: who has no user is at the login screen
\* or lost, and who asks, asks what his screen asks.
PlaceOf(c) ==
  /\ pc[c] = "idle" => request[c].kind = "none" \/ screen[c] = "lost"
  /\ pc[c] # "idle" => request[c].kind \in KindsOf(screen[c])
  /\ pc[c] = "insert" => request[c].kind = "creategroup"
  /\ pc[c] = "tell" => request[c].kind \in Pushing
  /\ session[c] = 0 => screen[c] \in {"login", "lost"}
  /\ screen[c] = "lost" => session[c] = 0
  /\ screen[c] = "login" =>
       (session[c] # 0 <=> pc[c] = "answer" /\ request[c].kind = "login" /\ answer[c].ok)
  /\ screen[c] \in {"avatar", "name", "groups"} => c \in Windows
  /\ request[c].kind \in {"getavatar", "getname"} => request[c].arg = session[c]
  /\ session[c] = 0 /\ screen[c] # "lost" => heard[c] = {}

PlaceInv == \A c \in Clients : PlaceOf(c)

\* Clients that are logged in as one user are shared.
SoleInv ==
  \A c, d \in Clients : c # d /\ session[c] # 0 /\ session[c] = session[d] => c \in shared

Pending(c, kind) == pc[c] # "idle" /\ request[c].kind = kind
Accepted(c, kind) == pc[c] = "answer" /\ request[c].kind = kind /\ answer[c].ok

\* What a window client shows as its name, or is about to.
NameOf(c) ==
  LET name == user[session[c]].name
  IN  /\ pc[c] = "answer" /\ request[c].kind = "getname" => answer[c].value = name
      /\ Accepted(c, "changename") => request[c].arg = name
      /\ screen[c] \in {"groups", "main"} /\ ~Accepted(c, "changename") /\ c \notin unsure
         => nick[c] = name

\* The same of its avatar: while a new one is set the client has it already.
AvatarOf(c) ==
  LET av == user[session[c]].avatar
  IN  /\ Accepted(c, "getavatar") => answer[c].value = av
      /\ pc[c] = "work" /\ request[c].kind = "setavatar" => avatar[c] = request[c].arg
      /\ Accepted(c, "setavatar") => avatar[c] = av
      /\ screen[c] \in {"name", "groups", "main"} /\ ~Pending(c, "setavatar") /\ c \notin refused
         => avatar[c] = av

ProfileOf(c) == session[c] # 0 => NameOf(c) /\ AvatarOf(c)

ProfileInv == \A c \in Windows \ shared : ProfileOf(c)

\* A row was inserted for a group that was created with a list that has it.
RowsInv ==
  /\ \A m \in made : m.list \in Seq(Nat) /\ m.rows \in Nat
  /\ \A row \in groups : \E m \in made : m.gid = row[1] /\ \E i \in 1 .. Len(m.list) : m.list[i] = row[2]

\* The users of a list whose rows are written, unless a statement failed.
Written(c, m) ==
  faults = 0 => \A i \in 1 .. Len(members[c]) :
    (pc[c] = "tell" \/ i < turn[c]) /\ members[c][i] \in 1 .. m.rows => <<group[c], members[c][i]>> \in groups

\* The list that a group is being created with.
ListOf(c) ==
  pc[c] \in {"insert", "tell"} /\ request[c].kind = "creategroup" =>
    \E m \in made : m.gid = group[c] /\ m.list = members[c] /\ m.rows <= Len(user) /\ Written(c, m)

CreateInv == \A c \in Clients : ListOf(c)

\* The members that a message goes to, and the groups that a window client
\* knows.
MembersOf(c) ==
  pc[c] = "tell" /\ request[c].kind = "groupmsg" =>
    group[c] = request[c].arg /\ \A i \in 1 .. Len(members[c]) : <<group[c], members[c][i]>> \in groups

GroupsKnown(c) ==
  IF session[c] = 0
  THEN screen[c] # "lost" => grouplist[c] = {}
  ELSE /\ \A g \in grouplist[c] : <<g, session[c]>> \in groups
       /\ Accepted(c, "getgroups") => \A g \in answer[c].value : <<g, session[c]>> \in groups
       /\ Pending(c, "groupmsg") => request[c].arg \in grouplist[c]

KnownInv == (\A c \in Clients : MembersOf(c)) /\ (\A c \in Windows : GroupsKnown(c))

GroupInv == RowsInv /\ CreateInv /\ KnownInv

\* Who was online when the request began, and whose turn has come, has been told.
ToldOf(c, d) ==
  (pc[c] = "tell" \/ (pc[c] = "answer" /\ answer[c].ok)) /\ request[c].kind \in Pushing =>
    \A i \in 1 .. Len(members[c]) :
      /\ pc[c] = "answer" \/ i < turn[c]
      /\ members[c][i] = session[d] /\ session[d] # 0 /\ d # c /\ d \notin late[c] \cup shared
      => Push(c) \in heard[d]

ToldInv == \A c, d \in Clients : ToldOf(c, d)

BaseInv == TypeOK /\ PlaceInv /\ SoleInv

-----------------------------------------------------------------------------
\* The table of users.

LEMMA FirstNameIsGood == FirstName \in Names \ BadNames
  BY DirectoryAssumption DEF FirstName

LEMMA RowIsTyped ==
  ASSUME TablesOK, NEW n \in 1 .. Len(user)
  PROVE  /\ user[n] \in Rows
         /\ user[n].name \in Names \ BadNames
         /\ user[n].avatar \in Avatars
  <1>1. user[n] \in Rows
    BY DEF TablesOK
  <1> QED
    BY <1>1 DEF Rows

LEMMA RowAppended ==
  ASSUME NEW table \in Seq(Rows), NEW row \in Rows
  PROVE  /\ Append(table, row) \in Seq(Rows)
         /\ Len(Append(table, row)) = Len(table) + 1
         /\ \A n \in 1 .. Len(table) : Append(table, row)[n] = table[n]
  OBVIOUS

LEMMA RowRenamed ==
  ASSUME NEW row \in Rows, NEW name \in Names \ BadNames
  PROVE  /\ [row EXCEPT !.name = name] \in Rows
         /\ [row EXCEPT !.name = name].name = name
         /\ [row EXCEPT !.name = name].passwd = row.passwd
         /\ [row EXCEPT !.name = name].avatar = row.avatar
  BY DEF Rows

LEMMA RowRedrawn ==
  ASSUME NEW row \in Rows, NEW av \in Avatars
  PROVE  /\ [row EXCEPT !.avatar = av] \in Rows
         /\ [row EXCEPT !.avatar = av].avatar = av
         /\ [row EXCEPT !.avatar = av].passwd = row.passwd
         /\ [row EXCEPT !.avatar = av].name = row.name
  BY DEF Rows

LEMMA RowReplaced ==
  ASSUME NEW table \in Seq(Rows), NEW n \in 1 .. Len(table), NEW row \in Rows
  PROVE  /\ [table EXCEPT ![n] = row] \in Seq(Rows)
         /\ Len([table EXCEPT ![n] = row]) = Len(table)
         /\ \A k \in 1 .. Len(table) : [table EXCEPT ![n] = row][k] = IF k = n THEN row ELSE table[k]
  OBVIOUS

-----------------------------------------------------------------------------
\* What the steps come to.

\* A client's question: one that its screen asks, about what it knows.
Question(c, kind, arg) ==
  /\ Ask(c, kind, arg)
  /\ kind \in KindsOf(screen[c]) /\ arg \in Args(kind)
  /\ kind \in {"getavatar", "getname"} => arg = session[c]
  /\ kind = "groupmsg" /\ c \in Windows => arg \in grouplist[c]
  /\ asked' \in 0 .. MaxAsked

LEMMA AskingIsQuestion ==
  ASSUME BaseInv, NEW c \in Clients, LoginWindow(c) \/ MainWindowOpens(c) \/ Use(c)
  PROVE  \E kind, arg : Question(c, kind, arg)
  <1>1. asked \in 0 .. MaxAsked /\ MaxAsked \in Nat
    BY DirectoryAssumption DEF BaseInv, TypeOK, RestOK
  <1>2. CASE LoginWindow(c)
    <2>1. screen[c] = "login" /\ asked' = asked
      BY <1>2 DEF LoginWindow
    <2>2. CASE \E name \in BadNames \cup {FirstName} : Ask(c, "register", name)
      <3>1. PICK name \in BadNames \cup {FirstName} : Ask(c, "register", name)
        BY <2>2
      <3>2. name \in Names
        BY FirstNameIsGood, DirectoryAssumption
      <3> QED
        BY <1>1, <2>1, <3>1, <3>2 DEF Question, KindsOf, Args
    <2>3. CASE \E uid \in 1 .. Len(user) : Ask(c, "login", uid)
      <3>1. PICK uid \in 1 .. Len(user) : Ask(c, "login", uid)
        BY <2>3
      <3>2. uid \in Nat
        OBVIOUS
      <3> QED
        BY <1>1, <2>1, <3>1, <3>2 DEF Question, KindsOf, Args
    <2> QED
      BY <1>2, <2>2, <2>3 DEF LoginWindow
  <1>3. CASE MainWindowOpens(c)
    <2>1. asked' = asked
      BY <1>3 DEF MainWindowOpens
    <2>2. session[c] \in Nat
      BY DEF BaseInv, TypeOK, TablesOK
    <2>3. CASE screen[c] = "avatar" /\ Ask(c, "getavatar", session[c])
      BY <1>1, <2>1, <2>2, <2>3 DEF Question, KindsOf, Args
    <2>4. CASE screen[c] = "name" /\ Ask(c, "getname", session[c])
      BY <1>1, <2>1, <2>2, <2>4 DEF Question, KindsOf, Args
    <2>5. CASE screen[c] = "groups" /\ Ask(c, "getgroups", 0)
      BY <1>1, <2>1, <2>5 DEF Question, KindsOf, Args
    <2> QED
      BY <1>3, <2>3, <2>4, <2>5 DEF MainWindowOpens
  <1>4. CASE Use(c)
    <2>1. screen[c] = "main" /\ asked' \in 0 .. MaxAsked
      BY <1>1, <1>4 DEF Use
    <2>2. grouplist[c] \subseteq Gids
      BY DEF BaseInv, TypeOK, ShownOK
    <2>3. CASE \E name \in Names : Ask(c, "changename", name)
      BY <2>1, <2>3 DEF Question, KindsOf, Args
    <2>4. CASE \E n \in Avatars : Ask(c, "setavatar", n)
      BY <2>1, <2>4 DEF Question, KindsOf, Args
    <2>5. CASE \E list \in Lists : Ask(c, "creategroup", list)
      BY <2>1, <2>5 DEF Question, KindsOf, Args
    <2>6. CASE \E g \in Gids : Ask(c, "groupusers", g)
      BY <2>1, <2>6 DEF Question, KindsOf, Args
    <2>7. CASE \E g \in IF c \in Windows THEN grouplist[c] ELSE Gids : Ask(c, "groupmsg", g)
      BY <2>1, <2>2, <2>7 DEF Question, KindsOf, Args
    <2> QED
      BY <1>4, <2>3, <2>4, <2>5, <2>6, <2>7 DEF Use
  <1> QED
    BY <1>2, <1>3, <1>4

\* A request that only reads the tables, and what it finds.
Query(c, kind, a) ==
  /\ Works(c, kind) /\ Reply(c, a)
  /\ Untouched /\ UNCHANGED <<tables, session, work, ghosts>>
  /\ a.ok \in BOOLEAN
  /\ \/ kind = "groupusers"
     \/ kind = "getgroups" /\ a.value = GroupsOf(session[c])
     \/ kind = "getname" /\ a = (IF Known(request[c].arg) THEN Success(user[request[c].arg].name) ELSE Failure)
     \/ kind = "getavatar" /\ a = (IF Known(request[c].arg) THEN Success(user[request[c].arg].avatar) ELSE Failure)

LEMMA ReadingIsQuery ==
  ASSUME NEW c, GetName(c) \/ GetAvatar(c) \/ GetGroups(c) \/ GetGroupUsers(c)
  PROVE  \E kind, a : Query(c, kind, a)
  <1>1. \A v : Success(v).ok \in BOOLEAN /\ Success(v).value = v /\ Failure.ok \in BOOLEAN
    BY DEF Success, Failure
  <1>2. CASE GetName(c)
    BY <1>1, <1>2 DEF GetName, Query
  <1>3. CASE GetAvatar(c)
    BY <1>1, <1>3 DEF GetAvatar, Query
  <1>4. CASE GetGroups(c)
    BY <1>1, <1>4 DEF GetGroups, Query
  <1>5. CASE GetGroupUsers(c)
    BY <1>1, <1>5 DEF GetGroupUsers, Query
  <1> QED
    BY <1>2, <1>3, <1>4, <1>5

\* The steps, by what they do.
Step(c) ==
  \/ \E kind, arg : Question(c, kind, arg)
  \/ Reads(c) /\ (ReadAnswer(c) \/ ReadAstray(c))
  \/ Register(c) \/ Login(c) \/ Link(c)
  \/ \E kind, a : Query(c, kind, a)
  \/ ChangeName(c) \/ SetAvatar(c)
  \/ RefuseGroup(c) \/ CreateGroup(c) \/ Insert(c) \/ GroupMessage(c) \/ Notify(c)
  \/ DatabaseFails(c) \/ Leave(c)

LEMMA NextIsStep ==
  ASSUME BaseInv, Next
  PROVE  \E c \in Clients : Step(c)
  <1>1. \A c \in Clients : ReadAnswer(c) \/ ReadAstray(c) => Reads(c)
    BY DEF ReadAnswer, ReadAstray
  <1> QED
    BY <1>1, AskingIsQuestion, ReadingIsQuery DEF Next, Serve, Step

\* A request under way tells the screen, and whether the client is logged in.
LEMMA ScreenOfKind ==
  ASSUME BaseInv, NEW c \in Clients, pc[c] # "idle"
  PROVE  /\ screen[c] # "lost"
         /\ request[c].kind \in {"register", "login"} <=> screen[c] = "login"
         /\ request[c].kind = "getavatar" <=> screen[c] = "avatar"
         /\ request[c].kind = "getname" <=> screen[c] = "name"
         /\ request[c].kind = "getgroups" <=> screen[c] = "groups"
         /\ request[c].kind \in {"changename", "setavatar", "creategroup", "groupusers", "groupmsg"}
              <=> screen[c] = "main"
         /\ screen[c] # "login" => session[c] \in 1 .. Len(user)
  <1>1. screen[c] \in {"login", "avatar", "name", "groups", "main", "lost"} /\ session[c] \in 0 .. Len(user)
    BY DEF BaseInv, TypeOK, ShownOK, TablesOK
  <1>2. request[c].kind \in KindsOf(screen[c]) /\ (session[c] = 0 => screen[c] \in {"login", "lost"})
    BY DEF BaseInv, PlaceInv, PlaceOf
  <1> HIDE DEF BaseInv
  <1>3. CASE screen[c] = "login"
    BY <1>2, <1>3 DEF KindsOf
  <1>4. CASE screen[c] = "avatar"
    BY <1>1, <1>2, <1>4 DEF KindsOf
  <1>5. CASE screen[c] = "name"
    BY <1>1, <1>2, <1>5 DEF KindsOf
  <1>6. CASE screen[c] = "groups"
    BY <1>1, <1>2, <1>6 DEF KindsOf
  <1>7. CASE screen[c] = "main"
    BY <1>1, <1>2, <1>7 DEF KindsOf
  <1>8. CASE screen[c] = "lost"
    BY <1>2, <1>8 DEF KindsOf
  <1> QED
    BY <1>1, <1>3, <1>4, <1>5, <1>6, <1>7, <1>8

-----------------------------------------------------------------------------
\* Types.

\* The tables only grow, and a user's password and uid are for ever.
TablesGrow ==
  /\ user' \in Seq(Rows) /\ Len(user) <= Len(user')
  /\ \A n \in 1 .. Len(user) : user'[n].passwd = user[n].passwd
  /\ groups \subseteq groups'

LEMMA StepGrows ==
  ASSUME BaseInv, NEW c \in Clients, Step(c)
  PROVE  TablesGrow
  <1>0. user \in Seq(Rows) /\ RequestOK(c)
    BY DEF BaseInv, TypeOK, TablesOK, WorkOK
  <1>1. CASE Register(c) /\ request[c].arg \notin BadNames
    <2>1. request[c].kind = "register"
      BY <1>1 DEF Register, Works
    <2>2. request[c].arg \in Names
      BY <1>0, <2>1 DEF RequestOK, Args
    <2>3. NewRow(request[c].arg, Person[c]) \in Rows
      BY <1>1, <2>2, DirectoryAssumption DEF NewRow, Rows
    <2>4. user' = Append(user, NewRow(request[c].arg, Person[c])) /\ groups' = groups
      BY <1>1 DEF Register
    <2> QED
      BY <1>0, <2>3, <2>4, RowAppended DEF TablesGrow
  <1>2. CASE ChangeName(c) /\ request[c].arg \notin BadNames
    <2>1. request[c].kind = "changename" /\ pc[c] = "work"
      BY <1>2 DEF ChangeName, Works
    <2>2. request[c].arg \in Names \ BadNames
      BY <1>0, <1>2, <2>1 DEF RequestOK, Args
    <2>4. session[c] \in 1 .. Len(user)
      BY <2>1, ScreenOfKind
    <2> DEFINE row == [user[session[c]] EXCEPT !.name = request[c].arg]
    <2>5a. user[session[c]] \in Rows
      BY <1>0, <2>4
    <2>5. row \in Rows /\ row.passwd = user[session[c]].passwd
      BY <2>2, <2>5a, RowRenamed
    <2>6. user' = [user EXCEPT ![session[c]] = row] /\ groups' = groups
      BY <1>2 DEF ChangeName
    <2> HIDE DEF row
    <2> QED
      BY <1>0, <2>4, <2>5, <2>6, RowReplaced DEF TablesGrow
  <1>3. CASE SetAvatar(c)
    <2>1. request[c].kind = "setavatar" /\ pc[c] = "work"
      BY <1>3 DEF SetAvatar, Works
    <2>2. request[c].arg \in Avatars
      BY <1>0, <2>1 DEF RequestOK, Args
    <2>4. session[c] \in 1 .. Len(user)
      BY <2>1, ScreenOfKind
    <2> DEFINE row == [user[session[c]] EXCEPT !.avatar = request[c].arg]
    <2>5a. user[session[c]] \in Rows
      BY <1>0, <2>4
    <2>5. row \in Rows /\ row.passwd = user[session[c]].passwd
      BY <2>2, <2>5a, RowRedrawn
    <2>6. user' = [user EXCEPT ![session[c]] = row] /\ groups' = groups
      BY <1>3 DEF SetAvatar
    <2> HIDE DEF row
    <2> QED
      BY <1>0, <2>4, <2>5, <2>6, RowReplaced DEF TablesGrow
  <1>4. CASE Insert(c)
    <2>1. user' = user /\ groups \subseteq groups'
      BY <1>4 DEF Insert
    <2> QED
      BY <1>0, <2>1 DEF TablesGrow
  <1>5. CASE user' = user /\ groups' = groups
    BY <1>0, <1>5 DEF TablesGrow
  <1>6. (\E kind, arg : Question(c, kind, arg)) => user' = user /\ groups' = groups
    BY DEF Question, Ask, tables
  <1>7. (\E kind, a : Query(c, kind, a)) => user' = user /\ groups' = groups
    BY DEF Query, tables
  <1>8. Reads(c) \/ Login(c) \/ Link(c) \/ RefuseGroup(c) \/ CreateGroup(c) \/ Notify(c)
        \/ DatabaseFails(c) \/ Leave(c) => user' = user /\ groups' = groups
    BY DEF Reads, Login, Link, RefuseGroup, CreateGroup, Notify, DatabaseFails, Leave, tables
  <1>9. GroupMessage(c) => user' = user /\ groups' = groups
    BY DEF GroupMessage, tables
  <1>10. Register(c) /\ request[c].arg \in BadNames => user' = user /\ groups' = groups
    BY DEF Register
  <1>11. ChangeName(c) /\ request[c].arg \in BadNames => user' = user /\ groups' = groups
    BY DEF ChangeName
  <1> QED
    BY <1>1, <1>2, <1>3, <1>4, <1>5, <1>6, <1>7, <1>8, <1>9, <1>10, <1>11 DEF Step

\* What a step does to the logins.
LEMMA StepSessions ==
  ASSUME BaseInv, NEW c \in Clients, Step(c)
  PROVE  \/ session' = session
         \/ session' = [session EXCEPT ![c] = 0]
         \/ /\ session' = [session EXCEPT ![c] = request[c].arg] /\ Link(c)
            /\ request[c].arg \in 1 .. Len(user) /\ user[request[c].arg].passwd = Person[c] /\ user' = user
  <1>1. (\E kind, arg : Question(c, kind, arg)) => session' = session
    BY DEF Question, Ask
  <1>2. (\E kind, a : Query(c, kind, a)) => session' = session
    BY DEF Query
  <1>3. Reads(c) \/ Register(c) \/ Login(c) \/ ChangeName(c) \/ SetAvatar(c) \/ CreateGroup(c)
        \/ Insert(c) \/ Notify(c) => session' = session
    BY DEF Reads, Register, Login, ChangeName, SetAvatar, CreateGroup, Insert, Notify
  <1>4. GroupMessage(c) => session' = session
    BY DEF GroupMessage
  <1>5. RefuseGroup(c) \/ DatabaseFails(c) \/ Leave(c) =>
          session' = session \/ session' = [session EXCEPT ![c] = 0]
    BY DEF RefuseGroup, DatabaseFails, Crossed, Leave
  <1>6. Link(c) =>
          /\ session' = [session EXCEPT ![c] = request[c].arg]
          /\ request[c].arg \in 1 .. Len(user) /\ user[request[c].arg].passwd = Person[c] /\ user' = user
    BY DEF Link, BaseInv, TypeOK, WorkOK, RequestOK, Known, tables
  <1> QED
    BY <1>1, <1>2, <1>3, <1>4, <1>5, <1>6 DEF Step

LEMMA TablesStep ==
  ASSUME BaseInv, NEW c \in Clients, Step(c)
  PROVE  TablesOK'
  <1> USE DEF BaseInv, TypeOK, TablesOK
  <1>1. TablesGrow
    BY StepGrows
  <1>2. Len(user) \in Nat /\ Len(user') \in Nat
    BY <1>1 DEF TablesGrow
  <1>3. session' \in [Clients -> 0 .. Len(user')]
    BY <1>1, <1>2, StepSessions DEF TablesGrow
  <1>4. \A d \in Clients : session'[d] # 0 => user'[session'[d]].passwd = Person[d]
    BY <1>1, <1>2, StepSessions DEF TablesGrow
  <1>5. groups' \subseteq Gids \X (1 .. Len(user'))
    <2>1. CASE Insert(c)
      <3>1. group[c] \in Gids /\ user' = user
        BY <2>1 DEF Insert, WorkOK, RequestOK
      <3> DEFINE row == <<group[c], members[c][turn[c]]>>
      <3>2. groups' = groups \/ (Known(row[2]) /\ groups' = groups \cup {row})
        BY <2>1 DEF Insert
      <3> QED
        BY <3>1, <3>2 DEF Known
    <2>2. CASE groups' = groups
      BY <1>1, <1>2, <2>2 DEF TablesGrow
    <2>3. (\E kind, arg : Question(c, kind, arg)) => groups' = groups
      BY DEF Question, Ask, tables
    <2>4. (\E kind, a : Query(c, kind, a)) => groups' = groups
      BY DEF Query, tables
    <2>5. Reads(c) \/ Register(c) \/ Login(c) \/ Link(c) \/ ChangeName(c) \/ SetAvatar(c) \/ RefuseGroup(c)
          \/ CreateGroup(c) \/ Notify(c) \/ DatabaseFails(c) \/ Leave(c) => groups' = groups
      BY DEF Reads, Register, Login, Link, ChangeName, SetAvatar, RefuseGroup, CreateGroup, Notify,
             DatabaseFails, Leave, tables
    <2>6. GroupMessage(c) => groups' = groups
      BY DEF GroupMessage, tables
    <2> QED
      BY <2>1, <2>2, <2>3, <2>4, <2>5, <2>6 DEF Step
  <1> QED
    BY <1>1, <1>3, <1>4, <1>5 DEF TablesGrow

\* A step leaves what belongs to the other clients alone.
SameFor(d) ==
  /\ pc'[d] = pc[d] /\ request'[d] = request[d] /\ answer'[d] = answer[d]
  /\ members'[d] = members[d] /\ turn'[d] = turn[d] /\ group'[d] = group[d]
  /\ session'[d] = session[d] /\ screen'[d] = screen[d] /\ nick'[d] = nick[d]
  /\ avatar'[d] = avatar[d] /\ grouplist'[d] = grouplist[d]
  /\ d \in refused' <=> d \in refused
  /\ d \in unsure' <=> d \in unsure

\* The types of the functions alone.
Functions ==
  /\ DOMAIN pc = Clients /\ DOMAIN request = Clients /\ DOMAIN answer = Clients
  /\ DOMAIN members = Clients /\ DOMAIN turn = Clients /\ DOMAIN group = Clients
  /\ DOMAIN session = Clients /\ DOMAIN screen = Clients /\ DOMAIN nick = Clients
  /\ DOMAIN avatar = Clients /\ DOMAIN grouplist = Clients /\ DOMAIN heard = Clients
  /\ DOMAIN late = Clients

LEMMA TypesAreFunctions ==
  ASSUME BaseInv PROVE Functions
  BY DEF BaseInv, TypeOK, TablesOK, WorkOK, ShownOK, RestOK, Functions

LEMMA Elsewhere ==
  ASSUME BaseInv, NEW c \in Clients, Step(c), NEW d \in Clients, d # c
  PROVE  SameFor(d)
  <1>0. Functions
    BY TypesAreFunctions
  <1> HIDE DEF BaseInv
  <1> USE <1>0 DEF Functions
  <1>1. CASE \E kind, arg : Question(c, kind, arg)
    BY <1>1 DEF Question, Ask, work, ghosts, SameFor
  <1>2. CASE Reads(c) /\ (ReadAnswer(c) \/ ReadAstray(c))
    <2>1. /\ pc' = [pc EXCEPT ![c] = "idle"] /\ request' = [request EXCEPT ![c] = NoRequest]
          /\ answer' = [answer EXCEPT ![c] = Failure] /\ members' = [members EXCEPT ![c] = <<>>]
          /\ group' = [group EXCEPT ![c] = Junk] /\ turn' = turn /\ session' = session
      BY <1>2 DEF Reads
    <2>2. screen'[d] = screen[d]
      BY <1>2 DEF Reads
    <2>3. nick'[d] = nick[d] /\ avatar'[d] = avatar[d] /\ grouplist'[d] = grouplist[d]
      BY <1>2 DEF ReadAnswer, ReadAstray
    <2>4. /\ d \in refused' <=> d \in refused
          /\ d \in unsure' <=> d \in unsure
      BY <1>2 DEF ReadAnswer, ReadAstray
    <2> QED
      BY <2>1, <2>2, <2>3, <2>4 DEF SameFor
  <1>3. CASE Register(c)
    BY <1>3 DEF Register, Reply, Untouched, shown, work, ghosts, SameFor
  <1>4. CASE Login(c) \/ Link(c)
    BY <1>4 DEF Login, Link, Reply, Untouched, shown, work, ghosts, SameFor
  <1>5. CASE \E kind, a : Query(c, kind, a)
    BY <1>5 DEF Query, Reply, Untouched, shown, work, ghosts, SameFor
  <1>6. CASE ChangeName(c)
    BY <1>6 DEF ChangeName, Reply, Untouched, shown, work, ghosts, SameFor
  <1>7. CASE SetAvatar(c)
    BY <1>7 DEF SetAvatar, Reply, Untouched, shown, work, ghosts, SameFor
  <1>8. CASE CreateGroup(c)
    BY <1>8 DEF CreateGroup, Reply, Untouched, shown, SameFor
  <1>9. CASE Insert(c)
    BY <1>9 DEF Insert, NextUser, Tell, Reply, shown, ghosts, SameFor
  <1>10. CASE GroupMessage(c)
    BY <1>10 DEF GroupMessage, Tell, Reply, Untouched, shown, ghosts, SameFor
  <1>11. CASE Notify(c)
    BY <1>11 DEF Notify, NextUser, Reply, shown, ghosts, SameFor
  <1>12. CASE DatabaseFails(c)
    BY <1>12 DEF DatabaseFails, Crossed, Reply, work, ghosts, SameFor
  <1>13. CASE Leave(c)
    BY <1>13 DEF Leave, work, ghosts, SameFor
  <1>14. CASE RefuseGroup(c)
    BY <1>14 DEF RefuseGroup, Crossed, work, ghosts, SameFor
  <1> QED
    BY <1>1, <1>2, <1>3, <1>4, <1>5, <1>6, <1>7, <1>8, <1>9, <1>10, <1>11, <1>12, <1>13, <1>14 DEF Step

\* The list of a group's members is a sequence of uids.
LEMMA ListingIsSeq ==
  ASSUME TablesOK, NEW g, NEW list \in Listings(Members(g))
  PROVE  list \in Seq(Nat) /\ \A i \in 1 .. Len(list) : <<g, list[i]>> \in groups
  <1> DEFINE S == Members(g)
  <1>1. \A uid \in S : uid \in 1 .. Len(user) /\ <<g, uid>> \in groups
    BY DEF TablesOK, Members
  <1>2. Len(user) \in Nat
    BY DEF TablesOK
  <1>3. IsFiniteSet(1 .. Len(user))
    BY <1>2, FS_Interval
  <1>4. IsFiniteSet(S)
    BY <1>1, <1>3, FS_Subset
  <1>5. Cardinality(S) \in Nat
    BY <1>4, FS_CardinalityType
  <1>6. list \in [1 .. Cardinality(S) -> S]
    BY DEF Listings
  <1> HIDE DEF S
  <1>7. list \in Seq(S) /\ DOMAIN list = 1 .. Len(list)
    BY <1>5, <1>6
  <1>8. \A i \in 1 .. Len(list) : list[i] \in S
    BY <1>7
  <1>9. \A uid \in S : uid \in Nat
    <2>1. \A uid \in S : uid \in 1 .. Len(user)
      BY <1>1
    <2> QED
      BY <2>1
  <1>10. list \in Seq(Nat)
    BY <1>7, <1>8, <1>9
  <1> QED
    BY <1>1, <1>8, <1>10

LEMMA RequestElsewhere ==
  ASSUME BaseInv, TablesGrow, NEW d \in Clients, SameFor(d)
  PROVE  RequestOK(d)'
  <1>1. RequestOK(d)
    BY DEF BaseInv, TypeOK, WorkOK
  <1>2. Len(user) \in Nat /\ Len(user') \in Nat /\ Len(user) <= Len(user')
    BY DEF BaseInv, TypeOK, TablesOK, TablesGrow
  <1>3. pc'[d] = "link" => request'[d].arg \in 1 .. Len(user') /\ user'[request'[d].arg].passwd = Person[d]
    BY <1>1, <1>2 DEF RequestOK, SameFor, Known, TablesGrow
  <1> QED
    BY <1>1, <1>3 DEF RequestOK, SameFor, Args, Known

WorkTypes ==
  /\ pc \in [Clients -> {"idle", "work", "link", "insert", "tell", "answer"}]
  /\ DOMAIN request = Clients /\ DOMAIN answer = Clients
  /\ members \in [Clients -> Seq(Nat)]
  /\ turn \in [Clients -> Nat \ {0}]
  /\ group \in [Clients -> Gids \cup {Junk}]

LEMMA TurnTyped ==
  ASSUME WorkTypes, NEW c \in Clients,
         \/ turn' = [turn EXCEPT ![c] = 1]
         \/ turn' = [turn EXCEPT ![c] = @ + 1]
  PROVE  /\ turn' \in [Clients -> Nat \ {0}]
         /\ turn'[c] = 1 \/ turn'[c] = turn[c] + 1
  <1>1. turn \in [Clients -> Nat \ {0}] /\ turn[c] \in Nat \ {0} /\ turn[c] + 1 \in Nat \ {0}
    BY DEF WorkTypes
  <1> QED
    BY <1>1

LEMMA WorkStep ==
  ASSUME BaseInv, NEW c \in Clients, Step(c)
  PROVE  WorkOK'
  <1>1. WorkTypes /\ RequestOK(c)
    BY DEF BaseInv, TypeOK, WorkOK, WorkTypes
  <1> SUFFICES WorkTypes' /\ RequestOK(c)'
    <2>1. \A d \in Clients : RequestOK(d)'
      BY RequestElsewhere, Elsewhere, StepGrows
    <2> QED
      BY <2>1 DEF WorkOK, WorkTypes
  <1>a. Success(0).ok \in BOOLEAN /\ Failure.ok \in BOOLEAN /\ Failure.value = Junk /\ ~Failure.ok
    BY DEF Success, Failure
  <1>2. CASE \E kind, arg : Question(c, kind, arg)
    <2>1. PICK kind, arg : Question(c, kind, arg)
      BY <1>2
    <2>2. kind \in Kinds
      BY <2>1 DEF Question, Kinds, KindsOf
    <2>3. /\ pc' = [pc EXCEPT ![c] = "work"] /\ request' = [request EXCEPT ![c] = [kind |-> kind, arg |-> arg]]
          /\ answer' = answer /\ members' = members /\ turn' = turn /\ group' = group
      BY <2>1 DEF Question, Ask, work
    <2>4. arg \in Args(kind)
      BY <2>1 DEF Question
    <2>5. request'[c].kind = kind /\ request'[c].arg = arg /\ pc'[c] = "work"
      BY <2>3, <1>1 DEF WorkTypes
    <2>6. WorkTypes'
      BY <1>1, <2>3 DEF WorkTypes
    <2> QED
      BY <1>1, <2>2, <2>3, <2>4, <2>5, <2>6 DEF RequestOK, Args
  <1>3. CASE Reads(c)
    <2>1. /\ pc' = [pc EXCEPT ![c] = "idle"] /\ request' = [request EXCEPT ![c] = NoRequest]
          /\ answer' = [answer EXCEPT ![c] = Failure] /\ members' = [members EXCEPT ![c] = <<>>]
          /\ group' = [group EXCEPT ![c] = Junk] /\ turn' = turn
      BY <1>3 DEF Reads
    <2>2. WorkTypes'
      BY <1>1, <2>1 DEF WorkTypes
    <2>3. request'[c] = NoRequest /\ answer'[c] = Failure /\ pc'[c] = "idle"
      BY <1>1, <2>1 DEF WorkTypes
    <2> QED
      BY <1>a, <2>2, <2>3 DEF RequestOK, NoRequest, Kinds, Args
  <1>4. ASSUME NEW a, Reply(c, a), request' = request, UNCHANGED work, a.ok \in BOOLEAN,
               request[c].kind = "getname" => a.value \in Names \cup {Junk},
               request[c].kind = "getavatar" => a.value \in Avatars \cup {Junk},
               request[c].kind = "getgroups" /\ a.ok => a.value \in SUBSET Gids
        PROVE  WorkTypes' /\ RequestOK(c)'
    <2>1. WorkTypes' /\ pc'[c] = "answer" /\ answer'[c] = a
      BY <1>1, <1>4 DEF Reply, work, WorkTypes
    <2> QED
      BY <1>1, <1>4, <2>1 DEF RequestOK, Args, work
  <1>5. CASE Register(c)
    BY <1>4, <1>a, <1>5 DEF Register, Works, Untouched
  <1>6. CASE Login(c)
    <2>1. request' = request /\ UNCHANGED work /\ request[c].kind = "login" /\ user' = user
      BY <1>6 DEF Login, Works, Untouched, tables
    <2>2. CASE Reply(c, Failure)
      BY <1>4, <1>a, <2>1, <2>2
    <2>3. CASE /\ pc' = [pc EXCEPT ![c] = "link"] /\ answer' = answer
               /\ Known(request[c].arg) /\ user[request[c].arg].passwd = Person[c]
      <3>1. WorkTypes' /\ pc'[c] = "link"
        BY <1>1, <2>1, <2>3 DEF WorkTypes, work
      <3> QED
        BY <1>1, <2>1, <2>3, <3>1 DEF RequestOK, Args, work, Known
    <2> QED
      BY <1>6, <2>2, <2>3 DEF Login
  <1>15. CASE Link(c)
    <2>1. request' = request /\ UNCHANGED work /\ request[c].kind = "login" /\ Reply(c, Success(0))
      BY <1>1, <1>15 DEF Link, Untouched, RequestOK
    <2> QED
      BY <1>4, <1>a, <2>1
  <1>16. CASE RefuseGroup(c)
    <2>1. request' = request /\ UNCHANGED work /\ answer' = answer /\ pc' = [pc EXCEPT ![c] = "idle"]
      BY <1>16 DEF RefuseGroup, Crossed
    <2>2. WorkTypes' /\ pc'[c] = "idle"
      BY <1>1, <2>1 DEF WorkTypes, work
    <2> QED
      BY <1>1, <2>1, <2>2 DEF RequestOK, Args, work
  <1>7. CASE ChangeName(c) \/ SetAvatar(c)
    BY <1>4, <1>a, <1>7 DEF ChangeName, SetAvatar, Works, Untouched
  <1>8. CASE \E kind, a : Query(c, kind, a)
    <2>1. PICK kind, a : Query(c, kind, a)
      BY <1>8
    <2>2. Works(c, kind) /\ Reply(c, a) /\ request' = request /\ UNCHANGED work /\ a.ok \in BOOLEAN
      BY <2>1 DEF Query, Untouched
    <2>3. Known(request[c].arg) =>
            user[request[c].arg].name \in Names /\ user[request[c].arg].avatar \in Avatars
      BY RowIsTyped DEF BaseInv, TypeOK, Known
    <2>a. \A v : Success(v).value = v /\ Failure.value = Junk
      BY DEF Success, Failure
    <2>4. kind = "getname" => a.value \in Names \cup {Junk}
      <3>1. CASE Known(request[c].arg)
        BY <2>1, <2>3, <2>a, <3>1 DEF Query
      <3>2. CASE ~Known(request[c].arg)
        BY <2>1, <2>a, <3>2 DEF Query
      <3> QED
        BY <3>1, <3>2
    <2>5. kind = "getavatar" => a.value \in Avatars \cup {Junk}
      BY <2>1, <2>3, <2>a DEF Query
    <2>6. kind = "getgroups" => a.value \in SUBSET Gids
      BY <2>1 DEF Query, GroupsOf
    <2> QED
      BY <1>4, <2>2, <2>4, <2>5, <2>6 DEF Works
  <1>9. CASE CreateGroup(c)
    <2>1. PICK g \in Gids : group' = [group EXCEPT ![c] = g]
      BY <1>9 DEF CreateGroup
    <2>2. request[c].arg \in Seq(Nat) /\ request[c].kind = "creategroup"
      BY <1>1, <1>9, DirectoryAssumption DEF CreateGroup, Works, RequestOK, Args
    <2>3. /\ members' = [members EXCEPT ![c] = request[c].arg] /\ turn' = [turn EXCEPT ![c] = 1]
          /\ request' = request
          /\ \/ /\ request[c].arg = <<>> /\ pc' = [pc EXCEPT ![c] = "answer"]
                /\ answer' = [answer EXCEPT ![c] = Success(0)]
             \/ request[c].arg # <<>> /\ pc' = [pc EXCEPT ![c] = "insert"] /\ answer' = answer
      BY <1>9 DEF CreateGroup, Untouched, Reply
    <2>4. members' \in [Clients -> Seq(Nat)] /\ turn' \in [Clients -> Nat \ {0}]
          /\ group' \in [Clients -> Gids \cup {Junk}]
      BY <1>1, <2>1, <2>2, <2>3, TurnTyped DEF WorkTypes
    <2>5. WorkTypes'
      BY <1>1, <2>3, <2>4 DEF WorkTypes
    <2>6. /\ pc'[c] \in {"answer", "insert"} /\ turn'[c] = 1 /\ members'[c] = request[c].arg /\ group'[c] = g
          /\ answer'[c].ok \in BOOLEAN
          /\ pc'[c] = "insert" => request[c].arg # <<>>
      BY <1>1, <1>a, <2>1, <2>2, <2>3 DEF WorkTypes, RequestOK
    <2>7. request[c].arg # <<>> => 1 <= Len(request[c].arg)
      BY <2>2
    <2> QED
      BY <1>1, <2>2, <2>3, <2>5, <2>6, <2>7 DEF RequestOK, Args
  <1>10. CASE Insert(c)
    <2>1. request' = request /\ members' = members /\ group' = group /\ pc[c] = "insert"
      BY <1>10 DEF Insert
    <2>2. \/ turn[c] < Len(members[c]) /\ turn' = [turn EXCEPT ![c] = @ + 1] /\ UNCHANGED <<pc, answer>>
          \/ turn' = [turn EXCEPT ![c] = 1] /\ pc' = [pc EXCEPT ![c] = "tell"] /\ answer' = answer
      <3>1. turn[c] <= Len(members[c]) /\ turn[c] >= 1
        BY <1>1, <2>1 DEF RequestOK, WorkTypes
      <3>2. members[c] # <<>>
        <4>1. turn[c] \in Nat /\ Len(<<>>) = 0
          BY <1>1 DEF WorkTypes
        <4> QED
          BY <3>1, <4>1
      <3> QED
        BY <1>10, <3>2 DEF Insert, NextUser, Tell
    <2>2a. turn' \in [Clients -> Nat \ {0}]
      BY <1>1, <2>2, TurnTyped
    <2>3. WorkTypes'
      BY <1>1, <2>1, <2>2, <2>2a DEF WorkTypes
    <2>4. pc'[c] \in {"insert", "tell"} /\ answer' = answer /\ turn'[c] <= Len(members[c])
      BY <1>1, <2>1, <2>2 DEF WorkTypes, RequestOK
    <2> QED
      BY <1>1, <2>1, <2>3, <2>4 DEF RequestOK, Args
  <1>11. CASE GroupMessage(c)
    <2>1. PICK list \in Listings(Members(request[c].arg)) :
            members' = [members EXCEPT ![c] = list] /\ Tell(c, list)
      BY <1>11 DEF GroupMessage
    <2>2. list \in Seq(Nat)
      BY ListingIsSeq DEF BaseInv, TypeOK
    <2>3. request[c].arg \in Gids /\ request[c].kind = "groupmsg"
      BY <1>1, <1>11 DEF GroupMessage, Works, RequestOK, Args
    <2>4. request' = request /\ group' = [group EXCEPT ![c] = request[c].arg]
      BY <1>11 DEF GroupMessage, Untouched
    <2>5. turn' = [turn EXCEPT ![c] = 1] /\
            \/ list = <<>> /\ pc' = [pc EXCEPT ![c] = "answer"] /\ answer' = [answer EXCEPT ![c] = Success(0)]
            \/ list # <<>> /\ pc' = [pc EXCEPT ![c] = "tell"] /\ answer' = answer
      BY <2>1 DEF Tell, Reply
    <2>5a. turn' \in [Clients -> Nat \ {0}]
      BY <1>1, <2>5, TurnTyped
    <2>6. WorkTypes'
      <3>1. members' \in [Clients -> Seq(Nat)] /\ group' \in [Clients -> Gids \cup {Junk}]
        BY <1>1, <2>1, <2>2, <2>3, <2>4 DEF WorkTypes
      <3>2. pc' \in [Clients -> {"idle", "work", "link", "insert", "tell", "answer"}] /\ DOMAIN answer' = Clients
        BY <1>1, <2>5 DEF WorkTypes
      <3> QED
        BY <1>1, <2>4, <2>5a, <3>1, <3>2 DEF WorkTypes
    <2>7. /\ answer'[c].ok \in BOOLEAN /\ members'[c] = list /\ turn'[c] = 1 /\ group'[c] \in Gids
          /\ list # <<>> => 1 <= Len(list)
          /\ pc'[c] \in {"tell", "answer"} /\ (pc'[c] = "tell" => list # <<>>)
      BY <1>1, <1>a, <2>1, <2>2, <2>3, <2>4, <2>5 DEF WorkTypes, RequestOK
    <2> QED
      BY <1>1, <2>3, <2>4, <2>6, <2>7 DEF RequestOK, Args, Kinds
  <1>12. CASE Notify(c)
    <2>1. request' = request /\ members' = members /\ group' = group /\ pc[c] = "tell"
      BY <1>12 DEF Notify
    <2>2. \/ turn[c] < Len(members[c]) /\ turn' = [turn EXCEPT ![c] = @ + 1] /\ UNCHANGED <<pc, answer>>
          \/ /\ turn' = [turn EXCEPT ![c] = 1] /\ pc' = [pc EXCEPT ![c] = "answer"]
             /\ answer' = [answer EXCEPT ![c] = Success(0)]
      BY <1>12 DEF Notify, NextUser, Reply
    <2>2a. turn' \in [Clients -> Nat \ {0}]
      BY <1>1, <2>2, TurnTyped
    <2>3. WorkTypes'
      BY <1>1, <2>1, <2>2, <2>2a DEF WorkTypes
    <2>3a. answer'[c].ok \in BOOLEAN
      BY <1>1, <1>a, <2>2 DEF WorkTypes, RequestOK
    <2>4. pc'[c] \in {"tell", "answer"} /\ (pc'[c] = "tell" => turn'[c] <= Len(members[c]))
      BY <1>1, <2>1, <2>2 DEF WorkTypes
    <2>5. request[c].kind \in Pushing
      BY <2>1 DEF BaseInv, PlaceInv, PlaceOf
    <2> QED
      BY <1>1, <2>1, <2>3, <2>3a, <2>4, <2>5 DEF RequestOK, Args, Pushing
  <1>13. CASE DatabaseFails(c)
    <2>1. request' = request /\ UNCHANGED work /\ pc[c] = "work"
      BY <1>13 DEF DatabaseFails
    <2>2. CASE Reply(c, Failure)
      BY <1>4, <1>a, <2>1, <2>2
    <2>3. CASE answer' = answer /\ (pc' = pc \/ pc' = [pc EXCEPT ![c] = "idle"])
      <3>1. WorkTypes' /\ pc'[c] \in {"work", "idle"}
        BY <1>1, <2>1, <2>3 DEF WorkTypes, work
      <3> QED
        BY <1>1, <2>1, <2>3, <3>1 DEF RequestOK, Args, work
    <2> QED
      BY <1>13, <2>2, <2>3 DEF DatabaseFails, Crossed
  <1>14. CASE Leave(c)
    <2>1. request' = request /\ UNCHANGED work /\ pc' = pc /\ answer' = answer /\ pc[c] = "idle"
      BY <1>14 DEF Leave
    <2> QED
      BY <1>1, <2>1 DEF RequestOK, Args, work, WorkTypes
  <1> QED
    BY <1>2, <1>3, <1>5, <1>6, <1>7, <1>8, <1>9, <1>10, <1>11, <1>12, <1>13, <1>14, <1>15, <1>16 DEF Step

LEMMA PushesGrow ==
  ASSUME TablesOK, TablesGrow
  PROVE  Pushes \subseteq Pushes'
  <1>1. Len(user) \in Nat /\ Len(user') \in Nat /\ Len(user) <= Len(user')
    BY DEF TablesOK, TablesGrow
  <1>2. (1 .. Len(user)) \subseteq (1 .. Len(user'))
    BY <1>1
  <1> QED
    BY <1>2 DEF Pushes

\* A handler that tells others says who asked, and about which group.
LEMMA PushIsTyped ==
  ASSUME BaseInv, NEW c \in Clients, pc[c] = "tell"
  PROVE  Push(c) \in Pushes
  <1>1. request[c].kind \in Pushing /\ group[c] \in Gids
    BY DEF BaseInv, TypeOK, WorkOK, RequestOK, PlaceInv, PlaceOf
  <1>2. session[c] \in 1 .. Len(user)
    BY <1>1, ScreenOfKind DEF Pushing
  <1> QED
    BY <1>1, <1>2 DEF Push, Pushes

LEMMA ShownStep ==
  ASSUME BaseInv, NEW c \in Clients, Step(c)
  PROVE  ShownOK'
  <1>1. ShownOK /\ RequestOK(c) /\ TablesOK
    BY DEF BaseInv, TypeOK, WorkOK
  <1>2. Pushes \subseteq Pushes'
    BY <1>1, StepGrows, PushesGrow
  <1>a. heard' = heard => heard' \in [Clients -> SUBSET Pushes']
    BY <1>1, <1>2 DEF ShownOK
  <1> HIDE DEF BaseInv
  <1>3. UNCHANGED shown /\ heard' = heard => ShownOK'
    BY <1>1, <1>a DEF ShownOK, shown
  <1>4. CASE \E kind, arg : Question(c, kind, arg)
    <2>1. PICK kind, arg : Question(c, kind, arg)
      BY <1>4
    <2>2. /\ UNCHANGED <<screen, nick, grouplist, heard>>
          /\ avatar' = avatar \/ (kind = "setavatar" /\ avatar' = [avatar EXCEPT ![c] = arg])
      BY <2>1 DEF Question, Ask
    <2>3. kind = "setavatar" => arg \in Avatars
      BY <2>1 DEF Question, Args
    <2> QED
      BY <1>1, <1>a, <2>2, <2>3 DEF ShownOK
  <1>b. ASSUME Reads(c)
        PROVE  /\ heard' = heard /\ pc[c] = "answer"
               /\ screen' \in [Clients -> {"login", "avatar", "name", "groups", "main", "lost"}]
    <2>1. \E s \in {"login", "avatar", "name", "groups", "main", "lost"} :
            screen' = [screen EXCEPT ![c] = s]
      BY <1>1, <1>b DEF Reads, ShownOK
    <2> QED
      BY <1>1, <1>b, <2>1 DEF Reads, ShownOK
  <1>c. CASE Reads(c) /\ ReadAstray(c)
    <2>1. UNCHANGED <<avatar, grouplist>> /\ \E name \in Names \cup {Junk} : nick' = [nick EXCEPT ![c] = name]
      BY <1>1, <1>c DEF ReadAstray, ShownOK
    <2>2. nick' \in [Clients -> Names \cup {Junk}]
      BY <1>1, <2>1 DEF ShownOK
    <2> QED
      BY <1>1, <1>a, <1>b, <1>c, <2>1, <2>2 DEF ShownOK
  <1>5. CASE Reads(c) /\ ReadAnswer(c)
    <2>1. heard' = heard /\ pc[c] = "answer"
      BY <1>5, <1>b
    <2>2. screen' \in [Clients -> {"login", "avatar", "name", "groups", "main", "lost"}]
      BY <1>5, <1>b
    <2>3. nick' \in [Clients -> Names \cup {Junk}]
      <3>1. request[c].kind = "changename" => request[c].arg \in Names
        BY <1>1 DEF RequestOK, Args
      <3>2. request[c].kind = "getname" => answer[c].value \in Names \cup {Junk}
        BY <1>1, <2>1 DEF RequestOK
      <3> QED
        BY <1>1, <1>5, <3>1, <3>2 DEF ReadAnswer, ShownOK
    <2>4. avatar' \in [Clients -> Avatars \cup {Junk}]
      BY <1>1, <1>5, <2>1 DEF ReadAnswer, ShownOK, RequestOK
    <2>5. grouplist' \in [Clients -> SUBSET Gids]
      <3>1. request[c].kind = "getgroups" /\ answer[c].ok => answer[c].value \in SUBSET Gids
        BY <1>1, <2>1 DEF RequestOK
      <3> QED
        BY <1>1, <1>5, <3>1 DEF ReadAnswer, ShownOK
    <2> QED
      BY <1>a, <2>1, <2>2, <2>3, <2>4, <2>5 DEF ShownOK
  <1>6. CASE Notify(c)
    <2>1. UNCHANGED shown /\ pc[c] = "tell"
      BY <1>6 DEF Notify
    <2>a. PICK them \in Found(c) :
            heard' = [d \in Clients |-> IF d \in them THEN heard[d] \cup {Push(c)} ELSE heard[d]]
      BY <1>6 DEF Notify, Hear
    <2>2. Push(c) \in Pushes
      BY <2>1, PushIsTyped
    <2>3. heard' \in [Clients -> SUBSET Pushes']
      BY <1>1, <1>2, <2>a, <2>2 DEF ShownOK
    <2> QED
      BY <1>1, <2>1, <2>3 DEF ShownOK, shown
  <1>7. CASE DatabaseFails(c)
    <2>1. UNCHANGED <<nick, avatar, grouplist, heard>> /\ (screen' = screen \/ screen' = [screen EXCEPT ![c] = "lost"])
      BY <1>7 DEF DatabaseFails, Crossed
    <2> QED
      BY <1>1, <1>a, <2>1 DEF ShownOK
  <1>d. CASE RefuseGroup(c)
    <2>1. UNCHANGED <<nick, avatar, grouplist, heard>> /\ screen' = [screen EXCEPT ![c] = "lost"]
      BY <1>d DEF RefuseGroup, Crossed
    <2> QED
      BY <1>1, <1>a, <2>1 DEF ShownOK
  <1>8. CASE Leave(c)
    <2>1. UNCHANGED <<nick, avatar, grouplist>> /\ screen' = [screen EXCEPT ![c] = "lost"]
          /\ heard' = [heard EXCEPT ![c] = {}]
      BY <1>8 DEF Leave
    <2>2. heard' \in [Clients -> SUBSET Pushes']
      BY <1>1, <1>2, <2>1 DEF ShownOK
    <2> QED
      BY <1>1, <2>1, <2>2 DEF ShownOK
  <1>9. Register(c) \/ Login(c) \/ Link(c) \/ ChangeName(c) \/ SetAvatar(c) \/ CreateGroup(c)
        => UNCHANGED shown /\ heard' = heard
    BY DEF Register, Login, Link, ChangeName, SetAvatar, CreateGroup, Untouched
  <1>10. (\E kind, a : Query(c, kind, a)) => UNCHANGED shown /\ heard' = heard
    BY DEF Query, Untouched
  <1>11. Insert(c) => UNCHANGED shown /\ heard' = heard
    BY DEF Insert
  <1>12. GroupMessage(c) => UNCHANGED shown /\ heard' = heard
    BY DEF GroupMessage, Untouched
  <1> QED
    BY <1>3, <1>4, <1>5, <1>6, <1>7, <1>8, <1>9, <1>10, <1>11, <1>12, <1>c, <1>d DEF Step

LEMMA RestStep ==
  ASSUME BaseInv, NEW c \in Clients, Step(c)
  PROVE  RestOK'
  <1> DEFINE Marks == <<late, refused, unsure, shared>>
             Counts == <<asked, faults, astray, server, cut>>
  <1>1. RestOK /\ MaxAsked \in Nat /\ MaxFaults \in Nat /\ MaxAstray \in Nat
    BY DirectoryAssumption DEF BaseInv, TypeOK
  <1>a. TablesOK
    BY DEF BaseInv, TypeOK
  <1> HIDE DEF BaseInv
  <1>2. UNCHANGED <<Marks, Counts>> => RestOK'
    BY <1>1 DEF RestOK
  <1>3. CASE \E kind, arg : Question(c, kind, arg)
    BY <1>1, <1>3 DEF Question, Ask, ghosts, RestOK
  <1>4. CASE Reads(c) /\ (ReadAnswer(c) \/ ReadAstray(c))
    <2>1. late' = [late EXCEPT ![c] = {}] /\ UNCHANGED <<asked, faults, server, shared>>
      BY <1>4 DEF Reads
    <2>2. /\ astray' = astray \/ (astray < MaxAstray /\ astray' = astray + 1)
          /\ cut' \subseteq cut \cup {c}
      BY <1>4 DEF ReadAnswer, ReadAstray
    <2>3. refused' \subseteq refused \cup {c} /\ unsure' \subseteq unsure \cup {c}
      BY <1>4 DEF ReadAnswer, ReadAstray
    <2>4. astray' \in 0 .. MaxAstray
      BY <1>1, <2>2 DEF RestOK
    <2> QED
      BY <1>1, <2>1, <2>2, <2>3, <2>4 DEF RestOK
  <1>5. CASE Link(c)
    <2>1. /\ UNCHANGED <<Counts, refused, unsure>> /\ late' \in [Clients -> SUBSET Clients]
          /\ shared' \subseteq Clients
      BY <1>1, <1>5 DEF Link, Untouched, bounds, RestOK, SessionsOf
    <2> QED
      BY <1>1, <2>1 DEF RestOK
  <1>6. CASE Insert(c)
    <2>1. UNCHANGED <<asked, astray, cut, server, Marks>> /\ (faults' = faults \/ (faults < MaxFaults /\ faults' = faults + 1))
      BY <1>6 DEF Insert, ghosts
    <2> QED
      BY <1>1, <2>1 DEF RestOK
  <1>7. CASE DatabaseFails(c)
    <2>1. /\ UNCHANGED <<asked, astray, cut, Marks>> /\ faults < MaxFaults /\ faults' = faults + 1
          /\ server' = server \/ server' = "down"
      BY <1>7 DEF DatabaseFails, ghosts
    <2> QED
      BY <1>1, <2>1 DEF RestOK
  <1>8. CreateGroup(c) \/ Register(c) \/ Login(c) \/ ChangeName(c) \/ SetAvatar(c) \/ RefuseGroup(c) \/ Leave(c)
        \/ Notify(c) => UNCHANGED <<Marks, Counts>>
    BY DEF CreateGroup, Register, Login, ChangeName, SetAvatar, RefuseGroup, Leave, Notify, Untouched, bounds, ghosts
  <1>9. (\E kind, a : Query(c, kind, a)) => UNCHANGED <<Marks, Counts>>
    BY DEF Query, Untouched, bounds, ghosts
  <1>10. GroupMessage(c) => UNCHANGED <<Marks, Counts>>
    BY DEF GroupMessage, Untouched, bounds, ghosts
  <1> QED
    BY <1>2, <1>3, <1>4, <1>5, <1>6, <1>7, <1>8, <1>9, <1>10 DEF Step

\* A client that a turn may write to.
Hears(c, d) ==
  LET uid == members[c][turn[c]]
  IN  uid # session[c] /\ session[d] # 0 /\ session[d] = uid

\* What a step lets a client hear.
LEMMA HeardStep ==
  ASSUME BaseInv, NEW c \in Clients, Step(c), NEW d \in Clients
  PROVE  \/ heard'[d] = heard[d]
         \/ Notify(c) /\ Hears(c, d) /\ heard'[d] = heard[d] \cup {Push(c)}
         \/ Leave(c) /\ d = c /\ heard'[d] = {}
  <1>0. Functions
    BY TypesAreFunctions
  <1> HIDE DEF BaseInv
  <1>1. CASE Notify(c)
    <2>1. PICK them \in Found(c) :
            heard' = [e \in Clients |-> IF e \in them THEN heard[e] \cup {Push(c)} ELSE heard[e]]
      BY <1>1 DEF Notify, Hear
    <2>2. d \in them => Hears(c, d)
      BY <2>1 DEF Found, SessionsOf, Hears
    <2> QED
      BY <1>1, <2>1, <2>2
  <1>2. CASE Leave(c)
    <2>1. heard' = [heard EXCEPT ![c] = {}]
      BY <1>2 DEF Leave
    <2> QED
      BY <1>0, <1>2, <2>1 DEF Functions
  <1>3. CASE heard' = heard
    BY <1>3
  <1>4. Register(c) \/ Login(c) \/ Link(c) \/ ChangeName(c) \/ SetAvatar(c) \/ RefuseGroup(c) \/ CreateGroup(c)
        \/ Reads(c) \/ Insert(c) \/ DatabaseFails(c) => heard' = heard
    BY DEF Register, Login, Link, ChangeName, SetAvatar, RefuseGroup, CreateGroup, Reads, Insert, DatabaseFails,
           Untouched
  <1>5. (\E kind, arg : Question(c, kind, arg)) => heard' = heard
    BY DEF Question, Ask
  <1>6. (\E kind, a : Query(c, kind, a)) => heard' = heard
    BY DEF Query, Untouched
  <1>7. GroupMessage(c) => heard' = heard
    BY DEF GroupMessage, Untouched
  <1> QED
    BY <1>1, <1>2, <1>3, <1>4, <1>5, <1>6, <1>7 DEF Step

LEMMA PlaceElsewhere ==
  ASSUME BaseInv, NEW c \in Clients, Step(c), NEW d \in Clients, d # c
  PROVE  PlaceOf(d)'
  <1>1. SameFor(d)
    BY Elsewhere
  <1>2. session[d] = 0 => heard'[d] = heard[d]
    BY HeardStep DEF Hears
  <1>3. PlaceOf(d)
    BY DEF BaseInv, PlaceInv
  <1> QED
    BY <1>1, <1>2, <1>3 DEF PlaceOf, SameFor, KindsOf

LEMMA PlaceStep ==
  ASSUME BaseInv, NEW c \in Clients, Step(c)
  PROVE  PlaceInv'
  <1>0. Functions /\ PlaceOf(c)
    BY TypesAreFunctions DEF BaseInv, PlaceInv
  <1>1. heard'[c] = heard[c] \/ session[c] # 0 \/ screen'[c] = "lost"
    <2>1. Leave(c) => screen'[c] = "lost"
      BY <1>0 DEF Leave, Functions
    <2> QED
      BY <2>1, HeardStep DEF Hears
  <1> SUFFICES PlaceOf(c)'
    BY PlaceElsewhere DEF PlaceInv
  <1>2. CASE \E kind, arg : Question(c, kind, arg)
    <2>1. PICK kind, arg : Question(c, kind, arg)
      BY <1>2
    <2>2. /\ pc[c] = "idle" /\ pc'[c] = "work" /\ request'[c].kind = kind /\ request'[c].arg = arg
          /\ UNCHANGED <<answer, session, screen, heard>>
      BY <1>0, <2>1 DEF Question, Ask, Functions
    <2>3. kind \in KindsOf(screen[c]) /\ (kind \in {"getavatar", "getname"} => arg = session[c])
      BY <2>1 DEF Question
    <2> QED
      BY <1>0, <2>2, <2>3 DEF PlaceOf, KindsOf
  <1>3. CASE Reads(c)
    <2>1. /\ pc[c] = "answer" /\ pc'[c] = "idle" /\ request'[c] = NoRequest
          /\ UNCHANGED <<session, heard>>
      BY <1>0, <1>3 DEF Reads, Functions
    <2>2. request'[c].kind = "none"
      BY <2>1 DEF NoRequest
    <2>3. screen'[c] = CASE request[c].kind = "login" /\ answer[c].ok -> IF c \in Windows THEN "avatar" ELSE "main"
                         [] request[c].kind = "getavatar" -> "name"
                         [] request[c].kind = "getname" -> "groups"
                         [] request[c].kind = "getgroups" -> "main"
                         [] OTHER -> screen[c]
      BY <1>0, <1>3 DEF Reads, Functions
    <2>4. /\ request[c].kind = "login" => screen[c] = "login"
          /\ request[c].kind = "getavatar" => screen[c] = "avatar"
          /\ request[c].kind = "getname" => screen[c] = "name"
          /\ request[c].kind = "getgroups" => screen[c] = "groups"
          /\ screen[c] # "lost"
      BY <2>1, ScreenOfKind
    <2>5. CASE request[c].kind = "login" /\ answer[c].ok
      BY <1>0, <2>1, <2>2, <2>3, <2>4, <2>5 DEF PlaceOf
    <2>6. CASE request[c].kind \in {"getavatar", "getname", "getgroups"}
      <3>1. session[c] # 0 /\ c \in Windows
        BY <1>0, <2>4, <2>6 DEF PlaceOf
      <3>2. screen'[c] \in {"name", "groups", "main"}
        BY <2>3, <2>6
      <3> QED
        BY <2>1, <2>2, <3>1, <3>2 DEF PlaceOf
    <2>7. CASE ~(request[c].kind = "login" /\ answer[c].ok) /\ request[c].kind \notin {"getavatar", "getname", "getgroups"}
      <3>1. screen'[c] = screen[c]
        BY <2>3, <2>7
      <3> QED
        BY <1>0, <2>1, <2>2, <2>7, <3>1 DEF PlaceOf
    <2> QED
      BY <2>5, <2>6, <2>7
  <1>4. ASSUME NEW a, Reply(c, a), pc[c] = "work", UNCHANGED <<request, session, screen, heard>>,
               request[c].kind = "login" => ~a.ok
        PROVE  PlaceOf(c)'
    <2>1. pc'[c] = "answer" /\ answer'[c] = a
      BY <1>0, <1>4 DEF Reply, Functions
    <2> QED
      BY <1>0, <1>4, <2>1 DEF PlaceOf, KindsOf
  <1>5. Failure.ok = FALSE /\ Success(0).ok = TRUE
    BY DEF Failure, Success
  <1>6. CASE Register(c)
    BY <1>4, <1>6 DEF Register, Works, Untouched, shown
  <1>7. CASE Login(c)
    <2>1. pc[c] = "work" /\ request[c].kind = "login" /\ UNCHANGED <<request, screen, heard>>
      BY <1>7 DEF Login, Works, Untouched, shown
    <2>0. session' = session
      BY <1>7 DEF Login
    <2>2. CASE Reply(c, Failure)
      BY <1>4, <1>5, <2>0, <2>1, <2>2
    <2>3. CASE pc' = [pc EXCEPT ![c] = "link"]
      <3>1. pc'[c] = "link"
        BY <1>0, <2>3 DEF Functions
      <3> QED
        BY <1>0, <2>0, <2>1, <3>1 DEF PlaceOf, KindsOf
    <2> QED
      BY <1>7, <2>2, <2>3 DEF Login
  <1>16. CASE Link(c)
    <2>1. pc[c] = "link" /\ request[c].kind = "login" /\ Known(request[c].arg) /\ UNCHANGED <<request, screen, heard>>
      BY <1>16 DEF Link, Untouched, shown, BaseInv, TypeOK, WorkOK, RequestOK
    <2>2. Reply(c, Success(0)) /\ session' = [session EXCEPT ![c] = request[c].arg]
      BY <1>16 DEF Link
    <2>3. pc'[c] = "answer" /\ answer'[c].ok /\ session'[c] # 0
      BY <1>0, <1>5, <2>1, <2>2 DEF Reply, Functions, Known
    <2>4. screen[c] = "login"
      BY <2>1, ScreenOfKind
    <2>5. session[c] = 0
      BY <1>0, <2>1, <2>4 DEF PlaceOf
    <2> QED
      BY <1>0, <2>1, <2>3, <2>4, <2>5 DEF PlaceOf, KindsOf
  <1>8. CASE ChangeName(c) \/ SetAvatar(c)
    BY <1>4, <1>8 DEF ChangeName, SetAvatar, Works, Untouched, shown
  <1>9. CASE \E kind, a : Query(c, kind, a)
    <2>1. PICK kind, a : Query(c, kind, a)
      BY <1>9
    <2> QED
      BY <1>4, <2>1 DEF Query, Works, Untouched, shown
  <1>10. CASE CreateGroup(c)
    <2>1. pc[c] = "work" /\ pc'[c] \in {"insert", "answer"} /\ request[c].kind = "creategroup"
          /\ UNCHANGED <<request, session, screen, heard>>
      BY <1>0, <1>10 DEF CreateGroup, Works, Untouched, Reply, shown, Functions
    <2> QED
      BY <1>0, <2>1 DEF PlaceOf, KindsOf
  <1>11. CASE Insert(c)
    <2>1. pc[c] = "insert" /\ request[c].kind = "creategroup" /\ UNCHANGED <<request, session, screen, heard>>
      BY <1>0, <1>11 DEF Insert, shown, PlaceOf
    <2>2. pc'[c] \in {"insert", "tell", "answer"} /\ (pc'[c] = "insert" => pc' = pc /\ answer' = answer)
      BY <1>0, <1>11, <2>1 DEF Insert, NextUser, Tell, Reply, Functions
    <2> QED
      BY <1>0, <2>1, <2>2 DEF PlaceOf, KindsOf, Pushing
  <1>12. CASE GroupMessage(c)
    <2>1. pc[c] = "work" /\ request[c].kind = "groupmsg" /\ UNCHANGED <<request, session, screen, heard>>
      BY <1>12 DEF GroupMessage, Works, Untouched, shown
    <2>2. pc'[c] \in {"tell", "answer"}
      BY <1>0, <1>12 DEF GroupMessage, Tell, Reply, Functions
    <2> QED
      BY <1>0, <2>1, <2>2 DEF PlaceOf, KindsOf, Pushing
  <1>13. CASE Notify(c)
    <2>1. pc[c] = "tell" /\ request[c].kind \in Pushing /\ UNCHANGED <<request, session, screen>>
      BY <1>0, <1>13 DEF Notify, shown, PlaceOf
    <2>2. pc'[c] \in {"tell", "answer"}
      BY <1>0, <1>13, <2>1 DEF Notify, NextUser, Reply, Functions
    <2> QED
      BY <1>0, <1>1, <2>1, <2>2 DEF PlaceOf, KindsOf, Pushing
  <1>14. CASE DatabaseFails(c)
    <2>1. pc[c] = "work" /\ UNCHANGED <<request, heard>>
      BY <1>14 DEF DatabaseFails
    <2>2. CASE Reply(c, Failure) /\ UNCHANGED <<session, screen>>
      BY <1>4, <1>5, <2>1, <2>2
    <2>3. CASE UNCHANGED <<pc, answer, session, screen>>
      BY <1>0, <2>1, <2>3 DEF PlaceOf, KindsOf
    <2>4. CASE /\ session' = [session EXCEPT ![c] = 0] /\ screen' = [screen EXCEPT ![c] = "lost"]
               /\ pc' = [pc EXCEPT ![c] = "idle"] /\ request[c].kind \in Pushing
      <3>1. session'[c] = 0 /\ screen'[c] = "lost" /\ pc'[c] = "idle"
        BY <1>0, <2>4 DEF Functions
      <3> QED
        BY <1>0, <2>1, <2>4, <3>1 DEF PlaceOf, Pushing
    <2> QED
      BY <1>14, <2>2, <2>3, <2>4 DEF DatabaseFails, Crossed
  <1>17. CASE RefuseGroup(c)
    <2>1. session'[c] = 0 /\ screen'[c] = "lost" /\ pc'[c] = "idle"
      BY <1>0, <1>17 DEF RefuseGroup, Crossed, Functions
    <2>2. request' = request /\ heard' = heard /\ request[c].kind = "creategroup"
      BY <1>17 DEF RefuseGroup, Works
    <2> QED
      BY <1>0, <2>1, <2>2 DEF PlaceOf
  <1>15. CASE Leave(c)
    <2>1. session'[c] = 0 /\ screen'[c] = "lost" /\ pc'[c] = "idle" /\ request' = request /\ pc[c] = "idle" /\ session[c] # 0
      BY <1>0, <1>15 DEF Leave, Functions
    <2>2. request[c].kind = "none"
      BY <1>0, <2>1 DEF PlaceOf
    <2> QED
      BY <2>1, <2>2 DEF PlaceOf
  <1> QED
    BY <1>2, <1>3, <1>6, <1>7, <1>8, <1>9, <1>10, <1>11, <1>12, <1>13, <1>14, <1>15, <1>16,
       <1>17 DEF Step

\* Who had two sessions is remembered; a second one is linked for him alone.
LEMMA SharedStep ==
  ASSUME BaseInv, NEW c \in Clients, Step(c)
  PROVE  \/ shared' = shared /\ ~Link(c)
         \/ Link(c) /\ shared' = IF Online(request[c].arg) THEN shared \cup SessionsOf(request[c].arg) \cup {c}
                                                         ELSE shared
  <1>1. CASE Link(c)
    BY <1>1 DEF Link
  <1>2. CASE shared' = shared
    BY <1>1, <1>2
  <1>3. Reads(c) \/ Register(c) \/ Login(c) \/ ChangeName(c) \/ SetAvatar(c) \/ CreateGroup(c) \/ RefuseGroup(c)
        \/ Insert(c) \/ Notify(c) \/ DatabaseFails(c) \/ Leave(c) => shared' = shared
    BY DEF Reads, Register, Login, ChangeName, SetAvatar, CreateGroup, RefuseGroup, Insert, Notify, DatabaseFails,
           Leave, ghosts
  <1>4. (\E kind, arg : Question(c, kind, arg)) => shared' = shared
    BY DEF Question, Ask, ghosts
  <1>5. (\E kind, a : Query(c, kind, a)) => shared' = shared
    BY DEF Query, ghosts
  <1>6. GroupMessage(c) => shared' = shared
    BY DEF GroupMessage, ghosts
  <1> QED
    BY <1>1, <1>2, <1>3, <1>4, <1>5, <1>6 DEF Step

LEMMA SharedGrows ==
  ASSUME BaseInv, NEW c \in Clients, Step(c)
  PROVE  shared \subseteq shared'
  BY SharedStep

LEMMA SoleStep ==
  ASSUME BaseInv, NEW c \in Clients, Step(c)
  PROVE  SoleInv'
  <1>0. DOMAIN session = Clients /\ SoleInv
    BY DEF BaseInv, TypeOK, TablesOK
  <1>1. shared \subseteq shared'
    BY SharedGrows
  <1>2. CASE session' = session
    BY <1>0, <1>1, <1>2 DEF SoleInv
  <1>3. CASE session' = [session EXCEPT ![c] = 0]
    BY <1>0, <1>1, <1>3 DEF SoleInv
  <1>4. CASE session' = [session EXCEPT ![c] = request[c].arg] /\ Link(c)
    <2> DEFINE uid == request[c].arg
    <2>1. Online(uid) => shared' = shared \cup SessionsOf(uid) \cup {c}
      BY <1>4 DEF Link
    <2> SUFFICES ASSUME NEW a \in Clients, NEW b \in Clients, a # b, session'[a] # 0, session'[a] = session'[b]
                 PROVE  a \in shared'
      BY DEF SoleInv
    <2>2. CASE a = c
      <3>1. session[b] = uid
        BY <1>0, <1>4, <2>2
      <3> QED
        BY <2>1, <2>2, <3>1 DEF Online
    <2>3. CASE b = c
      <3>1. session[a] = uid
        BY <1>0, <1>4, <2>3
      <3> QED
        BY <2>1, <3>1 DEF Online, SessionsOf
    <2>4. CASE a # c /\ b # c
      BY <1>0, <1>1, <1>4, <2>4 DEF SoleInv
    <2> QED
      BY <2>2, <2>3, <2>4
  <1> QED
    BY <1>2, <1>3, <1>4, StepSessions

LEMMA BaseStep ==
  ASSUME BaseInv, Next
  PROVE  BaseInv'
  BY NextIsStep, TablesStep, WorkStep, ShownStep, RestStep, PlaceStep, SoleStep DEF BaseInv, TypeOK

LEMMA BaseInit ==
  ASSUME Init
  PROVE  BaseInv
  <1> USE DirectoryAssumption DEF Init
  <1>1. TablesOK
    <2>1. \A n \in 1 .. Len(Registered) : NewRow(FirstName, Registered[n]) \in Rows
      BY FirstNameIsGood DEF NewRow, Rows
    <2>2. user \in Seq(Rows) /\ Len(user) = Len(Registered)
      BY <2>1
    <2> QED
      BY <2>2 DEF TablesOK
  <1>2. WorkOK
    <2>1. NoRequest.kind = "none" /\ NoRequest.arg = 0 /\ Failure.ok = FALSE
      BY DEF NoRequest, Failure
    <2>2. \A c \in Clients : RequestOK(c)
      BY <2>1 DEF RequestOK, Kinds, Args
    <2> QED
      BY <2>2 DEF WorkOK
  <1>3. ShownOK
    BY DEF ShownOK
  <1>4. RestOK
    BY DEF RestOK
  <1>5. PlaceInv
    BY DEF PlaceInv, PlaceOf, NoRequest
  <1>6. SoleInv
    BY DEF SoleInv
  <1> QED
    BY <1>1, <1>2, <1>3, <1>4, <1>5, <1>6 DEF BaseInv, TypeOK

LEMMA BaseStutters ==
  ASSUME BaseInv, UNCHANGED vars
  PROVE  BaseInv'
  <1>1. UNCHANGED <<user, groups, session>> /\ UNCHANGED <<pc, request, answer, members, turn, group>>
        /\ UNCHANGED <<screen, nick, avatar, grouplist, heard>>
        /\ UNCHANGED <<asked, faults, astray, cut, server, late, refused, unsure, shared>>
    BY DEF vars, tables, work, shown, bounds, ghosts
  <1>2. TablesOK'
    BY <1>1 DEF BaseInv, TypeOK, TablesOK
  <1>3. WorkOK'
    BY <1>1 DEF BaseInv, TypeOK, WorkOK, RequestOK, Args, Known
  <1>4. ShownOK'
    BY <1>1 DEF BaseInv, TypeOK, ShownOK, Pushes
  <1>5. RestOK'
    BY <1>1 DEF BaseInv, TypeOK, RestOK
  <1>6. PlaceInv'
    BY <1>1 DEF BaseInv, PlaceInv, PlaceOf, KindsOf
  <1>7. SoleInv'
    BY <1>1 DEF BaseInv, SoleInv
  <1> QED
    BY <1>2, <1>3, <1>4, <1>5, <1>6, <1>7 DEF BaseInv, TypeOK

\* Every variable keeps its type, the names in the table are allowed ones, and
\* no connection is ever logged in as another person's user (protocol_Login,
\* db_LoginCheck), in every behaviour.
THEOREM TypeCorrect == Spec => []TypeOK
  <1>1. BaseInv /\ [Next]_vars => BaseInv'
    BY BaseStep, BaseStutters
  <1>2. Init => BaseInv
    BY BaseInit
  <1>3. BaseInv => TypeOK
    BY DEF BaseInv
  <1> QED
    BY <1>1, <1>2, <1>3, PTL DEF Spec

-----------------------------------------------------------------------------
\* What a window client shows of itself.

\* A step of another client leaves the row of this one alone, unless both are
\* logged in as one user.
LEMMA RowElsewhere ==
  ASSUME BaseInv, NEW c \in Clients, Step(c), NEW d \in Clients \ shared, d # c, session[d] # 0
  PROVE  user'[session[d]] = user[session[d]]
  <1>1. session[d] \in 1 .. Len(user) /\ user \in Seq(Rows)
    BY DEF BaseInv, TypeOK, TablesOK
  <1>3. session[c] # session[d]
    BY DEF BaseInv, SoleInv
  <1> HIDE DEF BaseInv
  <1>4. CASE user' = user
    BY <1>4
  <1>5. CASE Register(c)
    BY <1>1, <1>5 DEF Register
  <1>6. CASE ChangeName(c)
    BY <1>1, <1>3, <1>6 DEF ChangeName
  <1>7. CASE SetAvatar(c)
    BY <1>1, <1>3, <1>7 DEF SetAvatar
  <1>8. (\E kind, arg : Question(c, kind, arg)) => user' = user
    BY DEF Question, Ask, tables
  <1>9. (\E kind, a : Query(c, kind, a)) => user' = user
    BY DEF Query, tables
  <1>10. Reads(c) \/ Login(c) \/ Link(c) \/ RefuseGroup(c) \/ CreateGroup(c) \/ Insert(c) \/ Notify(c)
         \/ DatabaseFails(c) \/ Leave(c) => user' = user
    BY DEF Reads, Login, Link, RefuseGroup, CreateGroup, Insert, Notify, DatabaseFails, Leave, tables
  <1>11. GroupMessage(c) => user' = user
    BY DEF GroupMessage, tables
  <1> QED
    BY <1>4, <1>5, <1>6, <1>7, <1>8, <1>9, <1>10, <1>11 DEF Step

LEMMA ProfileElsewhere ==
  ASSUME BaseInv, NEW c \in Clients, Step(c), NEW d \in Clients \ shared, d # c, ProfileOf(d)
  PROVE  ProfileOf(d)'
  <1>1. SameFor(d) /\ (session[d] # 0 => user'[session[d]] = user[session[d]])
    BY Elsewhere, RowElsewhere
  <1> QED
    BY <1>1 DEF ProfileOf, NameOf, AvatarOf, SameFor, Accepted, Pending

\* A request that changes neither name nor avatar goes on, or is answered.
Quiet(c) == pc[c] # "idle" /\ pc[c] # "answer" /\ pc'[c] # "idle"

LEMMA ProfileOfQuiet ==
  ASSUME BaseInv, NEW c \in Clients, ProfileOf(c), Quiet(c), request[c].kind \in Pushing,
         UNCHANGED <<user, session, request, screen, nick, avatar, refused, unsure>>
  PROVE  ProfileOf(c)'
  BY DEF ProfileOf, NameOf, AvatarOf, Accepted, Pending, Quiet, Pushing

LEMMA ProfileStep ==
  ASSUME BaseInv, NEW c \in Windows, ProfileOf(c), Step(c)
  PROVE  ProfileOf(c)'
  <1>0. Functions /\ PlaceOf(c) /\ c \in Clients /\ TablesOK /\ TablesGrow
    BY TypesAreFunctions, StepGrows, DirectoryAssumption DEF BaseInv, PlaceInv, TypeOK
  <1>1. CASE \E kind, arg : Question(c, kind, arg)
    <2>1. PICK kind, arg : Question(c, kind, arg)
      BY <1>1
    <2>2. /\ pc[c] = "idle" /\ pc'[c] = "work" /\ request'[c].kind = kind /\ request'[c].arg = arg
          /\ UNCHANGED <<answer, session, screen, nick, user, refused, unsure>>
          /\ avatar'[c] = IF kind = "setavatar" THEN arg ELSE avatar[c]
      BY <1>0, <2>1 DEF Question, Ask, Functions, tables, ghosts
    <2> QED
      BY <1>0, <2>2 DEF ProfileOf, NameOf, AvatarOf, Accepted, Pending
  <1>2. CASE Reads(c) /\ (ReadAnswer(c) \/ ReadAstray(c))
    <2>1. /\ pc[c] = "answer" /\ pc'[c] = "idle" /\ UNCHANGED <<session, user>>
      BY <1>0, <1>2 DEF Reads, Functions, tables
    <2>2. /\ request[c].kind \in {"changename", "setavatar"} => screen[c] = "main"
          /\ request[c].kind = "login" => screen[c] = "login"
          /\ request[c].kind = "getname" => screen[c] = "name"
          /\ request[c].kind = "getgroups" => screen[c] = "groups"
          /\ request[c].kind = "getavatar" => screen[c] = "avatar"
          /\ screen[c] # "lost"
      BY <1>0, <2>1, ScreenOfKind
    <2>2a. screen'[c] = CASE request[c].kind = "login" /\ answer[c].ok -> IF c \in Windows THEN "avatar" ELSE "main"
                         [] request[c].kind = "getavatar" -> "name"
                         [] request[c].kind = "getname" -> "groups"
                         [] request[c].kind = "getgroups" -> "main"
                         [] OTHER -> screen[c]
      BY <1>0, <1>2 DEF Reads, Functions
    <2>3. c \notin unsure' =>
            nick'[c] = IF request[c].kind = "getname" THEN answer[c].value
                       ELSE IF request[c].kind = "changename" /\ answer[c].ok THEN request[c].arg ELSE nick[c]
      <3>1. CASE ReadAnswer(c)
        BY <1>0, <3>1 DEF ReadAnswer, Functions
      <3>2. CASE ReadAstray(c)
        BY <1>0, <3>2 DEF ReadAstray, Functions
      <3> QED
        BY <1>2, <3>1, <3>2
    <2>u. /\ c \notin unsure' => c \notin unsure \/ request[c].kind = "getname" \/ Accepted(c, "changename")
      BY <1>2, <2>1 DEF ReadAnswer, ReadAstray, Accepted
    <2>4. c \notin refused' =>
            avatar'[c] = IF request[c].kind = "getavatar" THEN answer[c].value ELSE avatar[c]
      <3>1. CASE ReadAnswer(c)
        BY <1>0, <3>1 DEF ReadAnswer, Functions
      <3>2. CASE ReadAstray(c)
        BY <1>0, <3>2 DEF ReadAstray, Functions
      <3> QED
        BY <1>2, <3>1, <3>2
    <2>5. /\ request[c].kind = "getavatar" /\ c \notin refused' => answer[c].ok
          /\ c \notin refused' => c \notin refused \/ Accepted(c, "getavatar") \/ Accepted(c, "setavatar")
          /\ request[c].kind = "setavatar" /\ c \notin refused' => answer[c].ok
      <3>1. CASE ReadAnswer(c)
        BY <2>1, <3>1 DEF ReadAnswer, Accepted
      <3>2. CASE ReadAstray(c)
        BY <2>1, <3>2 DEF ReadAstray, Accepted
      <3> QED
        BY <1>2, <3>1, <3>2
    <2>6. screen'[c] \in {"groups", "main"} =>
            request[c].kind = "getname" \/ screen[c] \in {"groups", "main"}
      BY <2>2, <2>2a
    <2>7. screen'[c] \in {"name", "groups", "main"} =>
            request[c].kind = "getavatar" \/ screen[c] \in {"name", "groups", "main"}
      BY <2>2, <2>2a
    <2>8. ASSUME session[c] # 0 PROVE NameOf(c)'
      <3>1. NameOf(c)
        BY <2>8 DEF ProfileOf
      <3>2. screen'[c] \in {"groups", "main"} /\ c \notin unsure' => nick'[c] = user[session[c]].name
        BY <2>1, <2>3, <2>6, <2>u, <3>1 DEF NameOf, Accepted
      <3>3. ~Accepted(c, "changename")' /\ pc'[c] # "answer"
        BY <2>1 DEF Accepted
      <3> QED
        BY <2>1, <3>2, <3>3 DEF NameOf
    <2>9. ASSUME session[c] # 0 PROVE AvatarOf(c)'
      <3>1. AvatarOf(c)
        BY <2>9 DEF ProfileOf
      <3>2. screen'[c] \in {"name", "groups", "main"} /\ c \notin refused' => avatar'[c] = user[session[c]].avatar
        BY <2>1, <2>4, <2>5, <2>7, <3>1 DEF AvatarOf, Accepted, Pending
      <3>3. pc'[c] = "idle" /\ ~Accepted(c, "getavatar")' /\ ~Accepted(c, "setavatar")'
        BY <2>1 DEF Accepted
      <3> QED
        BY <2>1, <3>2, <3>3 DEF AvatarOf
    <2> QED
      BY <2>1, <2>8, <2>9 DEF ProfileOf
  <1>3. ASSUME NEW a, Reply(c, a), pc[c] = "work", UNCHANGED <<user, request, session, screen, nick, avatar, refused, unsure>>,
               request[c].kind \in {"changename", "setavatar"} => ~a.ok,
               request[c].kind = "getname" => a.value = user[session[c]].name,
               request[c].kind = "getavatar" /\ a.ok => a.value = user[session[c]].avatar
        PROVE  ProfileOf(c)'
    <2>1. pc'[c] = "answer" /\ answer'[c] = a
      BY <1>0, <1>3 DEF Reply, Functions
    <2>2. ASSUME session[c] # 0 PROVE NameOf(c)'
      BY <1>3, <2>1, <2>2 DEF ProfileOf, NameOf, Accepted
    <2>3. ASSUME session[c] # 0 PROVE AvatarOf(c)'
      BY <1>3, <2>1, <2>3 DEF ProfileOf, AvatarOf, Accepted, Pending
    <2> QED
      BY <1>3, <2>2, <2>3 DEF ProfileOf
  <1>4. Failure.ok = FALSE /\ Success(0).ok = TRUE /\ \A v : Success(v).value = v /\ Success(v).ok
    BY DEF Failure, Success
  <1>5. CASE Register(c)
    <2>1. pc[c] = "work" /\ request[c].kind = "register"
      BY <1>5 DEF Register, Works
    <2>2. session[c] = 0
      BY <1>0, <2>1, ScreenOfKind DEF PlaceOf
    <2>3. session' = session
      BY <1>5 DEF Register
    <2> QED
      BY <2>2, <2>3 DEF ProfileOf
  <1>6. CASE Login(c) \/ Link(c)
    <2>1. pc[c] # "idle" /\ request[c].kind = "login" /\ UNCHANGED <<request, screen>>
      BY <1>0, <1>6 DEF Login, Link, Works, Untouched, shown, BaseInv, TypeOK, WorkOK, RequestOK
    <2>2. screen[c] = "login"
      BY <1>0, <2>1, ScreenOfKind
    <2> QED
      BY <2>1, <2>2 DEF ProfileOf, NameOf, AvatarOf, Accepted, Pending
  <1>7. CASE \E kind, a : Query(c, kind, a)
    <2>1. PICK kind, a : Query(c, kind, a)
      BY <1>7
    <2>2. /\ Reply(c, a) /\ pc[c] = "work" /\ request[c].kind = kind
          /\ UNCHANGED <<user, request, session, screen, nick, avatar, refused, unsure>>
      BY <2>1 DEF Query, Works, Untouched, shown, tables, ghosts
    <2>3. kind \notin {"changename", "setavatar"}
      BY <2>1 DEF Query
    <2>4. kind \in {"getname", "getavatar"} => request[c].arg = session[c] /\ Known(session[c])
      BY <1>0, <2>2, ScreenOfKind DEF PlaceOf, Known
    <2>5. kind = "getname" => a = Success(user[session[c]].name)
      BY <2>1, <2>4 DEF Query
    <2>6. kind = "getavatar" => a = Success(user[session[c]].avatar)
      BY <2>1, <2>4 DEF Query
    <2> QED
      BY <1>3, <1>4, <2>2, <2>3, <2>5, <2>6
  <1>8. CASE ChangeName(c)
    <2>1. /\ pc[c] = "work" /\ request[c].kind = "changename" /\ screen[c] = "main" /\ session[c] \in 1 .. Len(user)
          /\ UNCHANGED <<request, session, screen, nick, avatar, refused, unsure>>
      BY <1>0, <1>8, ScreenOfKind DEF ChangeName, Works, Untouched, shown, ghosts
    <2>2. CASE user' = user /\ Reply(c, Failure)
      BY <1>3, <1>4, <2>1, <2>2
    <2>3. CASE user' = [user EXCEPT ![session[c]].name = request[c].arg] /\ Reply(c, Success(0))
      <3>1. pc'[c] = "answer" /\ answer'[c].ok
        BY <1>0, <1>4, <2>3 DEF Reply, Functions
      <3>2. user[session[c]] \in Rows /\ user \in Seq(Rows)
        BY <1>0, <2>1 DEF TablesOK
      <3>3. user'[session[c]] = [user[session[c]] EXCEPT !.name = request[c].arg]
        BY <2>1, <2>3, <3>2
      <3>4. user'[session[c]].name = request[c].arg /\ user'[session[c]].avatar = user[session[c]].avatar
        BY <3>2, <3>3 DEF Rows
      <3>5. NameOf(c)'
        BY <2>1, <3>1, <3>4 DEF NameOf, Accepted
      <3>6. AvatarOf(c)'
        BY <2>1, <3>1, <3>4 DEF ProfileOf, AvatarOf, Accepted, Pending
      <3> QED
        BY <3>5, <3>6 DEF ProfileOf
    <2> QED
      BY <1>8, <2>2, <2>3 DEF ChangeName
  <1>9. CASE SetAvatar(c)
    <2>1. /\ pc[c] = "work" /\ request[c].kind = "setavatar" /\ screen[c] = "main" /\ session[c] \in 1 .. Len(user)
          /\ UNCHANGED <<request, session, screen, nick, avatar, refused, unsure>>
      BY <1>0, <1>9, ScreenOfKind DEF SetAvatar, Works, Untouched, shown, ghosts
    <2>2. user' = [user EXCEPT ![session[c]].avatar = request[c].arg] /\ Reply(c, Success(0))
      BY <1>9 DEF SetAvatar
    <2>3. pc'[c] = "answer" /\ answer'[c].ok
      BY <1>0, <1>4, <2>2 DEF Reply, Functions
    <2>4. user[session[c]] \in Rows /\ user \in Seq(Rows)
      BY <1>0, <2>1 DEF TablesOK
    <2>5. user'[session[c]] = [user[session[c]] EXCEPT !.avatar = request[c].arg]
      BY <2>1, <2>2, <2>4
    <2>6. user'[session[c]].avatar = request[c].arg /\ user'[session[c]].name = user[session[c]].name
      BY <2>4, <2>5 DEF Rows
    <2>7. avatar[c] = request[c].arg /\ (c \notin unsure => nick[c] = user[session[c]].name)
      BY <2>1 DEF ProfileOf, AvatarOf, NameOf, Accepted
    <2>8. NameOf(c)'
      BY <2>1, <2>3, <2>6, <2>7 DEF NameOf, Accepted
    <2>9. AvatarOf(c)'
      BY <2>1, <2>3, <2>6, <2>7 DEF AvatarOf, Accepted, Pending
    <2> QED
      BY <2>8, <2>9 DEF ProfileOf
  <1>10. CASE CreateGroup(c)
    <2>1. /\ pc[c] = "work" /\ pc'[c] # "idle" /\ request[c].kind = "creategroup"
          /\ UNCHANGED <<user, session, request, screen, nick, avatar, refused, unsure>>
      BY <1>0, <1>10 DEF CreateGroup, Reply, Works, Untouched, shown, tables, Functions
    <2> QED
      BY <1>0, <2>1, ProfileOfQuiet DEF Pushing, Quiet
  <1>11. CASE Insert(c)
    <2>1. /\ pc[c] = "insert" /\ request[c].kind = "creategroup"
          /\ UNCHANGED <<user, session, request, screen, nick, avatar, refused, unsure>>
      BY <1>0, <1>11 DEF Insert, shown, ghosts, PlaceOf
    <2>2. Quiet(c)
      BY <1>0, <1>11, <2>1 DEF Insert, NextUser, Tell, Reply, Functions, Quiet
    <2> QED
      BY <1>0, <2>1, <2>2, ProfileOfQuiet DEF Pushing
  <1>12. CASE GroupMessage(c)
    <2>1. /\ pc[c] = "work" /\ request[c].kind = "groupmsg"
          /\ UNCHANGED <<user, session, request, screen, nick, avatar, refused, unsure>>
      BY <1>0, <1>12 DEF GroupMessage, Works, Untouched, shown, tables, ghosts
    <2>2. Quiet(c)
      BY <1>0, <1>12, <2>1 DEF GroupMessage, Tell, Reply, Functions, Quiet
    <2> QED
      BY <1>0, <2>1, <2>2, ProfileOfQuiet DEF Pushing
  <1>13. CASE Notify(c)
    <2>1. /\ pc[c] = "tell" /\ request[c].kind \in Pushing
          /\ UNCHANGED <<user, session, request, screen, nick, avatar, refused, unsure>>
      BY <1>0, <1>13 DEF Notify, shown, tables, ghosts, PlaceOf
    <2>2. Quiet(c)
      BY <1>0, <1>13, <2>1 DEF Notify, NextUser, Reply, Functions, Quiet
    <2> QED
      BY <1>0, <2>1, <2>2, ProfileOfQuiet
  <1>14. CASE DatabaseFails(c)
    <2>1. pc[c] = "work" /\ UNCHANGED <<user, request, nick, avatar, refused, unsure>>
      BY <1>14 DEF DatabaseFails, tables, ghosts
    <2>2. CASE request[c].kind # "getname" /\ Reply(c, Failure) /\ UNCHANGED <<session, screen>>
      BY <1>3, <1>4, <2>1, <2>2
    <2>3. CASE UNCHANGED <<pc, answer, session, screen>>
      BY <2>1, <2>3 DEF ProfileOf, NameOf, AvatarOf, Accepted, Pending
    <2>4. CASE session' = [session EXCEPT ![c] = 0]
      BY <1>0, <2>4 DEF ProfileOf, Functions
    <2> QED
      BY <1>14, <2>2, <2>3, <2>4 DEF DatabaseFails, Crossed
  <1>15. CASE Leave(c)
    BY <1>0, <1>15 DEF Leave, ProfileOf, Functions
  <1>16. CASE RefuseGroup(c)
    BY <1>0, <1>16 DEF RefuseGroup, Crossed, ProfileOf, Functions
  <1> QED
    BY <1>1, <1>2, <1>5, <1>6, <1>7, <1>8, <1>9, <1>10, <1>11, <1>12, <1>13, <1>14, <1>15,
       <1>16 DEF Step

\* The name and the avatar that a window client shows of itself are those in
\* the table (create_headbar, on_set_save_btn_clicked, db_UpdateUsernameByUid,
\* db_UpdateAvatar), unless its last request about the avatar was refused, it
\* missed the answer to its last request about the name (the NULL branches of
\* create_headbar and of on_set_save_btn_clicked), or its user was logged in
\* twice (login_AddClient).
THEOREM OwnProfileHolds == Spec => []OwnProfile
  <1>1. Init => ProfileInv
    BY DirectoryAssumption DEF Init, ProfileInv, ProfileOf
  <1>2. ASSUME BaseInv, ProfileInv, [Next]_vars
        PROVE  ProfileInv'
    <2>1. CASE Next
      <3>1. PICK c \in Clients : Step(c)
        BY <1>2, <2>1, NextIsStep
      <3>2. shared \subseteq shared'
        BY <1>2, <3>1, SharedGrows
      <3>3. ASSUME NEW d \in Windows \ shared PROVE ProfileOf(d)'
        <4>1. ProfileOf(d) /\ d \in Clients \ shared
          BY <1>2, <3>3, DirectoryAssumption DEF ProfileInv
        <4> QED
          BY <1>2, <3>1, <4>1, ProfileStep, ProfileElsewhere
      <3> QED
        BY <3>2, <3>3 DEF ProfileInv
    <2>2. CASE UNCHANGED vars
      BY <1>2, <2>2 DEF ProfileInv, ProfileOf, NameOf, AvatarOf, Accepted, Pending, vars, tables, shown, ghosts
    <2> QED
      BY <1>2, <2>1, <2>2
  <1>3. ProfileInv => OwnProfile
    BY DEF ProfileInv, ProfileOf, OwnProfile, AtRest, NameOf, AvatarOf, Accepted, Pending
  <1>4. BaseInv /\ [Next]_vars => BaseInv'
    BY BaseStep, BaseStutters
  <1>5. Init => BaseInv
    BY BaseInit
  <1> QED
    BY <1>1, <1>2, <1>3, <1>4, <1>5, PTL DEF Spec

-----------------------------------------------------------------------------
\* Groups.

LEMMA MemberIsRow ==
  ASSUME TablesOK, NEW g, NEW uid
  PROVE  uid \in Members(g) <=> <<g, uid>> \in groups
  BY DEF TablesOK, Members

\* What a step does to the rows, the groups made and the faults.
LEMMA GroupsStep ==
  ASSUME BaseInv, NEW c \in Clients, Step(c)
  PROVE  /\ \/ groups' = groups
            \/ Insert(c) /\ groups' = groups \cup {<<group[c], members[c][turn[c]]>>}
         /\ \/ made' = made
            \/ CreateGroup(c) /\ \E g \in Gids :
                 made' = made \cup {[gid |-> g, list |-> request[c].arg, rows |-> Len(user)]}
         /\ faults' = faults \/ faults' = faults + 1
  <1>1. (\E kind, arg : Question(c, kind, arg)) => UNCHANGED <<groups, made, faults>>
    BY DEF Question, Ask, tables, ghosts
  <1>2. (\E kind, a : Query(c, kind, a)) => UNCHANGED <<groups, made, faults>>
    BY DEF Query, Untouched, tables, ghosts, bounds
  <1>3. Reads(c) \/ Register(c) \/ Login(c) \/ Link(c) \/ ChangeName(c) \/ SetAvatar(c) \/ RefuseGroup(c)
        \/ Notify(c) \/ Leave(c) => UNCHANGED <<groups, made, faults>>
    BY DEF Reads, Register, Login, Link, ChangeName, SetAvatar, RefuseGroup, Notify, Leave, Untouched, tables,
           ghosts, bounds
  <1>4. GroupMessage(c) => UNCHANGED <<groups, made, faults>>
    BY DEF GroupMessage, Untouched, tables, ghosts, bounds
  <1>5. DatabaseFails(c) => UNCHANGED <<groups, made>> /\ faults' = faults + 1
    BY DEF DatabaseFails, tables, ghosts
  <1>6. CreateGroup(c) => UNCHANGED <<groups, faults>> /\ \E g \in Gids :
          made' = made \cup {[gid |-> g, list |-> request[c].arg, rows |-> Len(user)]}
    BY DEF CreateGroup, Untouched, tables, bounds
  <1>7. Insert(c) => /\ groups' = groups \/ groups' = groups \cup {<<group[c], members[c][turn[c]]>>}
                     /\ made' = made /\ (faults' = faults \/ faults' = faults + 1)
    BY DEF Insert, ghosts
  <1> QED
    BY <1>1, <1>2, <1>3, <1>4, <1>5, <1>6, <1>7 DEF Step

LEMMA FaultsStay ==
  ASSUME BaseInv, NEW c \in Clients, Step(c), faults' = 0
  PROVE  faults = 0
  <1>1. faults \in Nat
    BY DirectoryAssumption DEF BaseInv, TypeOK, RestOK
  <1> QED
    BY <1>1, GroupsStep

LEMMA RowsStep ==
  ASSUME BaseInv, RowsInv, CreateInv, NEW c \in Clients, Step(c)
  PROVE  RowsInv'
  <1>1. made \subseteq made'
    BY GroupsStep
  <1>2. \A m \in made' : m.list \in Seq(Nat) /\ m.rows \in Nat
    <2>1. CASE CreateGroup(c)
      <3>1. PICK g \in Gids : made' = made \cup {[gid |-> g, list |-> request[c].arg, rows |-> Len(user)]}
        BY <2>1 DEF CreateGroup
      <3>2. request[c].arg \in Seq(Nat)
        <4>1. request[c].kind = "creategroup" /\ RequestOK(c)
          BY <2>1 DEF CreateGroup, Works, BaseInv, TypeOK, WorkOK
        <4> QED
          BY <4>1, DirectoryAssumption DEF RequestOK, Args
      <3>3. Len(user) \in Nat
        BY DEF BaseInv, TypeOK, TablesOK
      <3> QED
        BY <3>1, <3>2, <3>3 DEF RowsInv
    <2>2. CASE made' = made
      BY <2>2 DEF RowsInv
    <2> QED
      BY <2>1, <2>2, GroupsStep
  <1>3. \A row \in groups : \E m \in made' : m.gid = row[1] /\ \E i \in 1 .. Len(m.list) : m.list[i] = row[2]
    BY <1>1 DEF RowsInv
  <1>4. CASE groups' = groups
    BY <1>2, <1>3, <1>4 DEF RowsInv
  <1>5. CASE Insert(c) /\ groups' = groups \cup {<<group[c], members[c][turn[c]]>>}
    <2>1. pc[c] = "insert" /\ request[c].kind = "creategroup" /\ turn[c] \in 1 .. Len(members[c])
      BY <1>5 DEF Insert, BaseInv, TypeOK, WorkOK, RequestOK, PlaceInv, PlaceOf
    <2>2. PICK m \in made : m.gid = group[c] /\ m.list = members[c]
      BY <2>1 DEF CreateInv, ListOf
    <2>3. <<group[c], members[c][turn[c]]>>[1] = m.gid /\ <<group[c], members[c][turn[c]]>>[2] = m.list[turn[c]]
          /\ turn[c] \in 1 .. Len(m.list)
      BY <2>1, <2>2
    <2> QED
      BY <1>1, <1>2, <1>3, <1>5, <2>2, <2>3 DEF RowsInv
  <1> QED
    BY <1>4, <1>5, GroupsStep

LEMMA ListElsewhere ==
  ASSUME BaseInv, RowsInv, NEW c \in Clients, Step(c), NEW d \in Clients, d # c, ListOf(d)
  PROVE  ListOf(d)'
  <1>1. SameFor(d) /\ TablesGrow /\ (faults' = 0 => faults = 0)
    BY Elsewhere, StepGrows, FaultsStay
  <1>2. made \subseteq made'
    BY GroupsStep
  <1> SUFFICES ASSUME pc'[d] \in {"insert", "tell"}, request'[d].kind = "creategroup"
               PROVE  \E m \in made' : m.gid = group'[d] /\ m.list = members'[d] /\ m.rows <= Len(user') /\ Written(d, m)'
    BY DEF ListOf
  <1>3. PICK m \in made : m.gid = group[d] /\ m.list = members[d] /\ m.rows <= Len(user) /\ Written(d, m)
    BY <1>1 DEF ListOf, SameFor
  <1>4. Written(d, m)'
    BY <1>1, <1>3 DEF Written, SameFor, TablesGrow
  <1>5. m.rows <= Len(user')
    <2>1. m.rows \in Nat /\ Len(user) \in Nat /\ Len(user') \in Nat
      BY <1>1 DEF RowsInv, BaseInv, TypeOK, TablesOK, TablesGrow
    <2> QED
      BY <1>1, <1>3, <2>1 DEF TablesGrow
  <1> QED
    BY <1>1, <1>2, <1>3, <1>4, <1>5 DEF SameFor

LEMMA ListStep ==
  ASSUME BaseInv, RowsInv, NEW c \in Clients, ListOf(c), Step(c)
  PROVE  ListOf(c)'
  <1>0. Functions /\ PlaceOf(c) /\ RequestOK(c) /\ WorkTypes
    BY TypesAreFunctions DEF BaseInv, PlaceInv, TypeOK, WorkOK, WorkTypes
  <1>u. Len(user) \in Nat /\ (\A m \in made : m.rows \in Nat) /\ (faults' = 0 => faults = 0)
    BY FaultsStay DEF BaseInv, TypeOK, TablesOK, RowsInv
  <1>1. CASE CreateGroup(c)
    <2>1. PICK g \in Gids : /\ group' = [group EXCEPT ![c] = g]
                            /\ made' = made \cup {[gid |-> g, list |-> request[c].arg, rows |-> Len(user)]}
      BY <1>1 DEF CreateGroup
    <2>2. /\ members'[c] = request[c].arg /\ pc'[c] \in {"insert", "answer"} /\ turn'[c] = 1 /\ group'[c] = g
          /\ user' = user
      BY <1>0, <1>1, <2>1 DEF CreateGroup, Reply, tables, Functions
    <2> DEFINE new == [gid |-> g, list |-> request[c].arg, rows |-> Len(user)]
    <2>n. new.gid = g /\ new.list = request[c].arg /\ new.rows = Len(user) /\ new \in made'
      BY <2>1
    <2> HIDE DEF new
    <2>3. PICK m \in made' : m.gid = group'[c] /\ m.list = members'[c] /\ m.rows = Len(user')
      BY <2>n, <2>2
    <2>4. Written(c, m)'
      <3>1. \A i \in 1 .. Len(members'[c]) : ~(pc'[c] = "tell" \/ i < turn'[c])
        BY <2>2
      <3> QED
        BY <3>1 DEF Written
    <2>5. m.rows <= Len(user')
      BY <1>u, <2>2, <2>3
    <2> QED
      BY <2>3, <2>4, <2>5 DEF ListOf
  <1>2. CASE Insert(c)
    <2>1. /\ pc[c] = "insert" /\ request[c].kind = "creategroup" /\ UNCHANGED <<user, request, members, group, made>>
      BY <1>0, <1>2 DEF Insert, ghosts, PlaceOf
    <2>2. PICK m \in made : m.gid = group[c] /\ m.list = members[c] /\ m.rows <= Len(user) /\ Written(c, m)
      BY <2>1 DEF ListOf
    <2>3. turn[c] \in Nat /\ turn[c] <= Len(members[c]) /\ members[c] \in Seq(Nat) /\ Len(members[c]) \in Nat
      BY <1>0, <2>1 DEF RequestOK, WorkTypes
    <2>4. \/ turn[c] < Len(members[c]) /\ turn'[c] = turn[c] + 1 /\ pc' = pc
          \/ turn[c] = Len(members[c])
      BY <1>0, <1>2, <2>3 DEF Insert, NextUser, Functions
    <2> DEFINE row == <<group[c], members[c][turn[c]]>>
    <2>5. groups \subseteq groups' /\ (faults' = 0 => faults = 0 /\ (members[c][turn[c]] \in 1 .. Len(user) => row \in groups'))
      <3>1. faults \in Nat
        BY DirectoryAssumption DEF BaseInv, TypeOK, RestOK
      <3> QED
        BY <1>2, <3>1 DEF Insert, Known
    <2>6. ASSUME faults' = 0, NEW i \in 1 .. Len(members[c]), pc'[c] = "tell" \/ i < turn'[c],
                 members[c][i] \in 1 .. m.rows
          PROVE  <<group[c], members[c][i]>> \in groups'
      <3>1. i <= turn[c]
        BY <2>1, <2>3, <2>4, <2>6
      <3>2. CASE i < turn[c]
        BY <2>2, <2>5, <2>6, <3>2 DEF Written
      <3>3. CASE i = turn[c]
        <4>1. members[c][turn[c]] \in 1 .. Len(user)
          BY <1>u, <2>2, <2>6, <3>3
        <4> QED
          BY <2>5, <2>6, <3>3, <4>1
      <3> QED
        BY <2>3, <3>1, <3>2, <3>3
    <2>7. Written(c, m)'
      BY <2>1, <2>6 DEF Written
    <2> QED
      BY <2>1, <2>2, <2>7 DEF ListOf
  <1>3. CASE Notify(c)
    <2>1. /\ pc[c] = "tell" /\ UNCHANGED <<user, request, members, group, made, groups, faults>>
      BY <1>3 DEF Notify, ghosts, tables, bounds
    <2>2. CASE request[c].kind = "creategroup"
      <3>1. PICK m \in made : m.gid = group[c] /\ m.list = members[c] /\ m.rows <= Len(user) /\ Written(c, m)
        BY <2>1, <2>2 DEF ListOf
      <3>2. Written(c, m)'
        BY <2>1, <3>1 DEF Written
      <3> QED
        BY <2>1, <3>1, <3>2 DEF ListOf
    <2>3. CASE request[c].kind # "creategroup"
      BY <2>1, <2>3 DEF ListOf
    <2> QED
      BY <2>2, <2>3
  <1>4. ASSUME pc'[c] \notin {"insert", "tell"} \/ request'[c].kind # "creategroup"
        PROVE  ListOf(c)'
    BY <1>4 DEF ListOf
  <1>5. (\E kind, arg : Question(c, kind, arg)) => pc'[c] = "work"
    BY <1>0 DEF Question, Ask, Functions
  <1>6. (\E kind, a : Query(c, kind, a)) => pc'[c] = "answer"
    BY <1>0 DEF Query, Reply, Functions
  <1>7. Reads(c) \/ RefuseGroup(c) => pc'[c] = "idle"
    BY <1>0 DEF Reads, RefuseGroup, Crossed, Functions
  <1>8. Register(c) \/ Login(c) \/ Link(c) \/ ChangeName(c) \/ SetAvatar(c) => pc'[c] \in {"link", "answer"}
    BY <1>0 DEF Register, Login, Link, ChangeName, SetAvatar, Reply, Functions
  <1>9. DatabaseFails(c) => pc'[c] \in {"work", "idle", "answer"}
    BY <1>0 DEF DatabaseFails, Crossed, Reply, Functions
  <1>10. Leave(c) => pc'[c] = "idle"
    BY <1>0 DEF Leave
  <1>11. GroupMessage(c) => request'[c].kind = "groupmsg"
    BY DEF GroupMessage, Works, Untouched
  <1> QED
    BY <1>1, <1>2, <1>3, <1>4, <1>5, <1>6, <1>7, <1>8, <1>9, <1>10, <1>11 DEF Step

LEMMA MembersStep ==
  ASSUME BaseInv, NEW c \in Clients, MembersOf(c), Step(c)
  PROVE  MembersOf(c)'
  <1>0. Functions /\ PlaceOf(c) /\ TablesOK
    BY TypesAreFunctions DEF BaseInv, PlaceInv, TypeOK
  <1>1. CASE GroupMessage(c)
    <2>1. PICK list \in Listings(Members(request[c].arg)) : members' = [members EXCEPT ![c] = list]
      BY <1>1 DEF GroupMessage
    <2>2. \A i \in 1 .. Len(list) : <<request[c].arg, list[i]>> \in groups
      BY <1>0, ListingIsSeq
    <2>3. members'[c] = list /\ group'[c] = request[c].arg /\ request' = request /\ groups' = groups
      BY <1>0, <1>1, <2>1 DEF GroupMessage, Untouched, tables, Functions
    <2> QED
      BY <2>2, <2>3 DEF MembersOf
  <1>2. CASE Notify(c)
    <2>1. pc[c] = "tell" /\ UNCHANGED <<request, members, group, groups>>
      BY <1>2 DEF Notify, tables
    <2> QED
      BY <2>1 DEF MembersOf
  <1>3. ASSUME pc'[c] # "tell" \/ request'[c].kind # "groupmsg"
        PROVE  MembersOf(c)'
    BY <1>3 DEF MembersOf
  <1>4. (\E kind, arg : Question(c, kind, arg)) => pc'[c] = "work"
    BY <1>0 DEF Question, Ask, Functions
  <1>5. (\E kind, a : Query(c, kind, a)) => pc'[c] = "answer"
    BY <1>0 DEF Query, Reply, Functions
  <1>6. Reads(c) \/ RefuseGroup(c) => pc'[c] = "idle"
    BY <1>0 DEF Reads, RefuseGroup, Crossed, Functions
  <1>7. Register(c) \/ Login(c) \/ Link(c) \/ ChangeName(c) \/ SetAvatar(c) => pc'[c] \in {"link", "answer"}
    BY <1>0 DEF Register, Login, Link, ChangeName, SetAvatar, Reply, Functions
  <1>8. DatabaseFails(c) => pc'[c] \in {"work", "idle", "answer"}
    BY <1>0 DEF DatabaseFails, Crossed, Reply, Functions
  <1>9. Leave(c) => pc'[c] = "idle"
    BY <1>0 DEF Leave
  <1>10. Insert(c) => request'[c].kind = "creategroup"
    BY <1>0 DEF Insert, PlaceOf
  <1>11. CreateGroup(c) => request'[c].kind = "creategroup"
    BY DEF CreateGroup, Works, Untouched
  <1> QED
    BY <1>1, <1>2, <1>3, <1>4, <1>5, <1>6, <1>7, <1>8, <1>9, <1>10, <1>11 DEF Step

LEMMA MembersElsewhere ==
  ASSUME BaseInv, NEW c \in Clients, Step(c), NEW d \in Clients, d # c, MembersOf(d)
  PROVE  MembersOf(d)'
  <1>1. SameFor(d) /\ groups \subseteq groups'
    BY Elsewhere, StepGrows DEF TablesGrow
  <1> QED
    BY <1>1 DEF MembersOf, SameFor

LEMMA KnownElsewhere ==
  ASSUME BaseInv, NEW c \in Clients, Step(c), NEW d \in Clients, d # c, GroupsKnown(d)
  PROVE  GroupsKnown(d)'
  <1>1. SameFor(d) /\ groups \subseteq groups'
    BY Elsewhere, StepGrows DEF TablesGrow
  <1> QED
    BY <1>1 DEF GroupsKnown, SameFor, Accepted, Pending

LEMMA KnownStep ==
  ASSUME BaseInv, NEW c \in Clients, c \in Windows, GroupsKnown(c), Step(c)
  PROVE  GroupsKnown(c)'
  <1>0. Functions /\ PlaceOf(c) /\ groups \subseteq groups'
    BY TypesAreFunctions, StepGrows DEF BaseInv, PlaceInv, TablesGrow
  <1>1. CASE \E kind, arg : Question(c, kind, arg)
    <2>1. PICK kind, arg : Question(c, kind, arg)
      BY <1>1
    <2>2. /\ pc'[c] = "work" /\ request'[c].kind = kind /\ request'[c].arg = arg
          /\ UNCHANGED <<session, screen, grouplist>> /\ (kind = "groupmsg" => arg \in grouplist[c])
      BY <1>0, <2>1 DEF Question, Ask, Functions
    <2> QED
      BY <1>0, <2>2 DEF GroupsKnown, Accepted, Pending
  <1>2. CASE Reads(c) /\ (ReadAnswer(c) \/ ReadAstray(c))
    <2>1. /\ pc[c] = "answer" /\ pc'[c] = "idle" /\ UNCHANGED <<session, groups>>
          /\ \/ grouplist'[c] = grouplist[c]
             \/ request[c].kind = "getgroups" /\ answer[c].ok /\ grouplist'[c] = answer[c].value
      BY <1>0, <1>2 DEF Reads, ReadAnswer, ReadAstray, Functions, tables
    <2>2. screen[c] # "lost" /\ (request[c].kind = "getgroups" => session[c] # 0)
      BY <2>1, ScreenOfKind
    <2> QED
      BY <2>1, <2>2 DEF GroupsKnown, Accepted, Pending
  <1>3. CASE Login(c) \/ Link(c)
    <2>1. /\ pc[c] \in {"work", "link"} /\ request[c].kind = "login"
          /\ UNCHANGED <<request, screen, grouplist, groups>>
      BY <1>0, <1>3 DEF Login, Link, Works, Untouched, shown, tables, BaseInv, TypeOK, WorkOK, RequestOK
    <2>2. session[c] = 0 /\ screen[c] = "login"
      BY <1>0, <2>1, ScreenOfKind DEF PlaceOf
    <2> QED
      BY <2>1, <2>2 DEF GroupsKnown, Accepted, Pending
  <1>4. ASSUME UNCHANGED <<request, grouplist>>, pc[c] # "idle", session'[c] = session[c], screen' = screen,
               request[c].kind # "getgroups"
        PROVE  GroupsKnown(c)'
    BY <1>0, <1>4 DEF GroupsKnown, Accepted, Pending
  <1>5. CASE Register(c) \/ ChangeName(c) \/ SetAvatar(c) \/ CreateGroup(c)
    BY <1>4, <1>5 DEF Register, ChangeName, SetAvatar, CreateGroup, Works, Untouched, shown
  <1>6. CASE Insert(c) \/ Notify(c)
    BY <1>0, <1>4, <1>6 DEF Insert, Notify, PlaceOf, Pushing, shown
  <1>7. CASE GroupMessage(c)
    BY <1>4, <1>7 DEF GroupMessage, Works, Untouched, shown
  <1>8. CASE \E kind, a : Query(c, kind, a)
    <2>1. PICK kind, a : Query(c, kind, a)
      BY <1>8
    <2>2. /\ pc[c] = "work" /\ request[c].kind = kind /\ UNCHANGED <<request, grouplist, session, screen, groups>>
          /\ answer'[c] = a
      BY <1>0, <2>1 DEF Query, Works, Reply, Untouched, shown, tables, Functions
    <2>3. CASE kind # "getgroups"
      BY <1>4, <2>2, <2>3
    <2>4. CASE kind = "getgroups"
      <3>1. a.value = GroupsOf(session[c])
        BY <2>1, <2>4 DEF Query
      <3>2. \A g \in a.value : <<g, session[c]>> \in groups
        BY <3>1 DEF GroupsOf
      <3> QED
        BY <2>2, <2>4, <3>2 DEF GroupsKnown, Accepted, Pending
    <2> QED
      BY <2>3, <2>4
  <1>9. CASE DatabaseFails(c)
    <2>1. pc[c] = "work" /\ UNCHANGED <<request, grouplist>>
      BY <1>9 DEF DatabaseFails
    <2>2. CASE Reply(c, Failure) /\ UNCHANGED <<session, screen>>
      <3>1. ~answer'[c].ok
        BY <1>0, <2>2 DEF Reply, Failure, Functions
      <3> QED
        BY <1>0, <2>1, <2>2, <3>1 DEF GroupsKnown, Accepted, Pending
    <2>3. CASE UNCHANGED <<pc, answer, session, screen>>
      BY <1>0, <2>1, <2>3 DEF GroupsKnown, Accepted, Pending
    <2>4. CASE session' = [session EXCEPT ![c] = 0] /\ screen' = [screen EXCEPT ![c] = "lost"]
      BY <1>0, <2>4 DEF GroupsKnown, Functions
    <2> QED
      BY <1>9, <2>2, <2>3, <2>4 DEF DatabaseFails, Crossed
  <1>10. CASE Leave(c)
    BY <1>0, <1>10 DEF Leave, GroupsKnown, Functions
  <1>11. CASE RefuseGroup(c)
    BY <1>0, <1>11 DEF RefuseGroup, Crossed, GroupsKnown, Functions
  <1> QED
    BY <1>1, <1>2, <1>3, <1>5, <1>6, <1>7, <1>8, <1>9, <1>10, <1>11 DEF Step

LEMMA GroupStep ==
  ASSUME BaseInv, GroupInv, NEW c \in Clients, Step(c)
  PROVE  GroupInv'
  <1> USE DEF GroupInv
  <1>1. RowsInv'
    BY RowsStep
  <1>2. \A d \in Clients : ListOf(d)'
    BY ListStep, ListElsewhere DEF CreateInv
  <1>3. \A d \in Clients : MembersOf(d)'
    BY MembersStep, MembersElsewhere DEF KnownInv
  <1>4. \A d \in Windows : GroupsKnown(d)'
    BY KnownStep, KnownElsewhere, DirectoryAssumption DEF KnownInv
  <1> QED
    BY <1>1, <1>2, <1>3, <1>4 DEF CreateInv, KnownInv

LEMMA GroupInit ==
  ASSUME Init
  PROVE  GroupInv
  BY DirectoryAssumption DEF Init, GroupInv, RowsInv, CreateInv, ListOf, KnownInv, MembersOf, GroupsKnown

LEMMA GroupStutters ==
  ASSUME GroupInv, UNCHANGED vars
  PROVE  GroupInv'
  BY DEF GroupInv, RowsInv, CreateInv, ListOf, Written, KnownInv, MembersOf, GroupsKnown, Accepted, Pending,
         vars, tables, work, shown, bounds, ghosts

\* The members of a group are those of one list it was created with: rows are
\* inserted under the id of their own request (db_CreateGroup), whatever other
\* handlers insert meanwhile.
THEOREM GroupsApartHolds == Spec => []GroupsApart
  <1>1. BaseInv /\ GroupInv /\ [Next]_vars => GroupInv'
    BY NextIsStep, GroupStep, GroupStutters
  <1>2. BaseInv /\ GroupInv => GroupsApart
    <2> SUFFICES ASSUME BaseInv, GroupInv, NEW m \in made, \A other \in made : other.gid = m.gid => other = m,
                        NEW uid \in Members(m.gid)
                 PROVE  \E i \in 1 .. Len(m.list) : m.list[i] = uid
      BY DEF GroupsApart
    <2>1. <<m.gid, uid>> \in groups
      BY MemberIsRow DEF BaseInv, TypeOK
    <2>2. PICK other \in made : other.gid = <<m.gid, uid>>[1]
                             /\ \E i \in 1 .. Len(other.list) : other.list[i] = <<m.gid, uid>>[2]
      BY <2>1 DEF GroupInv, RowsInv
    <2> QED
      BY <2>2
  <1>3. BaseInv /\ [Next]_vars => BaseInv'
    BY BaseStep, BaseStutters
  <1>4. Init => BaseInv /\ GroupInv
    BY BaseInit, GroupInit
  <1> QED
    BY <1>1, <1>2, <1>3, <1>4, PTL DEF Spec

\* What is heard of a message was heard by a member.
LEMMA HeardOfMessage ==
  ASSUME BaseInv, OnlyMembersHear, GroupInv, NEW c \in Clients, Step(c),
         NEW d \in Clients, NEW push \in heard'[d], session'[d] # 0
  PROVE  /\ push.kind = "groupmsg" => <<push.gid, session'[d]>> \in groups'
         /\ /\ push.kind = "creategroup" /\ faults' = 0
            /\ \A m \in made' : m.gid = push.gid => session'[d] <= m.rows
            => <<push.gid, session'[d]>> \in groups'
  <1>0. Functions /\ PlaceOf(c) /\ PlaceOf(d) /\ TablesOK /\ groups \subseteq groups' /\ made \subseteq made'
        /\ (faults' = 0 => faults = 0)
    BY TypesAreFunctions, StepGrows, GroupsStep, FaultsStay DEF BaseInv, PlaceInv, TablesGrow, TypeOK
  <1>1. CASE push \in heard[d]
    <2>1. session'[d] = session[d]
      <3>1. CASE Link(c) /\ d = c
        <4>0. pc[d] = "link" /\ request[d].kind = "login"
          BY <3>1 DEF Link, BaseInv, TypeOK, WorkOK, RequestOK
        <4>1. screen[d] = "login" /\ (session[d] # 0 => pc[d] = "answer")
          BY <1>0, <4>0, ScreenOfKind DEF PlaceOf
        <4> QED
          BY <1>0, <1>1, <4>0, <4>1 DEF PlaceOf
      <3>2. CASE d # c
        BY <3>2, Elsewhere DEF SameFor
      <3> QED
        BY <1>0, <3>1, <3>2, StepSessions DEF Functions
    <2>2. /\ push.kind = "groupmsg" => session[d] \in Members(push.gid)
          /\ /\ push.kind = "creategroup" /\ faults = 0
             /\ \A m \in made : m.gid = push.gid => session[d] <= m.rows
             => session[d] \in Members(push.gid)
      BY <1>1, <2>1 DEF OnlyMembersHear
    <2> QED
      BY <1>0, <2>1, <2>2, MemberIsRow
  <1>2. CASE push \notin heard[d]
    <2>1. Notify(c) /\ Hears(c, d) /\ push = Push(c)
      BY <1>2, HeardStep
    <2>2. /\ pc[c] = "tell" /\ session[d] = members[c][turn[c]] /\ turn[c] \in 1 .. Len(members[c])
          /\ UNCHANGED <<session, groups, made, faults>>
      <3>1. turn[c] \in Nat \ {0} /\ turn[c] <= Len(members[c]) /\ members[c] \in Seq(Nat)
        BY <2>1 DEF Notify, BaseInv, TypeOK, WorkOK, RequestOK
      <3> QED
        BY <2>1, <3>1 DEF Notify, Hears, tables, bounds, ghosts
    <2>3. push.kind = request[c].kind /\ push.gid = group[c]
      BY <2>1 DEF Push
    <2>4. CASE push.kind = "groupmsg"
      <3>1. <<group[c], members[c][turn[c]]>> \in groups
        BY <2>2, <2>3, <2>4 DEF GroupInv, KnownInv, MembersOf
      <3> QED
        BY <2>2, <2>3, <2>4, <3>1
    <2>5. CASE push.kind = "creategroup"
      <3>1. PICK m \in made : m.gid = group[c] /\ Written(c, m)
        BY <2>2, <2>3, <2>5 DEF GroupInv, CreateInv, ListOf
      <3>2. m.rows \in Nat /\ session[d] \in Nat
        BY <1>0 DEF GroupInv, RowsInv, TablesOK
      <3>3. faults = 0 /\ members[c][turn[c]] \in 1 .. m.rows => <<group[c], members[c][turn[c]]>> \in groups
        BY <2>2, <3>1 DEF Written
      <3>4. ASSUME \A other \in made' : other.gid = push.gid => session'[d] <= other.rows
            PROVE  session[d] \in 1 .. m.rows
        BY <2>2, <2>3, <3>1, <3>2, <3>4
      <3> QED
        BY <2>2, <2>3, <2>5, <3>3, <3>4
    <2> QED
      BY <2>4, <2>5
  <1> QED
    BY <1>1, <1>2

\* And it was sent by a member, if its sender has window clients only.
LEMMA SenderOfMessage ==
  ASSUME BaseInv, OnlyMembersHear, GroupInv, NEW c \in Clients, Step(c),
         NEW d \in Clients, NEW push \in heard'[d], push.kind = "groupmsg",
         \A e \in Clients : Person[e] = user'[push.from].passwd => e \in Windows
  PROVE  <<push.gid, push.from>> \in groups'
  <1>0. TablesOK /\ groups \subseteq groups' /\ TablesGrow
    BY StepGrows DEF BaseInv, TypeOK, TablesGrow
  <1>1. CASE push \in heard[d]
    <2>1. push.from \in 1 .. Len(user)
      BY <1>1 DEF BaseInv, TypeOK, ShownOK, Pushes
    <2>2. user[push.from].passwd = user'[push.from].passwd
      BY <1>0, <2>1 DEF TablesGrow
    <2> QED
      BY <1>0, <1>1, <2>2, MemberIsRow DEF OnlyMembersHear
  <1>2. CASE push \notin heard[d]
    <2>1. Notify(c) /\ push = Push(c) /\ pc[c] = "tell"
      BY <1>2, HeardStep DEF Notify
    <2>2. push.kind = request[c].kind /\ push.gid = group[c] /\ push.from = session[c]
      BY <2>1 DEF Push
    <2>3. session[c] \in 1 .. Len(user) /\ user' = user
      BY <2>1, <2>2, ScreenOfKind DEF Notify, tables
    <2>4. c \in Windows
      BY <1>0, <2>2, <2>3 DEF TablesOK
    <2>5. request[c].arg \in grouplist[c] /\ group[c] = request[c].arg
      BY <2>1, <2>2, <2>3, <2>4 DEF GroupInv, KnownInv, MembersOf, GroupsKnown, Pending
    <2>6. <<group[c], session[c]>> \in groups
      BY <2>3, <2>4, <2>5 DEF GroupInv, KnownInv, GroupsKnown
    <2> QED
      BY <1>0, <2>2, <2>6
  <1> QED
    BY <1>1, <1>2

\* The messages of a group reach its members and nobody else, those of a person
\* who has window clients only come from its members, and who is told that it was created is one of
\* them unless the database failed or he is younger than the group
\* (protocol_GroupMessage, protocol_CreateGroup, db_CreateGroup).
THEOREM OnlyMembersHearHolds == Spec => []OnlyMembersHear
  <1>1. ASSUME BaseInv, GroupInv, OnlyMembersHear, [Next]_vars
        PROVE  OnlyMembersHear'
    <2>1. CASE Next
      <3>1. PICK c \in Clients : Step(c)
        BY <1>1, <2>1, NextIsStep
      <3>2. TablesOK'
        BY <1>1, <3>1, TablesStep
      <3>3. \A g, uid : uid \in Members(g)' <=> <<g, uid>> \in groups'
        BY <3>2 DEF TablesOK, Members
      <3> SUFFICES ASSUME NEW d \in Clients, NEW push \in heard'[d]
                   PROVE  /\ push.kind = "groupmsg" /\ session'[d] # 0 => <<push.gid, session'[d]>> \in groups'
                          /\ push.kind = "groupmsg" /\ (\A e \in Clients : Person[e] = user'[push.from].passwd => e \in Windows)
                             => <<push.gid, push.from>> \in groups'
                          /\ /\ push.kind = "creategroup" /\ session'[d] # 0 /\ faults' = 0
                             /\ \A m \in made' : m.gid = push.gid => session'[d] <= m.rows
                             => <<push.gid, session'[d]>> \in groups'
        BY <3>3 DEF OnlyMembersHear
      <3> QED
        BY <1>1, <3>1, HeardOfMessage, SenderOfMessage
    <2>2. CASE UNCHANGED vars
      BY <1>1, <2>2 DEF OnlyMembersHear, Members, vars, tables, shown, bounds, ghosts
    <2> QED
      BY <1>1, <2>1, <2>2
  <1>2. BaseInv /\ GroupInv /\ [Next]_vars => GroupInv'
    BY NextIsStep, GroupStep, GroupStutters
  <1>3. BaseInv /\ [Next]_vars => BaseInv'
    BY BaseStep, BaseStutters
  <1>4. Init => BaseInv /\ GroupInv /\ OnlyMembersHear
    <2>1. Init => OnlyMembersHear
      BY DEF Init, OnlyMembersHear
    <2> QED
      BY <2>1, BaseInit, GroupInit
  <1> QED
    BY <1>1, <1>2, <1>3, <1>4, PTL DEF Spec

-----------------------------------------------------------------------------
\* Everyone is told.

\* Who logs in is late for the requests under way; the others stay what they were.
LEMMA LateStep ==
  ASSUME BaseInv, NEW c \in Clients, Step(c), NEW e \in Clients, e # c
  PROVE  /\ late[e] \subseteq late'[e]
         /\ Link(c) /\ request[e].kind \in Pushing => c \in late'[e]
  <1>0. Functions
    BY TypesAreFunctions
  <1> HIDE DEF BaseInv
  <1>1. CASE Link(c)
    BY <1>1 DEF Link
  <1>2. CASE Reads(c)
    <2>1. late' = [late EXCEPT ![c] = {}] /\ pc[c] = "answer"
      BY <1>2 DEF Reads
    <2> QED
      BY <1>0, <2>1 DEF Functions, Link
  <1>3. CASE late' = late /\ ~Link(c)
    BY <1>3
  <1>4. (\E kind, arg : Question(c, kind, arg)) => late' = late
    BY DEF Question, Ask, ghosts
  <1>5. (\E kind, a : Query(c, kind, a)) => late' = late
    BY DEF Query, ghosts
  <1>6. Register(c) \/ Login(c) \/ ChangeName(c) \/ SetAvatar(c) \/ RefuseGroup(c) \/ CreateGroup(c)
        \/ Insert(c) \/ Notify(c) \/ DatabaseFails(c) \/ Leave(c) => late' = late
    BY DEF Register, Login, ChangeName, SetAvatar, RefuseGroup, CreateGroup, Insert, Notify, DatabaseFails,
           Leave, ghosts
  <1>7. GroupMessage(c) => late' = late
    BY DEF GroupMessage, ghosts
  <1> QED
    BY <1>1, <1>2, <1>3, <1>4, <1>5, <1>6, <1>7 DEF Step

\* A request of another connection: it tells on, and to whoever was there.
LEMMA ToldElsewhere ==
  ASSUME BaseInv, NEW x \in Clients, Step(x), NEW c \in Clients, c # x, NEW d \in Clients, ToldOf(c, d)
  PROVE  ToldOf(c, d)'
  <1>1. SameFor(c)
    BY Elsewhere
  <1>2. Push(c)' = Push(c)
    BY <1>1 DEF SameFor, Push
  <1> SUFFICES ASSUME pc'[c] = "tell" \/ (pc'[c] = "answer" /\ answer'[c].ok), request'[c].kind \in Pushing,
                      NEW i \in 1 .. Len(members'[c]), pc'[c] = "answer" \/ i < turn'[c],
                      members'[c][i] = session'[d], session'[d] # 0, d # c, d \notin late'[c] \cup shared'
               PROVE  Push(c)' \in heard'[d]
    BY DEF ToldOf
  <1>3. d \notin late[c] \cup shared /\ ~(d = x /\ Link(x))
    BY <1>1, LateStep, SharedGrows DEF SameFor
  <1>4. session'[d] = session[d]
    <2>1. CASE d = x
      BY <1>3, <2>1, StepSessions, TypesAreFunctions DEF Functions
    <2>2. CASE d # x
      BY <2>2, Elsewhere DEF SameFor
    <2> QED
      BY <2>1, <2>2
  <1>5. Push(c) \in heard[d]
    BY <1>1, <1>3, <1>4 DEF ToldOf, SameFor
  <1>6. ~(Leave(x) /\ d = x)
    <2>1. Leave(x) => session' = [session EXCEPT ![x] = 0]
      BY DEF Leave
    <2> QED
      BY <2>1, TypesAreFunctions DEF Functions
  <1> QED
    BY <1>2, <1>5, <1>6, HeardStep

\* A request answers, or begins to tell, or tells the next user.
LEMMA PushingStep ==
  ASSUME BaseInv, NEW c \in Clients, Step(c), ~Notify(c), request'[c].kind \in Pushing
  PROVE  \/ pc'[c] \notin {"tell", "answer"}
         \/ pc'[c] = "answer" /\ ~answer'[c].ok
         \/ members'[c] = <<>>
         \/ pc'[c] = "tell" /\ turn'[c] = 1
  <1>0. /\ Functions /\ PlaceOf(c) /\ turn[c] \in Nat /\ Len(members[c]) \in Nat /\ members[c] \in Seq(Nat)
        /\ pc[c] = "link" => request[c].kind = "login"
    BY TypesAreFunctions DEF BaseInv, PlaceInv, TypeOK, WorkOK, RequestOK
  <1> HIDE DEF BaseInv
  <1>1. ASSUME NEW kind, NEW arg, Question(c, kind, arg)
        PROVE  pc'[c] = "work"
    BY <1>0, <1>1 DEF Question, Ask, Functions
  <1>2. Reads(c) \/ RefuseGroup(c) => pc'[c] = "idle"
    BY <1>0 DEF Reads, RefuseGroup, Crossed, Functions
  <1>3. ~(Register(c) \/ Login(c) \/ Link(c) \/ ChangeName(c) \/ SetAvatar(c))
    BY <1>0 DEF Register, Login, Link, ChangeName, SetAvatar, Works, Untouched, Pushing
  <1>4. ASSUME NEW kind, NEW a, Query(c, kind, a)
        PROVE  FALSE
    BY <1>4 DEF Query, Works, Untouched, Pushing
  <1>5. CreateGroup(c) => pc'[c] = "insert" \/ members'[c] = <<>>
    BY <1>0 DEF CreateGroup, Functions
  <1>6. CASE Insert(c)
    <2>1. pc[c] = "insert" /\ members' = members
      BY <1>6 DEF Insert
    <2>2. NextUser(c, Tell(c, members[c]))
      BY <1>6 DEF Insert
    <2>3. CASE pc' = pc
      BY <2>1, <2>3
    <2>4. CASE Tell(c, members[c])
      BY <1>0, <2>1, <2>4 DEF Tell, Functions
    <2> QED
      BY <2>2, <2>3, <2>4 DEF NextUser
  <1>7. CASE GroupMessage(c)
    <2>1. PICK list \in Listings(Members(request[c].arg)) : members' = [members EXCEPT ![c] = list] /\ Tell(c, list)
      BY <1>7 DEF GroupMessage
    <2> QED
      BY <1>0, <2>1 DEF Tell, Functions
  <1>8. CASE DatabaseFails(c)
    <2>1. pc[c] = "work"
      BY <1>8 DEF DatabaseFails
    <2>2. CASE pc' = pc
      BY <2>1, <2>2
    <2>3. CASE pc' = [pc EXCEPT ![c] = "idle"]
      BY <1>0, <2>3 DEF Functions
    <2>4. CASE Reply(c, Failure)
      BY <1>0, <2>4 DEF Reply, Failure, Functions
    <2> QED
      BY <1>8, <2>2, <2>3, <2>4 DEF DatabaseFails, Crossed
  <1>9. Leave(c) => pc'[c] = "idle"
    BY DEF Leave
  <1> QED
    BY <1>1, <1>2, <1>3, <1>4, <1>5, <1>6, <1>7, <1>8, <1>9 DEF Step

\* A user's turn: if he is online, in one session, he is written to.
LEMMA TurnTells ==
  ASSUME BaseInv, NEW c \in Clients, Notify(c), NEW d \in Clients \ shared, d # c,
         members[c][turn[c]] = session[d], session[d] # 0
  PROVE  Push(c) \in heard'[d]
  <1>1. pc[c] = "tell" /\ request[c].kind \in Pushing
    BY DEF Notify, BaseInv, PlaceInv, PlaceOf
  <1>2. \A e \in Clients : e # d => session[e] # session[d]
    BY DEF BaseInv, SoleInv
  <1>3. SessionsOf(session[d]) = {d}
    BY <1>2 DEF SessionsOf
  <1>4. Found(c) = {{d}}
    BY <1>2, <1>3 DEF Found
  <1>5. PICK them \in Found(c) :
          heard' = [e \in Clients |-> IF e \in them THEN heard[e] \cup {Push(c)} ELSE heard[e]]
    BY DEF Notify, Hear
  <1> HIDE DEF BaseInv
  <1> QED
    BY <1>4, <1>5

LEMMA ToldStep ==
  ASSUME BaseInv, NEW c \in Clients, Step(c), NEW d \in Clients, ToldOf(c, d)
  PROVE  ToldOf(c, d)'
  <1>0. Functions /\ PlaceOf(c) /\ turn[c] \in Nat /\ Len(members[c]) \in Nat /\ members[c] \in Seq(Nat)
        /\ turn[c] # 0 /\ (pc[c] = "tell" => turn[c] <= Len(members[c]))
    BY TypesAreFunctions DEF BaseInv, PlaceInv, TypeOK, WorkOK, RequestOK
  <1> SUFFICES ASSUME pc'[c] = "tell" \/ (pc'[c] = "answer" /\ answer'[c].ok), request'[c].kind \in Pushing,
                      NEW i \in 1 .. Len(members'[c]), pc'[c] = "answer" \/ i < turn'[c],
                      members'[c][i] = session'[d], session'[d] # 0, d # c, d \notin late'[c] \cup shared'
               PROVE  Push(c)' \in heard'[d]
    BY DEF ToldOf
  <1>1. Notify(c)
    <2> SUFFICES ASSUME ~Notify(c) PROVE FALSE
      OBVIOUS
    <2>1. members'[c] = <<>> \/ (pc'[c] = "tell" /\ turn'[c] = 1)
      BY PushingStep
    <2> QED
      BY <2>1
  <1>2. /\ pc[c] = "tell" /\ UNCHANGED <<session, request, members, group, late, shared>>
        /\ NextUser(c, turn' = [turn EXCEPT ![c] = 1] /\ Reply(c, Success(0)))
    BY <1>1 DEF Notify, ghosts
  <1>3. Push(c)' = Push(c)
    BY <1>2 DEF Push
  <1>4. i <= turn[c]
    <2>1. CASE turn[c] < Len(members[c])
      <3>1. turn' = [turn EXCEPT ![c] = @ + 1] /\ pc' = pc
        BY <1>2, <2>1 DEF NextUser
      <3>2. turn'[c] = turn[c] + 1
        BY <1>0, <3>1 DEF Functions
      <3> QED
        BY <1>0, <1>2, <3>1, <3>2
    <2>2. CASE ~(turn[c] < Len(members[c]))
      BY <1>0, <1>2, <2>2
    <2> QED
      BY <2>1, <2>2
  <1>5. CASE i = turn[c]
    BY <1>1, <1>2, <1>3, <1>5, TurnTells
  <1>6. CASE i < turn[c]
    <2>1. Push(c) \in heard[d]
      BY <1>0, <1>2, <1>6 DEF ToldOf, PlaceOf
    <2>2. heard[d] \subseteq heard'[d]
      BY HeardStep
    <2> QED
      BY <1>3, <2>1, <2>2
  <1> QED
    BY <1>0, <1>4, <1>5, <1>6

\* Once a group or a message is answered 0, everyone it concerns has been told:
\* the loops around login_Notify (protocol_CreateGroup, protocol_GroupMessage)
\* pass over those who are not online and stop at nobody.
THEOREM EveryoneIsToldHolds == Spec => []EveryoneIsTold
  <1>1. ASSUME BaseInv, ToldInv, [Next]_vars
        PROVE  ToldInv'
    <2>1. CASE Next
      <3>1. PICK x \in Clients : Step(x)
        BY <1>1, <2>1, NextIsStep
      <3>2. \A c, d \in Clients : ToldOf(c, d)'
        BY <1>1, <3>1, ToldStep, ToldElsewhere DEF ToldInv
      <3> QED
        BY <3>2 DEF ToldInv
    <2>2. CASE UNCHANGED vars
      BY <1>1, <2>2 DEF ToldInv, ToldOf, Push, vars, work, ghosts
    <2> QED
      BY <1>1, <2>1, <2>2
  <1>2. BaseInv /\ [Next]_vars => BaseInv'
    BY BaseStep, BaseStutters
  <1>3. Init => BaseInv /\ ToldInv
    <2>1. Init => ToldInv
      BY DEF Init, ToldInv, ToldOf
    <2> QED
      BY <2>1, BaseInit
  <1>4. ToldInv => EveryoneIsTold
    BY DEF ToldInv, ToldOf, EveryoneIsTold
  <1> QED
    BY <1>1, <1>2, <1>3, <1>4, PTL DEF Spec

=============================================================================
