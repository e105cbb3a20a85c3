------------------------------ MODULE OnlineList ------------------------------
(***************************************************************************)
(* The server's list of online clients (Linpop_Server/login.c) and the     *)
(* handler threads that add themselves to it, broadcast over it, look      *)
(* other clients up in it and remove themselves (server_main.c,            *)
(* in_handler).                                                            *)
(*                                                                         *)
(* One handler thread serves each connection.  Everything the code does    *)
(* inside one critical section of g_LoginMutex without calling out is one  *)
(* action; login_NotifyAllLogin and login_NotifyAll write to sockets while *)
(* they hold the mutex, so their loop is one action per list node.  Such a *)
(* write waits while the socket buffer of the other client is full.        *)
(*                                                                         *)
(* A CLIENT record is a heap cell that malloc may hand out again after     *)
(* free, so a pointer kept outside the mutex can come to name another      *)
(* record.  The list is always walked under the mutex, which is why the    *)
(* chain of next pointers is a sequence here.                              *)
(***************************************************************************)
EXTENDS Naturals, Sequences

CONSTANTS
  Conns,     \* connections, each with its in_handler thread
  Uids,      \* registered user ids
  Cells,     \* heap addresses a CLIENT record can have
  None,      \* NULL: no record, no mutex holder, no uid
  ReLogin    \* whether a logged-in connection may send PTYPE_LOGIN again

ASSUME OnlineListAssumption ==
  /\ None \notin Conns \cup Uids \cup Cells
  /\ ReLogin \in BOOLEAN

VARIABLES
  g_Online,      \* the linked list of CLIENT cells, head first
  g_LoginMutex,  \* the thread that holds the mutex, or None
  cursor,        \* the loop variable p of the broadcast in progress
  uid,           \* per cell: c->uid, None when the cell is free
  pc,            \* per thread: where in_handler is
  client_info,   \* per thread: its own record
  target,        \* per thread: a record found earlier, used without the mutex
  arg,           \* per thread: the uid its current request names
  told,          \* per cell: the last USERLOG notice written to it, per uid
  deaf,          \* cells whose client process has gone: writes reach nobody
  full           \* cells whose client does not read: its socket buffer is full

threads == <<pc, client_info, target, arg>>
lock    == <<g_LoginMutex, cursor>>
heap    == <<uid, told, deaf, full>>
vars    == <<g_Online, lock, heap, threads>>

-----------------------------------------------------------------------------
PCs == {"closed",    \* no connection
        "idle",      \* in srv_ReadPacket
        "append",    \* login_AddClient, after its lookup found nobody
        "announce",  \* login_NotifyAllLogin(client_info, 0)
        "renamed",   \* login_NotifyAllChangeName
        "leave",     \* login_NotifyAllLogin(client_info, 1)
        "remove",    \* login_DisconnectClient
        "use"}       \* a protocol_* function between lookup and write

Broadcasts == {"announce", "renamed", "leave"}
Notices    == {"none", "online", "offline"}

MutexFree  == g_LoginMutex = None
Listed     == {g_Online[i] : i \in DOMAIN g_Online}
Unheard    == [u \in Uids |-> "none"]

\* The i-th node is the first one whose uid is u.
IsFirst(i, u) == /\ uid[g_Online[i]] = u
                 /\ \A j \in 1..(i - 1) : uid[g_Online[j]] # u

\* login_FindOnlineClientByUID(u) returns a record.
Found(u) == \E i \in DOMAIN g_Online : IsFirst(i, u)

\* The list s with its i-th node unlinked.
Without(s, i) ==
  [j \in 1..(Len(s) - 1) |-> IF j < i THEN s[j] ELSE s[j + 1]]

Goto(t, label) == pc' = [pc EXCEPT ![t] = label]

-----------------------------------------------------------------------------
Init ==
  /\ g_Online = <<>>
  /\ g_LoginMutex = None
  /\ cursor = 1
  /\ uid = [c \in Cells |-> None]
  /\ told = [c \in Cells |-> Unheard]
  /\ deaf = {} /\ full = {}
  /\ pc = [t \in Conns |-> "closed"]
  /\ client_info = [t \in Conns |-> None]
  /\ target = [t \in Conns |-> None]
  /\ arg = [t \in Conns |-> None]

\* srv_ServeForever accepts a connection and starts its handler, which
\* completes the key agreement.
Accept(t) ==
  /\ pc[t] = "closed"
  /\ Goto(t, "idle")
  /\ UNCHANGED <<g_Online, lock, heap, client_info, target, arg>>

\* Mutant: the lookup does not come to the last node.
LoginFind_NotTheLast(t, u) ==
  LET found == \E i \in 1 .. (Len(g_Online) - 1) : uid[g_Online[i]] = u
  IN  /\ pc[t] = "idle"
      /\ ReLogin \/ client_info[t] = None
      /\ MutexFree
      /\ IF found
         THEN client_info' = [client_info EXCEPT ![t] = None] /\ UNCHANGED <<pc, arg>>
         ELSE Goto(t, "append") /\ arg' = [arg EXCEPT ![t] = u] /\ UNCHANGED client_info
      /\ UNCHANGED <<g_Online, lock, heap, target>>

\* PTYPE_LOGIN with good credentials and a successful connect-back:
\* login_AddClient looks the uid up.  A uid already online makes
\* login_AddClient return NULL, which in_handler assigns to client_info.
LoginFind(t, u) ==
  /\ pc[t] = "idle"
  /\ ReLogin \/ client_info[t] = None
  /\ MutexFree
  /\ \/ /\ Found(u)
        /\ client_info' = [client_info EXCEPT ![t] = None]
        /\ UNCHANGED <<pc, arg>>
     \/ /\ ~Found(u)
        /\ Goto(t, "append")
        /\ arg' = [arg EXCEPT ![t] = u]
        /\ UNCHANGED client_info
  /\ UNCHANGED <<g_Online, lock, heap, target>>

\* login_AddClient when malloc returns NULL.
MallocFails(t) ==
  /\ pc[t] = "append"
  /\ client_info' = [client_info EXCEPT ![t] = None]
  /\ arg' = [arg EXCEPT ![t] = None]
  /\ Goto(t, "idle")
  /\ UNCHANGED <<g_Online, lock, heap, target>>

\* Mutant: login_AddClient links its record without taking the mutex.
AddClient_NoLock(t) ==
  /\ pc[t] = "append"
  /\ \E c \in Cells :
       /\ uid[c] = None
       /\ uid' = [uid EXCEPT ![c] = arg[t]]
       /\ g_Online' = Append(g_Online, c)
       /\ client_info' = [client_info EXCEPT ![t] = c]
  /\ arg' = [arg EXCEPT ![t] = None]
  /\ Goto(t, "announce")
  /\ UNCHANGED <<lock, told, deaf, full, target>>

\* login_AddClient builds the record and links it at the end of the list.
AddClient(t) ==
  /\ pc[t] = "append"
  /\ MutexFree
  /\ \E c \in Cells :
       /\ uid[c] = None
       /\ uid' = [uid EXCEPT ![c] = arg[t]]
       /\ g_Online' = Append(g_Online, c)
       /\ client_info' = [client_info EXCEPT ![t] = c]
  /\ arg' = [arg EXCEPT ![t] = None]
  /\ Goto(t, "announce")
  /\ UNCHANGED <<lock, told, deaf, full, target>>

\* PTYPE_CHANGENAME, once the new name is stored.
ChangeName(t) ==
  /\ pc[t] = "idle"
  /\ client_info[t] # None
  /\ Goto(t, "renamed")
  /\ UNCHANGED <<g_Online, lock, heap, client_info, target, arg>>

\* A broadcast takes the mutex and starts at the head.
NotifyLock(t) ==
  /\ pc[t] \in Broadcasts
  /\ MutexFree
  /\ g_LoginMutex' = t
  /\ cursor' = 1
  /\ UNCHANGED <<g_Online, heap, threads>>

\* The notice the broadcast of t writes to a record.
Notice(t) == IF pc[t] = "leave" THEN "offline" ELSE "online"

\* writeAll does not return: the record under the cursor is another client's
\* and has a full buffer.
Blocked(t) ==
  /\ g_LoginMutex = t
  /\ cursor <= Len(g_Online)
  /\ g_Online[cursor] \in full \ {client_info[t]}

\* Mutant: the thread's own record is skipped without advancing p.
NotifyNext_Stuck(t) ==
  /\ g_LoginMutex = t
  /\ cursor <= Len(g_Online)
  /\ ~Blocked(t)
  /\ LET p == g_Online[cursor]
     IN  /\ IF p = client_info[t] \/ p \in deaf \/ pc[t] = "renamed"
            THEN UNCHANGED told
            ELSE told' = [told EXCEPT ![p][uid[client_info[t]]] = Notice(t)]
         /\ cursor' = IF p = client_info[t] THEN cursor ELSE cursor + 1
  /\ UNCHANGED <<g_Online, g_LoginMutex, uid, deaf, full, threads>>

\* One turn of the broadcast loop: the thread skips its own record and
\* writes header and body to any other, with the mutex held for as long as
\* that takes; a failed write is passed over.
NotifyNext(t) ==
  /\ g_LoginMutex = t
  /\ cursor <= Len(g_Online)
  /\ ~Blocked(t)
  /\ LET p == g_Online[cursor]
     IN  IF p = client_info[t] \/ p \in deaf \/ pc[t] = "renamed"
         THEN UNCHANGED told
         ELSE told' = [told EXCEPT ![p][uid[client_info[t]]] = Notice(t)]
  /\ cursor' = cursor + 1
  /\ UNCHANGED <<g_Online, g_LoginMutex, uid, deaf, full, threads>>

\* The end of the list: the broadcast releases the mutex.
NotifyDone(t) ==
  /\ g_LoginMutex = t
  /\ cursor > Len(g_Online)
  /\ g_LoginMutex' = None
  /\ cursor' = 1
  /\ Goto(t, IF pc[t] = "leave" THEN "remove" ELSE "idle")
  /\ UNCHANGED <<g_Online, heap, client_info, target, arg>>

\* Mutants: a thread with a record leaves without the broadcast, or without
\* removing its record.
Disconnect_NoNotify(t) ==
  /\ pc[t] = "idle"
  /\ Goto(t, IF client_info[t] = None THEN "closed" ELSE "remove")
  /\ UNCHANGED <<g_Online, lock, heap, client_info, target, arg>>

Disconnect_NoRemove(t) ==
  /\ pc[t] = "idle"
  /\ Goto(t, "closed")
  /\ client_info' = [client_info EXCEPT ![t] = None]
  /\ UNCHANGED <<g_Online, lock, heap, target, arg>>

\* srv_ReadPacket or the write of a reply fails on the control connection:
\* a thread without a record exits, one with a record says goodbye first.
Disconnect(t) ==
  /\ pc[t] = "idle"
  /\ Goto(t, IF client_info[t] = None THEN "closed" ELSE "leave")
  /\ UNCHANGED <<g_Online, lock, heap, client_info, target, arg>>

\* Mutant: the node to unlink is found by its uid and not by its address.
DisconnectClient_ByUid(t) ==
  /\ pc[t] = "remove"
  /\ MutexFree
  /\ \E i \in DOMAIN g_Online :
       /\ IsFirst(i, uid[client_info[t]])
       /\ g_Online' = Without(g_Online, i)
       /\ uid' = [uid EXCEPT ![g_Online[i]] = None]
       /\ told' = [told EXCEPT ![g_Online[i]] = Unheard]
       /\ deaf' = deaf \ {g_Online[i]}
       /\ full' = full \ {g_Online[i]}
  /\ client_info' = [client_info EXCEPT ![t] = None]
  /\ Goto(t, "closed")
  /\ UNCHANGED <<lock, target, arg>>

\* login_DisconnectClient unlinks and frees the thread's record.  The walk
\* ends at that node: OwnRecord states that it is there to be found.
DisconnectClient(t) ==
  /\ pc[t] = "remove"
  /\ MutexFree
  /\ \E i \in DOMAIN g_Online :
       /\ g_Online[i] = client_info[t]
       /\ g_Online' = Without(g_Online, i)
  /\ uid' = [uid EXCEPT ![client_info[t]] = None]
  /\ told' = [told EXCEPT ![client_info[t]] = Unheard]
  /\ deaf' = deaf \ {client_info[t]}
  /\ full' = full \ {client_info[t]}
  /\ client_info' = [client_info EXCEPT ![t] = None]
  /\ Goto(t, "closed")
  /\ UNCHANGED <<lock, target, arg>>

\* protocol_Message, protocol_SendFile, protocol_AddFriend, login_Notify ...
\* look a client up and keep the pointer after the mutex is released.
Lookup(t, u) ==
  /\ pc[t] = "idle"
  /\ client_info[t] # None
  /\ MutexFree
  /\ \E i \in DOMAIN g_Online :
       /\ IsFirst(i, u)
       /\ target' = [target EXCEPT ![t] = g_Online[i]]
  /\ arg' = [arg EXCEPT ![t] = u]
  /\ Goto(t, "use")
  /\ UNCHANGED <<g_Online, lock, heap, client_info>>

\* ... then, after a read, a query or a full buffer that may take any time,
\* write to target->msgsock and return.
UseTarget(t) ==
  /\ pc[t] = "use"
  /\ target' = [target EXCEPT ![t] = None]
  /\ arg' = [arg EXCEPT ![t] = None]
  /\ Goto(t, "idle")
  /\ UNCHANGED <<g_Online, lock, heap, client_info>>

\* The client process behind a record goes away.
PeerGone(c) ==
  /\ uid[c] # None
  /\ deaf' = deaf \cup {c}
  /\ full' = full \ {c}
  /\ UNCHANGED <<g_Online, lock, uid, told, threads>>

\* What was written to a client fills its socket buffer, or it reads some of
\* it.  Nobody but the kernel knows how much there is.
Fill(c) ==
  /\ uid[c] # None /\ c \notin deaf
  /\ full' = full \cup {c}
  /\ UNCHANGED <<g_Online, lock, uid, told, deaf, threads>>

Drain(c) ==
  /\ c \in full
  /\ full' = full \ {c}
  /\ UNCHANGED <<g_Online, lock, uid, told, deaf, threads>>

-----------------------------------------------------------------------------
\* The steps a running thread takes by itself, and those that wait for a
\* client to send something or to go away.
Proceed(t) ==
  \/ AddClient(t)
  \/ NotifyLock(t) \/ NotifyNext(t) \/ NotifyDone(t)
  \/ DisconnectClient(t)
  \/ UseTarget(t)

Request(t) ==
  \/ Accept(t)
  \/ \E u \in Uids : LoginFind(t, u) \/ Lookup(t, u)
  \/ MallocFails(t)
  \/ ChangeName(t)
  \/ Disconnect(t)

Next ==
  \/ \E t \in Conns : Proceed(t) \/ Request(t)
  \/ \E c \in Cells : PeerGone(c) \/ Fill(c) \/ Drain(c)

\* A broadcast that holds the mutex keeps running while its writes return.
\* That they do is not assumed: nothing makes a client read.
Fairness == \A t \in Conns : WF_vars(NotifyNext(t) \/ NotifyDone(t))

Spec == Init /\ [][Next]_vars /\ Fairness

-----------------------------------------------------------------------------
\* Every variable stays within its type.
TypeOK ==
  /\ g_Online \in Seq(Cells)
  /\ g_LoginMutex \in Conns \cup {None}
  /\ cursor \in Nat \ {0}
  /\ uid \in [Cells -> Uids \cup {None}]
  /\ told \in [Cells -> [Uids -> Notices]]
  /\ deaf \subseteq Cells
  /\ full \subseteq Cells
  /\ pc \in [Conns -> PCs]
  /\ client_info \in [Conns -> Cells \cup {None}]
  /\ target \in [Conns -> Cells \cup {None}]
  /\ arg \in [Conns -> Uids \cup {None}]

\* The list never holds a record twice and holds exactly the allocated
\* records: no freed cell is ever walked by login_FindOnlineClientByUID or
\* by a broadcast (login.c walks p->next without any other check).
ListIsHeap ==
  /\ \A i, j \in DOMAIN g_Online : g_Online[i] = g_Online[j] => i = j
  /\ Listed = {c \in Cells : uid[c] # None}

\* A handler's own record is in the list, and no two handlers share one:
\* login_DisconnectClient, which reads p->next of a NULL p on an empty list
\* and frees what it finds, always finds the record and frees it once.
OwnRecord ==
  /\ \A t \in Conns : client_info[t] # None => client_info[t] \in Listed
  /\ \A s, t \in Conns :
       client_info[s] = client_info[t] /\ s # t => client_info[s] = None

\* A client that was last told "u connected" is never left with it: as long
\* as that is its last notice, u is in the list (login_NotifyAllLogin runs
\* to its end before login_DisconnectClient).
NoStaleNotice ==
  \A p \in Listed \ deaf, u \in Uids :
    told[p][u] = "online" => \E c \in Listed : uid[c] = u

\* Once a login is answered, every client that came before it in the list
\* and is still reachable has had a notice about it.
LoginAnnounced ==
  \A t \in Conns :
    client_info[t] # None /\ pc[t] # "announce" =>
      \A i, j \in DOMAIN g_Online :
        (i < j /\ g_Online[j] = client_info[t] /\ g_Online[i] \notin deaf) =>
          told[g_Online[i]][uid[client_info[t]]] # "none"

\* A broadcast walks a list that nobody changes under it: no node is linked
\* or unlinked while g_LoginMutex is held.
ListFrozen == [][~MutexFree => g_Online' = g_Online]_vars

\* The handlers that have found nobody of that uid and will link a record, and
\* the records there are.
Appending(u) == {t \in Conns : pc[t] = "append" /\ arg[t] = u}
RecordsOf(u) == {c \in Cells : uid[c] = u}

\* Every record in the list belongs to a handler that will remove it when
\* its connection ends.
NoGhost == \A c \in Listed : \E t \in Conns : client_info[t] = c

\* "UID %d already online" (login.c:72): a user with a record gets a second one
\* only from a login that had looked before the first record was linked.  Two
\* logins that overlap do get one each, since the test and the link are two
\* critical sections; no login that begins later does.
SecondLoginRefused ==
  [][\A u \in Uids :
       Found(u) /\ Appending(u) = {} =>
         Appending(u)' = {} /\ RecordsOf(u)' \subseteq RecordsOf(u)]_vars

\* A record that was looked up and is still to be written to ceases to be that
\* of the user the request named in one way only: the handler it belongs to
\* leaves and frees it.  No third handler takes it away.
StaleOnlyAfterLeave ==
  [][\A t \in Conns :
       pc[t] = "use" /\ uid[target[t]] = arg[t] /\ (pc[t] = "use" /\ uid[target[t]] # arg[t])' =>
         \E s \in Conns : pc[s] = "remove" /\ client_info[s] = target[t]]_vars

\* A broadcast ends and releases the mutex all the others wait for, but for one
\* reason: it never ends when it is found, time and again, in a write to a client
\* whose socket buffer is full (login.c:159; what that client may be waiting for
\* is in PushChannel).
MutexReleased ==
  \A t \in Conns : <>[](g_LoginMutex = t) => []<>Blocked(t)

\* The list with its broadcasts keeps the promise of Presence: a session is a
\* CLIENT record, its user c->uid.
Promise == INSTANCE Presence
             WITH Sessions <- Cells, user <- uid, heard <- told, gone <- deaf

ImplementsPresence == Promise!Spec
=============================================================================
