-------------------------------- MODULE Friends --------------------------------
(***************************************************************************)
(* The friends table and the handlers that change it                       *)
(* (Linpop_Server/dbconn.c, protocol_BeFriend, protocol_DeleteFriend).     *)
(* A friendship of u and v is two rows, (u,v) and (v,u), written and       *)
(* deleted by two statements that commit one by one; the primary key       *)
(* (uid1, uid2) refuses a row that is there already.  Every user has at    *)
(* most one handler, which serves one request at a time; the statements of *)
(* different handlers interleave.                                          *)
(***************************************************************************)
CONSTANTS
  Users,    \* registered user ids
  None,     \* no peer
  Deletes,  \* whether clients send PTYPE_DELETEFRIEND
  Faults    \* whether a statement may fail for reasons of its own

ASSUME FriendsAssumption ==
  /\ None \notin Users
  /\ Deletes \in BOOLEAN
  /\ Faults \in BOOLEAN

VARIABLES
  friends,  \* the rows (uid1, uid2)
  pc,       \* per user: the statement its handler executes next
  peer,     \* per user: the uid its request names
  answer,   \* per pair: the result of the last request about it
  trouble   \* per pair, history: what went wrong since the two last agreed

vars == <<friends, pc, peer, answer, trouble>>

Inserts == {"insert1", "insert2"}
DeleteSteps == {"delete1", "delete2"}
PCs == {"idle"} \cup Inserts \cup DeleteSteps

Pairs == {{u, v} : u, v \in Users}

Goto(u, label) == pc' = [pc EXCEPT ![u] = label]

Reply(u, result) == answer' = [answer EXCEPT ![{u, peer[u]}] = result]

\* A statement of u's handler that fails for a reason of its own.
Fault(u) ==
  /\ Faults
  /\ trouble' = [trouble EXCEPT ![{u, peer[u]}] = @ \cup {"failed"}]

\* The handler of u is serving a request about u and v; nobody's is.
Serving(u, v) == pc[u] # "idle" /\ peer[u] = v
Settled(u, v) == ~Serving(u, v) /\ ~Serving(v, u)

Mutual(u, v) == <<u, v>> \in friends <=> <<v, u>> \in friends

\* u's handler begins a request about u and v: on a pair that agrees nothing
\* has gone wrong yet, unless v's handler is doing the opposite.
Begin(u, v, label, opposite) ==
  /\ pc[u] = "idle"
  /\ Goto(u, label)
  /\ peer' = [peer EXCEPT ![u] = v]
  /\ trouble' = [trouble EXCEPT ![{u, v}] =
                   (IF Settled(u, v) /\ Mutual(u, v) THEN {} ELSE @)
                     \cup {w \in {"crossed"} : pc[v] \in opposite /\ peer[v] = u}]
  /\ UNCHANGED <<friends, answer>>

Init ==
  /\ friends = {}
  /\ pc = [u \in Users |-> "idle"]
  /\ peer = [u \in Users |-> None]
  /\ answer = [p \in Pairs |-> "none"]
  /\ trouble = [p \in Pairs |-> {}]

\* protocol_BeFriend finds the target online and opens a connection to the
\* database.  Nothing keeps a client from naming itself.
BeFriend(u, v) == Begin(u, v, "insert1", DeleteSteps)

\* The key refuses a row that is there.
Refused(row) == row \in friends /\ UNCHANGED trouble

\* The first insert of db_AddFriends.  A failure ends the request with -1.
InsertFirst(u) ==
  /\ pc[u] = "insert1"
  /\ \/ /\ <<u, peer[u]>> \notin friends
        /\ friends' = friends \cup {<<u, peer[u]>>}
        /\ Goto(u, "insert2")
        /\ UNCHANGED <<answer, trouble>>
     \/ /\ Refused(<<u, peer[u]>>) \/ Fault(u)
        /\ Goto(u, "idle")
        /\ Reply(u, "failed")
        /\ UNCHANGED friends
  /\ UNCHANGED peer

\* Mutant: the second insert repeats the first one's row.
InsertSecond_SameRow(u) ==
  /\ pc[u] = "insert2"
  /\ friends' = friends \cup {<<u, peer[u]>>}
  /\ Reply(u, "ok")
  /\ Goto(u, "idle")
  /\ UNCHANGED <<peer, trouble>>

\* The second insert.  A failure leaves the first row where it is.
InsertSecond(u) ==
  /\ pc[u] = "insert2"
  /\ \/ /\ <<peer[u], u>> \notin friends
        /\ friends' = friends \cup {<<peer[u], u>>}
        /\ Reply(u, "ok")
        /\ UNCHANGED trouble
     \/ /\ Refused(<<peer[u], u>>) \/ Fault(u)
        /\ Reply(u, "failed")
        /\ UNCHANGED friends
  /\ Goto(u, "idle")
  /\ UNCHANGED peer

\* protocol_DeleteFriend; the target may be offline.
DeleteFriend(u, v) ==
  /\ Deletes
  /\ Begin(u, v, "delete1", Inserts)

\* The first delete of db_DeleteFriend: no row is no error.
DeleteFirst(u) ==
  /\ pc[u] = "delete1"
  /\ \/ /\ friends' = friends \ {<<u, peer[u]>>}
        /\ Goto(u, "delete2")
        /\ UNCHANGED <<answer, trouble>>
     \/ /\ Fault(u)
        /\ Goto(u, "idle")
        /\ Reply(u, "failed")
        /\ UNCHANGED friends
  /\ UNCHANGED peer

\* Mutant: a failure of the second delete is not reported.
DeleteSecond_Silent(u) ==
  /\ pc[u] = "delete2"
  /\ \/ friends' = friends \ {<<peer[u], u>>} /\ UNCHANGED trouble
     \/ Fault(u) /\ UNCHANGED friends
  /\ Reply(u, "ok")
  /\ Goto(u, "idle")
  /\ UNCHANGED peer

\* The second delete.  A failure leaves the first row deleted.
DeleteSecond(u) ==
  /\ pc[u] = "delete2"
  /\ \/ /\ friends' = friends \ {<<peer[u], u>>}
        /\ Reply(u, "ok")
        /\ UNCHANGED trouble
     \/ /\ Fault(u)
        /\ Reply(u, "failed")
        /\ UNCHANGED friends
  /\ Goto(u, "idle")
  /\ UNCHANGED peer

Step(u) ==
  \/ InsertFirst(u) \/ InsertSecond(u)
  \/ DeleteFirst(u) \/ DeleteSecond(u)

Next ==
  \E u \in Users :
    \/ \E v \in Users : BeFriend(u, v) \/ DeleteFriend(u, v)
    \/ Step(u)

\* A handler that has begun a request goes on with it.
Spec == Init /\ [][Next]_vars /\ \A u \in Users : WF_vars(Step(u))

-----------------------------------------------------------------------------
\* Every variable stays within its type.
TypeOK ==
  /\ friends \subseteq Users \X Users
  /\ pc \in [Users -> PCs]
  /\ peer \in [Users -> Users \cup {None}]
  /\ answer \in [Pairs -> {"none", "ok", "failed"}]
  /\ trouble \in [Pairs -> SUBSET {"crossed", "failed"}]
  /\ \A u \in Users : pc[u] # "idle" => peer[u] \in Users

\* While clients only add and no statement fails: whenever nothing is being done
\* about u and v, each has the other as a friend or neither has (get_user_list
\* of both agree).
Symmetric == \A u, v \in Users : Settled(u, v) => Mutual(u, v)

\* Half a friendship has one of two reasons.  Either an insertion and a deletion
\* of the pair were under way together at some time since the two last agreed;
\* or a statement failed since then, and that is owned up to: the last request
\* about the pair was answered -1.  Crossing insertions, crossing deletions and
\* rows that are there already do no harm.
HalfIsExplained ==
  \A u, v \in Users :
    Settled(u, v) /\ ~Mutual(u, v) =>
      \/ "crossed" \in trouble[{u, v}]
      \/ "failed" \in trouble[{u, v}] /\ answer[{u, v}] = "failed"

\* Half a friendship does not last while clients only add: the missing row
\* is written by the handler that wrote the other one, or by the peer's.
HalfIsCompleted ==
  \A u, v \in Users : <<u, v>> \in friends ~> <<v, u>> \in friends
=============================================================================
