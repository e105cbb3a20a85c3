------------------------------- MODULE Presence -------------------------------
(***************************************************************************)
(* What the server promises about presence, without its threads, mutex and *)
(* list: sessions of users come and go, a reachable session may be told    *)
(* that a user is online only while another session of that user exists,   *)
(* and the last session of a user leaves only after everybody who was told *)
(* so has been told otherwise.  OnlineList implements it.                  *)
(***************************************************************************)
CONSTANTS
  Sessions,  \* possible sessions (CLIENT records)
  Uids,      \* registered user ids
  None       \* the user of a session that does not exist

VARIABLES
  user,   \* per session: its user, or None
  heard,  \* per session: the last notice about each user
  gone    \* sessions whose client can no longer be reached

vars == <<user, heard, gone>>

Nothing == [u \in Uids |-> "none"]

\* A session of u other than those in S.
Other(u, S) == \E r \in Sessions \ S : user[r] = u

Init ==
  /\ user = [s \in Sessions |-> None]
  /\ heard = [s \in Sessions |-> Nothing]
  /\ gone = {}

Join(s, u) ==
  /\ user[s] = None
  /\ user' = [user EXCEPT ![s] = u]
  /\ UNCHANGED <<heard, gone>>

Tell(p, u, notice) ==
  /\ user[p] # None
  /\ p \notin gone
  /\ notice = "online" => Other(u, {p})
  /\ heard' = [heard EXCEPT ![p] = [@ EXCEPT ![u] = notice]]
  /\ UNCHANGED <<user, gone>>

Leave(s) ==
  /\ user[s] # None
  /\ \A p \in Sessions \ (gone \cup {s}) :
       heard[p][user[s]] = "online" => Other(user[s], {s, p})
  /\ user' = [user EXCEPT ![s] = None]
  /\ heard' = [heard EXCEPT ![s] = Nothing]
  /\ gone' = gone \ {s}

Lose(s) ==
  /\ user[s] # None
  /\ gone' = gone \cup {s}
  /\ UNCHANGED <<user, heard>>

Next ==
  \E s \in Sessions :
    \/ \E u \in Uids : Join(s, u)
    \/ \E u \in Uids, notice \in {"online", "offline"} : Tell(s, u, notice)
    \/ Leave(s)
    \/ Lose(s)

Spec == Init /\ [][Next]_vars
=============================================================================
