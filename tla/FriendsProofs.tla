----------------------------- MODULE FriendsProofs -----------------------------
(***************************************************************************)
(* Proofs about Friends, for every set of users.  Two rows that disagree   *)
(* while nothing is done about them are explained by what happened since   *)
(* they last agreed: an insertion crossed a deletion, or a statement       *)
(* failed and the last answer said so.  Where clients only add and no      *)
(* statement fails nothing ever happens, so the two rows agree.            *)
(***************************************************************************)
EXTENDS Friends, TLAPS

\* A pair is determined by its members, in either order.
LEMMA PairFacts ==
  ASSUME NEW u \in Users, NEW v \in Users
  PROVE  /\ {u, v} \in Pairs
         /\ \A x, y \in Users :
              {x, y} = {u, v} => (x = u /\ y = v) \/ (x = v /\ y = u)
BY DEF Pairs

\* A reply to u is about no other pair.
LEMMA OneReply ==
  ASSUME TypeOK, NEW u \in Users, UNCHANGED answer \/ \E result : Reply(u, result)
  PROVE  \A p \in Pairs : p # {u, peer[u]} => answer'[p] = answer[p]
BY DEF TypeOK, Reply

\* A statement for u that fails adds to what went wrong with its pair, and to no
\* other; one that does not fail adds nothing.
LEMMA MoreTrouble ==
  ASSUME TypeOK, NEW u \in Users, peer[u] \in Users, UNCHANGED trouble \/ Fault(u)
  PROVE  /\ trouble' \in [Pairs -> SUBSET {"crossed", "failed"}]
         /\ \A p \in Pairs : p # {u, peer[u]} => trouble'[p] = trouble[p]
         /\ trouble[{u, peer[u]}] \subseteq trouble'[{u, peer[u]}]
         /\ "crossed" \in trouble'[{u, peer[u]}] => "crossed" \in trouble[{u, peer[u]}]
         /\ Fault(u) => "failed" \in trouble'[{u, peer[u]}]
<1> DEFINE p == {u, peer[u]}
<1>1. p \in Pairs
  BY PairFacts
<1>2. CASE UNCHANGED trouble /\ ~Fault(u)
  BY <1>2 DEF TypeOK
<1>3. CASE Fault(u)
  <2>1. trouble' = [trouble EXCEPT ![p] = trouble[p] \cup {"failed"}]
    BY <1>3 DEF Fault
  <2>2. trouble \in [Pairs -> SUBSET {"crossed", "failed"}]
    BY DEF TypeOK
  <2> HIDE DEF p
  <2>3. trouble'[p] = trouble[p] \cup {"failed"} /\ \A q \in Pairs : q # p => trouble'[q] = trouble[q]
    BY <1>1, <2>1, <2>2
  <2>4. trouble[p] \cup {"failed"} \in SUBSET {"crossed", "failed"}
    BY <1>1, <2>2
  <2>5. trouble' \in [Pairs -> SUBSET {"crossed", "failed"}]
    BY <2>1, <2>2, <2>4
  <2> QED
    BY <2>3, <2>5 DEF p
<1> QED
  BY <1>2, <1>3

\* A request that begins takes its handler from idle and names its peer; what it
\* does to the history is about its own pair.
LEMMA BeginFacts ==
  ASSUME TypeOK, NEW u \in Users, NEW v \in Users,
         NEW label \in PCs, NEW opposite \in {Inserts, DeleteSteps},
         Begin(u, v, label, opposite)
  PROVE  /\ pc[u] = "idle" /\ pc'[u] = label /\ peer'[u] = v
         /\ UNCHANGED <<friends, answer>>
         /\ \A w \in Users : w # u => pc'[w] = pc[w] /\ peer'[w] = peer[w]
         /\ trouble' \in [Pairs -> SUBSET {"crossed", "failed"}]
         /\ \A p \in Pairs : p # {u, v} => trouble'[p] = trouble[p]
         /\ ~(Settled(u, v) /\ Mutual(u, v)) => trouble[{u, v}] \subseteq trouble'[{u, v}]
         /\ "crossed" \in trouble'[{u, v}] \/ pc[v] \notin opposite \/ peer[v] # u
<1> DEFINE p == {u, v}
           kept == IF Settled(u, v) /\ Mutual(u, v) THEN {} ELSE trouble[p]
           crossing == {w \in {"crossed"} : pc[v] \in opposite /\ peer[v] = u}
<1>1. p \in Pairs
  BY PairFacts
<1>2. trouble' = [trouble EXCEPT ![p] = kept \cup crossing]
  BY DEF Begin
<1>3. trouble \in [Pairs -> SUBSET {"crossed", "failed"}]
  BY DEF TypeOK
<1>4. /\ kept \cup crossing \in SUBSET {"crossed", "failed"}
      /\ ~(Settled(u, v) /\ Mutual(u, v)) => trouble[p] \subseteq kept
      /\ "crossed" \in crossing \/ pc[v] \notin opposite \/ peer[v] # u
  BY <1>1, <1>3
<1> HIDE DEF p, kept, crossing
<1>5. /\ trouble'[p] = kept \cup crossing
      /\ \A q \in Pairs : q # p => trouble'[q] = trouble[q]
  BY <1>1, <1>2, <1>3
<1>6. trouble' \in [Pairs -> SUBSET {"crossed", "failed"}]
  BY <1>2, <1>3, <1>4
<1>7. /\ pc[u] = "idle" /\ pc'[u] = label /\ peer'[u] = v
      /\ UNCHANGED <<friends, answer>>
      /\ \A w \in Users : w # u => pc'[w] = pc[w] /\ peer'[w] = peer[w]
  BY DEF TypeOK, Begin, Goto
<1> QED
  BY <1>4, <1>5, <1>6, <1>7 DEF p

LEMMA TypeInit == Init => TypeOK
BY DEF Init, TypeOK, PCs, Inserts, DeleteSteps, Pairs

LEMMA TypeStep == TypeOK /\ [Next]_vars => TypeOK'
<1> SUFFICES ASSUME TypeOK, [Next]_vars
             PROVE  TypeOK'
  OBVIOUS
<1> USE DEF TypeOK, PCs, Inserts, DeleteSteps, Goto, Reply
<1>1. ASSUME NEW u \in Users, NEW v \in Users, BeFriend(u, v) \/ DeleteFriend(u, v)
      PROVE  TypeOK'
  <2> HIDE DEF TypeOK, PCs, Inserts, DeleteSteps
  <2>1. PICK label \in PCs, opposite \in {Inserts, DeleteSteps} :
          Begin(u, v, label, opposite)
    <3>1. {"insert1", "delete1"} \subseteq PCs
      BY DEF PCs, Inserts, DeleteSteps
    <3> QED
      BY <1>1, <3>1 DEF BeFriend, DeleteFriend
  <2>2. trouble' \in [Pairs -> SUBSET {"crossed", "failed"}]
    BY <2>1, BeginFacts
  <2> QED
    BY <2>1, <2>2 DEF Begin, TypeOK
<1>2. ASSUME NEW u \in Users, InsertFirst(u)
      PROVE  TypeOK'
  <2>1. peer[u] \in Users /\ <<u, peer[u]>> \in Users \X Users /\ <<peer[u], u>> \in Users \X Users
    BY <1>2 DEF InsertFirst
  <2>2. \A r \in {"ok", "failed"} :
          [answer EXCEPT ![{u, peer[u]}] = r] \in [Pairs -> {"none", "ok", "failed"}]
    OBVIOUS
  <2>3. friends' \subseteq Users \X Users
    BY <1>2, <2>1 DEF InsertFirst
  <2>4. answer' \in [Pairs -> {"none", "ok", "failed"}]
    BY <1>2, <2>2 DEF InsertFirst
  <2>5. pc' \in [Users -> PCs] /\ peer' = peer /\ \A w \in Users : w # u => pc'[w] = pc[w]
    BY <1>2 DEF InsertFirst
  <2>6. trouble' \in [Pairs -> SUBSET {"crossed", "failed"}]
    BY <1>2, <2>1, MoreTrouble DEF InsertFirst, Refused
  <2> QED
    BY <2>1, <2>3, <2>4, <2>5, <2>6
<1>3. ASSUME NEW u \in Users, InsertSecond(u)
      PROVE  TypeOK'
  <2>1. peer[u] \in Users /\ <<u, peer[u]>> \in Users \X Users /\ <<peer[u], u>> \in Users \X Users
    BY <1>3 DEF InsertSecond
  <2>2. \A r \in {"ok", "failed"} :
          [answer EXCEPT ![{u, peer[u]}] = r] \in [Pairs -> {"none", "ok", "failed"}]
    OBVIOUS
  <2>3. friends' \subseteq Users \X Users
    BY <1>3, <2>1 DEF InsertSecond
  <2>4. answer' \in [Pairs -> {"none", "ok", "failed"}]
    BY <1>3, <2>2 DEF InsertSecond
  <2>5. pc' \in [Users -> PCs] /\ peer' = peer /\ \A w \in Users : w # u => pc'[w] = pc[w]
    BY <1>3 DEF InsertSecond
  <2>6. trouble' \in [Pairs -> SUBSET {"crossed", "failed"}]
    BY <1>3, <2>1, MoreTrouble DEF InsertSecond, Refused
  <2> QED
    BY <2>1, <2>3, <2>4, <2>5, <2>6
<1>4. ASSUME NEW u \in Users, DeleteFirst(u)
      PROVE  TypeOK'
  <2>1. peer[u] \in Users /\ <<u, peer[u]>> \in Users \X Users /\ <<peer[u], u>> \in Users \X Users
    BY <1>4 DEF DeleteFirst
  <2>2. \A r \in {"ok", "failed"} :
          [answer EXCEPT ![{u, peer[u]}] = r] \in [Pairs -> {"none", "ok", "failed"}]
    OBVIOUS
  <2>3. friends' \subseteq Users \X Users
    BY <1>4, <2>1 DEF DeleteFirst
  <2>4. answer' \in [Pairs -> {"none", "ok", "failed"}]
    BY <1>4, <2>2 DEF DeleteFirst
  <2>5. pc' \in [Users -> PCs] /\ peer' = peer /\ \A w \in Users : w # u => pc'[w] = pc[w]
    BY <1>4 DEF DeleteFirst
  <2>6. trouble' \in [Pairs -> SUBSET {"crossed", "failed"}]
    BY <1>4, <2>1, MoreTrouble DEF DeleteFirst, Refused
  <2> QED
    BY <2>1, <2>3, <2>4, <2>5, <2>6
<1>5. ASSUME NEW u \in Users, DeleteSecond(u)
      PROVE  TypeOK'
  <2>1. peer[u] \in Users /\ <<u, peer[u]>> \in Users \X Users /\ <<peer[u], u>> \in Users \X Users
    BY <1>5 DEF DeleteSecond
  <2>2. \A r \in {"ok", "failed"} :
          [answer EXCEPT ![{u, peer[u]}] = r] \in [Pairs -> {"none", "ok", "failed"}]
    OBVIOUS
  <2>3. friends' \subseteq Users \X Users
    BY <1>5, <2>1 DEF DeleteSecond
  <2>4. answer' \in [Pairs -> {"none", "ok", "failed"}]
    BY <1>5, <2>2 DEF DeleteSecond
  <2>5. pc' \in [Users -> PCs] /\ peer' = peer /\ \A w \in Users : w # u => pc'[w] = pc[w]
    BY <1>5 DEF DeleteSecond
  <2>6. trouble' \in [Pairs -> SUBSET {"crossed", "failed"}]
    BY <1>5, <2>1, MoreTrouble DEF DeleteSecond, Refused
  <2> QED
    BY <2>1, <2>3, <2>4, <2>5, <2>6
<1>6. CASE UNCHANGED vars
  BY <1>6 DEF vars
<1> QED
  BY <1>1, <1>2, <1>3, <1>4, <1>5, <1>6 DEF Next, Step

\* The type invariant holds in every behaviour.
THEOREM TypeCorrect == Spec => []TypeOK
BY TypeInit, TypeStep, PTL DEF Spec

-----------------------------------------------------------------------------
\* A statement executed for u touches the rows and the answer of no other pair,
\* and moves no other handler.
LEMMA OwnPairOnly ==
  ASSUME TypeOK, NEW u \in Users, Step(u)
  PROVE  /\ pc[u] # "idle" /\ peer[u] \in Users
         /\ peer' = peer
         /\ \A w \in Users : w # u => pc'[w] = pc[w]
         /\ \A x, y \in Users :
              {x, y} # {u, peer[u]} =>
                /\ <<x, y>> \in friends' <=> <<x, y>> \in friends
                /\ answer'[{x, y}] = answer[{x, y}]
                /\ trouble'[{x, y}] = trouble[{x, y}]
<1> USE DEF TypeOK, PCs, Inserts, DeleteSteps, Goto
<1>1. pc[u] # "idle"
  BY DEF Step, InsertFirst, InsertSecond, DeleteFirst, DeleteSecond
<1>2. peer[u] \in Users
  BY <1>1
<1>3. peer' = peer /\ \A w \in Users : w # u => pc'[w] = pc[w]
  BY DEF Step, InsertFirst, InsertSecond, DeleteFirst, DeleteSecond
<1>4. \A row : (row # <<u, peer[u]>> /\ row # <<peer[u], u>>)
               => (row \in friends' <=> row \in friends)
  BY DEF Step, InsertFirst, InsertSecond, DeleteFirst, DeleteSecond
<1>5. UNCHANGED answer \/ \E result : Reply(u, result)
  BY DEF Step, InsertFirst, InsertSecond, DeleteFirst, DeleteSecond
<1>6. \A p \in Pairs : p # {u, peer[u]} => answer'[p] = answer[p]
  BY <1>5, OneReply
<1>7. \A p \in Pairs : p # {u, peer[u]} => trouble'[p] = trouble[p]
  <2>1. UNCHANGED trouble \/ Fault(u)
    BY DEF Step, InsertFirst, InsertSecond, DeleteFirst, DeleteSecond, Refused
  <2> QED
    BY <1>2, <2>1, MoreTrouble
<1>8. ASSUME NEW x \in Users, NEW y \in Users, {x, y} # {u, peer[u]}
      PROVE  /\ <<x, y>> \in friends' <=> <<x, y>> \in friends
             /\ answer'[{x, y}] = answer[{x, y}]
             /\ trouble'[{x, y}] = trouble[{x, y}]
  <2>1. <<x, y>> # <<u, peer[u]>> /\ <<x, y>> # <<peer[u], u>>
    BY <1>8
  <2>2. {x, y} \in Pairs
    BY PairFacts
  <2> QED
    BY <2>1, <2>2, <1>4, <1>6, <1>7, <1>8
<1> QED
  BY <1>1, <1>2, <1>3, <1>8

\* While no insertion of u and v crossed a deletion: their handlers insert or
\* delete together, the first statement of either has done its work, and a row
\* without its mirror image has a handler that is about to change that, or is
\* what a failed statement has left.
PairInv(u, v) ==
  "crossed" \notin trouble[{u, v}] =>
    /\ Serving(u, v) /\ Serving(v, u) => (pc[u] \in Inserts <=> pc[v] \in Inserts)
    /\ pc[u] = "insert2" /\ peer[u] = v => <<u, v>> \in friends
    /\ pc[u] = "delete2" /\ peer[u] = v => <<u, v>> \notin friends
    /\ <<u, v>> \in friends /\ <<v, u>> \notin friends =>
         \/ pc[u] = "insert2" /\ peer[u] = v
         \/ pc[v] = "delete2" /\ peer[v] = u
         \/ "failed" \in trouble[{u, v}] /\ answer[{u, v}] = "failed"

ExplainedInv == \A u, v \in Users : PairInv(u, v)

\* A pair is looked at from both of its ends.
LEMMA BothEnds ==
  ASSUME NEW u \in Users, NEW v \in Users, PairInv(u, v)', PairInv(v, u)',
         NEW x \in Users, NEW y \in Users, {x, y} = {u, v}
  PROVE  PairInv(x, y)'
BY PairFacts

\* A pair about which nothing has changed.
LEMMA PairFrame ==
  ASSUME NEW x \in Users, NEW y \in Users, PairInv(x, y),
         <<x, y>> \in friends' <=> <<x, y>> \in friends,
         <<y, x>> \in friends' <=> <<y, x>> \in friends,
         answer'[{x, y}] = answer[{x, y}], trouble'[{x, y}] = trouble[{x, y}],
         Serving(x, y)' <=> Serving(x, y), Serving(x, y) => pc'[x] = pc[x],
         Serving(y, x)' <=> Serving(y, x), Serving(y, x) => pc'[y] = pc[y]
  PROVE  PairInv(x, y)'
BY DEF PairInv, Serving

LEMMA BeginStep ==
  ASSUME TypeOK, ExplainedInv, NEW u \in Users, NEW v \in Users,
         BeFriend(u, v) \/ DeleteFriend(u, v)
  PROVE  ExplainedInv'
<1>1. PICK label \in {"insert1", "delete1"}, opposite \in {Inserts, DeleteSteps} :
        /\ Begin(u, v, label, opposite)
        /\ label \in Inserts <=> opposite = DeleteSteps
  BY DEF BeFriend, DeleteFriend, Inserts, DeleteSteps
<1>2. label \in PCs
  BY <1>1 DEF PCs, Inserts, DeleteSteps
<1>3. /\ pc[u] = "idle" /\ pc'[u] = label /\ peer'[u] = v
      /\ UNCHANGED <<friends, answer>>
      /\ \A w \in Users : w # u => pc'[w] = pc[w] /\ peer'[w] = peer[w]
      /\ ~(Settled(u, v) /\ Mutual(u, v)) => trouble[{u, v}] \subseteq trouble'[{u, v}]
      /\ "crossed" \in trouble'[{u, v}] \/ pc[v] \notin opposite \/ peer[v] # u
      /\ \A p \in Pairs : p # {u, v} => trouble'[p] = trouble[p]
  BY <1>1, <1>2, BeginFacts
<1>4. PairInv(u, v) /\ PairInv(v, u) /\ {v, u} = {u, v}
  BY DEF ExplainedInv
<1>5. pc[v] \in PCs /\ (u # v => pc'[v] = pc[v] /\ peer'[v] = peer[v])
  BY <1>3 DEF TypeOK
<1>6. PairInv(u, v)' /\ PairInv(v, u)'
  <2> USE DEF PCs, Inserts, DeleteSteps
  <2>1. CASE Settled(u, v) /\ Mutual(u, v)
    BY <1>1, <1>3, <1>4, <1>5, <2>1 DEF PairInv, Serving, Settled, Mutual
  <2>2. CASE ~(Settled(u, v) /\ Mutual(u, v))
    <3>1. trouble[{u, v}] \subseteq trouble'[{u, v}]
      BY <1>3, <2>2
    <3>2. CASE "crossed" \in trouble'[{u, v}]
      BY <1>4, <3>2 DEF PairInv
    <3>3. CASE "crossed" \notin trouble'[{u, v}]
      BY <1>1, <1>3, <1>4, <1>5, <3>1, <3>3 DEF PairInv, Serving
    <3> QED
      BY <3>2, <3>3
  <2> QED
    BY <2>1, <2>2
<1>7. ASSUME NEW x \in Users, NEW y \in Users, {x, y} # {u, v}
      PROVE  PairInv(x, y)'
  <2>1. ~(x = u /\ y = v) /\ ~(x = v /\ y = u) /\ {x, y} \in Pairs
    BY <1>7, PairFacts
  <2>2. /\ Serving(x, y)' <=> Serving(x, y)
        /\ Serving(x, y) => pc'[x] = pc[x]
        /\ Serving(y, x)' <=> Serving(y, x)
        /\ Serving(y, x) => pc'[y] = pc[y]
    BY <1>3, <2>1 DEF Serving
  <2>3. PairInv(x, y)
    BY DEF ExplainedInv
  <2> QED
    BY <1>3, <1>7, <2>1, <2>2, <2>3, PairFrame
<1> QED
  BY <1>6, <1>7, BothEnds DEF ExplainedInv

\* A statement executed for u, looked at from both ends of its pair.
LEMMA StatementStep ==
  ASSUME TypeOK, ExplainedInv, NEW u \in Users, Step(u)
  PROVE  PairInv(u, peer[u])' /\ PairInv(peer[u], u)'
<1> DEFINE v == peer[u]
<1>1. /\ pc[u] # "idle" /\ v \in Users /\ peer' = peer
      /\ \A w \in Users : w # u => pc'[w] = pc[w]
  BY OwnPairOnly
<1>2. PairInv(u, v) /\ PairInv(v, u) /\ {v, u} = {u, v} /\ {u, v} \in Pairs
  BY <1>1, PairFacts DEF ExplainedInv
<1>3. pc[v] \in PCs /\ pc[u] \in PCs /\ peer[v] \in Users \cup {None}
  BY <1>1 DEF TypeOK
<1>4. /\ trouble[{u, v}] \subseteq trouble'[{u, v}]
      /\ "crossed" \in trouble'[{u, v}] => "crossed" \in trouble[{u, v}]
      /\ Fault(u) => "failed" \in trouble'[{u, v}]
  <2>1. UNCHANGED trouble \/ Fault(u)
    BY DEF Step, InsertFirst, InsertSecond, DeleteFirst, DeleteSecond, Refused
  <2> QED
    BY <1>1, <2>1, MoreTrouble
<1>5. CASE "crossed" \in trouble'[{u, v}]
  BY <1>1, <1>2, <1>5 DEF PairInv
<1>6. CASE "crossed" \notin trouble'[{u, v}]
  <2>1. "crossed" \notin trouble[{u, v}]
    BY <1>4, <1>6
  <2>2. \A r : Reply(u, r) => answer'[{u, v}] = r
    BY <1>2 DEF Reply, TypeOK
  <2>3. /\ pc \in [Users -> PCs]
        /\ \A label : Goto(u, label) => pc'[u] = label
    BY DEF TypeOK, Goto
  <2> USE DEF PCs, Inserts, DeleteSteps, Refused, Serving, PairInv
  <2>4. CASE InsertFirst(u)
    BY <1>1, <1>2, <1>3, <1>4, <2>1, <2>2, <2>3, <2>4 DEF InsertFirst
  <2>5. CASE InsertSecond(u)
    BY <1>1, <1>2, <1>3, <1>4, <2>1, <2>2, <2>3, <2>5 DEF InsertSecond
  <2>6. CASE DeleteFirst(u)
    BY <1>1, <1>2, <1>3, <1>4, <2>1, <2>2, <2>3, <2>6 DEF DeleteFirst
  <2>7. CASE DeleteSecond(u)
    BY <1>1, <1>2, <1>3, <1>4, <2>1, <2>2, <2>3, <2>7 DEF DeleteSecond
  <2> QED
    BY <2>4, <2>5, <2>6, <2>7 DEF Step
<1> QED
  BY <1>5, <1>6

LEMMA ExplainedStep == TypeOK /\ ExplainedInv /\ [Next]_vars => ExplainedInv'
<1> SUFFICES ASSUME TypeOK, ExplainedInv, [Next]_vars
             PROVE  ExplainedInv'
  OBVIOUS
<1>1. ASSUME NEW u \in Users, NEW v \in Users, BeFriend(u, v) \/ DeleteFriend(u, v)
      PROVE  ExplainedInv'
  BY <1>1, BeginStep
<1>2. ASSUME NEW u \in Users, Step(u)
      PROVE  ExplainedInv'
  <2> DEFINE v == peer[u]
  <2>1. /\ pc[u] # "idle" /\ v \in Users /\ peer' = peer
        /\ \A w \in Users : w # u => pc'[w] = pc[w]
    BY <1>2, OwnPairOnly
  <2>2. ASSUME NEW x \in Users, NEW y \in Users, {x, y} # {u, v}
        PROVE  PairInv(x, y)'
    <3>1. ~(x = u /\ y = v) /\ ~(x = v /\ y = u) /\ {y, x} = {x, y}
      BY <2>2
    <3>2. /\ <<x, y>> \in friends' <=> <<x, y>> \in friends
          /\ <<y, x>> \in friends' <=> <<y, x>> \in friends
          /\ answer'[{x, y}] = answer[{x, y}]
          /\ trouble'[{x, y}] = trouble[{x, y}]
      BY <1>2, <2>2, <3>1, OwnPairOnly
    <3>3. /\ Serving(x, y)' <=> Serving(x, y)
          /\ Serving(x, y) => pc'[x] = pc[x]
          /\ Serving(y, x)' <=> Serving(y, x)
          /\ Serving(y, x) => pc'[y] = pc[y]
      BY <2>1, <3>1 DEF Serving
    <3>4. PairInv(x, y)
      BY DEF ExplainedInv
    <3> QED
      BY <3>2, <3>3, <3>4, PairFrame
  <2>3. PairInv(u, v)' /\ PairInv(v, u)'
    BY <1>2, StatementStep
  <2> QED
    BY <2>1, <2>2, <2>3, BothEnds DEF ExplainedInv
<1>3. CASE UNCHANGED vars
  <2>1. \A u, v \in Users : PairInv(u, v)' <=> PairInv(u, v)
    BY <1>3 DEF vars, PairInv, Serving
  <2> QED
    BY <2>1 DEF ExplainedInv
<1> QED
  BY <1>1, <1>2, <1>3 DEF Next

\* Whatever crosses and whatever fails, half a friendship is explained by an
\* insertion that crossed a deletion, or by a failed statement that the last
\* answer owned up to.
THEOREM HalvesAreExplained == Spec => []HalfIsExplained
<1>1. Init => ExplainedInv
  BY DEF Init, ExplainedInv, PairInv, Serving
<1>2. ExplainedInv => HalfIsExplained
  <2> SUFFICES ASSUME ExplainedInv, NEW u \in Users, NEW v \in Users,
                      Settled(u, v), ~Mutual(u, v)
               PROVE  \/ "crossed" \in trouble[{u, v}]
                      \/ "failed" \in trouble[{u, v}] /\ answer[{u, v}] = "failed"
    BY DEF HalfIsExplained
  <2>1. PairInv(u, v) /\ PairInv(v, u) /\ {v, u} = {u, v}
    BY DEF ExplainedInv
  <2> QED
    BY <2>1 DEF PairInv, Settled, Serving, Mutual
<1> QED
  BY <1>1, <1>2, TypeInit, TypeStep, ExplainedStep, PTL DEF Spec

-----------------------------------------------------------------------------
\* Nobody deletes and nothing has gone wrong.
NoTrouble ==
  /\ \A u \in Users : pc[u] \notin DeleteSteps
  /\ \A p \in Pairs : trouble[p] = {}

\* While clients only add and no statement fails, both agree on whether they
\* are friends whenever no request about them is being served: nothing could
\* explain that they do not.
THEOREM SymmetricWithoutDeletes ==
  ASSUME Deletes = FALSE, Faults = FALSE
  PROVE  Spec => []Symmetric
<1> DEFINE Inv == TypeOK /\ NoTrouble
<1>1. Init => Inv
  BY TypeInit DEF Init, NoTrouble, DeleteSteps
<1>2. Inv /\ [Next]_vars => Inv'
  <2> SUFFICES ASSUME TypeOK, NoTrouble, [Next]_vars
               PROVE  NoTrouble'
    BY TypeStep
  <2>1. ASSUME NEW u \in Users, NEW v \in Users, BeFriend(u, v)
        PROVE  NoTrouble'
    <3>1. {u, v} \in Pairs /\ pc[v] \notin DeleteSteps
      BY PairFacts DEF NoTrouble
    <3>2. \A p \in Pairs : trouble'[p] = {}
      BY <2>1, <3>1 DEF BeFriend, Begin, NoTrouble, TypeOK
    <3> QED
      BY <2>1, <3>2 DEF BeFriend, Begin, NoTrouble, TypeOK, Goto, DeleteSteps
  <2>2. ASSUME NEW u \in Users, InsertFirst(u) \/ InsertSecond(u)
        PROVE  NoTrouble'
    BY <2>2 DEF InsertFirst, InsertSecond, Refused, Fault, Goto, NoTrouble, TypeOK, DeleteSteps
  <2>3. CASE UNCHANGED vars
    BY <2>3 DEF vars, NoTrouble
  <2> QED
    BY <2>1, <2>2, <2>3
       DEF Next, Step, DeleteFriend, DeleteFirst, DeleteSecond, NoTrouble, DeleteSteps
<1>3. Inv /\ HalfIsExplained => Symmetric
  <2> SUFFICES ASSUME NoTrouble, HalfIsExplained, NEW u \in Users, NEW v \in Users,
                      Settled(u, v), ~Mutual(u, v)
               PROVE  FALSE
    BY DEF Symmetric
  <2>1. trouble[{u, v}] = {}
    BY PairFacts DEF NoTrouble
  <2> QED
    BY <2>1 DEF HalfIsExplained
<1> QED
  BY <1>1, <1>2, <1>3, HalvesAreExplained, PTL DEF Spec
=============================================================================
