----------------------------- MODULE SessionProofs -----------------------------
(***************************************************************************)
(* Proofs about Session, for any bound on packets, whatever crosses and    *)
(* whatever fails: there are never more answers to come than threads that  *)
(* wait for one, the two chains are in step whenever nothing is going on,  *)
(* once they part they never meet, and nobody is given up who is there     *)
(* unless they have parted or packets arrived on both connections at once. *)
(***************************************************************************)
EXTENDS Session, FiniteSetTheorems, TLAPS

\* The receiver counts down the names it has to query, and never below one.
TypeInv ==
  /\ TypeOK
  /\ receiver \in {"query", "name"} => names # 0

Is(p, tag, kind) == p.tag = tag /\ p.kind = kind

-----------------------------------------------------------------------------
\* Channels.

LEMMA EmptyFacts ==
  ASSUME NEW q \in Seq(Packet)
  PROVE  /\ Len(q) \in Nat
         /\ q = <<>> <=> Len(q) = 0
OBVIOUS

LEMMA AppendFacts ==
  ASSUME NEW q \in Seq(Packet), NEW p \in Packet
  PROVE  /\ Append(q, p) \in Seq(Packet)
         /\ Len(Append(q, p)) = Len(q) + 1
         /\ Len(q) = 0 => Append(q, p)[1] = p
         /\ Len(q) = 1 => Append(q, p)[1] = q[1] /\ Append(q, p)[2] = p
OBVIOUS

LEMMA TailFacts ==
  ASSUME NEW q \in Seq(Packet), q # <<>>
  PROVE  /\ Len(q) \in Nat /\ Len(q) > 0
         /\ q[1] \in Packet /\ Head(q) = q[1]
         /\ Tail(q) \in Seq(Packet)
         /\ Len(Tail(q)) = Len(q) - 1
         /\ Len(q) = 2 => Tail(q)[1] = q[2]
OBVIOUS

\* A write at the client, and one at the server.
LEMMA ClientWritesFacts ==
  ASSUME TypeOK, NEW kind \in Kinds \cup {"name"}, NEW tag \in {"request", "body"},
         ClientWrites(tag, kind)
  PROVE  /\ g_IV' \in Nat /\ written' \in Nat /\ requests' \in Seq(Packet)
         /\ Len(requests') = Len(requests) + 1
         /\ Len(requests) = 0 => /\ Is(requests'[1], tag, kind)
                                 /\ requests'[1].under = g_IV
                                 /\ requests'[1].last = g_IV'
         /\ Len(requests) = 1 => /\ requests'[1] = requests[1]
                                 /\ Is(requests'[2], tag, kind)
                                 /\ requests'[2].under = g_IV
                                 /\ requests'[2].last = g_IV'
<1> DEFINE p == Encrypted(tag, kind, TRUE, g_IV)
<1>1. /\ p \in Packet /\ Is(p, tag, kind) /\ p.under = g_IV /\ p.last = written + 1
  BY DEF TypeOK, Encrypted, Packet, IVs, Is
<1>2. requests \in Seq(Packet) /\ written \in Nat
  BY DEF TypeOK
<1>3. requests' = Append(requests, p) /\ written' = written + 1 /\ g_IV' = written + 1
  BY DEF ClientWrites
<1> HIDE DEF p
<1> QED
  BY <1>1, <1>2, <1>3, AppendFacts

LEMMA AnswersFacts ==
  ASSUME TypeOK, NEW kind \in Kinds \cup {"name"}, NEW tag \in {"answer", "list"},
         NEW ok \in BOOLEAN, ServerWrites(answers, tag, kind, ok)
  PROVE  /\ iv' \in Nat /\ written' \in Nat /\ answers' \in Seq(Packet)
         /\ Len(answers') = Len(answers) + 1
         /\ Len(answers) = 0 => /\ Is(answers'[1], tag, kind) /\ answers'[1].ok = ok
                                /\ answers'[1].under = iv /\ answers'[1].last = iv'
         /\ Len(answers) = 1 => /\ answers'[1] = answers[1]
                                /\ Is(answers'[2], tag, kind)
                                /\ answers'[2].under = iv /\ answers'[2].last = iv'
<1> DEFINE p == Encrypted(tag, kind, ok, iv)
<1>1. /\ p \in Packet /\ Is(p, tag, kind) /\ p.under = iv /\ p.last = written + 1
      /\ p.ok = ok
  BY DEF TypeOK, Encrypted, Packet, IVs, Is
<1>2. answers \in Seq(Packet) /\ written \in Nat
  BY DEF TypeOK
<1>3. answers' = Append(answers, p) /\ written' = written + 1 /\ iv' = written + 1
  BY DEF ServerWrites
<1> HIDE DEF p
<1> QED
  BY <1>1, <1>2, <1>3, AppendFacts

LEMMA PushesFacts ==
  ASSUME TypeOK, NEW tag \in {"push", "payload"},
         NEW ok \in BOOLEAN, ServerWrites(pushes, tag, "plain", ok)
  PROVE  /\ iv' \in Nat /\ written' \in Nat /\ pushes' \in Seq(Packet)
         /\ Len(pushes') = Len(pushes) + 1
         /\ Len(pushes) = 0 => /\ pushes'[1].ok = ok
                               /\ pushes'[1].under = iv /\ pushes'[1].last = iv'
         /\ Len(pushes) = 1 => /\ pushes'[1] = pushes[1]
                               /\ pushes'[2].under = iv /\ pushes'[2].last = iv'
<1> DEFINE p == Encrypted(tag, "plain", ok, iv)
<1>1. /\ p \in Packet /\ p.under = iv /\ p.last = written + 1 /\ p.ok = ok
  BY DEF TypeOK, Encrypted, Packet, IVs, Kinds
<1>2. pushes \in Seq(Packet) /\ written \in Nat
  BY DEF TypeOK
<1>3. pushes' = Append(pushes, p) /\ written' = written + 1 /\ iv' = written + 1
  BY DEF ServerWrites
<1> HIDE DEF p
<1> QED
  BY <1>1, <1>2, <1>3, AppendFacts

\* What is read from a channel: the first packet, and its last block is a
\* number of the chain.
LEMMA ReadFacts ==
  ASSUME NEW q \in Seq(Packet), NEW v, Readable(q, v)
  PROVE  /\ Len(q) \in Nat /\ Len(q) > 0
         /\ Head(q) = q[1] /\ Head(q).under = v
         /\ Head(q).last \in Nat /\ Head(q).kind \in Kinds \cup {"name"}
         /\ Head(q).ok \in BOOLEAN
         /\ Tail(q) \in Seq(Packet)
         /\ Len(Tail(q)) = Len(q) - 1
         /\ Len(q) = 2 => Tail(q)[1] = q[2]
<1>1. q # <<>> /\ Head(q).under = v
  BY DEF Readable, Arrived
<1>2. q[1].last \in Nat /\ q[1].kind \in Kinds \cup {"name"} /\ q[1].ok \in BOOLEAN
  BY <1>1, TailFacts DEF Packet
<1> QED
  BY <1>1, <1>2, TailFacts

-----------------------------------------------------------------------------
\* Types, whatever crosses and whatever fails.

LEMMA InitType == Init => TypeInv
<1> SUFFICES ASSUME Init PROVE TypeInv
  OBVIOUS
<1>1. <<>> \in Seq(Packet)
  OBVIOUS
<1>2. serving \in [kind : Kinds \cup {"name"}, ok : BOOLEAN] /\ asked \in Kinds
  BY DEF Init, Kinds
<1>3. /\ requests \in Seq(Packet) /\ answers \in Seq(Packet) /\ pushes \in Seq(Packet)
      /\ lost \in BOOLEAN
  BY <1>1 DEF Init
<1>4. /\ g_IV \in Nat /\ iv \in Nat /\ written \in Nat /\ names \in 0..2
      /\ gtk = "idle" /\ receiver = "header" /\ handler = "read" /\ pusher = "idle"
      /\ gone = {}
  BY DEF Init
<1> QED
  BY <1>2, <1>3, <1>4 DEF TypeOK, TypeInv

LEMMA TypeStep ==
  ASSUME TypeInv, [Next]_vars PROVE TypeInv'
<1>1. ASSUME NEW kind \in Kinds, Ask(kind) PROVE TypeInv'
  BY <1>1, ClientWritesFacts DEF Ask, TypeInv, TypeOK, server
<1>2. ASSUME NEW more \in BOOLEAN, Push(more) PROVE TypeInv'
  BY <1>2, PushesFacts DEF Push, TypeInv, TypeOK, client
<1>3. CASE Exit
  BY <1>3 DEF Exit, TypeInv, TypeOK, client, server
<1>4. CASE AskBody
  BY <1>4, ClientWritesFacts DEF AskBody, TypeInv, TypeOK, server
<1>5. CASE ReadAnswer
  BY <1>5, ReadFacts DEF ReadAnswer, TypeInv, TypeOK, server
<1>6. CASE ReadList
  BY <1>6, ReadFacts DEF ReadList, TypeInv, TypeOK, server
<1>7. CASE ReadNull
  BY <1>7 DEF ReadNull, ClientGetsNull, TypeInv, TypeOK, server
<1>8. CASE ReadPush
  BY <1>8, ReadFacts DEF ReadPush, TypeInv, TypeOK, server
<1>9. CASE ReadPayload
  BY <1>9, ReadFacts DEF ReadPayload, TypeInv, TypeOK, server
<1>10. CASE QueryUserName
  BY <1>10, ClientWritesFacts DEF QueryUserName, TypeInv, TypeOK, server
<1>11. CASE ReadName
  BY <1>11, ReadFacts DEF ReadName, TypeInv, TypeOK, server
<1>12. CASE ReceiverEnds
  BY <1>12 DEF ReceiverEnds, ClientGetsNull, TypeInv, TypeOK, client, server
<1>13. CASE ReadRequest
  <2>1. /\ iv' \in Nat /\ requests' \in Seq(Packet)
        /\ Head(requests).kind \in Kinds \cup {"name"}
    BY <1>13, ReadFacts DEF ReadRequest, TypeInv, TypeOK
  <2>2. /\ handler' \in {"read", "body", "answer", "list"}
        /\ serving' \in [kind : Kinds \cup {"name"}, ok : BOOLEAN]
    <3> DEFINE kind == Head(requests).kind
    <3>1. CASE UNCHANGED <<handler, serving>>
      BY <3>1 DEF TypeInv, TypeOK
    <3>2. CASE serving' = [kind |-> "body", ok |-> TRUE] /\ handler' = "body"
      BY <3>2 DEF Kinds
    <3>3. CASE serving' = [kind |-> "body", ok |-> FALSE] /\ handler' = "answer"
      BY <3>3 DEF Kinds
    <3>4. CASE /\ \E ok \in BOOLEAN : serving' = [kind |-> kind, ok |-> ok]
               /\ handler' = "answer"
      BY <2>1, <3>4
    <3> QED
      BY <1>13, <3>1, <3>2, <3>3, <3>4 DEF ReadRequest
  <2> QED
    BY <1>13, <2>1, <2>2 DEF ReadRequest, TypeInv, TypeOK, client
<1>14. CASE ReadBody
  BY <1>14, ReadFacts DEF ReadBody, TypeInv, TypeOK, client
<1>15. CASE Answer
  BY <1>15, AnswersFacts DEF Answer, TypeInv, TypeOK, client
<1>16. CASE AnswerList
  BY <1>16, AnswersFacts DEF AnswerList, TypeInv, TypeOK, client
<1>17. CASE HandlerEnds
  BY <1>17 DEF HandlerEnds, TypeInv, TypeOK, client, server
<1>18. CASE PushPayload
  BY <1>18, PushesFacts DEF PushPayload, TypeInv, TypeOK, client
<1>19. CASE UNCHANGED vars
  BY <1>19 DEF vars, TypeInv, TypeOK, client, server
<1> QED
  BY <1>1, <1>2, <1>3, <1>4, <1>5, <1>6, <1>7, <1>8, <1>9, <1>10, <1>11, <1>12,
     <1>13, <1>14, <1>15, <1>16, <1>17, <1>18, <1>19
     DEF Next, GtkStep, ReceiverStep, HandlerStep, PusherStep

\* Every variable of a session stays within its type, whatever crosses and
\* whatever fails: for all constants.
THEOREM TypeCorrect == Spec => []TypeOK
<1>1. Init => TypeInv
  BY InitType
<1>2. TypeInv /\ [Next]_vars => TypeInv'
  BY TypeStep
<1>3. TypeInv => TypeOK
  BY DEF TypeInv
<1> QED
  BY <1>1, <1>2, <1>3, PTL DEF Spec

-----------------------------------------------------------------------------
\* Whatever crosses and whatever fails: the inductive invariant.
\*
\* An end can read what the other has written only while it has written nothing
\* itself since, and has refused nothing.  So the packets under way all go one way,
\* or the two chains have parted, and then nobody reads anything any more.

\* No number is newer than a channel's newest; the packets of a channel are in the
\* order they were written.
NumbersOf(q, newest) == \A n \in 1 .. Len(q) : q[n].under < q[n].last /\ q[n].last <= newest
Ordered(q)           == \A m, n \in 1 .. Len(q) : m < n => q[m].last <= q[n].under

NumberInv ==
  /\ NumbersOf(requests, g_IV) /\ NumbersOf(answers, iv) /\ NumbersOf(pushes, iv)
  /\ Ordered(requests) /\ Ordered(answers) /\ Ordered(pushes)

\* Whatever was refused: nothing is newer than the last packet, and no end writes
\* under the length block of a packet of its own.
BoundInv ==
  /\ g_IV <= written /\ iv <= written
  /\ NumbersOf(requests, written) /\ NumbersOf(answers, written) /\ NumbersOf(pushes, written)
  /\ NoneUnder(requests, InsideRequest)
  /\ NoneUnder(answers, InsideReply) /\ NoneUnder(pushes, InsideReply)

\* All of a channel was written since; no packet of one was written between the
\* two ends of a packet of the other.
Since(q, v) == \A n \in 1 .. Len(q) : v <= q[n].under
Disjoint(q, r) ==
  \A m \in 1 .. Len(q), n \in 1 .. Len(r) : q[m].last <= r[n].under \/ r[n].last <= q[m].under

\* The client has written last, or the server.
ClientAhead ==
  /\ answers = <<>> /\ pushes = <<>>
  /\ requests # <<>> /\ requests[Len(requests)].last = g_IV /\ iv < g_IV

ServerAhead ==
  /\ requests = <<>> /\ g_IV <= iv
  /\ Since(answers, g_IV) /\ Since(pushes, g_IV) /\ Disjoint(answers, pushes)

\* What has been answered is the last request that was read.
IsAnswer(p) == p.tag = "answer" /\ p.kind # "silent"

AnswerShape ==
  \/ answers = <<>>
  \/ Len(answers) = 1 /\ IsAnswer(answers[1]) /\ handler \in {"read", "list"}
  \/ Len(answers) = 1 /\ answers[1].tag = "list" /\ handler = "read"
  \/ Len(answers) = 2 /\ IsAnswer(answers[1]) /\ answers[2].tag = "list" /\ handler = "read"

Alive == NumberInv /\ (ClientAhead \/ ServerAhead) /\ AnswerShape

CrossInv ==
  /\ TypeInv /\ BoundInv /\ (Apart \/ Alive)
  /\ handler \in {"body", "answer"} => serving.kind # "silent"

-----------------------------------------------------------------------------
\* Channels of any length.

LEMMA PacketNumbers ==
  ASSUME NEW q \in Seq(Packet), NEW n \in 1 .. Len(q)
  PROVE  q[n].under \in Int /\ q[n].last \in Nat
  <1>1. q[n] \in Packet
    OBVIOUS
  <1> QED
    BY <1>1 DEF Packet, IVs, InsideReply, InsideRequest

LEMMA Appended ==
  ASSUME NEW q \in Seq(Packet), NEW p \in Packet
  PROVE  /\ Append(q, p) \in Seq(Packet) /\ Append(q, p) # <<>>
         /\ Len(q) \in Nat /\ Len(Append(q, p)) = Len(q) + 1 /\ Append(q, p)[Len(q) + 1] = p
         /\ \A n \in 1 .. Len(q) : Append(q, p)[n] = q[n]
         /\ \A n \in 1 .. Len(Append(q, p)) : n \in 1 .. Len(q) \/ n = Len(q) + 1
  <1>1. Append(q, p) \in Seq(Packet) /\ Len(q) \in Nat /\ Len(Append(q, p)) = Len(q) + 1
    OBVIOUS
  <1>2. Append(q, p)[Len(q) + 1] = p /\ \A n \in 1 .. Len(q) : Append(q, p)[n] = q[n]
    OBVIOUS
  <1>3. Append(q, p) # <<>> /\ \A n \in 1 .. Len(Append(q, p)) : n \in 1 .. Len(q) \/ n = Len(q) + 1
    BY <1>1
  <1> QED
    BY <1>1, <1>2, <1>3

LEMMA Tailed ==
  ASSUME NEW q \in Seq(Packet), q # <<>>
  PROVE  /\ Tail(q) \in Seq(Packet) /\ Head(q) = q[1] /\ 1 \in 1 .. Len(q)
         /\ Len(q) \in Nat /\ Len(q) > 0 /\ Len(Tail(q)) = Len(q) - 1
         /\ \A n \in 1 .. Len(Tail(q)) : Tail(q)[n] = q[n + 1] /\ n + 1 \in 1 .. Len(q)
  OBVIOUS

\* A packet is written.
LEMMA WrittenTo ==
  ASSUME NEW q \in Seq(Packet), NEW p \in Packet, NEW v \in Int, NumbersOf(q, v),
         p.under <= v, p.under < p.last, v < p.last
  PROVE  /\ NumbersOf(Append(q, p), p.last)
         /\ Ordered(q) /\ p.under = v => Ordered(Append(q, p))
  <1> DEFINE longer == Append(q, p)
  <1>1. /\ Len(q) \in Nat /\ Len(longer) = Len(q) + 1 /\ longer[Len(q) + 1] = p
        /\ \A n \in 1 .. Len(q) : longer[n] = q[n]
        /\ \A n \in 1 .. Len(longer) : n \in 1 .. Len(q) \/ n = Len(q) + 1
    BY Appended
  <1>2. p.under \in Int /\ p.last \in Nat
    BY DEF Packet, IVs, InsideReply, InsideRequest
  <1> HIDE DEF longer
  <1>3. NumbersOf(longer, p.last)
    <2> SUFFICES ASSUME NEW n \in 1 .. Len(longer)
                 PROVE  longer[n].under < longer[n].last /\ longer[n].last <= p.last
      BY DEF NumbersOf
    <2>1. CASE n = Len(q) + 1
      BY <1>1, <1>2, <2>1
    <2>2. CASE n \in 1 .. Len(q)
      <3>1. q[n].under < q[n].last /\ q[n].last <= v /\ q[n].last \in Nat
        BY <2>2, PacketNumbers DEF NumbersOf
      <3>2. q[n].last <= p.last
        BY <1>2, <3>1
      <3> QED
        BY <1>1, <2>2, <3>1, <3>2
    <2> QED
      BY <1>1, <2>1, <2>2
  <1>4. ASSUME Ordered(q), p.under = v
        PROVE  Ordered(longer)
    <2> SUFFICES ASSUME NEW m \in 1 .. Len(longer), NEW n \in 1 .. Len(longer), m < n
                 PROVE  longer[m].last <= longer[n].under
      BY DEF Ordered
    <2>1. m \in 1 .. Len(q)
      BY <1>1
    <2>2. CASE n = Len(q) + 1
      BY <1>1, <1>4, <2>1, <2>2 DEF NumbersOf
    <2>3. CASE n \in 1 .. Len(q)
      BY <1>1, <1>4, <2>1, <2>3 DEF Ordered
    <2> QED
      BY <1>1, <2>2, <2>3
  <1> QED
    BY <1>3, <1>4 DEF longer

\* What is not newer than one number is not newer than the next.
LEMMA Newer ==
  ASSUME NEW q \in Seq(Packet), NEW v \in Int, NumbersOf(q, v), v <= written, written \in Nat
  PROVE  NumbersOf(q, written + 1)
  BY PacketNumbers DEF NumbersOf

\* The first packet is read.
LEMMA ReadFrom ==
  ASSUME NEW q \in Seq(Packet), q # <<>>, NEW newest, NumbersOf(q, newest), Ordered(q)
  PROVE  /\ NumbersOf(Tail(q), newest) /\ Ordered(Tail(q))
         /\ \A n \in 1 .. Len(Tail(q)) : q[1].last <= Tail(q)[n].under
  <1>1. /\ \A n \in 1 .. Len(Tail(q)) : Tail(q)[n] = q[n + 1] /\ n + 1 \in 1 .. Len(q)
        /\ 1 \in 1 .. Len(q) /\ Len(Tail(q)) \in Nat
    BY Tailed
  <1>2. NumbersOf(Tail(q), newest)
    BY <1>1 DEF NumbersOf
  <1>3. Ordered(Tail(q))
    <2> SUFFICES ASSUME NEW m \in 1 .. Len(Tail(q)), NEW n \in 1 .. Len(Tail(q)), m < n
                 PROVE  Tail(q)[m].last <= Tail(q)[n].under
      BY DEF Ordered
    <2>1. m + 1 < n + 1
      OBVIOUS
    <2> QED
      BY <1>1, <2>1 DEF Ordered
  <1>4. ASSUME NEW n \in 1 .. Len(Tail(q))
        PROVE  q[1].last <= Tail(q)[n].under
    <2>1. 1 < n + 1
      OBVIOUS
    <2> QED
      BY <1>1, <2>1 DEF Ordered
  <1> QED
    BY <1>2, <1>3, <1>4

\* How many packets of a tag are there, of those that matter.
LEMMA CountEmpty == ASSUME NEW tag PROVE Count(<<>>, tag) = 0
  <1>1. {n \in 1 .. Len(<<>>) : <<>>[n].tag = tag /\ <<>>[n].kind # "silent"} = {}
    OBVIOUS
  <1> QED
    BY <1>1, FS_EmptySet DEF Count

LEMMA CountType ==
  ASSUME NEW q \in Seq(Packet), NEW tag
  PROVE  /\ Count(q, tag) \in Nat
         /\ IsFiniteSet({n \in 1 .. Len(q) : q[n].tag = tag /\ q[n].kind # "silent"})
  <1> DEFINE S == {n \in 1 .. Len(q) : q[n].tag = tag /\ q[n].kind # "silent"}
  <1>1. Len(q) \in Nat /\ S \in SUBSET (1 .. Len(q))
    OBVIOUS
  <1>2. IsFiniteSet(1 .. Len(q))
    BY <1>1, FS_Interval
  <1>3. IsFiniteSet(S)
    BY <1>1, <1>2, FS_Subset
  <1> QED
    BY <1>3, FS_CardinalityType DEF Count

LEMMA CountAppend ==
  ASSUME NEW q \in Seq(Packet), NEW p \in Packet, NEW tag
  PROVE  Count(Append(q, p), tag) = Count(q, tag) + IF p.tag = tag /\ p.kind # "silent" THEN 1 ELSE 0
  <1> DEFINE longer == Append(q, p)
             S == {n \in 1 .. Len(q) : q[n].tag = tag /\ q[n].kind # "silent"}
             T == {n \in 1 .. Len(longer) : longer[n].tag = tag /\ longer[n].kind # "silent"}
  <1>1. /\ Len(q) \in Nat /\ Len(longer) = Len(q) + 1 /\ longer[Len(q) + 1] = p
        /\ \A n \in 1 .. Len(q) : longer[n] = q[n]
    BY Appended
  <1> HIDE DEF longer
  <1>2. IsFiniteSet(S) /\ Cardinality(S) \in Nat
    BY CountType, FS_CardinalityType
  <1>3. T = IF p.tag = tag /\ p.kind # "silent" THEN S \cup {Len(q) + 1} ELSE S
    BY <1>1
  <1>6. Len(q) + 1 \notin S
    BY <1>1
  <1> HIDE DEF S, T
  <1>4. Cardinality(S \cup {Len(q) + 1}) = Cardinality(S) + 1
    BY <1>2, <1>6, FS_AddElement
  <1>5. Cardinality(T) = Cardinality(S) + IF p.tag = tag /\ p.kind # "silent" THEN 1 ELSE 0
    BY <1>2, <1>3, <1>4
  <1> QED
    BY <1>5 DEF Count, S, T, longer

LEMMA CountTail ==
  ASSUME NEW q \in Seq(Packet), q # <<>>, NEW tag
  PROVE  Count(Tail(q), tag) = Count(q, tag) - IF q[1].tag = tag /\ q[1].kind # "silent" THEN 1 ELSE 0
  <1> DEFINE rest == Tail(q)
             S == {n \in 1 .. Len(q) : q[n].tag = tag /\ q[n].kind # "silent"}
             T == {n \in 1 .. Len(rest) : rest[n].tag = tag /\ rest[n].kind # "silent"}
             next == [n \in T |-> n + 1]
  <1>1. /\ Len(q) \in Nat /\ Len(q) > 0 /\ Len(rest) = Len(q) - 1
        /\ \A n \in 1 .. Len(rest) : rest[n] = q[n + 1] /\ n + 1 \in 1 .. Len(q)
    BY Tailed
  <1>2. IsFiniteSet(S) /\ IsFiniteSet(T) /\ Cardinality(S) \in Nat
    BY CountType, FS_CardinalityType, Tailed
  <1> HIDE DEF rest
  <1>3. \A n \in T : n \in Nat /\ n + 1 \in S \ {1}
    BY <1>1
  <1>4. \A k \in S \ {1} : k - 1 \in T
    <2> TAKE k \in S \ {1}
    <2>1. k \in Nat /\ k > 1 /\ k <= Len(q)
      OBVIOUS
    <2>2. k - 1 \in 1 .. Len(rest) /\ (k - 1) + 1 = k
      BY <1>1, <2>1
    <2>3. rest[k - 1] = q[k]
      BY <1>1, <2>2
    <2> QED
      BY <2>2, <2>3
  <1> HIDE DEF S, T
  <1>5. next \in Bijection(T, S \ {1})
    <2>1. next \in [T -> S \ {1}]
      BY <1>3
    <2>2. \A a, b \in T : next[a] = next[b] => a = b
      BY <1>3
    <2>3. \A k \in S \ {1} : \E n \in T : next[n] = k
      <3> TAKE k \in S \ {1}
      <3>1. k - 1 \in T /\ next[k - 1] = (k - 1) + 1
        BY <1>4
      <3>2. k \in Nat
        BY DEF S
      <3>3. next[k - 1] = k
        BY <3>1, <3>2
      <3> QED
        BY <3>1, <3>3
    <2> QED
      BY <2>1, <2>2, <2>3 DEF Bijection, Injection, Surjection, IsInjective
  <1>6. Cardinality(S \ {1}) = Cardinality(T)
    <2>1. ExistsBijection(T, S \ {1})
      BY <1>5 DEF ExistsBijection
    <2> QED
      BY <1>2, <2>1, FS_Bijection
  <1>7. Cardinality(S \ {1}) = IF 1 \in S THEN Cardinality(S) - 1 ELSE Cardinality(S)
    BY <1>2, FS_RemoveElement
  <1>8. 1 \in S <=> q[1].tag = tag /\ q[1].kind # "silent"
    BY <1>1 DEF S
  <1>9. Cardinality(T) = Cardinality(S) - IF q[1].tag = tag /\ q[1].kind # "silent" THEN 1 ELSE 0
    BY <1>2, <1>6, <1>7, <1>8
  <1> QED
    BY <1>9 DEF Count, S, T, rest

-----------------------------------------------------------------------------
\* Who reads what.

LEMMA CrossFacts ==
  ASSUME CrossInv
  PROVE  /\ TypeOK /\ requests \in Seq(Packet) /\ answers \in Seq(Packet) /\ pushes \in Seq(Packet)
         /\ g_IV \in Int /\ iv \in Int /\ written \in Nat /\ g_IV <= written /\ iv <= written
         /\ \A q \in {requests, answers, pushes} : \A n \in 1 .. Len(q) :
              /\ q[n].under < q[n].last /\ q[n].last <= written
              /\ q[n].under \in Int /\ q[n].last \in Nat
         /\ Len(requests) \in Nat /\ Len(answers) \in Nat /\ Len(pushes) \in Nat
         /\ BoundInv /\ g_IV \in IVs /\ iv \in IVs
  <1>1. /\ TypeOK /\ BoundInv /\ requests \in Seq(Packet) /\ answers \in Seq(Packet) /\ pushes \in Seq(Packet)
        /\ g_IV \in Int /\ iv \in Int /\ written \in Nat
    BY DEF CrossInv, TypeInv, TypeOK, InsideReply, InsideRequest
  <1>2. Len(requests) \in Nat /\ Len(answers) \in Nat /\ Len(pushes) \in Nat
    BY <1>1, EmptyFacts
  <1>3. g_IV \in IVs /\ iv \in IVs
    BY DEF CrossInv, TypeInv, TypeOK, IVs
  <1> QED
    BY <1>1, <1>2, <1>3, PacketNumbers DEF BoundInv, NumbersOf

\* Ends that have not parted: no number is newer than the writer's own.
LEMMA AliveFacts ==
  ASSUME CrossInv, ~Apart
  PROVE  /\ Alive /\ NumberInv /\ AnswerShape /\ (ClientAhead \/ ServerAhead)
         /\ \A n \in 1 .. Len(requests) : requests[n].last <= g_IV
         /\ \A n \in 1 .. Len(answers) : answers[n].last <= iv
         /\ \A n \in 1 .. Len(pushes) : pushes[n].last <= iv
  <1>1. Alive
    BY DEF CrossInv
  <1> QED
    BY <1>1 DEF Alive, NumberInv, NumbersOf

\* The server reads only what the client has written since.
LEMMA ServerReads ==
  ASSUME CrossInv, Readable(requests, iv)
  PROVE  ClientAhead /\ AnswerShape /\ answers = <<>> /\ pushes = <<>> /\ requests # <<>>
         /\ NumberInv /\ ~Apart /\ Head(requests) = requests[1] /\ requests[1] \in Packet
  <1>1. requests # <<>> /\ Head(requests) = requests[1] /\ requests[1] \in Packet /\ requests[1].under = iv
    BY CrossFacts, TailFacts DEF Readable, Arrived
  <1>2. 1 \in 1 .. Len(requests)
    BY <1>1, CrossFacts, TailFacts
  <1>3. ~Apart
    BY <1>1, <1>2 DEF Apart, NoneUnder
  <1> QED
    BY <1>1, <1>3 DEF CrossInv, Alive, ClientAhead, ServerAhead

\* The client reads only what the server has written since, on either channel.
LEMMA ClientReads ==
  ASSUME CrossInv, NEW q \in {answers, pushes}, Readable(q, g_IV)
  PROVE  ServerAhead /\ AnswerShape /\ requests = <<>> /\ q # <<>> /\ Head(q) = q[1] /\ q[1] \in Packet
         /\ NumberInv /\ ~Apart /\ q[1].under = g_IV /\ 1 \in 1 .. Len(q)
  <1>0. q \in Seq(Packet)
    BY CrossFacts
  <1>1. q # <<>> /\ Head(q) = q[1] /\ q[1] \in Packet /\ q[1].under = g_IV
    BY <1>0, TailFacts DEF Readable, Arrived
  <1>2. 1 \in 1 .. Len(q)
    BY <1>0, <1>1, TailFacts
  <1>3. ~Apart
    BY <1>1, <1>2 DEF Apart, NoneUnder
  <1>4. ~ClientAhead
    BY <1>1 DEF ClientAhead
  <1> QED
    BY <1>1, <1>2, <1>3, <1>4 DEF CrossInv, Alive, ServerAhead

\* A read at the client: what is left was written later.
LEMMA ClientReadsOn ==
  ASSUME CrossInv, NEW q \in {answers, pushes}, NEW r \in {answers, pushes}, Disjoint(q, r) \/ Disjoint(r, q),
         Readable(q, g_IV)
  PROVE  /\ q[1].last \in Nat /\ g_IV < q[1].last /\ q[1].last <= iv
         /\ Since(Tail(q), q[1].last) /\ Since(r, q[1].last)
         /\ Disjoint(Tail(q), r) /\ Disjoint(r, Tail(q))
         /\ NumbersOf(Tail(q), iv) /\ Ordered(Tail(q))
  <1>0. /\ q \in Seq(Packet) /\ r \in Seq(Packet) /\ q # <<>> /\ 1 \in 1 .. Len(q) /\ q[1].under = g_IV
        /\ Since(q, g_IV) /\ Since(r, g_IV) /\ Ordered(q) /\ NumbersOf(q, iv)
    BY CrossFacts, ClientReads DEF ServerAhead, NumberInv
  <1>1. /\ \A n \in 1 .. Len(Tail(q)) : Tail(q)[n] = q[n + 1] /\ n + 1 \in 1 .. Len(q)
        /\ NumbersOf(Tail(q), iv) /\ Ordered(Tail(q))
        /\ \A n \in 1 .. Len(Tail(q)) : q[1].last <= Tail(q)[n].under
    BY <1>0, Tailed, ReadFrom
  <1>2. q[1].last \in Nat /\ g_IV < q[1].last /\ q[1].last <= iv
    BY <1>0, PacketNumbers DEF NumbersOf
  <1>3. Since(Tail(q), q[1].last)
    BY <1>1 DEF Since
  <1>4. Since(r, q[1].last)
    <2> SUFFICES ASSUME NEW n \in 1 .. Len(r)
                 PROVE  q[1].last <= r[n].under
      BY DEF Since
    <2>1. q[1].last <= r[n].under \/ r[n].last <= q[1].under
      BY <1>0 DEF Disjoint
    <2>2. g_IV <= r[n].under
      BY <1>0 DEF Since
    <2>3. r[n].under < r[n].last /\ r[n].under \in Int /\ r[n].last \in Nat /\ g_IV \in Int
      BY CrossFacts
    <2> QED
      BY <1>0, <2>1, <2>2, <2>3
  <1>5. Disjoint(Tail(q), r) /\ Disjoint(r, Tail(q))
    BY <1>1 DEF Disjoint
  <1> QED
    BY <1>1, <1>2, <1>3, <1>4, <1>5

-----------------------------------------------------------------------------
\* The chains after a step.

LEMMA WrittenPacket ==
  ASSUME TypeOK, NEW tag \in {"request", "body", "answer", "list", "push", "payload"},
         NEW kind \in Kinds \cup {"name"}, NEW ok \in BOOLEAN,
         NEW v \in IVs
  PROVE  LET p == Encrypted(tag, kind, ok, v)
         IN  p \in Packet /\ p.tag = tag /\ p.kind = kind /\ p.under = v /\ p.last = written + 1
  BY DEF Encrypted, Packet, TypeOK

\* The client writes: it is ahead, or it has not read all and the chains part.
LEMMA ClientWritesOn ==
  ASSUME CrossInv, NEW tag \in {"request", "body"}, NEW kind \in Kinds \cup {"name"}, ClientWrites(tag, kind),
         UNCHANGED <<iv, answers, pushes, handler, serving>>
  PROVE  BoundInv' /\ (Apart \/ Alive)' /\ (Apart => Apart')
  <1> DEFINE p == Encrypted(tag, kind, TRUE, g_IV)
  <1>0. p \in Packet /\ p.under = g_IV /\ p.last = written + 1
    BY CrossFacts DEF Encrypted, Packet
  <1>1. requests' = Append(requests, p) /\ written' = written + 1 /\ g_IV' = written + 1
    BY DEF ClientWrites
  <1> HIDE DEF p
  <1>2. /\ requests' # <<>> /\ Len(requests) \in Nat /\ Len(requests') = Len(requests) + 1
        /\ requests'[Len(requests) + 1] = p
        /\ \A n \in 1 .. Len(requests) : requests'[n] = requests[n]
        /\ \A n \in 1 .. Len(requests') : n \in 1 .. Len(requests) \/ n = Len(requests) + 1
    <2>1. requests \in Seq(Packet)
      BY CrossFacts
    <2> QED
      BY <1>0, <1>1, <2>1, Appended
  <1>3. BoundInv'
    <2>1. NumbersOf(requests', written + 1)
      BY <1>0, <1>1, CrossFacts, WrittenTo DEF BoundInv
    <2>2. NumbersOf(answers, written + 1) /\ NumbersOf(pushes, written + 1)
      BY CrossFacts, Newer DEF BoundInv
    <2>3. NoneUnder(requests', InsideRequest)
      <3>1. g_IV # InsideRequest
        BY CrossFacts DEF TypeOK, InsideReply, InsideRequest
      <3> QED
        BY <1>0, <1>2, <3>1, CrossFacts DEF BoundInv, NoneUnder
    <2> QED
      BY <1>1, <2>1, <2>2, <2>3, CrossFacts DEF BoundInv
  <1>4. CASE g_IV # iv /\ NoneUnder(requests, iv)
    <2>1. NoneUnder(requests', iv)
      BY <1>0, <1>2, <1>4 DEF NoneUnder
    <2>2. g_IV' # iv /\ NoneUnder(answers, g_IV') /\ NoneUnder(pushes, g_IV')
      <3>1. ASSUME NEW q \in {answers, pushes}, NEW n \in 1 .. Len(q)
            PROVE  q[n].under # written + 1
        <4>1. /\ q[n].under \in Int /\ q[n].last \in Nat /\ q[n].under < q[n].last /\ q[n].last <= written
              /\ written \in Nat
          BY CrossFacts
        <4> QED
          BY <4>1
      <3> QED
        BY <1>1, <3>1, CrossFacts DEF NoneUnder
    <2> QED
      BY <1>3, <2>1, <2>2 DEF Apart
  <1>5. CASE ~Apart /\ answers = <<>> /\ pushes = <<>>
    <2>1. requests'[Len(requests')].last = g_IV' /\ iv < g_IV'
      BY <1>0, <1>1, <1>2, CrossFacts
    <2>2. NumbersOf(requests', written + 1) /\ Ordered(requests')
      BY <1>0, <1>1, <1>5, CrossFacts, AliveFacts, WrittenTo DEF NumberInv
    <2>3. NumberInv'
      BY <1>1, <1>5, <2>2, AliveFacts DEF NumberInv
    <2> QED
      BY <1>2, <1>3, <1>5, <2>1, <2>3 DEF ClientAhead, AnswerShape, Alive
  <1>6. CASE ~Apart /\ ServerAhead /\ ~(answers = <<>> /\ pushes = <<>>)
    <2>1. requests = <<>> /\ NoneUnder(requests, iv)
      BY <1>6 DEF ServerAhead, NoneUnder
    <2>2. PICK q \in {answers, pushes} : q # <<>>
      BY <1>6
    <2>3. 1 \in 1 .. Len(q)
      BY <2>2, CrossFacts, TailFacts
    <2>4. g_IV <= q[1].under /\ q[1].under < q[1].last /\ q[1].last <= iv /\ q[1].under \in Int /\ q[1].last \in Nat
      BY <1>6, <2>3, CrossFacts, AliveFacts DEF ServerAhead, Since
    <2>5. g_IV # iv
      BY <2>4, CrossFacts
    <2> QED
      BY <1>4, <2>1, <2>5
  <1> QED
    BY <1>4, <1>5, <1>6 DEF CrossInv, Apart, Alive, ClientAhead

\* The server writes to one of its channels: it is ahead, or the chains part.
LEMMA ServerWritesOn ==
  ASSUME CrossInv, NEW tag \in {"answer", "list", "push", "payload"}, NEW kind \in Kinds \cup {"name"},
         NEW ok \in BOOLEAN,
         \/ ServerWrites(answers, tag, kind, ok) /\ pushes' = pushes
         \/ ServerWrites(pushes, tag, kind, ok) /\ answers' = answers,
         UNCHANGED <<g_IV, requests>>
  PROVE  /\ BoundInv'
         /\ ~Apart' => NumberInv' /\ ServerAhead' /\ ServerAhead /\ AnswerShape
         /\ Apart => Apart'
  <1> DEFINE p == Encrypted(tag, kind, ok, iv)
  <1>0. p \in Packet /\ p.under = iv /\ p.last = written + 1
    BY WrittenPacket, CrossFacts
  <1>1. written' = written + 1 /\ iv' = written + 1
    BY DEF ServerWrites
  <1>2. \/ answers' = Append(answers, p) /\ pushes' = pushes
        \/ pushes' = Append(pushes, p) /\ answers' = answers
    BY DEF ServerWrites
  <1> HIDE DEF p
  <1>3. ASSUME NEW q \in Seq(Packet)
        PROVE  /\ Append(q, p) # <<>> /\ Len(q) \in Nat /\ Append(q, p)[Len(q) + 1] = p
               /\ \A n \in 1 .. Len(q) : Append(q, p)[n] = q[n]
               /\ \A n \in 1 .. Len(Append(q, p)) : n \in 1 .. Len(q) \/ n = Len(q) + 1
    BY <1>0, Appended
  <1>4. BoundInv'
    <2>1. ASSUME NEW q \in Seq(Packet), NumbersOf(q, written), NoneUnder(q, InsideReply)
          PROVE  /\ NumbersOf(Append(q, p), written + 1) /\ NumbersOf(q, written + 1)
                 /\ NoneUnder(Append(q, p), InsideReply)
      <3>1. NumbersOf(Append(q, p), written + 1)
        BY <1>0, <2>1, CrossFacts, WrittenTo
      <3>2. NumbersOf(q, written + 1)
        BY <2>1, CrossFacts, Newer
      <3>3. iv # InsideReply
        BY CrossFacts DEF TypeOK, InsideReply, InsideRequest
      <3>4. NoneUnder(Append(q, p), InsideReply)
        BY <1>0, <1>3, <2>1, <3>3 DEF NoneUnder
      <3> QED
        BY <3>1, <3>2, <3>4
    <2>2. /\ NumbersOf(answers', written + 1) /\ NumbersOf(pushes', written + 1)
          /\ NoneUnder(answers', InsideReply) /\ NoneUnder(pushes', InsideReply)
      BY <1>2, <2>1, CrossFacts DEF BoundInv
    <2>3. NumbersOf(requests, written + 1)
      BY CrossFacts, Newer DEF BoundInv
    <2> QED
      BY <1>1, <2>2, <2>3, CrossFacts DEF BoundInv
  <1>5. CASE g_IV # iv /\ NoneUnder(answers, g_IV) /\ NoneUnder(pushes, g_IV)
    <2>1. \A q \in Seq(Packet) : NoneUnder(q, g_IV) => NoneUnder(Append(q, p), g_IV)
      BY <1>0, <1>3, <1>5 DEF NoneUnder
    <2>2. NoneUnder(answers', g_IV) /\ NoneUnder(pushes', g_IV)
      BY <1>2, <1>5, <2>1, CrossFacts
    <2>3. g_IV # iv'
      BY <1>1, CrossFacts
    <2>4. ASSUME NEW n \in 1 .. Len(requests)
          PROVE  requests[n].under # written + 1
      <3>1. /\ requests[n].under < requests[n].last /\ requests[n].last <= written
            /\ requests[n].under \in Int /\ requests[n].last \in Nat /\ written \in Nat
        BY CrossFacts
      <3> QED
        BY <3>1
    <2>5. NoneUnder(requests, iv')
      BY <1>1, <2>4 DEF NoneUnder
    <2> QED
      BY <1>4, <2>2, <2>3, <2>5 DEF Apart
  <1>6. CASE ClientAhead
    <2>1. g_IV # iv /\ NoneUnder(answers, g_IV) /\ NoneUnder(pushes, g_IV)
      BY <1>6, CrossFacts DEF ClientAhead, NoneUnder
    <2> QED
      BY <1>5, <2>1
  <1>7. CASE ~Apart /\ ServerAhead /\ AnswerShape
    <2>1. ASSUME NEW q \in Seq(Packet), Since(q, g_IV)
          PROVE  Since(Append(q, p), g_IV)
      BY <1>0, <1>3, <1>7, <2>1, CrossFacts DEF Since, ServerAhead
    <2>2. ASSUME NEW q \in Seq(Packet), NEW r \in Seq(Packet), NumbersOf(q, iv), Disjoint(q, r) \/ Disjoint(r, q)
          PROVE  Disjoint(q, Append(r, p)) /\ Disjoint(Append(r, p), q)
      <3> SUFFICES ASSUME NEW m \in 1 .. Len(q), NEW n \in 1 .. Len(Append(r, p))
                   PROVE  q[m].last <= Append(r, p)[n].under \/ Append(r, p)[n].last <= q[m].under
        BY DEF Disjoint
      <3>1. CASE n = Len(r) + 1
        BY <1>0, <1>3, <2>2, <3>1 DEF NumbersOf
      <3>2. CASE n \in 1 .. Len(r)
        BY <1>3, <2>2, <3>2 DEF Disjoint
      <3> QED
        BY <1>3, <3>1, <3>2
    <2>3. Since(answers', g_IV) /\ Since(pushes', g_IV) /\ Disjoint(answers', pushes')
      BY <1>2, <1>7, <2>1, <2>2, CrossFacts, AliveFacts DEF ServerAhead, NumberInv
    <2>4. g_IV <= iv'
      BY <1>1, CrossFacts
    <2>5. ASSUME NEW q \in Seq(Packet), NumbersOf(q, iv), Ordered(q)
          PROVE  NumbersOf(Append(q, p), written + 1) /\ Ordered(Append(q, p)) /\ NumbersOf(q, written + 1)
      <3>1. NumbersOf(Append(q, p), written + 1) /\ Ordered(Append(q, p))
        BY <1>0, <2>5, CrossFacts, WrittenTo
      <3>2. NumbersOf(q, written + 1)
        BY <2>5, CrossFacts, Newer
      <3> QED
        BY <3>1, <3>2
    <2>6. /\ NumbersOf(answers', written + 1) /\ NumbersOf(pushes', written + 1)
          /\ Ordered(answers') /\ Ordered(pushes')
      BY <1>2, <1>7, <2>5, CrossFacts, AliveFacts DEF NumberInv
    <2>7. NumberInv'
      BY <1>1, <1>7, <2>6, AliveFacts DEF NumberInv
    <2> QED
      BY <1>4, <1>7, <2>3, <2>4, <2>7 DEF ServerAhead
  <1> QED
    BY <1>4, <1>5, <1>6, <1>7 DEF CrossInv, Apart, Alive

\* The server reads a request, and has read them all or is still behind.
LEMMA ServerReadsOn ==
  ASSUME CrossInv, Readable(requests, iv), iv' = Head(requests).last, requests' = Tail(requests),
         UNCHANGED <<g_IV, written, answers, pushes>>
  PROVE  BoundInv' /\ NumberInv' /\ (ClientAhead \/ ServerAhead)'
  <1>1. /\ NumberInv /\ ~Apart
        /\ ClientAhead /\ answers = <<>> /\ pushes = <<>> /\ requests # <<>> /\ iv' = requests[1].last
        /\ requests[1] \in Packet
    BY ServerReads
  <1>2. /\ Len(requests) \in Nat /\ Len(requests) > 0 /\ Len(requests') = Len(requests) - 1
        /\ requests' \in Seq(Packet) /\ 1 \in 1 .. Len(requests) /\ Len(requests) \in 1 .. Len(requests)
        /\ \A n \in 1 .. Len(requests') : requests'[n] = requests[n + 1] /\ n + 1 \in 1 .. Len(requests)
    BY <1>1, CrossFacts, Tailed
  <1>3. /\ iv' \in Nat /\ iv' <= g_IV
        /\ requests[Len(requests)].last = g_IV
        /\ Len(requests) > 1 => iv' <= requests[Len(requests)].under
    <2>1. iv' \in Nat /\ iv' <= g_IV
      BY <1>1, <1>2, CrossFacts, AliveFacts
    <2>2. Len(requests) > 1 => iv' <= requests[Len(requests)].under
      BY <1>1, <1>2 DEF NumberInv, Ordered
    <2> QED
      BY <1>1, <2>1, <2>2 DEF ClientAhead
  <1>4. NumberInv' /\ BoundInv'
    <2>1. NumbersOf(requests', g_IV) /\ Ordered(requests')
      BY <1>1, CrossFacts, ReadFrom DEF NumberInv
    <2>2. NumbersOf(answers, iv') /\ NumbersOf(pushes, iv') /\ Ordered(answers) /\ Ordered(pushes)
      BY <1>1 DEF NumbersOf, Ordered
    <2>3. NumberInv'
      BY <2>1, <2>2 DEF NumberInv
    <2>4. NumbersOf(requests', written) /\ NoneUnder(requests', InsideRequest)
      BY <1>2, CrossFacts DEF NumbersOf, NoneUnder, BoundInv
    <2>5. iv' <= written
      BY <1>3, CrossFacts
    <2> QED
      BY <2>3, <2>4, <2>5, CrossFacts DEF BoundInv
  <1>5. CASE Len(requests) = 1
    <2>1. requests' = <<>> /\ iv' = g_IV
      BY <1>1, <1>2, <1>3, <1>5, EmptyFacts
    <2> QED
      BY <1>1, <1>4, <2>1, CrossFacts DEF ServerAhead, Since, Disjoint
  <1>6. CASE Len(requests) > 1
    <2>1. requests' # <<>> /\ requests'[Len(requests')] = requests[Len(requests)]
      <3>1. Len(requests') \in 1 .. Len(requests') /\ Len(requests') + 1 = Len(requests) /\ Len(requests') # 0
        BY <1>2, <1>6
      <3> QED
        BY <1>2, <3>1, EmptyFacts
    <2>2. iv' < g_IV
      <3>1. requests[Len(requests)].under < g_IV /\ requests[Len(requests)].under \in Int /\ g_IV \in Int
        BY <1>2, <1>3, CrossFacts
      <3> QED
        BY <1>3, <1>6, <3>1
    <2> QED
      BY <1>1, <1>3, <1>4, <2>1, <2>2 DEF ClientAhead
  <1> QED
    BY <1>2, <1>5, <1>6

\* The client reads from either channel.
LEMMA ClientReadsStep ==
  ASSUME CrossInv, UNCHANGED <<iv, written, requests>>,
         \/ /\ Readable(answers, g_IV) /\ g_IV' = Head(answers).last
            /\ answers' = Tail(answers) /\ pushes' = pushes
         \/ /\ Readable(pushes, g_IV) /\ g_IV' = Head(pushes).last
            /\ pushes' = Tail(pushes) /\ answers' = answers
  PROVE  BoundInv' /\ NumberInv' /\ ServerAhead' /\ AnswerShape /\ requests = <<>>
  <1>1. ServerAhead /\ AnswerShape /\ requests = <<>> /\ NumberInv
    BY ClientReads
  <1>2. /\ g_IV' \in Nat /\ g_IV' <= iv /\ Since(answers', g_IV') /\ Since(pushes', g_IV')
        /\ Disjoint(answers', pushes') /\ NumbersOf(answers', iv) /\ NumbersOf(pushes', iv)
        /\ Ordered(answers') /\ Ordered(pushes')
    <2>1. CASE Readable(answers, g_IV) /\ g_IV' = Head(answers).last /\ answers' = Tail(answers) /\ pushes' = pushes
      BY <1>1, <2>1, ClientReads, ClientReadsOn, CrossFacts DEF ServerAhead, NumberInv
    <2>2. CASE Readable(pushes, g_IV) /\ g_IV' = Head(pushes).last /\ pushes' = Tail(pushes) /\ answers' = answers
      BY <1>1, <2>2, ClientReads, ClientReadsOn, CrossFacts DEF ServerAhead, NumberInv
    <2> QED
      BY <2>1, <2>2
  <1>3. NumbersOf(requests, g_IV') /\ Ordered(requests)
    BY <1>1 DEF NumbersOf, Ordered
  <1>4. NumberInv'
    BY <1>2, <1>3 DEF NumberInv
  <1>5. BoundInv'
    <2>1. ASSUME NEW q \in Seq(Packet), q # <<>>, NumbersOf(q, written), NoneUnder(q, InsideReply)
          PROVE  NumbersOf(Tail(q), written) /\ NoneUnder(Tail(q), InsideReply)
      BY <2>1, Tailed DEF NumbersOf, NoneUnder
    <2>2. /\ NumbersOf(answers', written) /\ NoneUnder(answers', InsideReply)
          /\ NumbersOf(pushes', written) /\ NoneUnder(pushes', InsideReply)
      BY <2>1, CrossFacts DEF BoundInv, Readable, Arrived
    <2>3. g_IV' <= written
      BY <1>2, CrossFacts
    <2> QED
      BY <2>2, <2>3, CrossFacts DEF BoundInv
  <1> QED
    BY <1>1, <1>2, <1>4, <1>5 DEF ServerAhead

-----------------------------------------------------------------------------
\* The invariant is kept.

LEMMA CrossInit == Init => CrossInv
<1> SUFFICES ASSUME Init PROVE CrossInv
  OBVIOUS
<1>1. /\ requests = <<>> /\ answers = <<>> /\ pushes = <<>> /\ g_IV = 0 /\ iv = 0 /\ written = 0
      /\ handler = "read"
  BY DEF Init
<1>2. BoundInv /\ NumberInv /\ ServerAhead /\ AnswerShape
  BY <1>1 DEF BoundInv, NoneUnder, NumberInv, NumbersOf, Ordered, ServerAhead, Since, Disjoint, AnswerShape
<1> QED
  BY <1>1, <1>2, InitType DEF CrossInv, Alive

\* The client's reads.
LEMMA CrossClientReads ==
  ASSUME CrossInv, ReadAnswer \/ ReadList \/ ReadPush \/ ReadPayload \/ ReadName
  PROVE  BoundInv' /\ Alive' /\ AnswerShape /\ requests = <<>>
  <1>1. /\ UNCHANGED <<iv, written, requests, handler>>
        /\ \/ /\ Readable(answers, g_IV) /\ g_IV' = Head(answers).last
              /\ answers' = Tail(answers) /\ pushes' = pushes
           \/ /\ Readable(pushes, g_IV) /\ g_IV' = Head(pushes).last
              /\ pushes' = Tail(pushes) /\ answers' = answers
    BY DEF ReadAnswer, ReadList, ReadPush, ReadPayload, ReadName, server
  <1>2. BoundInv' /\ NumberInv' /\ ServerAhead' /\ AnswerShape /\ requests = <<>>
    BY <1>1, ClientReadsStep
  <1>3. CASE answers' = answers
    BY <1>1, <1>2, <1>3 DEF AnswerShape, Alive
  <1>4. CASE answers' = Tail(answers) /\ answers # <<>>
    <2>1. /\ Len(answers) \in Nat /\ Len(answers') = Len(answers) - 1 /\ answers' \in Seq(Packet)
          /\ Len(answers) = 2 => answers'[1] = answers[2]
      BY <1>4, CrossFacts, TailFacts
    <2>2. CASE Len(answers) = 1
      BY <1>2, <2>1, <2>2, EmptyFacts DEF AnswerShape, Alive
    <2>3. CASE Len(answers) = 2
      <3>1. answers[2].tag = "list" /\ handler = "read"
        BY <1>2, <1>4, <2>3 DEF AnswerShape
      <3>2. Len(answers') = 1 /\ answers'[1].tag = "list" /\ handler' = "read"
        BY <1>1, <2>1, <2>3, <3>1
      <3>3. AnswerShape'
        BY <3>2 DEF AnswerShape
      <3> QED
        BY <1>2, <3>3 DEF Alive
    <2> QED
      BY <1>2, <1>4, <2>2, <2>3 DEF AnswerShape
  <1>5. answers' = answers \/ (answers' = Tail(answers) /\ answers # <<>>)
    BY <1>1 DEF Readable, Arrived
  <1>6. Alive'
    BY <1>3, <1>4, <1>5
  <1> QED
    BY <1>2, <1>6

\* The server's answers.
LEMMA CrossAnswers ==
  ASSUME CrossInv, Answer \/ AnswerList
  PROVE  BoundInv' /\ (Apart \/ Alive)'
  <1>1. PICK tag \in {"answer", "list"} :
          /\ tag = IF handler = "answer" THEN "answer" ELSE "list"
          /\ \E ok \in BOOLEAN : ServerWrites(answers, tag, serving.kind, ok)
          /\ UNCHANGED <<g_IV, requests, pushes>>
    <2>1. serving.ok \in BOOLEAN
      BY CrossFacts DEF TypeOK
    <2> QED
      BY <2>1 DEF Answer, AnswerList
  <1>2. serving.kind \in Kinds \cup {"name"}
    BY CrossFacts DEF TypeOK
  <1>3. PICK ok \in BOOLEAN : ServerWrites(answers, tag, serving.kind, ok)
    BY <1>1
  <1>4. BoundInv' /\ (~Apart' => NumberInv' /\ ServerAhead' /\ ServerAhead /\ AnswerShape)
    BY <1>1, <1>2, <1>3, ServerWritesOn
  <1>5. ASSUME AnswerShape
        PROVE  AnswerShape'
    <2>1. /\ Len(answers) = 0 => Len(answers') = 1 /\ Is(answers'[1], tag, serving.kind)
          /\ Len(answers) = 1 => Len(answers') = 2 /\ answers'[1] = answers[1] /\ Is(answers'[2], tag, serving.kind)
      <3>1. TypeOK
        BY CrossFacts
      <3>2. /\ Len(answers) = 0 => Is(answers'[1], tag, serving.kind)
            /\ Len(answers) = 1 => answers'[1] = answers[1] /\ Is(answers'[2], tag, serving.kind)
        BY <1>2, <1>3, <3>1, AnswersFacts
      <3>3. Len(answers) = 0 => Len(answers') = 1
        BY <1>2, <1>3, <3>1, AnswersFacts
      <3>4. Len(answers) = 1 => Len(answers') = 2
        BY <1>2, <1>3, <3>1, AnswersFacts
      <3> QED
        BY <3>2, <3>3, <3>4, Zenon
    <2>2. answers = <<>> => Len(answers) = 0
      BY CrossFacts, EmptyFacts
    <2>3. CASE Answer
      <3>1. handler = "answer" /\ handler' \in {"list", "read"} /\ tag = "answer" /\ serving.kind # "silent"
        BY <1>1, <2>3 DEF Answer, CrossInv
      <3>2. answers = <<>>
        BY <1>5, <3>1 DEF AnswerShape
      <3> QED
        BY <2>1, <2>2, <3>1, <3>2 DEF AnswerShape, IsAnswer, Is
    <2>4. CASE AnswerList
      <3>1. handler = "list" /\ handler' = "read" /\ tag = "list"
        BY <1>1, <2>4 DEF AnswerList
      <3> QED
        BY <1>5, <2>1, <2>2, <3>1 DEF AnswerShape, IsAnswer, Is
    <2> QED
      BY <2>3, <2>4
  <1> QED
    BY <1>4, <1>5 DEF Alive

\* The server's reads.
LEMMA CrossServerReads ==
  ASSUME CrossInv, ReadRequest \/ ReadBody
  PROVE  /\ BoundInv' /\ Alive' /\ answers = <<>> /\ requests # <<>>
         /\ handler' \in {"body", "answer"} => serving'.kind # "silent"
  <1>1. /\ Readable(requests, iv) /\ iv' = Head(requests).last /\ requests' = Tail(requests)
        /\ UNCHANGED <<g_IV, written, answers, pushes>>
    BY DEF ReadRequest, ReadBody
  <1>2. BoundInv' /\ NumberInv' /\ (ClientAhead \/ ServerAhead)' /\ answers = <<>> /\ requests # <<>>
    BY <1>1, ServerReadsOn, ServerReads
  <1>3. Alive'
    BY <1>1, <1>2 DEF Alive, AnswerShape
  <1>4. handler' \in {"body", "answer"} => serving'.kind # "silent"
    <2>1. CASE ReadRequest
      <3>1. CASE UNCHANGED <<handler, serving>>
        BY <3>1 DEF CrossInv
      <3>2. CASE \E ok \in BOOLEAN : serving' = [kind |-> "body", ok |-> ok]
        BY <3>2
      <3>3. CASE \E ok \in BOOLEAN : serving' = [kind |-> Head(requests).kind, ok |-> ok] /\ Head(requests).kind # "silent"
        BY <3>3
      <3> QED
        BY <2>1, <3>1, <3>2, <3>3 DEF ReadRequest
    <2>2. CASE ReadBody
      <3>1. serving'.kind = serving.kind /\ serving.kind # "silent"
        BY <2>2, CrossFacts DEF ReadBody, CrossInv, TypeOK
      <3> QED
        BY <3>1
    <2> QED
      BY <2>1, <2>2
  <1> QED
    BY <1>2, <1>3, <1>4

\* A packet is refused, and the rest of it stays where it is.
Refusal ==
  /\ \/ g_IV' = InsideReply /\ iv' = iv /\ (Garbled(answers, g_IV) \/ Garbled(pushes, g_IV))
     \/ iv' = InsideRequest /\ g_IV' = g_IV /\ Garbled(requests, iv)
  /\ UNCHANGED <<written, requests, answers, pushes>>

LEMMA Refusals ==
  ASSUME Exit \/ ReadNull \/ ReceiverEnds \/ HandlerEnds \/ UNCHANGED vars
  PROVE  Refusal \/ UNCHANGED <<g_IV, iv, written, requests, answers, pushes>>
  BY DEF Exit, ReadNull, ReceiverEnds, HandlerEnds, ClientGetsNull, Refusal, vars

\* The chains have parted then, for nobody writes under such a block.
LEMMA RefusalParts ==
  ASSUME CrossInv, Refusal
  PROVE  BoundInv' /\ Apart'
  <1>1. /\ g_IV # InsideRequest /\ iv # InsideReply /\ InsideReply # InsideRequest
        /\ InsideReply <= written /\ InsideRequest <= written
    BY CrossFacts DEF TypeOK, InsideReply, InsideRequest
  <1>2. BoundInv /\ UNCHANGED <<written, requests, answers, pushes>>
    BY CrossFacts DEF Refusal
  <1>3. g_IV' <= written /\ iv' <= written
    BY <1>1, CrossFacts DEF Refusal
  <1>4. BoundInv'
    BY <1>2, <1>3 DEF BoundInv
  <1>5. CASE g_IV' = InsideReply /\ iv' = iv /\ (answers # <<>> \/ pushes # <<>>)
    <2>1. ~Apart => NoneUnder(requests, iv)
      <3>1. ~Apart => requests = <<>>
        BY <1>5, AliveFacts DEF ClientAhead, ServerAhead
      <3> QED
        BY <3>1 DEF NoneUnder
    <2>2. NoneUnder(requests, iv)
      BY <2>1 DEF Apart
    <2> QED
      BY <1>1, <1>2, <1>5, <2>2 DEF BoundInv, Apart
  <1>6. CASE iv' = InsideRequest /\ g_IV' = g_IV /\ requests # <<>>
    <2>1. ~Apart => NoneUnder(answers, g_IV) /\ NoneUnder(pushes, g_IV)
      <3>1. ~Apart => answers = <<>> /\ pushes = <<>>
        BY <1>6, AliveFacts DEF ClientAhead, ServerAhead
      <3> QED
        BY <3>1 DEF NoneUnder
    <2>2. NoneUnder(answers, g_IV) /\ NoneUnder(pushes, g_IV)
      BY <2>1 DEF Apart
    <2> QED
      BY <1>1, <1>2, <1>6, <2>2 DEF BoundInv, Apart
  <1> QED
    BY <1>4, <1>5, <1>6 DEF Refusal, Garbled, Arrived

LEMMA CrossStep == CrossInv /\ [Next]_vars => CrossInv'
<1> SUFFICES ASSUME CrossInv, [Next]_vars PROVE CrossInv'
  OBVIOUS
<1>0. TypeInv'
  BY TypeStep DEF CrossInv
<1>1. CASE AskBody \/ QueryUserName \/ \E kind \in Kinds : Ask(kind)
  <2>1. asked \in Kinds
    BY CrossFacts DEF TypeOK
  <2>2. PICK tag \in {"request", "body"} : \E kind \in Kinds \cup {"name"} : ClientWrites(tag, kind)
    BY <1>1, <2>1 DEF AskBody, QueryUserName, Ask
  <2>3. UNCHANGED <<iv, answers, pushes, handler, serving>>
    BY <1>1 DEF AskBody, QueryUserName, Ask, server
  <2>4. BoundInv' /\ (Apart \/ Alive)'
    BY <2>2, <2>3, ClientWritesOn
  <2> QED
    BY <1>0, <2>3, <2>4 DEF CrossInv
<1>2. CASE PushPayload \/ \E more \in BOOLEAN : Push(more)
  <2>1. PICK tag \in {"push", "payload"} : \E ok \in BOOLEAN : ServerWrites(pushes, tag, "plain", ok)
    BY <1>2 DEF PushPayload, Push
  <2>2. UNCHANGED <<g_IV, requests, answers, handler, serving>>
    BY <1>2 DEF PushPayload, Push, client
  <2>3. BoundInv' /\ (~Apart' => NumberInv' /\ ServerAhead' /\ ServerAhead /\ AnswerShape)
    <3>1. "plain" \in Kinds \cup {"name"}
      BY DEF Kinds
    <3> QED
      BY <2>1, <2>2, <3>1, ServerWritesOn
  <2> QED
    BY <1>0, <2>2, <2>3 DEF CrossInv, Alive, AnswerShape
<1>3. CASE ReadAnswer \/ ReadList \/ ReadPush \/ ReadPayload \/ ReadName
  <2>1. UNCHANGED <<handler, serving>>
    BY <1>3 DEF ReadAnswer, ReadList, ReadPush, ReadPayload, ReadName, server
  <2> QED
    BY <1>0, <1>3, <2>1, CrossClientReads DEF CrossInv
<1>4. CASE Answer \/ AnswerList
  <2>1. handler' \notin {"body", "answer"}
    BY <1>4 DEF Answer, AnswerList
  <2> QED
    BY <1>0, <1>4, <2>1, CrossAnswers DEF CrossInv
<1>5. CASE ReadRequest \/ ReadBody
  BY <1>0, <1>5, CrossServerReads DEF CrossInv
<1>6. CASE UNCHANGED <<g_IV, iv, written, requests, answers, pushes, handler, serving>>
  BY <1>0, <1>6 DEF CrossInv, BoundInv, NumberInv, Apart, Alive, ClientAhead, ServerAhead, AnswerShape
<1>7. CASE Exit \/ ReadNull \/ ReceiverEnds \/ HandlerEnds \/ UNCHANGED vars
  <2>1. UNCHANGED <<written, requests, answers, pushes, handler, serving>>
    BY <1>7 DEF Exit, ReadNull, ReceiverEnds, HandlerEnds, vars, server
  <2>2. CASE Refusal
    BY <1>0, <2>1, <2>2, RefusalParts DEF CrossInv
  <2> QED
    BY <1>6, <1>7, <2>1, <2>2, Refusals
<1> QED
  BY <1>1, <1>2, <1>3, <1>4, <1>5, <1>6, <1>7 DEF Next, GtkStep, ReceiverStep, HandlerStep, PusherStep

-----------------------------------------------------------------------------
\* Answers to come, and threads that wait for one.

OwedBy(place) == IF place \in {"body", "answer"} THEN 1 ELSE 0
AwaitedBy(g, r) == (IF g \in {"body", "answer"} THEN 1 ELSE 0) + (IF r = "name" THEN 1 ELSE 0)

LEMMA OwedFacts ==
  ASSUME CrossInv
  PROVE  /\ Count(requests, "request") \in Nat /\ Count(answers, "answer") \in Nat
         /\ Owed = Count(requests, "request") + Count(answers, "answer") + OwedBy(handler)
         /\ Awaited = AwaitedBy(gtk, receiver)
  BY CrossFacts, CountType DEF Owed, Awaited, OwedBy, AwaitedBy

\* A request or its body.
LEMMA OwedAsk ==
  ASSUME CrossInv, CrossInv', NoUnsolicitedAnswer,
         AskBody \/ QueryUserName \/ \E kind \in Kinds : Ask(kind)
  PROVE  NoUnsolicitedAnswer'
  <1>1. UNCHANGED <<answers, handler, lost>>
    BY DEF AskBody, QueryUserName, Ask, server
  <1>2. ASSUME NEW tag \in {"request", "body"}, NEW kind \in Kinds \cup {"name"}, ClientWrites(tag, kind)
        PROVE  Count(requests', "request") =
                 Count(requests, "request") + IF tag = "request" /\ kind # "silent" THEN 1 ELSE 0
    <2> DEFINE p == Encrypted(tag, kind, TRUE, g_IV)
    <2>1. requests' = Append(requests, p) /\ p \in Packet /\ p.tag = tag /\ p.kind = kind
      BY <1>2, CrossFacts DEF ClientWrites, Encrypted, Packet
    <2> HIDE DEF p
    <2> QED
      BY <2>1, CrossFacts, CountAppend
  <1>3. CASE AskBody
    <2>1. ClientWrites("body", asked) /\ asked \in Kinds
      BY <1>3, CrossFacts DEF AskBody, TypeOK
    <2>2. Count(requests', "request") = Count(requests, "request")
      BY <1>2, <2>1, OwedFacts
    <2>3. gtk = "body" /\ gtk' = "answer" /\ receiver' = receiver
      BY <1>3 DEF AskBody
    <2> QED
      BY <1>1, <2>2, <2>3, OwedFacts DEF NoUnsolicitedAnswer, Owed, Awaited
  <1>4. CASE QueryUserName
    <2>1. ClientWrites("request", "name") /\ receiver = "query" /\ receiver' = "name" /\ gtk' = gtk
      BY <1>4 DEF QueryUserName
    <2>2. Count(requests', "request") = Count(requests, "request") + 1
      BY <1>2, <2>1
    <2> QED
      BY <1>1, <2>1, <2>2, OwedFacts DEF NoUnsolicitedAnswer, Owed, Awaited
  <1>5. CASE \E kind \in Kinds : Ask(kind)
    <2>1. PICK kind \in Kinds : Ask(kind)
      BY <1>5
    <2>2. ClientWrites("request", kind) /\ gtk = "idle" /\ receiver' = receiver
      BY <2>1 DEF Ask
    <2>3. gtk' \in (IF kind = "silent" THEN {"idle"} ELSE {"body", "answer"})
      BY <2>1 DEF Ask
    <2>4. Count(requests', "request") = Count(requests, "request") + IF kind = "silent" THEN 0 ELSE 1
      BY <1>2, <2>2, OwedFacts
    <2> QED
      BY <1>1, <2>2, <2>3, <2>4, OwedFacts DEF NoUnsolicitedAnswer, Owed, Awaited
  <1> QED
    BY <1>3, <1>4, <1>5

\* A request is read, and answered or not.
LEMMA OwedServe ==
  ASSUME CrossInv, CrossInv', NoUnsolicitedAnswer, ReadRequest \/ ReadBody \/ Answer \/ AnswerList
  PROVE  NoUnsolicitedAnswer'
  <1>1. UNCHANGED <<gtk, receiver, lost>>
    BY DEF ReadRequest, ReadBody, Answer, AnswerList, client
  <1>2. CASE ReadRequest \/ ReadBody
    <2>0. answers' = answers /\ requests # <<>> /\ requests' = Tail(requests) /\ Head(requests) = requests[1]
      BY <1>2, CrossServerReads, CrossFacts, TailFacts DEF ReadRequest, ReadBody
    <2>1. Count(requests', "request") = Count(requests, "request")
            - IF requests[1].tag = "request" /\ requests[1].kind # "silent" THEN 1 ELSE 0
      BY <2>0, CrossFacts, CountTail
    <2>2. OwedBy(handler') <= OwedBy(handler)
            + IF requests[1].tag = "request" /\ requests[1].kind # "silent" THEN 1 ELSE 0
      BY <1>2, <2>0 DEF ReadRequest, ReadBody, OwedBy
    <2> QED
      BY <1>1, <2>0, <2>1, <2>2, OwedFacts DEF NoUnsolicitedAnswer, Owed, Awaited, OwedBy
  <1>3. CASE Answer \/ AnswerList
    <2>1. PICK tag \in {"answer", "list"} :
            /\ tag = IF handler = "answer" THEN "answer" ELSE "list"
            /\ \E ok \in BOOLEAN : ServerWrites(answers, tag, serving.kind, ok)
            /\ handler \in {"answer", "list"} /\ handler' \in {"list", "read"} /\ requests' = requests
      <3>1. serving.ok \in BOOLEAN
        BY CrossFacts DEF TypeOK
      <3> QED
        BY <1>3, <3>1 DEF Answer, AnswerList
    <2>2. PICK ok \in BOOLEAN : ServerWrites(answers, tag, serving.kind, ok)
      BY <2>1
    <2> DEFINE p == Encrypted(tag, serving.kind, ok, iv)
    <2>3. serving.kind \in Kinds \cup {"name"}
      BY CrossFacts DEF TypeOK
    <2>4. answers' = Append(answers, p) /\ p \in Packet /\ p.tag = tag
      BY <2>2, <2>3, CrossFacts DEF ServerWrites, Encrypted, Packet
    <2> HIDE DEF p
    <2>5. Count(answers', "answer") <= Count(answers, "answer") + IF tag = "answer" THEN 1 ELSE 0
      <3>1. answers \in Seq(Packet)
        BY CrossFacts
      <3>2. Count(answers, "answer") \in Nat
        BY <3>1, CountType
      <3>3. Count(Append(answers, p), "answer")
              = Count(answers, "answer") + IF p.tag = "answer" /\ p.kind # "silent" THEN 1 ELSE 0
        BY <2>4, <3>1, CountAppend
      <3>4. CASE tag = "answer"
        BY <2>4, <3>2, <3>3, <3>4
      <3>5. CASE tag # "answer"
        BY <2>4, <3>2, <3>3, <3>5
      <3> QED
        BY <3>4, <3>5
    <2>6. /\ Count(requests', "request") = Count(requests, "request")
          /\ Count(requests', "request") \in Nat /\ Count(answers', "answer") \in Nat
      <3>1. requests' \in Seq(Packet) /\ answers' \in Seq(Packet)
        BY DEF CrossInv, TypeInv, TypeOK
      <3> QED
        BY <2>1, <3>1, CountType
    <2>7. OwedBy(handler') + (IF tag = "answer" THEN 1 ELSE 0) <= OwedBy(handler)
      BY <2>1 DEF OwedBy
    <2>8. /\ Owed' = Count(requests', "request") + Count(answers', "answer") + OwedBy(handler')
          /\ Awaited' = Awaited /\ Awaited \in Nat
      BY <1>1 DEF Owed, Awaited, OwedBy
    <2>9. OwedBy(handler) \in Nat /\ OwedBy(handler') \in Nat
      BY DEF OwedBy
    <2>10. Owed' <= Owed /\ Owed \in Nat /\ Owed' \in Nat
      <3>1. CASE tag = "answer"
        BY <2>5, <2>6, <2>7, <2>8, <2>9, <3>1, OwedFacts
      <3>2. CASE tag # "answer"
        BY <2>5, <2>6, <2>7, <2>8, <2>9, <3>2, OwedFacts
      <3> QED
        BY <3>1, <3>2
    <2> QED
      BY <1>1, <2>8, <2>10 DEF NoUnsolicitedAnswer
  <1> QED
    BY <1>2, <1>3

\* An answer is read.  If it is the list that belongs to one, nothing is owed.
LEMMA OwedRead ==
  ASSUME CrossInv, CrossInv', NoUnsolicitedAnswer, ReadAnswer \/ ReadList \/ ReadName
  PROVE  NoUnsolicitedAnswer'
  <1>1. /\ answers # <<>> /\ answers' = Tail(answers) /\ UNCHANGED <<requests, handler, lost>>
        /\ AnswerShape /\ requests = <<>>
    BY CrossClientReads DEF ReadAnswer, ReadList, ReadName, Readable, Arrived, server
  <1>2. Count(requests, "request") = 0
    BY <1>1, CountEmpty
  <1>3. /\ Count(answers', "answer") = Count(answers, "answer") - IF IsAnswer(answers[1]) THEN 1 ELSE 0
        /\ Len(answers) \in Nat /\ Len(answers') = Len(answers) - 1 /\ answers' \in Seq(Packet)
    BY <1>1, CrossFacts, CountTail, TailFacts DEF IsAnswer
  <1>4. Awaited <= Awaited' + 1 /\ Awaited \in Nat /\ Awaited' \in Nat /\ (ReadList => Awaited' = Awaited)
    BY DEF ReadAnswer, ReadList, ReadName, Awaited
  <1>5. CASE IsAnswer(answers[1])
    BY <1>1, <1>3, <1>4, <1>5, OwedFacts DEF NoUnsolicitedAnswer, Owed
  <1>6. CASE ~IsAnswer(answers[1])
    <2>1. Len(answers) = 1 /\ handler = "read"
      BY <1>1, <1>6 DEF AnswerShape
    <2>2. Count(answers', "answer") = 0
      BY <1>3, <2>1, CountEmpty, EmptyFacts
    <2>3. Owed' = 0
      BY <1>1, <1>2, <2>1, <2>2 DEF Owed
    <2> QED
      BY <1>4, <2>3 DEF NoUnsolicitedAnswer
  <1> QED
    BY <1>5, <1>6

\* However requests, pushes and failures cross, and whatever thread takes whose
\* answer, there are never more answers to come than threads that wait for one,
\* as long as no request of the client was given up: in_handler answers a request
\* at most once (server_main.c), and a client that wrote while an answer was on
\* its way cannot read on.
THEOREM AnswersAreAsked == Spec => []NoUnsolicitedAnswer
<1>1. Init => CrossInv /\ NoUnsolicitedAnswer
  <2> SUFFICES ASSUME Init PROVE CrossInv /\ NoUnsolicitedAnswer
    OBVIOUS
  <2>1. CrossInv
    BY CrossInit
  <2>2. Count(requests, "request") = 0 /\ Count(answers, "answer") = 0 /\ handler = "read" /\ gtk = "idle"
    BY CountEmpty DEF Init
  <2> QED
    BY <2>1, <2>2 DEF Init, NoUnsolicitedAnswer, Owed, Awaited
<1>2. CrossInv /\ NoUnsolicitedAnswer /\ [Next]_vars => (CrossInv /\ NoUnsolicitedAnswer)'
  <2> SUFFICES ASSUME CrossInv, NoUnsolicitedAnswer, [Next]_vars PROVE (CrossInv /\ NoUnsolicitedAnswer)'
    OBVIOUS
  <2>1. CrossInv'
    BY CrossStep
  <2>2. CASE UNCHANGED <<requests, answers, handler, gtk, receiver, lost>>
    BY <2>1, <2>2 DEF NoUnsolicitedAnswer, Owed, Awaited
  <2>3. CASE ReadNull
    BY <2>1, <2>3 DEF ReadNull, NoUnsolicitedAnswer
  <2>4. CASE ReadPush \/ ReadPayload
    <3>1. receiver' # "name" /\ receiver # "name" /\ UNCHANGED <<requests, answers, handler, gtk, lost>>
      BY <2>4 DEF ReadPush, ReadPayload, server
    <3> QED
      BY <2>1, <3>1 DEF NoUnsolicitedAnswer, Owed, Awaited
  <2>5. Exit \/ ReceiverEnds \/ HandlerEnds \/ PushPayload \/ UNCHANGED vars \/ (\E more \in BOOLEAN : Push(more)) =>
          UNCHANGED <<requests, answers, handler, gtk, receiver, lost>>
    BY DEF Exit, ReceiverEnds, HandlerEnds, PushPayload, Push, vars, client, server
  <2> QED
    BY <2>1, <2>2, <2>3, <2>4, <2>5, OwedAsk, OwedServe, OwedRead
       DEF Next, GtkStep, ReceiverStep, HandlerStep, PusherStep
<1> QED
  BY <1>1, <1>2, PTL DEF Spec

-----------------------------------------------------------------------------
\* Chains that are not in step leave a trace: a packet that has not been read.

Trail ==
  \/ g_IV = iv \/ requests # <<>>
  \/ answers # <<>> /\ answers[Len(answers)].last = iv
  \/ pushes # <<>> /\ pushes[Len(pushes)].last = iv

LEMMA LastOfTail ==
  ASSUME NEW q \in Seq(Packet), q # <<>>, Tail(q) # <<>>
  PROVE  Tail(q)[Len(Tail(q))] = q[Len(q)]
OBVIOUS

LEMMA OnePacket ==
  ASSUME NEW q \in Seq(Packet), q # <<>>, Tail(q) = <<>>
  PROVE  Len(q) = 1 /\ Head(q) = q[1]
<1>1. Len(q) \in Nat /\ Len(Tail(q)) = Len(q) - 1 /\ Head(q) = q[1]
  BY Tailed
<1>2. Tail(q) \in Seq(Packet)
  BY Tailed
<1>3. Len(Tail(q)) = 0
  BY <1>2, EmptyFacts
<1> QED
  BY <1>1, <1>3

LEMMA TrailClientReads ==
  ASSUME CrossInv, Trail, UNCHANGED iv,
         \/ /\ Readable(answers, g_IV) /\ g_IV' = Head(answers).last
            /\ answers' = Tail(answers) /\ pushes' = pushes
         \/ /\ Readable(pushes, g_IV) /\ g_IV' = Head(pushes).last
            /\ pushes' = Tail(pushes) /\ answers' = answers
  PROVE  Trail'
<1>1. PICK q \in {answers, pushes} : Readable(q, g_IV)
  OBVIOUS
<1>2. requests = <<>> /\ q # <<>> /\ q[1].under = g_IV /\ 1 \in 1 .. Len(q) /\ ~Apart
  BY <1>1, ClientReads
<1>3. g_IV # iv
  <2>1. q[1].under < q[1].last /\ q[1].last <= iv
    BY <1>2, CrossFacts, AliveFacts
  <2>2. q[1].under \in Int /\ q[1].last \in Nat /\ iv \in Int
    BY <1>2, CrossFacts
  <2> QED
    BY <1>2, <2>1, <2>2
<1>4. ASSUME NEW r \in Seq(Packet), r # <<>>, r[Len(r)].last = iv
      PROVE  \/ Tail(r) # <<>> /\ Tail(r)[Len(Tail(r))].last = iv
             \/ Head(r).last = iv
  <2>1. CASE Tail(r) # <<>>
    BY <1>4, <2>1, LastOfTail
  <2>2. CASE Tail(r) = <<>>
    <3>1. Len(r) = 1 /\ Head(r) = r[1]
      BY <1>4, <2>2, OnePacket
    <3> QED
      BY <1>4, <3>1
  <2> QED
    BY <2>1, <2>2
<1>5. \/ answers # <<>> /\ answers[Len(answers)].last = iv
      \/ pushes # <<>> /\ pushes[Len(pushes)].last = iv
  BY <1>2, <1>3 DEF Trail
<1> QED
  BY <1>4, <1>5, CrossFacts DEF Trail

LEMMA TrailServerWrites ==
  ASSUME CrossInv, NEW tag \in {"answer", "list", "push", "payload"}, NEW kind \in Kinds \cup {"name"},
         NEW ok \in BOOLEAN,
         ServerWrites(answers, tag, kind, ok) \/ ServerWrites(pushes, tag, kind, ok)
  PROVE  Trail'
<1> DEFINE p == Encrypted(tag, kind, ok, iv)
<1>1. p \in Packet /\ p.last = iv'
  BY WrittenPacket, CrossFacts DEF ServerWrites
<1>2. answers' = Append(answers, p) \/ pushes' = Append(pushes, p)
  BY DEF ServerWrites
<1> HIDE DEF p
<1>3. ASSUME NEW q \in Seq(Packet)
      PROVE  Append(q, p) # <<>> /\ Append(q, p)[Len(Append(q, p))] = p
  <2>1. Append(q, p) # <<>> /\ Len(Append(q, p)) = Len(q) + 1 /\ Append(q, p)[Len(q) + 1] = p
    BY <1>1, Appended
  <2> QED
    BY <2>1
<1> QED
  BY <1>1, <1>2, <1>3, CrossFacts DEF Trail

\* The packet that was refused is still there, the newest of its channel with it.
LEMMA TrailRefusal == ASSUME CrossInv, Trail, Refusal PROVE Trail'
<1>1. CASE Garbled(requests, iv)
  BY <1>1 DEF Refusal, Trail, Garbled, Arrived
<1>2. CASE iv' = iv /\ g_IV # iv
  BY <1>2 DEF Refusal, Trail
<1>3. ASSUME g_IV = iv, NEW q \in {answers, pushes}, Garbled(q, g_IV)
      PROVE  FALSE
  <2>1. q # <<>> /\ q \in Seq(Packet)
    BY <1>3, CrossFacts DEF Garbled, Arrived
  <2>2. ServerAhead
    BY <1>3, <2>1, AliveFacts DEF Apart, ClientAhead
  <2>3. 1 \in 1 .. Len(q)
    BY <2>1, Tailed
  <2>4. g_IV <= q[1].under /\ q[1].under < q[1].last /\ q[1].last <= iv
    BY <1>3, <2>2, <2>3, CrossFacts, AliveFacts DEF ServerAhead, Since, Apart
  <2>5. g_IV \in Int /\ q[1].under \in Int /\ q[1].last \in Int
    BY <2>3, CrossFacts
  <2> QED
    BY <1>3, <2>4, <2>5
<1> QED
  BY <1>1, <1>2, <1>3 DEF Refusal

LEMMA TrailStep == CrossInv /\ Trail /\ [Next]_vars => Trail'
<1> SUFFICES ASSUME CrossInv, Trail, [Next]_vars PROVE Trail'
  OBVIOUS
<1>1. CASE AskBody \/ QueryUserName \/ \E kind \in Kinds : Ask(kind)
  <2>0. asked \in Kinds
    BY CrossFacts DEF TypeOK
  <2>1. PICK tag \in {"request", "body"}, kind \in Kinds \cup {"name"} : ClientWrites(tag, kind)
    BY <1>1, <2>0 DEF AskBody, QueryUserName, Ask
  <2>2. requests' # <<>>
    <3>1. Encrypted(tag, kind, TRUE, g_IV) \in Packet
      BY CrossFacts, WrittenPacket
    <3> QED
      BY <2>1, <3>1, CrossFacts, Appended DEF ClientWrites
  <2> QED
    BY <2>2 DEF Trail
<1>2. CASE PushPayload \/ \E more \in BOOLEAN : Push(more)
  <2>1. PICK tag \in {"push", "payload"} : \E ok \in BOOLEAN : ServerWrites(pushes, tag, "plain", ok)
    BY <1>2 DEF PushPayload, Push
  <2>2. "plain" \in Kinds \cup {"name"}
    BY DEF Kinds
  <2> QED
    BY <2>1, <2>2, TrailServerWrites
<1>3. CASE Answer \/ AnswerList
  <2>1. PICK tag \in {"answer", "list"} : \E ok \in BOOLEAN : ServerWrites(answers, tag, serving.kind, ok)
    BY <1>3, CrossFacts DEF Answer, AnswerList, TypeOK
  <2>2. serving.kind \in Kinds \cup {"name"}
    BY CrossFacts DEF TypeOK
  <2> QED
    BY <2>1, <2>2, TrailServerWrites
<1>4. CASE ReadAnswer \/ ReadList \/ ReadPush \/ ReadPayload \/ ReadName
  BY <1>4, TrailClientReads DEF ReadAnswer, ReadList, ReadPush, ReadPayload, ReadName
<1>5. CASE ReadRequest \/ ReadBody
  <2>1. /\ Readable(requests, iv) /\ iv' = Head(requests).last /\ requests' = Tail(requests)
        /\ UNCHANGED <<g_IV, written, answers, pushes>>
    BY <1>5 DEF ReadRequest, ReadBody
  <2>2. ClientAhead /\ requests # <<>> /\ Head(requests) = requests[1]
    BY <2>1, ServerReads
  <2>3. CASE requests' # <<>>
    BY <2>3 DEF Trail
  <2>4. CASE requests' = <<>>
    <3>1. Len(requests) = 1
      BY <2>1, <2>2, <2>4, CrossFacts, OnePacket
    <3>2. iv' = g_IV'
      BY <2>1, <2>2, <3>1 DEF ClientAhead
    <3> QED
      BY <3>2 DEF Trail
  <2> QED
    BY <2>3, <2>4
<1>6. CASE UNCHANGED <<g_IV, iv, requests, answers, pushes>>
  BY <1>6 DEF Trail
<1>7. CASE Exit \/ ReadNull \/ ReceiverEnds \/ HandlerEnds \/ UNCHANGED vars
  BY <1>6, <1>7, Refusals, TrailRefusal
<1> QED
  BY <1>1, <1>2, <1>3, <1>4, <1>5, <1>6, <1>7 DEF Next, GtkStep, ReceiverStep, HandlerStep, PusherStep

\* Whatever crosses and whatever fails, both ends of the AES-CBC chain hold the
\* same IV whenever nothing is going on: chains that have parted never look like
\* a session at rest, because a packet that nobody can read stays behind, in the
\* way of every later srv_ReadPacket on its connection.
THEOREM QuietIsInStep == Spec => []InStep
<1>1. Init => CrossInv /\ Trail
  <2>1. Init => Trail
    BY DEF Init, Trail
  <2> QED
    BY <2>1, CrossInit
<1>2. CrossInv /\ Trail /\ [Next]_vars => (CrossInv /\ Trail)'
  BY CrossStep, TrailStep
<1>3. CrossInv /\ Trail => InStep
  BY DEF Trail, InStep, Quiet
<1> QED
  BY <1>1, <1>2, <1>3, PTL DEF Spec

\* Once the two ends hold different IVs and neither can read what is under way,
\* it stays so: nothing either end writes brings the chains together again.
PartedForGood == [][Apart => Apart']_vars

\* A session whose AES-CBC chains have parted never recovers, whatever its
\* threads do (g_IV and the iv of the session are set only by AES_cbc_encrypt).
THEOREM PartedStayApart == Spec => PartedForGood
<1>1. CrossInv /\ [Next]_vars => [Apart => Apart']_vars
  <2> SUFFICES ASSUME CrossInv, Apart, [Next]_vars PROVE Apart'
    OBVIOUS
  <2>1. CASE AskBody \/ QueryUserName \/ \E kind \in Kinds : Ask(kind)
    <3>1. asked \in Kinds
      BY CrossFacts DEF TypeOK
    <3>2. PICK tag \in {"request", "body"} : \E kind \in Kinds \cup {"name"} : ClientWrites(tag, kind)
      BY <2>1, <3>1 DEF AskBody, QueryUserName, Ask
    <3>3. UNCHANGED <<iv, answers, pushes, handler, serving>>
      BY <2>1 DEF AskBody, QueryUserName, Ask, server
    <3> QED
      BY <3>2, <3>3, ClientWritesOn
  <2>2. CASE PushPayload \/ \E more \in BOOLEAN : Push(more)
    <3>1. PICK tag \in {"push", "payload"} : \E ok \in BOOLEAN : ServerWrites(pushes, tag, "plain", ok)
      BY <2>2 DEF PushPayload, Push
    <3>2. UNCHANGED <<g_IV, requests, answers>> /\ "plain" \in Kinds \cup {"name"}
      BY <2>2 DEF PushPayload, Push, client, Kinds
    <3> QED
      BY <3>1, <3>2, ServerWritesOn
  <2>3. CASE Answer \/ AnswerList
    <3>1. PICK tag \in {"answer", "list"} : \E ok \in BOOLEAN : ServerWrites(answers, tag, serving.kind, ok)
      BY <2>3, CrossFacts DEF Answer, AnswerList, TypeOK
    <3>2. serving.kind \in Kinds \cup {"name"} /\ UNCHANGED <<g_IV, requests, pushes>>
      BY <2>3, CrossFacts DEF Answer, AnswerList, TypeOK
    <3> QED
      BY <3>1, <3>2, ServerWritesOn
  <2>4. ~Readable(requests, iv) /\ ~Readable(answers, g_IV) /\ ~Readable(pushes, g_IV)
    <3>1. ASSUME NEW q \in Seq(Packet), NEW v, NoneUnder(q, v)
          PROVE  ~Readable(q, v)
      BY <3>1, Tailed DEF Readable, Arrived, NoneUnder
    <3> QED
      BY <3>1, CrossFacts DEF Apart
  <2>5. ~(ReadAnswer \/ ReadList \/ ReadPush \/ ReadPayload \/ ReadName \/ ReadRequest \/ ReadBody)
    BY <2>4 DEF ReadAnswer, ReadList, ReadPush, ReadPayload, ReadName, ReadRequest, ReadBody
  <2>6. CASE Exit \/ ReadNull \/ ReceiverEnds \/ HandlerEnds \/ UNCHANGED vars
    <3>1. CASE UNCHANGED <<g_IV, iv, requests, answers, pushes>>
      BY <3>1 DEF Apart
    <3> QED
      BY <2>6, <3>1, Refusals, RefusalParts
  <2> QED
    BY <2>1, <2>2, <2>3, <2>5, <2>6 DEF Next, GtkStep, ReceiverStep, HandlerStep, PusherStep
<1> QED
  BY <1>1, CrossInit, CrossStep, PTL DEF Spec, PartedForGood

-----------------------------------------------------------------------------
\* What it takes to lose a connection.

\* A packet of the channel leaves the value v.
Leaves(q, v) == \E m \in 1 .. Len(q) : q[m].last = v

\* Every packet of q continues the chain from v, or from another packet that
\* its reader has not read either, of q or of the other channel r.
Linked(q, r, v) ==
  \A n \in 1 .. Len(q) : q[n].under = v \/ Leaves(q, q[n].under) \/ Leaves(r, q[n].under)

LinkInv ==
  \/ Apart
  \/ /\ Linked(requests, <<>>, iv)
     /\ Linked(answers, pushes, g_IV) /\ Linked(pushes, answers, g_IV)

LEMMA LinkedWritten ==
  ASSUME NEW q \in Seq(Packet), NEW r \in Seq(Packet), NEW p \in Packet, NEW v,
         Linked(q, r, v), Linked(r, q, v),
         p.under = v \/ Leaves(q, p.under) \/ Leaves(r, p.under)
  PROVE  Linked(Append(q, p), r, v) /\ Linked(r, Append(q, p), v)
<1> DEFINE longer == Append(q, p)
<1>1. /\ Len(q) \in Nat /\ Len(longer) = Len(q) + 1 /\ longer[Len(q) + 1] = p
      /\ \A n \in 1 .. Len(q) : longer[n] = q[n]
      /\ \A n \in 1 .. Len(longer) : n \in 1 .. Len(q) \/ n = Len(q) + 1
  BY Appended
<1> HIDE DEF longer
<1>2. \A n \in 1 .. Len(q) : n \in 1 .. Len(longer)
  BY <1>1
<1>3. \A x : Leaves(q, x) => Leaves(longer, x)
  BY <1>1, <1>2 DEF Leaves
<1>4. Linked(r, longer, v)
  BY <1>3 DEF Linked
<1>5. ASSUME NEW n \in 1 .. Len(longer)
      PROVE  longer[n].under = v \/ Leaves(longer, longer[n].under) \/ Leaves(r, longer[n].under)
  <2>1. CASE n \in 1 .. Len(q)
    BY <1>1, <1>3, <2>1 DEF Linked
  <2>2. CASE n = Len(q) + 1
    BY <1>1, <1>3, <2>2
  <2> QED
    BY <1>1, <2>1, <2>2
<1>6. Linked(longer, r, v)
  BY <1>5 DEF Linked
<1> QED
  BY <1>4, <1>6 DEF longer

LEMMA LinkedRead ==
  ASSUME NEW q \in Seq(Packet), NEW r \in Seq(Packet), q # <<>>, NEW v \in Int, v < q[1].last,
         Linked(q, r, v), Linked(r, q, v),
         Since(Tail(q), q[1].last), Since(r, q[1].last)
  PROVE  Linked(Tail(q), r, q[1].last) /\ Linked(r, Tail(q), q[1].last)
<1> DEFINE rest == Tail(q)
           next == q[1].last
<1>1. /\ rest \in Seq(Packet) /\ Len(rest) = Len(q) - 1 /\ Len(q) \in Nat
      /\ \A n \in 1 .. Len(rest) : rest[n] = q[n + 1] /\ n + 1 \in 1 .. Len(q)
      /\ 1 \in 1 .. Len(q)
  BY Tailed
<1>2. next \in Nat
  BY <1>1, PacketNumbers
<1>3. ASSUME NEW x, Leaves(q, x)
      PROVE  x = next \/ Leaves(rest, x)
  <2>1. PICK m \in 1 .. Len(q) : q[m].last = x
    BY <1>3 DEF Leaves
  <2>2. CASE m = 1
    BY <2>1, <2>2
  <2>3. CASE m # 1
    <3>1. m - 1 \in 1 .. Len(rest) /\ (m - 1) + 1 = m
      BY <1>1, <2>3
    <3>2. rest[m - 1] = q[m]
      BY <1>1, <3>1
    <3> QED
      BY <2>1, <3>1, <3>2 DEF Leaves
  <2> QED
    BY <2>2, <2>3
<1> HIDE DEF rest, next
<1>4. ASSUME NEW u \in Seq(Packet), NEW n \in 1 .. Len(u), Since(u, next)
      PROVE  u[n].under # v
  <2>1. next <= u[n].under /\ u[n].under \in Int
    BY <1>4, PacketNumbers DEF Since
  <2>2. v < next
    BY DEF next
  <2> QED
    BY <1>2, <2>1, <2>2
<1>5. ASSUME NEW n \in 1 .. Len(rest)
      PROVE  rest[n].under = next \/ Leaves(rest, rest[n].under) \/ Leaves(r, rest[n].under)
  <2>1. rest[n].under # v
    BY <1>1, <1>4 DEF rest, next
  <2>2. rest[n] = q[n + 1] /\ n + 1 \in 1 .. Len(q)
    BY <1>1
  <2>3. Leaves(q, rest[n].under) \/ Leaves(r, rest[n].under)
    BY <2>1, <2>2 DEF Linked
  <2> QED
    BY <1>3, <2>3
<1>6. ASSUME NEW n \in 1 .. Len(r)
      PROVE  r[n].under = next \/ Leaves(r, r[n].under) \/ Leaves(rest, r[n].under)
  <2>1. r[n].under # v
    BY <1>4 DEF next
  <2>2. Leaves(q, r[n].under) \/ Leaves(r, r[n].under)
    BY <2>1 DEF Linked
  <2> QED
    BY <1>3, <2>2
<1>7. Linked(rest, r, next) /\ Linked(r, rest, next)
  BY <1>5, <1>6 DEF Linked
<1> QED
  BY <1>7 DEF rest, next

\* The oldest packet of the only channel that has any can be read.
LEMMA OnlyChannelIsReadable ==
  ASSUME NEW q \in Seq(Packet), q # <<>>, NEW v, Linked(q, <<>>, v),
         NEW newest, NumbersOf(q, newest), Ordered(q)
  PROVE  Readable(q, v)
<1>1. Head(q) = q[1] /\ 1 \in 1 .. Len(q) /\ Len(q) \in Nat
  BY Tailed
<1>2. ASSUME q[1].under # v
      PROVE  FALSE
  <2>1. ~Leaves(<<>>, q[1].under)
    BY EmptyFacts DEF Leaves
  <2>2. PICK m \in 1 .. Len(q) : q[m].last = q[1].under
    BY <1>1, <1>2, <2>1 DEF Linked, Leaves
  <2>3. /\ q[1].under < q[1].last /\ q[1].under \in Int /\ q[1].last \in Nat
        /\ q[m].under < q[m].last /\ q[m].under \in Int /\ q[m].last \in Nat
    BY <1>1, PacketNumbers DEF NumbersOf
  <2>4. m = 1 \/ 1 < m
    OBVIOUS
  <2>5. m = 1 \/ q[1].last <= q[m].under
    BY <1>1, <2>4 DEF Ordered
  <2>6. CASE m = 1
    BY <2>2, <2>3, <2>6
  <2>7. CASE q[1].last <= q[m].under
    BY <2>2, <2>3, <2>7
  <2> QED
    BY <2>5, <2>6, <2>7
<1> QED
  BY <1>1, <1>2 DEF Readable, Arrived

LEMMA LinkedEmpty == ASSUME NEW r, NEW v PROVE Linked(<<>>, r, v)
BY EmptyFacts DEF Linked

LEMMA LinkClientWrites ==
  ASSUME CrossInv, Trail, LinkInv, NEW tag \in {"request", "body"}, NEW kind \in Kinds \cup {"name"},
         ClientWrites(tag, kind), UNCHANGED <<iv, answers, pushes, handler, serving>>
  PROVE  LinkInv'
<1> DEFINE p == Encrypted(tag, kind, TRUE, g_IV)
<1>1. p \in Packet /\ p.under = g_IV /\ requests' = Append(requests, p)
  <2>1. p \in Packet /\ p.under = g_IV
    BY CrossFacts DEF Encrypted, Packet
  <2> QED
    BY <2>1 DEF ClientWrites
<1> HIDE DEF p
<1>2. SUFFICES ASSUME ~Apart'
               PROVE  /\ Linked(requests', <<>>, iv)
                      /\ Linked(answers, pushes, g_IV') /\ Linked(pushes, answers, g_IV')
  BY DEF LinkInv
<1>3. Alive' /\ ~Apart
  BY <1>2, ClientWritesOn
<1>4. requests' # <<>>
  BY <1>1, CrossFacts, Appended
<1>5. answers = <<>> /\ pushes = <<>>
  BY <1>3, <1>4 DEF Alive, ClientAhead, ServerAhead
<1>6. g_IV = iv \/ Leaves(requests, g_IV)
  <2>1. CASE requests = <<>>
    BY <1>5, <2>1 DEF Trail
  <2>2. CASE requests # <<>>
    <3>1. requests[Len(requests)].last = g_IV
      BY <1>3, <2>2 DEF CrossInv, Alive, ClientAhead, ServerAhead
    <3>2. Len(requests) \in 1 .. Len(requests)
      BY <2>2, CrossFacts, Tailed
    <3> QED
      BY <3>1, <3>2 DEF Leaves
  <2> QED
    BY <2>1, <2>2
<1>7. Linked(requests, <<>>, iv) /\ Linked(<<>>, requests, iv) /\ <<>> \in Seq(Packet)
  BY <1>3, LinkedEmpty, EmptyFacts DEF LinkInv
<1>8. Linked(Append(requests, p), <<>>, iv)
  BY <1>1, <1>6, <1>7, CrossFacts, LinkedWritten
<1> QED
  BY <1>1, <1>5, <1>8, LinkedEmpty

LEMMA LinkServerWrites ==
  ASSUME CrossInv, Trail, LinkInv, NEW tag \in {"answer", "list", "push", "payload"},
         NEW kind \in Kinds \cup {"name"}, NEW ok \in BOOLEAN,
         \/ ServerWrites(answers, tag, kind, ok) /\ pushes' = pushes
         \/ ServerWrites(pushes, tag, kind, ok) /\ answers' = answers,
         UNCHANGED <<g_IV, requests>>
  PROVE  LinkInv'
<1> DEFINE p == Encrypted(tag, kind, ok, iv)
<1>1. /\ p \in Packet /\ p.under = iv
      /\ \/ answers' = Append(answers, p) /\ pushes' = pushes
         \/ pushes' = Append(pushes, p) /\ answers' = answers
  BY CrossFacts, WrittenPacket DEF ServerWrites
<1> HIDE DEF p
<1>2. SUFFICES ASSUME ~Apart'
               PROVE  /\ Linked(requests, <<>>, iv')
                      /\ Linked(answers', pushes', g_IV) /\ Linked(pushes', answers', g_IV)
  BY DEF LinkInv
<1>3. ServerAhead /\ ~Apart
  BY <1>2, ServerWritesOn
<1>4. requests = <<>> /\ Linked(requests, <<>>, iv')
  BY <1>3, LinkedEmpty DEF ServerAhead
<1>5. iv = g_IV \/ Leaves(answers, iv) \/ Leaves(pushes, iv)
  <2>1. ASSUME NEW q \in Seq(Packet), q # <<>>, q[Len(q)].last = iv
        PROVE  Leaves(q, iv)
    <3>1. Len(q) \in 1 .. Len(q)
      BY <2>1, Tailed
    <3> QED
      BY <2>1, <3>1 DEF Leaves
  <2> QED
    BY <1>4, <2>1, CrossFacts DEF Trail
<1>6. Linked(answers, pushes, g_IV) /\ Linked(pushes, answers, g_IV)
  BY <1>3 DEF LinkInv
<1>7. CASE answers' = Append(answers, p) /\ pushes' = pushes
  <2>1. Linked(Append(answers, p), pushes, g_IV) /\ Linked(pushes, Append(answers, p), g_IV)
    BY <1>1, <1>5, <1>6, CrossFacts, LinkedWritten
  <2> QED
    BY <1>4, <1>7, <2>1
<1>8. CASE pushes' = Append(pushes, p) /\ answers' = answers
  <2>1. Linked(Append(pushes, p), answers, g_IV) /\ Linked(answers, Append(pushes, p), g_IV)
    BY <1>1, <1>5, <1>6, CrossFacts, LinkedWritten
  <2> QED
    BY <1>4, <1>8, <2>1
<1> QED
  BY <1>1, <1>7, <1>8

LEMMA LinkClientReads ==
  ASSUME CrossInv, LinkInv, UNCHANGED <<iv, requests>>,
         \/ /\ Readable(answers, g_IV) /\ g_IV' = Head(answers).last
            /\ answers' = Tail(answers) /\ pushes' = pushes
         \/ /\ Readable(pushes, g_IV) /\ g_IV' = Head(pushes).last
            /\ pushes' = Tail(pushes) /\ answers' = answers
  PROVE  LinkInv'
<1>1. ASSUME NEW q \in {answers, pushes}, NEW r \in {answers, pushes}, Readable(q, g_IV),
             Disjoint(q, r) \/ Disjoint(r, q), Linked(q, r, g_IV), Linked(r, q, g_IV)
      PROVE  /\ Head(q) = q[1]
             /\ Linked(Tail(q), r, q[1].last) /\ Linked(r, Tail(q), q[1].last)
  <2>1. q \in Seq(Packet) /\ r \in Seq(Packet) /\ g_IV \in Int
    BY CrossFacts
  <2>2. q # <<>> /\ Head(q) = q[1]
    BY <1>1, ClientReads
  <2>3. g_IV < q[1].last /\ Since(Tail(q), q[1].last) /\ Since(r, q[1].last)
    BY <1>1, ClientReadsOn
  <2> QED
    BY <1>1, <2>1, <2>2, <2>3, LinkedRead
<1>2. requests = <<>> /\ Disjoint(answers, pushes) /\ ~Apart
  <2>1. PICK q \in {answers, pushes} : Readable(q, g_IV)
    OBVIOUS
  <2>2. ServerAhead /\ q[1].under = g_IV /\ 1 \in 1 .. Len(q)
    BY <2>1, ClientReads
  <2> QED
    BY <2>2 DEF ServerAhead, Apart, NoneUnder
<1>3. Linked(answers, pushes, g_IV) /\ Linked(pushes, answers, g_IV)
  BY <1>2 DEF LinkInv
<1>4. Linked(requests', <<>>, iv')
  BY <1>2, LinkedEmpty
<1>5. Linked(answers', pushes', g_IV') /\ Linked(pushes', answers', g_IV')
  BY <1>1, <1>2, <1>3
<1> QED
  BY <1>4, <1>5 DEF LinkInv

LEMMA LinkServerReads ==
  ASSUME CrossInv, LinkInv, Readable(requests, iv), iv' = Head(requests).last,
         requests' = Tail(requests), UNCHANGED <<g_IV, answers, pushes>>
  PROVE  LinkInv'
<1>1. /\ answers = <<>> /\ pushes = <<>> /\ requests # <<>>
      /\ Head(requests) = requests[1] /\ requests[1] \in Packet
  BY ServerReads
<1>2. 1 \in 1 .. Len(requests) /\ requests[1].under = iv
  BY <1>1, CrossFacts, Tailed DEF Readable
<1>3. iv < requests[1].last /\ iv \in Int
  BY <1>2, CrossFacts
<1>4. Linked(requests, <<>>, iv) /\ Linked(<<>>, requests, iv) /\ <<>> \in Seq(Packet)
  BY <1>2, LinkedEmpty, EmptyFacts DEF LinkInv, Apart, NoneUnder
<1>5. Since(Tail(requests), requests[1].last) /\ Since(<<>>, requests[1].last)
  <2>1. NumbersOf(requests, g_IV) /\ Ordered(requests) /\ requests \in Seq(Packet)
    BY CrossFacts, ServerReads DEF NumberInv
  <2> QED
    BY <1>1, <2>1, ReadFrom, EmptyFacts DEF Since
<1>6. Linked(Tail(requests), <<>>, requests[1].last)
  BY <1>1, <1>3, <1>4, <1>5, CrossFacts, LinkedRead
<1> QED
  BY <1>1, <1>6, LinkedEmpty DEF LinkInv

LEMMA LinkStep == CrossInv /\ Trail /\ LinkInv /\ [Next]_vars => LinkInv'
<1> SUFFICES ASSUME CrossInv, Trail, LinkInv, [Next]_vars PROVE LinkInv'
  OBVIOUS
<1>1. CASE AskBody \/ QueryUserName \/ \E kind \in Kinds : Ask(kind)
  <2>1. asked \in Kinds
    BY CrossFacts DEF TypeOK
  <2>2. PICK tag \in {"request", "body"} : \E kind \in Kinds \cup {"name"} : ClientWrites(tag, kind)
    BY <1>1, <2>1 DEF AskBody, QueryUserName, Ask
  <2>3. UNCHANGED <<iv, answers, pushes, handler, serving>>
    BY <1>1 DEF AskBody, QueryUserName, Ask, server
  <2> QED
    BY <2>2, <2>3, LinkClientWrites
<1>2. CASE PushPayload \/ \E more \in BOOLEAN : Push(more)
  <2>1. PICK tag \in {"push", "payload"} : \E ok \in BOOLEAN : ServerWrites(pushes, tag, "plain", ok)
    BY <1>2 DEF PushPayload, Push
  <2>2. UNCHANGED <<g_IV, requests, answers>> /\ "plain" \in Kinds \cup {"name"}
    BY <1>2 DEF PushPayload, Push, client, Kinds
  <2> QED
    BY <2>1, <2>2, LinkServerWrites
<1>3. CASE Answer \/ AnswerList
  <2>1. PICK tag \in {"answer", "list"} : \E ok \in BOOLEAN : ServerWrites(answers, tag, serving.kind, ok)
    BY <1>3, CrossFacts DEF Answer, AnswerList, TypeOK
  <2>2. serving.kind \in Kinds \cup {"name"} /\ UNCHANGED <<g_IV, requests, pushes>>
    BY <1>3, CrossFacts DEF Answer, AnswerList, TypeOK
  <2> QED
    BY <2>1, <2>2, LinkServerWrites
<1>4. CASE ReadAnswer \/ ReadList \/ ReadPush \/ ReadPayload \/ ReadName
  BY <1>4, LinkClientReads DEF ReadAnswer, ReadList, ReadPush, ReadPayload, ReadName, server
<1>5. CASE ReadRequest \/ ReadBody
  BY <1>5, LinkServerReads DEF ReadRequest, ReadBody
<1>6. CASE UNCHANGED <<g_IV, iv, requests, answers, pushes>>
  BY <1>6 DEF LinkInv, Apart
<1>7. CASE Exit \/ ReadNull \/ ReceiverEnds \/ HandlerEnds \/ UNCHANGED vars
  BY <1>6, <1>7, Refusals, RefusalParts DEF LinkInv
<1> QED
  BY <1>1, <1>2, <1>3, <1>4, <1>5, <1>6, <1>7 DEF Next, GtkStep, ReceiverStep, HandlerStep, PusherStep

\* Why a connection is lost while both ends are there ("Client disconnected" in
\* server_main.c, "Server Disconnected" in handler.c, a NULL answer in the GTK
\* thread): nothing but writes that cross, or two packets that the client's two
\* threads read in the wrong order, whatever fails in the server.
THEOREM LossesAreCrossings == Spec => LostOnlyByCrossing
<1>1. Init => CrossInv /\ Trail /\ LinkInv
  <2>1. Init => Trail /\ LinkInv
    BY LinkedEmpty DEF Init, Trail, LinkInv
  <2> QED
    BY <2>1, CrossInit
<1>2. CrossInv /\ Trail /\ LinkInv /\ [Next]_vars => (CrossInv /\ Trail /\ LinkInv)'
  BY CrossStep, TrailStep, LinkStep
<1>3. CrossInv /\ LinkInv /\ [Next]_vars =>
        [Running("client") /\ Running("client")' =>
           /\ (Running("handler") /\ ~Running("handler")') => Apart
           /\ (Running("handler") /\ Running("receiver") /\ ~Running("receiver")')
                => Apart \/ BothChannels
           /\ (Running("handler") /\ ~lost /\ lost') => Apart \/ BothChannels]_vars
  <2> SUFFICES ASSUME CrossInv, LinkInv, [Next]_vars, Running("client"), Running("client")',
                      Running("handler")
               PROVE  /\ ~Running("handler")' => Apart
                      /\ (Running("receiver") /\ ~Running("receiver")') => Apart \/ BothChannels
                      /\ (~lost /\ lost') => Apart \/ BothChannels
    OBVIOUS
  <2>1. Garbled(requests, iv) => Apart
    <3> SUFFICES ASSUME Garbled(requests, iv), ~Apart PROVE FALSE
      OBVIOUS
    <3>1. Linked(requests, <<>>, iv) /\ requests # <<>>
      BY DEF LinkInv, Garbled, Arrived
    <3>2. requests \in Seq(Packet) /\ NumbersOf(requests, g_IV) /\ Ordered(requests)
      BY CrossFacts, AliveFacts DEF NumberInv
    <3> QED
      BY <3>1, <3>2, OnlyChannelIsReadable DEF Readable, Garbled
  <2>2. Garbled(answers, g_IV) \/ Garbled(pushes, g_IV) => Apart \/ BothChannels
    <3> SUFFICES ASSUME NEW q \in {answers, pushes}, Garbled(q, g_IV), ~Apart, ~BothChannels
                 PROVE  FALSE
      OBVIOUS
    <3>1. q # <<>> /\ Linked(q, <<>>, g_IV)
      BY DEF LinkInv, BothChannels, Garbled, Arrived
    <3>2. q \in Seq(Packet) /\ NumbersOf(q, iv) /\ Ordered(q)
      BY CrossFacts, AliveFacts DEF NumberInv
    <3> QED
      BY <3>1, <3>2, OnlyChannelIsReadable DEF Readable, Garbled
  <2>3. CASE HandlerEnds
    BY <2>1, <2>3 DEF HandlerEnds, Running
  <2>4. CASE ReceiverEnds
    BY <2>2, <2>4 DEF ReceiverEnds, ClientGetsNull, Running
  <2>5. CASE ReadNull
    BY <2>2, <2>5 DEF ReadNull, ClientGetsNull, Running
  <2>6. CASE Exit
    BY <2>6 DEF Exit, Running
  <2>7. CASE UNCHANGED <<gone, lost>>
    BY <2>7 DEF Running
  <2>8. HandlerEnds \/ ReceiverEnds \/ ReadNull \/ Exit \/ UNCHANGED <<gone, lost>>
    BY DEF Next, GtkStep, ReceiverStep, HandlerStep, PusherStep, vars, Ask, AskBody, ReadAnswer, ReadList,
           ReadPush, ReadPayload, QueryUserName, ReadName, ReadRequest, ReadBody, Answer, AnswerList,
           Push, PushPayload
  <2> QED
    BY <2>3, <2>4, <2>5, <2>6, <2>7, <2>8
<1> QED
  BY <1>1, <1>2, <1>3, PTL DEF Spec, LostOnlyByCrossing

=============================================================================
