---------------------------- MODULE PushChannelProofs ----------------------------
(***************************************************************************)
(* Proofs about PushChannel, for any handlers, kinds, sizes, room and      *)
(* number of pushes: broadcasts keep their packets together, the receiver  *)
(* of a connection that is not spoilt ends only over the sizes of GroupGap,*)
(* and a connection on which no two pushes overlap is a queue of whole     *)
(* messages.                                                               *)
(***************************************************************************)
EXTENDS PushChannel, TLAPS

-----------------------------------------------------------------------------
\* The lengths of Wire, for every size.

\* Below the word's range nothing wraps.
LEMMA NoWrap ==
  ASSUME NEW a \in Nat, NEW b \in Nat, a < b
  PROVE  a % b = a
  OBVIOUS

\* Padding adds between one byte and sixteen, up to a multiple of sixteen.
LEMMA SendSizeBounds ==
  ASSUME NEW size \in 0 .. (Word - 17)
  PROVE  /\ SendSize(size) \in Nat
         /\ SendSize(size) % 16 = 0
         /\ size < SendSize(size)
         /\ SendSize(size) <= size + 16
  <1>1. Word \in Nat /\ Word % 16 = 0 /\ size \in Nat /\ size + 16 < Word
    BY WireAssumption
  <1>2. (size + 15) % Word = size + 15 /\ (size + 16) % Word = size + 16
    BY <1>1
  <1>3. RoundUp16(size) = (size + 15) - ((size + 15) % 16)
    BY <1>2 DEF RoundUp16
  <1> DEFINE round == (size + 15) - ((size + 15) % 16)
  <1>4. round \in Nat /\ round % 16 = 0 /\ size <= round /\ round <= size + 15
    BY <1>1
  <1>5. SendSize(size) = IF round = size THEN size + 16 ELSE round
    BY <1>2, <1>3 DEF SendSize
  <1>6. round = size => (size + 16) % 16 = 0
    BY <1>1, <1>4
  <1> HIDE DEF round
  <1> QED
    BY <1>1, <1>4, <1>5, <1>6

\* A packet is read whole, cut to what the reader asked for, exactly when its
\* unpadded size stays sixteen bytes below the limit; else it is refused.
THEOREM ReceivedWhole ==
  ASSUME NEW size \in 0 .. (MaxPacket - 17), NEW maxsize \in 0 .. (Word - 17)
  PROVE  Received(size, maxsize) = IF maxsize < size THEN maxsize ELSE size
  <1>1. /\ MaxPacket \in Nat /\ Word \in Nat /\ MaxPacket % 16 = 0
        /\ Word > 2 * MaxPacket /\ size \in Nat /\ maxsize \in Nat
        /\ size <= MaxPacket - 17 /\ maxsize + 16 < Word
    BY WireAssumption
  <1> DEFINE sent == SendSize(size)
  <1>2. sent \in Nat /\ sent % 16 = 0 /\ size < sent /\ sent <= size + 16
    <2>1. size \in 0 .. (Word - 17)
      BY <1>1
    <2> QED
      BY <2>1, SendSizeBounds
  <1>3. sent < MaxPacket /\ sent + 16 < Word
    BY <1>1, <1>2
  <1> DEFINE pad == sent - size
             buf == BufSize(maxsize, sent)
  <1>4. pad \in 1 .. 16 /\ buf \in Nat /\ buf <= sent /\ buf <= maxsize
        /\ (buf = sent \/ buf = maxsize)
    BY <1>1, <1>2 DEF BufSize
  <1>5. (pad + buf) % Word = pad + buf
    <2>1. pad + buf \in Nat /\ pad + buf < Word
      BY <1>1, <1>4
    <2> HIDE DEF pad, buf
    <2> QED
      BY <2>1, <1>1, NoWrap
  <1>6. Received(size, maxsize) = Decrypted(sent, pad, buf)
    BY <1>1, <1>2, <1>3 DEF Received, Padding
  <1>7. Decrypted(sent, pad, buf) = IF pad + buf < sent THEN buf ELSE sent - pad
    BY <1>2, <1>4, <1>5 DEF Decrypted
  <1> QED
    BY <1>1, <1>2, <1>4, <1>6, <1>7 DEF BufSize

THEOREM RefusedAbove ==
  ASSUME NEW size \in (MaxPacket - 16) .. (Word - 17), NEW maxsize \in Nat
  PROVE  Received(size, maxsize) = Refused
  <1>1. /\ MaxPacket \in Nat /\ Word \in Nat /\ MaxPacket % 16 = 0
        /\ MaxPacket >= 32 /\ size \in 0 .. (Word - 17) /\ size >= MaxPacket - 16
    BY WireAssumption
  <1>2. SendSize(size) \in Nat /\ SendSize(size) % 16 = 0 /\ size < SendSize(size)
    BY <1>1, SendSizeBounds
  <1>3. SendSize(size) >= MaxPacket
    BY <1>1, <1>2
  <1> QED
    BY <1>3 DEF Received

\* Four sizes of a group message are taken by the server and refused by every
\* member it is passed on to.
THEOREM GroupGap ==
  ASSUME NEW msglen \in Nat, msglen + GidSize + 16 < Word
  PROVE  TakesGroupMessage(msglen) /\ (\A maxsize \in Nat :
           Received(msglen + GidSize, maxsize) = Refused)
         <=> msglen \in (MaxPacket - 20) .. (MaxPacket - 17)
  <1>1. /\ MaxPacket \in Nat /\ Word \in Nat /\ MaxPacket >= 32 /\ Word > 2 * MaxPacket
        /\ msglen + 20 < Word
    BY WireAssumption DEF GidSize
  <1>2. CASE msglen > MaxPacket - 17
    <2>1. msglen \in (MaxPacket - 16) .. (Word - 17)
      BY <1>1, <1>2
    <2>2. Received(msglen, msglen) = Refused
      BY <2>1, RefusedAbove
    <2> QED
      BY <1>1, <1>2, <2>2 DEF TakesGroupMessage
  <1>3. CASE msglen <= MaxPacket - 17
    <2>1. msglen \in 0 .. (MaxPacket - 17) /\ msglen \in 0 .. (Word - 17)
      BY <1>1, <1>3
    <2>2. Received(msglen, msglen) = msglen
      BY <2>1, ReceivedWhole, <1>1
    <2>3. TakesGroupMessage(msglen)
      BY <1>1, <1>3, <2>2 DEF TakesGroupMessage, Refused
    <2>4. CASE msglen >= MaxPacket - 20
      <3>1. msglen + GidSize \in (MaxPacket - 16) .. (Word - 17)
        BY <1>1, <2>4 DEF GidSize
      <3>2. \A maxsize \in Nat : Received(msglen + GidSize, maxsize) = Refused
        BY <3>1, RefusedAbove
      <3> QED
        BY <1>1, <1>3, <2>3, <2>4, <3>2
    <2>5. CASE msglen < MaxPacket - 20
      <3>1. msglen + GidSize \in 0 .. (MaxPacket - 17) /\ 0 \in 0 .. (Word - 17)
        BY <1>1, <2>5 DEF GidSize
      <3>2. Received(msglen + GidSize, 0) # Refused
        BY <3>1, ReceivedWhole, <1>1 DEF Refused, GidSize
      <3> QED
        BY <1>1, <2>5, <3>2
    <2> QED
      BY <1>1, <2>4, <2>5
  <1> QED
    BY <1>1, <1>2, <1>3

-----------------------------------------------------------------------------
\* The connection.

Packets == [of : Push, part : {"header", "body"}]

TypeInv ==
  /\ pc \in [Handlers -> PCs]
  /\ push \in [Handlers -> Push \cup {NoPush}]
  /\ channel \in Seq(Packets)
  /\ receiver \in {"header", "body", "name", "window", "notice", "show", "file", "ended"}
  /\ reading \in Push \cup {NoPush}
  /\ posted \in Nat
  /\ shown \in Seq(Nat \X Nat)

\* What the place of a handler says of its push and of the mutex.
PlaceInv ==
  \A h \in Handlers :
    /\ pc[h] = "idle" => push[h] = NoPush
    /\ pc[h] \in {"lock", "header", "between", "body"} => push[h] \in Push
    /\ pc[h] = "lookup" => push[h].kind \notin Broadcasts
    /\ pc[h] = "lock" => push[h].kind \in Broadcasts
    /\ pc[h] \in {"between", "body"} => HasBody(push[h].kind)
    /\ pc[h] \in {"header", "between", "body"} /\ push[h].kind \in Broadcasts => holder = h

ReadInv ==
  IF receiver = "body" THEN reading \in Push /\ HasBody(reading.kind)
                       ELSE receiver # "ended" => reading = NoPush

BaseInv == TypeInv /\ PlaceInv /\ ReadInv

-----------------------------------------------------------------------------
\* Types and places.

LEMMA KindsAreReal ==
  ASSUME NEW p \in Push
  PROVE  p # NoPush /\ p.kind \in AllKinds
<1>1. p.kind \in AllKinds
  BY PushChannelAssumption DEF Push
<1>2. p.kind # "none"
  BY <1>1 DEF AllKinds, Broadcasts, Plain, Relayed
<1> QED
  BY <1>1, <1>2 DEF NoPush

LEMMA AppendFacts ==
  ASSUME NEW S, NEW q \in Seq(S), NEW x \in S
  PROVE  /\ Append(q, x) \in Seq(S) /\ Len(q) \in Nat
         /\ Len(Append(q, x)) = Len(q) + 1
         /\ \A i \in 1 .. Len(q) : Append(q, x)[i] = q[i]
         /\ Append(q, x)[Len(q) + 1] = x
         /\ \A i \in 1 .. Len(q) + 1 : i \in 1 .. Len(q) \/ i = Len(q) + 1
OBVIOUS

LEMMA PairFacts ==
  ASSUME NEW q \in Seq(Nat \X Nat), NEW m \in Nat, NEW n \in Nat
  PROVE  /\ Append(q, <<m, n>>) \in Seq(Nat \X Nat) /\ Len(q) \in Nat
         /\ Len(Append(q, <<m, n>>)) = Len(q) + 1
         /\ \A i \in 1 .. Len(q) : Append(q, <<m, n>>)[i] = q[i]
         /\ Append(q, <<m, n>>)[Len(q) + 1] = <<m, n>>
OBVIOUS

LEMMA TailFacts ==
  ASSUME NEW S, NEW q \in Seq(S), q # <<>>
  PROVE  /\ Tail(q) \in Seq(S) /\ Len(q) \in Nat /\ Len(q) >= 1
         /\ Head(q) = q[1] /\ q[1] \in S
         /\ Len(Tail(q)) = Len(q) - 1
         /\ \A i \in 1 .. Len(q) - 1 : Tail(q)[i] = q[i + 1] /\ i + 1 \in 1 .. Len(q)
OBVIOUS

LEMMA EmptyFacts ==
  ASSUME NEW S, NEW q \in Seq(S)
  PROVE  Len(q) \in Nat /\ (q = <<>> <=> Len(q) = 0) /\ \A i \in 1 .. Len(q) : q[i] \in S
OBVIOUS

LEMMA FinishBase ==
  ASSUME TypeInv, PlaceInv, NEW h \in Handlers, Finish(h)
  PROVE  /\ pc' \in [Handlers -> PCs] /\ push' \in [Handlers -> Push \cup {NoPush}]
         /\ PlaceInv'
<1>1. /\ pc' = [pc EXCEPT ![h] = "idle"] /\ push' = [push EXCEPT ![h] = NoPush]
      /\ holder' = IF holder = h THEN None ELSE holder
  BY DEF Finish, Goto
<1>2. pc' \in [Handlers -> PCs] /\ push' \in [Handlers -> Push \cup {NoPush}]
  BY <1>1 DEF TypeInv, PCs
<1>3. ASSUME NEW g \in Handlers
      PROVE  /\ g = h => pc'[g] = "idle" /\ push'[g] = NoPush
             /\ g # h => pc'[g] = pc[g] /\ push'[g] = push[g] /\ (holder = g => holder' = g)
  BY <1>1 DEF TypeInv
<1>4. PlaceInv'
  BY <1>3 DEF PlaceInv
<1> QED
  BY <1>2, <1>4

\* The steps of handlers that write nothing.
LEMMA QuietSteps ==
  ASSUME BaseInv, NEW h \in Handlers,
         \/ \E kind \in Kinds, size \in Sizes : Begin(h, kind, size)
         \/ h = Home /\ BeginElsewhere
         \/ Lookup(h) \/ Lock(h) \/ EnterBody(h)
  PROVE  BaseInv'
<1>1. UNCHANGED <<channel, receiver, reading, posted, shown>>
  BY DEF Begin, BeginElsewhere, Lookup, Lock, EnterBody
<1>2. ReadInv'
  BY <1>1 DEF BaseInv, ReadInv
<1> SUFFICES pc' \in [Handlers -> PCs] /\ push' \in [Handlers -> Push \cup {NoPush}] /\ PlaceInv'
  BY <1>1, <1>2 DEF BaseInv, TypeInv
<1>3. ASSUME NEW kind \in Kinds, NEW size \in Sizes, Begin(h, kind, size)
      PROVE  pc' \in [Handlers -> PCs] /\ push' \in [Handlers -> Push \cup {NoPush}] /\ PlaceInv'
  <2> DEFINE p == [kind |-> kind, size |-> size, number |-> 0]
  <2>1. /\ push' = [push EXCEPT ![h] = p] /\ UNCHANGED holder
        /\ pc' = [pc EXCEPT ![h] = IF kind \in Broadcasts THEN "lock" ELSE "lookup"]
    BY <1>3 DEF Begin, Goto
  <2>2. p \in Push /\ p.kind = kind
    BY DEF Push
  <2> HIDE DEF p
  <2>3. pc' \in [Handlers -> PCs] /\ push' \in [Handlers -> Push \cup {NoPush}]
    BY <2>1, <2>2 DEF BaseInv, TypeInv, PCs
  <2>4. ASSUME NEW g \in Handlers
        PROVE  /\ g = h => /\ push'[g] = p
                           /\ pc'[g] = IF kind \in Broadcasts THEN "lock" ELSE "lookup"
               /\ g # h => pc'[g] = pc[g] /\ push'[g] = push[g]
    BY <2>1 DEF BaseInv, TypeInv
  <2>5. PlaceInv'
    BY <2>1, <2>2, <2>4 DEF BaseInv, PlaceInv
  <2> QED
    BY <2>3, <2>5
<1>4. CASE h = Home /\ BeginElsewhere
  <2>1. pc[h] = "idle" /\ pc' = [pc EXCEPT ![h] = "lookup"] /\ UNCHANGED <<push, holder>>
    BY <1>4 DEF BeginElsewhere, Goto
  <2>2. pc' \in [Handlers -> PCs]
    BY <2>1 DEF BaseInv, TypeInv, PCs
  <2>3. \A g \in Handlers : pc'[g] = IF g = h THEN "lookup" ELSE pc[g]
    BY <2>1 DEF BaseInv, TypeInv
  <2>4. push[h].kind \notin Broadcasts
    BY <2>1 DEF BaseInv, PlaceInv, NoPush, Broadcasts
  <2>5. PlaceInv'
    BY <2>1, <2>3, <2>4 DEF BaseInv, PlaceInv
  <2> QED
    BY <2>1, <2>2, <2>5 DEF BaseInv, TypeInv
<1>5. CASE Lookup(h)
  <2>1. CASE push[h] = NoPush
    BY <1>5, <2>1, FinishBase DEF Lookup, BaseInv
  <2>2. CASE push[h] # NoPush
    <3>1. pc[h] = "lookup" /\ pc' = [pc EXCEPT ![h] = "header"] /\ UNCHANGED <<push, holder>>
      BY <1>5, <2>2 DEF Lookup, EnterWrite, Goto
    <3>2. pc' \in [Handlers -> PCs] /\ push[h] \in Push
      BY <2>2, <3>1 DEF BaseInv, TypeInv, PCs
    <3>3. \A g \in Handlers : pc'[g] = IF g = h THEN "header" ELSE pc[g]
      BY <3>1 DEF BaseInv, TypeInv
    <3>4. PlaceInv'
      BY <3>1, <3>2, <3>3 DEF BaseInv, PlaceInv
    <3> QED
      BY <3>1, <3>2, <3>4 DEF BaseInv, TypeInv
  <2> QED
    BY <2>1, <2>2
<1>6. CASE Lock(h)
  <2>1. /\ pc[h] = "lock" /\ holder = None /\ holder' = h
        /\ pc' = [pc EXCEPT ![h] = "header"] /\ UNCHANGED push
    BY <1>6 DEF Lock, EnterWrite, Goto
  <2>2. pc' \in [Handlers -> PCs]
    BY <2>1 DEF BaseInv, TypeInv, PCs
  <2>3. \A g \in Handlers : pc'[g] = IF g = h THEN "header" ELSE pc[g]
    BY <2>1 DEF BaseInv, TypeInv
  <2>4. \A g \in Handlers : g # None
    BY PushChannelAssumption
  <2>5. PlaceInv'
    BY <2>1, <2>3, <2>4 DEF BaseInv, PlaceInv
  <2> QED
    BY <2>1, <2>2, <2>5 DEF BaseInv, TypeInv
<1>7. CASE EnterBody(h)
  <2>1. pc[h] = "between" /\ pc' = [pc EXCEPT ![h] = "body"] /\ UNCHANGED <<push, holder>>
    BY <1>7 DEF EnterBody, EnterWrite, Goto
  <2>2. pc' \in [Handlers -> PCs]
    BY <2>1 DEF BaseInv, TypeInv, PCs
  <2>3. \A g \in Handlers : pc'[g] = IF g = h THEN "body" ELSE pc[g]
    BY <2>1 DEF BaseInv, TypeInv
  <2>4. PlaceInv'
    BY <2>1, <2>3 DEF BaseInv, PlaceInv
  <2> QED
    BY <2>1, <2>2, <2>4 DEF BaseInv, TypeInv
<1> QED
  BY <1>3, <1>4, <1>5, <1>6, <1>7

\* A header: the packet, and the handler that goes on to its body or to the end.
LEMMA HeaderFacts ==
  ASSUME BaseInv, NEW h \in Handlers, WriteHeader(h)
  PROVE  LET p == [push[h] EXCEPT !.number = posted + 1]
         IN  /\ p \in Push /\ p.number = posted + 1 /\ p.kind = push[h].kind
             /\ channel' = Append(channel, [of |-> p, part |-> "header"])
             /\ [of |-> p, part |-> "header"] \in Packets
             /\ posted' = posted + 1
             /\ UNCHANGED <<receiver, reading, shown>>
             /\ HasBody(push[h].kind) => /\ push' = [push EXCEPT ![h] = p]
                                         /\ pc' = [pc EXCEPT ![h] = "between"]
                                         /\ UNCHANGED holder
             /\ ~HasBody(push[h].kind) => Finish(h)
<1>1. push[h] \in Push /\ pc[h] = "header" /\ posted \in Nat
  BY DEF WriteHeader, BaseInv, PlaceInv, TypeInv
<1> DEFINE p == [push[h] EXCEPT !.number = posted + 1]
<1>2. p \in Push /\ p.number = posted + 1 /\ p.kind = push[h].kind
  BY <1>1 DEF Push
<1>3. [of |-> p, part |-> "header"] \in Packets
  BY <1>2 DEF Packets
<1> QED
  BY <1>2, <1>3 DEF WriteHeader, Goto

LEMMA WriteSteps ==
  ASSUME BaseInv, NEW h \in Handlers, WriteHeader(h) \/ WriteBody(h) \/ WriteFails(h)
  PROVE  BaseInv'
<1>1. CASE WriteHeader(h)
  <2> DEFINE p == [push[h] EXCEPT !.number = posted + 1]
  <2>1. /\ p \in Push /\ p.number = posted + 1 /\ p.kind = push[h].kind
        /\ channel' = Append(channel, [of |-> p, part |-> "header"])
        /\ [of |-> p, part |-> "header"] \in Packets
        /\ posted' = posted + 1
        /\ UNCHANGED <<receiver, reading, shown>>
        /\ HasBody(push[h].kind) => /\ push' = [push EXCEPT ![h] = p]
                                    /\ pc' = [pc EXCEPT ![h] = "between"]
                                    /\ UNCHANGED holder
        /\ ~HasBody(push[h].kind) => Finish(h)
    BY <1>1, HeaderFacts
  <2> HIDE DEF p
  <2>2. channel' \in Seq(Packets) /\ posted' \in Nat
    BY <2>1, AppendFacts DEF BaseInv, TypeInv
  <2>3. ReadInv'
    BY <2>1 DEF BaseInv, ReadInv
  <2>4. pc' \in [Handlers -> PCs] /\ push' \in [Handlers -> Push \cup {NoPush}] /\ PlaceInv'
    <3>1. CASE ~HasBody(push[h].kind)
      BY <2>1, <3>1, FinishBase DEF BaseInv
    <3>2. CASE HasBody(push[h].kind)
      <4>1. pc' \in [Handlers -> PCs] /\ push' \in [Handlers -> Push \cup {NoPush}]
        BY <2>1, <3>2 DEF BaseInv, TypeInv, PCs
      <4>2. \A g \in Handlers : /\ g = h => pc'[g] = "between" /\ push'[g] = p
                                /\ g # h => pc'[g] = pc[g] /\ push'[g] = push[g]
        BY <2>1, <3>2 DEF BaseInv, TypeInv
      <4>3. pc[h] = "header"
        BY <1>1 DEF WriteHeader
      <4>4. PlaceInv'
        BY <2>1, <3>2, <4>2, <4>3 DEF BaseInv, PlaceInv
      <4> QED
        BY <4>1, <4>4
    <3> QED
      BY <3>1, <3>2
  <2> QED
    BY <2>1, <2>2, <2>3, <2>4 DEF BaseInv, TypeInv
<1>2. CASE WriteBody(h)
  <2>1. /\ pc[h] \in {"between", "body"} /\ Finish(h)
        /\ channel' = Append(channel, [of |-> push[h], part |-> "body"])
        /\ UNCHANGED <<receiver, reading, posted, shown>>
    BY <1>2 DEF WriteBody
  <2>2. [of |-> push[h], part |-> "body"] \in Packets
    BY <2>1 DEF BaseInv, PlaceInv, Packets
  <2>3. channel' \in Seq(Packets)
    BY <2>1, <2>2, AppendFacts DEF BaseInv, TypeInv
  <2>4. ReadInv'
    BY <2>1 DEF BaseInv, ReadInv
  <2> QED
    BY <2>1, <2>3, <2>4, FinishBase DEF BaseInv, TypeInv
<1>3. CASE WriteFails(h)
  <2>1. Finish(h) /\ UNCHANGED <<channel, receiver, reading, posted, shown>>
    BY <1>3 DEF WriteFails
  <2>2. ReadInv'
    BY <2>1 DEF BaseInv, ReadInv
  <2> QED
    BY <2>1, <2>2, FinishBase DEF BaseInv, TypeInv
<1> QED
  BY <1>1, <1>2, <1>3

\* The client's side, and the handler's answer, do not touch the handlers' pushes.
LEMMA ClientBase ==
  ASSUME BaseInv, \/ AnswerName \/ Ask \/ ReadHeader \/ ReadBody \/ ReadRefused
                  \/ AppendText \/ AddHistory
  PROVE  BaseInv'
<1>1. UNCHANGED <<pc, push, holder, posted>>
  BY DEF AnswerName, Ask, ReadHeader, ReadBody, ReadRefused, AppendText, AddHistory
<1>2. PlaceInv'
  BY <1>1 DEF BaseInv, PlaceInv
<1>3. CASE Ask
  BY <1>1, <1>2, <1>3 DEF Ask, BaseInv, TypeInv, ReadInv
<1>4. CASE AnswerName \/ AppendText \/ AddHistory
  <2>1. /\ UNCHANGED <<channel, reading, shown>>
        /\ \/ receiver' = receiver
           \/ /\ receiver \notin {"body", "ended"}
              /\ receiver' \in {"name", "header", "show", "file"}
    BY <1>4 DEF AnswerName, AppendText, AddHistory
  <2>2. ReadInv'
    BY <2>1 DEF BaseInv, ReadInv
  <2> QED
    BY <1>1, <1>2, <2>1, <2>2 DEF BaseInv, TypeInv
<1>7. CASE GiveUp
  <2>1. /\ receiver' = "ended" /\ channel' = <<>> /\ reading' = NoPush /\ UNCHANGED shown
        /\ <<>> \in Seq(Packets)
    BY <1>7 DEF GiveUp
  <2>2. ReadInv'
    BY <2>1 DEF ReadInv
  <2> QED
    BY <1>1, <1>2, <2>1, <2>2 DEF BaseInv, TypeInv
<1>5. CASE ReadHeader /\ ~GiveUp
  <2>1. /\ receiver = "header" /\ channel # <<>> /\ channel' = Tail(channel)
        /\ reading = NoPush
    BY <1>5 DEF ReadHeader, BaseInv, ReadInv
  <2>2. channel' \in Seq(Packets) /\ Head(channel) \in Packets
    BY <2>1, TailFacts DEF BaseInv, TypeInv
  <2>3. Head(channel).of \in Push /\ Head(channel).of.number \in Nat
    BY <2>2 DEF Packets, Push
  <2>4. \/ UNCHANGED <<receiver, reading, shown>>
        \/ /\ shown' = Append(shown, <<Head(channel).of.number, Head(channel).of.number>>)
           /\ UNCHANGED <<receiver, reading>>
        \/ /\ receiver' = "body" /\ reading' = Head(channel).of /\ UNCHANGED shown
           /\ HasBody(reading'.kind)
    BY <1>5, <2>2 DEF ReadHeader, Packets
  <2>5. shown' \in Seq(Nat \X Nat)
    <3> DEFINE n == Head(channel).of.number
    <3>1. shown \in Seq(Nat \X Nat) /\ n \in Nat
      BY <2>3 DEF BaseInv, TypeInv
    <3>2. shown' = shown \/ shown' = Append(shown, <<n, n>>)
      BY <2>4
    <3> HIDE DEF n
    <3>3. Append(shown, <<n, n>>) \in Seq(Nat \X Nat)
      BY <3>1, PairFacts
    <3> QED
      BY <3>1, <3>2, <3>3
  <2>6. ReadInv'
    BY <2>1, <2>3, <2>4 DEF ReadInv
  <2>7. receiver' \in {"header", "body"} /\ reading' \in Push \cup {NoPush}
    BY <2>1, <2>3, <2>4
  <2> QED
    BY <1>1, <1>2, <2>2, <2>5, <2>6, <2>7 DEF BaseInv, TypeInv
<1>6. CASE ReadBody /\ ~GiveUp
  <2>1. receiver = "body" /\ channel # <<>> /\ reading' = NoPush
    BY <1>6 DEF ReadBody
  <2>2. /\ Tail(channel) \in Seq(Packets) /\ Head(channel) \in Packets
        /\ <<>> \in Seq(Packets)
    BY <2>1, TailFacts DEF BaseInv, TypeInv
  <2>3. Head(channel).of.number \in Nat /\ reading.number \in Nat
    BY <2>1, <2>2 DEF Packets, Push, BaseInv, ReadInv
  <2>4. channel' \in {<<>>, Tail(channel)}
    BY <1>6 DEF ReadBody
  <2>5. shown' \in {shown, Append(shown, <<reading.number, Head(channel).of.number>>)}
    BY <1>6 DEF ReadBody
  <2>6. receiver' \in {"ended", "name", "window", "notice", "file", "header"}
    BY <1>6 DEF ReadBody
  <2>7. shown' \in Seq(Nat \X Nat)
    <3> DEFINE m == reading.number
               n == Head(channel).of.number
    <3>1. shown \in Seq(Nat \X Nat) /\ m \in Nat /\ n \in Nat
      BY <2>3 DEF BaseInv, TypeInv
    <3>2. shown' = shown \/ shown' = Append(shown, <<m, n>>)
      BY <2>5
    <3> HIDE DEF m, n
    <3>3. Append(shown, <<m, n>>) \in Seq(Nat \X Nat)
      BY <3>1, PairFacts
    <3> QED
      BY <3>1, <3>2, <3>3
  <2>8. ReadInv'
    BY <2>1, <2>6 DEF ReadInv
  <2> QED
    BY <1>1, <1>2, <2>1, <2>2, <2>4, <2>6, <2>7, <2>8 DEF BaseInv, TypeInv
<1>8. ReadRefused => GiveUp
  BY DEF ReadRefused
<1> QED
  BY <1>3, <1>4, <1>5, <1>6, <1>7, <1>8

LEMMA BaseInit == Init => BaseInv
BY DEF Init, BaseInv, TypeInv, PlaceInv, ReadInv, NoPush, PCs, Broadcasts

LEMMA BaseNext == BaseInv /\ [Next]_vars => BaseInv'
<1> SUFFICES ASSUME BaseInv, [Next]_vars PROVE BaseInv'
  OBVIOUS
<1>1. ASSUME NEW h \in Handlers, HandlerStep(h)
      PROVE  BaseInv'
  BY <1>1, QuietSteps, WriteSteps DEF HandlerStep
<1>2. ASSUME NEW h \in Handlers, \E kind \in Kinds, size \in Sizes : Begin(h, kind, size)
      PROVE  BaseInv'
  BY <1>2, QuietSteps
<1>3. CASE BeginElsewhere
  BY <1>3, QuietSteps DEF Handlers
<1>4. CASE AnswerName \/ Ask \/ Receive \/ AppendText
  BY <1>4, ClientBase DEF Receive
<1>5. CASE UNCHANGED vars
  BY <1>5 DEF vars, BaseInv, TypeInv, PlaceInv, ReadInv
<1> QED
  BY <1>1, <1>2, <1>3, <1>4, <1>5 DEF Next, Serve, Handlers

-----------------------------------------------------------------------------
\* The mutex, and what the client has asked its handler: a handler that is not
\* idle serves the request in front.
RestInv ==
  /\ holder \in Handlers \cup {None}
  /\ requests \in Seq({"work", "name"})
  /\ pc[Home] # "idle" => requests # <<>>

LEMMA RequestFacts ==
  ASSUME NEW q \in Seq({"work", "name"}), NEW r \in {"work", "name"}
  PROVE  /\ Append(q, r) \in Seq({"work", "name"}) /\ Append(q, r) # <<>>
         /\ q # <<>> => Tail(q) \in Seq({"work", "name"})
OBVIOUS

LEMMA FinishRest ==
  ASSUME TypeInv, RestInv, NEW h \in Handlers, pc[h] # "idle", Finish(h)
  PROVE  RestInv'
<1>1. holder' \in Handlers \cup {None}
  BY DEF Finish, RestInv
<1>2. CASE h = Home
  <2>1. pc'[Home] = "idle" /\ requests' = Tail(requests) /\ requests # <<>>
    BY <1>2 DEF Finish, Goto, TypeInv, RestInv
  <2>2. requests' \in Seq({"work", "name"})
    BY <2>1, RequestFacts DEF RestInv
  <2> QED
    BY <1>1, <2>1, <2>2 DEF RestInv
<1>3. CASE h # Home
  <2>1. pc'[Home] = pc[Home] /\ requests' = requests
    BY <1>3 DEF Finish, Goto, TypeInv, Handlers
  <2> QED
    BY <1>1, <2>1 DEF RestInv
<1> QED
  BY <1>2, <1>3

\* A handler that is at work goes from one place to the next.
LEMMA GoesOnRest ==
  ASSUME TypeInv, RestInv, NEW h \in Handlers, h = Home => requests # <<>>,
         NEW label, pc' = [pc EXCEPT ![h] = label],
         UNCHANGED requests, holder' \in Handlers \cup {None}
  PROVE  RestInv'
<1>1. h # Home => pc'[Home] = pc[Home]
  BY DEF TypeInv, Handlers
<1> QED
  BY <1>1 DEF RestInv

LEMMA RestInit == Init => RestInv
BY DEF Init, RestInv, Handlers

LEMMA RestNext == BaseInv /\ RestInv /\ [Next]_vars => RestInv'
<1> SUFFICES ASSUME TypeInv, RestInv, [Next]_vars PROVE RestInv'
  BY DEF BaseInv
<1>1. ASSUME NEW h \in Handlers, \E kind \in Kinds, size \in Sizes : Begin(h, kind, size)
      PROVE  RestInv'
  <2>1. PICK label : pc' = [pc EXCEPT ![h] = label]
    BY <1>1 DEF Begin, Goto
  <2>2. UNCHANGED <<holder, requests>> /\ (h = Home => requests # <<>>)
    BY <1>1 DEF Begin
  <2>3. holder' \in Handlers \cup {None}
    BY <2>2 DEF RestInv
  <2> QED
    BY <2>1, <2>2, <2>3, GoesOnRest
<1>2. CASE BeginElsewhere
  <2>1. /\ pc' = [pc EXCEPT ![Home] = "lookup"] /\ UNCHANGED <<holder, requests>>
        /\ requests # <<>>
    BY <1>2 DEF BeginElsewhere, Goto
  <2>2. holder' \in Handlers \cup {None} /\ Home \in Handlers
    BY <2>1 DEF RestInv, Handlers
  <2> QED
    BY <2>1, <2>2, GoesOnRest
<1>3. ASSUME NEW h \in Handlers, HandlerStep(h)
      PROVE  RestInv'
  <2>1. pc[h] # "idle" /\ (h = Home => requests # <<>>)
    BY <1>3 DEF HandlerStep, Lookup, Lock, EnterWrite, EnterBody, Writing, WriteHeader, WriteBody, WriteFails, RestInv
  <2>2. \/ Finish(h)
        \/ /\ \E label : pc' = [pc EXCEPT ![h] = label]
           /\ UNCHANGED requests /\ holder' \in {holder, h}
    BY <1>3 DEF HandlerStep, Lookup, Lock, EnterWrite, EnterBody, Writing, WriteHeader, WriteBody, WriteFails, Goto
  <2>3. CASE Finish(h)
    BY <2>1, <2>3, FinishRest
  <2>4. ASSUME NEW label, pc' = [pc EXCEPT ![h] = label],
               UNCHANGED requests, holder' \in {holder, h}
        PROVE  RestInv'
    <3>1. holder' \in Handlers \cup {None}
      BY <2>4 DEF RestInv
    <3> QED
      BY <2>1, <2>4, <3>1, GoesOnRest
  <2> QED
    BY <2>2, <2>3, <2>4
<1>4. CASE AnswerName
  BY <1>4, RequestFacts DEF AnswerName, RestInv
<1>5. CASE Ask \/ Receive \/ AppendText
  <2>1. UNCHANGED <<pc, holder>>
    BY <1>5 DEF Ask, Request, Receive, GiveUp, ReadHeader, ReadBody, ReadRefused, AddHistory, AppendText
  <2>2. UNCHANGED requests \/ \E r \in {"work", "name"} : requests' = Append(requests, r)
    BY <1>5 DEF Ask, Request, Receive, GiveUp, ReadHeader, ReadBody, ReadRefused, AddHistory, AppendText
  <2> QED
    BY <2>1, <2>2, RequestFacts DEF RestInv
<1>6. CASE UNCHANGED vars
  BY <1>6 DEF vars, RestInv
<1> QED
  BY <1>1, <1>2, <1>3, <1>4, <1>5, <1>6 DEF Next, Serve, Handlers

-----------------------------------------------------------------------------
\* What spoils a connection, and what ends its receiver.

HarmType == harm \in {"none", "overlapped", "spoilt"}

LEMMA HarmTyped == Init /\ [][Next]_vars => []HarmType
<1>1. Init => HarmType
  BY DEF Init, HarmType
<1>2. HarmType /\ [Next]_vars => HarmType'
  BY DEF Next, HandlerStep, Serve, Receive, Begin, BeginElsewhere, Lookup, Lock, EnterWrite,
     EnterBody, WriteHeader, WriteBody, WriteFails, MayCross, AnswerName, Ask, Request,
     ReadHeader, ReadBody, ReadRefused, AppendText, AddHistory, vars, HarmType
<1> QED
  BY <1>1, <1>2, PTL

\* Every variable of PushChannel keeps its type.
THEOREM TypeCorrect == Spec => []TypeOK
<1>1. BaseInv /\ RestInv /\ HarmType => TypeOK
  BY DEF BaseInv, TypeInv, RestInv, HarmType, TypeOK, Packets
<1> QED
  BY BaseInit, BaseNext, RestInit, RestNext, HarmTyped, <1>1, PTL DEF Spec

\* Who is at a broadcast, once past the mutex, holds it; so only one is.
LEMMA BroadcastsAlone ==
  ASSUME BaseInv, NEW g \in Handlers, NEW h \in Handlers, g # h,
         pc[g] \in {"header", "between", "body"}, pc[h] \in {"header", "between", "body"}
  PROVE  push[g].kind \notin Broadcasts \/ push[h].kind \notin Broadcasts
BY DEF BaseInv, PlaceInv

\* Steps that write nothing and begin to write nothing.
LEMMA NobodyEnters ==
  ASSUME BaseInv, UNCHANGED pc \/ (\E h \in Handlers : Finish(h))
                    \/ (\E h \in Handlers : WriteHeader(h) \/ WriteBody(h))
  PROVE  ~ \E h \in Handlers : ~Writing(h) /\ Writing(h)'
<1>1. CASE UNCHANGED pc
  BY <1>1 DEF Writing
<1>2. ASSUME NEW h \in Handlers, NEW label, label \notin {"header", "body"},
             pc' = [pc EXCEPT ![h] = label]
      PROVE  ~ \E g \in Handlers : ~Writing(g) /\ Writing(g)'
  BY <1>2 DEF BaseInv, TypeInv, Writing
<1>3. ASSUME NEW h \in Handlers, Finish(h)
      PROVE  ~ \E g \in Handlers : ~Writing(g) /\ Writing(g)'
  <2>1. pc' = [pc EXCEPT ![h] = "idle"]
    BY <1>3 DEF Finish, Goto
  <2> QED
    BY <1>2, <2>1
<1>4. ASSUME NEW h \in Handlers, WriteHeader(h) \/ WriteBody(h)
      PROVE  ~ \E g \in Handlers : ~Writing(g) /\ Writing(g)'
  <2>1. Finish(h) \/ pc' = [pc EXCEPT ![h] = "between"]
    BY <1>4 DEF WriteHeader, WriteBody, Goto
  <2> QED
    BY <1>2, <1>3, <2>1
<1> QED
  BY <1>1, <1>3, <1>4

\* Two broadcasts never get between each other's packets, or the blocks of one,
\* however many handlers push (login.c:144, 175): only a push without the mutex
\* does.
THEOREM OverlapsAreUnlocked == Spec => OverlapIsUnlocked
<1> DEFINE Unlocked == \E h \in Handlers : /\ Writing(h) \/ Halfway(h) \/ Writing(h)'
                                           /\ push[h].kind \notin Broadcasts
           Meet == /\ harm' # harm
                   /\ harm' = "overlapped" \/ \E h \in Handlers : ~Writing(h) /\ Writing(h)'
<1>1. ASSUME BaseInv, HarmType, [Next]_vars PROVE [Meet => Unlocked]_vars
  <2>1. SUFFICES ASSUME Meet PROVE Unlocked
    OBVIOUS
  <2>2. ASSUME NEW g \in Handlers, NEW h \in Handlers, g # h,
               pc[g] \in {"header", "between", "body"}, pc[h] \in {"header", "between", "body"}
        PROVE  Unlocked
    <3>1. Writing(g) \/ Halfway(g)
      BY <2>2 DEF Writing, Halfway
    <3>2. Writing(h) \/ Halfway(h)
      BY <2>2 DEF Writing, Halfway
    <3> QED
      BY <1>1, <2>2, <3>1, <3>2, BroadcastsAlone
  <2>3. ASSUME NEW h \in Handlers, WriteHeader(h) PROVE Unlocked
    <3>1. harm' = "overlapped"
      BY <1>1, <2>1, <2>3, NobodyEnters
    <3>2. PICK g \in Handlers \ {h} : Halfway(g)
      BY <2>1, <2>3, <3>1 DEF WriteHeader, MayCross
    <3>3. pc[h] = "header" /\ pc[g] \in {"between", "body"}
      BY <2>3, <3>2 DEF WriteHeader, Halfway
    <3> QED
      BY <2>2, <3>2, <3>3
  <2>4. ASSUME NEW h \in Handlers, WriteBody(h) PROVE Unlocked
    <3>1. harm' # "overlapped"
      BY <2>1, <2>4 DEF WriteBody, MayCross
    <3> QED
      BY <1>1, <2>1, <2>4, <3>1, NobodyEnters
  <2>5. ASSUME NEW h \in Handlers, NEW label, EnterWrite(h, label), label \in {"header", "body"},
               \/ pc[h] = "lookup" \/ pc[h] = "between"
               \/ pc[h] = "lock" /\ holder = None
        PROVE  Unlocked
    <3>1. PICK g \in Handlers \ {h} : Writing(g)
      BY <2>1, <2>5 DEF EnterWrite
    <3>2. pc[g] \in {"header", "body"}
      BY <3>1 DEF Writing
    <3>3. CASE pc[h] = "lookup"
      <4>1. Writing(h)' /\ push[h].kind \notin Broadcasts
        BY <1>1, <2>5, <3>3 DEF EnterWrite, Goto, Writing, BaseInv, TypeInv, PlaceInv
      <4> QED
        BY <4>1
    <3>4. CASE pc[h] = "lock" /\ holder = None
      <4>1. push[g].kind \notin Broadcasts
        BY <1>1, <3>1, <3>2, <3>4, PushChannelAssumption DEF BaseInv, PlaceInv
      <4> QED
        BY <3>1, <4>1
    <3>5. CASE pc[h] = "between"
      BY <2>2, <3>1, <3>2, <3>5
    <3> QED
      BY <2>5, <3>3, <3>4, <3>5
  <2>6. ASSUME NEW h \in Handlers, Lookup(h) \/ Lock(h) \/ EnterBody(h) PROVE Unlocked
    BY <2>1, <2>5, <2>6 DEF Lookup, Lock, EnterBody
  <2>7. CASE UNCHANGED harm
    BY <2>1, <2>7
  <2>8. CASE UNCHANGED pc /\ harm' = "spoilt"
    BY <1>1, <2>1, <2>8, NobodyEnters
  <2>9. CASE Ask \/ ReadBody \/ AddHistory
    <3>1. UNCHANGED pc /\ (UNCHANGED harm \/ harm' = "spoilt")
      BY <2>9 DEF Ask, Request, MayCross, ReadBody, AddHistory
    <3> QED
      BY <2>7, <2>8, <3>1
  <2>10. ASSUME NEW h \in Handlers, \/ \E kind \in Kinds, size \in Sizes : Begin(h, kind, size)
                                    \/ WriteFails(h)
         PROVE  UNCHANGED harm
    BY <2>10 DEF Begin, WriteFails
  <2>11. BeginElsewhere \/ AnswerName \/ ReadHeader \/ ReadRefused \/ AppendText \/ UNCHANGED vars
           => UNCHANGED harm
    BY DEF BeginElsewhere, AnswerName, ReadHeader, ReadRefused, AppendText, vars
  <2> HIDE DEF Unlocked, Meet
  <2> QED
    BY <1>1, <2>3, <2>4, <2>6, <2>7, <2>9, <2>10, <2>11 DEF Next, HandlerStep, Serve, Receive,
       Handlers
<1> QED
  BY BaseInit, BaseNext, HarmTyped, <1>1, PTL DEF Spec, OverlapIsUnlocked

\* A size that a client asks to have passed on, and what it comes to.
LEMMA SizeFacts ==
  ASSUME NEW p \in Push
  PROVE  /\ p.size \in Nat /\ p.size <= MaxPacket - 17
         /\ BodySize(p) \in 0 .. (MaxPacket - 13)
         /\ BodySize(p) > MaxPacket - 17 =>
              p.kind = "group" /\ p.size \in (MaxPacket - 20) .. (MaxPacket - 17)
<1>1. /\ MaxPacket \in Nat /\ Word \in Nat /\ MaxPacket >= 32 /\ Word > 2 * MaxPacket
  BY WireAssumption
<1>2. p.size \in Nat /\ TakesGroupMessage(p.size)
  BY PushChannelAssumption DEF Push
<1>3. p.size <= MaxPacket - 17
  <2>1. SUFFICES ASSUME p.size >= MaxPacket - 16 PROVE FALSE
    BY <1>1, <1>2
  <2>2. p.size \in (MaxPacket - 16) .. (Word - 17)
    BY <1>1, <1>2, <2>1 DEF TakesGroupMessage
  <2> QED
    BY <1>2, <2>2, RefusedAbove DEF TakesGroupMessage
<1>4. BodySize(p) = IF p.kind = "group" THEN p.size + 4 ELSE p.size
  BY DEF BodySize, GidSize
<1> QED
  BY <1>1, <1>2, <1>3, <1>4

\* A packet is refused, in whichever place it is read, only in the gap.
LEMMA RefusedInTheGap ==
  ASSUME NEW packet \in Packets, NEW maxsize \in 0 .. MaxPacket,
         Received(PacketSize(packet), maxsize) = Refused
  PROVE  /\ packet.part = "body"
         /\ packet.of.kind = "group"
         /\ packet.of.size \in (MaxPacket - 20) .. (MaxPacket - 17)
<1>1. /\ MaxPacket \in Nat /\ Word \in Nat /\ MaxPacket >= 32 /\ Word > 2 * MaxPacket
      /\ maxsize \in Nat /\ maxsize \in 0 .. (Word - 17)
  BY WireAssumption
<1>2. packet.of \in Push /\ PacketSize(packet) \in Nat
  BY <1>1, SizeFacts DEF Packets, PacketSize
<1>3. PacketSize(packet) > MaxPacket - 17
  <2>1. SUFFICES ASSUME PacketSize(packet) \in 0 .. (MaxPacket - 17) PROVE FALSE
    BY <1>1, <1>2
  <2>2. Received(PacketSize(packet), maxsize) \in Nat
    BY <1>1, <1>2, <2>1, ReceivedWhole
  <2> QED
    BY <2>2 DEF Refused
<1>4. packet.part # "header" /\ PacketSize(packet) = BodySize(packet.of)
  BY <1>1, <1>3 DEF PacketSize
<1> QED
  BY <1>2, <1>3, <1>4, SizeFacts DEF Packets

\* The receiver thread of a connection that is not spoilt ends only over a group
\* message of one of the four sizes that the server takes and no client does,
\* read in its place or, after an overlap, in that of a header (handler.c:416).
THEOREM EndsOnlyInTheGap == Spec => EndsOnlyInGap
<1> DEFINE InGap == /\ Head(channel).of.kind = "group"
                    /\ Head(channel).of.size \in (MaxPacket - 20) .. (MaxPacket - 17)
           Gap == receiver' # receiver /\ receiver' = "ended" => harm = "spoilt" \/ InGap
<1>1. ASSUME BaseInv, [Next]_vars PROVE [Gap]_vars
  <2>1. SUFFICES ASSUME receiver' # receiver, receiver' = "ended", harm # "spoilt"
        PROVE InGap
    OBVIOUS
  <2>2. ReadHeader \/ ReadBody
    <3>1. CASE AnswerName \/ AppendText \/ AddHistory \/ Ask \/ ReadRefused
      BY <2>1, <3>1 DEF AnswerName, AppendText, AddHistory, Ask, ReadRefused
    <3> QED
      BY <1>1, <2>1, <3>1 DEF Next, HandlerStep, Serve, Receive, Begin, BeginElsewhere,
         Lookup, Lock, EnterBody, WriteHeader, WriteBody, WriteFails, vars
  <2> DEFINE packet == Head(channel)
  <2>3. packet \in Packets
    <3>1. channel # <<>>
      BY <2>2 DEF ReadHeader, ReadBody
    <3> QED
      BY <1>1, <3>1, TailFacts DEF BaseInv, TypeInv
  <2>4. \E maxsize \in 0 .. MaxPacket : Received(PacketSize(packet), maxsize) = Refused
    <3>1. CASE ReadHeader
      <4>1. MaxPacket \in 0 .. MaxPacket
        BY WireAssumption
      <4>2. Received(PacketSize(packet), MaxPacket) = Refused
        BY <2>1, <3>1 DEF ReadHeader
      <4> QED
        BY <4>1, <4>2
    <3>2. CASE ReadBody
      <4>1. reading \in Push
        BY <1>1, <3>2 DEF ReadBody, BaseInv, ReadInv
      <4>2. BodySize(reading) \in 0 .. MaxPacket
        <5>1. MaxPacket \in Nat /\ BodySize(reading) \in 0 .. (MaxPacket - 13)
          BY <4>1, SizeFacts, WireAssumption
        <5> QED
          BY <5>1
      <4>3. Received(PacketSize(packet), BodySize(reading)) = Refused
        BY <2>1, <3>2 DEF ReadBody
      <4> QED
        BY <4>2, <4>3
    <3> QED
      BY <2>2, <3>1, <3>2
  <2> HIDE DEF packet
  <2>5. packet.of.kind = "group" /\ packet.of.size \in (MaxPacket - 20) .. (MaxPacket - 17)
    BY <2>3, <2>4, RefusedInTheGap
  <2> QED
    BY <2>5 DEF packet
<1> QED
  BY BaseInit, BaseNext, <1>1, PTL DEF Spec, EndsOnlyInGap

-----------------------------------------------------------------------------
\* The queue of whole messages.

Num(i)      == channel[i].of.number
IsHeader(i) == channel[i].part = "header"
IsBody(i)   == channel[i].part = "body"

ShownInv == \A i \in 1 .. Len(shown) : shown[i] = <<i, i>>

\* What is on its way is younger than what was shown.
RangeInv ==
  /\ Len(shown) <= posted
  /\ receiver = "body" => reading.number = Len(shown) + 1 /\ Len(shown) < posted
  /\ \A i \in 1 .. Len(channel) : Len(shown) < Num(i) /\ Num(i) <= posted
  /\ receiver = "body" => \A i \in 1 .. Len(channel) : IsHeader(i) => Len(shown) + 1 < Num(i)

\* A body comes right behind its header, a header with a body right before it.
PairInv ==
  /\ \A i \in 1 .. Len(channel) : IsBody(i) =>
       IF i = 1 THEN receiver = "body" /\ reading = channel[1].of
                ELSE IsHeader(i - 1) /\ channel[i - 1].of = channel[i].of
                     /\ HasBody(channel[i].of.kind)
  /\ receiver = "body" /\ Len(channel) > 0 => IsBody(1)
  /\ \A i \in 1 .. Len(channel) - 1 :
       IsHeader(i) /\ HasBody(channel[i].of.kind) => IsBody(i + 1)

\* Headers are in order, and so are bodies.
OrderInv ==
  \A i, j \in 1 .. Len(channel) : i < j =>
    /\ Num(i) <= Num(j)
    /\ IsHeader(j) \/ IsBody(i) => Num(i) < Num(j)

\* The handler between its two packets, if there is one, has written the last.
LastInv ==
  /\ \A h \in Handlers : pc[h] \in {"between", "body"} =>
       /\ push[h].number = posted
       /\ IF Len(channel) = 0 THEN receiver = "body" /\ reading = push[h]
          ELSE IsHeader(Len(channel)) /\ channel[Len(channel)].of = push[h]
  /\ \A g, h \in Handlers : pc[g] \in {"between", "body"} /\ pc[h] \in {"between", "body"} => g = h
  /\ (\A h \in Handlers : pc[h] \notin {"between", "body"}) =>
       IF Len(channel) = 0 THEN receiver # "body"
       ELSE IsHeader(Len(channel)) => ~HasBody(channel[Len(channel)].of.kind)

\* Nothing that was posted is missing.
CoverInv ==
  \A n \in Nat : Len(shown) < n /\ n <= posted =>
    \/ receiver = "body" /\ n = Len(shown) + 1
    \/ \E i \in 1 .. Len(channel) : IsHeader(i) /\ Num(i) = n

QueueInv == ShownInv /\ RangeInv /\ PairInv /\ OrderInv /\ LastInv /\ CoverInv

Whole == harm = "none" /\ receiver # "ended"

QueueIfWhole == Whole => QueueInv

\* Steps of which the queue sees nothing.
LEMMA QueueFrame ==
  ASSUME BaseInv, BaseInv', QueueIfWhole, UNCHANGED <<channel, posted, shown, reading>>,
         harm' = "none" => harm = "none",
         receiver' = receiver \/ {receiver, receiver'} \cap {"body", "ended"} = {},
         \A h \in Handlers : /\ pc'[h] \in {"between", "body"} <=> pc[h] \in {"between", "body"}
                             /\ pc[h] \in {"between", "body"} => push'[h] = push[h]
  PROVE  QueueIfWhole'
<1>1. SUFFICES ASSUME QueueInv PROVE QueueInv'
  BY DEF QueueIfWhole, Whole
<1>2. (receiver' = "body") = (receiver = "body")
  OBVIOUS
<1>3. ShownInv' /\ RangeInv' /\ OrderInv' /\ CoverInv'
  BY <1>1, <1>2 DEF QueueInv, ShownInv, RangeInv, OrderInv, CoverInv, Num, IsHeader, IsBody
<1>4. PairInv'
  BY <1>1, <1>2 DEF QueueInv, PairInv, IsHeader, IsBody
<1>5. LastInv'
  BY <1>1, <1>2 DEF QueueInv, LastInv, IsHeader
<1> QED
  BY <1>3, <1>4, <1>5 DEF QueueInv

LEMMA PacketFacts ==
  ASSUME TypeInv, NEW i \in 1 .. Len(channel)
  PROVE  /\ channel[i] \in Packets /\ channel[i].of \in Push /\ Num(i) \in Nat
         /\ IsHeader(i) <=> ~IsBody(i)
<1>1. channel[i] \in Packets
  BY EmptyFacts DEF TypeInv
<1>2. channel[i].of \in Push /\ channel[i].part \in {"header", "body"}
  BY <1>1 DEF Packets
<1>3. channel[i].of.number \in Nat
  BY <1>2 DEF Push
<1> QED
  BY <1>1, <1>2, <1>3 DEF Num, IsHeader, IsBody

\* What the first packet of the queue is.
LEMMA FirstPacket ==
  ASSUME BaseInv, QueueInv, channel # <<>>
  PROVE  /\ channel[1] \in Packets
         /\ receiver = "body" => IsBody(1) /\ channel[1].of = reading
         /\ receiver # "body" => IsHeader(1) /\ Num(1) = Len(shown) + 1
<1>1. channel[1] \in Packets /\ Len(channel) \in Nat /\ Len(channel) > 0 /\ Len(shown) \in Nat
  BY EmptyFacts, TailFacts DEF BaseInv, TypeInv
<1>2. CASE receiver = "body"
  BY <1>1, <1>2 DEF QueueInv, PairInv
<1>3. CASE receiver # "body"
  <2>1. IsHeader(1)
    BY <1>1, <1>3 DEF QueueInv, PairInv, IsHeader, IsBody, Packets
  <2>2. \A i \in 1 .. Len(channel) : Num(i) \in Nat
    BY PacketFacts DEF BaseInv
  <2>3. Len(shown) < Num(1) /\ Num(1) <= posted /\ posted \in Nat /\ 1 \in 1 .. Len(channel)
    BY <1>1 DEF QueueInv, RangeInv, BaseInv, TypeInv
  <2>4. PICK i \in 1 .. Len(channel) : IsHeader(i) /\ Num(i) = Len(shown) + 1
    BY <1>1, <1>3, <2>2, <2>3 DEF QueueInv, CoverInv
  <2>5. Num(1) <= Num(i)
    BY <1>1, <2>2, <2>3, <2>4 DEF QueueInv, OrderInv
  <2> QED
    BY <1>1, <1>3, <2>1, <2>2, <2>3, <2>4, <2>5
<1> QED
  BY <1>2, <1>3

\* A header is written: nobody may be between two packets, or the push overlaps.
LEMMA HeaderKeepsQueue ==
  ASSUME BaseInv, QueueIfWhole, HarmType, NEW h \in Handlers, WriteHeader(h)
  PROVE  QueueIfWhole'
<1> SUFFICES ASSUME Whole' PROVE QueueInv'
  BY DEF QueueIfWhole
<1> DEFINE p == [push[h] EXCEPT !.number = posted + 1]
           x == [of |-> p, part |-> "header"]
           L == Len(channel)
<1>1. /\ p \in Push /\ p.number = posted + 1 /\ p.kind = push[h].kind
      /\ channel' = Append(channel, x) /\ x \in Packets
      /\ posted' = posted + 1
      /\ UNCHANGED <<receiver, reading, shown>>
      /\ HasBody(push[h].kind) => /\ push' = [push EXCEPT ![h] = p]
                                  /\ pc' = [pc EXCEPT ![h] = "between"]
      /\ ~HasBody(push[h].kind) => Finish(h)
  BY HeaderFacts
<1>2. QueueInv /\ pc[h] = "header" /\ \A g \in Handlers : pc[g] \notin {"between", "body"}
  BY <1>1 DEF QueueIfWhole, Whole, WriteHeader, MayCross, Halfway
<1>3. /\ L \in Nat /\ Len(channel') = L + 1 /\ channel'[L + 1] = x
      /\ \A i \in 1 .. L : channel'[i] = channel[i] /\ i \in 1 .. L + 1
      /\ \A i \in 1 .. L + 1 : i \in 1 .. L \/ i = L + 1
  <2>1. channel \in Seq(Packets)
    BY DEF BaseInv, TypeInv
  <2> HIDE DEF x
  <2> QED
    BY <1>1, <2>1, AppendFacts
<1>4. x.of = p /\ x.part = "header"
  OBVIOUS
<1> HIDE DEF p, x, L
<1>5. posted \in Nat /\ Len(shown) \in Nat
  BY EmptyFacts DEF BaseInv, TypeInv
<1>6. \A i \in 1 .. L : Num(i) \in Nat
  BY PacketFacts DEF BaseInv, L
<1>7. ShownInv'
  BY <1>1, <1>2 DEF QueueInv, ShownInv
<1>8. RangeInv'
  <2>1. Len(shown) <= posted
        /\ (receiver = "body" => reading.number = Len(shown) + 1 /\ Len(shown) < posted)
    BY <1>2, <1>5 DEF QueueInv, RangeInv
  <2>2. ASSUME NEW i \in 1 .. L + 1
        PROVE  /\ Len(shown) < channel'[i].of.number /\ channel'[i].of.number <= posted + 1
               /\ receiver = "body" => (channel'[i].part = "header" => Len(shown) + 1 < channel'[i].of.number)
    <3>1. CASE i = L + 1
      <4>1. channel'[i].of.number = posted + 1
        BY <1>1, <1>3, <1>4, <3>1
      <4> QED
        BY <1>5, <2>1, <4>1
    <3>2. CASE i \in 1 .. L
      BY <1>2, <1>3, <1>5, <1>6, <3>2 DEF QueueInv, RangeInv, Num, IsHeader, L
    <3> QED
      BY <1>3, <3>1, <3>2
  <2> QED
    BY <1>1, <1>3, <1>5, <2>1, <2>2 DEF RangeInv, Num, IsHeader
<1>9. PairInv'
  <2>1. ASSUME NEW i \in 1 .. L + 1, channel'[i].part = "body"
        PROVE  IF i = 1 THEN receiver = "body" /\ reading = channel'[1].of
               ELSE channel'[i - 1].part = "header" /\ channel'[i - 1].of = channel'[i].of
                    /\ HasBody(channel'[i].of.kind)
    <3>1. i \in 1 .. L /\ (i # 1 => i - 1 \in 1 .. L)
      BY <1>3, <1>4, <2>1
    <3> QED
      BY <1>2, <1>3, <2>1, <3>1 DEF QueueInv, PairInv, IsHeader, IsBody, L
  <2>2. receiver = "body" => channel'[1].part = "body"
    <3>1. receiver = "body" => L > 0
      BY <1>2, <1>3 DEF QueueInv, LastInv, L
    <3> QED
      BY <1>2, <1>3, <3>1 DEF QueueInv, PairInv, IsBody, L
  <2>3. ASSUME NEW i \in 1 .. L, channel'[i].part = "header", HasBody(channel'[i].of.kind)
        PROVE  channel'[i + 1].part = "body"
    <3>1. CASE i = L
      BY <1>2, <1>3, <2>3, <3>1 DEF QueueInv, LastInv, IsHeader, L
    <3>2. CASE i \in 1 .. L - 1
      BY <1>2, <1>3, <2>3, <3>2 DEF QueueInv, PairInv, IsHeader, IsBody, L
    <3> QED
      BY <1>3, <3>1, <3>2
  <2> QED
    BY <1>1, <1>3, <2>1, <2>2, <2>3 DEF PairInv, IsHeader, IsBody
<1>10. OrderInv'
  <2>1. ASSUME NEW i \in 1 .. L + 1, NEW j \in 1 .. L + 1, i < j
        PROVE  /\ channel'[i].of.number <= channel'[j].of.number
               /\ channel'[j].part = "header" \/ channel'[i].part = "body"
                    => channel'[i].of.number < channel'[j].of.number
    <3>1. i \in 1 .. L
      BY <1>3, <2>1
    <3>2. CASE j = L + 1
      <4>1. channel'[i].of.number <= posted /\ channel'[i].of.number \in Nat
        BY <1>2, <1>3, <1>6, <3>1 DEF QueueInv, RangeInv, Num, L
      <4>2. channel'[j].of.number = posted + 1
        BY <1>1, <1>3, <1>4, <3>2
      <4> QED
        BY <4>1, <4>2, <1>5
    <3>3. CASE j \in 1 .. L
      BY <1>2, <1>3, <2>1, <3>1, <3>3 DEF QueueInv, OrderInv, Num, IsHeader, IsBody, L
    <3> QED
      BY <1>3, <3>2, <3>3
  <2> QED
    BY <1>3, <2>1 DEF OrderInv, Num, IsHeader, IsBody
<1>11. LastInv'
  <2>1. CASE HasBody(push[h].kind)
    <3>1. \A g \in Handlers : /\ pc'[g] \in {"between", "body"} => g = h
                              /\ pc'[h] \in {"between", "body"} /\ push'[h] = p
      BY <1>1, <1>2, <2>1 DEF BaseInv, TypeInv
    <3> QED
      BY <1>1, <1>3, <1>4, <3>1 DEF LastInv, IsHeader
  <2>2. CASE ~HasBody(push[h].kind)
    <3>1. \A g \in Handlers : pc'[g] \notin {"between", "body"}
      BY <1>1, <1>2, <2>2 DEF BaseInv, TypeInv, Finish, Goto
    <3> QED
      BY <1>1, <1>3, <1>4, <2>2, <3>1 DEF LastInv, IsHeader
  <2> QED
    BY <2>1, <2>2
<1>12. CoverInv'
  <2>1. ASSUME NEW n \in Nat, Len(shown) < n, n <= posted + 1
        PROVE  \/ receiver = "body" /\ n = Len(shown) + 1
               \/ \E i \in 1 .. L + 1 : channel'[i].part = "header" /\ channel'[i].of.number = n
    <3>1. CASE n = posted + 1
      BY <1>1, <1>3, <1>4, <3>1
    <3>2. CASE n <= posted
      BY <1>2, <1>3, <2>1, <3>2 DEF QueueInv, CoverInv, Num, IsHeader, L
    <3> QED
      BY <1>5, <2>1, <3>1, <3>2
  <2> QED
    BY <1>1, <1>3, <2>1 DEF CoverInv, Num, IsHeader
<1> QED
  BY <1>7, <1>8, <1>9, <1>10, <1>11, <1>12 DEF QueueInv

\* A body is written: its header is the last packet, or has just been read.
LEMMA BodyKeepsQueue ==
  ASSUME BaseInv, QueueIfWhole, NEW h \in Handlers, WriteBody(h)
  PROVE  QueueIfWhole'
<1>1. /\ pc[h] \in {"between", "body"} /\ Finish(h)
      /\ channel' = Append(channel, [of |-> push[h], part |-> "body"])
      /\ UNCHANGED <<receiver, reading, posted, shown>>
      /\ harm' = harm \/ harm' = "spoilt"
  BY DEF WriteBody, MayCross
<1> SUFFICES ASSUME QueueInv PROVE QueueInv'
  BY <1>1 DEF QueueIfWhole, Whole
<1> DEFINE x == [of |-> push[h], part |-> "body"]
           L == Len(channel)
<1>2. x \in Packets /\ x.of = push[h] /\ x.part = "body"
  BY <1>1 DEF BaseInv, PlaceInv, Packets
<1> HIDE DEF x
<1>3. /\ L \in Nat /\ Len(channel') = L + 1 /\ channel'[L + 1] = x
      /\ \A i \in 1 .. L : channel'[i] = channel[i] /\ i \in 1 .. L + 1
      /\ \A i \in 1 .. L + 1 : i \in 1 .. L \/ i = L + 1
  <2>1. channel \in Seq(Packets) /\ channel' = Append(channel, x)
    BY <1>1 DEF BaseInv, TypeInv, x
  <2> QED
    BY <1>2, <2>1, AppendFacts
<1> HIDE DEF L
<1>4. /\ push[h].number = posted /\ HasBody(push[h].kind)
      /\ L = 0 => receiver = "body" /\ reading = push[h]
      /\ L # 0 => channel[L].part = "header" /\ channel[L].of = push[h] /\ L \in 1 .. L
      /\ \A g \in Handlers \ {h} : pc[g] \notin {"between", "body"}
  BY <1>1, <1>3 DEF BaseInv, PlaceInv, QueueInv, LastInv, IsHeader, L
<1>5. posted \in Nat /\ Len(shown) \in Nat /\ \A i \in 1 .. L : Num(i) \in Nat
  BY EmptyFacts, PacketFacts DEF BaseInv, TypeInv, L
<1>6. ShownInv'
  BY <1>1 DEF QueueInv, ShownInv
<1>7. RangeInv'
  <2>1. Len(shown) < posted
    BY <1>4, <1>5 DEF QueueInv, RangeInv, Num, L
  <2>2. ASSUME NEW i \in 1 .. L + 1
        PROVE  /\ Len(shown) < channel'[i].of.number /\ channel'[i].of.number <= posted
               /\ receiver = "body" => (channel'[i].part = "header" => Len(shown) + 1 < channel'[i].of.number)
    <3>1. CASE i = L + 1
      BY <1>2, <1>3, <1>4, <1>5, <2>1, <3>1
    <3>2. CASE i \in 1 .. L
      BY <1>3, <1>5, <3>2 DEF QueueInv, RangeInv, Num, IsHeader, L
    <3> QED
      BY <1>3, <3>1, <3>2
  <2> QED
    BY <1>1, <1>3, <2>2 DEF QueueInv, RangeInv, Num, IsHeader
<1>8. PairInv'
  <2>1. ASSUME NEW i \in 1 .. L + 1, channel'[i].part = "body"
        PROVE  IF i = 1 THEN receiver = "body" /\ reading = channel'[1].of
               ELSE channel'[i - 1].part = "header" /\ channel'[i - 1].of = channel'[i].of
                    /\ HasBody(channel'[i].of.kind)
    <3>1. CASE i = L + 1
      BY <1>2, <1>3, <1>4, <3>1
    <3>2. CASE i \in 1 .. L
      <4>1. i # 1 => i - 1 \in 1 .. L
        BY <1>3, <3>2
      <4> QED
        BY <1>3, <2>1, <3>2, <4>1 DEF QueueInv, PairInv, IsHeader, IsBody, L
    <3> QED
      BY <1>3, <3>1, <3>2
  <2>2. receiver = "body" => channel'[1].part = "body"
    <3>1. CASE L = 0
      BY <1>2, <1>3, <3>1
    <3>2. CASE L # 0
      BY <1>3, <3>2 DEF QueueInv, PairInv, IsBody, L
    <3> QED
      BY <3>1, <3>2
  <2>3. ASSUME NEW i \in 1 .. L, channel'[i].part = "header", HasBody(channel'[i].of.kind)
        PROVE  channel'[i + 1].part = "body"
    <3>1. CASE i = L
      BY <1>2, <1>3, <3>1
    <3>2. CASE i \in 1 .. L - 1
      BY <1>3, <2>3, <3>2 DEF QueueInv, PairInv, IsHeader, IsBody, L
    <3> QED
      BY <1>3, <3>1, <3>2
  <2> QED
    BY <1>1, <1>3, <2>1, <2>2, <2>3 DEF PairInv, IsHeader, IsBody
<1>9. OrderInv'
  <2>1. ASSUME NEW i \in 1 .. L + 1, NEW j \in 1 .. L + 1, i < j
        PROVE  /\ channel'[i].of.number <= channel'[j].of.number
               /\ channel'[j].part = "header" \/ channel'[i].part = "body"
                    => channel'[i].of.number < channel'[j].of.number
    <3>1. i \in 1 .. L
      BY <1>3, <2>1
    <3>2. CASE j = L + 1
      <4>1. channel'[j].of.number = posted /\ channel'[j].part = "body"
        BY <1>2, <1>3, <1>4, <3>2
      <4>2. channel'[i].of.number <= posted
        BY <1>3, <1>5, <3>1 DEF QueueInv, RangeInv, Num, L
      <4>3. channel'[i].part = "body" => channel'[i].of.number < posted
        <5>1. SUFFICES ASSUME channel[i].part = "body" PROVE channel[i].of.number < posted
          BY <1>3, <3>1
        <5>2. L \in 1 .. L /\ i < L /\ channel[L].of.number = posted
          BY <1>3, <1>4, <3>1, <5>1
        <5> QED
          BY <3>1, <5>1, <5>2 DEF QueueInv, OrderInv, Num, IsBody, L
      <4> QED
        BY <4>1, <4>2, <4>3
    <3>3. CASE j \in 1 .. L
      BY <1>3, <2>1, <3>1, <3>3 DEF QueueInv, OrderInv, Num, IsHeader, IsBody, L
    <3> QED
      BY <1>3, <3>2, <3>3
  <2> QED
    BY <1>3, <2>1 DEF OrderInv, Num, IsHeader, IsBody
<1>10. LastInv'
  <2>1. \A g \in Handlers : pc'[g] \notin {"between", "body"}
    BY <1>1, <1>4 DEF BaseInv, TypeInv, Finish, Goto
  <2> QED
    BY <1>2, <1>3, <2>1 DEF LastInv, IsHeader
<1>11. CoverInv'
  <2>1. ASSUME NEW n \in Nat, Len(shown) < n, n <= posted
        PROVE  \/ receiver = "body" /\ n = Len(shown) + 1
               \/ \E i \in 1 .. L + 1 : channel'[i].part = "header" /\ channel'[i].of.number = n
    BY <1>3, <2>1 DEF QueueInv, CoverInv, Num, IsHeader, L
  <2> QED
    BY <1>1, <1>3, <2>1 DEF CoverInv, Num, IsHeader
<1> QED
  BY <1>6, <1>7, <1>8, <1>9, <1>10, <1>11 DEF QueueInv

\* What was shown is one message more.
LEMMA ShownGrows ==
  ASSUME BaseInv, ShownInv, NEW n, n = Len(shown) + 1, shown' = Append(shown, <<n, n>>)
  PROVE  ShownInv' /\ Len(shown') = Len(shown) + 1
<1>1. shown \in Seq(Nat \X Nat) /\ Len(shown) \in Nat /\ n \in Nat
  BY EmptyFacts DEF BaseInv, TypeInv
<1>2. /\ Len(shown') = Len(shown) + 1 /\ shown'[n] = <<n, n>>
      /\ \A i \in 1 .. Len(shown) : shown'[i] = shown[i]
  BY <1>1, PairFacts
<1>3. \A i \in 1 .. Len(shown') : i \in 1 .. Len(shown) \/ i = n
  BY <1>1, <1>2
<1> QED
  BY <1>2, <1>3 DEF ShownInv

\* The order of what is left does not change.
LEMMA TailKeepsOrder ==
  ASSUME BaseInv, OrderInv, channel # <<>>, channel' = Tail(channel)
  PROVE  OrderInv'
<1>1. /\ Len(channel') = Len(channel) - 1 /\ Len(channel) \in Nat
      /\ \A i \in 1 .. Len(channel) - 1 : channel'[i] = channel[i + 1] /\ i + 1 \in 1 .. Len(channel)
  BY TailFacts DEF BaseInv, TypeInv
<1>2. ASSUME NEW i \in 1 .. Len(channel) - 1, NEW j \in 1 .. Len(channel) - 1, i < j
      PROVE  /\ channel'[i].of.number <= channel'[j].of.number
             /\ channel'[j].part = "header" \/ channel'[i].part = "body"
                  => channel'[i].of.number < channel'[j].of.number
  <2>1. i + 1 < j + 1
    BY <1>2
  <2> QED
    BY <1>1, <2>1 DEF OrderInv, Num, IsHeader, IsBody
<1> QED
  BY <1>1, <1>2 DEF OrderInv, Num, IsHeader, IsBody

LEMMA TailKeepsPairs ==
  ASSUME BaseInv, PairInv, channel # <<>>, channel' = Tail(channel),
         NEW i \in 1 .. (Len(channel) - 1) - 1,
         channel'[i].part = "header", HasBody(channel'[i].of.kind)
  PROVE  channel'[i + 1].part = "body"
<1>1. /\ Len(channel) \in Nat
      /\ \A k \in 1 .. Len(channel) - 1 : channel'[k] = channel[k + 1]
  BY TailFacts DEF BaseInv, TypeInv
<1>2. i \in 1 .. Len(channel) - 1 /\ i + 1 \in 1 .. Len(channel) - 1
  BY <1>1
<1>3. channel'[i] = channel[i + 1] /\ channel'[i + 1] = channel[(i + 1) + 1]
  BY <1>1, <1>2
<1> QED
  BY <1>2, <1>3 DEF PairInv, IsHeader, IsBody

\* A header is read: it is that of the next message.
LEMMA ReadHeaderKeepsQueue ==
  ASSUME BaseInv, QueueIfWhole, ReadHeader
  PROVE  QueueIfWhole'
<1> SUFFICES ASSUME QueueInv, harm = "none", receiver' # "ended" PROVE QueueInv'
  BY DEF QueueIfWhole, Whole, ReadHeader
<1>1. /\ receiver = "header" /\ channel # <<>> /\ channel' = Tail(channel)
      /\ UNCHANGED <<pc, push, posted>>
  BY DEF ReadHeader, GiveUp
<1> DEFINE n == Len(shown) + 1
<1>2. /\ channel[1] \in Packets /\ Head(channel) = channel[1]
      /\ IsHeader(1) /\ ~IsBody(1) /\ Num(1) = n
  BY <1>1, FirstPacket, TailFacts DEF BaseInv, TypeInv, IsHeader, IsBody
<1> DEFINE L == Len(channel)
<1>3. /\ L \in Nat /\ L >= 1 /\ 1 \in 1 .. L /\ Len(channel') = L - 1
      /\ \A i \in 1 .. L - 1 : channel'[i] = channel[i + 1] /\ i + 1 \in 1 .. L /\ i \in 1 .. L
  BY <1>1, TailFacts DEF BaseInv, TypeInv
<1> HIDE DEF L
<1>4. /\ posted \in Nat /\ Len(shown) \in Nat /\ shown \in Seq(Nat \X Nat)
      /\ \A i \in 1 .. L : Num(i) \in Nat /\ (IsHeader(i) <=> ~IsBody(i))
  BY EmptyFacts, PacketFacts DEF BaseInv, TypeInv, L
<1>5. CASE ~HasBody(channel[1].of.kind)
  <2>1. shown' = Append(shown, <<n, n>>) /\ UNCHANGED <<receiver, reading>>
    BY <1>2, <1>5 DEF ReadHeader, GiveUp, Num, IsHeader
  <2>2. ShownInv' /\ Len(shown') = n
    BY <2>1, ShownGrows DEF QueueInv
  <2>3. RangeInv'
    <3>1. n <= posted
      BY <1>2, <1>3, <1>4 DEF QueueInv, RangeInv, L
    <3>2. ASSUME NEW i \in 1 .. L - 1
          PROVE  n < channel'[i].of.number /\ channel'[i].of.number <= posted
      <4>1. i + 1 \in 1 .. L /\ i \in 1 .. L /\ 1 < i + 1 /\ channel'[i] = channel[i + 1]
        BY <1>3
      <4>2. CASE IsHeader(i + 1)
        BY <1>2, <1>3, <1>4, <4>1, <4>2 DEF QueueInv, OrderInv, RangeInv, Num, L
      <4>3. CASE IsBody(i + 1)
        <5>1. /\ IsHeader(i) /\ channel[i].of = channel[i + 1].of
              /\ HasBody(channel[i + 1].of.kind)
          BY <1>4, <4>1, <4>3 DEF QueueInv, PairInv, L
        <5>2. i # 1
          BY <1>5, <5>1
        <5>3. n < Num(i) /\ Num(i) <= posted
          BY <1>2, <1>3, <1>4, <4>1, <5>1, <5>2 DEF QueueInv, OrderInv, RangeInv, L
        <5> QED
          BY <4>1, <5>1, <5>3 DEF Num
      <4> QED
        BY <1>4, <4>1, <4>2, <4>3
    <3> QED
      BY <1>1, <1>3, <2>1, <2>2, <3>1, <3>2 DEF RangeInv, Num
  <2>4. PairInv'
    <3>1. ASSUME NEW i \in 1 .. L - 1, channel'[i].part = "body"
          PROVE  /\ i # 1
                 /\ channel'[i - 1].part = "header" /\ channel'[i - 1].of = channel'[i].of
                 /\ HasBody(channel'[i].of.kind)
      <4>1. /\ IsHeader(i) /\ channel[i].of = channel[i + 1].of
            /\ HasBody(channel[i + 1].of.kind)
        BY <1>3, <3>1 DEF QueueInv, PairInv, IsBody, L
      <4>2. i # 1
        BY <1>5, <4>1
      <4>3. i - 1 \in 1 .. L - 1 /\ (i - 1) + 1 = i
        BY <1>3, <4>2
      <4>4. channel'[i - 1] = channel[i]
        BY <1>3, <4>3
      <4> QED
        BY <1>3, <4>1, <4>2, <4>4 DEF IsHeader
    <3>2. ASSUME NEW i \in 1 .. (L - 1) - 1, channel'[i].part = "header", HasBody(channel'[i].of.kind)
          PROVE  channel'[i + 1].part = "body"
      BY <1>1, <3>2, TailKeepsPairs DEF QueueInv, L
    <3> QED
      BY <1>1, <1>3, <2>1, <3>1, <3>2 DEF PairInv, IsHeader, IsBody
  <2>5. OrderInv'
    BY <1>1, TailKeepsOrder DEF QueueInv
  <2>6. LastInv'
    <3>1. L - 1 # 0 => channel'[L - 1] = channel[L]
      BY <1>3
    <3>2. L - 1 = 0 => \A h \in Handlers : pc[h] \notin {"between", "body"}
      <4>1. SUFFICES ASSUME L = 1, NEW h \in Handlers, pc[h] \in {"between", "body"} PROVE FALSE
        BY <1>3
      <4>2. channel[1].of = push[h] /\ HasBody(push[h].kind)
        BY <4>1 DEF QueueInv, LastInv, BaseInv, PlaceInv, L
      <4> QED
        BY <1>5, <4>2
    <3> QED
      BY <1>1, <1>3, <2>1, <3>1, <3>2 DEF QueueInv, LastInv, IsHeader, L
  <2>7. CoverInv'
    <3>1. ASSUME NEW m \in Nat, n < m, m <= posted
          PROVE  \E i \in 1 .. L - 1 : channel'[i].part = "header" /\ channel'[i].of.number = m
      <4>1. PICK i \in 1 .. L : IsHeader(i) /\ Num(i) = m
        BY <1>1, <1>4, <3>1 DEF QueueInv, CoverInv, L
      <4>2. i # 1
        BY <1>2, <1>4, <3>1, <4>1
      <4>3. i - 1 \in 1 .. L - 1 /\ (i - 1) + 1 = i
        BY <1>3, <4>2
      <4>4. channel'[i - 1] = channel[i]
        BY <1>3, <4>3
      <4> QED
        BY <4>1, <4>3, <4>4 DEF Num, IsHeader
    <3> QED
      BY <1>1, <1>3, <2>2, <3>1 DEF CoverInv, Num, IsHeader
  <2> QED
    BY <2>2, <2>3, <2>4, <2>5, <2>6, <2>7 DEF QueueInv
<1>6. CASE HasBody(channel[1].of.kind)
  <2>1. receiver' = "body" /\ reading' = channel[1].of /\ UNCHANGED shown
    BY <1>2, <1>6 DEF ReadHeader, GiveUp, IsHeader
  <2>2. reading'.number = n
    BY <1>2, <2>1 DEF Num
  <2>3. RangeInv'
    <3>1. Len(shown) < posted
      BY <1>2, <1>3, <1>4 DEF QueueInv, RangeInv, L
    <3>2. ASSUME NEW i \in 1 .. L - 1
          PROVE  /\ Len(shown) < channel'[i].of.number /\ channel'[i].of.number <= posted
                 /\ channel'[i].part = "header" => n < channel'[i].of.number
      <4>1. i + 1 \in 1 .. L /\ 1 < i + 1 /\ channel'[i] = channel[i + 1]
        BY <1>3
      <4> QED
        BY <1>2, <1>3, <1>4, <4>1 DEF QueueInv, OrderInv, RangeInv, Num, IsHeader, L
    <3>3. posted' = posted /\ shown' = shown /\ Len(channel') = L - 1
      BY <1>1, <1>3, <2>1
    <3>4. \A i \in 1 .. Len(channel') : /\ Len(shown') < channel'[i].of.number
                                        /\ channel'[i].of.number <= posted'
      BY <3>2, <3>3
    <3>5. reading'.number = Len(shown') + 1 /\ Len(shown') < posted' /\ Len(shown') <= posted'
      BY <1>3, <1>4, <2>2, <3>1, <3>3
    <3>6. \A i \in 1 .. Len(channel') :
            channel'[i].part = "header" => Len(shown') + 1 < channel'[i].of.number
      BY <2>2, <3>2, <3>3, <3>5
    <3> HIDE DEF n, L
    <3> QED
      BY <3>3, <3>4, <3>5, <3>6 DEF RangeInv, Num, IsHeader
  <2>4. PairInv'
    <3>1. ASSUME NEW i \in 1 .. L - 1, channel'[i].part = "body"
          PROVE  IF i = 1 THEN reading' = channel'[1].of
                 ELSE channel'[i - 1].part = "header" /\ channel'[i - 1].of = channel'[i].of
                      /\ HasBody(channel'[i].of.kind)
      <4>1. /\ IsHeader(i) /\ channel[i].of = channel[i + 1].of
            /\ HasBody(channel[i + 1].of.kind)
        BY <1>3, <3>1 DEF QueueInv, PairInv, IsBody, L
      <4>2. CASE i = 1
        BY <1>3, <2>1, <4>1, <4>2
      <4>3. CASE i # 1
        <5>1. i - 1 \in 1 .. L - 1 /\ (i - 1) + 1 = i
          BY <1>3, <4>3
        <5>2. channel'[i - 1] = channel[i]
          BY <1>3, <5>1
        <5> QED
          BY <1>3, <4>1, <4>3, <5>2 DEF IsHeader
      <4> QED
        BY <4>2, <4>3
    <3>2. L - 1 > 0 => channel'[1].part = "body"
      BY <1>2, <1>3, <1>6 DEF QueueInv, PairInv, IsBody, L
    <3>3. ASSUME NEW i \in 1 .. (L - 1) - 1, channel'[i].part = "header", HasBody(channel'[i].of.kind)
          PROVE  channel'[i + 1].part = "body"
      BY <1>1, <3>3, TailKeepsPairs DEF QueueInv, L
    <3> QED
      BY <1>3, <2>1, <3>1, <3>2, <3>3 DEF PairInv, IsHeader, IsBody
  <2>5. OrderInv'
    BY <1>1, TailKeepsOrder DEF QueueInv
  <2>6. LastInv'
    <3>1. L - 1 # 0 => channel'[L - 1] = channel[L]
      BY <1>3
    <3>2. ASSUME L - 1 = 0
          PROVE  /\ \A h \in Handlers : pc[h] \in {"between", "body"} => push[h].number = posted /\ reading' = push[h]
                 /\ ~\A h \in Handlers : pc[h] \notin {"between", "body"}
      <4>1. L = 1
        BY <1>3, <3>2
      <4> QED
        BY <1>2, <1>6, <2>1, <4>1 DEF QueueInv, LastInv, L
    <3> QED
      BY <1>1, <1>3, <2>1, <3>1, <3>2 DEF QueueInv, LastInv, IsHeader, L
  <2>7. CoverInv'
    <3>1. ASSUME NEW m \in Nat, n < m, m <= posted
          PROVE  \E i \in 1 .. L - 1 : channel'[i].part = "header" /\ channel'[i].of.number = m
      <4>1. PICK i \in 1 .. L : IsHeader(i) /\ Num(i) = m
        BY <1>1, <1>4, <3>1 DEF QueueInv, CoverInv, L
      <4>2. i # 1
        BY <1>2, <1>4, <3>1, <4>1
      <4>3. i - 1 \in 1 .. L - 1 /\ (i - 1) + 1 = i
        BY <1>3, <4>2
      <4>4. channel'[i - 1] = channel[i]
        BY <1>3, <4>3
      <4> QED
        BY <4>1, <4>3, <4>4 DEF Num, IsHeader
    <3>2. \A m \in Nat : Len(shown) < m => m = n \/ n < m
      BY <1>4
    <3> QED
      BY <1>1, <1>3, <2>1, <3>1, <3>2 DEF CoverInv, Num, IsHeader
  <2>8. ShownInv'
    BY <2>1 DEF QueueInv, ShownInv
  <2> QED
    BY <2>3, <2>4, <2>5, <2>6, <2>7, <2>8 DEF QueueInv
<1> QED
  BY <1>5, <1>6

\* A body is read: it is the one of the header before.
LEMMA ReadBodyKeepsQueue ==
  ASSUME BaseInv, QueueIfWhole, ReadBody
  PROVE  QueueIfWhole'
<1>1. /\ receiver = "body" /\ channel # <<>>
      /\ UNCHANGED <<pc, push, posted>>
      /\ harm' = harm \/ harm' = "spoilt"
      /\ receiver' # "body" /\ reading' = NoPush
      /\ receiver' # "ended" =>
           /\ channel' = Tail(channel)
           /\ shown' = Append(shown, <<reading.number, Head(channel).of.number>>)
  BY DEF ReadBody, GiveUp, Request, MayCross
<1> SUFFICES ASSUME QueueInv, receiver' # "ended" PROVE QueueInv'
  BY <1>1 DEF QueueIfWhole, Whole
<1> DEFINE n == Len(shown) + 1
<1>2. /\ Head(channel) = channel[1] /\ IsBody(1) /\ channel[1].of = reading
      /\ reading.number = n /\ channel' = Tail(channel)
  BY <1>1, FirstPacket, TailFacts DEF BaseInv, TypeInv, QueueInv, RangeInv
<1> DEFINE L == Len(channel)
<1>3. /\ L \in Nat /\ L >= 1 /\ 1 \in 1 .. L /\ Len(channel') = L - 1
      /\ \A i \in 1 .. L - 1 : channel'[i] = channel[i + 1] /\ i + 1 \in 1 .. L /\ i \in 1 .. L
  BY <1>1, <1>2, TailFacts DEF BaseInv, TypeInv
<1> HIDE DEF L
<1>4. /\ posted \in Nat /\ Len(shown) \in Nat /\ shown \in Seq(Nat \X Nat)
      /\ \A i \in 1 .. L : Num(i) \in Nat /\ (IsHeader(i) <=> ~IsBody(i))
  BY EmptyFacts, PacketFacts DEF BaseInv, TypeInv, L
<1>5. ShownInv' /\ Len(shown') = n
  BY <1>1, <1>2, ShownGrows DEF QueueInv
<1>6. RangeInv'
  <2>1. n <= posted
    BY <1>1, <1>4 DEF QueueInv, RangeInv
  <2>2. ASSUME NEW i \in 1 .. L - 1
        PROVE  n < channel'[i].of.number /\ channel'[i].of.number <= posted
    <3>1. i + 1 \in 1 .. L /\ 1 < i + 1 /\ channel'[i] = channel[i + 1]
      BY <1>3
    <3>2. Num(1) = n
      BY <1>2 DEF Num
    <3>3. n < Num(i + 1) /\ Num(i + 1) <= posted
      BY <1>2, <1>3, <3>1, <3>2 DEF QueueInv, OrderInv, RangeInv, L
    <3> QED
      BY <3>1, <3>3 DEF Num
  <2> QED
    BY <1>1, <1>3, <1>5, <2>1, <2>2 DEF RangeInv, Num
<1>7. PairInv'
  <2>1. ASSUME NEW i \in 1 .. L - 1, channel'[i].part = "body"
        PROVE  /\ i # 1
               /\ channel'[i - 1].part = "header" /\ channel'[i - 1].of = channel'[i].of
               /\ HasBody(channel'[i].of.kind)
    <3>1. /\ IsHeader(i) /\ channel[i].of = channel[i + 1].of
          /\ HasBody(channel[i + 1].of.kind)
      BY <1>3, <2>1 DEF QueueInv, PairInv, IsBody, L
    <3>2. i # 1
      BY <1>2, <1>3, <1>4, <3>1
    <3>3. i - 1 \in 1 .. L - 1 /\ (i - 1) + 1 = i
      BY <1>3, <3>2
    <3>4. channel'[i - 1] = channel[i]
      BY <1>3, <3>3
    <3> QED
      BY <1>3, <3>1, <3>2, <3>4 DEF IsHeader
  <2>2. ASSUME NEW i \in 1 .. (L - 1) - 1, channel'[i].part = "header", HasBody(channel'[i].of.kind)
        PROVE  channel'[i + 1].part = "body"
    BY <1>1, <1>2, <2>2, TailKeepsPairs DEF QueueInv, L
  <2> QED
    BY <1>1, <1>3, <2>1, <2>2 DEF PairInv, IsHeader, IsBody
<1>8. OrderInv'
  BY <1>1, <1>2, TailKeepsOrder DEF QueueInv
<1>9. LastInv'
  <2>1. L - 1 # 0 => channel'[L - 1] = channel[L]
    BY <1>3
  <2>2. ASSUME L - 1 = 0, NEW h \in Handlers
        PROVE  pc[h] \notin {"between", "body"}
    <3>1. L = 1
      BY <1>3, <2>2
    <3> QED
      BY <1>2, <1>3, <1>4, <3>1 DEF QueueInv, LastInv, L
  <2> QED
    BY <1>1, <1>3, <2>1, <2>2 DEF QueueInv, LastInv, IsHeader, L
<1>10. CoverInv'
  <2>1. ASSUME NEW m \in Nat, n < m, m <= posted
        PROVE  \E i \in 1 .. L - 1 : channel'[i].part = "header" /\ channel'[i].of.number = m
    <3>1. PICK i \in 1 .. L : IsHeader(i) /\ Num(i) = m
      BY <1>4, <2>1 DEF QueueInv, CoverInv, L
    <3>2. i # 1
      BY <1>2, <1>3, <1>4, <3>1
    <3>3. i - 1 \in 1 .. L - 1 /\ (i - 1) + 1 = i
      BY <1>3, <3>2
    <3>4. channel'[i - 1] = channel[i]
      BY <1>3, <3>3
    <3> QED
      BY <3>1, <3>3, <3>4 DEF Num, IsHeader
  <2> QED
    BY <1>1, <1>3, <1>5, <2>1 DEF CoverInv, Num, IsHeader
<1> QED
  BY <1>5, <1>6, <1>7, <1>8, <1>9, <1>10 DEF QueueInv

-----------------------------------------------------------------------------
LEMMA QueueInit == Init => QueueIfWhole
BY DEF Init, QueueIfWhole, QueueInv, ShownInv, RangeInv, PairInv, OrderInv, LastInv, CoverInv

LEMMA QueueNext ==
  BaseInv /\ BaseInv' /\ HarmType /\ QueueIfWhole /\ [Next]_vars => QueueIfWhole'
<1> SUFFICES ASSUME BaseInv, BaseInv', HarmType, QueueIfWhole, [Next]_vars
             PROVE QueueIfWhole'
  OBVIOUS
<1>1. ASSUME NEW h \in Handlers,
             \/ \E kind \in Kinds, size \in Sizes : Begin(h, kind, size)
             \/ h = Home /\ BeginElsewhere
             \/ Lookup(h) \/ Lock(h) \/ EnterBody(h)
      PROVE  QueueIfWhole'
  <2>1. /\ UNCHANGED <<channel, receiver, reading, posted, shown>>
        /\ harm' = "none" => harm = "none"
    BY <1>1 DEF Begin, BeginElsewhere, Lookup, Lock, EnterBody, EnterWrite
  <2>2. \A g \in Handlers : /\ pc'[g] \in {"between", "body"} <=> pc[g] \in {"between", "body"}
                            /\ pc[g] \in {"between", "body"} => push'[g] = push[g]
    BY <1>1 DEF BaseInv, TypeInv, Begin, BeginElsewhere, Lookup, Lock, EnterBody, EnterWrite,
       Finish, Goto
  <2> QED
    BY <2>1, <2>2, QueueFrame
<1>2. ASSUME NEW h \in Handlers, WriteFails(h)
      PROVE  QueueIfWhole'
  BY <1>2 DEF WriteFails, QueueIfWhole, Whole
<1>3. ASSUME NEW h \in Handlers, WriteHeader(h) \/ WriteBody(h)
      PROVE  QueueIfWhole'
  BY <1>3, HeaderKeepsQueue, BodyKeepsQueue
<1>4. CASE Ask \/ AnswerName \/ AppendText \/ AddHistory
  <2>1. /\ UNCHANGED <<pc, push, channel, reading, posted, shown>>
        /\ harm' = "none" => harm = "none"
        /\ receiver' = receiver \/ {receiver, receiver'} \cap {"body", "ended"} = {}
    BY <1>4 DEF Ask, Request, MayCross, AnswerName, AppendText, AddHistory
  <2> QED
    BY <2>1, QueueFrame
<1>5. CASE ReadHeader \/ ReadBody
  BY <1>5, ReadHeaderKeepsQueue, ReadBodyKeepsQueue
<1>6. CASE UNCHANGED vars
  BY <1>6, QueueFrame DEF vars
<1>7. CASE ReadRefused
  BY <1>7 DEF ReadRefused, GiveUp, QueueIfWhole, Whole
<1> QED
  BY <1>1, <1>2, <1>3, <1>4, <1>5, <1>6, <1>7 DEF Next, HandlerStep, Serve, Receive, Handlers

\* A connection on which no header was written between another push's two packets,
\* no packet into another and none past a request is a queue of whole messages, for any number of handlers, any room and any
\* number of pushes.
THEOREM NothingIsLost == Spec => []NothingLost
<1>1. BaseInv /\ QueueIfWhole => NothingLost
  <2> SUFFICES ASSUME BaseInv, QueueInv, Whole
               PROVE  /\ \A i \in 1 .. Len(shown) : shown[i] = <<i, i>>
                      /\ \A n \in Len(shown) + 1 .. posted : OnItsWay(n)
                      /\ \A i, j \in 1 .. Len(channel) :
                           i < j /\ channel[i].part = channel[j].part
                             => channel[i].of.number < channel[j].of.number
    BY DEF NothingLost, QueueIfWhole, Whole
  <2>1. \A i \in 1 .. Len(shown) : shown[i] = <<i, i>>
    BY DEF QueueInv, ShownInv
  <2>2. ASSUME NEW n \in Len(shown) + 1 .. posted PROVE OnItsWay(n)
    <3>1. posted \in Nat /\ Len(shown) \in Nat
      BY EmptyFacts DEF BaseInv, TypeInv
    <3>2. CASE receiver = "body" /\ n = Len(shown) + 1
      BY <3>2, KindsAreReal DEF OnItsWay, BaseInv, ReadInv, QueueInv, RangeInv
    <3>3. CASE \E i \in 1 .. Len(channel) : IsHeader(i) /\ Num(i) = n
      BY <3>3 DEF OnItsWay, IsHeader, Num
    <3> QED
      BY <3>1, <3>2, <3>3 DEF QueueInv, CoverInv
  <2>3. ASSUME NEW i \in 1 .. Len(channel), NEW j \in 1 .. Len(channel), i < j,
               channel[i].part = channel[j].part
        PROVE  channel[i].of.number < channel[j].of.number
    <3>1. IsHeader(j) \/ IsBody(i)
      BY <2>3, PacketFacts DEF BaseInv, IsHeader, IsBody
    <3> QED
      BY <2>3, <3>1 DEF QueueInv, OrderInv, Num
  <2> QED
    BY <2>1, <2>2, <2>3
<1> QED
  BY BaseInit, BaseNext, HarmTyped, QueueInit, QueueNext, <1>1, PTL DEF Spec

-----------------------------------------------------------------------------
\* The promise of Feed, which does not end with an overlap: headers stay in order
\* and what is read is younger than what was shown, whatever was spoilt.

Latest == Promise!Latest

\* From k on, headers only grow; nothing is in the buffer that was not posted.
HeadersAbove(k) == \A i \in 1 .. Len(channel) : IsHeader(i) => k < Num(i)

FeedInv ==
  /\ \A i \in 1 .. Len(channel) : 1 <= Num(i) /\ Num(i) <= posted
  /\ \A i, j \in 1 .. Len(channel) : i < j /\ IsHeader(i) /\ IsHeader(j) => Num(i) < Num(j)
  /\ Latest <= posted /\ HeadersAbove(Latest)
  /\ receiver = "body" => /\ Latest < reading.number /\ reading.number <= posted
                          /\ HeadersAbove(reading.number)
  /\ \A h \in Handlers : pc[h] \in {"between", "body"} => 1 <= push[h].number /\ push[h].number <= posted

LEMMA LatestFacts ==
  ASSUME NEW q \in Seq(Nat \X Nat)
  PROVE  /\ (IF q = <<>> THEN 0 ELSE q[Len(q)][1]) \in Nat
         /\ \A m, n \in Nat : LET r == Append(q, <<m, n>>)
                              IN  (IF r = <<>> THEN 0 ELSE r[Len(r)][1]) = m
<1>1. Len(q) \in Nat /\ (q # <<>> => q[Len(q)] \in Nat \X Nat)
  <2>1. Len(q) \in Nat /\ (q = <<>> <=> Len(q) = 0) /\ \A i \in 1 .. Len(q) : q[i] \in Nat \X Nat
    BY EmptyFacts
  <2> QED
    BY <2>1
<1>2. ASSUME NEW m \in Nat, NEW n \in Nat
      PROVE  LET r == Append(q, <<m, n>>)
             IN  (IF r = <<>> THEN 0 ELSE r[Len(r)][1]) = m
  <2> DEFINE r == Append(q, <<m, n>>)
  <2>1. r \in Seq(Nat \X Nat) /\ Len(r) = Len(q) + 1 /\ r[Len(q) + 1] = <<m, n>>
    BY PairFacts
  <2> HIDE DEF r
  <2>2. r # <<>>
    BY <1>1, <2>1, EmptyFacts
  <2>3. (IF r = <<>> THEN 0 ELSE r[Len(r)][1]) = m
    BY <2>1, <2>2
  <2> QED
    BY <2>3 DEF r
<1> QED
  BY <1>1, <1>2

\* What was shown last, before and after a step that shows something.
LEMMA LatestShown ==
  ASSUME BaseInv
  PROVE  /\ Latest \in Nat
         /\ shown' = shown => Latest' = Latest
         /\ \A m, n \in Nat : shown' = Append(shown, <<m, n>>) => Latest' = m
<1>1. shown \in Seq(Nat \X Nat)
  BY DEF BaseInv, TypeInv
<1>2. Latest \in Nat
  BY <1>1, LatestFacts DEF Latest, Promise!Latest
<1>3. ASSUME NEW m \in Nat, NEW n \in Nat, shown' = Append(shown, <<m, n>>)
      PROVE  Latest' = m
  BY <1>1, <1>3, LatestFacts DEF Latest, Promise!Latest
<1>4. shown' = shown => Latest' = Latest
  BY DEF Latest, Promise!Latest
<1> QED
  BY <1>2, <1>3, <1>4

\* Steps of which the promise sees nothing.
LEMMA FeedFrame ==
  ASSUME FeedInv, UNCHANGED <<channel, posted, shown, reading>>,
         receiver' = "body" => receiver = "body",
         \A h \in Handlers : /\ pc'[h] \in {"between", "body"} => pc[h] \in {"between", "body"}
                             /\ pc'[h] \in {"between", "body"} => push'[h] = push[h]
  PROVE  FeedInv'
<1>1. Latest' = Latest
  BY DEF Latest, Promise!Latest
<1> QED
  BY <1>1 DEF FeedInv, HeadersAbove, Num, IsHeader

\* A header is the youngest of all.
LEMMA HeaderKeepsFeed ==
  ASSUME BaseInv, FeedInv, NEW h \in Handlers, WriteHeader(h)
  PROVE  FeedInv'
<1> DEFINE p == [push[h] EXCEPT !.number = posted + 1]
           x == [of |-> p, part |-> "header"]
           L == Len(channel)
<1>1. /\ p \in Push /\ p.number = posted + 1
      /\ channel' = Append(channel, x) /\ x \in Packets
      /\ posted' = posted + 1
      /\ UNCHANGED <<receiver, reading, shown>>
      /\ HasBody(push[h].kind) => /\ push' = [push EXCEPT ![h] = p]
                                  /\ pc' = [pc EXCEPT ![h] = "between"]
      /\ ~HasBody(push[h].kind) => Finish(h)
  BY HeaderFacts
<1>2. x.of = p /\ x.part = "header"
  OBVIOUS
<1>3. /\ L \in Nat /\ Len(channel') = L + 1 /\ channel'[L + 1] = x
      /\ \A i \in 1 .. L : channel'[i] = channel[i] /\ i \in 1 .. L + 1
      /\ \A i \in 1 .. L + 1 : i \in 1 .. L \/ i = L + 1
  <2>1. channel \in Seq(Packets)
    BY DEF BaseInv, TypeInv
  <2> HIDE DEF x
  <2> QED
    BY <1>1, <2>1, AppendFacts
<1> HIDE DEF p, x, L
<1>4. posted \in Nat /\ Latest \in Nat /\ Latest' = Latest
  BY <1>1, LatestShown DEF BaseInv, TypeInv
<1>5. \A i \in 1 .. L : Num(i) \in Nat
  BY PacketFacts DEF BaseInv, L
<1>6. /\ \A i \in 1 .. L : channel'[i].of.number = Num(i) /\ (channel'[i].part = "header" <=> IsHeader(i))
      /\ channel'[L + 1].of.number = posted + 1
  BY <1>1, <1>2, <1>3 DEF Num, IsHeader
<1>7. \A i \in 1 .. L : 1 <= Num(i) /\ Num(i) <= posted
  BY DEF FeedInv, L
<1>8. \A i \in 1 .. L + 1 : 1 <= channel'[i].of.number /\ channel'[i].of.number <= posted + 1
  BY <1>3, <1>4, <1>5, <1>6, <1>7
<1>9. ASSUME NEW i \in 1 .. L + 1, NEW j \in 1 .. L + 1, i < j,
             channel'[i].part = "header", channel'[j].part = "header"
      PROVE  channel'[i].of.number < channel'[j].of.number
  <2>1. i \in 1 .. L
    BY <1>3, <1>9
  <2>2. CASE j = L + 1
    BY <1>4, <1>5, <1>6, <1>7, <2>1, <2>2
  <2>3. CASE j \in 1 .. L
    BY <1>6, <1>9, <2>1, <2>3 DEF FeedInv, L
  <2> QED
    BY <1>3, <2>2, <2>3
<1>10. ASSUME NEW k \in Nat, k <= posted, HeadersAbove(k)
       PROVE  HeadersAbove(k)'
  <2>1. ASSUME NEW i \in 1 .. L + 1, channel'[i].part = "header"
        PROVE  k < channel'[i].of.number
    <3>1. CASE i = L + 1
      BY <1>4, <1>6, <1>10, <3>1
    <3>2. CASE i \in 1 .. L
      BY <1>6, <1>10, <2>1, <3>2 DEF HeadersAbove, L
    <3> QED
      BY <1>3, <3>1, <3>2
  <2> QED
    BY <1>3, <2>1 DEF HeadersAbove, Num, IsHeader
<1>11. ASSUME NEW g \in Handlers, pc'[g] \in {"between", "body"}
       PROVE  1 <= push'[g].number /\ push'[g].number <= posted + 1
  <2>1. pc \in [Handlers -> PCs] /\ push \in [Handlers -> Push \cup {NoPush}] /\ pc[h] = "header"
    BY DEF BaseInv, TypeInv, WriteHeader
  <2>2. CASE g = h
    <3>1. HasBody(push[h].kind)
      BY <1>1, <1>11, <2>1, <2>2 DEF Finish, Goto
    <3>2. push'[g] = p
      BY <1>1, <2>1, <2>2, <3>1
    <3> QED
      BY <1>1, <1>4, <3>2
  <2>3. CASE g # h
    <3>1. pc[g] \in {"between", "body"} /\ push'[g] = push[g]
      BY <1>1, <1>11, <2>1, <2>3 DEF Finish, Goto
    <3>2. push[g] \in Push
      BY <3>1 DEF BaseInv, PlaceInv
    <3>3. push[g].number \in Nat
      BY <3>2 DEF Push
    <3>4. 1 <= push[g].number /\ push[g].number <= posted
      BY <3>1 DEF FeedInv
    <3> QED
      BY <1>4, <3>1, <3>3, <3>4
  <2> QED
    BY <2>2, <2>3
<1>12. Latest <= posted /\ HeadersAbove(Latest)
  BY DEF FeedInv
<1>13. receiver = "body" => /\ reading.number \in Nat /\ Latest < reading.number
                            /\ reading.number <= posted /\ HeadersAbove(reading.number)
  BY DEF FeedInv, BaseInv, ReadInv, Push
<1> QED
  BY <1>1, <1>3, <1>4, <1>8, <1>9, <1>10, <1>11, <1>12, <1>13 DEF FeedInv, Num, IsHeader

LEMMA BodyKeepsFeed ==
  ASSUME BaseInv, FeedInv, NEW h \in Handlers, WriteBody(h)
  PROVE  FeedInv'
<1> DEFINE x == [of |-> push[h], part |-> "body"]
           L == Len(channel)
<1>1. /\ pc[h] \in {"between", "body"} /\ Finish(h) /\ channel' = Append(channel, x)
      /\ UNCHANGED <<receiver, reading, posted, shown>>
  BY DEF WriteBody
<1>2. x \in Packets /\ x.of = push[h] /\ x.part = "body" /\ push[h].number \in Nat
  BY <1>1 DEF BaseInv, PlaceInv, Packets, Push
<1>3. /\ L \in Nat /\ Len(channel') = L + 1 /\ channel'[L + 1] = x
      /\ \A i \in 1 .. L : channel'[i] = channel[i] /\ i \in 1 .. L + 1
      /\ \A i \in 1 .. L + 1 : i \in 1 .. L \/ i = L + 1
  <2>1. channel \in Seq(Packets)
    BY DEF BaseInv, TypeInv
  <2> HIDE DEF x
  <2> QED
    BY <1>1, <1>2, <2>1, AppendFacts
<1> HIDE DEF x, L
<1>4. \A i \in 1 .. L + 1 :
        /\ channel'[i].part = "header" => i \in 1 .. L /\ channel'[i] = channel[i]
        /\ 1 <= channel'[i].of.number /\ channel'[i].of.number <= posted
  BY <1>1, <1>2, <1>3 DEF FeedInv, Num, L
<1>5. \A k : HeadersAbove(k) => HeadersAbove(k)'
  BY <1>3, <1>4 DEF HeadersAbove, Num, IsHeader, L
<1>6. \A i, j \in 1 .. L + 1 :
        i < j /\ channel'[i].part = "header" /\ channel'[j].part = "header"
          => channel'[i].of.number < channel'[j].of.number
  BY <1>3, <1>4 DEF FeedInv, Num, IsHeader, L
<1>7. \A g \in Handlers : pc'[g] \in {"between", "body"} => pc[g] \in {"between", "body"} /\ push'[g] = push[g]
  BY <1>1 DEF Finish, Goto, BaseInv, TypeInv
<1>8. Latest' = Latest
  BY <1>1, LatestShown
<1> QED
  BY <1>1, <1>3, <1>4, <1>5, <1>6, <1>7, <1>8 DEF FeedInv, Num, IsHeader

\* What is left when the first packet is gone; all headers are above a first one.
LEMMA TailKeepsFeed ==
  ASSUME BaseInv, FeedInv, channel # <<>>, channel' = Tail(channel), UNCHANGED posted
  PROVE  /\ \A i \in 1 .. Len(channel') : 1 <= Num(i)' /\ Num(i)' <= posted'
         /\ \A i, j \in 1 .. Len(channel') : i < j /\ IsHeader(i)' /\ IsHeader(j)' => Num(i)' < Num(j)'
         /\ \A k : HeadersAbove(k) => HeadersAbove(k)'
         /\ \A k : IsHeader(1) /\ k = Num(1) => HeadersAbove(k)'
         /\ Head(channel) = channel[1] /\ Num(1) \in Nat /\ 1 <= Num(1) /\ Num(1) <= posted
         /\ IsHeader(1) <=> ~IsBody(1)
         /\ \A k : HeadersAbove(k) /\ IsHeader(1) => k < Num(1)
<1>1. /\ Len(channel') = Len(channel) - 1 /\ Len(channel) \in Nat /\ Len(channel) >= 1
      /\ Head(channel) = channel[1]
      /\ \A i \in 1 .. Len(channel) - 1 : channel'[i] = channel[i + 1] /\ i + 1 \in 1 .. Len(channel)
  BY TailFacts DEF BaseInv, TypeInv
<1>2. 1 \in 1 .. Len(channel) /\ \A i \in 1 .. Len(channel) - 1 : 1 < i + 1
  BY <1>1
<1>3. Num(1) \in Nat /\ (IsHeader(1) <=> ~IsBody(1)) /\ 1 <= Num(1) /\ Num(1) <= posted
  BY <1>2, PacketFacts DEF BaseInv, FeedInv
<1>4. \A i \in 1 .. Len(channel') : 1 <= Num(i)' /\ Num(i)' <= posted'
  BY <1>1 DEF FeedInv, Num
<1>5. ASSUME NEW i \in 1 .. Len(channel'), NEW j \in 1 .. Len(channel'), i < j, IsHeader(i)', IsHeader(j)'
      PROVE  Num(i)' < Num(j)'
  <2>1. i + 1 < j + 1 /\ i + 1 \in 1 .. Len(channel) /\ j + 1 \in 1 .. Len(channel)
    BY <1>1, <1>5
  <2>2. channel'[i] = channel[i + 1] /\ channel'[j] = channel[j + 1]
    BY <1>1
  <2>3. IsHeader(i + 1) /\ IsHeader(j + 1)
    BY <1>5, <2>2 DEF IsHeader
  <2>4. Num(i + 1) < Num(j + 1)
    BY <2>1, <2>3 DEF FeedInv
  <2> QED
    BY <2>2, <2>4 DEF Num
<1>6. \A k : HeadersAbove(k) => HeadersAbove(k)'
  BY <1>1 DEF HeadersAbove, Num, IsHeader
<1>7. ASSUME IsHeader(1), NEW k, k = Num(1) PROVE HeadersAbove(k)'
  <2>1. \A i \in 1 .. Len(channel) - 1 : IsHeader(i + 1) => k < Num(i + 1)
    BY <1>1, <1>2, <1>7 DEF FeedInv
  <2> QED
    BY <1>1, <2>1 DEF HeadersAbove, Num, IsHeader
<1>8. \A k : HeadersAbove(k) /\ IsHeader(1) => k < Num(1)
  BY <1>2 DEF HeadersAbove
<1> QED
  BY <1>1, <1>3, <1>4, <1>5, <1>6, <1>7, <1>8

\* The reader gives up: nothing is left.
LEMMA GiveUpKeepsFeed ==
  ASSUME BaseInv, FeedInv, GiveUp, UNCHANGED <<pc, push, posted>>
  PROVE  FeedInv'
<1>1. receiver' = "ended" /\ channel' = <<>> /\ UNCHANGED shown
  BY DEF GiveUp
<1>2. Latest' = Latest
  BY <1>1, LatestShown
<1> QED
  BY <1>1, <1>2 DEF FeedInv, HeadersAbove

\* A header is read, and shown if it is all there is.
LEMMA ReadHeaderKeepsFeed ==
  ASSUME BaseInv, FeedInv, ReadHeader, ~GiveUp
  PROVE  /\ FeedInv'
         /\ \/ UNCHANGED <<posted, shown, harm>>
            \/ /\ IsHeader(1) /\ channel # <<>>
               /\ Num(1) \in Latest + 1 .. posted
               /\ shown' = Append(shown, <<Num(1), Num(1)>>)
               /\ UNCHANGED <<posted, harm>>
         /\ receiver = "header" /\ receiver' # "ended"
<1>1. /\ receiver = "header" /\ channel # <<>> /\ channel' = Tail(channel)
      /\ UNCHANGED <<pc, push, posted, harm>> /\ receiver' # "ended"
  BY DEF ReadHeader
<1> DEFINE n == Num(1)
<1>2. /\ \A i \in 1 .. Len(channel') : 1 <= Num(i)' /\ Num(i)' <= posted'
      /\ \A i, j \in 1 .. Len(channel') : i < j /\ IsHeader(i)' /\ IsHeader(j)' => Num(i)' < Num(j)'
      /\ \A k : HeadersAbove(k) => HeadersAbove(k)'
      /\ \A k : IsHeader(1) /\ k = Num(1) => HeadersAbove(k)'
      /\ Head(channel) = channel[1] /\ Num(1) \in Nat /\ 1 <= Num(1) /\ Num(1) <= posted
      /\ IsHeader(1) <=> ~IsBody(1)
      /\ \A k : HeadersAbove(k) /\ IsHeader(1) => k < Num(1)
  BY <1>1, TailKeepsFeed
<1>3. Latest \in Nat /\ posted \in Nat
  BY LatestShown DEF BaseInv, TypeInv
<1>4. /\ \A h \in Handlers : pc'[h] \in {"between", "body"} => 1 <= push'[h].number /\ push'[h].number <= posted'
      /\ Latest <= posted /\ HeadersAbove(Latest)
  BY <1>1 DEF FeedInv
<1>5. Head(channel).of.number = n /\ (IsBody(1) => Head(channel).part = "body")
      /\ (IsHeader(1) => Head(channel).part = "header")
  BY <1>2 DEF Num, IsHeader, IsBody
<1>6. CASE UNCHANGED <<receiver, reading, shown>>
  <2>1. UNCHANGED <<receiver, reading, shown>>
    BY <1>6
  <2>2. Latest' = Latest
    BY <2>1, LatestShown
  <2>3. FeedInv'
    BY <1>1, <1>2, <1>4, <2>1, <2>2 DEF FeedInv
  <2> QED
    BY <1>1, <2>1, <2>3
<1>7. CASE IsHeader(1) /\ UNCHANGED <<receiver, reading>> /\ shown' = Append(shown, <<n, n>>)
  <2>1. /\ UNCHANGED <<receiver, reading>>
        /\ shown' = Append(shown, <<n, n>>)
    BY <1>7
  <2>2. Latest' = n
    BY <1>2, <2>1, LatestShown
  <2>3. FeedInv'
    BY <1>1, <1>2, <1>4, <1>7, <2>1, <2>2 DEF FeedInv
  <2>4. n \in Latest + 1 .. posted
    <3>1. Latest < n /\ n <= posted /\ n \in Nat
      BY <1>2, <1>4, <1>7
    <3> HIDE DEF n
    <3> QED
      BY <1>3, <3>1
  <2> QED
    BY <1>1, <1>7, <2>1, <2>3, <2>4
<1>8. CASE /\ IsHeader(1) /\ receiver' = "body" /\ reading' = Head(channel).of
           /\ UNCHANGED shown
  <2>1. receiver' = "body" /\ reading' = Head(channel).of /\ UNCHANGED shown
    BY <1>8
  <2>2. Latest' = Latest /\ reading'.number = n
    BY <1>5, <2>1, LatestShown
  <2>3. Latest < n /\ n <= posted
    BY <1>2, <1>4, <1>8
  <2>4. HeadersAbove(reading.number)'
    BY <1>2, <1>8, <2>2 DEF HeadersAbove
  <2>5. FeedInv'
    BY <1>1, <1>2, <1>4, <2>2, <2>3, <2>4 DEF FeedInv
  <2> QED
    BY <1>1, <2>1, <2>5
<1>9. \/ UNCHANGED <<receiver, reading, shown>>
      \/ /\ Head(channel).part = "header" /\ UNCHANGED <<receiver, reading>>
         /\ shown' = Append(shown, <<Head(channel).of.number, Head(channel).of.number>>)
      \/ /\ Head(channel).part = "header" /\ receiver' = "body"
         /\ reading' = Head(channel).of /\ UNCHANGED shown
  BY DEF ReadHeader
<1> QED
  BY <1>5, <1>2, <1>6, <1>7, <1>8, <1>9 DEF IsHeader

\* A body, or what is taken for one, is read and shown under its header.
LEMMA ReadBodyKeepsFeed ==
  ASSUME BaseInv, FeedInv, ReadBody
  PROVE  /\ FeedInv'
         /\ receiver = "body" /\ channel # <<>>
         /\ reading.number \in Latest + 1 .. posted
         /\ UNCHANGED posted
         /\ \/ receiver' = "ended" /\ UNCHANGED <<shown, harm>>
            \/ /\ receiver' # "ended" /\ harm' \in {harm, "spoilt"}
               /\ Num(1) \in 1 .. posted
               /\ shown' = Append(shown, <<reading.number, Num(1)>>)
<1>1. /\ receiver = "body" /\ channel # <<>> /\ receiver' # "body"
      /\ UNCHANGED <<pc, push, posted>>
      /\ \/ receiver' = "ended" /\ channel' = <<>> /\ UNCHANGED <<shown, harm>>
         \/ /\ receiver' # "ended" /\ channel' = Tail(channel) /\ harm' \in {harm, "spoilt"}
            /\ shown' = Append(shown, <<reading.number, Head(channel).of.number>>)
  BY DEF ReadBody, GiveUp, Request, MayCross
<1> DEFINE n == reading.number
<1>2. /\ \A h \in Handlers : pc'[h] \in {"between", "body"} => 1 <= push'[h].number /\ push'[h].number <= posted'
      /\ Latest < n /\ n <= posted /\ HeadersAbove(n)
      /\ Latest <= posted
  BY <1>1 DEF FeedInv
<1>3. Latest \in Nat /\ posted \in Nat /\ n \in Nat
  BY <1>1, LatestShown DEF BaseInv, TypeInv, ReadInv, Push
<1>4. n \in Latest + 1 .. posted
  <2>1. Latest < n /\ n <= posted
    BY <1>2
  <2> HIDE DEF n
  <2> QED
    BY <1>3, <2>1
<1>5. CASE receiver' = "ended" /\ channel' = <<>> /\ UNCHANGED <<shown, harm>>
  <2>1. Latest' = Latest
    BY <1>5, LatestShown
  <2>2. FeedInv'
    BY <1>1, <1>2, <1>5, <2>1 DEF FeedInv, HeadersAbove
  <2> QED
    BY <1>1, <1>4, <1>5, <2>2
<1>6. CASE /\ receiver' # "ended" /\ channel' = Tail(channel) /\ harm' \in {harm, "spoilt"}
           /\ shown' = Append(shown, <<reading.number, Head(channel).of.number>>)
  <2>1. /\ \A i \in 1 .. Len(channel') : 1 <= Num(i)' /\ Num(i)' <= posted'
        /\ \A i, j \in 1 .. Len(channel') : i < j /\ IsHeader(i)' /\ IsHeader(j)' => Num(i)' < Num(j)'
        /\ \A k : HeadersAbove(k) => HeadersAbove(k)'
        /\ Head(channel) = channel[1] /\ Num(1) \in Nat /\ 1 <= Num(1) /\ Num(1) <= posted
    BY <1>1, <1>6, TailKeepsFeed
  <2>2. Head(channel).of.number = Num(1)
    BY <2>1 DEF Num
  <2>3. shown' = Append(shown, <<n, Num(1)>>)
    BY <1>6, <2>2
  <2>4. Latest' = n
    BY <1>3, <2>1, <2>3, LatestShown
  <2>5. FeedInv'
    BY <1>1, <1>2, <2>1, <2>4 DEF FeedInv
  <2>6. Num(1) \in 1 .. posted
    BY <1>3, <2>1
  <2> QED
    BY <1>1, <1>4, <1>6, <2>3, <2>5, <2>6
<1> QED
  BY <1>1, <1>5, <1>6

LEMMA FeedInit == Init => FeedInv
BY DEF Init, FeedInv, HeadersAbove, Latest, Promise!Latest

LEMMA FeedNext == BaseInv /\ FeedInv /\ [Next]_vars => FeedInv'
<1> SUFFICES ASSUME BaseInv, FeedInv, [Next]_vars PROVE FeedInv'
  OBVIOUS
<1>1. ASSUME NEW h \in Handlers,
             \/ \E kind \in Kinds, size \in Sizes : Begin(h, kind, size)
             \/ h = Home /\ BeginElsewhere
             \/ Lookup(h) \/ Lock(h) \/ EnterBody(h) \/ WriteFails(h)
      PROVE  FeedInv'
  <2>1. UNCHANGED <<channel, receiver, reading, posted, shown>>
    BY <1>1 DEF Begin, BeginElsewhere, Lookup, Lock, EnterBody, WriteFails
  <2>2. \A g \in Handlers : pc'[g] \in {"between", "body"} => pc[g] \in {"between", "body"} /\ push'[g] = push[g]
    BY <1>1 DEF BaseInv, TypeInv, Begin, BeginElsewhere, Lookup, Lock, EnterBody, EnterWrite,
       WriteFails, Finish, Goto
  <2> QED
    BY <2>1, <2>2, FeedFrame
<1>2. ASSUME NEW h \in Handlers, WriteHeader(h) \/ WriteBody(h)
      PROVE  FeedInv'
  BY <1>2, HeaderKeepsFeed, BodyKeepsFeed
<1>3. CASE Ask \/ AnswerName \/ AppendText \/ AddHistory
  <2>1. /\ UNCHANGED <<pc, push, channel, reading, posted, shown>>
        /\ receiver' = "body" => receiver = "body"
    BY <1>3 DEF Ask, AnswerName, AppendText, AddHistory
  <2> QED
    BY <2>1, FeedFrame
<1>4. CASE ReadHeader \/ ReadBody \/ ReadRefused
  <2>1. UNCHANGED <<pc, push, posted>>
    BY <1>4 DEF ReadHeader, ReadBody, ReadRefused
  <2>2. ReadRefused => GiveUp
    BY DEF ReadRefused
  <2> QED
    BY <1>4, <2>1, <2>2, GiveUpKeepsFeed, ReadHeaderKeepsFeed, ReadBodyKeepsFeed
<1>5. CASE UNCHANGED vars
  BY <1>5, FeedFrame DEF vars
<1> QED
  BY <1>1, <1>2, <1>3, <1>4, <1>5 DEF Next, HandlerStep, Serve, Receive, Handlers

-----------------------------------------------------------------------------
\* Each step of the connection is one of Feed, or none of its business.

\* Without an overlap, what was shown last is as late as it is long.
LEMMA LatestIsCount ==
  ASSUME BaseInv, ShownInv
  PROVE  Latest = Len(shown)
<1>1. /\ shown \in Seq(Nat \X Nat) /\ Len(shown) \in Nat /\ (shown = <<>> <=> Len(shown) = 0)
  BY EmptyFacts DEF BaseInv, TypeInv
<1>2. shown # <<>> => shown[Len(shown)] = <<Len(shown), Len(shown)>>
  BY <1>1 DEF ShownInv
<1> QED
  BY <1>1, <1>2 DEF Latest, Promise!Latest

\* What a write, a request or an overlap adds to what has been mixed up.
LEMMA HarmSteps ==
  ASSUME HarmType, [Next]_vars
  PROVE  ((harm' # "none") = (harm # "none")) \/ ((harm' # "none") = TRUE)
<1>1. harm' = harm \/ harm' \in {"overlapped", "spoilt"}
  BY DEF Next, HandlerStep, Serve, Receive, Begin, BeginElsewhere, Lookup, Lock, EnterWrite,
     EnterBody, WriteHeader, WriteBody, WriteFails, MayCross, AnswerName, Ask, Request,
     ReadHeader, ReadBody, ReadRefused, AppendText, AddHistory, vars
<1> QED
  BY <1>1

\* Whatever overlaps, the connection keeps what Feed promises, for any handlers,
\* kinds, sizes, room and number of pushes.
THEOREM FeedImplemented == Spec => ImplementsFeed
<1>1. Init => Promise!Init
  BY DEF Init, Promise!Init
<1>2. ASSUME BaseInv, FeedInv, HarmType, QueueIfWhole, [Next]_vars
      PROVE  [Promise!Next]_(Promise!vars)
  <2> DEFINE mixed == harm # "none"
             Still == UNCHANGED <<posted, shown, receiver = "ended">>
             Maybe == mixed' = mixed \/ mixed' = TRUE
  <2> SUFFICES Promise!Next \/ UNCHANGED <<posted, shown, mixed, receiver = "ended">>
    BY DEF Promise!vars
  <2>0. Maybe
    BY <1>2, HarmSteps
  <2>1. ASSUME NEW h \in Handlers, WriteHeader(h)
        PROVE  Promise!Next
    <3>1. receiver # "ended" /\ posted' = posted + 1 /\ UNCHANGED <<receiver, shown>>
      BY <2>1 DEF WriteHeader, MayWrite
    <3>2. Promise!Post
      BY <2>0, <3>1 DEF Promise!Post
    <3> QED
      BY <3>2 DEF Promise!Next
  <2>2. CASE ReadHeader /\ ~GiveUp
    <3> DEFINE n == Num(1)
    <3>1. /\ \/ UNCHANGED <<posted, shown, harm>>
             \/ /\ IsHeader(1) /\ channel # <<>>
                /\ n \in Latest + 1 .. posted
                /\ shown' = Append(shown, <<n, n>>)
                /\ UNCHANGED <<posted, harm>>
          /\ receiver = "header" /\ receiver' # "ended"
      BY <1>2, <2>2, ReadHeaderKeepsFeed
    <3>2. SUFFICES ASSUME /\ channel # <<>> /\ n \in Latest + 1 .. posted
                          /\ shown' = Append(shown, <<n, n>>)
                          /\ UNCHANGED <<posted, harm>>
                   PROVE  Promise!Next
      BY <3>1
    <3>3. ~mixed => n = Latest + 1
      BY <1>2, <3>1, <3>2, FirstPacket, LatestIsCount DEF QueueIfWhole, Whole, QueueInv
    <3> HIDE DEF n
    <3>4. n \in 1 .. posted
      BY <1>2, <3>2, LatestShown DEF BaseInv, TypeInv
    <3>5. Promise!Show(n, n)
      BY <2>0, <3>1, <3>2, <3>3 DEF Promise!Show, Promise!Pending, Latest
    <3> QED
      BY <3>4, <3>5 DEF Promise!Next
  <2>3. CASE ReadBody
    <3> DEFINE n == reading.number
               m == Num(1)
    <3>1. /\ receiver = "body" /\ channel # <<>> /\ n \in Latest + 1 .. posted
          /\ UNCHANGED posted
          /\ \/ receiver' = "ended" /\ UNCHANGED <<shown, harm>>
             \/ /\ receiver' # "ended" /\ m \in 1 .. posted
                /\ shown' = Append(shown, <<n, m>>)
      BY <1>2, <2>3, ReadBodyKeepsFeed
    <3>2. ~mixed => n = Latest + 1 /\ m = n
      <4>1. SUFFICES ASSUME QueueInv PROVE n = Latest + 1 /\ m = n
        BY <1>2, <3>1 DEF QueueIfWhole, Whole
      <4>2. n = Len(shown) + 1 /\ Latest = Len(shown)
        BY <1>2, <3>1, <4>1, LatestIsCount DEF QueueInv, RangeInv
      <4>3. channel[1].of = reading
        BY <1>2, <3>1, <4>1, FirstPacket
      <4> QED
        BY <4>2, <4>3 DEF Num
    <3> HIDE DEF n, m
    <3>3. CASE receiver' = "ended" /\ UNCHANGED <<shown, harm>>
      <4>1. Promise!End
        BY <3>1, <3>3 DEF Promise!End, Promise!Pending, Latest
      <4> QED
        BY <4>1 DEF Promise!Next
    <3>4. CASE receiver' # "ended" /\ m \in 1 .. posted /\ shown' = Append(shown, <<n, m>>)
      <4>1. n \in 1 .. posted
        BY <1>2, <3>1, LatestShown DEF BaseInv, TypeInv
      <4>2. Promise!Show(n, m)
        BY <2>0, <3>1, <3>2, <3>4 DEF Promise!Show, Promise!Pending, Latest
      <4> QED
        BY <3>4, <4>1, <4>2 DEF Promise!Next
    <3> QED
      BY <3>1, <3>3, <3>4
  <2>4. CASE GiveUp /\ (ReadHeader \/ ReadRefused)
    <3>1. receiver # "ended" /\ receiver' = "ended" /\ UNCHANGED <<posted, shown, harm>>
      BY <2>4 DEF GiveUp, ReadHeader, ReadRefused
    <3>2. ReadRefused => mixed
      BY DEF ReadRefused
    <3>3. ASSUME ReadHeader, ~mixed PROVE FALSE
      <4>1. /\ receiver = "header" /\ channel # <<>>
            /\ Received(PacketSize(Head(channel)), MaxPacket) = Refused
        BY <2>4, <3>3 DEF ReadHeader, GiveUp
      <4>2. channel[1] \in Packets /\ IsHeader(1) /\ Head(channel) = channel[1]
        BY <1>2, <3>3, <4>1, FirstPacket, TailFacts DEF QueueIfWhole, Whole, BaseInv, TypeInv
      <4>3. MaxPacket \in 0 .. MaxPacket
        BY WireAssumption
      <4> QED
        BY <4>1, <4>2, <4>3, RefusedInTheGap DEF IsHeader
    <3>4. mixed
      BY <2>4, <3>2, <3>3
    <3>5. Promise!End
      BY <3>1, <3>4 DEF Promise!End
    <3> QED
      BY <3>5 DEF Promise!Next
  <2>5. CASE Still
    <3>1. CASE mixed' = mixed
      BY <2>5, <3>1
    <3>2. CASE mixed' = TRUE
      BY <2>5, <3>2 DEF Promise!Next, Promise!Mix
    <3> QED
      BY <2>0, <3>1, <3>2
  <2>6. ASSUME NEW h \in Handlers,
               \/ \E kind \in Kinds, size \in Sizes : Begin(h, kind, size)
               \/ Lookup(h) \/ Lock(h) \/ EnterBody(h) \/ WriteBody(h) \/ WriteFails(h)
        PROVE  Still
    BY <2>6 DEF Begin, Lookup, Lock, EnterBody, WriteBody, WriteFails
  <2>7. CASE BeginElsewhere \/ AnswerName \/ Ask \/ AppendText \/ AddHistory
    <3>1. Still
      BY <2>7 DEF BeginElsewhere, AnswerName, Ask, AppendText, AddHistory
    <3> QED
      BY <2>5, <3>1
  <2>8. CASE UNCHANGED vars
    BY <2>8 DEF vars
  <2>9. ReadRefused => GiveUp
    BY DEF ReadRefused
  <2> HIDE DEF Still, Maybe, mixed
  <2> QED
    BY <1>2, <2>1, <2>2, <2>3, <2>4, <2>5, <2>6, <2>7, <2>8, <2>9
       DEF Next, HandlerStep, Serve, Receive, Handlers
<1> QED
  BY <1>1, <1>2, BaseInit, BaseNext, HarmTyped, QueueInit, QueueNext, FeedInit, FeedNext, PTL
     DEF Spec, ImplementsFeed, Promise!Spec

=============================================================================
