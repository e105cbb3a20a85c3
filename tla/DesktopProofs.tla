------------------------------ MODULE DesktopProofs ------------------------------
(***************************************************************************)
(* Proofs about Desktop, for any users, groups, windows and numbers of     *)
(* messages: the notification slot, the types, what the windows show, and  *)
(* what the histories have.                                                *)
(*                                                                         *)
(* The slot is two variables that two threads write without a lock.  What  *)
(* saves it most of the time is the order of the assignments: addnotify    *)
(* writes the mode, which notifyWatcher tests, before the data, and the    *)
(* watcher clears the mode before the data.  So a mode without data is     *)
(* possible, and crashes notify(); data of another mode, or of a notice    *)
(* already shown, is not.                                                  *)
(*                                                                         *)
(* A window misses no message because the walk of the list passes no node  *)
(* of it: while a message is in hand, a window of its sender that was open *)
(* before is the one found, or is at the cursor or behind it.              *)
(***************************************************************************)
EXTENDS Desktop, FiniteSetTheorems, WellFoundedInduction, TLAPS

\* A message is in hand and nothing of it has been written to the slot's data.
Early == {"walk", "name", "append", "test", "mode", "info"}

\* The types of what touches the slot.
SlotType ==
  /\ messages \in Seq([kind : Kinds, peer : Peers \cup {Nobody}])
  /\ mode \in Nat /\ uinfo \in Nat
  /\ notices \in Seq(Nat \X Nat)

\* The order of the assignments: where the threads are tells what mode and data
\* can be.
OrderInv ==
  /\ gtk \in {"notify", "clearmode"} => mode # 0
  /\ recv = "mode" => mode = 0
  /\ recv = "info" => mode = received /\ gtk # "clearmode"
  /\ recv = "info" /\ gtk # "clearinfo" => uinfo = 0
  /\ gtk # "clearinfo" => uinfo \in {0, mode}
  /\ gtk = "clearmode" => uinfo = mode

\* The messages in the slot and on the screen, by age.
AgeInv ==
  /\ recv # "read" => received > 0
  /\ recv \in Early \ {"info"} /\ mode # 0 => mode < received
  /\ mode <= received
  /\ \A i \in 1 .. Len(notices) :
       /\ notices[i][1] <= received
       /\ recv \in Early => notices[i][1] < received
       /\ mode # 0 /\ gtk # "clearmode" => notices[i][1] < mode

\* What holds as long as the threads have not met in the slot.
RaceInv ==
  "slot" \notin raced =>
    /\ gtk = "clearinfo" => mode = 0
    /\ mode # 0 /\ recv # "info" => uinfo # 0
    /\ recv = "info" => gtk \notin {"notify", "clearmode", "clearinfo"}
    /\ crashed # "notify"

SlotInv == SlotType /\ OrderInv /\ AgeInv /\ RaceInv /\ NoticeIntact

-----------------------------------------------------------------------------
\* Steps of either thread that leave the slot alone.
LEMMA SlotFrame ==
  ASSUME SlotInv, UNCHANGED slot, UNCHANGED messages, raced \subseteq raced',
         gtk' = gtk \/ {gtk, gtk'} \cap {"notify", "clearmode", "clearinfo"} = {},
         recv' = recv \/ {recv, recv'} \cap {"mode", "info"} = {},
         recv' \in Early => recv \in Early, recv' # "read" => recv # "read",
         crashed' = "notify" => crashed = "notify"
  PROVE  SlotInv'
<1>1. SlotType'
  BY DEF SlotInv, SlotType, slot
<1>2. OrderInv'
  BY DEF SlotInv, OrderInv, slot, received
<1>3. AgeInv'
  <2>1. (recv' # "read" => received > 0) /\ mode <= received
    BY DEF SlotInv, AgeInv
  <2>2. recv' \in Early \ {"info"} /\ mode # 0 => mode < received
    BY DEF SlotInv, AgeInv, OrderInv, Early
  <2>3. ASSUME NEW i \in 1 .. Len(notices)
        PROVE  /\ notices[i][1] <= received
               /\ recv' \in Early => notices[i][1] < received
               /\ mode # 0 /\ gtk' # "clearmode" => notices[i][1] < mode
    BY DEF SlotInv, AgeInv
  <2> QED
    BY <2>1, <2>2, <2>3 DEF AgeInv, slot, received
<1>4. RaceInv'
  BY DEF SlotInv, RaceInv, slot
<1>5. NoticeIntact'
  BY DEF SlotInv, NoticeIntact, slot
<1> QED
  BY <1>1, <1>2, <1>3, <1>4, <1>5 DEF SlotInv

\* The steps of the GTK thread outside the watcher.
LEMMA WindowSteps ==
  ASSUME SlotInv,
         \/ InitSettings \/ OpenChatWindow \/ OpenGroupWindow
         \/ CloseChatWindow \/ CloseGroupWindow
         \/ \E id \in 1 .. MaxWindows : Send(id)
         \/ ChatAnswered \/ GroupAnswered
  PROVE  SlotInv'
<1>1. /\ UNCHANGED <<slot, messages, raced, recv, crashed>>
      /\ gtk' = gtk \/ {gtk, gtk'} \cap {"notify", "clearmode", "clearinfo"} = {}
  BY DEF InitSettings, OpenChatWindow, OpenGroupWindow, Insert, CloseChatWindow,
         CloseGroupWindow, Remove, Send, ChatAnswered, GroupAnswered, Answered, recvside
<1> QED
  BY <1>1, SlotFrame

\* The steps of the receiver outside addnotify.
LEMMA ReceiverSteps ==
  ASSUME SlotInv, Walk \/ Name \/ AppendText \/ OpenHistory \/ WriteHistory
  PROVE  SlotInv'
<1>1. /\ UNCHANGED <<slot, messages, gtk>>
      /\ raced \subseteq raced'
      /\ crashed' = "notify" => crashed = "notify"
  BY DEF Walk, Name, AppendText, OpenHistory, WriteHistory, recvside
<1>2. /\ recv' = recv \/ {recv, recv'} \cap {"mode", "info"} = {}
      /\ recv' \in Early => recv \in Early
      /\ recv' # "read" => recv # "read"
  BY DEF Walk, Name, AppendText, OpenHistory, WriteHistory, Goto, Early
<1> QED
  BY <1>1, <1>2, SlotFrame

\* A message arrives: it is newer than all that was noticed.
LEMMA ReceiveStep ==
  ASSUME SlotInv, NEW kind \in Kinds, NEW p \in Peer(kind), Receive(kind, p)
  PROVE  SlotInv'
<1>1. /\ recv = "read" /\ recv' \in {"name", "walk"}
      /\ UNCHANGED <<gtk, slot, crashed, raced>>
      /\ messages' = Append(messages, [kind |-> kind, peer |-> p])
  BY DEF Receive, Goto
<1>2. p \in Peers \cup {Nobody}
  BY DEF Peer, Kinds, Peers
<1>3. messages \in Seq([kind : Kinds, peer : Peers \cup {Nobody}])
  BY DEF SlotInv, SlotType
<1>4. /\ messages' \in Seq([kind : Kinds, peer : Peers \cup {Nobody}])
      /\ received \in Nat /\ received' = received + 1
  BY <1>1, <1>2, <1>3 DEF received
<1>5. SlotType'
  BY <1>1, <1>4 DEF SlotInv, SlotType, slot
<1>6. OrderInv'
  BY <1>1 DEF SlotInv, OrderInv, slot
<1>7. AgeInv'
  <2>1. mode <= received /\ mode \in Nat /\ mode' = mode /\ notices' = notices
    BY <1>1 DEF SlotInv, SlotType, AgeInv, slot
  <2>2. ASSUME NEW i \in 1 .. Len(notices)
        PROVE  /\ notices[i][1] <= received + 1
               /\ notices[i][1] < received + 1
               /\ mode # 0 /\ gtk # "clearmode" => notices[i][1] < mode
    <3>1. notices[i][1] \in Nat
      BY DEF SlotInv, SlotType
    <3> QED
      BY <1>4, <3>1 DEF SlotInv, AgeInv
  <2> QED
    BY <1>1, <1>4, <2>1, <2>2 DEF AgeInv
<1>8. RaceInv' /\ NoticeIntact'
  BY <1>1 DEF SlotInv, RaceInv, NoticeIntact, slot
<1> QED
  BY <1>5, <1>6, <1>7, <1>8 DEF SlotInv

\* addnotify.
LEMMA TestStep ==
  ASSUME SlotInv, Test
  PROVE  SlotInv'
<1>1. /\ UNCHANGED <<gtk, messages, slot, crashed, raced>> /\ recv = "test"
      /\ recv' = IF mode # 0 THEN AfterNotice ELSE "mode"
  BY DEF Test, Goto, recvside
<1>2. CASE mode # 0
  <2>1. recv' \in {"read", "fopen"}
    BY <1>1, <1>2 DEF AfterNotice
  <2> QED
    BY <1>1, <2>1, SlotFrame DEF Early
<1>3. CASE mode = 0
  <2>1. recv' = "mode"
    BY <1>1, <1>3
  <2>2. SlotType' /\ OrderInv' /\ RaceInv' /\ NoticeIntact'
    BY <1>1, <1>3, <2>1 DEF SlotInv, SlotType, OrderInv, RaceInv, NoticeIntact, slot, received
  <2>3. AgeInv'
    BY <1>1, <1>3, <2>1 DEF SlotInv, AgeInv, Early, slot, received
  <2> QED
    BY <2>2, <2>3 DEF SlotInv
<1> QED
  BY <1>2, <1>3

LEMMA SetModeStep ==
  ASSUME SlotInv, SetMode
  PROVE  SlotInv'
<1>1. /\ recv = "mode" /\ recv' = "info" /\ mode' = received
      /\ UNCHANGED <<gtk, messages, uinfo, notices, crashed>>
      /\ raced' = IF InWatcher THEN raced \cup {"slot"} ELSE raced
  BY DEF SetMode, Goto, recvside
<1>2. mode = 0 /\ received > 0 /\ received \in Nat
  BY <1>1 DEF SlotInv, SlotType, OrderInv, AgeInv, received
<1>3. gtk \notin {"notify", "clearmode"}
  BY <1>2 DEF SlotInv, OrderInv
<1>4. SlotType'
  BY <1>1, <1>2 DEF SlotInv, SlotType
<1>5. OrderInv'
  BY <1>1, <1>2, <1>3 DEF SlotInv, OrderInv, received
<1>6. AgeInv'
  BY <1>1, <1>2, <1>3 DEF SlotInv, AgeInv, Early, received
<1>7. RaceInv'
  BY <1>1, <1>2, <1>3 DEF SlotInv, RaceInv, InWatcher
<1>8. NoticeIntact'
  BY <1>1 DEF SlotInv, NoticeIntact
<1> QED
  BY <1>4, <1>5, <1>6, <1>7, <1>8 DEF SlotInv

LEMMA SetInfoStep ==
  ASSUME SlotInv, SetInfo
  PROVE  SlotInv'
<1>1. /\ recv = "info" /\ recv' \in {"read", "fopen"} /\ uinfo' = received
      /\ UNCHANGED <<gtk, messages, mode, notices, crashed>>
      /\ raced' = IF InWatcher THEN raced \cup {"slot"} ELSE raced
  BY DEF SetInfo, Goto, recvside, AfterNotice
<1>2. mode = received /\ received > 0 /\ received \in Nat /\ gtk # "clearmode"
  BY <1>1 DEF SlotInv, SlotType, OrderInv, AgeInv, received
<1>3. SlotType'
  BY <1>1, <1>2 DEF SlotInv, SlotType
<1>4. OrderInv'
  BY <1>1, <1>2 DEF SlotInv, OrderInv
<1>5. AgeInv'
  BY <1>1, <1>2 DEF SlotInv, AgeInv, Early, received
<1>6. RaceInv'
  BY <1>1, <1>2 DEF SlotInv, RaceInv, InWatcher
<1>7. NoticeIntact'
  BY <1>1 DEF SlotInv, NoticeIntact
<1> QED
  BY <1>3, <1>4, <1>5, <1>6, <1>7 DEF SlotInv
-----------------------------------------------------------------------------
\* notifyWatcher.
LEMMA WatcherTestStep ==
  ASSUME SlotInv, WatcherTest
  PROVE  SlotInv'
<1>1. /\ gtk = "loop" /\ gtk' = "notify" /\ mode # 0
      /\ UNCHANGED <<recv, messages, slot, crashed>>
      /\ raced' = IF recv \in {"mode", "info"} THEN raced \cup {"slot"} ELSE raced
  BY DEF WatcherTest, recvside
<1>2. SlotType' /\ OrderInv'
  BY <1>1 DEF SlotInv, SlotType, OrderInv, slot, received
<1>3. AgeInv'
  BY <1>1 DEF SlotInv, AgeInv, slot, received
<1>4. RaceInv' /\ NoticeIntact'
  BY <1>1 DEF SlotInv, RaceInv, NoticeIntact, slot
<1> QED
  BY <1>2, <1>3, <1>4 DEF SlotInv

LEMMA NotifyStep ==
  ASSUME SlotInv, Notify
  PROVE  SlotInv'
<1>1. /\ gtk = "notify" /\ mode # 0
      /\ UNCHANGED <<recv, messages, mode, uinfo, raced>>
  BY DEF SlotInv, OrderInv, Notify, recvside
<1>2. CASE uinfo = 0
  <2>1. crashed' = "notify" /\ UNCHANGED <<gtk, notices>>
    BY <1>2 DEF Notify
  <2>2. SlotType' /\ OrderInv' /\ NoticeIntact'
    BY <1>1, <2>1 DEF SlotInv, SlotType, OrderInv, NoticeIntact, received
  <2>3. AgeInv'
    BY <1>1, <2>1 DEF SlotInv, AgeInv, received
  <2>4. RaceInv'
    BY <1>1, <1>2, <2>1 DEF SlotInv, RaceInv
  <2> QED
    BY <2>2, <2>3, <2>4 DEF SlotInv
<1>3. CASE uinfo # 0
  <2>1. notices' = Append(notices, <<mode, uinfo>>) /\ gtk' = "clearmode" /\ UNCHANGED crashed
    BY <1>3 DEF Notify
  <2>2. uinfo = mode /\ recv # "info"
    BY <1>1, <1>3 DEF SlotInv, OrderInv
  <2>3. mode \in Nat /\ notices \in Seq(Nat \X Nat) /\ received \in Nat
    BY DEF SlotInv, SlotType, received
  <2>4. /\ notices' \in Seq(Nat \X Nat) /\ Len(notices') = Len(notices) + 1
        /\ \A i \in 1 .. Len(notices) : notices'[i] = notices[i]
        /\ notices'[Len(notices) + 1] = <<mode, mode>>
    BY <2>1, <2>2, <2>3
  <2>5. SlotType' /\ OrderInv'
    BY <1>1, <2>1, <2>2, <2>4 DEF SlotInv, SlotType, OrderInv
  <2>6. \A i \in 1 .. Len(notices) : notices[i][1] < mode
    BY <1>1 DEF SlotInv, AgeInv
  <2>7. AgeInv'
    <3>1. /\ recv # "read" => received > 0
          /\ recv \in Early => mode < received
          /\ mode <= received
      BY <1>1, <2>2 DEF SlotInv, AgeInv
    <3>2. ASSUME NEW i \in 1 .. Len(notices')
          PROVE  notices'[i][1] <= received /\ (recv \in Early => notices'[i][1] < received)
      <4>1. CASE i = Len(notices) + 1
        BY <3>1, <2>4, <4>1
      <4>2. CASE i \in 1 .. Len(notices)
        BY <2>4, <4>2 DEF SlotInv, AgeInv
      <4> QED
        BY <4>1, <4>2, <2>3, <2>4
    <3> QED
      BY <1>1, <2>1, <3>1, <3>2 DEF AgeInv, received
  <2>8. RaceInv'
    BY <1>1, <2>1, <2>2 DEF SlotInv, RaceInv
  <2>9. NoticeIntact'
    <3>1. ASSUME NEW i \in 1 .. Len(notices')
          PROVE  notices'[i][1] = notices'[i][2]
      <4>1. CASE i = Len(notices) + 1
        BY <2>4, <4>1
      <4>2. CASE i \in 1 .. Len(notices)
        BY <2>4, <4>2 DEF SlotInv, NoticeIntact
      <4> QED
        BY <4>1, <4>2, <2>3, <2>4
    <3>2. ASSUME NEW i \in 1 .. Len(notices'), NEW j \in 1 .. Len(notices'), i # j
          PROVE  notices'[i] # notices'[j]
      <4>1. CASE i \in 1 .. Len(notices) /\ j \in 1 .. Len(notices)
        BY <3>2, <2>4, <4>1 DEF SlotInv, NoticeIntact
      <4>2. CASE i \in 1 .. Len(notices) /\ j = Len(notices) + 1
        <5>1. notices[i][1] < mode
          BY <4>2, <2>6
        <5>2. notices'[i][1] # mode
          <6>1. notices[i] \in Nat \X Nat
            BY <4>2, <2>3
          <6>2. notices[i][1] \in Nat
            BY <6>1
          <6>3. notices'[i] = notices[i]
            BY <4>2, <2>4
          <6> QED
            BY <5>1, <6>2, <6>3, <2>3
        <5>3. notices'[j] = <<mode, mode>>
          BY <4>2, <2>4
        <5>4. notices'[j][1] = mode
          BY <5>3
        <5> QED
          BY <5>2, <5>4
      <4>3. CASE j \in 1 .. Len(notices) /\ i = Len(notices) + 1
        <5>1. notices[j][1] < mode
          BY <4>3, <2>6
        <5>2. notices'[j][1] # mode
          <6>1. notices[j] \in Nat \X Nat
            BY <4>3, <2>3
          <6>2. notices[j][1] \in Nat
            BY <6>1
          <6>3. notices'[j] = notices[j]
            BY <4>3, <2>4
          <6> QED
            BY <5>1, <6>2, <6>3, <2>3
        <5>3. notices'[i] = <<mode, mode>>
          BY <4>3, <2>4
        <5>4. notices'[i][1] = mode
          BY <5>3
        <5> QED
          BY <5>2, <5>4
      <4>4. \A k \in 1 .. Len(notices') : k \in 1 .. Len(notices) \/ k = Len(notices) + 1
        BY <2>3, <2>4
      <4> QED
        BY <3>2, <4>1, <4>2, <4>3, <4>4
    <3> QED
      BY <3>1, <3>2 DEF NoticeIntact
  <2> QED
    BY <2>5, <2>7, <2>8, <2>9 DEF SlotInv
<1> QED
  BY <1>2, <1>3

LEMMA ClearModeStep ==
  ASSUME SlotInv, ClearMode
  PROVE  SlotInv'
<1>1. /\ gtk = "clearmode" /\ gtk' = "clearinfo" /\ mode' = 0
      /\ UNCHANGED <<recv, messages, uinfo, notices, crashed, raced>>
  BY DEF ClearMode, recvside
<1>2. recv # "info" /\ received \in Nat
  BY <1>1 DEF SlotInv, OrderInv, SlotType, received
<1>3. SlotType' /\ OrderInv'
  BY <1>1, <1>2 DEF SlotInv, SlotType, OrderInv
<1>4. AgeInv'
  BY <1>1, <1>2 DEF SlotInv, AgeInv, received
<1>5. RaceInv' /\ NoticeIntact'
  BY <1>1, <1>2 DEF SlotInv, RaceInv, NoticeIntact
<1> QED
  BY <1>3, <1>4, <1>5 DEF SlotInv

LEMMA ClearInfoStep ==
  ASSUME SlotInv, ClearInfo
  PROVE  SlotInv'
<1>1. /\ gtk = "clearinfo" /\ gtk' = "loop" /\ uinfo' = 0
      /\ UNCHANGED <<recv, messages, mode, notices, crashed, raced>>
  BY DEF ClearInfo, recvside
<1>2. SlotType' /\ OrderInv'
  BY <1>1 DEF SlotInv, SlotType, OrderInv, received
<1>3. AgeInv'
  BY <1>1 DEF SlotInv, AgeInv, received
<1>4. RaceInv' /\ NoticeIntact'
  BY <1>1 DEF SlotInv, RaceInv, NoticeIntact
<1> QED
  BY <1>2, <1>3, <1>4 DEF SlotInv

-----------------------------------------------------------------------------
LEMMA SlotInit == Init => SlotInv
<1> SUFFICES ASSUME Init PROVE SlotInv
  OBVIOUS
<1>1. SlotType /\ NoticeIntact
  BY DEF Init, SlotType, NoticeIntact
<1>2. OrderInv /\ AgeInv /\ RaceInv
  BY DEF Init, OrderInv, AgeInv, RaceInv, received, Early
<1> QED
  BY <1>1, <1>2 DEF SlotInv

LEMMA SlotNext == SlotInv /\ [Next]_vars => SlotInv'
<1> SUFFICES ASSUME SlotInv, [Next]_vars PROVE SlotInv'
  OBVIOUS
<1>1. CASE Gtk
  BY <1>1, WindowSteps, WatcherTestStep, NotifyStep, ClearModeStep, ClearInfoStep
     DEF Gtk, Watcher
<1>2. CASE Receiver
  BY <1>2, ReceiverSteps, TestStep, SetModeStep, SetInfoStep DEF Receiver
<1>3. CASE \E kind \in Kinds : \E p \in Peer(kind) : Receive(kind, p)
  BY <1>3, ReceiveStep
<1>4. CASE UNCHANGED vars
  BY <1>4, SlotFrame DEF vars, recvside
<1> QED
  BY <1>1, <1>2, <1>3, <1>4 DEF Next

\* What notify() shows is one notice, its mode with its own data, and no notice
\* twice, however the two threads interleave (notification.c:32, 40-46); it
\* follows a null pointer only after both threads were in the slot at once.
THEOREM SlotIsSound == Spec => []SlotKeepsNotices
<1>1. SlotInv => SlotKeepsNotices
  BY DEF SlotInv, RaceInv, CrashOnlyInRace, SlotKeepsNotices
<1> QED
  BY SlotInit, SlotNext, <1>1, PTL DEF Spec

-----------------------------------------------------------------------------
\* Lines.

LEMMA ShowsNothing ==
  ASSUME NEW junk
  PROVE  Shows(<<>>, {}, junk)
  <1> DEFINE at == [n \in {} |-> 0]
  <1>1. at \in [{} -> 1 .. Len(<<>>)] /\ Len(<<>>) = 0
    OBVIOUS
  <1> HIDE DEF at
  <1>2. \A i \in 1 .. Len(<<>>) : FALSE
    BY <1>1
  <1> QED
    BY <1>1, <1>2 DEF Shows

\* One's own line is not one of the messages'.
LEMMA ShowsOwn ==
  ASSUME NEW lines \in Seq(Nat), NEW set, NEW junk, Shows(lines, set, junk)
  PROVE  Shows(Append(lines, Own), set, junk)
  <1> DEFINE longer == Append(lines, Own)
  <1>1. PICK at \in [set -> 1 .. Len(lines)] :
          /\ \A m, n \in set : m < n => at[m] < at[n]
          /\ \A i \in 1 .. Len(lines) : lines[i] = Own <=> \A n \in set : at[n] # i
          /\ \A n \in set : lines[at[n]] \in {n} \cup junk
    BY DEF Shows
  <1>2. /\ Len(longer) = Len(lines) + 1 /\ Len(lines) \in Nat /\ longer[Len(lines) + 1] = Own
        /\ \A i \in 1 .. Len(lines) : longer[i] = lines[i]
    OBVIOUS
  <1> HIDE DEF longer
  <1>3. at \in [set -> 1 .. Len(longer)] /\ \A n \in set : at[n] \in 1 .. Len(lines)
    BY <1>2
  <1>4. \A i \in 1 .. Len(longer) : longer[i] = Own <=> \A n \in set : at[n] # i
    <2> TAKE i \in 1 .. Len(longer)
    <2>1. CASE i = Len(lines) + 1
      BY <1>2, <1>3, <2>1
    <2>2. CASE i \in 1 .. Len(lines)
      BY <1>1, <1>2, <2>2
    <2> QED
      BY <1>2, <2>1, <2>2
  <1>5. \A n \in set : longer[at[n]] \in {n} \cup junk
    BY <1>1, <1>2, <1>3
  <1>6. Shows(longer, set, junk)
    BY <1>1, <1>3, <1>4, <1>5 DEF Shows
  <1> QED
    BY <1>6 DEF longer

\* The line of a message that is newer than the others.
LEMMA ShowsNext ==
  ASSUME NEW lines \in Seq(Nat), NEW set \in SUBSET Nat, NEW junk, Shows(lines, set, junk),
         NEW new \in Nat, \A n \in set : n < new, NEW line \in {new} \cup junk, line # Own
  PROVE  Shows(Append(lines, line), set \cup {new}, junk)
  <1> DEFINE longer == Append(lines, line)
  <1>1. PICK at \in [set -> 1 .. Len(lines)] :
          /\ \A m, n \in set : m < n => at[m] < at[n]
          /\ \A i \in 1 .. Len(lines) : lines[i] = Own <=> \A n \in set : at[n] # i
          /\ \A n \in set : lines[at[n]] \in {n} \cup junk
    BY DEF Shows
  <1>2. /\ Len(longer) = Len(lines) + 1 /\ Len(lines) \in Nat /\ longer[Len(lines) + 1] = line
        /\ \A i \in 1 .. Len(lines) : longer[i] = lines[i]
    OBVIOUS
  <1> HIDE DEF longer
  <1> DEFINE there == [n \in set \cup {new} |-> IF n = new THEN Len(lines) + 1 ELSE at[n]]
  <1>3. /\ new \notin set /\ there[new] = Len(lines) + 1
        /\ \A n \in set : there[n] = at[n] /\ at[n] \in 1 .. Len(lines)
    OBVIOUS
  <1>4. there \in [set \cup {new} -> 1 .. Len(longer)]
    BY <1>2, <1>3
  <1> HIDE DEF there
  <1>5. ASSUME NEW m \in set \cup {new}, NEW n \in set \cup {new}, m < n
        PROVE  there[m] < there[n]
    <2>1. m \in set
      BY <1>5
    <2>2. CASE n \in set
      BY <1>1, <1>3, <1>5, <2>1, <2>2
    <2>3. CASE n = new
      BY <1>2, <1>3, <2>1, <2>3
    <2> QED
      BY <2>2, <2>3
  <1>6. \A i \in 1 .. Len(longer) : longer[i] = Own <=> \A n \in set \cup {new} : there[n] # i
    <2> TAKE i \in 1 .. Len(longer)
    <2>1. CASE i = Len(lines) + 1
      BY <1>2, <1>3, <2>1
    <2>2. CASE i \in 1 .. Len(lines)
      <3>1. there[new] # i
        BY <1>2, <1>3, <2>2
      <3>2. longer[i] = Own <=> \A n \in set : there[n] # i
        <4>1. lines[i] = Own <=> \A n \in set : at[n] # i
          BY <1>1, <2>2
        <4>2. longer[i] = lines[i] /\ \A n \in set : there[n] = at[n]
          BY <1>2, <1>3, <2>2
        <4> QED
          BY <4>1, <4>2
      <3> QED
        BY <3>1, <3>2
    <2>3. i = Len(lines) + 1 \/ i \in 1 .. Len(lines)
      BY <1>2
    <2> QED
      BY <2>1, <2>2, <2>3
  <1>7. \A n \in set \cup {new} : longer[there[n]] \in {n} \cup junk
    BY <1>1, <1>2, <1>3
  <1>8. Shows(longer, set \cup {new}, junk)
    BY <1>4, <1>5, <1>6, <1>7 DEF Shows
  <1> QED
    BY <1>8 DEF longer

-----------------------------------------------------------------------------
\* Lists.

LEMMA LeastExists ==
  ASSUME NEW N \in Nat, NEW S \in SUBSET (1 .. N), S # {}
  PROVE  \E n \in S : \A m \in S : n <= m
  <1> DEFINE R == StrictSubsetOrdering(1 .. N)
             T == {1 .. n : n \in S}
  <1>1. IsWellFoundedOn(R, FiniteSubsetsOf(1 .. N))
    BY FS_StrictSubsetOrderingWellFounded
  <1>2. T \subseteq FiniteSubsetsOf(1 .. N) /\ T # {}
    <2>1. \A n \in S : IsFiniteSet(1 .. n) /\ 1 .. n \subseteq 1 .. N
      BY FS_Interval
    <2> QED
      BY <2>1 DEF FiniteSubsetsOf
  <1>3. \A a, b \in S : a < b => <<1 .. a, 1 .. b>> \in R
    <2> SUFFICES ASSUME NEW a \in S, NEW b \in S, a < b
                 PROVE  1 .. a \subseteq 1 .. b /\ 1 .. a # 1 .. b /\ 1 .. b \subseteq 1 .. N
      BY DEF StrictSubsetOrdering
    <2>1. b \in 1 .. b /\ b \notin 1 .. a
      OBVIOUS
    <2> QED
      BY <2>1
  <1> HIDE DEF R
  <1>4. PICK t \in T : \A s \in T : ~ (<<s, t>> \in R)
    BY <1>1, <1>2, WFMin
  <1>5. PICK n \in S : t = 1 .. n
    BY <1>4
  <1>6. \A m \in S : ~ (m < n)
    BY <1>3, <1>4, <1>5
  <1> QED
    BY <1>6

\* The node behind a node is the next of its list: none is passed over.
LEMMA NextNode ==
  ASSUME NEW kind, NEW id \in Nat
  PROVE  /\ NodeBehind(kind, id) \in 0 .. MaxWindows
         /\ \A n \in List(kind) : n > id => NodeBehind(kind, id) # 0 /\ NodeBehind(kind, id) <= n
  <1> DEFINE behind == {n \in List(kind) : n > id}
  <1>0. MaxWindows \in Nat
    BY DesktopAssumption
  <1>1. behind \in SUBSET (1 .. MaxWindows)
    BY DEF List
  <1>2. NodeBehind(kind, id) = IF behind = {} THEN 0 ELSE CHOOSE n \in behind : \A m \in behind : n <= m
    BY DEF NodeBehind
  <1>3. CASE behind = {}
    BY <1>0, <1>2, <1>3
  <1>4. CASE behind # {}
    <2> HIDE DEF behind
    <2>1. \E n \in behind : \A m \in behind : n <= m
      BY <1>0, <1>1, <1>4, LeastExists
    <2>2. NodeBehind(kind, id) \in behind /\ \A m \in behind : NodeBehind(kind, id) <= m
      BY <1>2, <1>4, <2>1
    <2> QED
      BY <1>0, <1>1, <2>2 DEF behind
  <1> QED
    BY <1>3, <1>4

-----------------------------------------------------------------------------
\* What the steps come to.

\* The receiver has a message in hand that no window shows yet.
Underway == {"walk", "name", "append"}

\* A window is opened once, and the one that a message is sent from stays.
WindowInv ==
  /\ \A w \in 1 .. MaxWindows : since[w] <= received /\ (w > opened => ~Open(w) /\ text[w] = <<>>)
  /\ gtk = "sending" => sending # 0 /\ Open(sending)

\* The window that was found for the message in hand is its peer's.
HandInv ==
  /\ recv \in {"walk", "append", "fopen", "write"} => message.kind # "notice"
  /\ recv = "walk" => found = 0
  /\ recv = "append" => found # 0
  /\ recv \in {"name", "append"} /\ found # 0 =>
       found <= opened /\ windows[found] \in {message.peer, Nobody} /\ message.kind # "notice"

DeskInv == TypeOK /\ SlotInv /\ WindowInv /\ HandInv

Closes(id) == id \in 1 .. MaxWindows /\ Remove(id)
Answers == sending \in 1 .. MaxWindows /\ windows[sending] \in Peers /\ Answered

LEMMA GtkSteps ==
  ASSUME Gtk
  PROVE  \/ InitSettings \/ Watcher
         \/ \E p \in Peers : Insert(p)
         \/ \E id : Closes(id)
         \/ \E id \in 1 .. MaxWindows : Send(id)
         \/ Answers
  BY DEF Gtk, OpenChatWindow, OpenGroupWindow, CloseChatWindow, CloseGroupWindow, ChatAnswered,
         GroupAnswered, List, Peer, Peers, Closes, Answers

LEMMA GtkLeaves ==
  ASSUME Gtk
  PROVE  UNCHANGED <<recv, messages, cursor, found, lost>>
  BY GtkSteps DEF InitSettings, Watcher, WatcherTest, Notify, ClearMode, ClearInfo, Insert, Closes,
                  Remove, Send, Answers, Answered, recvside, files

LEMMA ReceiverLeaves ==
  ASSUME Receiver \/ \E kind \in Kinds : \E p \in Peer(kind) : Receive(kind, p)
  PROVE  UNCHANGED <<gtk, windows, opened, since, sending, sent>>
  BY DEF Receiver, Walk, Name, AppendText, Test, SetMode, SetInfo, OpenHistory, WriteHistory, Receive, gtkside

LEMMA PeerTypes ==
  /\ Nobody \notin Peers /\ MaxMessages \in Nat /\ MaxWindows \in Nat /\ MaxSends \in Nat
  /\ Peer("chat") = Users /\ Peer("group") = Groups /\ Peer("notice") = {Nobody}
  /\ \A kind \in Kinds : Peer(kind) \subseteq Peers \cup {Nobody} /\ (kind # "notice" => Peer(kind) \subseteq Peers)
  BY DesktopAssumption DEF Peers, Kinds, Peer

LEMMA ElementOf ==
  ASSUME NEW Q, NEW seq \in Seq(Q), NEW n \in 1 .. Len(seq)
  PROVE  seq[n] \in Q
  OBVIOUS

\* The message in hand.
LEMMA MessageTyped ==
  ASSUME HandOK, recv # "read"
  PROVE  /\ received \in 1 .. MaxMessages /\ message \in [kind : Kinds, peer : Peers \cup {Nobody}]
         /\ message.kind \in Kinds /\ message.peer \in Peer(message.kind)
  <1>1. received \in Nat /\ received > 0 /\ received <= MaxMessages
    BY DEF HandOK, received
  <1>2. received \in 1 .. MaxMessages /\ received \in 1 .. Len(messages)
    BY <1>1, PeerTypes DEF received
  <1>3. message \in [kind : Kinds, peer : Peers \cup {Nobody}]
    <2>1. messages \in Seq([kind : Kinds, peer : Peers \cup {Nobody}])
      BY DEF HandOK
    <2>2. messages[received] \in [kind : Kinds, peer : Peers \cup {Nobody}]
      BY <1>2, <2>1, ElementOf
    <2> QED
      BY <2>2 DEF message
  <1>4. message.peer \in Peer(message.kind)
    BY <1>1, <1>2 DEF HandOK, message
  <1> QED
    BY <1>2, <1>3, <1>4

\* A window of the peer of the message in hand is a window of its list.
LEMMA PeerOfWindow ==
  ASSUME HandOK, recv # "read", NEW w \in 1 .. MaxWindows, windows[w] = message.peer, Open(w)
  PROVE  w \in List(message.kind) /\ message.peer \in Peers /\ message.kind # "notice"
  BY MessageTyped, PeerTypes DEF List, Open

-----------------------------------------------------------------------------
\* Types.

LEMMA ListsStep ==
  ASSUME DeskInv, Next
  PROVE  ListsOK'
  <1>0. ListsOK /\ received \in 0 .. MaxMessages /\ MaxWindows \in Nat /\ MaxSends \in Nat
    BY PeerTypes DEF DeskInv, TypeOK, HandOK, received
  <1> USE DEF ListsOK
  <1>1. CASE Receiver \/ \E kind \in Kinds : \E p \in Peer(kind) : Receive(kind, p)
    BY <1>0, <1>1, ReceiverLeaves DEF Open
  <1>2. CASE InitSettings
    BY <1>0, <1>2 DEF InitSettings, gtkside, Open
  <1>3. CASE Watcher
    BY <1>0, <1>3 DEF Watcher, WatcherTest, Notify, ClearMode, ClearInfo, gtkside, Open
  <1>4. CASE \E p \in Peers : Insert(p)
    <2>1. PICK p \in Peers : Insert(p)
      BY <1>4
    <2>2. /\ opened' = opened + 1 /\ opened < MaxWindows /\ \A id \in 1 .. MaxWindows : windows[id] # p
          /\ windows' = [windows EXCEPT ![opened + 1] = p] /\ since' = [since EXCEPT ![opened + 1] = received]
          /\ UNCHANGED <<gtk, sending, sent>>
      BY <2>1 DEF Insert
    <2>3. opened + 1 \in 1 .. MaxWindows
      BY <1>0, <2>2
    <2>4. \A w \in 1 .. MaxWindows : windows'[w] = IF w = opened + 1 THEN p ELSE windows[w]
      BY <1>0, <2>2
    <2>5. windows' \in [1 .. MaxWindows -> Peers \cup {Nobody}] /\ since' \in [1 .. MaxWindows -> 0 .. MaxMessages]
      BY <1>0, <2>2, <2>3
    <2>6. \A v, w \in 1 .. MaxWindows : windows'[v] = windows'[w] /\ windows'[v] # Nobody => v = w
      BY <1>0, <2>2, <2>4 DEF Open
    <2> QED
      BY <1>0, <2>2, <2>3, <2>5, <2>6 DEF Open
  <1>5. CASE \E id : Closes(id)
    <2>1. PICK id \in 1 .. MaxWindows : Remove(id)
      BY <1>5 DEF Closes
    <2>2. /\ windows' = [windows EXCEPT ![id] = Nobody] /\ since' = [since EXCEPT ![id] = 0]
          /\ UNCHANGED <<gtk, opened, sending, sent>>
      BY <2>1 DEF Remove
    <2>3. windows' \in [1 .. MaxWindows -> Peers \cup {Nobody}] /\ since' \in [1 .. MaxWindows -> 0 .. MaxMessages]
      BY <1>0, <2>2, PeerTypes
    <2>4. \A v, w \in 1 .. MaxWindows : windows'[v] = windows'[w] /\ windows'[v] # Nobody => v = w
      BY <1>0, <2>2 DEF Open
    <2> QED
      BY <1>0, <2>2, <2>3, <2>4 DEF Open
  <1>6. CASE \E id \in 1 .. MaxWindows : Send(id)
    BY <1>0, <1>6 DEF Send, Open
  <1>7. CASE Answers
    BY <1>0, <1>7 DEF Answers, Answered, Open
  <1> QED
    BY <1>1, <1>2, <1>3, <1>4, <1>5, <1>6, <1>7, GtkSteps DEF Next

\* A message that is received.
LEMMA ReceiveFacts ==
  ASSUME HandOK, NEW kind \in Kinds, NEW p \in Peer(kind), Receive(kind, p)
  PROVE  /\ recv = "read" /\ recv' = (IF kind = "notice" THEN "name" ELSE "walk") /\ found' = 0
         /\ cursor' = (IF kind = "notice" THEN 0 ELSE NodeBehind(kind, 0))
         /\ UNCHANGED <<gtk, windows, opened, since, text, history, lost, raced, crashed>>
         /\ messages' \in Seq([kind : Kinds, peer : Peers \cup {Nobody}])
         /\ received \in Nat /\ received' = received + 1 /\ received' <= MaxMessages
         /\ message'.kind = kind /\ message'.peer = p /\ messages'[received + 1].peer = p
         /\ \A n \in 1 .. received : messages'[n] = messages[n]
         /\ \A n \in 1 .. received' : messages'[n].peer \in Peer(messages'[n].kind)
  <1>1. /\ recv = "read" /\ recv' = (IF kind = "notice" THEN "name" ELSE "walk") /\ found' = 0
        /\ cursor' = (IF kind = "notice" THEN 0 ELSE NodeBehind(kind, 0))
        /\ UNCHANGED <<gtk, windows, opened, since, text, history, lost, raced, crashed>>
        /\ received < MaxMessages
    BY DEF Receive, Goto, gtkside, files
  <1> DEFINE new == [kind |-> kind, peer |-> p]
  <1>2. messages' = Append(messages, new) /\ messages \in Seq([kind : Kinds, peer : Peers \cup {Nobody}])
    BY DEF Receive, HandOK
  <1>3. new \in [kind : Kinds, peer : Peers \cup {Nobody}] /\ new.kind = kind /\ new.peer = p
    BY PeerTypes
  <1> HIDE DEF new
  <1>4. /\ messages' \in Seq([kind : Kinds, peer : Peers \cup {Nobody}])
        /\ Len(messages) \in Nat /\ Len(messages') = Len(messages) + 1
        /\ messages'[Len(messages) + 1] = new
        /\ \A n \in 1 .. Len(messages) : messages'[n] = messages[n]
    BY <1>2, <1>3
  <1>5. received' = received + 1 /\ received \in Nat /\ received' <= MaxMessages
    BY <1>1, <1>4, PeerTypes DEF received
  <1>6. message' = new
    BY <1>4 DEF message, received
  <1>7. ASSUME NEW n \in 1 .. received'
        PROVE  messages'[n].peer \in Peer(messages'[n].kind)
    <2>1. CASE n = received + 1
      BY <1>3, <1>4, <2>1 DEF received
    <2>2. CASE n \in 1 .. received
      BY <1>4, <2>2 DEF HandOK, received
    <2>3. n = received + 1 \/ n \in 1 .. received
      BY <1>5
    <2> QED
      BY <2>1, <2>2, <2>3
  <1> QED
    BY <1>1, <1>3, <1>4, <1>5, <1>6, <1>7 DEF received

LEMMA HandStep ==
  ASSUME DeskInv, Next
  PROVE  HandOK'
  <1>0. HandOK
    BY DEF DeskInv, TypeOK
  <1>1. CASE Gtk
    BY <1>0, <1>1, GtkLeaves DEF HandOK, received
  <1>2. CASE \E kind \in Kinds : \E p \in Peer(kind) : Receive(kind, p)
    <2>0. PICK kind \in Kinds : \E p \in Peer(kind) : Receive(kind, p)
      BY <1>2
    <2>1. PICK p \in Peer(kind) : Receive(kind, p)
      BY <2>0
    <2>2. NodeBehind(kind, 0) \in 0 .. MaxWindows
      BY NextNode
    <2>3. /\ recv' \in {"name", "walk"} /\ found' = 0
          /\ cursor' = (IF kind = "notice" THEN 0 ELSE NodeBehind(kind, 0))
          /\ messages' \in Seq([kind : Kinds, peer : Peers \cup {Nobody}])
          /\ received \in Nat /\ received' = received + 1 /\ received' <= MaxMessages
          /\ \A n \in 1 .. received' : messages'[n].peer \in Peer(messages'[n].kind)
      BY <1>0, <2>1, ReceiveFacts
    <2>4. cursor' \in 0 .. MaxWindows /\ found' \in 0 .. MaxWindows
      BY <2>2, <2>3, PeerTypes
    <2>5. received' > 0
      BY <2>3
    <2> QED
      BY <2>3, <2>4, <2>5 DEF HandOK
  <1>3. CASE Receiver
    <2>1. messages' = messages /\ recv # "read"
      BY <1>3 DEF Receiver, Walk, Name, AppendText, Test, SetMode, SetInfo, OpenHistory, WriteHistory, recvside
    <2>2. recv' \in {"read", "walk", "name", "append", "test", "mode", "info", "fopen", "write"}
      BY <1>0, <1>3 DEF Receiver, Walk, Name, AppendText, Test, SetMode, SetInfo, OpenHistory, WriteHistory,
                        AfterNotice, Goto, HandOK
    <2>3. cursor' \in 0 .. MaxWindows /\ found' \in 0 .. MaxWindows
      <3>1. CASE Walk
        <4>1. cursor \in 0 .. MaxWindows /\ found \in 0 .. MaxWindows /\ MaxWindows \in Nat
          BY <1>0, PeerTypes DEF HandOK
        <4>2. NodeBehind(message.kind, cursor) \in 0 .. MaxWindows
          BY <4>1, NextNode
        <4>3. List(message.kind) \subseteq 0 .. MaxWindows
          BY <4>1 DEF List
        <4> QED
          BY <3>1, <4>1, <4>2, <4>3 DEF Walk
      <3>2. CASE ~Walk
        BY <1>0, <1>3, <3>2, PeerTypes
           DEF Receiver, Name, AppendText, Test, SetMode, SetInfo, OpenHistory, WriteHistory, recvside, HandOK
      <3> QED
        BY <3>1, <3>2
    <2> QED
      BY <1>0, <2>1, <2>2, <2>3 DEF HandOK, received
  <1> QED
    BY <1>1, <1>2, <1>3 DEF Next

LEMMA LineAppended ==
  ASSUME NEW P, NEW Q, NEW lines \in [P -> Seq(Q)], NEW p, NEW line \in Q, p \in P
  PROVE  [lines EXCEPT ![p] = Append(@, line)] \in [P -> Seq(Q)]
  <1>1. Append(lines[p], line) \in Seq(Q)
    OBVIOUS
  <1> QED
    BY <1>1

LEMMA NoticeAppended ==
  ASSUME NEW Q, NEW seq \in Seq(Q), NEW new \in Q
  PROVE  Append(seq, new) \in Seq(Q)
  OBVIOUS

LEMMA SlotTypeStep ==
  ASSUME DeskInv, Next
  PROVE  SlotOK'
  <1>0. SlotOK /\ MaxMessages \in Nat
    BY PeerTypes DEF DeskInv, TypeOK
  <1> USE DEF SlotOK
  <1>1. CASE Notify
    <2>1. mode # 0
      BY <1>1 DEF DeskInv, SlotInv, OrderInv, Notify
    <2>2. CASE uinfo = 0
      BY <1>0, <1>1, <2>2 DEF Notify
    <2>3. CASE uinfo # 0
      <3>1. <<mode, uinfo>> \in (1 .. MaxMessages) \X (1 .. MaxMessages)
        BY <1>0, <2>1, <2>3
      <3> QED
        BY <1>0, <1>1, <2>3, <3>1, NoticeAppended DEF Notify
    <2> QED
      BY <2>2, <2>3
  <1>2. CASE ClearMode \/ ClearInfo
    BY <1>0, <1>2 DEF ClearMode, ClearInfo
  <1>3. CASE SetMode \/ SetInfo
    <2>1. received \in 1 .. MaxMessages
      BY <1>3, MessageTyped DEF SetMode, SetInfo, DeskInv, TypeOK
    <2> QED
      BY <1>0, <1>3, <2>1 DEF SetMode, SetInfo
  <1>4. CASE UNCHANGED slot
    BY <1>0, <1>4 DEF slot
  <1>5. Walk \/ Name \/ AppendText \/ Test \/ OpenHistory \/ WriteHistory => UNCHANGED slot
    BY DEF Walk, Name, AppendText, Test, OpenHistory, WriteHistory
  <1>6. (\E kind \in Kinds : \E p \in Peer(kind) : Receive(kind, p)) => UNCHANGED slot
    BY DEF Receive
  <1>7. Gtk => UNCHANGED slot \/ Notify \/ ClearMode \/ ClearInfo
    BY GtkSteps DEF InitSettings, Watcher, WatcherTest, Insert, Closes, Remove, Send, Answers, Answered
  <1> QED
    BY <1>1, <1>2, <1>3, <1>4, <1>5, <1>6, <1>7 DEF Next, Receiver

\* What a step appends.
LEMMA LinesStep ==
  ASSUME DeskInv, Next
  PROVE  LinesOK'
  <1>0. LinesOK /\ HandOK /\ MaxMessages \in Nat /\ Junk \in Nat
    BY PeerTypes DEF DeskInv, TypeOK, Junk
  <1> USE DEF LinesOK
  <1>1. CASE Answers
    <2>1. \/ UNCHANGED <<text, history>>
          \/ /\ text' = [text EXCEPT ![sending] = Append(@, Own)]
             /\ history' = [history EXCEPT ![windows[sending]] = Append(@, Own)]
      BY <1>1 DEF Answers, Answered
    <2>2. lost' = lost /\ Own \in 0 .. MaxMessages /\ Own \in 0 .. Junk
      BY <1>0, <1>1 DEF Answers, Answered, Own
    <2>3. sending \in 1 .. MaxWindows /\ windows[sending] \in Peers
      BY <1>1 DEF Answers
    <2>4. [text EXCEPT ![sending] = Append(@, Own)] \in [1 .. MaxWindows -> Seq(0 .. MaxMessages)]
      BY <1>0, <2>2, <2>3, LineAppended
    <2>5. [history EXCEPT ![windows[sending]] = Append(@, Own)] \in [Peers -> Seq(0 .. Junk)]
      BY <1>0, <2>2, <2>3, LineAppended
    <2> QED
      BY <1>0, <2>1, <2>2, <2>4, <2>5
  <1>2. CASE \E id : Closes(id)
    <2>1. PICK id \in 1 .. MaxWindows : text' = [text EXCEPT ![id] = <<>>] /\ UNCHANGED <<history, lost>>
      BY <1>2 DEF Closes, Remove, files
    <2> QED
      BY <1>0, <2>1
  <1>3. CASE AppendText
    <2>1. received \in 0 .. MaxMessages
      BY <1>0, <1>3, MessageTyped DEF AppendText
    <2>2. /\ \/ text' = text
             \/ text' = [text EXCEPT ![found] = Append(@, received)]
          /\ UNCHANGED <<history, lost>>
      BY <1>3 DEF AppendText, files
    <2>3. found \in 1 .. MaxWindows
      BY <1>0, <1>3, PeerTypes DEF DeskInv, HandInv, HandOK, AppendText
    <2>4. [text EXCEPT ![found] = Append(@, received)] \in [1 .. MaxWindows -> Seq(0 .. MaxMessages)]
      BY <1>0, <2>1, <2>3, LineAppended
    <2> QED
      BY <1>0, <2>2, <2>4
  <1>4. CASE OpenHistory
    <2>1. received \in 1 .. MaxMessages
      BY <1>0, <1>4, MessageTyped DEF OpenHistory
    <2> QED
      BY <1>0, <1>4, <2>1 DEF OpenHistory
  <1>5. CASE WriteHistory
    <2>1. received \in 0 .. Junk /\ Junk \in 0 .. Junk
      BY <1>0, <1>5, MessageTyped DEF WriteHistory, Junk
    <2>2. PICK line \in 0 .. Junk : history' = [history EXCEPT ![message.peer] = Append(@, line)]
      BY <1>5, <2>1 DEF WriteHistory
    <2>3. UNCHANGED <<text, lost>>
      BY <1>5 DEF WriteHistory
    <2>4. message.peer \in Peers
      BY <1>0, <1>5, MessageTyped, PeerTypes DEF DeskInv, HandInv, WriteHistory
    <2>5. [history EXCEPT ![message.peer] = Append(@, line)] \in [Peers -> Seq(0 .. Junk)]
      BY <1>0, <2>2, <2>4, LineAppended
    <2> QED
      BY <1>0, <2>2, <2>3, <2>5
  <1>6. CASE UNCHANGED <<text, history, lost>>
    BY <1>0, <1>6
  <1>7. Walk \/ Name \/ Test \/ SetMode \/ SetInfo => UNCHANGED <<text, history, lost>>
    BY DEF Walk, Name, Test, SetMode, SetInfo, files
  <1>8. (\E kind \in Kinds : \E p \in Peer(kind) : Receive(kind, p)) => UNCHANGED <<text, history, lost>>
    BY DEF Receive, files
  <1>9. Gtk => UNCHANGED <<text, history, lost>> \/ Answers \/ \E id : Closes(id)
    BY GtkSteps DEF InitSettings, Watcher, WatcherTest, Notify, ClearMode, ClearInfo, Insert, Send, files
  <1> QED
    BY <1>1, <1>2, <1>3, <1>4, <1>5, <1>6, <1>7, <1>8, <1>9 DEF Next, Receiver

LEMMA RestStep ==
  ASSUME DeskInv, Next
  PROVE  RestOK'
  <1> USE DEF DeskInv, TypeOK, RestOK
  <1>1. Receiver => RestOK'
    BY DEF Receiver, Walk, Name, AppendText, Test, SetMode, SetInfo, OpenHistory, WriteHistory
  <1>2. (\E kind \in Kinds : \E p \in Peer(kind) : Receive(kind, p)) => RestOK'
    BY DEF Receive
  <1>3. Gtk => RestOK'
    BY GtkSteps DEF InitSettings, Watcher, WatcherTest, Notify, ClearMode, ClearInfo, Insert, Closes,
                    Remove, Send, Answers, Answered
  <1> QED
    BY <1>1, <1>2, <1>3 DEF Next

\* The windows as they are opened and closed.
LEMMA WindowStep ==
  ASSUME DeskInv, Next
  PROVE  WindowInv'
  <1>0. /\ ListsOK /\ HandOK /\ WindowInv /\ received \in Nat /\ MaxWindows \in Nat
        /\ text \in [1 .. MaxWindows -> Seq(0 .. MaxMessages)]
    BY PeerTypes DEF DeskInv, TypeOK, HandOK, LinesOK, received
  <1>1. /\ \A w \in 1 .. MaxWindows : since[w] \in Nat /\ since[w] <= received
        /\ \A w \in 1 .. MaxWindows : w > opened => ~Open(w) /\ text[w] = <<>>
        /\ gtk = "sending" => sending # 0 /\ Open(sending)
        /\ opened \in Nat
    BY <1>0 DEF WindowInv, ListsOK
  <1>2. CASE Receiver \/ \E kind \in Kinds : \E p \in Peer(kind) : Receive(kind, p)
    <2>1. UNCHANGED <<gtk, windows, opened, since, sending>>
      BY <1>2, ReceiverLeaves
    <2>2. received' \in Nat /\ received <= received'
      <3>1. CASE Receiver
        <4>1. messages' = messages
          BY <3>1 DEF Receiver, Walk, Name, AppendText, Test, SetMode, SetInfo, OpenHistory, WriteHistory, recvside
        <4> QED
          BY <1>0, <4>1 DEF received
      <3>2. CASE \E kind \in Kinds : \E p \in Peer(kind) : Receive(kind, p)
        <4>1. PICK kind \in Kinds : \E p \in Peer(kind) : Receive(kind, p)
          BY <3>2
        <4> QED
          BY <1>0, <4>1, ReceiveFacts
      <3> QED
        BY <1>2, <3>1, <3>2
    <2>3. ASSUME NEW w \in 1 .. MaxWindows, w > opened
          PROVE  text'[w] = <<>>
      <3>1. CASE AppendText
        <4>1. text' = text \/ (Open(found) /\ text' = [text EXCEPT ![found] = Append(@, received)])
          BY <3>1 DEF AppendText
        <4>2. ~Open(w) /\ text[w] = <<>>
          BY <1>1, <2>3
        <4> QED
          BY <1>0, <4>1, <4>2
      <3>2. CASE ~AppendText
        <4>1. text' = text
          BY <1>2, <3>2 DEF Receiver, Walk, Name, Test, SetMode, SetInfo, OpenHistory, WriteHistory, Receive
        <4> QED
          BY <1>1, <2>3, <4>1
      <3> QED
        BY <3>1, <3>2
    <2>4. \A w \in 1 .. MaxWindows : since'[w] <= received'
      BY <1>1, <2>1, <2>2, <1>0
    <2> QED
      BY <1>1, <2>1, <2>3, <2>4 DEF WindowInv, Open
  <1>3. CASE Gtk
    <2>0. received' = received
      BY <1>3, GtkLeaves DEF received
    <2>1. CASE InitSettings \/ Watcher
      <3>1. UNCHANGED <<windows, opened, since, sending, text>> /\ gtk' # "sending"
        BY <2>1 DEF InitSettings, Watcher, WatcherTest, Notify, ClearMode, ClearInfo, gtkside
      <3> QED
        BY <1>1, <2>0, <3>1 DEF WindowInv, Open
    <2>2. CASE \E p \in Peers : Insert(p)
      <3>1. PICK p \in Peers : Insert(p)
        BY <2>2
      <3>2. /\ opened' = opened + 1 /\ gtk' = gtk /\ gtk = "loop" /\ text' = text
            /\ windows' = [windows EXCEPT ![opened + 1] = p] /\ since' = [since EXCEPT ![opened + 1] = received]
        BY <3>1 DEF Insert
      <3>3. ASSUME NEW w \in 1 .. MaxWindows
            PROVE  since'[w] <= received /\ (w > opened + 1 => windows'[w] = Nobody /\ text[w] = <<>>)
        <4>1. since'[w] = IF w = opened + 1 THEN received ELSE since[w]
          BY <1>0, <3>2 DEF ListsOK
        <4>2. windows'[w] = IF w = opened + 1 THEN p ELSE windows[w]
          BY <1>0, <3>2 DEF ListsOK
        <4> QED
          BY <1>0, <1>1, <4>1, <4>2 DEF Open
      <3> QED
        BY <2>0, <3>2, <3>3 DEF WindowInv, Open
    <2>3. CASE \E id : Closes(id)
      <3>1. PICK id \in 1 .. MaxWindows : Remove(id)
        BY <2>3 DEF Closes
      <3>2. /\ windows' = [windows EXCEPT ![id] = Nobody] /\ since' = [since EXCEPT ![id] = 0]
            /\ text' = [text EXCEPT ![id] = <<>>] /\ opened' = opened /\ gtk' = "loop"
        BY <3>1 DEF Remove
      <3>3. ASSUME NEW w \in 1 .. MaxWindows
            PROVE  since'[w] <= received /\ (w > opened => windows'[w] = Nobody /\ text'[w] = <<>>)
        <4>1. since'[w] = IF w = id THEN 0 ELSE since[w]
          BY <1>0, <3>2 DEF ListsOK
        <4>2. windows'[w] = IF w = id THEN Nobody ELSE windows[w]
          BY <1>0, <3>2 DEF ListsOK
        <4>3. text'[w] = IF w = id THEN <<>> ELSE text[w]
          BY <1>0, <3>2
        <4> QED
          BY <1>0, <1>1, <4>1, <4>2, <4>3 DEF Open
      <3> QED
        BY <2>0, <3>2, <3>3 DEF WindowInv, Open
    <2>4. CASE \E id \in 1 .. MaxWindows : Send(id)
      <3>1. PICK id \in 1 .. MaxWindows : Send(id)
        BY <2>4
      <3>2. UNCHANGED <<windows, opened, since, text>> /\ Open(id) /\ sending' = id
        BY <3>1 DEF Send
      <3> QED
        BY <1>1, <2>0, <3>2 DEF WindowInv, Open
    <2>5. CASE Answers
      <3>1. /\ UNCHANGED <<windows, opened, since>> /\ gtk' = "loop" /\ Open(sending)
            /\ text' = text \/ text' = [text EXCEPT ![sending] = Append(@, Own)]
        BY <2>5, PeerTypes DEF Answers, Answered, Open
      <3>2. ASSUME NEW w \in 1 .. MaxWindows, w > opened
            PROVE  text'[w] = <<>>
        BY <1>0, <1>1, <3>1, <3>2
      <3> QED
        BY <1>1, <2>0, <3>1, <3>2 DEF WindowInv, Open
    <2> QED
      BY <1>3, <2>1, <2>2, <2>3, <2>4, <2>5, GtkSteps
  <1> QED
    BY <1>2, <1>3 DEF Next

\* The message in hand and the window found for it.
LEMMA HandInvStep ==
  ASSUME DeskInv, Next
  PROVE  HandInv'
  <1>0. ListsOK /\ HandOK /\ WindowInv /\ HandInv /\ opened \in Nat /\ found \in 0 .. MaxWindows /\ MaxWindows \in Nat
    BY PeerTypes DEF DeskInv, TypeOK, ListsOK, HandOK
  <1>1. CASE Gtk
    <2>1. UNCHANGED <<recv, messages, found, message>>
      BY <1>1, GtkLeaves DEF message, received
    <2>2. opened \in Nat /\ opened' \in {opened, opened + 1} /\ \A w \in 1 .. opened : w <= MaxWindows => windows'[w] \in {windows[w], Nobody}
      <3>1. CASE \E p \in Peers : Insert(p)
        BY <1>0, <3>1 DEF Insert, ListsOK
      <3>2. CASE \E id : Closes(id)
        BY <1>0, <3>2 DEF Closes, Remove, ListsOK
      <3>3. CASE UNCHANGED <<windows, opened>>
        BY <1>0, <3>3
      <3> QED
        BY <1>1, <3>1, <3>2, <3>3, GtkSteps
           DEF InitSettings, Watcher, WatcherTest, Notify, ClearMode, ClearInfo, Send, Answers, Answered, gtkside
    <2>3. found # 0 /\ found <= opened => found \in 1 .. opened /\ found <= MaxWindows
      BY <1>0
    <2> QED
      BY <1>0, <2>1, <2>2, <2>3 DEF HandInv
  <1>2. CASE \E kind \in Kinds : \E p \in Peer(kind) : Receive(kind, p)
    <2>0. PICK kind \in Kinds : \E p \in Peer(kind) : Receive(kind, p)
      BY <1>2
    <2>1. PICK p \in Peer(kind) : Receive(kind, p)
      BY <2>0
    <2>2. recv' = (IF kind = "notice" THEN "name" ELSE "walk") /\ found' = 0 /\ message'.kind = kind
      BY <1>0, <2>1, ReceiveFacts
    <2> QED
      BY <2>2 DEF HandInv
  <1>3. CASE Walk
    <2>1. recv = "walk" /\ found = 0 /\ message.kind # "notice" /\ message' = message /\ UNCHANGED <<windows, opened>>
      BY <1>0, <1>3 DEF HandInv, Walk, message, received, gtkside
    <2>2. \/ recv' \in {"test", "name", "walk"} /\ found' = found
          \/ recv' = "name" /\ found' = cursor /\ cursor # 0 /\ Open(cursor) /\ windows[cursor] = message.peer
      BY <1>3 DEF Walk, Goto
    <2>3. cursor # 0 /\ Open(cursor) => cursor <= opened
      BY <1>0 DEF WindowInv, HandOK
    <2> QED
      BY <2>1, <2>2, <2>3 DEF HandInv
  <1>4. CASE Receiver /\ ~Walk
    <2>1. UNCHANGED <<windows, opened, message>> /\ recv # "read"
      BY <1>4 DEF Receiver, Name, AppendText, Test, SetMode, SetInfo, OpenHistory, WriteHistory, message, received,
                  recvside, gtkside
    <2>2. \/ recv = "name" /\ found' = found /\ recv' = IF found # 0 THEN "append" ELSE "test"
          \/ recv = "append" /\ found' = found /\ recv' \in {"append", "fopen"}
          \/ recv' \in {"read", "mode", "info"}
          \/ recv' = "fopen" /\ message.kind # "notice"
          \/ recv = "fopen" /\ recv' = "write"
      BY <1>4 DEF Receiver, Name, AppendText, Test, SetMode, SetInfo, OpenHistory, WriteHistory, AfterNotice,
                  recvside, Goto
    <2> QED
      BY <1>0, <2>1, <2>2 DEF HandInv
  <1> QED
    BY <1>1, <1>2, <1>3, <1>4 DEF Next, Receiver

LEMMA DeskInit == Init => DeskInv
<1> SUFFICES ASSUME Init PROVE DeskInv
  OBVIOUS
<1>1. ListsOK /\ HandOK
  BY PeerTypes DEF Init, ListsOK, HandOK, received, Open
<1>2. SlotOK /\ RestOK
  BY PeerTypes DEF Init, SlotOK, RestOK
<1>3. LinesOK
  BY PeerTypes DEF Init, LinesOK
<1>4. WindowInv /\ HandInv
  BY PeerTypes DEF Init, WindowInv, HandInv, received, Open
<1> QED
  BY <1>1, <1>2, <1>3, <1>4, SlotInit DEF DeskInv, TypeOK

LEMMA DeskNext == DeskInv /\ [Next]_vars => DeskInv'
<1> SUFFICES ASSUME DeskInv, [Next]_vars PROVE DeskInv'
  OBVIOUS
<1>1. SlotInv'
  BY SlotNext DEF DeskInv
<1>2. CASE Next
  BY <1>1, <1>2, ListsStep, HandStep, SlotTypeStep, LinesStep, RestStep, WindowStep, HandInvStep DEF DeskInv, TypeOK
<1>3. CASE UNCHANGED vars
  <2>1. TypeOK'
    BY <1>3 DEF vars, gtkside, recvside, slot, files, DeskInv, TypeOK, ListsOK, HandOK, SlotOK, LinesOK, RestOK,
                received, Open
  <2>2. WindowInv' /\ HandInv'
    BY <1>3 DEF vars, gtkside, recvside, DeskInv, WindowInv, HandInv, received, message, Open
  <2> QED
    BY <1>1, <2>1, <2>2 DEF DeskInv
<1> QED
  BY <1>2, <1>3

\* Every variable keeps its type whatever the two threads do, and a peer has one
\* window at most: the search of the list before a window is opened
\* (callbacks.c) is enough, for only one thread opens windows.
THEOREM TypeCorrect == Spec => []TypeOK
<1>1. DeskInv => TypeOK
  BY DEF DeskInv
<1> QED
  BY DeskInit, DeskNext, <1>1, PTL DEF Spec

-----------------------------------------------------------------------------
\* What a window shows.

\* The walk does not pass the window it is looking for.
WalkOf(w) ==
  "walk" \notin raced /\ recv \in Underway /\ Open(w) /\ windows[w] = message.peer /\ since[w] < received =>
    IF recv = "walk" THEN cursor # 0 /\ cursor <= w ELSE found = w

\* The last message that a window can show: the one in hand is not there yet.
Told(w) == IF recv \in Underway /\ windows[w] = message.peer THEN received - 1 ELSE received

TextOf(w) ==
  Open(w) /\ "walk" \notin raced =>
    \E first \in {since[w], since[w] + 1} : Shows(text[w], From(windows[w], first, Told(w)), {})

TextInv == \A w \in 1 .. MaxWindows : WalkOf(w) /\ TextOf(w)

Among(msgs, p, first, last) == {n \in 1 .. last : n >= first /\ msgs[n].peer = p}

LEMMA AmongNext ==
  ASSUME NEW msgs, NEW p, NEW first \in Nat, NEW last \in Nat
  PROVE  /\ msgs[last + 1].peer # p => Among(msgs, p, first, last + 1) = Among(msgs, p, first, last)
         /\ msgs[last + 1].peer = p /\ first <= last + 1 =>
              Among(msgs, p, first, last + 1) = Among(msgs, p, first, last) \cup {last + 1}
         /\ first > last => Among(msgs, p, first, last) = {}
         /\ Among(msgs, p, first, last) \in SUBSET (1 .. last)
  <1> DEFINE peer(n) == msgs[n].peer
  <1>1. \A n : n \in 1 .. (last + 1) <=> n \in 1 .. last \/ n = last + 1
    OBVIOUS
  <1>2. \A l \in Nat : Among(msgs, p, first, l) = {n \in 1 .. l : n >= first /\ peer(n) = p}
    BY DEF Among
  <1> HIDE DEF peer
  <1>3. peer(last + 1) # p => Among(msgs, p, first, last + 1) = Among(msgs, p, first, last)
    BY <1>1, <1>2
  <1>4. peer(last + 1) = p /\ first <= last + 1 =>
          Among(msgs, p, first, last + 1) = Among(msgs, p, first, last) \cup {last + 1}
    BY <1>1, <1>2
  <1>5. first > last => Among(msgs, p, first, last) = {}
    BY <1>2
  <1>6. Among(msgs, p, first, last) \in SUBSET (1 .. last)
    BY <1>2
  <1> QED
    BY <1>3, <1>4, <1>5, <1>6 DEF peer

LEMMA AmongSame ==
  ASSUME NEW msgs, NEW more, NEW p, NEW first, NEW last, \A n \in 1 .. last : more[n] = msgs[n]
  PROVE  Among(more, p, first, last) = Among(msgs, p, first, last)
  BY DEF Among

\* A step that a window does not notice, but for a line of one's own.
LEMMA TextFrame ==
  ASSUME NEW w \in 1 .. MaxWindows, TextOf(w), Open(w), text[w] \in Seq(Nat), raced \subseteq raced',
         windows'[w] = windows[w], since'[w] = since[w], text'[w] \in {text[w], Append(text[w], Own)},
         \A first \in {since[w], since[w] + 1} :
           Among(messages', windows[w], first, Told(w)') = Among(messages, windows[w], first, Told(w))
  PROVE  TextOf(w)'
  <1>1. CASE "walk" \in raced'
    BY <1>1 DEF TextOf
  <1>2. CASE "walk" \notin raced'
    <2>1. PICK first \in {since[w], since[w] + 1} : Shows(text[w], Among(messages, windows[w], first, Told(w)), {})
      BY <1>2 DEF TextOf, From, Among
    <2>2. Shows(text'[w], Among(messages, windows[w], first, Told(w)), {})
      BY <2>1, ShowsOwn
    <2>3. Shows(text'[w], Among(messages', windows'[w], first, Told(w)'), {}) /\ first \in {since'[w], since'[w] + 1}
      BY <2>1, <2>2
    <2> QED
      BY <2>3 DEF TextOf, From, Among
  <1> QED
    BY <1>1, <1>2

\* A window that was opened with the message in hand shows none of its peer's.
LEMMA TextLate ==
  ASSUME NEW w \in 1 .. MaxWindows, TextOf(w), Open(w), since[w] = received, received \in Nat, received > 0,
         recv \in Underway, windows[w] = message.peer, "walk" \notin raced
  PROVE  Shows(text[w], {}, {})
  <1>1. PICK first \in {received, received + 1} : Shows(text[w], Among(messages, windows[w], first, received - 1), {})
    BY DEF TextOf, From, Among, Told
  <1>2. Among(messages, windows[w], first, received - 1) = {}
    <2>1. first \in Nat /\ received - 1 \in Nat /\ first > received - 1
      OBVIOUS
    <2> QED
      BY <2>1, AmongNext
  <1> QED
    BY <1>1, <1>2

\* So it may do without.
LEMMA TextSkipped ==
  ASSUME NEW w \in 1 .. MaxWindows, TextOf(w), Open(w), since[w] = received, received \in Nat, received > 0,
         recv \in Underway, windows[w] = message.peer,
         UNCHANGED <<windows, since, text, messages, raced>>, recv' \notin Underway
  PROVE  TextOf(w)'
  <1>1. CASE "walk" \in raced
    BY <1>1 DEF TextOf
  <1>2. CASE "walk" \notin raced
    <2>1. Shows(text[w], {}, {})
      BY <1>2, TextLate
    <2>2. Told(w)' = received
      BY DEF Told, received
    <2>3. Among(messages, windows[w], since[w] + 1, received) = {}
      BY AmongNext
    <2> QED
      BY <2>1, <2>2, <2>3 DEF TextOf, From, Among
  <1> QED
    BY <1>1, <1>2
\* What the proofs about the texts take from DeskInv.
LEMMA DeskFacts ==
  ASSUME DeskInv
  PROVE  /\ HandOK /\ HandInv /\ received \in 0 .. MaxMessages /\ MaxMessages \in Nat /\ MaxWindows \in Nat
         /\ recv # "read" => received > 0
         /\ \A w \in 1 .. MaxWindows : text[w] \in Seq(Nat) /\ since[w] \in Nat /\ since[w] <= received
         /\ \A v, w \in 1 .. MaxWindows : windows[v] = windows[w] /\ Open(v) => v = w
         /\ \A w \in 1 .. MaxWindows : w > opened => ~Open(w) /\ text[w] = <<>>
  <1>1. TypeOK /\ HandOK /\ HandInv /\ WindowInv /\ ListsOK /\ LinesOK
    BY DEF DeskInv, TypeOK
  <1>2. received \in 0 .. MaxMessages /\ MaxMessages \in Nat /\ MaxWindows \in Nat /\ (recv # "read" => received > 0)
    BY <1>1, PeerTypes DEF HandOK, received
  <1>3. ASSUME NEW w \in 1 .. MaxWindows
        PROVE  text[w] \in Seq(Nat) /\ since[w] \in Nat
    <2>1. text[w] \in Seq(0 .. MaxMessages) /\ since[w] \in 0 .. MaxMessages
      BY <1>1 DEF LinesOK, ListsOK
    <2>2. Seq(0 .. MaxMessages) \subseteq Seq(Nat)
      BY <1>2
    <2> QED
      BY <1>2, <2>1, <2>2
  <1> QED
    BY <1>1, <1>2, <1>3 DEF WindowInv, ListsOK

\* A step that leaves the receiver and the window as they were.
LEMMA TextStill ==
  ASSUME DeskInv, NEW w \in 1 .. MaxWindows, WalkOf(w), TextOf(w), Open(w), raced \subseteq raced',
         windows'[w] = windows[w], since'[w] = since[w], text'[w] \in {text[w], Append(text[w], Own)},
         UNCHANGED <<recv, messages, cursor, found>>
  PROVE  WalkOf(w)' /\ TextOf(w)'
  <1>1. WalkOf(w)'
    BY DEF WalkOf, Open, message, received
  <1>2. Told(w)' = Told(w)
    BY DEF Told, message, received
  <1>3. text[w] \in Seq(Nat)
    BY DeskFacts
  <1>4. TextOf(w)'
    BY <1>2, <1>3, TextFrame
  <1> QED
    BY <1>1, <1>4

\* The steps of the GTK thread: it opens windows that have nothing to show, and
\* appends one's own lines.
LEMMA GtkText ==
  ASSUME DeskInv, TextInv, Gtk, NEW w \in 1 .. MaxWindows
  PROVE  WalkOf(w)' /\ TextOf(w)'
  <1>0. WalkOf(w) /\ TextOf(w) /\ UNCHANGED <<recv, messages, cursor, found, received, message>>
    BY GtkLeaves DEF TextInv, received, message
  <1>1. CASE \E p \in Peers : Insert(p)
    <2>1. PICK p \in Peers : Insert(p)
      BY <1>1
    <2>2. /\ opened' = opened + 1 /\ text' = text /\ raced' = raced
          /\ windows' = [windows EXCEPT ![opened + 1] = p] /\ since' = [since EXCEPT ![opened + 1] = received]
      BY <2>1 DEF Insert
    <2>3. /\ windows'[w] = IF w = opened + 1 THEN p ELSE windows[w]
          /\ since'[w] = IF w = opened + 1 THEN received ELSE since[w]
      BY <2>2 DEF DeskInv, TypeOK, ListsOK
    <2>4. CASE w = opened + 1
      <3>1. text'[w] = <<>> /\ since'[w] = received /\ received \in Nat
        <4>1. opened \in Nat
          BY PeerTypes DEF DeskInv, TypeOK, ListsOK
        <4> QED
          BY <2>2, <2>3, <2>4, <4>1, DeskFacts
      <3>2. Told(w)' \in {received, received - 1}
        BY <1>0 DEF Told
      <3>3. Among(messages', windows'[w], received + 1, Told(w)') = {}
        <4>1. \A n \in 1 .. Told(w)' : ~ (n >= received + 1)
          BY <3>1, <3>2
        <4> QED
          BY <4>1 DEF Among
      <3>4. Shows(text'[w], Among(messages', windows'[w], received + 1, Told(w)'), {})
        BY <3>1, <3>3, ShowsNothing
      <3>5. TextOf(w)'
        BY <3>1, <3>4 DEF TextOf, From, Among
      <3>6. WalkOf(w)'
        BY <1>0, <3>1 DEF WalkOf
      <3> QED
        BY <3>5, <3>6
    <2>5. CASE w # opened + 1
      <3>1. CASE Open(w)
        BY <1>0, <2>2, <2>3, <2>5, <3>1, TextStill
      <3>2. CASE ~Open(w)
        BY <2>3, <2>5, <3>2 DEF Open, WalkOf, TextOf
      <3> QED
        BY <3>1, <3>2
    <2> QED
      BY <2>4, <2>5
  <1>2. CASE \E id : Closes(id)
    <2>1. PICK id \in 1 .. MaxWindows : Remove(id)
      BY <1>2 DEF Closes
    <2>2. /\ windows' = [windows EXCEPT ![id] = Nobody] /\ since' = [since EXCEPT ![id] = 0]
          /\ text' = [text EXCEPT ![id] = <<>>] /\ raced' = raced
      BY <2>1 DEF Remove
    <2>3. /\ windows'[w] = IF w = id THEN Nobody ELSE windows[w]
          /\ w # id => since'[w] = since[w] /\ text'[w] = text[w]
      BY <2>2 DEF DeskInv, TypeOK, ListsOK, LinesOK
    <2>4. CASE Open(w) /\ w # id
      BY <1>0, <2>2, <2>3, <2>4, TextStill
    <2>5. CASE ~(Open(w) /\ w # id)
      BY <2>3, <2>5 DEF Open, WalkOf, TextOf
    <2> QED
      BY <2>4, <2>5
  <1>3. CASE ~(\E p \in Peers : Insert(p)) /\ ~(\E id : Closes(id))
    <2>1. /\ UNCHANGED <<windows, since>> /\ raced \subseteq raced'
          /\ text' = text \/ text' = [text EXCEPT ![sending] = Append(@, Own)]
      BY <1>3, GtkSteps DEF InitSettings, Watcher, WatcherTest, Notify, ClearMode, ClearInfo, Send, Answers, Answered,
                            gtkside
    <2>2. text'[w] \in {text[w], Append(text[w], Own)}
      BY <2>1 DEF DeskInv, TypeOK, LinesOK
    <2>3. CASE Open(w)
      BY <1>0, <2>1, <2>2, <2>3, TextStill
    <2>4. CASE ~Open(w)
      BY <2>1, <2>4 DEF Open, WalkOf, TextOf
    <2> QED
      BY <2>3, <2>4
  <1> QED
    BY <1>1, <1>2, <1>3

\* A message: the walk starts at the head of the list, before the window that it
\* is for, and the message becomes the one that need not be shown yet.
LEMMA ReceiveText ==
  ASSUME DeskInv, TextInv, NEW kind \in Kinds, NEW p \in Peer(kind), Receive(kind, p), NEW w \in 1 .. MaxWindows
  PROVE  WalkOf(w)' /\ TextOf(w)'
  <1>0. HandOK /\ WalkOf(w) /\ TextOf(w)
    BY DeskFacts DEF TextInv
  <1>1. /\ recv = "read" /\ recv' = (IF kind = "notice" THEN "name" ELSE "walk")
        /\ cursor' = (IF kind = "notice" THEN 0 ELSE NodeBehind(kind, 0))
        /\ UNCHANGED <<windows, since, text, raced>>
        /\ received \in Nat /\ received' = received + 1
        /\ message'.peer = p /\ messages'[received + 1].peer = p
        /\ \A n \in 1 .. received : messages'[n] = messages[n]
    BY <1>0, ReceiveFacts
  <1>2. CASE ~Open(w)
    BY <1>1, <1>2 DEF Open, WalkOf, TextOf
  <1>3. CASE Open(w)
    <2>1. WalkOf(w)'
      <3>1. CASE windows[w] = p
        <4>1. kind # "notice" /\ w \in List(kind)
          BY <1>3, <3>1, PeerTypes DEF Open, List
        <4>2. cursor' # 0 /\ cursor' <= w
          BY <1>1, <4>1, NextNode
        <4> QED
          BY <1>1, <4>1, <4>2 DEF WalkOf
      <3>2. CASE windows[w] # p
        BY <1>1, <3>2 DEF WalkOf
      <3> QED
        BY <3>1, <3>2
    <2>2. ASSUME NEW first \in {since[w], since[w] + 1}
          PROVE  Among(messages', windows[w], first, Told(w)') = Among(messages, windows[w], first, Told(w))
      <3>0. first \in Nat
        BY DeskFacts
      <3>1. Told(w) = received /\ Told(w)' = IF windows[w] = p THEN received ELSE received + 1
        BY <1>1 DEF Told, Underway
      <3>2. Among(messages', windows[w], first, received) = Among(messages, windows[w], first, received)
        BY <1>1, AmongSame
      <3>3. windows[w] # p => Among(messages', windows[w], first, received + 1) = Among(messages', windows[w], first, received)
        BY <1>1, <3>0, AmongNext
      <3> QED
        BY <3>1, <3>2, <3>3
    <2>3. text[w] \in Seq(Nat)
      BY DeskFacts
    <2>4. TextOf(w)'
      BY <1>0, <1>1, <1>3, <2>2, <2>3, TextFrame
    <2> QED
      BY <2>1, <2>4
  <1> QED
    BY <1>2, <1>3

LEMMA WalkText ==
  ASSUME DeskInv, TextInv, Walk, NEW w \in 1 .. MaxWindows
  PROVE  WalkOf(w)' /\ TextOf(w)'
  <1>0. /\ WalkOf(w) /\ TextOf(w) /\ recv = "walk" /\ received' = received /\ message' = message
        /\ UNCHANGED <<messages, windows, since, text>> /\ raced \subseteq raced'
    BY DEF TextInv, Walk, received, message, gtkside
  <1>1. CASE ~Open(w) \/ "walk" \in raced'
    BY <1>0, <1>1 DEF Open, WalkOf, TextOf
  <1>2. CASE Open(w) /\ "walk" \notin raced'
    <2>0. windows[w] = message.peer => w \in List(message.kind)
      BY <1>0, <1>2, PeerOfWindow, DeskFacts
    <2>1. CASE cursor = 0
      <3>1. recv' \in {"test", "name"}
        BY <2>1 DEF Walk, Goto
      <3>2. since[w] < received => windows[w] # message.peer
        BY <1>0, <1>2, <2>1 DEF WalkOf, Underway
      <3>3. WalkOf(w)'
        BY <1>0, <3>2 DEF WalkOf
      <3>4. TextOf(w)'
        <4>1. CASE windows[w] = message.peer /\ recv' = "test"
          <5>1. since[w] = received /\ received \in Nat /\ received > 0
            BY <1>0, <3>2, <4>1, DeskFacts
          <5>2. raced' = raced /\ recv \in Underway /\ recv' \notin Underway
            BY <1>0, <2>1, <4>1 DEF Walk, Underway
          <5> QED
            BY <1>0, <1>2, <4>1, <5>1, <5>2, TextSkipped
        <4>2. CASE ~(windows[w] = message.peer /\ recv' = "test")
          <5>1. Told(w)' = Told(w)
            BY <1>0, <3>1, <4>2 DEF Told, Underway
          <5> QED
            BY <1>0, <1>2, <5>1, DeskFacts, TextFrame
        <4> QED
          BY <4>1, <4>2
      <3> QED
        BY <3>3, <3>4
    <2>2. CASE cursor # 0
      <3>1. /\ Open(cursor)
            /\ IF windows[cursor] = message.peer
               THEN found' = cursor /\ recv' = "name"
               ELSE cursor' = NodeBehind(message.kind, cursor) /\ UNCHANGED <<found, recv>>
        BY <1>2, <2>2 DEF Walk, Goto
      <3>2. cursor \in 1 .. MaxWindows
        BY <2>2, DeskFacts DEF HandOK
      <3>3. Told(w)' = Told(w)
        BY <1>0, <3>1 DEF Told, Underway
      <3>4. TextOf(w)'
        BY <1>0, <1>2, <3>3, DeskFacts, TextFrame
      <3>5. WalkOf(w)'
        <4> SUFFICES ASSUME windows[w] = message.peer, since[w] < received
                     PROVE  IF recv' = "walk" THEN cursor' # 0 /\ cursor' <= w ELSE found' = w
          BY <1>0 DEF WalkOf
        <4>1. cursor <= w
          BY <1>0, <1>2 DEF WalkOf, Underway
        <4>2. CASE windows[cursor] = message.peer
          BY <3>1, <3>2, <4>2, DeskFacts
        <4>3. CASE windows[cursor] # message.peer
          <5>1. w > cursor /\ cursor \in Nat
            BY <3>2, <4>1, <4>3
          <5>2. NodeBehind(message.kind, cursor) # 0 /\ NodeBehind(message.kind, cursor) <= w
            BY <2>0, <5>1, NextNode
          <5> QED
            BY <1>0, <3>1, <4>3, <5>2
        <4> QED
          BY <4>2, <4>3
      <3> QED
        BY <3>4, <3>5
    <2> QED
      BY <2>1, <2>2
  <1> QED
    BY <1>1, <1>2

LEMMA NameText ==
  ASSUME DeskInv, TextInv, Name, NEW w \in 1 .. MaxWindows
  PROVE  WalkOf(w)' /\ TextOf(w)'
  <1>0. /\ WalkOf(w) /\ TextOf(w) /\ recv = "name" /\ recv' = (IF found # 0 THEN "append" ELSE "test")
        /\ received' = received /\ message' = message
        /\ UNCHANGED <<messages, windows, since, text, found, raced>>
    BY DEF TextInv, Name, Goto, received, message, gtkside, recvside
  <1>1. CASE ~Open(w) \/ "walk" \in raced
    BY <1>0, <1>1 DEF Open, WalkOf, TextOf
  <1>2. CASE Open(w) /\ "walk" \notin raced
    <2>1. WalkOf(w)'
      BY <1>0 DEF WalkOf, Underway, Open
    <2>2. CASE windows[w] = message.peer /\ recv' = "test"
      <3>1. since[w] = received /\ received \in Nat /\ received > 0
        <4>1. ~(since[w] < received)
          BY <1>0, <1>2, <2>2 DEF WalkOf, Underway
        <4> QED
          BY <1>0, <4>1, DeskFacts
      <3>2. recv \in Underway /\ recv' \notin Underway
        BY <1>0, <2>2 DEF Underway
      <3> QED
        BY <1>0, <1>2, <2>1, <2>2, <3>1, <3>2, TextSkipped
    <2>3. CASE ~(windows[w] = message.peer /\ recv' = "test")
      <3>1. Told(w)' = Told(w)
        BY <1>0, <2>3 DEF Told, Underway
      <3> QED
        BY <1>0, <1>2, <2>1, <3>1, DeskFacts, TextFrame
    <2> QED
      BY <2>2, <2>3
  <1> QED
    BY <1>1, <1>2

\* The line of the message in hand goes into the window found, or there is none
\* that misses it.
LEMMA AppendTextText ==
  ASSUME DeskInv, TextInv, AppendText, NEW w \in 1 .. MaxWindows
  PROVE  WalkOf(w)' /\ TextOf(w)'
  <1>0. /\ WalkOf(w) /\ TextOf(w) /\ recv = "append"
        /\ received' = received /\ message' = message
        /\ UNCHANGED <<messages, windows, since, cursor, found, raced>>
    BY DEF TextInv, AppendText, received, message, gtkside, recvside
  <1>f. received \in Nat /\ received > 0 /\ text[w] \in Seq(Nat) /\ since[w] \in Nat /\ since[w] <= received
    BY <1>0, DeskFacts
  <1>1. CASE ~Open(w) \/ "walk" \in raced
    BY <1>0, <1>1 DEF Open, WalkOf, TextOf
  <1>2. CASE Open(w) /\ "walk" \notin raced /\ recv' = recv
    <2>1. text' = text
      BY <1>0, <1>2 DEF AppendText, Goto
    <2>2. Told(w)' = Told(w) /\ WalkOf(w)'
      BY <1>0, <1>2 DEF Told, WalkOf, Open
    <2> QED
      BY <1>0, <1>2, <1>f, <2>1, <2>2, TextFrame
  <1>3. CASE Open(w) /\ "walk" \notin raced /\ recv' # recv
    <2>1. recv' = "fopen" /\ IF Open(found) THEN text' = [text EXCEPT ![found] = Append(@, received)] ELSE text' = text
      BY <1>3 DEF AppendText, Goto
    <2>2. WalkOf(w)'
      BY <2>1 DEF WalkOf, Underway
    <2>3. CASE windows[w] # message.peer
      <3>1. Told(w)' = Told(w)
        BY <1>0, <2>3 DEF Told
      <3>2. text'[w] = text[w]
        <4>1. Open(found) => found # w
          BY <1>0, <2>3, DeskFacts DEF HandInv, Open
        <4> QED
          BY <2>1, <4>1 DEF DeskInv, TypeOK, LinesOK
      <3> QED
        BY <1>0, <1>3, <1>f, <2>2, <3>1, <3>2, TextFrame
    <2>4. CASE windows[w] = message.peer /\ ~Open(found)
      <3>1. since[w] = received
        <4>1. ~(since[w] < received)
          BY <1>0, <1>3, <2>4 DEF WalkOf, Underway
        <4> QED
          BY <1>f, <4>1
      <3>2. recv \in Underway /\ recv' \notin Underway /\ text' = text
        BY <1>0, <2>1, <2>4 DEF Underway
      <3> QED
        BY <1>0, <1>3, <1>f, <2>2, <2>4, <3>1, <3>2, TextSkipped
    <2>5. CASE windows[w] = message.peer /\ Open(found)
      <3>1. found = w
        <4>1. found \in 1 .. MaxWindows /\ windows[found] = message.peer
          BY <1>0, <2>5, DeskFacts DEF HandInv, HandOK, Open
        <4> QED
          BY <2>5, <4>1, DeskFacts
      <3>2. text'[w] = Append(text[w], received)
        BY <2>1, <2>5, <3>1 DEF DeskInv, TypeOK, LinesOK
      <3>3. Told(w) = received - 1 /\ Told(w)' = received
        BY <1>0, <2>1, <2>5 DEF Told, Underway
      <3>4. PICK first \in {since[w], since[w] + 1} : Shows(text[w], Among(messages, windows[w], first, received - 1), {})
        BY <1>0, <1>3, <3>3 DEF TextOf, From, Among
      <3>5. PICK from \in {since[w], since[w] + 1} : from <= received
              /\ Among(messages, windows[w], from, received - 1) = Among(messages, windows[w], first, received - 1)
        <4>1. CASE first <= received
          BY <3>4, <4>1
        <4>2. CASE first > received
          <5>1. /\ received = since[w] /\ first \in Nat /\ received - 1 \in Nat
                /\ first > received - 1 /\ received > received - 1
            BY <1>f, <4>2
          <5>2. Among(messages, windows[w], received, received - 1) = {}
            BY <1>f, <5>1, AmongNext
          <5>3. Among(messages, windows[w], first, received - 1) = {}
            BY <5>1, AmongNext
          <5>4. received \in {since[w], since[w] + 1} /\ received <= received
            BY <1>f, <5>1
          <5> QED
            BY <5>2, <5>3, <5>4
        <4>3. first \in Nat
          BY <1>f
        <4> QED
          BY <1>f, <4>1, <4>2, <4>3
      <3> DEFINE set == Among(messages, windows[w], from, received - 1)
      <3>6. /\ Among(messages, windows[w], from, received) = set \cup {received}
            /\ set \in SUBSET (1 .. received - 1)
        <4>1. from \in Nat /\ received - 1 \in Nat /\ (received - 1) + 1 = received
          BY <1>f
        <4>2. messages[received].peer = windows[w]
          BY <2>5 DEF message
        <4> QED
          BY <3>5, <4>1, <4>2, AmongNext
      <3>7. Shows(text[w], set, {})
        BY <3>4, <3>5
      <3> HIDE DEF set
      <3>8. set \in SUBSET Nat /\ \A n \in set : n < received
        BY <1>f, <3>6
      <3>9. received # Own
        BY <1>f DEF Own
      <3>10. Shows(Append(text[w], received), set \cup {received}, {})
        BY <1>f, <3>7, <3>8, <3>9, ShowsNext
      <3>11. Shows(text'[w], Among(messages', windows'[w], from, Told(w)'), {})
        BY <1>0, <3>2, <3>3, <3>6, <3>10
      <3>12. TextOf(w)'
        BY <1>0, <3>5, <3>11 DEF TextOf, From, Among
      <3> QED
        BY <2>2, <3>12
    <2> QED
      BY <2>3, <2>4, <2>5
  <1> QED
    BY <1>1, <1>2, <1>3

\* The rest of the receiver's work, on the slot and the files.
LEMMA RestText ==
  ASSUME DeskInv, TextInv, Test \/ SetMode \/ SetInfo \/ OpenHistory \/ WriteHistory, NEW w \in 1 .. MaxWindows
  PROVE  WalkOf(w)' /\ TextOf(w)'
  <1>1. /\ WalkOf(w) /\ TextOf(w) /\ UNCHANGED <<messages, windows, since, text>> /\ raced \subseteq raced'
        /\ recv \notin Underway /\ recv' \notin Underway
    BY DEF TextInv, Test, SetMode, SetInfo, OpenHistory, WriteHistory, Goto, AfterNotice, Underway, gtkside, recvside
  <1>2. WalkOf(w)' /\ Told(w)' = Told(w)
    BY <1>1 DEF WalkOf, Told, received
  <1>3. CASE Open(w)
    BY <1>1, <1>2, <1>3, DeskFacts, TextFrame
  <1>4. CASE ~Open(w)
    BY <1>1, <1>2, <1>4 DEF TextOf, Open
  <1> QED
    BY <1>2, <1>3, <1>4

LEMMA TextInit == Init => TextInv
<1> SUFFICES ASSUME Init, NEW w \in 1 .. MaxWindows PROVE WalkOf(w) /\ TextOf(w)
  BY DEF TextInv
<1>1. windows[w] = Nobody
  BY DEF Init
<1> QED
  BY <1>1 DEF WalkOf, TextOf, Open

LEMMA TextNext == DeskInv /\ TextInv /\ [Next]_vars => TextInv'
<1> SUFFICES ASSUME DeskInv, TextInv, [Next]_vars, NEW w \in 1 .. MaxWindows
             PROVE  WalkOf(w)' /\ TextOf(w)'
  BY DEF TextInv
<1>1. CASE Gtk
  BY <1>1, GtkText
<1>2. CASE Receiver
  BY <1>2, WalkText, NameText, AppendTextText, RestText DEF Receiver
<1>3. CASE \E kind \in Kinds : \E p \in Peer(kind) : Receive(kind, p)
  <2>1. PICK kind \in Kinds : \E p \in Peer(kind) : Receive(kind, p)
    BY <1>3
  <2> QED
    BY <2>1, ReceiveText
<1>4. CASE UNCHANGED vars
  <2>1. UNCHANGED <<messages, windows, since, text, recv, cursor, found, raced>>
    BY <1>4 DEF vars, gtkside, recvside
  <2> QED
    BY <2>1 DEF TextInv, WalkOf, TextOf, Open, Told, From, received, message
<1> QED
  BY <1>1, <1>2, <1>3, <1>4 DEF Next

\* Whatever windows are opened and closed meanwhile, a window shows every message
\* of its peer since it was opened, in order, unless a node is freed under the
\* receiver's walk of the list (handler.c:435-443, 522-530): the walk passes no
\* node, and the name is asked for between the walk and the line.
THEOREM WindowsShowAll == Spec => []WindowShowsAll
<1>1. TextInv => WindowShowsAll
  <2> SUFFICES ASSUME TextInv, recv = "read", "walk" \notin raced, NEW w \in 1 .. MaxWindows, Open(w)
               PROVE  \E first \in {since[w], since[w] + 1} :
                        Shows(text[w], From(windows[w], first, received), {})
    BY DEF WindowShowsAll
  <2>1. Told(w) = received
    BY DEF Told, Underway
  <2> QED
    BY <2>1 DEF TextInv, TextOf
<1> QED
  BY DeskInit, DeskNext, TextInit, TextNext, <1>1, PTL DEF Spec

-----------------------------------------------------------------------------
\* What a history has.

\* The last message that the files have, or have lost.
Written == IF recv = "read" THEN received ELSE received - 1

JunkOf(p) == IF p \in Groups THEN {Junk} ELSE {}

HistoryOf(p) == Shows(history[p], From(p, 1, Written) \ lost, JunkOf(p))

HistoryInv == lost \subseteq 1 .. Written /\ \A p \in Peers : HistoryOf(p)

\* A step that the history of a peer does not notice, but for a line of one's own.
LEMMA HistoryFrame ==
  ASSUME NEW p \in Peers, HistoryOf(p), history[p] \in Seq(Nat),
         history'[p] \in {history[p], Append(history[p], Own)},
         Among(messages', p, 1, Written') \ lost' = Among(messages, p, 1, Written) \ lost
  PROVE  HistoryOf(p)'
  <1>1. Shows(history[p], Among(messages, p, 1, Written) \ lost, JunkOf(p))
    BY DEF HistoryOf, From, Among
  <1>2. Shows(history'[p], Among(messages', p, 1, Written') \ lost', JunkOf(p))
    BY <1>1, ShowsOwn
  <1> QED
    BY <1>2 DEF HistoryOf, From, Among, JunkOf

LEMMA HistoryFacts ==
  ASSUME DeskInv
  PROVE  /\ received \in Nat /\ (recv # "read" => received > 0 /\ received <= MaxMessages) /\ Written \in Nat
         /\ history \in [Peers -> Seq(0 .. Junk)] /\ \A p \in Peers : history[p] \in Seq(Nat)
  <1>1. received \in Nat /\ (recv # "read" => received > 0 /\ received <= MaxMessages) /\ Junk \in Nat
    BY DeskFacts DEF Junk
  <1>2. history \in [Peers -> Seq(0 .. Junk)]
    BY DEF DeskInv, TypeOK, LinesOK
  <1>3. \A p \in Peers : history[p] \in Seq(Nat)
    <2>1. Seq(0 .. Junk) \subseteq Seq(Nat)
      BY <1>1
    <2> QED
      BY <1>2, <2>1
  <1> QED
    BY <1>1, <1>2, <1>3 DEF Written

\* The message in hand is one of its peer's.
LEMMA AmongLast ==
  ASSUME NEW p, received \in Nat, received > 0
  PROVE  /\ message.peer # p => Among(messages, p, 1, received) = Among(messages, p, 1, received - 1)
         /\ message.peer = p =>
              Among(messages, p, 1, received) = Among(messages, p, 1, received - 1) \cup {received}
         /\ Among(messages, p, 1, received - 1) \in SUBSET (1 .. received - 1)
  <1>1. PICK last \in Nat : received = last + 1 /\ received - 1 = last /\ 1 <= last + 1
    <2>1. received - 1 \in Nat /\ received = (received - 1) + 1 /\ 1 <= (received - 1) + 1
      OBVIOUS
    <2> QED
      BY <2>1
  <1>2. /\ messages[last + 1].peer # p => Among(messages, p, 1, last + 1) = Among(messages, p, 1, last)
        /\ messages[last + 1].peer = p => Among(messages, p, 1, last + 1) = Among(messages, p, 1, last) \cup {last + 1}
        /\ Among(messages, p, 1, last) \in SUBSET (1 .. last)
    BY <1>1, AmongNext
  <1> QED
    BY <1>1, <1>2 DEF message

\* What is in hand goes into no file.
LEMMA HistoryDropped ==
  ASSUME DeskInv, HistoryInv, UNCHANGED <<messages, history>>, recv # "read", recv' = "read",
         lost' = lost \cup {received} \/ (lost' = lost /\ message.peer \notin Peers)
  PROVE  HistoryInv'
  <1>0. received \in Nat /\ received > 0 /\ Written = received - 1 /\ Written' = received
    BY HistoryFacts DEF Written, received
  <1>1. lost' \subseteq 1 .. received
    <2>1. lost \subseteq 1 .. received - 1
      BY <1>0 DEF HistoryInv
    <2>2. 1 .. received - 1 \subseteq 1 .. received /\ received \in 1 .. received
      BY <1>0
    <2> QED
      BY <2>1, <2>2
  <1>2. ASSUME NEW p \in Peers
        PROVE  HistoryOf(p)'
    <2>2. /\ message.peer # p => Among(messages, p, 1, received) = Among(messages, p, 1, received - 1)
          /\ message.peer = p =>
               Among(messages, p, 1, received) = Among(messages, p, 1, received - 1) \cup {received}
          /\ Among(messages, p, 1, received - 1) \in SUBSET (1 .. received - 1)
      BY <1>0, AmongLast
    <2>3. Among(messages, p, 1, received) \ lost' = Among(messages, p, 1, received - 1) \ lost
      <3>1. CASE lost' = lost /\ message.peer # p
        BY <2>2, <3>1
      <3>2. CASE lost' = lost \cup {received}
        <4>1. received \notin Among(messages, p, 1, received - 1)
          BY <1>0, <2>2
        <4> QED
          BY <2>2, <3>2, <4>1
      <3> QED
        BY <3>1, <3>2
    <2>4. Among(messages', p, 1, Written') \ lost' = Among(messages, p, 1, Written) \ lost
      BY <1>0, <2>3
    <2> QED
      BY <2>4, HistoryFacts, HistoryFrame DEF HistoryInv
  <1> QED
    BY <1>0, <1>1, <1>2 DEF HistoryInv

\* Its line is the last of its peer's file.
LEMMA HistoryWritten ==
  ASSUME DeskInv, HistoryInv, WriteHistory
  PROVE  HistoryInv'
  <1>0. /\ UNCHANGED <<messages, lost>> /\ recv = "write" /\ recv' = "read"
        /\ received \in Nat /\ received > 0 /\ received <= MaxMessages
        /\ Written = received - 1 /\ Written' = received
    BY HistoryFacts DEF WriteHistory, Goto, Written, received
  <1>1. PICK line : /\ history' = [history EXCEPT ![message.peer] = Append(@, line)]
                    /\ line = received \/ (line = Junk /\ message.kind = "group")
    BY DEF WriteHistory
  <1>2. /\ message.peer \in Peers /\ (message.kind = "group" => message.peer \in Groups)
        /\ line \in Nat /\ line # Own /\ line \in {received} \cup JunkOf(message.peer)
    <2>1. message.peer \in Peers /\ (message.kind = "group" => message.peer \in Groups)
      BY <1>0, MessageTyped, PeerTypes, DeskFacts DEF HandInv
    <2>2. Junk \in Nat /\ Junk # Own /\ received # Own
      BY <1>0, PeerTypes DEF Junk, Own
    <2> QED
      BY <1>0, <1>1, <2>1, <2>2 DEF JunkOf
  <1>3. lost \subseteq 1 .. received - 1 /\ lost \subseteq 1 .. received
    BY <1>0 DEF HistoryInv
  <1>4. ASSUME NEW p \in Peers
        PROVE  HistoryOf(p)'
    <2>0. HistoryOf(p) /\ history[p] \in Seq(Nat)
      BY HistoryFacts DEF HistoryInv
    <2> DEFINE set == Among(messages, p, 1, received - 1)
    <2>2. /\ message.peer # p => Among(messages, p, 1, received) = set
          /\ message.peer = p => Among(messages, p, 1, received) = set \cup {received}
          /\ set \in SUBSET (1 .. received - 1)
      BY <1>0, AmongLast
    <2>3. CASE message.peer # p
      <3>1. history'[p] = history[p]
        BY <1>1, <2>3, HistoryFacts
      <3>2. Among(messages', p, 1, Written') \ lost' = Among(messages, p, 1, Written) \ lost
        BY <1>0, <2>2, <2>3
      <3> QED
        BY <2>0, <3>1, <3>2, HistoryFrame
    <2>4. CASE message.peer = p
      <3>1. history'[p] = Append(history[p], line)
        BY <1>1, <2>4, HistoryFacts
      <3>2. Shows(history[p], set \ lost, JunkOf(p))
        BY <1>0, <2>0 DEF HistoryOf, From, Among
      <3>3. Among(messages, p, 1, received) \ lost = (set \ lost) \cup {received}
        BY <1>0, <1>3, <2>2, <2>4
      <3> HIDE DEF set
      <3>4. set \ lost \in SUBSET Nat /\ \A n \in set \ lost : n < received
        <4>1. \A n \in 1 .. received - 1 : n \in Nat /\ n < received
          BY <1>0
        <4> QED
          BY <2>2, <4>1
      <3>5. line \in {received} \cup JunkOf(p)
        BY <1>2, <2>4
      <3>6. Shows(Append(history[p], line), (set \ lost) \cup {received}, JunkOf(p))
        BY <1>0, <1>2, <2>0, <3>2, <3>4, <3>5, ShowsNext
      <3>7. Shows(history'[p], Among(messages', p, 1, Written') \ lost', JunkOf(p))
        BY <1>0, <3>1, <3>3, <3>6
      <3> QED
        BY <3>7 DEF HistoryOf, From, Among, JunkOf
    <2> QED
      BY <2>3, <2>4
  <1> QED
    BY <1>0, <1>3, <1>4 DEF HistoryInv

LEMMA HistoryInit == Init => HistoryInv
<1> SUFFICES ASSUME Init PROVE HistoryInv
  OBVIOUS
<1>1. received = 0 /\ Written = 0 /\ lost = {} /\ \A p \in Peers : history[p] = <<>>
  BY DEF Init, received, Written
<1>2. ASSUME NEW p \in Peers
      PROVE  HistoryOf(p)
  <2>1. Among(messages, p, 1, 0) \ lost = {}
    BY DEF Among
  <2>2. Shows(<<>>, {}, JunkOf(p))
    BY ShowsNothing
  <2> QED
    BY <1>1, <2>1, <2>2 DEF HistoryOf, From, Among
<1> QED
  BY <1>1, <1>2 DEF HistoryInv

LEMMA HistoryNext == DeskInv /\ HistoryInv /\ [Next]_vars => HistoryInv'
<1> SUFFICES ASSUME DeskInv, HistoryInv, [Next]_vars PROVE HistoryInv'
  OBVIOUS
<1>1. ASSUME UNCHANGED <<messages, lost>>, Written' = Written,
             \A p \in Peers : history'[p] \in {history[p], Append(history[p], Own)}
      PROVE  HistoryInv'
  <2>1. ASSUME NEW p \in Peers
        PROVE  HistoryOf(p)'
    BY <1>1, HistoryFacts, HistoryFrame DEF HistoryInv
  <2> QED
    BY <1>1, <2>1 DEF HistoryInv
<1>2. CASE Gtk
  <2>1. UNCHANGED <<messages, lost>> /\ Written' = Written
    BY <1>2, GtkLeaves DEF Written, received
  <2>2. \/ history' = history
        \/ history' = [history EXCEPT ![windows[sending]] = Append(@, Own)]
    BY <1>2, GtkSteps DEF InitSettings, Watcher, WatcherTest, Notify, ClearMode, ClearInfo, Insert, Closes, Remove,
                          Send, Answers, Answered, files
  <2>3. \A p \in Peers : history'[p] \in {history[p], Append(history[p], Own)}
    BY <2>2, HistoryFacts
  <2> QED
    BY <1>1, <2>1, <2>3
<1>3. CASE \E kind \in Kinds : \E p \in Peer(kind) : Receive(kind, p)
  <2>0. PICK kind \in Kinds : \E p \in Peer(kind) : Receive(kind, p)
    BY <1>3
  <2>1. PICK p \in Peer(kind) : Receive(kind, p)
    BY <2>0
  <2>2. /\ recv = "read" /\ recv' # "read" /\ UNCHANGED <<history, lost>>
        /\ received \in Nat /\ received' = received + 1
        /\ \A n \in 1 .. received : messages'[n] = messages[n]
    BY <2>1, ReceiveFacts, DeskFacts
  <2>3. Written = received /\ Written' = received
    BY <2>2 DEF Written
  <2>4. ASSUME NEW q \in Peers
        PROVE  HistoryOf(q)'
    <3>1. Among(messages', q, 1, received) = Among(messages, q, 1, received)
      BY <2>2, AmongSame
    <3> QED
      BY <2>2, <2>3, <3>1, HistoryFacts, HistoryFrame DEF HistoryInv
  <2> QED
    BY <2>2, <2>3, <2>4 DEF HistoryInv
<1>4. CASE WriteHistory
  BY <1>4, HistoryWritten
<1>5. CASE Receiver /\ ~WriteHistory
  <2>1. /\ UNCHANGED <<messages, history>> /\ recv # "read"
        /\ \/ recv' # "read" /\ lost' = lost
           \/ recv' = "read" /\ lost' = lost \cup {received}
           \/ recv' = "read" /\ lost' = lost /\ message.kind = "notice"
    BY <1>5 DEF Receiver, Walk, Name, AppendText, Test, SetMode, SetInfo, OpenHistory, Goto, AfterNotice, files,
                recvside
  <2>2. CASE recv' # "read"
    <3>1. Written' = Written
      BY <2>1, <2>2 DEF Written, received
    <3> QED
      BY <1>1, <2>1, <2>2, <3>1
  <2>3. CASE recv' = "read"
    <3>1. message.kind = "notice" => message.peer \notin Peers
      BY <2>1, MessageTyped, PeerTypes, DeskFacts
    <3> QED
      BY <2>1, <2>3, <3>1, HistoryDropped
  <2> QED
    BY <2>2, <2>3
<1>6. CASE UNCHANGED vars
  <2>1. UNCHANGED <<messages, lost, history>> /\ Written' = Written
    BY <1>6 DEF vars, files, recvside, Written, received
  <2> QED
    BY <1>1, <2>1
<1> QED
  BY <1>2, <1>3, <1>4, <1>5, <1>6 DEF Next

\* The history of a friend or a group has a line for every message received since
\* the settings were there, in order, whether a window was open or not and
\* whatever becomes of it (handler.c:461, 548): a friend's line is the message,
\* a group's may be what the stack held.
THEOREM HistoriesComplete == Spec => []HistoryComplete
<1>1. HistoryInv => HistoryComplete
  BY DEF HistoryInv, HistoryOf, HistoryComplete, Written, JunkOf
<1> QED
  BY DeskInit, DeskNext, HistoryInit, HistoryNext, <1>1, PTL DEF Spec

=============================================================================
