-------------------------------- MODULE Desktop --------------------------------
(***************************************************************************)
(* The two threads of the window client and what they share: the lists of  *)
(* open windows, the notification slot, the settings and the history       *)
(* files.                                                                  *)
(*                                                                         *)
(* The receiver thread (client_msg_handler) starts before the login is     *)
(* answered.  For a message it walks the list of open windows, asks for    *)
(* the sender's name, appends the text to the window it found or leaves a  *)
(* notice in g_notify, and appends to the history file.  The GTK thread    *)
(* opens and closes windows, sends, and empties the slot from a timer      *)
(* (notifyWatcher).  Callbacks of events hold the GDK lock, the timer does *)
(* not, and the receiver takes it only around appendText: neither the      *)
(* lists nor the slot has a lock.                                          *)
(*                                                                         *)
(* A window, its chat_info and its node in the list have one number, and   *)
(* the numbers are in the order of the list: nodes are appended.  What is  *)
(* read through a freed node or written to a destroyed widget is           *)
(* undefined: the client crashes, or goes on.                              *)
(***************************************************************************)
EXTENDS Naturals, Sequences

CONSTANTS
  Users,        \* uids that send messages
  Groups,       \* group ids
  MaxMessages,  \* bound: messages received
  MaxWindows,   \* bound: windows opened
  MaxSends,     \* bound: messages sent
  Nobody        \* no peer: of a notice, which is not followed, and of no window

ASSUME DesktopAssumption ==
  /\ Users \cap Groups = {} /\ Nobody \notin Users \cup Groups
  /\ MaxMessages \in Nat /\ MaxWindows \in Nat /\ MaxSends \in Nat

Peers == Users \cup Groups

Kinds == {"chat", "group", "notice"}

\* Who a message of a kind comes from.
Peer(kind) ==
  CASE kind = "chat" -> Users [] kind = "group" -> Groups [] kind = "notice" -> {Nobody}

VARIABLES
  gtk,        \* where the GTK thread is
  windows,    \* per window: its peer, Nobody while it is not in a list
  opened,     \* windows opened so far
  since,      \* per window: messages received before it was opened
  text,       \* per window: what has been appended to its text
  sending,    \* the window whose message the GTK thread waits to have answered
  sent,       \* messages sent so far
  recv,       \* where the receiver thread is
  messages,   \* what it has received, [kind, peer], the last one in hand
  cursor,     \* temp_win: the node the walk has come to, 0 for NULL
  found,      \* the window the walk has found, 0 for none
  mode,       \* g_notify.Mode: the message that it was written for, 0 for -1
  uinfo,      \* g_notify.uinfo: the message it was made for, 0 for NULL
  notices,    \* what notify() has shown, mode and uinfo
  history,    \* per peer: the lines of the history file
  lost,       \* messages whose history file could not be opened
  crashed,    \* what the client has crashed over, "no" while it runs
  raced       \* ghosts: the slot was used by both threads at once ("slot"),
              \* a node freed under the walk ("walk")

gtkside  == <<windows, opened, since, sending, sent>>
recvside == <<messages, cursor, found>>
slot     == <<mode, uinfo, notices>>
files    == <<history, lost>>
vars     == <<gtk, gtkside, text, recv, recvside, slot, files, crashed, raced>>

Own   == 0    \* a line of one's own, in a text or a file
Junk  == MaxMessages + 1

received == Len(messages)
message  == messages[received]

Open(id) == windows[id] # Nobody

\* The nodes of one of the two lists.
List(kind) == {id \in 1 .. MaxWindows : windows[id] \in Peer(kind)}

\* The node behind a node, 0 for NULL; the first is behind 0.
NodeBehind(kind, id) ==
  LET behind == {n \in List(kind) : n > id}
  IN  IF behind = {} THEN 0 ELSE CHOOSE n \in behind : \A m \in behind : n <= m

Running == crashed = "no"

Init ==
  /\ gtk = "form"
  /\ windows = [id \in 1 .. MaxWindows |-> Nobody] /\ opened = 0
  /\ since = [id \in 1 .. MaxWindows |-> 0]
  /\ text = [id \in 1 .. MaxWindows |-> <<>>]
  /\ sending = 0 /\ sent = 0
  /\ recv = "read" /\ messages = <<>> /\ cursor = 0 /\ found = 0
  /\ mode = 0 /\ uinfo = 0 /\ notices = <<>>
  /\ history = [p \in Peers |-> <<>>] /\ lost = {}
  /\ crashed = "no" /\ raced = {}

-----------------------------------------------------------------------------
\* The GTK thread.

\* on_login_btn_clicked, once the login is answered 0: init_settings, which says
\* where the history is, and the main window.
InitSettings ==
  /\ gtk = "form" /\ gtk' = "loop"
  /\ UNCHANGED <<gtkside, text, recv, recvside, slot, files, crashed, raced>>

\* What both kinds of window have in common: one window per peer, a node at the
\* end of the list.
Insert(p) ==
  /\ gtk = "loop" /\ opened < MaxWindows
  /\ \A id \in 1 .. MaxWindows : windows[id] # p
  /\ opened' = opened + 1
  /\ windows' = [windows EXCEPT ![opened'] = p]
  /\ since' = [since EXCEPT ![opened'] = received]
  /\ UNCHANGED <<gtk, text, sending, sent, recv, recvside, slot, files, crashed, raced>>

OpenChatWindow  == \E u \in Users : Insert(u)
OpenGroupWindow == \E g \in Groups : Insert(g)

\* on_chat_close_btn_clicked, or the window manager: the window is destroyed
\* with its text, and its handler takes the node off the list and frees it.
Remove(id) ==
  /\ gtk = "loop" /\ Open(id)
  /\ windows' = [windows EXCEPT ![id] = Nobody]
  /\ text' = [text EXCEPT ![id] = <<>>] /\ since' = [since EXCEPT ![id] = 0]
  /\ UNCHANGED <<gtk, opened, sending, sent, recv, recvside, slot, files, crashed, raced>>

CloseChatWindow  == \E id \in List("chat") : Remove(id)
CloseGroupWindow == \E id \in List("group") : Remove(id)

\* The request is written and the answer waited for with the GDK lock held.
Send(id) ==
  /\ gtk = "loop" /\ Open(id) /\ sent < MaxSends
  /\ gtk' = "sending" /\ sending' = id /\ sent' = sent + 1
  /\ UNCHANGED <<windows, opened, since, text, recv, recvside, slot, files, crashed, raced>>

\* Answered 0: the line goes into the window, and into the history.
Answered ==
  /\ gtk = "sending" /\ gtk' = "loop"
  /\ \/ /\ text' = [text EXCEPT ![sending] = Append(@, Own)]
        /\ history' = [history EXCEPT ![windows[sending]] = Append(@, Own)]
     \/ UNCHANGED <<text, history>>
  /\ sending' = 0
  /\ UNCHANGED <<windows, opened, since, sent, recv, recvside, slot, lost, crashed, raced>>

ChatAnswered  == sending \in List("chat") /\ Answered
GroupAnswered == sending \in List("group") /\ Answered

\* Mutant: the watcher tests the pointer, not the mode.
WatcherTest_Pointer ==
  /\ gtk = "loop" /\ uinfo # 0
  /\ gtk' = "notify"
  /\ UNCHANGED <<gtkside, text, recv, recvside, slot, files, crashed, raced>>

\* notifyWatcher, step by step: the test, notify(), the two assignments.
WatcherTest ==
  /\ gtk = "loop" /\ mode # 0
  /\ gtk' = "notify"
  /\ raced' = IF recv \in {"mode", "info"} THEN raced \cup {"slot"} ELSE raced
  /\ UNCHANGED <<gtkside, text, recv, recvside, slot, files, crashed>>

\* notify() prints from uinfo, and frees it.
Notify ==
  /\ gtk = "notify"
  /\ IF uinfo = 0
     THEN /\ crashed' = "notify"
          /\ UNCHANGED <<gtk, notices>>
     ELSE /\ notices' = Append(notices, <<mode, uinfo>>)
          /\ gtk' = "clearmode"
          /\ UNCHANGED crashed
  /\ UNCHANGED <<gtkside, text, recv, recvside, mode, uinfo, files, raced>>

ClearMode ==
  /\ gtk = "clearmode" /\ gtk' = "clearinfo"
  /\ mode' = 0
  /\ UNCHANGED <<gtkside, text, recv, recvside, uinfo, notices, files, crashed, raced>>

\* Mutant: the pointer to what notify() has freed is kept.
ClearInfo_Skipped ==
  /\ gtk = "clearinfo" /\ gtk' = "loop"
  /\ UNCHANGED <<gtkside, text, recv, recvside, slot, files, crashed, raced>>

ClearInfo ==
  /\ gtk = "clearinfo" /\ gtk' = "loop"
  /\ uinfo' = 0
  /\ UNCHANGED <<gtkside, text, recv, recvside, mode, notices, files, crashed, raced>>

-----------------------------------------------------------------------------
\* The receiver thread.

Goto(label) == recv' = label

\* A message, a group message, or news that only make a notice (a login, a
\* logout, a file).
Receive(kind, p) ==
  /\ recv = "read" /\ received < MaxMessages
  /\ messages' = Append(messages, [kind |-> kind, peer |-> p])
  /\ found' = 0
  /\ cursor' = IF kind = "notice" THEN 0 ELSE NodeBehind(kind, 0)
  /\ Goto(IF kind = "notice" THEN "name" ELSE "walk")
  /\ UNCHANGED <<gtk, gtkside, text, slot, files, crashed, raced>>

\* Mutant: only the first node is looked at.
Walk_FirstOnly ==
  /\ recv = "walk"
  /\ found' = IF cursor # 0 /\ windows[cursor] = message.peer THEN cursor ELSE 0
  /\ cursor' = 0
  /\ Goto(IF found' = 0 THEN "test" ELSE "name")
  /\ UNCHANGED <<gtk, gtkside, text, messages, slot, files, crashed, raced>>

\* One turn of the loop over the list of open windows.
Walk ==
  /\ recv = "walk"
  /\ \/ /\ cursor = 0
        /\ Goto(IF message.kind = "group" THEN "test" ELSE "name")
        /\ UNCHANGED <<cursor, found, crashed, raced>>
     \/ /\ cursor # 0 /\ Open(cursor)
        /\ IF windows[cursor] = message.peer
           THEN found' = cursor /\ cursor' = 0 /\ Goto("name")
           ELSE cursor' = NodeBehind(message.kind, cursor) /\ UNCHANGED <<found, recv>>
        /\ UNCHANGED <<crashed, raced>>
     \/ /\ cursor # 0 /\ ~Open(cursor)
        /\ raced' = raced \cup {"walk"}
        /\ \/ crashed' = "walk" /\ UNCHANGED cursor
           \/ cursor' \in {0} \cup List(message.kind) /\ UNCHANGED crashed
        /\ UNCHANGED <<found, recv>>
  /\ UNCHANGED <<gtk, gtkside, text, messages, slot, files>>

\* QueryUserName: the GTK thread goes on meanwhile.
Name ==
  /\ recv = "name"
  /\ Goto(IF found # 0 THEN "append" ELSE "test")
  /\ UNCHANGED <<gtk, gtkside, text, recvside, slot, files, crashed, raced>>

\* gdk_threads_enter, appendText, gdk_threads_leave.  The window may have been
\* closed since it was found.
AppendText ==
  /\ recv = "append"
  /\ gtk \notin {"form", "sending"}
  /\ \/ /\ Open(found)
        /\ text' = [text EXCEPT ![found] = Append(@, received)]
        /\ Goto("fopen")
        /\ UNCHANGED crashed
     \/ /\ ~Open(found)
        /\ \/ crashed' = "append" /\ UNCHANGED recv
           \/ Goto("fopen") /\ UNCHANGED crashed
        /\ UNCHANGED text
  /\ UNCHANGED <<gtk, gtkside, recvside, slot, files, raced>>

AfterNotice == IF message.kind = "notice" THEN "read" ELSE "fopen"

InWatcher == gtk \in {"notify", "clearmode", "clearinfo"}

\* addnotify, step by step: a notice that finds the slot taken is dropped.
Test ==
  /\ recv = "test"
  /\ Goto(IF mode # 0 THEN AfterNotice ELSE "mode")
  /\ UNCHANGED <<gtk, gtkside, text, recvside, slot, files, crashed, raced>>

SetMode ==
  /\ recv = "mode"
  /\ mode' = received
  /\ raced' = IF InWatcher THEN raced \cup {"slot"} ELSE raced
  /\ Goto("info")
  /\ UNCHANGED <<gtk, gtkside, text, recvside, uinfo, notices, files, crashed>>

SetInfo ==
  /\ recv = "info"
  /\ uinfo' = received
  /\ raced' = IF InWatcher THEN raced \cup {"slot"} ELSE raced
  /\ Goto(AfterNotice)
  /\ UNCHANGED <<gtk, gtkside, text, recvside, mode, notices, files, crashed>>

\* addChatHistory and addGroupHistory: fopen with what the settings are now,
\* a request for the name, and the line.
OpenHistory ==
  /\ recv = "fopen"
  /\ \/ /\ gtk = "form"
        /\ lost' = lost \cup {received} /\ found' = 0
        /\ Goto("read")
     \/ /\ gtk # "form"
        /\ Goto("write")
        /\ UNCHANGED <<lost, found>>
  /\ UNCHANGED <<gtk, gtkside, text, messages, cursor, slot, history, crashed, raced>>

\* Mutant: a group message without a window is not written.
WriteHistory_FoundOnly ==
  /\ recv = "write"
  /\ history' = IF found = 0 THEN history
                ELSE [history EXCEPT ![message.peer] = Append(@, received)]
  /\ Goto("read")
  /\ UNCHANGED <<gtk, gtkside, text, recvside, slot, lost, crashed, raced>>

\* What is written of a group message without a window was never set.
WriteHistory ==
  /\ recv = "write"
  /\ LET line == IF message.kind = "group" /\ found = 0 THEN Junk ELSE received
     IN  history' = [history EXCEPT ![message.peer] = Append(@, line)]
  /\ found' = 0
  /\ Goto("read")
  /\ UNCHANGED <<gtk, gtkside, text, messages, cursor, slot, lost, crashed, raced>>

-----------------------------------------------------------------------------
Watcher == WatcherTest \/ Notify \/ ClearMode \/ ClearInfo

Gtk ==
  \/ InitSettings \/ Watcher
  \/ OpenChatWindow \/ OpenGroupWindow \/ CloseChatWindow \/ CloseGroupWindow
  \/ \E id \in 1 .. MaxWindows : Send(id)
  \/ ChatAnswered \/ GroupAnswered

Receiver ==
  \/ Walk \/ Name \/ AppendText \/ Test \/ SetMode \/ SetInfo
  \/ OpenHistory \/ WriteHistory

Next ==
  /\ Running
  /\ \/ Gtk \/ Receiver
     \/ \E kind \in Kinds : \E p \in Peer(kind) : Receive(kind, p)

\* Both threads run, the login and what is sent are answered, and the timer
\* fires; the user need not do anything.
Fairness ==
  /\ WF_vars(Running /\ Receiver)
  /\ WF_vars(Running /\ (InitSettings \/ ChatAnswered \/ GroupAnswered))
  /\ SF_vars(Running /\ Watcher)

Spec == Init /\ [][Next]_vars /\ Fairness

-----------------------------------------------------------------------------
ListsOK ==
  /\ gtk \in {"form", "loop", "sending", "notify", "clearmode", "clearinfo"}
  /\ windows \in [1 .. MaxWindows -> Peers \cup {Nobody}]
  /\ \A v, w \in 1 .. MaxWindows : windows[v] = windows[w] /\ Open(v) => v = w
  /\ opened \in 0 .. MaxWindows
  /\ since \in [1 .. MaxWindows -> 0 .. MaxMessages]
  /\ sending \in 0 .. MaxWindows /\ sent \in 0 .. MaxSends

HandOK ==
  /\ recv \in {"read", "walk", "name", "append", "test", "mode", "info", "fopen", "write"}
  /\ messages \in Seq([kind : Kinds, peer : Peers \cup {Nobody}]) /\ received <= MaxMessages
  /\ \A n \in 1 .. received : messages[n].peer \in Peer(messages[n].kind)
  /\ recv # "read" => received > 0
  /\ cursor \in 0 .. MaxWindows /\ found \in 0 .. MaxWindows

SlotOK ==
  /\ mode \in 0 .. MaxMessages
  /\ uinfo \in 0 .. MaxMessages
  /\ notices \in Seq((1 .. MaxMessages) \X (1 .. MaxMessages))

LinesOK ==
  /\ text \in [1 .. MaxWindows -> Seq(0 .. MaxMessages)]
  /\ history \in [Peers -> Seq(0 .. Junk)]
  /\ lost \subseteq 1 .. MaxMessages

RestOK ==
  /\ crashed \in {"no", "notify", "walk", "append"}
  /\ raced \subseteq {"slot", "walk"}

\* Every variable keeps its type, and no peer has two windows.
TypeOK == ListsOK /\ HandOK /\ SlotOK /\ LinesOK /\ RestOK

\* What is shown from the slot is one notice, its mode with its own data, and
\* nothing is shown (nor freed) a second time, race or no race.
NoticeIntact ==
  \A i, j \in 1 .. Len(notices) :
    /\ notices[i][1] = notices[i][2]
    /\ i # j => notices[i] # notices[j]

\* The NULL pointer that brings the client down in notify() takes both threads
\* in the slot at once; a timer that always finds the receiver outside
\* addnotify never meets it.
CrashOnlyInRace == crashed = "notify" => "slot" \in raced

\* What the order of the assignments makes of a slot without a lock.
SlotKeepsNotices == NoticeIntact /\ CrashOnlyInRace

\* The messages of peer p among the first to the last.
From(p, first, last) == {n \in 1 .. last : n >= first /\ messages[n].peer = p}

\* Lines that are one's own, but for one of each message of a set, in order;
\* some may be junk.
Shows(lines, set, junk) ==
  \E at \in [set -> 1 .. Len(lines)] :
    /\ \A m, n \in set : m < n => at[m] < at[n]
    /\ \A i \in 1 .. Len(lines) : lines[i] = Own <=> \A n \in set : at[n] # i
    /\ \A n \in set : lines[at[n]] \in {n} \cup junk

\* A window shows every message of its peer since it was opened, in order (the
\* one in the receiver's hand at that moment may be missing), whatever other
\* windows are opened and closed, unless a node was freed under the walk.
WindowShowsAll ==
  recv = "read" /\ "walk" \notin raced =>
    \A w \in 1 .. MaxWindows : Open(w) =>
      \E first \in {since[w], since[w] + 1} :
        Shows(text[w], From(windows[w], first, received), {})

\* The history of a peer has a line for every message since the settings were
\* there, in order, closed windows or not; a group's line may be junk, a
\* friend's may not.
HistoryComplete ==
  recv = "read" =>
    \A p \in Peers :
      Shows(history[p], From(p, 1, received) \ lost, IF p \in Groups THEN {Junk} ELSE {})

\* A notice that has the slot is shown and the slot is free again.
NoticeShown == mode # 0 ~> mode = 0 \/ ~Running
=============================================================================
