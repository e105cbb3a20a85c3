----------------------------- MODULE FileTransfer -----------------------------
(***************************************************************************)
(* Files from client to client.  The sender's handler puts an offer (a     *)
(* FILE_REQUEST) into the one slot of the addressee's record, freq, and    *)
(* pushes a notice; the sender then listens on FILET_PORT with the file.   *)
(* When its user asks, the addressee fetches the sender's address from the *)
(* server, connects to FILET_PORT, reads as many bytes as the last notice  *)
(* announced, and reports FOPDONE, upon which the slot is emptied.         *)
(*                                                                         *)
(* Every user has a computer of his own, and files differ in size: a file  *)
(* is its size.  Looking a record up and using its slot are one step (what *)
(* happens to a record in between is the subject of OnlineList).           *)
(***************************************************************************)
EXTENDS Naturals, Sequences, FiniteSets

CONSTANTS
  Users, None,
  Files,      \* sizes, all of them below MAX_FILE
  Cells,      \* memory for FILE_REQUESTs
  MaxOffers   \* bound on the number of offers

\* What a FILE_REQUEST holds.
Offer == [from : Users, file : Files]

ASSUME FileTransferAssumption ==
  /\ None \notin Users \cup Cells \cup Offer
  /\ Files \subseteq Nat \ {0}
  /\ MaxOffers \in Nat

VARIABLES
  running,   \* the users whose client runs
  handler,   \* where each user's in_handler is; "none" without a record
  freq,      \* the slot of each record
  heap,      \* the FILE_REQUESTs
  job,       \* the SENDFILE that a handler and its client work on
  notices,   \* sizes pushed to a client that its receiver has not read
  client,    \* where the GTK thread is
  fresh,     \* whether a notice has been shown and not been acted upon
  g_FileSz,  \* the size in the last notice
  port,      \* the file that waits on FILET_PORT; 0 when nobody listens
  address,   \* the sender whose address the client was given
  saved,     \* what the client stored last, and the offer it was fetched for
  offers,    \* offers made so far
  leaked,    \* names of refused files, which nobody frees
  impatient, \* history: who has offered a file while another of his was out
  hasty,     \* history: who has asked for an offer unannounced, or left one unfetched
  cancelled  \* history: whose slot a cancellation has emptied

slots   == <<handler, freq, heap, job>>
clients == <<client, fresh, g_FileSz, port, address, saved>>
history == <<impatient, hasty, cancelled>>
vars    == <<running, slots, notices, clients, offers, leaked, history>>

-----------------------------------------------------------------------------
\* The offer in the slot of v, if there is one.
Pending(v) == IF freq[v] = None THEN None ELSE heap[freq[v]]

Online(u) == handler[u] # "none"

\* Nothing of u is on offer or waits to be fetched.
NoneOut(u) ==
  port[u] = 0 /\ \A v \in Users : Pending(v) # None => Pending(v).from # u

\* A client that runs and whose GTK thread is not in a request.
Free(u) == u \in running /\ client[u] = "idle" /\ handler[u] = "read"

Init ==
  /\ running = {}
  /\ handler = [u \in Users |-> "none"]
  /\ freq = [u \in Users |-> None]
  /\ heap = [c \in Cells |-> None]
  /\ job = [u \in Users |-> None]
  /\ notices = [u \in Users |-> <<>>]
  /\ client = [u \in Users |-> "idle"]
  /\ fresh = [u \in Users |-> FALSE]
  /\ g_FileSz = [u \in Users |-> 0]
  /\ port = [u \in Users |-> 0]
  /\ address = [u \in Users |-> None]
  /\ saved = [u \in Users |-> None]
  /\ offers = 0 /\ leaked = 0
  /\ impatient = {} /\ hasty = {} /\ cancelled = {}

-----------------------------------------------------------------------------
\* A client starts and logs in; its record has no offer.
Login(u) ==
  /\ handler[u] = "none" /\ u \notin running
  /\ running' = running \cup {u}
  /\ handler' = [handler EXCEPT ![u] = "read"]
  /\ fresh' = [fresh EXCEPT ![u] = FALSE]
  /\ g_FileSz' = [g_FileSz EXCEPT ![u] = 0]
  /\ saved' = [saved EXCEPT ![u] = None]
  /\ UNCHANGED <<freq, heap, job, notices, client, port, address, offers, leaked, history>>

\* sendFile writes the request and waits.
Asks(u, v, f) ==
  /\ Free(u)
  /\ offers < MaxOffers
  /\ offers' = offers + 1
  /\ client' = [client EXCEPT ![u] = "sending"]
  /\ impatient' = IF NoneOut(u) THEN impatient ELSE impatient \cup {u}
  /\ UNCHANGED <<running, notices, fresh, g_FileSz, port, address, saved, hasty, cancelled>>

\* Mutant of SendFile: the slot is not tested.
SendFile_Replaces(u, v, f) ==
  /\ Asks(u, v, f)
  /\ Online(v)
  /\ \E c \in Cells :
       /\ heap[c] = None
       /\ heap' = [heap EXCEPT ![c] = [from |-> u, file |-> f]]
       /\ freq' = [freq EXCEPT ![v] = c]
       /\ job' = [job EXCEPT ![u] = [to |-> v, file |-> f, freq |-> c]]
  /\ handler' = [handler EXCEPT ![u] = "header"]
  /\ UNCHANGED leaked

\* login_AddFileReq puts the request into the slot of the addressee.
SendFile(u, v, f) ==
  /\ Asks(u, v, f)
  /\ Online(v) /\ freq[v] = None
  /\ \E c \in Cells :
       /\ heap[c] = None
       /\ heap' = [heap EXCEPT ![c] = [from |-> u, file |-> f]]
       /\ freq' = [freq EXCEPT ![v] = c]
       /\ job' = [job EXCEPT ![u] = [to |-> v, file |-> f, freq |-> c]]
  /\ handler' = [handler EXCEPT ![u] = "header"]
  /\ UNCHANGED leaked

\* The addressee is offline, or "File transfer in progress": the request is
\* freed again, but not the copy of the name that it points to.
Refuse(u, v, f) ==
  /\ Asks(u, v, f)
  /\ \/ ~Online(v) /\ UNCHANGED leaked
     \/ Online(v) /\ freq[v] # None /\ leaked' = leaked + 1
  /\ job' = [job EXCEPT ![u] = None]
  /\ handler' = [handler EXCEPT ![u] = "refuse"]
  /\ UNCHANGED <<freq, heap>>

\* What a write to the client of v may come to.
Outcomes(v, next) == IF v \in running THEN {next} ELSE {next, "refuse"}

\* The header of the notice.  A failed write ends the request; the slot is
\* left as it is.
NotifyHeader(u) ==
  /\ handler[u] = "header"
  /\ \E next \in Outcomes(job[u].to, "notice") : handler' = [handler EXCEPT ![u] = next]
  /\ UNCHANGED <<running, freq, heap, job, notices, clients, offers, leaked, history>>

\* The notice: the size from the request packet, and the name from the
\* FILE_REQUEST, which the addressee's handler may have freed by now.
NotifyTarget(u) ==
  /\ handler[u] = "notice"
  /\ \E next \in Outcomes(job[u].to, "accept") : handler' = [handler EXCEPT ![u] = next]
  /\ notices' = IF job[u].to \in running
                THEN [notices EXCEPT ![job[u].to] = Append(@, job[u].file)]
                ELSE notices
  /\ UNCHANGED <<running, freq, heap, job, clients, offers, leaked, history>>

\* The answer.
AnswerSendFile(u) ==
  /\ handler[u] \in {"accept", "refuse"} /\ u \in running
  /\ handler' = [handler EXCEPT ![u] = "read"]
  /\ client' = [client EXCEPT ![u] = IF handler[u] = "accept" THEN "starting" ELSE "idle"]
  /\ UNCHANGED <<running, freq, heap, job, notices, fresh, g_FileSz, port, address, saved,
                 offers, leaked, history>>

\* srv_TCPStartFileTransfer: the file is read and a thread waits with it on
\* FILET_PORT.  bind fails while an earlier file waits there.  Nobody tells
\* the server when any of this fails.
StartFileTransfer(u) ==
  /\ client[u] = "starting"
  /\ client' = [client EXCEPT ![u] = "idle"]
  /\ \/ port[u] = 0 /\ port' = [port EXCEPT ![u] = job[u].file]
     \/ UNCHANGED port
  /\ UNCHANGED <<running, slots, notices, fresh, g_FileSz, address, saved, offers, leaked, history>>

-----------------------------------------------------------------------------
\* The receiver thread reads a notice and shows it.
ReceiveNotice(v) ==
  /\ v \in running
  /\ notices[v] # <<>>
  /\ notices' = [notices EXCEPT ![v] = Tail(@)]
  /\ g_FileSz' = [g_FileSz EXCEPT ![v] = Head(notices[v])]
  /\ fresh' = [fresh EXCEPT ![v] = TRUE]
  /\ UNCHANGED <<running, slots, client, port, address, saved, offers, leaked, history>>

\* The user asks for the file; protocol_GetFile tests the slot.
GetFile(v) ==
  /\ Free(v)
  /\ fresh' = [fresh EXCEPT ![v] = FALSE]
  /\ IF freq[v] = None
     THEN UNCHANGED <<client, handler, hasty>>
     ELSE /\ client' = [client EXCEPT ![v] = "getting"]
          /\ handler' = [handler EXCEPT ![v] = "address"]
          /\ hasty' = IF fresh[v] THEN hasty ELSE hasty \cup {v}
  /\ UNCHANGED <<running, freq, heap, job, notices, g_FileSz, port, address, saved,
                 offers, leaked, impatient, cancelled>>

\* Mutant of SenderAddress: the address of an earlier sender is kept.
SenderAddress_Stale(v) ==
  /\ handler[v] = "address" /\ freq[v] # None
  /\ handler' = [handler EXCEPT ![v] = "read"]
  /\ IF v \in running /\ Online(Pending(v).from)
     THEN /\ address' = [address EXCEPT ![v] = IF @ = None THEN Pending(v).from ELSE @]
          /\ client' = [client EXCEPT ![v] = "transfer"]
     ELSE /\ client' = [client EXCEPT ![v] = "idle"]
          /\ UNCHANGED address
  /\ UNCHANGED <<running, freq, heap, job, notices, fresh, g_FileSz, port, saved, offers, leaked, history>>

\* in_handler reads the slot again and answers with the sender's address.
\* With an empty slot this is a null pointer; the model stops there.
SenderAddress(v) ==
  /\ handler[v] = "address" /\ freq[v] # None
  /\ handler' = [handler EXCEPT ![v] = "read"]
  /\ IF v \in running /\ Online(Pending(v).from)
     THEN /\ address' = [address EXCEPT ![v] = Pending(v).from]
          /\ client' = [client EXCEPT ![v] = "transfer"]
     ELSE /\ client' = [client EXCEPT ![v] = "idle"]
          /\ UNCHANGED address
  /\ UNCHANGED <<running, freq, heap, job, notices, fresh, g_FileSz, port, saved, offers, leaked, history>>

\* How long a file may be after size bytes are written over its beginning.
Lengths(size) == {size} \cup {old \in Files : old > size}

\* srv_TCPFileTransfer: connect to the sender and read g_FileSz bytes.  The
\* thread at the other end serves one connection.  Nothing is stored when the
\* connection is refused or ends early, or the target cannot be opened.  The
\* target is not truncated: a longer file in its place keeps its tail.
FileTransfer(v) ==
  /\ client[v] = "transfer"
  /\ client' = [client EXCEPT ![v] = "done"]
  /\ LET s == address[v]
     IN  /\ port' = [port EXCEPT ![s] = 0]
         /\ \/ UNCHANGED saved
            \/ /\ port[s] # 0 /\ g_FileSz[v] <= port[s]
               /\ \E length \in Lengths(g_FileSz[v]) :
                    saved' = [saved EXCEPT ![v] = [file |-> port[s], from |-> s, size |-> g_FileSz[v],
                                                  length |-> length, offer |-> Pending(v)]]
  /\ UNCHANGED <<running, slots, notices, fresh, g_FileSz, address, offers, leaked, history>>

\* Mutant of Removed: the requests are not freed.
Removed_Leaks(us) ==
  /\ freq' = [v \in Users |-> IF v \in us THEN None ELSE freq[v]]
  /\ UNCHANGED heap

\* The slots of a set of users are emptied and the requests freed.
Removed(us) ==
  /\ freq' = [v \in Users |-> IF v \in us THEN None ELSE freq[v]]
  /\ heap' = [c \in Cells |-> IF \E v \in us : freq[v] = c THEN None ELSE heap[c]]

\* FOPDONE, whatever the transfer came to: login_RemoveFileReq.
FopDone(v) ==
  /\ client[v] = "done" /\ handler[v] = "read"
  /\ client' = [client EXCEPT ![v] = "idle"]
  /\ Removed({v})
  /\ UNCHANGED <<running, handler, job, notices, fresh, g_FileSz, port, address, saved,
                 offers, leaked, history>>

\* FOPDONE with 0xdeadbeef empties the slot of the named user, and then that
\* of the caller too.  (The push to v has no branch in the client.)
Cancel(u, v) ==
  /\ Free(u)
  /\ Removed({u, v})
  /\ cancelled' = cancelled \cup {w \in {u, v} : freq[w] # None}
  /\ UNCHANGED <<running, handler, job, notices, clients, offers, leaked, impatient, hasty>>

-----------------------------------------------------------------------------
\* The client ends, and with it the listener on FILET_PORT.
Exit(u) ==
  /\ u \in running
  /\ running' = running \ {u}
  /\ client' = [client EXCEPT ![u] = "idle"]
  /\ port' = [port EXCEPT ![u] = 0]
  /\ notices' = [notices EXCEPT ![u] = <<>>]
  /\ UNCHANGED <<slots, fresh, g_FileSz, address, saved, offers, leaked, history>>

\* login_DisconnectClient frees the record and the request in its slot.
Disconnect(u) ==
  /\ u \notin running
  /\ handler[u] \in {"read", "accept", "refuse"}
  /\ handler' = [handler EXCEPT ![u] = "none"]
  /\ Removed({u})
  /\ hasty' = IF freq[u] = None THEN hasty ELSE hasty \cup {u}
  /\ UNCHANGED <<running, job, notices, clients, offers, leaked, impatient, cancelled>>

Next ==
  \/ \E u, v \in Users, f \in Files : SendFile(u, v, f) \/ Refuse(u, v, f)
  \/ \E u \in Users :
       \/ Login(u) \/ NotifyHeader(u) \/ NotifyTarget(u) \/ AnswerSendFile(u)
       \/ StartFileTransfer(u) \/ ReceiveNotice(u) \/ GetFile(u) \/ SenderAddress(u)
       \/ FileTransfer(u) \/ FopDone(u) \/ Exit(u) \/ Disconnect(u)
  \/ \E u, v \in Users : Cancel(u, v)

Spec == Init /\ [][Next]_vars

-----------------------------------------------------------------------------
\* What a client may have stored.
Copies == [file : Files, from : Users, size : Files \cup {0}, length : Files \cup {0},
           offer : Offer \cup {None}]

\* Every variable stays within its type.
TypeOK ==
  /\ running \subseteq Users
  /\ handler \in [Users -> {"none", "read", "header", "notice", "accept", "refuse", "address"}]
  /\ freq \in [Users -> Cells \cup {None}]
  /\ heap \in [Cells -> Offer \cup {None}]
  /\ job \in [Users -> [to : Users, file : Files, freq : Cells] \cup {None}]
  /\ notices \in [Users -> Seq(Files)]
  /\ client \in [Users -> {"idle", "sending", "starting", "getting", "transfer", "done"}]
  /\ fresh \in [Users -> BOOLEAN]
  /\ g_FileSz \in [Users -> Files \cup {0}]
  /\ port \in [Users -> Files \cup {0}]
  /\ address \in [Users -> Users \cup {None}]
  /\ saved \in [Users -> Copies \cup {None}]
  /\ offers \in Nat /\ leaked \in Nat
  /\ impatient \subseteq Users /\ hasty \subseteq Users /\ cancelled \subseteq Users

\* Every FILE_REQUEST in memory is in the slot of one record, and every slot
\* that is not empty holds one: no request leaks, none is freed twice.
OneOwner ==
  /\ \A c \in Cells : heap[c] # None => \E v \in Users : freq[v] = c
  /\ \A v \in Users : freq[v] # None => Pending(v) # None /\ Online(v)
  /\ \A v, w \in Users : freq[v] = freq[w] /\ freq[v] # None => v = w

\* An offer is never replaced by another; it stays until its addressee has
\* tried to fetch it or has left, or a FOPDONE cancels it, however many others
\* want to send him files.
OfferEnds ==
  [][\A v \in Users :
       freq[v] # None /\ freq'[v] # freq[v] =>
         /\ freq'[v] = None
         /\ client[v] = "done" \/ v \notin running \/ \E u \in Users : Cancel(u, v) \/ Cancel(v, u)]_vars

\* While a client fetches a file, its slot still holds the offer that it was
\* sent to fetch, and in_handler's second look at the slot finds it there,
\* unless a cancellation has emptied the slot.
OfferHeld ==
  \A v \in Users \ cancelled :
    /\ handler[v] = "address" => freq[v] # None
    /\ client[v] \in {"transfer", "done"} => Pending(v) # None /\ Pending(v).from = address[v]

\* Users whose slot changes only by their own FOPDONE, after they have fetched
\* what they had the notice of.
Orderly == Users \ (hasty \cup cancelled)

\* A file is the same one from the offer to the copy, whatever other users do:
\* what a handler announces to an orderly user is what its client offered, and
\* what he stores from a patient sender is that sender's, is the file that the
\* offer named, and is all of it (before the tail of a longer file, if the
\* copy was written over one).
RightFile ==
  /\ \A u \in Users :
       handler[u] \in {"header", "notice"} /\ job[u].to \in Orderly =>
         heap[job[u].freq] = [from |-> u, file |-> job[u].file]
  /\ \A v \in Orderly :
       saved[v] # None /\ saved[v].from \notin impatient =>
         /\ saved[v].offer = [from |-> saved[v].from, file |-> saved[v].file]
         /\ saved[v].size = saved[v].file /\ saved[v].length >= saved[v].file
=============================================================================
