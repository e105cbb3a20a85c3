-------------------------- MODULE FileTransferProofs --------------------------
(***************************************************************************)
(* Proofs about FileTransfer, for all users, files and cells: types, one   *)
(* owner per FILE_REQUEST, no offer replaced; the slot of a client that    *)
(* fetches a file holds the offer it was sent to fetch, unless it has been *)
(* cancelled; and between a patient sender and an orderly addressee a file *)
(* is the same from the offer to the copy, whatever the others do.         *)
(***************************************************************************)
EXTENDS FileTransfer, TLAPS

Jobs == [to : Users, file : Files, freq : Cells]

\* A handler that notifies or accepts, and a client that starts to listen,
\* have a job; a client that connects has an address.
WorkInv ==
  \A u \in Users :
    /\ handler[u] \in {"header", "notice", "accept"} => job[u] \in Jobs
    /\ client[u] = "starting" => job[u] \in Jobs
    /\ client[u] = "transfer" => address[u] \in Users

IInv == TypeOK /\ OneOwner /\ WorkInv

LEMMA InitIInv == Init => IInv
BY FileTransferAssumption DEF Init, IInv, TypeOK, OneOwner, WorkInv, Pending, Online

-----------------------------------------------------------------------------
\* What emptying slots does to the requests.
LEMMA RemovedFacts ==
  ASSUME TypeOK, OneOwner, NEW us \in SUBSET Users, Removed(us)
  PROVE  /\ freq' \in [Users -> Cells \cup {None}]
         /\ heap' \in [Cells -> Offer \cup {None}]
         /\ \A v \in Users : freq'[v] = IF v \in us THEN None ELSE freq[v]
         /\ \A v \in Users : freq'[v] # None => heap'[freq[v]] = heap[freq[v]]
         /\ \A c \in Cells : heap'[c] # None => \E v \in Users : freq'[v] = c
<1>1. /\ freq' = [v \in Users |-> IF v \in us THEN None ELSE freq[v]]
      /\ heap' = [c \in Cells |-> IF \E v \in us : freq[v] = c THEN None ELSE heap[c]]
  BY DEF Removed
<1>2. /\ freq' \in [Users -> Cells \cup {None}]
      /\ heap' \in [Cells -> Offer \cup {None}]
      /\ \A v \in Users : freq'[v] = IF v \in us THEN None ELSE freq[v]
  BY <1>1 DEF TypeOK
<1>3. ASSUME NEW v \in Users, freq'[v] # None
      PROVE  heap'[freq[v]] = heap[freq[v]]
  <2>1. v \notin us /\ freq[v] # None /\ freq[v] \in Cells
    BY <1>2, <1>3 DEF TypeOK
  <2>2. ~ \E w \in us : freq[w] = freq[v]
    BY <2>1 DEF OneOwner
  <2> QED
    BY <1>1, <2>1, <2>2
<1>4. ASSUME NEW c \in Cells, heap'[c] # None
      PROVE  \E v \in Users : freq'[v] = c
  <2>1. heap[c] # None /\ ~ \E v \in us : freq[v] = c
    BY <1>1, <1>4
  <2>2. PICK v \in Users : freq[v] = c
    BY <2>1 DEF OneOwner
  <2> QED
    BY <1>2, <2>1, <2>2
<1> QED
  BY <1>2, <1>3, <1>4

\* Steps that leave the slots alone, or only empty some, leave every request
\* with one owner.
LEMMA KeptOwner ==
  ASSUME TypeOK, OneOwner, UNCHANGED <<freq, heap>>,
         \A v \in Users : handler[v] # "none" => handler'[v] # "none"
  PROVE  OneOwner'
BY DEF OneOwner, Online, Pending

LEMMA RemovedOwner ==
  ASSUME TypeOK, OneOwner, NEW us \in SUBSET Users, Removed(us),
         \A v \in Users \ us : handler[v] # "none" => handler'[v] # "none"
  PROVE  OneOwner'
<1>1. \A v \in Users : freq'[v] # None =>
          /\ v \notin us /\ freq'[v] = freq[v] /\ Pending(v)' = Pending(v)
  BY RemovedFacts DEF Pending
<1> QED
  BY <1>1, RemovedFacts DEF OneOwner, Online

-----------------------------------------------------------------------------
\* The sender's side.
LEMMA LoginStep ==
  ASSUME IInv, NEW u \in Users, Login(u) PROVE IInv'
<1> USE DEF IInv, Login, history
<1>1. TypeOK'
  BY DEF TypeOK
<1>2. OneOwner'
  BY KeptOwner DEF TypeOK
<1>3. WorkInv'
  BY DEF TypeOK, WorkInv
<1> QED
  BY <1>1, <1>2, <1>3

LEMMA SendFileStep ==
  ASSUME IInv, NEW u \in Users, NEW v \in Users, NEW f \in Files, SendFile(u, v, f)
  PROVE  IInv'
<1> PICK c \in Cells :
       /\ heap[c] = None
       /\ heap' = [heap EXCEPT ![c] = [from |-> u, file |-> f]]
       /\ freq' = [freq EXCEPT ![v] = c]
       /\ job' = [job EXCEPT ![u] = [to |-> v, file |-> f, freq |-> c]]
  BY DEF SendFile
<1>0. [from |-> u, file |-> f] \in Offer /\ [from |-> u, file |-> f] # None
  BY FileTransferAssumption DEF Offer
<1>1. /\ handler' = [handler EXCEPT ![u] = "header"]
      /\ client' = [client EXCEPT ![u] = "sending"]
      /\ offers' = offers + 1
      /\ Online(v) /\ freq[v] = None /\ c # None
      /\ impatient' \in {impatient, impatient \cup {u}}
      /\ UNCHANGED <<running, notices, fresh, g_FileSz, port, address, saved, leaked, hasty, cancelled>>
  BY FileTransferAssumption DEF SendFile, Asks
<1>2. TypeOK'
  BY <1>0, <1>1 DEF IInv, TypeOK
<1>3. \A w \in Users : freq'[w] = IF w = v THEN c ELSE freq[w]
  BY DEF IInv, TypeOK
<1>4. \A w \in Users : freq[w] # c
  BY <1>1 DEF IInv, TypeOK, OneOwner, Pending
<1>5. \A d \in Cells : heap'[d] = IF d = c THEN [from |-> u, file |-> f] ELSE heap[d]
  BY DEF IInv, TypeOK
<1>6. OneOwner'
  <2>1. ASSUME NEW d \in Cells, heap'[d] # None
        PROVE  \E w \in Users : freq'[w] = d
    <3>1. CASE d = c
      BY <1>3, <3>1
    <3>2. CASE d # c
      <4>1. PICK w \in Users : freq[w] = d
        BY <1>5, <2>1, <3>2 DEF IInv, OneOwner
      <4>2. d # None
        BY FileTransferAssumption
      <4> QED
        BY <1>1, <1>3, <4>1, <4>2
    <3> QED
      BY <3>1, <3>2
  <2>2. \A w \in Users : freq'[w] # None => heap'[freq'[w]] # None
    BY <1>0, <1>3, <1>4, <1>5 DEF IInv, TypeOK, OneOwner, Pending
  <2>3. \A w \in Users : freq'[w] # None => Online(w)'
    BY <1>1, <1>3 DEF IInv, TypeOK, OneOwner, Online
  <2>4. \A w, x \in Users : freq'[w] = freq'[x] /\ freq'[w] # None => w = x
    BY <1>3, <1>4 DEF IInv, TypeOK, OneOwner
  <2> QED
    BY <2>1, <2>2, <2>3, <2>4 DEF OneOwner, Pending
<1>7. WorkInv'
  BY <1>1 DEF IInv, TypeOK, WorkInv, Jobs
<1> QED
  BY <1>2, <1>6, <1>7 DEF IInv

LEMMA RefuseStep ==
  ASSUME IInv, NEW u \in Users, NEW v \in Users, NEW f \in Files, Refuse(u, v, f)
  PROVE  IInv'
<1> USE DEF IInv, Refuse, Asks, history
<1>1. TypeOK'
  BY DEF TypeOK
<1>2. OneOwner'
  BY KeptOwner DEF TypeOK
<1>3. WorkInv'
  BY DEF TypeOK, WorkInv, Free
<1> QED
  BY <1>1, <1>2, <1>3

LEMMA NotifyHeaderStep ==
  ASSUME IInv, NEW u \in Users, NotifyHeader(u) PROVE IInv'
<1> USE DEF IInv, NotifyHeader, clients, history
<1>0. PICK next \in {"notice", "refuse"} : handler' = [handler EXCEPT ![u] = next]
  BY DEF Outcomes
<1>1. TypeOK'
  BY <1>0 DEF TypeOK
<1>2. OneOwner'
  BY <1>0, KeptOwner DEF TypeOK
<1>3. WorkInv'
  BY <1>0 DEF TypeOK, WorkInv
<1> QED
  BY <1>1, <1>2, <1>3

LEMMA NotifyTargetStep ==
  ASSUME IInv, NEW u \in Users, NotifyTarget(u) PROVE IInv'
<1> USE DEF IInv, NotifyTarget, clients, history
<1>0. PICK next \in {"accept", "refuse"} : handler' = [handler EXCEPT ![u] = next]
  BY DEF Outcomes
<1>1. job[u] \in Jobs
  BY DEF WorkInv
<1>2. notices' \in [Users -> Seq(Files)]
  <2>1. Append(notices[job[u].to], job[u].file) \in Seq(Files)
    BY <1>1 DEF TypeOK, Jobs
  <2> QED
    BY <1>1, <2>1 DEF TypeOK, Jobs
<1>3. TypeOK'
  BY <1>0, <1>2 DEF TypeOK
<1>4. OneOwner'
  BY <1>0, KeptOwner DEF TypeOK
<1>5. WorkInv'
  BY <1>0 DEF TypeOK, WorkInv
<1> QED
  BY <1>3, <1>4, <1>5

LEMMA AnswerSendFileStep ==
  ASSUME IInv, NEW u \in Users, AnswerSendFile(u) PROVE IInv'
<1> USE DEF IInv, AnswerSendFile, history
<1>1. TypeOK'
  BY DEF TypeOK
<1>2. OneOwner'
  BY KeptOwner DEF TypeOK
<1>3. WorkInv'
  BY DEF TypeOK, WorkInv
<1> QED
  BY <1>1, <1>2, <1>3

LEMMA StartFileTransferStep ==
  ASSUME IInv, NEW u \in Users, StartFileTransfer(u) PROVE IInv'
<1> USE DEF IInv, StartFileTransfer, slots, history
<1>1. job[u] \in Jobs
  BY DEF WorkInv
<1>2. TypeOK'
  BY <1>1 DEF TypeOK, Jobs
<1>3. OneOwner'
  BY KeptOwner DEF TypeOK
<1>4. WorkInv'
  BY DEF TypeOK, WorkInv
<1> QED
  BY <1>2, <1>3, <1>4

-----------------------------------------------------------------------------
\* The addressee's side.
LEMMA ReceiveNoticeStep ==
  ASSUME IInv, NEW v \in Users, ReceiveNotice(v) PROVE IInv'
<1> USE DEF IInv, ReceiveNotice, slots, history
<1>1. Tail(notices[v]) \in Seq(Files) /\ Head(notices[v]) \in Files
  BY DEF TypeOK
<1>2. TypeOK'
  BY <1>1 DEF TypeOK
<1>3. OneOwner'
  BY KeptOwner DEF TypeOK
<1>4. WorkInv'
  BY DEF TypeOK, WorkInv
<1> QED
  BY <1>2, <1>3, <1>4

LEMMA GetFileStep ==
  ASSUME IInv, NEW v \in Users, GetFile(v) PROVE IInv'
<1> USE DEF IInv, GetFile, history
<1>0. hasty' \subseteq Users
  BY DEF TypeOK
<1>1. TypeOK'
  <2>1. CASE freq[v] = None
    BY <1>0, <2>1 DEF TypeOK
  <2>2. CASE freq[v] # None
    BY <1>0, <2>2 DEF TypeOK
  <2> QED
    BY <2>1, <2>2
<1>2. OneOwner'
  BY KeptOwner DEF TypeOK
<1>3. WorkInv'
  BY DEF TypeOK, WorkInv
<1> QED
  BY <1>1, <1>2, <1>3

LEMMA SenderAddressStep ==
  ASSUME IInv, NEW v \in Users, SenderAddress(v) PROVE IInv'
<1> USE DEF IInv, SenderAddress, history
<1>1. Pending(v) \in Offer /\ Pending(v).from \in Users
  BY DEF TypeOK, OneOwner, Pending, Offer
<1>2. TypeOK'
  BY <1>1 DEF TypeOK
<1>3. OneOwner'
  BY KeptOwner DEF TypeOK
<1>4. WorkInv'
  BY <1>1 DEF TypeOK, WorkInv
<1> QED
  BY <1>2, <1>3, <1>4

LEMMA FileTransferStep ==
  ASSUME IInv, NEW v \in Users, FileTransfer(v) PROVE IInv'
<1> USE DEF IInv, FileTransfer, slots, history
<1>1. address[v] \in Users /\ Pending(v) \in Offer \cup {None}
  BY DEF TypeOK, WorkInv, Pending
<1>2. saved' \in [Users -> Copies \cup {None}]
  <2>1. CASE saved' = saved
    BY <2>1 DEF TypeOK
  <2>2. CASE saved' # saved
    <3>1. PICK length \in Lengths(g_FileSz[v]) :
            saved' = [saved EXCEPT ![v] = [file |-> port[address[v]], from |-> address[v], size |-> g_FileSz[v],
                                          length |-> length, offer |-> Pending(v)]]
      BY <2>2
    <3>2. length \in Files \cup {0} /\ port[address[v]] \in Files /\ g_FileSz[v] \in Files \cup {0}
      BY <1>1, <2>2, <3>1 DEF TypeOK, Lengths
    <3>3. [file |-> port[address[v]], from |-> address[v], size |-> g_FileSz[v],
           length |-> length, offer |-> Pending(v)] \in Copies
      BY <1>1, <3>2 DEF Copies
    <3> QED
      BY <3>1, <3>3 DEF TypeOK
  <2> QED
    BY <2>1, <2>2
<1>3. TypeOK'
  BY <1>1, <1>2 DEF TypeOK
<1>4. OneOwner'
  BY KeptOwner DEF TypeOK
<1>5. WorkInv'
  BY DEF TypeOK, WorkInv
<1> QED
  BY <1>3, <1>4, <1>5

LEMMA FopDoneStep ==
  ASSUME IInv, NEW v \in Users, FopDone(v) PROVE IInv'
<1> USE DEF IInv, FopDone, history
<1>1. TypeOK'
  BY RemovedFacts DEF TypeOK
<1>2. OneOwner'
  BY RemovedOwner
<1>3. WorkInv'
  BY DEF TypeOK, WorkInv
<1> QED
  BY <1>1, <1>2, <1>3

LEMMA CancelStep ==
  ASSUME IInv, NEW u \in Users, NEW v \in Users, Cancel(u, v) PROVE IInv'
<1> USE DEF IInv, Cancel, clients, history
<1>0. {u, v} \in SUBSET Users
  OBVIOUS
<1>1. TypeOK'
  BY <1>0, RemovedFacts DEF TypeOK
<1>2. OneOwner'
  BY <1>0, RemovedOwner
<1>3. WorkInv'
  BY DEF WorkInv
<1> QED
  BY <1>1, <1>2, <1>3

LEMMA ExitStep ==
  ASSUME IInv, NEW u \in Users, Exit(u) PROVE IInv'
<1> USE DEF IInv, Exit, slots, history
<1>1. TypeOK'
  BY DEF TypeOK
<1>2. OneOwner'
  BY KeptOwner DEF TypeOK
<1>3. WorkInv'
  BY DEF TypeOK, WorkInv
<1> QED
  BY <1>1, <1>2, <1>3

LEMMA DisconnectStep ==
  ASSUME IInv, NEW u \in Users, Disconnect(u) PROVE IInv'
<1> USE DEF IInv, Disconnect, clients, history
<1>1. TypeOK'
  BY RemovedFacts DEF TypeOK
<1>2. OneOwner'
  BY RemovedOwner DEF TypeOK
<1>3. WorkInv'
  BY DEF TypeOK, WorkInv
<1> QED
  BY <1>1, <1>2, <1>3

LEMMA NextIInv == IInv /\ [Next]_vars => IInv'
<1> SUFFICES ASSUME IInv, [Next]_vars PROVE IInv'
  OBVIOUS
<1>1. CASE Next
  BY <1>1, LoginStep, SendFileStep, RefuseStep, NotifyHeaderStep, NotifyTargetStep,
     AnswerSendFileStep, StartFileTransferStep, ReceiveNoticeStep, GetFileStep,
     SenderAddressStep, FileTransferStep, FopDoneStep, CancelStep, ExitStep,
     DisconnectStep DEF Next
<1>2. CASE UNCHANGED vars
  BY <1>2 DEF vars, slots, clients, history, IInv, TypeOK, OneOwner, WorkInv, Pending, Online
<1> QED
  BY <1>1, <1>2

-----------------------------------------------------------------------------
\* Every variable keeps its type.
THEOREM TypeCorrect == Spec => []TypeOK
BY InitIInv, NextIInv, PTL DEF Spec, IInv

\* No FILE_REQUEST leaks and none is freed twice: each is in the slot of one
\* record of a user who is online.
THEOREM RequestsOwned == Spec => []OneOwner
BY InitIInv, NextIInv, PTL DEF Spec, IInv

\* A pending offer is never replaced: it ends by the addressee's FOPDONE, his
\* leaving, or a cancellation.
THEOREM OffersEnd == Spec => OfferEnds
<1> DEFINE Ends ==
      \A v \in Users :
        freq[v] # None /\ freq'[v] # freq[v] =>
          /\ freq'[v] = None
          /\ client[v] = "done" \/ v \notin running \/ \E u \in Users : Cancel(u, v) \/ Cancel(v, u)
<1>1. IInv /\ [Next]_vars => [Ends]_vars
  <2> SUFFICES ASSUME IInv, Next, NEW v \in Users, freq[v] # None, freq'[v] # freq[v]
               PROVE  /\ freq'[v] = None
                      /\ \/ client[v] = "done" \/ v \notin running
                         \/ \E u \in Users : Cancel(u, v) \/ Cancel(v, u)
    OBVIOUS
  <2>1. ASSUME NEW us \in SUBSET Users, Removed(us)
        PROVE  v \in us /\ freq'[v] = None
    BY <2>1, RemovedFacts DEF IInv
  <2>2. CASE \E u, w \in Users, f \in Files : SendFile(u, w, f)
    BY <2>2 DEF SendFile, IInv, TypeOK
  <2>3. CASE \E u \in Users : FopDone(u)
    <3>1. PICK u \in Users : FopDone(u)
      BY <2>3
    <3>2. Removed({u}) /\ client[u] = "done"
      BY <3>1 DEF FopDone
    <3> QED
      BY <2>1, <3>2
  <2>4. CASE \E u \in Users : Disconnect(u)
    <3>1. PICK u \in Users : Disconnect(u)
      BY <2>4
    <3>2. Removed({u}) /\ u \notin running
      BY <3>1 DEF Disconnect
    <3> QED
      BY <2>1, <3>2
  <2>5. CASE \E u, w \in Users : Cancel(u, w)
    <3>1. PICK u \in Users, w \in Users : Cancel(u, w)
      BY <2>5
    <3>2. Removed({u, w}) /\ {u, w} \in SUBSET Users
      BY <3>1 DEF Cancel
    <3>3. v \in {u, w} /\ freq'[v] = None
      BY <2>1, <3>2
    <3> QED
      BY <3>1, <3>3
  <2>6. CASE UNCHANGED freq
    BY <2>6
  <2> QED
    BY <2>2, <2>3, <2>4, <2>5, <2>6
    DEF Next, Login, Refuse, NotifyHeader, NotifyTarget, AnswerSendFile, StartFileTransfer,
        ReceiveNotice, GetFile, SenderAddress, FileTransfer, Exit, slots
<1> QED
  BY InitIInv, NextIInv, <1>1, PTL DEF Spec, OfferEnds

-----------------------------------------------------------------------------
\* Where a client and its handler can be at the same time.
PlaceInv ==
  \A v \in Users :
    /\ v \notin running => client[v] = "idle"
    /\ client[v] \in {"transfer", "done"} => handler[v] = "read"

HeldInv == IInv /\ PlaceInv /\ OfferHeld

LEMMA NextPlace == IInv /\ PlaceInv /\ [Next]_vars => PlaceInv'
<1> SUFFICES ASSUME IInv, PlaceInv, [Next]_vars PROVE PlaceInv'
  OBVIOUS
<1> USE DEF IInv, TypeOK, PlaceInv, Free, clients, slots, history
<1>1. ASSUME NEW u \in Users, Login(u) PROVE PlaceInv'
  BY <1>1 DEF Login
<1>2. ASSUME NEW u \in Users, NEW v \in Users, NEW f \in Files, SendFile(u, v, f) \/ Refuse(u, v, f)
      PROVE  PlaceInv'
  <2>1. PICK h \in {"header", "refuse"} : handler' = [handler EXCEPT ![u] = h]
    BY <1>2 DEF SendFile, Refuse
  <2> QED
    BY <1>2, <2>1 DEF SendFile, Refuse, Asks
<1>3. ASSUME NEW u \in Users, NotifyHeader(u) \/ NotifyTarget(u) PROVE PlaceInv'
  <2>1. PICK h \in {"notice", "accept", "refuse"} : handler' = [handler EXCEPT ![u] = h]
    BY <1>3 DEF NotifyHeader, NotifyTarget, Outcomes
  <2> QED
    BY <1>3, <2>1 DEF NotifyHeader, NotifyTarget
<1>4. ASSUME NEW u \in Users, AnswerSendFile(u) \/ StartFileTransfer(u) \/ Exit(u)
      PROVE  PlaceInv'
  BY <1>4 DEF AnswerSendFile, StartFileTransfer, Exit
<1>5. ASSUME NEW v \in Users, ReceiveNotice(v) \/ GetFile(v) \/ SenderAddress(v)
      PROVE  PlaceInv'
  BY <1>5 DEF ReceiveNotice, GetFile, SenderAddress
<1>6. ASSUME NEW v \in Users, FileTransfer(v) \/ FopDone(v) \/ Disconnect(v)
      PROVE  PlaceInv'
  BY <1>6 DEF FileTransfer, FopDone, Disconnect
<1>7. ASSUME NEW u \in Users, NEW v \in Users, Cancel(u, v) PROVE PlaceInv'
  BY <1>7 DEF Cancel
<1>8. CASE UNCHANGED vars
  BY <1>8 DEF vars
<1> QED
  BY <1>1, <1>2, <1>3, <1>4, <1>5, <1>6, <1>7, <1>8 DEF Next

\* A slot whose owner is fetching keeps its offer: only FOPDONE after the
\* transfer, the end of the client and a cancellation empty it.
LEMMA NextHeld == HeldInv /\ [Next]_vars => OfferHeld'
<1> SUFFICES ASSUME HeldInv, [Next]_vars PROVE OfferHeld'
  OBVIOUS
<1> USE DEF HeldInv, OfferHeld
<1>1. ASSUME UNCHANGED <<freq, heap, address, cancelled>>,
             \A w \in Users :
               /\ handler'[w] = "address" => handler[w] = "address"
               /\ client'[w] \in {"transfer", "done"} => client[w] \in {"transfer", "done"}
      PROVE  OfferHeld'
  BY <1>1 DEF Pending
<1>2. ASSUME NEW v \in Users, Removed({v}), UNCHANGED <<address, cancelled>>,
             handler'[v] # "address", client'[v] \notin {"transfer", "done"},
             \A w \in Users : w # v => handler'[w] = handler[w] /\ client'[w] = client[w]
      PROVE  OfferHeld'
  <2>1. \A w \in Users : w # v /\ freq[w] # None => freq'[w] = freq[w] /\ Pending(w)' = Pending(w)
    BY <1>2, RemovedFacts DEF IInv, Pending
  <2> QED
    BY <1>2, <2>1 DEF Pending
<1>3. ASSUME NEW u \in Users, NEW v \in Users, NEW f \in Files, SendFile(u, v, f)
      PROVE  OfferHeld'
  <2>1. PICK c \in Cells :
          /\ heap[c] = None
          /\ heap' = [heap EXCEPT ![c] = [from |-> u, file |-> f]]
          /\ freq' = [freq EXCEPT ![v] = c]
    BY <1>3 DEF SendFile
  <2>2. \A w \in Users : freq[w] # None => w # v /\ freq[w] # c /\ freq[w] \in Cells
    BY <1>3, <2>1 DEF SendFile, IInv, TypeOK, OneOwner, Pending
  <2>3. \A w \in Users : freq[w] # None => freq'[w] = freq[w] /\ Pending(w)' = Pending(w)
    BY <2>1, <2>2 DEF IInv, TypeOK, Pending
  <2>4. \A w \in Users :
          /\ handler'[w] = "address" => handler[w] = "address"
          /\ client'[w] \in {"transfer", "done"} => client[w] \in {"transfer", "done"}
    BY <1>3 DEF SendFile, Asks, IInv, TypeOK
  <2> QED
    BY <1>3, <2>3, <2>4 DEF SendFile, Asks, Pending
<1>4. ASSUME NEW u \in Users,
             \/ Login(u) \/ NotifyHeader(u) \/ NotifyTarget(u) \/ AnswerSendFile(u)
             \/ StartFileTransfer(u) \/ ReceiveNotice(u) \/ Exit(u)
      PROVE  OfferHeld'
  <2>1. CASE NotifyHeader(u) \/ NotifyTarget(u)
    <3>1. PICK h \in {"notice", "accept", "refuse"} : handler' = [handler EXCEPT ![u] = h]
      BY <2>1 DEF NotifyHeader, NotifyTarget, Outcomes
    <3> QED
      BY <1>1, <2>1, <3>1 DEF NotifyHeader, NotifyTarget, clients, history, IInv, TypeOK
  <2>2. CASE ~ (NotifyHeader(u) \/ NotifyTarget(u))
    BY <1>1, <1>4, <2>2
    DEF Login, AnswerSendFile, StartFileTransfer, ReceiveNotice, Exit, slots, history, IInv, TypeOK
  <2> QED
    BY <2>1, <2>2
<1>5. ASSUME NEW u \in Users, NEW v \in Users, NEW f \in Files, Refuse(u, v, f)
      PROVE  OfferHeld'
  BY <1>1, <1>5 DEF Refuse, Asks, IInv, TypeOK
<1>6. ASSUME NEW v \in Users, GetFile(v) PROVE OfferHeld'
  BY <1>6 DEF GetFile, Pending, IInv, TypeOK
<1>7. ASSUME NEW v \in Users, SenderAddress(v) PROVE OfferHeld'
  <2>1. freq[v] # None /\ Pending(v) # None
    BY <1>7 DEF SenderAddress, IInv, OneOwner
  <2>2. /\ UNCHANGED <<freq, heap, cancelled>> /\ handler' = [handler EXCEPT ![v] = "read"]
        /\ \/ /\ address' = [address EXCEPT ![v] = Pending(v).from]
              /\ client' = [client EXCEPT ![v] = "transfer"]
           \/ address' = address /\ client' = [client EXCEPT ![v] = "idle"]
    BY <1>7 DEF SenderAddress, history
  <2>3. \A w \in Users : Pending(w)' = Pending(w)
    BY <2>2 DEF Pending
  <2>4. ASSUME NEW w \in Users \ cancelled', w # v
        PROVE  /\ handler'[w] = handler[w] /\ client'[w] = client[w] /\ address'[w] = address[w]
               /\ w \in Users \ cancelled
    BY <2>2, <2>4 DEF IInv, TypeOK
  <2>5. handler'[v] = "read" /\ (client'[v] = "idle" \/ address'[v] = Pending(v).from)
    BY <2>2 DEF IInv, TypeOK
  <2> QED
    BY <2>1, <2>2, <2>3, <2>4, <2>5
<1>8. ASSUME NEW v \in Users, FileTransfer(v) PROVE OfferHeld'
  BY <1>1, <1>8 DEF FileTransfer, slots, history, IInv, TypeOK
<1>9. ASSUME NEW v \in Users, FopDone(v) PROVE OfferHeld'
  BY <1>2, <1>9 DEF FopDone, history, IInv, TypeOK
<1>10. ASSUME NEW v \in Users, Disconnect(v) PROVE OfferHeld'
  BY <1>2, <1>10 DEF Disconnect, clients, PlaceInv, IInv, TypeOK
<1>11. ASSUME NEW u \in Users, NEW v \in Users, Cancel(u, v) PROVE OfferHeld'
  <2>1. Removed({u, v}) /\ {u, v} \in SUBSET Users /\ UNCHANGED <<handler, client, address>>
        /\ cancelled' = cancelled \cup {w \in {u, v} : freq[w] # None}
    BY <1>11 DEF Cancel, clients
  <2>2. \A w \in Users \ cancelled' : freq[w] # None =>
          w \notin {u, v} /\ freq'[w] = freq[w] /\ Pending(w)' = Pending(w)
    BY <2>1, RemovedFacts DEF IInv, Pending
  <2>3. \A w \in Users : freq[w] = None => Pending(w) = None
    BY DEF Pending
  <2> QED
    BY <2>1, <2>2, <2>3
<1>12. CASE UNCHANGED vars
  BY <1>1, <1>12 DEF vars, slots, clients, history
<1> QED
  BY <1>3, <1>4, <1>5, <1>6, <1>7, <1>8, <1>9, <1>10, <1>11, <1>12 DEF Next

\* A client that fetches a file finds in its slot the offer of the sender whose
\* address it was given, unless a cancellation has emptied the slot.
THEOREM OfferStaysHeld == Spec => []OfferHeld
<1>1. Init => HeldInv
  BY InitIInv DEF HeldInv, Init, PlaceInv, OfferHeld
<1>2. HeldInv /\ [Next]_vars => HeldInv'
  BY NextIInv, NextPlace, NextHeld DEF HeldInv
<1>3. HeldInv => OfferHeld
  BY DEF HeldInv
<1> QED
  BY <1>1, <1>2, <1>3, PTL DEF Spec

-----------------------------------------------------------------------------
\* A client that runs and whose handler looks for the sender's address waits
\* for it.
SeatInv ==
  \A v \in Users : handler[v] = "address" /\ v \in running => client[v] = "getting"

LEMMA NextSeat == IInv /\ SeatInv /\ [Next]_vars => SeatInv'
<1> SUFFICES ASSUME IInv, SeatInv, [Next]_vars PROVE SeatInv'
  OBVIOUS
<1> USE DEF IInv, TypeOK, SeatInv, Free, clients, slots
<1>1. ASSUME NEW u \in Users, Login(u) PROVE SeatInv'
  BY <1>1 DEF Login
<1>2. ASSUME NEW u \in Users, NEW v \in Users, NEW f \in Files, SendFile(u, v, f) \/ Refuse(u, v, f)
      PROVE  SeatInv'
  <2>1. PICK h \in {"header", "refuse"} : handler' = [handler EXCEPT ![u] = h]
    BY <1>2 DEF SendFile, Refuse
  <2> QED
    BY <1>2, <2>1 DEF SendFile, Refuse, Asks
<1>3. ASSUME NEW u \in Users, NotifyHeader(u) \/ NotifyTarget(u) PROVE SeatInv'
  <2>1. PICK h \in {"notice", "accept", "refuse"} : handler' = [handler EXCEPT ![u] = h]
    BY <1>3 DEF NotifyHeader, NotifyTarget, Outcomes
  <2> QED
    BY <1>3, <2>1 DEF NotifyHeader, NotifyTarget
<1>4. ASSUME NEW u \in Users, AnswerSendFile(u) \/ StartFileTransfer(u) \/ Exit(u)
      PROVE  SeatInv'
  BY <1>4 DEF AnswerSendFile, StartFileTransfer, Exit
<1>5. ASSUME NEW v \in Users, ReceiveNotice(v) \/ GetFile(v) \/ SenderAddress(v)
      PROVE  SeatInv'
  BY <1>5 DEF ReceiveNotice, GetFile, SenderAddress
<1>6. ASSUME NEW v \in Users, FileTransfer(v) PROVE SeatInv'
  BY <1>6 DEF FileTransfer
<1>7. ASSUME NEW v \in Users, FopDone(v) \/ Disconnect(v) PROVE SeatInv'
  BY <1>7 DEF FopDone, Disconnect
<1>8. ASSUME NEW u \in Users, NEW v \in Users, Cancel(u, v) PROVE SeatInv'
  BY <1>8 DEF Cancel
<1>9. CASE UNCHANGED vars
  BY <1>9 DEF vars
<1> QED
  BY <1>1, <1>2, <1>3, <1>4, <1>5, <1>6, <1>7, <1>8, <1>9 DEF Next

-----------------------------------------------------------------------------
\* A slot that is full holds an offer of a user, in a cell of its own.
LEMMA SlotTypes ==
  ASSUME IInv, NEW v \in Users, freq[v] # None
  PROVE  /\ freq[v] \in Cells /\ Pending(v) = heap[freq[v]] /\ Pending(v) \in Offer
         /\ Pending(v) # None
         /\ Pending(v).from \in Users /\ Pending(v).file \in Files /\ Pending(v).file # 0
         /\ Pending(v) = [from |-> Pending(v).from, file |-> Pending(v).file]
  <1>1. freq[v] \in Cells /\ Pending(v) = heap[freq[v]] /\ Pending(v) \in Offer /\ Pending(v) # None
    BY DEF IInv, TypeOK, OneOwner, Pending
  <1> QED
    BY <1>1, FileTransferAssumption DEF Offer

\* What a request to send a file does to the slots.
SendEffect(u, v, f, c) ==
  /\ freq[v] = None /\ freq'[v] = c /\ c # None
  /\ heap'[c] = [from |-> u, file |-> f]
  /\ job'[u] = [to |-> v, file |-> f, freq |-> c]
  /\ \A w \in Users : w # u => job'[w] = job[w]
  /\ \A w \in Users : w # v => freq'[w] = freq[w]
  /\ \A w \in Users : freq[w] # None => freq[w] # c /\ heap'[freq[w]] = heap[freq[w]]

LEMMA SendFileFacts ==
  ASSUME IInv, NEW u \in Users, NEW v \in Users, NEW f \in Files, SendFile(u, v, f)
  PROVE  \E c \in Cells : SendEffect(u, v, f, c)
  <1>1. PICK c \in Cells :
          /\ heap[c] = None
          /\ heap' = [heap EXCEPT ![c] = [from |-> u, file |-> f]]
          /\ freq' = [freq EXCEPT ![v] = c]
          /\ job' = [job EXCEPT ![u] = [to |-> v, file |-> f, freq |-> c]]
    BY DEF SendFile
  <1>2. freq[v] = None /\ c # None
    BY FileTransferAssumption DEF SendFile
  <1>3. freq \in [Users -> Cells \cup {None}] /\ heap \in [Cells -> Offer \cup {None}]
        /\ job \in [Users -> Jobs \cup {None}]
    BY DEF IInv, TypeOK, Jobs
  <1>4. ASSUME NEW w \in Users, freq[w] # None
        PROVE  freq[w] # c /\ heap'[freq[w]] = heap[freq[w]]
    <2>1. freq[w] \in Cells /\ heap[freq[w]] # None
      BY <1>4, SlotTypes
    <2> QED
      BY <1>1, <1>3, <2>1
  <1>5. SendEffect(u, v, f, c)
    BY <1>1, <1>2, <1>3, <1>4 DEF SendEffect
  <1> QED
    BY <1>5

\* Nothing of a user who has not become impatient is out when he asks.
LEMMA AskingHasNoneOut ==
  ASSUME IInv, NEW u \in Users, NEW v \in Users, NEW f \in Files, Asks(u, v, f), u \notin impatient'
  PROVE  port[u] = 0 /\ \A w \in Users : freq[w] # None => Pending(w).from # u
  <1>1. NoneOut(u)
    BY DEF Asks
  <1>2. \A w \in Users : freq[w] # None => Pending(w) # None
    BY SlotTypes
  <1> QED
    BY <1>1, <1>2 DEF NoneOut

-----------------------------------------------------------------------------
\* A patient sender works on nothing but the offer that he has out: it is his
\* handler's job, and the file on his FILET_PORT, if there is one.
SenderOf(v) ==
  freq[v] # None /\ Pending(v).from \notin impatient =>
    /\ job[Pending(v).from] = [to |-> v, file |-> Pending(v).file, freq |-> freq[v]]
    /\ port[Pending(v).from] \in {0, Pending(v).file}

SenderInv == \A v \in Users : SenderOf(v)

LEMMA SenderKept ==
  ASSUME IInv, SenderInv, impatient' = impatient, job' = job,
         \A u \in Users : port'[u] \in {0, port[u], job[u].file},
         \A v \in Users : freq'[v] # None => freq'[v] = freq[v] /\ heap'[freq[v]] = heap[freq[v]]
  PROVE  SenderInv'
  <1> SUFFICES ASSUME NEW v \in Users, freq'[v] # None, Pending(v)'.from \notin impatient'
               PROVE  /\ job'[Pending(v)'.from] = [to |-> v, file |-> Pending(v)'.file, freq |-> freq'[v]]
                      /\ port'[Pending(v)'.from] \in {0, Pending(v)'.file}
    BY DEF SenderInv, SenderOf
  <1>1. freq[v] # None /\ freq'[v] = freq[v] /\ Pending(v)' = Pending(v)
    BY DEF Pending
  <1>2. /\ job[Pending(v).from] = [to |-> v, file |-> Pending(v).file, freq |-> freq[v]]
        /\ port[Pending(v).from] \in {0, Pending(v).file} /\ Pending(v).from \in Users
    BY <1>1, SlotTypes DEF SenderInv, SenderOf
  <1>3. job[Pending(v).from].file = Pending(v).file
    BY <1>2
  <1> QED
    BY <1>1, <1>2, <1>3

LEMMA NextSender == IInv /\ SenderInv /\ [Next]_vars => SenderInv'
<1> SUFFICES ASSUME IInv, SenderInv, [Next]_vars PROVE SenderInv'
  OBVIOUS
<1>0. TypeOK /\ OneOwner
  BY DEF IInv
<1>1. ASSUME NEW u \in Users, NEW v \in Users, NEW f \in Files, SendFile(u, v, f), NEW w \in Users
      PROVE  SenderOf(w)'
  <2>0. PICK c \in Cells : SendEffect(u, v, f, c)
    BY <1>1, SendFileFacts
  <2>1. /\ freq[v] = None /\ freq'[v] = c /\ c # None
        /\ heap'[c] = [from |-> u, file |-> f]
        /\ job'[u] = [to |-> v, file |-> f, freq |-> c]
        /\ \A x \in Users : x # u => job'[x] = job[x]
        /\ \A x \in Users : x # v => freq'[x] = freq[x]
        /\ \A x \in Users : freq[x] # None => freq[x] # c /\ heap'[freq[x]] = heap[freq[x]]
    BY <2>0 DEF SendEffect
  <2>2. port' = port /\ impatient \subseteq impatient' /\ Asks(u, v, f)
    BY <1>1 DEF SendFile, Asks
  <2>3. CASE w = v
    <3>1. Pending(w)' = [from |-> u, file |-> f] /\ freq'[w] = c
      BY <2>1, <2>3 DEF Pending
    <3>2. u \notin impatient' => port[u] = 0
      BY <2>2, AskingHasNoneOut
    <3> QED
      BY <2>1, <2>2, <2>3, <3>1, <3>2 DEF SenderOf
  <2>4. CASE w # v /\ freq[w] # None
    <3>1. freq'[w] = freq[w] /\ Pending(w)' = Pending(w) /\ Pending(w).from \in Users
      <4>1. freq'[w] = freq[w] /\ heap'[freq[w]] = heap[freq[w]]
        BY <2>1, <2>4
      <4> QED
        BY <2>4, <4>1, SlotTypes DEF Pending
    <3>2. Pending(w).from \notin impatient' => Pending(w).from # u
      BY <2>2, <2>4, AskingHasNoneOut
    <3>3. SenderOf(w)
      BY DEF SenderInv
    <3> QED
      BY <2>1, <2>2, <2>4, <3>1, <3>2, <3>3 DEF SenderOf
  <2>5. CASE w # v /\ freq[w] = None
    BY <2>1, <2>5 DEF SenderOf
  <2> QED
    BY <2>3, <2>4, <2>5
<1>2. ASSUME NEW u \in Users, NEW v \in Users, NEW f \in Files, Refuse(u, v, f), NEW w \in Users
      PROVE  SenderOf(w)'
  <2>1. /\ job' = [job EXCEPT ![u] = None] /\ UNCHANGED <<freq, heap, port>>
        /\ impatient \subseteq impatient' /\ Asks(u, v, f)
    BY <1>2 DEF Refuse, Asks
  <2>2. CASE freq[w] # None
    <3>1. Pending(w)' = Pending(w) /\ Pending(w).from \in Users
      BY <2>1, <2>2, SlotTypes DEF Pending
    <3>2. Pending(w).from \notin impatient' => Pending(w).from # u
      BY <2>1, <2>2, AskingHasNoneOut
    <3>3. Pending(w).from # u => job'[Pending(w).from] = job[Pending(w).from]
      BY <1>0, <2>1, <3>1 DEF TypeOK
    <3>4. SenderOf(w)
      BY DEF SenderInv
    <3> QED
      BY <2>1, <2>2, <3>1, <3>2, <3>3, <3>4 DEF SenderOf
  <2>3. CASE freq[w] = None
    BY <2>1, <2>3 DEF SenderOf
  <2> QED
    BY <2>2, <2>3
<1>3. ASSUME UNCHANGED <<impatient, job, freq, heap>>,
             \A u \in Users : port'[u] \in {0, port[u], job[u].file}
      PROVE  SenderInv'
  BY <1>3, SenderKept
<1>4. ASSUME NEW us \in SUBSET Users, Removed(us), UNCHANGED <<impatient, job, port>>
      PROVE  SenderInv'
  <2>1. \A v \in Users : freq'[v] # None => freq'[v] = freq[v] /\ heap'[freq[v]] = heap[freq[v]]
    BY <1>0, <1>4, RemovedFacts
  <2> QED
    BY <1>4, <2>1, SenderKept
<1>5. ASSUME NEW u \in Users,
             \/ Login(u) \/ NotifyHeader(u) \/ NotifyTarget(u) \/ AnswerSendFile(u)
             \/ ReceiveNotice(u) \/ GetFile(u) \/ SenderAddress(u)
      PROVE  SenderInv'
  <2>1. UNCHANGED <<impatient, job, freq, heap, port>>
    BY <1>5 DEF Login, NotifyHeader, NotifyTarget, AnswerSendFile, ReceiveNotice, GetFile,
                SenderAddress, slots, clients, history
  <2> QED
    BY <1>3, <2>1
<1>6. ASSUME NEW u \in Users, StartFileTransfer(u) \/ FileTransfer(u) \/ Exit(u)
      PROVE  SenderInv'
  <2>1. UNCHANGED <<impatient, job, freq, heap>>
    BY <1>6 DEF StartFileTransfer, FileTransfer, Exit, slots, history
  <2>2. \A x \in Users : port'[x] \in {0, port[x], job[x].file}
    BY <1>0, <1>6 DEF StartFileTransfer, FileTransfer, Exit, TypeOK
  <2> QED
    BY <1>3, <2>1, <2>2
<1>7. ASSUME NEW u \in Users, FopDone(u) \/ Disconnect(u) PROVE SenderInv'
  <2>1. Removed({u}) /\ UNCHANGED <<impatient, job, port>>
    BY <1>7 DEF FopDone, Disconnect, clients, history
  <2> QED
    BY <1>4, <2>1
<1>8. ASSUME NEW u \in Users, NEW v \in Users, Cancel(u, v) PROVE SenderInv'
  <2>1. Removed({u, v}) /\ {u, v} \in SUBSET Users /\ UNCHANGED <<impatient, job, port>>
    BY <1>8 DEF Cancel, clients
  <2> QED
    BY <1>4, <2>1
<1>9. CASE UNCHANGED vars
  BY <1>3, <1>9 DEF vars, slots, clients, history
<1>10. ASSUME NEW u \in Users, NEW v \in Users, NEW f \in Files, SendFile(u, v, f) \/ Refuse(u, v, f)
       PROVE  SenderInv'
  BY <1>1, <1>2, <1>10 DEF SenderInv
<1> QED
  BY <1>5, <1>6, <1>7, <1>8, <1>9, <1>10 DEF Next

-----------------------------------------------------------------------------
Fetching(v) == client[v] \in {"getting", "transfer", "done"}

Announces(u, v) == handler[u] \in {"header", "notice"} /\ job[u].to = v

\* What has become of the offer in a slot: between the notice and the copy it
\* is always the same size.
SlotOf(v) ==
  IF freq[v] = None
  THEN notices[v] = <<>> /\ ~fresh[v] /\ ~Fetching(v)
  ELSE /\ notices[v] \in {<<>>, <<Pending(v).file>>}
       /\ fresh[v] \/ Fetching(v) => notices[v] = <<>> /\ g_FileSz[v] = Pending(v).file
       /\ fresh[v] => ~Fetching(v)

\* What a handler is about to announce is in the slot it announces it for, and
\* the addressee has not heard of it.
AnnouncedTo(v) ==
  \A u \in Users : Announces(u, v) =>
    /\ freq[v] = job[u].freq /\ heap[freq[v]] = [from |-> u, file |-> job[u].file]
    /\ notices[v] = <<>> /\ ~fresh[v] /\ ~Fetching(v)

SavedOf(v) ==
  saved[v] # None /\ saved[v].from \notin impatient =>
    /\ saved[v].offer = [from |-> saved[v].from, file |-> saved[v].file]
    /\ saved[v].size = saved[v].file /\ saved[v].length >= saved[v].file

OrderlyOf(v) == v \in Orderly => SlotOf(v) /\ AnnouncedTo(v) /\ SavedOf(v)

OrderlyInv == \A v \in Users : OrderlyOf(v)

FileInv == HeldInv /\ SeatInv /\ SenderInv /\ OrderlyInv

\* Who announces something to an orderly user has an offer in his slot.
LEMMA AnnouncedFacts ==
  ASSUME IInv, NEW u \in Users, NEW v \in Users, AnnouncedTo(v), Announces(u, v)
  PROVE  /\ freq[v] # None /\ Pending(v) = [from |-> u, file |-> job[u].file]
         /\ job[u].file \in Files /\ job[u].freq \in Cells
         /\ notices[v] = <<>> /\ ~fresh[v] /\ ~Fetching(v)
  <1>1. job[u].freq \in Cells /\ job[u].file \in Files
    BY DEF IInv, WorkInv, Jobs, Announces
  <1>2. /\ freq[v] = job[u].freq /\ heap[freq[v]] = [from |-> u, file |-> job[u].file]
        /\ notices[v] = <<>> /\ ~fresh[v] /\ ~Fetching(v)
    BY DEF AnnouncedTo
  <1>3. freq[v] # None
    BY <1>1, <1>2, FileTransferAssumption
  <1> QED
    BY <1>1, <1>2, <1>3 DEF Pending

\* A step that leaves a slot and its addressee alone.
LEMMA SlotKept ==
  ASSUME IInv, NEW v \in Users, SlotOf(v), AnnouncedTo(v),
         freq'[v] = freq[v], notices'[v] = notices[v], fresh'[v] = fresh[v], g_FileSz'[v] = g_FileSz[v],
         Fetching(v)' => Fetching(v),
         freq[v] # None => heap'[freq[v]] = heap[freq[v]],
         \A u \in Users : Announces(u, v)' => Announces(u, v) /\ job'[u] = job[u]
  PROVE  SlotOf(v)' /\ AnnouncedTo(v)'
  <1>1. Pending(v)' = Pending(v)
    BY DEF Pending
  <1>2. SlotOf(v)'
    BY <1>1 DEF SlotOf
  <1>3. ASSUME NEW u \in Users, Announces(u, v)'
        PROVE  /\ freq'[v] = job'[u].freq /\ heap'[freq'[v]] = [from |-> u, file |-> job'[u].file]
               /\ notices'[v] = <<>> /\ ~fresh'[v] /\ ~Fetching(v)'
    <2>1. Announces(u, v) /\ job'[u] = job[u]
      BY <1>3
    <2>2. freq[v] # None /\ notices[v] = <<>> /\ ~fresh[v] /\ ~Fetching(v)
      BY <2>1, AnnouncedFacts
    <2>3. freq[v] = job[u].freq /\ heap[freq[v]] = [from |-> u, file |-> job[u].file]
      BY <2>1 DEF AnnouncedTo
    <2> QED
      BY <2>1, <2>2, <2>3
  <1> QED
    BY <1>2, <1>3 DEF AnnouncedTo

\* A step that stores nothing.
LEMMA SavedKept ==
  ASSUME NEW v \in Users, SavedOf(v), saved'[v] = saved[v], impatient \subseteq impatient'
  PROVE  SavedOf(v)'
  BY DEF SavedOf

\* A step that touches the slots, the jobs, the notices and the copies of nobody.
LEMMA QuietStep ==
  ASSUME IInv, NEW v \in Users, OrderlyOf(v), v \in Orderly,
         UNCHANGED <<freq, heap, job, notices, impatient>>,
         fresh'[v] = fresh[v], g_FileSz'[v] = g_FileSz[v], saved'[v] = saved[v],
         Fetching(v)' => Fetching(v),
         \A u \in Users : handler'[u] \in {"header", "notice"} => handler[u] \in {"header", "notice"}
  PROVE  OrderlyOf(v)'
  <1>1. SlotOf(v) /\ AnnouncedTo(v) /\ SavedOf(v)
    BY DEF OrderlyOf
  <1>2. \A u \in Users : Announces(u, v)' => Announces(u, v) /\ job'[u] = job[u]
    BY DEF Announces
  <1>3. SlotOf(v)' /\ AnnouncedTo(v)'
    BY <1>1, <1>2, SlotKept
  <1>4. SavedOf(v)'
    BY <1>1, SavedKept
  <1> QED
    BY <1>3, <1>4 DEF OrderlyOf

LEMMA OrderlyLogin ==
  ASSUME FileInv, NEW u \in Users, Login(u), NEW w \in Orderly
  PROVE  OrderlyOf(w)'
  <1>1. /\ handler[u] = "none" /\ UNCHANGED <<freq, heap, job, notices, client, impatient>>
        /\ handler' = [handler EXCEPT ![u] = "read"] /\ fresh' = [fresh EXCEPT ![u] = FALSE]
        /\ g_FileSz' = [g_FileSz EXCEPT ![u] = 0] /\ saved' = [saved EXCEPT ![u] = None]
    BY DEF Login, history
  <1>2. IInv /\ TypeOK /\ w \in Users /\ OrderlyOf(w) /\ SlotOf(w) /\ AnnouncedTo(w) /\ SavedOf(w)
    BY DEF FileInv, HeldInv, IInv, OrderlyInv, OrderlyOf, Orderly
  <1>3. \A x \in Users : handler'[x] \in {"header", "notice"} => handler[x] \in {"header", "notice"}
    BY <1>1, <1>2 DEF TypeOK
  <1>4. Fetching(w)' => Fetching(w)
    BY <1>1 DEF Fetching
  <1>5. CASE w = u
    <2>1. freq[u] = None
      BY <1>1, <1>2 DEF IInv, OneOwner, Online
    <2>2. notices[w] = <<>> /\ ~fresh[w] /\ ~Fetching(w)
      BY <1>2, <1>5, <2>1 DEF SlotOf
    <2>3. SlotOf(w)'
      BY <1>1, <1>2, <1>4, <1>5, <2>1, <2>2 DEF TypeOK, SlotOf
    <2>4. \A x \in Users : ~ Announces(x, w)'
      BY <1>1, <1>2, <1>3, <1>5, <2>1, AnnouncedFacts DEF Announces
    <2>5. saved'[w] = None
      BY <1>1, <1>2, <1>5 DEF TypeOK
    <2> QED
      BY <2>3, <2>4, <2>5 DEF OrderlyOf, AnnouncedTo, SavedOf
  <1>6. CASE w # u
    <2>1. fresh'[w] = fresh[w] /\ g_FileSz'[w] = g_FileSz[w] /\ saved'[w] = saved[w]
      BY <1>1, <1>2, <1>6 DEF TypeOK
    <2> QED
      BY <1>1, <1>2, <1>3, <1>4, <2>1, QuietStep
  <1> QED
    BY <1>5, <1>6

LEMMA OrderlySendFile ==
  ASSUME FileInv, NEW u \in Users, NEW v \in Users, NEW f \in Files, SendFile(u, v, f), NEW w \in Orderly
  PROVE  OrderlyOf(w)'
  <1>1. IInv /\ TypeOK /\ w \in Users /\ SlotOf(w) /\ AnnouncedTo(w) /\ SavedOf(w)
    BY DEF FileInv, HeldInv, IInv, OrderlyInv, OrderlyOf, Orderly
  <1>2. PICK c \in Cells : SendEffect(u, v, f, c)
    BY <1>1, SendFileFacts
  <1>3. /\ handler' = [handler EXCEPT ![u] = "header"] /\ client' = [client EXCEPT ![u] = "sending"]
        /\ impatient \subseteq impatient' /\ UNCHANGED <<notices, fresh, g_FileSz, saved>>
    BY DEF SendFile, Asks
  <1>4. SavedOf(w)'
    BY <1>1, <1>3, SavedKept
  <1>5. Fetching(w)' => Fetching(w)
    BY <1>1, <1>3 DEF TypeOK, Fetching
  <1>6. ASSUME NEW x \in Users, x # u, Announces(x, w)'
        PROVE  Announces(x, w) /\ job'[x] = job[x]
    BY <1>1, <1>2, <1>3, <1>6 DEF TypeOK, Announces, SendEffect
  <1>7. CASE w = v
    <2>1. notices[w] = <<>> /\ ~fresh[w] /\ ~Fetching(w) /\ freq[w] = None
      BY <1>1, <1>2, <1>7 DEF SlotOf, SendEffect
    <2>2. \A x \in Users : x # u => ~ Announces(x, w)'
      BY <1>1, <1>6, <2>1, AnnouncedFacts
    <2>3. SlotOf(w)'
      BY <1>3, <1>5, <2>1 DEF SlotOf
    <2>4. freq'[w] = c /\ heap'[c] = [from |-> u, file |-> f] /\ job'[u].freq = c /\ job'[u].file = f
      BY <1>2, <1>7 DEF SendEffect
    <2>5. AnnouncedTo(w)'
      BY <1>3, <1>5, <2>1, <2>2, <2>4 DEF AnnouncedTo
    <2> QED
      BY <1>4, <2>3, <2>5 DEF OrderlyOf
  <1>8. CASE w # v
    <2>1. ~ Announces(u, w)'
      BY <1>2, <1>8 DEF Announces, SendEffect
    <2>2. freq'[w] = freq[w] /\ (freq[w] # None => heap'[freq[w]] = heap[freq[w]])
      BY <1>1, <1>2, <1>8 DEF SendEffect
    <2>3. \A x \in Users : Announces(x, w)' => Announces(x, w) /\ job'[x] = job[x]
      BY <1>6, <2>1
    <2>4. SlotOf(w)' /\ AnnouncedTo(w)'
      BY <1>1, <1>3, <1>5, <2>2, <2>3, SlotKept
    <2> QED
      BY <1>4, <2>4 DEF OrderlyOf
  <1> QED
    BY <1>7, <1>8

LEMMA OrderlyRefuse ==
  ASSUME FileInv, NEW u \in Users, NEW v \in Users, NEW f \in Files, Refuse(u, v, f), NEW w \in Orderly
  PROVE  OrderlyOf(w)'
  <1>1. IInv /\ TypeOK /\ w \in Users /\ SlotOf(w) /\ AnnouncedTo(w) /\ SavedOf(w)
    BY DEF FileInv, HeldInv, IInv, OrderlyInv, OrderlyOf, Orderly
  <1>2. /\ handler' = [handler EXCEPT ![u] = "refuse"] /\ client' = [client EXCEPT ![u] = "sending"]
        /\ job' = [job EXCEPT ![u] = None] /\ impatient \subseteq impatient'
        /\ UNCHANGED <<freq, heap, notices, fresh, g_FileSz, saved>>
    BY DEF Refuse, Asks
  <1>3. Fetching(w)' => Fetching(w)
    BY <1>1, <1>2 DEF TypeOK, Fetching
  <1>4. \A x \in Users : Announces(x, w)' => Announces(x, w) /\ job'[x] = job[x]
    BY <1>1, <1>2 DEF TypeOK, Announces
  <1>5. SlotOf(w)' /\ AnnouncedTo(w)'
    BY <1>1, <1>2, <1>3, <1>4, SlotKept
  <1> QED
    BY <1>1, <1>2, <1>5, SavedKept DEF OrderlyOf

\* The steps that no slot notices.
LEMMA OrderlyQuiet ==
  ASSUME FileInv, NEW u \in Users,
         NotifyHeader(u) \/ AnswerSendFile(u) \/ StartFileTransfer(u) \/ SenderAddress(u), NEW w \in Orderly
  PROVE  OrderlyOf(w)'
  <1>1. IInv /\ TypeOK /\ w \in Users /\ OrderlyOf(w)
    BY DEF FileInv, HeldInv, IInv, OrderlyInv, Orderly
  <1>2. UNCHANGED <<freq, heap, job, notices, fresh, g_FileSz, saved, impatient>>
    BY DEF NotifyHeader, AnswerSendFile, StartFileTransfer, SenderAddress, slots, clients, history
  <1>3. CASE NotifyHeader(u)
    <2>1. PICK next \in {"notice", "refuse"} : handler' = [handler EXCEPT ![u] = next]
      BY <1>3 DEF NotifyHeader, Outcomes
    <2>2. handler[u] = "header" /\ client' = client
      BY <1>3 DEF NotifyHeader, clients
    <2>3. Fetching(w)' => Fetching(w)
      BY <2>2 DEF Fetching
    <2>4. \A x \in Users : handler'[x] \in {"header", "notice"} => handler[x] \in {"header", "notice"}
      BY <1>1, <2>1, <2>2 DEF TypeOK
    <2> QED
      BY <1>1, <1>2, <2>3, <2>4, QuietStep
  <1>4. CASE AnswerSendFile(u)
    <2>1. /\ handler' = [handler EXCEPT ![u] = "read"]
          /\ client' = [client EXCEPT ![u] = IF handler[u] = "accept" THEN "starting" ELSE "idle"]
      BY <1>4 DEF AnswerSendFile
    <2>2. Fetching(w)' => Fetching(w)
      BY <1>1, <2>1 DEF TypeOK, Fetching
    <2>3. \A x \in Users : handler'[x] \in {"header", "notice"} => handler[x] \in {"header", "notice"}
      BY <1>1, <2>1 DEF TypeOK
    <2> QED
      BY <1>1, <1>2, <2>2, <2>3, QuietStep
  <1>5. CASE StartFileTransfer(u)
    <2>1. client' = [client EXCEPT ![u] = "idle"] /\ handler' = handler
      BY <1>5 DEF StartFileTransfer, slots
    <2>2. Fetching(w)' => Fetching(w)
      BY <1>1, <2>1 DEF TypeOK, Fetching
    <2> QED
      BY <1>1, <1>2, <2>1, <2>2, QuietStep
  <1>6. CASE SenderAddress(u)
    <2>1. /\ handler[u] = "address" /\ handler' = [handler EXCEPT ![u] = "read"]
          /\ \/ u \in running /\ client' = [client EXCEPT ![u] = "transfer"]
             \/ client' = [client EXCEPT ![u] = "idle"]
      BY <1>6 DEF SenderAddress
    <2>2. u \in running => client[u] = "getting"
      BY <2>1 DEF FileInv, SeatInv
    <2>3. Fetching(w)' => Fetching(w)
      BY <1>1, <2>1, <2>2 DEF TypeOK, Fetching
    <2>4. \A x \in Users : handler'[x] \in {"header", "notice"} => handler[x] \in {"header", "notice"}
      BY <1>1, <2>1 DEF TypeOK
    <2> QED
      BY <1>1, <1>2, <2>3, <2>4, QuietStep
  <1> QED
    BY <1>3, <1>4, <1>5, <1>6

LEMMA OrderlyNotifyTarget ==
  ASSUME FileInv, NEW u \in Users, NotifyTarget(u), NEW w \in Orderly
  PROVE  OrderlyOf(w)'
  <1>1. IInv /\ TypeOK /\ w \in Users /\ SlotOf(w) /\ AnnouncedTo(w) /\ SavedOf(w)
    BY DEF FileInv, HeldInv, IInv, OrderlyInv, OrderlyOf, Orderly
  <1>2. /\ handler[u] = "notice" /\ UNCHANGED <<freq, heap, job, client, fresh, g_FileSz, saved, impatient>>
        /\ \/ notices' = [notices EXCEPT ![job[u].to] = Append(@, job[u].file)]
           \/ notices' = notices
    BY DEF NotifyTarget, clients, history
  <1>3. PICK next \in {"accept", "refuse"} : handler' = [handler EXCEPT ![u] = next]
    BY DEF NotifyTarget, Outcomes
  <1>4. \A x \in Users : handler'[x] \in {"header", "notice"} => x # u /\ handler[x] \in {"header", "notice"}
    BY <1>1, <1>3 DEF TypeOK
  <1>5. SavedOf(w)'
    BY <1>1, <1>2, SavedKept
  <1>6. \A x \in Users : Announces(x, w)' => x # u /\ Announces(x, w)
    BY <1>2, <1>4 DEF Announces
  <1>7. CASE notices'[w] = notices[w]
    <2>1. SlotOf(w)' /\ AnnouncedTo(w)'
      BY <1>1, <1>2, <1>6, <1>7, SlotKept DEF Fetching
    <2> QED
      BY <1>5, <2>1 DEF OrderlyOf
  <1>8. CASE notices'[w] # notices[w]
    <2>1. job[u].to = w /\ notices' = [notices EXCEPT ![w] = Append(@, job[u].file)]
      BY <1>1, <1>2, <1>8 DEF TypeOK
    <2>2. Announces(u, w)
      BY <1>2, <2>1 DEF Announces
    <2>3. /\ freq[w] # None /\ Pending(w) = [from |-> u, file |-> job[u].file]
          /\ notices[w] = <<>> /\ ~fresh[w] /\ ~Fetching(w) /\ job[u].file \in Files
      BY <1>1, <2>2, AnnouncedFacts
    <2>4. \A x \in Users : Announces(x, w) => x = u
      <3> SUFFICES ASSUME NEW x \in Users, Announces(x, w) PROVE x = u
        OBVIOUS
      <3>1. Pending(w) = [from |-> x, file |-> job[x].file]
        BY <1>1, AnnouncedFacts
      <3> QED
        BY <2>3, <3>1
    <2>5. notices'[w] = <<job[u].file>>
      BY <1>1, <2>1, <2>3 DEF TypeOK
    <2>6. Pending(w)' = Pending(w) /\ Pending(w).file = job[u].file
      BY <1>2, <2>3 DEF Pending
    <2>7. SlotOf(w)'
      BY <1>2, <2>3, <2>5, <2>6 DEF SlotOf, Fetching
    <2>8. AnnouncedTo(w)'
      BY <1>6, <2>4 DEF AnnouncedTo
    <2> QED
      BY <1>5, <2>7, <2>8 DEF OrderlyOf
  <1> QED
    BY <1>7, <1>8

LEMMA OrderlyReceiveNotice ==
  ASSUME FileInv, NEW v \in Users, ReceiveNotice(v), NEW w \in Orderly
  PROVE  OrderlyOf(w)'
  <1>1. IInv /\ TypeOK /\ w \in Users /\ OrderlyOf(w) /\ SlotOf(w) /\ AnnouncedTo(w) /\ SavedOf(w)
    BY DEF FileInv, HeldInv, IInv, OrderlyInv, OrderlyOf, Orderly
  <1>2. /\ notices[v] # <<>> /\ notices' = [notices EXCEPT ![v] = Tail(notices[v])]
        /\ g_FileSz' = [g_FileSz EXCEPT ![v] = Head(notices[v])] /\ fresh' = [fresh EXCEPT ![v] = TRUE]
        /\ UNCHANGED <<handler, freq, heap, job, client, saved, impatient>>
    BY DEF ReceiveNotice, slots, history
  <1>3. SavedOf(w)'
    BY <1>1, <1>2, SavedKept
  <1>4. \A x \in Users : Announces(x, w)' => Announces(x, w) /\ job'[x] = job[x]
    BY <1>2 DEF Announces
  <1>5. CASE w = v
    <2>1. freq[w] # None /\ notices[w] = <<Pending(w).file>> /\ Pending(w)' = Pending(w) /\ ~Fetching(w)
      BY <1>1, <1>2, <1>5 DEF SlotOf, Pending
    <2>2. \A x \in Users : ~ Announces(x, w)'
      BY <1>1, <1>2, <1>4, <1>5, AnnouncedFacts
    <2>3. notices'[w] = <<>> /\ g_FileSz'[w] = Pending(w).file /\ fresh'[w] /\ ~Fetching(w)'
      BY <1>1, <1>2, <1>5, <2>1 DEF TypeOK, Fetching
    <2>4. SlotOf(w)'
      BY <1>2, <2>1, <2>3 DEF SlotOf
    <2> QED
      BY <1>3, <2>2, <2>4 DEF OrderlyOf, AnnouncedTo
  <1>6. CASE w # v
    <2>1. SlotOf(w)' /\ AnnouncedTo(w)'
      <3>1. notices'[w] = notices[w] /\ fresh'[w] = fresh[w] /\ g_FileSz'[w] = g_FileSz[w]
        BY <1>1, <1>2, <1>6 DEF TypeOK
      <3>2. Fetching(w)' = Fetching(w)
        BY <1>2 DEF Fetching
      <3> QED
        BY <1>1, <1>2, <1>4, <3>1, <3>2, SlotKept
    <2> QED
      BY <1>3, <2>1 DEF OrderlyOf
  <1> QED
    BY <1>5, <1>6

LEMMA OrderlyGetFile ==
  ASSUME FileInv, NEW v \in Users, GetFile(v), NEW w \in Orderly, w \in Orderly'
  PROVE  OrderlyOf(w)'
  <1>1. IInv /\ TypeOK /\ w \in Users /\ OrderlyOf(w) /\ SlotOf(w) /\ AnnouncedTo(w) /\ SavedOf(w)
    BY DEF FileInv, HeldInv, IInv, OrderlyInv, OrderlyOf, Orderly
  <1>2. /\ fresh' = [fresh EXCEPT ![v] = FALSE]
        /\ UNCHANGED <<freq, heap, job, notices, g_FileSz, saved, impatient>>
        /\ freq[v] # None /\ ~fresh[v] => v \in hasty'
    BY DEF GetFile
  <1>3. \/ UNCHANGED <<client, handler>>
        \/ /\ client' = [client EXCEPT ![v] = "getting"] /\ handler' = [handler EXCEPT ![v] = "address"]
           /\ freq[v] # None
    BY DEF GetFile
  <1>4. SavedOf(w)'
    BY <1>1, <1>2, SavedKept
  <1>5. \A x \in Users : Announces(x, w)' => Announces(x, w) /\ job'[x] = job[x]
    BY <1>1, <1>2, <1>3 DEF TypeOK, Announces
  <1>6. CASE w = v /\ freq[w] # None
    <2>1. fresh[w]
      BY <1>2, <1>6 DEF Orderly
    <2>2. notices[w] = <<>> /\ g_FileSz[w] = Pending(w).file /\ Pending(w)' = Pending(w)
      BY <1>1, <1>2, <1>6, <2>1 DEF SlotOf, Pending
    <2>3. \A x \in Users : ~ Announces(x, w)'
      BY <1>1, <1>5, <2>1, AnnouncedFacts
    <2>4. ~fresh'[w]
      BY <1>1, <1>2, <1>6 DEF TypeOK
    <2>5. SlotOf(w)'
      BY <1>2, <1>6, <2>2, <2>4 DEF SlotOf
    <2> QED
      BY <1>4, <2>3, <2>5 DEF OrderlyOf, AnnouncedTo
  <1>7. CASE w # v \/ freq[w] = None
    <2>1. fresh'[w] = fresh[w]
      <3>1. CASE w # v
        BY <1>1, <1>2, <3>1 DEF TypeOK
      <3>2. CASE w = v /\ freq[w] = None
        <4>1. ~fresh[w]
          BY <1>1, <3>2 DEF SlotOf
        <4>2. fresh'[w] = FALSE /\ fresh[w] \in BOOLEAN
          BY <1>1, <1>2, <3>2 DEF TypeOK
        <4> QED
          BY <4>1, <4>2
      <3> QED
        BY <1>7, <3>1, <3>2
    <2>2. Fetching(w)' => Fetching(w)
      BY <1>1, <1>3, <1>7 DEF TypeOK, Fetching
    <2>3. SlotOf(w)' /\ AnnouncedTo(w)'
      BY <1>1, <1>2, <1>5, <2>1, <2>2, SlotKept
    <2> QED
      BY <1>4, <2>3 DEF OrderlyOf
  <1> QED
    BY <1>6, <1>7

\* As many bytes are read as the notice said, of the file that waits at the
\* sender's: both are the offer's.
LEMMA OrderlyFileTransfer ==
  ASSUME FileInv, NEW v \in Users, FileTransfer(v), NEW w \in Orderly
  PROVE  OrderlyOf(w)'
  <1>1. IInv /\ TypeOK /\ OfferHeld /\ w \in Users /\ SlotOf(w) /\ AnnouncedTo(w) /\ SavedOf(w) /\ SenderOf(w)
    BY DEF FileInv, HeldInv, IInv, OrderlyInv, OrderlyOf, Orderly, SenderInv
  <1>2. /\ client[v] = "transfer" /\ client' = [client EXCEPT ![v] = "done"]
        /\ UNCHANGED <<handler, freq, heap, job, notices, fresh, g_FileSz, impatient>>
    BY DEF FileTransfer, slots, history
  <1>3. Fetching(w)' => Fetching(w)
    BY <1>1, <1>2 DEF TypeOK, Fetching
  <1>4. \A x \in Users : Announces(x, w)' => Announces(x, w) /\ job'[x] = job[x]
    BY <1>2 DEF Announces
  <1>5. SlotOf(w)' /\ AnnouncedTo(w)'
    BY <1>1, <1>2, <1>3, <1>4, SlotKept
  <1>6. SavedOf(w)'
    <2>1. CASE saved'[w] = saved[w]
      BY <1>1, <1>2, <2>1, SavedKept
    <2>2. CASE saved'[w] # saved[w]
      <3>1. PICK length \in Lengths(g_FileSz[v]) :
              /\ port[address[v]] # 0
              /\ saved' = [saved EXCEPT ![v] = [file |-> port[address[v]], from |-> address[v], size |-> g_FileSz[v],
                                               length |-> length, offer |-> Pending(v)]]
        BY <2>2 DEF FileTransfer
      <3>2. /\ w = v
            /\ saved'[w] = [file |-> port[address[w]], from |-> address[w], size |-> g_FileSz[w],
                            length |-> length, offer |-> Pending(w)]
        BY <1>1, <2>2, <3>1 DEF TypeOK
      <3>3. freq[w] # None /\ Pending(w).from = address[w] /\ Fetching(w)
        BY <1>1, <1>2, <3>2 DEF OfferHeld, Pending, Orderly, Fetching
      <3>4. g_FileSz[w] = Pending(w).file /\ Pending(w) = [from |-> address[w], file |-> Pending(w).file]
        BY <1>1, <3>3, SlotTypes DEF SlotOf
      <3>5. address[w] \notin impatient => port[address[w]] = Pending(w).file
        BY <1>1, <3>1, <3>2, <3>3 DEF SenderOf
      <3>6. length >= g_FileSz[w]
        <4>1. g_FileSz[w] \in Nat
          BY <1>1, FileTransferAssumption DEF TypeOK
        <4>2. length = g_FileSz[w] \/ length > g_FileSz[w]
          BY <3>1, <3>2 DEF Lengths
        <4>3. length \in Nat
          BY <3>1, <3>2, <4>1, FileTransferAssumption DEF Lengths
        <4> QED
          BY <4>1, <4>2, <4>3
      <3> QED
        BY <1>2, <3>2, <3>4, <3>5, <3>6 DEF SavedOf
    <2> QED
      BY <2>1, <2>2
  <1> QED
    BY <1>5, <1>6 DEF OrderlyOf

\* A step that empties some slots and leaves an addressee alone.
LEMMA OrderlyRemoved ==
  ASSUME IInv, NEW us \in SUBSET Users, Removed(us), NEW w \in Orderly, OrderlyOf(w),
         w \notin us \/ freq[w] = None,
         UNCHANGED <<job, notices, fresh, g_FileSz, saved, impatient>>,
         Fetching(w)' => Fetching(w),
         \A x \in Users : handler'[x] \in {"header", "notice"} => handler[x] \in {"header", "notice"}
  PROVE  OrderlyOf(w)'
  <1>1. w \in Users /\ SlotOf(w) /\ AnnouncedTo(w) /\ SavedOf(w) /\ TypeOK /\ OneOwner
    BY DEF OrderlyOf, Orderly, IInv
  <1>2. freq'[w] = freq[w] /\ (freq[w] # None => heap'[freq[w]] = heap[freq[w]])
    BY <1>1, RemovedFacts
  <1>3. \A x \in Users : Announces(x, w)' => Announces(x, w) /\ job'[x] = job[x]
    BY DEF Announces
  <1>4. SlotOf(w)' /\ AnnouncedTo(w)'
    BY <1>1, <1>2, <1>3, SlotKept
  <1> QED
    BY <1>1, <1>4, SavedKept DEF OrderlyOf

LEMMA OrderlyFopDone ==
  ASSUME FileInv, NEW v \in Users, FopDone(v), NEW w \in Orderly
  PROVE  OrderlyOf(w)'
  <1>1. IInv /\ TypeOK /\ OneOwner /\ w \in Users /\ OrderlyOf(w) /\ SlotOf(w) /\ AnnouncedTo(w) /\ SavedOf(w)
    BY DEF FileInv, HeldInv, IInv, OrderlyInv, OrderlyOf, Orderly
  <1>2. /\ client[v] = "done" /\ client' = [client EXCEPT ![v] = "idle"] /\ Removed({v})
        /\ UNCHANGED <<handler, job, notices, fresh, g_FileSz, saved, impatient>>
    BY DEF FopDone, history
  <1>3. CASE w = v
    <2>1. Fetching(w) /\ ~Fetching(w)'
      BY <1>1, <1>2, <1>3 DEF TypeOK, Fetching
    <2>2. freq'[w] = None
      BY <1>1, <1>2, <1>3, RemovedFacts
    <2>3. notices[w] = <<>> /\ ~fresh[w]
      BY <1>1, <2>1 DEF SlotOf
    <2>4. SlotOf(w)'
      BY <1>2, <2>1, <2>2, <2>3 DEF SlotOf
    <2>5. \A x \in Users : ~ Announces(x, w)'
      BY <1>1, <1>2, <2>1, AnnouncedFacts DEF Announces
    <2> QED
      BY <1>1, <1>2, <2>4, <2>5, SavedKept DEF OrderlyOf, AnnouncedTo
  <1>4. CASE w # v
    <2>1. Fetching(w)' => Fetching(w)
      BY <1>1, <1>2, <1>4 DEF TypeOK, Fetching
    <2> QED
      BY <1>1, <1>2, <1>4, <2>1, OrderlyRemoved
  <1> QED
    BY <1>3, <1>4

LEMMA OrderlyCancel ==
  ASSUME FileInv, NEW u \in Users, NEW v \in Users, Cancel(u, v), NEW w \in Orderly, w \in Orderly'
  PROVE  OrderlyOf(w)'
  <1>1. IInv /\ OrderlyOf(w)
    BY DEF FileInv, HeldInv, OrderlyInv, Orderly
  <1>2. /\ Removed({u, v}) /\ {u, v} \in SUBSET Users
        /\ UNCHANGED <<handler, client, job, notices, fresh, g_FileSz, saved, impatient>>
        /\ cancelled' = cancelled \cup {x \in {u, v} : freq[x] # None}
    BY DEF Cancel, clients
  <1>3. w \notin {u, v} \/ freq[w] = None
    BY <1>2 DEF Orderly
  <1>4. Fetching(w)' = Fetching(w)
    BY <1>2 DEF Fetching
  <1> QED
    BY <1>1, <1>2, <1>3, <1>4, OrderlyRemoved

\* The notices that a client has not read are lost with it; its slot stays
\* until its handler sees the end.
LEMMA OrderlyExit ==
  ASSUME FileInv, NEW u \in Users, Exit(u), NEW w \in Orderly
  PROVE  OrderlyOf(w)'
  <1>1. IInv /\ TypeOK /\ w \in Users /\ OrderlyOf(w) /\ SlotOf(w) /\ AnnouncedTo(w) /\ SavedOf(w)
    BY DEF FileInv, HeldInv, IInv, OrderlyInv, OrderlyOf, Orderly
  <1>2. /\ client' = [client EXCEPT ![u] = "idle"] /\ notices' = [notices EXCEPT ![u] = <<>>]
        /\ UNCHANGED <<handler, freq, heap, job, fresh, g_FileSz, saved, impatient>>
    BY DEF Exit, slots, history
  <1>3. SavedOf(w)'
    BY <1>1, <1>2, SavedKept
  <1>4. \A x \in Users : Announces(x, w)' => Announces(x, w) /\ job'[x] = job[x]
    BY <1>2 DEF Announces
  <1>5. Fetching(w)' => Fetching(w)
    BY <1>1, <1>2 DEF TypeOK, Fetching
  <1>6. CASE w # u
    <2>1. notices'[w] = notices[w]
      BY <1>1, <1>2, <1>6 DEF TypeOK
    <2>2. SlotOf(w)' /\ AnnouncedTo(w)'
      BY <1>1, <1>2, <1>4, <1>5, <2>1, SlotKept
    <2> QED
      BY <1>3, <2>2 DEF OrderlyOf
  <1>7. CASE w = u
    <2>1. notices'[w] = <<>> /\ Pending(w)' = Pending(w)
      BY <1>1, <1>2, <1>7 DEF TypeOK, Pending
    <2>2. SlotOf(w)'
      BY <1>1, <1>2, <1>5, <2>1 DEF SlotOf
    <2>3. AnnouncedTo(w)'
      BY <1>1, <1>2, <1>4, <1>5, <2>1 DEF AnnouncedTo
    <2> QED
      BY <1>3, <2>2, <2>3 DEF OrderlyOf
  <1> QED
    BY <1>6, <1>7

LEMMA OrderlyDisconnect ==
  ASSUME FileInv, NEW u \in Users, Disconnect(u), NEW w \in Orderly, w \in Orderly'
  PROVE  OrderlyOf(w)'
  <1>1. IInv /\ TypeOK /\ OrderlyOf(w)
    BY DEF FileInv, HeldInv, IInv, OrderlyInv, Orderly
  <1>2. /\ Removed({u}) /\ handler' = [handler EXCEPT ![u] = "none"]
        /\ UNCHANGED <<client, job, notices, fresh, g_FileSz, saved, impatient>>
        /\ freq[u] # None => u \in hasty'
    BY DEF Disconnect, clients
  <1>3. w \notin {u} \/ freq[w] = None
    BY <1>2 DEF Orderly
  <1>4. Fetching(w)' = Fetching(w)
    BY <1>2 DEF Fetching
  <1>5. \A x \in Users : handler'[x] \in {"header", "notice"} => handler[x] \in {"header", "notice"}
    BY <1>1, <1>2 DEF TypeOK
  <1> QED
    BY <1>1, <1>2, <1>3, <1>4, <1>5, OrderlyRemoved

\* Nobody who has been hasty or cancelled becomes orderly again.
LEMMA OrderlyShrinks ==
  ASSUME IInv, [Next]_vars PROVE Orderly' \subseteq Orderly
  <1>1. hasty \subseteq hasty' /\ cancelled \subseteq cancelled'
    BY DEF Next, vars, clients, slots, history, Login, SendFile, Refuse, Asks, NotifyHeader, NotifyTarget,
       AnswerSendFile, StartFileTransfer, ReceiveNotice, GetFile, SenderAddress, FileTransfer,
       FopDone, Cancel, Exit, Disconnect
  <1> QED
    BY <1>1 DEF Orderly

\* A file is the same one from the offer to the copy (SEND_FILE, the notice and
\* srv_TCPFileTransfer) for every addressee who asks for an offer after its
\* notice and whose slot nobody cancels and who does not leave with an offer in
\* it, and for every sender who has one offer out at a time, whatever all the
\* others do.
THEOREM FileStaysRight == Spec => []RightFile
<1>1. Init => FileInv
  <2>1. Init => HeldInv
    BY InitIInv DEF HeldInv, Init, PlaceInv, OfferHeld
  <2>2. Init => SeatInv /\ SenderInv
    BY DEF Init, SeatInv, SenderInv, SenderOf
  <2>3. Init => OrderlyInv
    BY DEF Init, OrderlyInv, OrderlyOf, SlotOf, AnnouncedTo, SavedOf, Fetching, Announces
  <2> QED
    BY <2>1, <2>2, <2>3 DEF FileInv
<1>2. FileInv /\ [Next]_vars => HeldInv' /\ SeatInv' /\ SenderInv'
  BY NextIInv, NextPlace, NextHeld, NextSeat, NextSender DEF FileInv, HeldInv
<1>3. ASSUME FileInv, [Next]_vars
      PROVE  OrderlyInv'
  <2> SUFFICES ASSUME NEW w \in Users, w \in Orderly' PROVE OrderlyOf(w)'
    BY DEF OrderlyInv, OrderlyOf
  <2>0. w \in Orderly /\ IInv /\ OrderlyOf(w)
    BY <1>3, OrderlyShrinks DEF FileInv, HeldInv, OrderlyInv
  <2>1. CASE Next
    BY <1>3, <2>0, <2>1, OrderlyLogin, OrderlySendFile, OrderlyRefuse, OrderlyQuiet, OrderlyNotifyTarget,
       OrderlyReceiveNotice, OrderlyGetFile, OrderlyFileTransfer, OrderlyFopDone, OrderlyCancel,
       OrderlyExit, OrderlyDisconnect DEF Next
  <2>2. CASE UNCHANGED vars
    BY <2>0, <2>2 DEF OrderlyOf, SlotOf, AnnouncedTo, SavedOf, Fetching, Announces, Pending,
       vars, slots, clients, history
  <2> QED
    BY <1>3, <2>1, <2>2
<1>4. FileInv => RightFile
  <2> SUFFICES ASSUME FileInv PROVE RightFile
    OBVIOUS
  <2>1. ASSUME NEW u \in Users, handler[u] \in {"header", "notice"}, job[u].to \in Orderly
        PROVE  heap[job[u].freq] = [from |-> u, file |-> job[u].file]
    <3>1. Announces(u, job[u].to) /\ job[u].to \in Users
      BY <2>1 DEF Announces, Orderly
    <3>2. AnnouncedTo(job[u].to)
      BY <2>1, <3>1 DEF FileInv, OrderlyInv, OrderlyOf
    <3> QED
      BY <3>1, <3>2 DEF AnnouncedTo
  <2>2. \A v \in Orderly : SavedOf(v)
    BY DEF FileInv, OrderlyInv, OrderlyOf, Orderly
  <2> QED
    BY <2>1, <2>2 DEF RightFile, SavedOf
<1> QED
  BY <1>1, <1>2, <1>3, <1>4, PTL DEF Spec, FileInv
=============================================================================
