--------------------------------- MODULE Feed ---------------------------------
(***************************************************************************)
(* What a push connection promises to the client at its end, without       *)
(* handlers, mutex, packets and buffer: pushes are posted, and each is     *)
(* shown at most once, in the order of posting, and never before it was    *)
(* posted.  As long as nothing has been mixed up, none is left out, each   *)
(* has its own text, and the reader gives up only over a push.             *)
(* PushChannel implements it.                                              *)
(***************************************************************************)
EXTENDS Naturals, Sequences

VARIABLES
  posted,  \* pushes posted so far; a push is named by its place among them
  shown,   \* pairs: the push that was announced, the push whose text followed
  mixed,   \* whether packets have met that were not to meet
  ended    \* whether nobody is there any more to show anything

vars == <<posted, shown, mixed, ended>>

Latest == IF shown = <<>> THEN 0 ELSE shown[Len(shown)][1]

\* Posted, and later than all that has been shown.
Pending == Latest + 1 .. posted

Init ==
  /\ posted = 0 /\ shown = <<>>
  /\ mixed = FALSE /\ ended = FALSE

\* What is posted can be mixed up with what is on its way.
Post ==
  /\ ~ended
  /\ posted' = posted + 1
  /\ mixed' \in {mixed, TRUE}
  /\ UNCHANGED <<shown, ended>>

\* So can what is being posted, or what the client asks for meanwhile.
Mix ==
  /\ mixed' = TRUE
  /\ UNCHANGED <<posted, shown, ended>>

\* The client may ask for the sender's name with it.
Show(n, text) ==
  /\ ~ended
  /\ n \in Pending
  /\ ~mixed => n = Latest + 1 /\ text = n
  /\ shown' = Append(shown, <<n, text>>)
  /\ mixed' \in {mixed, TRUE}
  /\ UNCHANGED <<posted, ended>>

\* The reader gives up over a push, or for what has been mixed up.
End ==
  /\ ~ended
  /\ mixed \/ Pending # {}
  /\ ended' = TRUE
  /\ UNCHANGED <<posted, shown, mixed>>

Next == Post \/ Mix \/ End \/ \E n, text \in 1 .. posted : Show(n, text)

Spec == Init /\ [][Next]_vars
=============================================================================
