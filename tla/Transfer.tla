------------------------------ MODULE Transfer ------------------------------
(***************************************************************************)
(* What the file transfer service promises a client: a request is answered *)
(* by the units of its answer, each once and in order, and by nothing else.*)
(***************************************************************************)
EXTENDS Naturals, Sequences

CONSTANTS
  Request,     \* what a client may ask for
  NoRequest,   \* it has not asked yet
  Answer(_)    \* Answer(r): the units that answer r

VARIABLES
  want,        \* the latest request
  got          \* what has arrived of its answer

transferVars == <<want, got>>

Answered == want = NoRequest \/ got = Answer(want)

Init == want = NoRequest /\ got = <<>>

Ask(r) == Answered /\ want' = r /\ got' = <<>>

Deliver(n) ==
  /\ ~Answered
  /\ Len(got) + n <= Len(Answer(want))
  /\ got' = SubSeq(Answer(want), 1, Len(got) + n)
  /\ UNCHANGED want

(* The link goes down: after the client has what it asked for.             *)
Leave == Answered /\ want' = NoRequest /\ got' = <<>>

Next ==
  \/ \E r \in Request : Ask(r)
  \/ want # NoRequest /\ \E n \in 1 .. Len(Answer(want)) : Deliver(n)
  \/ Leave

Spec == Init /\ [][Next]_transferVars
=============================================================================
