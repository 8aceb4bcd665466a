---------------------------- MODULE CarefulMailer ----------------------------
(***************************************************************************)
(* What an outbox may do, without rows, batches, delays or receipts: post a  *)
(* letter only when it was asked to, again only while no acceptance by the   *)
(* post office stands confirmed; show as posted only what was posted, and    *)
(* take that back only while no acceptance stands confirmed.                 *)
(*                                                                          *)
(* This is about what may not happen; that a letter is posted at all is not  *)
(* said here.  Only the post office confirms: a letter of which no more than *)
(* the addressee's receipt came may be posted again.                         *)
(***************************************************************************)
EXTENDS Integers

CONSTANT Letter

VARIABLES
  asked,        \* letters to be posted
  copies,       \* how often the post office accepted each
  unconfirmed,  \* how many of those acceptances the sender never learned of or forgot
  shown         \* letters shown as posted

vars == <<asked, copies, unconfirmed, shown>>

Init ==
  /\ asked = {} /\ shown = {}
  /\ copies = [l \in Letter |-> 0]
  /\ unconfirmed = [l \in Letter |-> 0]

Ask(l) ==
  /\ l \notin asked
  /\ asked' = asked \cup {l}
  /\ UNCHANGED <<copies, unconfirmed, shown>>

Confirmed(l) == copies[l] > unconfirmed[l]

Post(l) ==
  /\ l \in asked /\ ~Confirmed(l)
  /\ copies' = [copies EXCEPT ![l] = @ + 1]
  /\ unconfirmed' \in {unconfirmed, [unconfirmed EXCEPT ![l] = @ + 1]}
  /\ UNCHANGED <<asked, shown>>

Forget(l) ==
  /\ Confirmed(l)
  /\ unconfirmed' = [unconfirmed EXCEPT ![l] = @ + 1]
  /\ UNCHANGED <<asked, copies, shown>>

Show(l) ==
  /\ copies[l] > 0
  /\ shown' = shown \cup {l}
  /\ UNCHANGED <<asked, copies, unconfirmed>>

TakeBack(l) ==
  /\ ~Confirmed(l)
  /\ shown' = shown \ {l}
  /\ UNCHANGED <<asked, copies, unconfirmed>>

Next ==
  \E l \in Letter : Ask(l) \/ Post(l) \/ Forget(l) \/ Show(l) \/ TakeBack(l)

Spec == Init /\ [][Next]_vars
=============================================================================
