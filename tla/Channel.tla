------------------------------- MODULE Channel -------------------------------
(***************************************************************************)
(* What a conversation promises, without ratchets, caches or wires: between  *)
(* two saves a device reads a message its peer sent at most once, in any     *)
(* order; a crash takes it back to what it saved, and no further.            *)
(***************************************************************************)
EXTENDS Integers

CONSTANTS Device, Other(_)   \* the two devices, and the other of them

VARIABLES
  sent,    \* messages each device has sent
  read,    \* messages each device knows it has read, and how many it was shown
  kept     \* what of that would survive a crash

vars == <<sent, read, kept>>

Nothing == [messages |-> {}, shown |-> 0]

Init ==
  /\ sent = [d \in Device |-> {}]
  /\ read = [d \in Device |-> Nothing]
  /\ kept = read

Send(d) ==
  /\ \E m \in sent'[d] \ sent[d] : sent' = [sent EXCEPT ![d] = @ \cup {m}]
  /\ UNCHANGED <<read, kept>>

Read(d, m) ==
  /\ m \notin read[d].messages
  /\ read' = [read EXCEPT ![d] = [messages |-> @.messages \cup {m},
                                  shown |-> @.shown + 1]]
  /\ UNCHANGED <<sent, kept>>

Save(d) ==
  /\ kept' = [kept EXCEPT ![d] = read[d]]
  /\ UNCHANGED <<sent, read>>

Crash(d) ==
  /\ read' = [read EXCEPT ![d] = kept[d]]
  /\ UNCHANGED <<sent, kept>>

Next ==
  \E d \in Device :
    \/ Send(d)
    \/ \E m \in sent[Other(d)] : Read(d, m)
    \/ Save(d)
    \/ Crash(d)

Spec == Init /\ [][Next]_vars
=============================================================================
