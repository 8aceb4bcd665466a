---------------------------- MODULE MailReading ----------------------------
(***************************************************************************)
(* The conversation of RatchetSession carried by mail: sealed wires reach a  *)
(* folder once, twice, in another order or never; fetch_since_uid returns    *)
(* what lies past the cursor, open_message reads it, and the session and the *)
(* cursor are saved apart (crates/envelope, mail-transport, storage).        *)
(*                                                                          *)
(* The loop around the calls is not in the repository.  The one modelled     *)
(* here keeps two rules: an envelope leaves only after the session that      *)
(* sealed it was saved, and the cursor is saved only after the session that  *)
(* read the batch was.  The question is whether these two are enough for     *)
(* crashes anywhere in between.                                              *)
(*                                                                          *)
(* A conversation may also have no such carrier: then any envelope is handed *)
(* over at any time, as RatchetSession has it.                               *)
(*                                                                          *)
(* Nothing is deleted from a folder, so that a position is a UID;            *)
(* MailboxSync has the steps of a fetch and what deletions do to them.       *)
(***************************************************************************)
EXTENDS RatchetSession

CONSTANT MaxMail   \* bound: messages in a folder, copies included

ASSUME MailAssumption == MaxMail \in Nat

VARIABLES
  inbox,    \* the folder of each party; message i has UID i
  cursor,   \* table cursors: last_uid, 0 without a row
  out,      \* UIDs fetched and not given to open_message yet
  highest,  \* highest UID of the fetch under way, 0 when there is none
  carrier   \* what hands envelopes over: the mail and its loop, or anything

mailVars == <<inbox, cursor, out, highest>>
allVars == <<vars, mailVars, carrier>>

MailInit ==
  /\ Init
  /\ inbox = [p \in Party |-> << >>]
  /\ cursor = [p \in Party |-> 0]
  /\ out = [p \in Party |-> {}]
  /\ highest = [p \in Party |-> 0]
  /\ carrier \in {"mail", "anything"}

-----------------------------------------------------------------------------
\* Slip: the envelope is let out before the session is saved.
MayLeaveAtOnce(p, w) == w \notin orphans
MayLeave(p, w) == w \notin unsaved[p] /\ w \notin orphans

Deliver(p, w) ==
  /\ MayLeave(p, w)
  /\ Len(inbox[Peer(p)]) < MaxMail
  /\ inbox' = [inbox EXCEPT ![Peer(p)] = Append(@, w)]
  /\ UNCHANGED <<vars, cursor, out, highest>>

\* UID SEARCH last_uid+1:*, which beyond the end finds the last message again
\* (or nothing), and the fetches.
Found(p) ==
  IF cursor[p] < Len(inbox[p]) THEN cursor[p] + 1 .. Len(inbox[p]) ELSE {Len(inbox[p])}

Fetch(p) ==
  /\ highest[p] = 0 /\ inbox[p] # << >>
  /\ out' = [out EXCEPT ![p] = Found(p)]
  /\ highest' = [highest EXCEPT ![p] = Len(inbox[p])]
  /\ UNCHANGED <<vars, inbox, cursor>>

\* What the loop holds goes with the process.
Dropped(p) == out' = [out EXCEPT ![p] = {}] /\ highest' = [highest EXCEPT ![p] = 0]

\* One message of the batch, in any order (uids is a HashSet).  After an error
\* the loop goes on with the next.
OpenOne(p, i) ==
  /\ Open(p, inbox[p][i])
  /\ IF outcome' = "aborted"
     THEN Dropped(p)
     ELSE out' = [out EXCEPT ![p] = @ \ {i}] /\ UNCHANGED highest
  /\ UNCHANGED <<inbox, cursor>>

\* Slips: the session need not be saved; the next UID is saved, not the last.
SaveCursorFirst(p) ==
  /\ highest[p] # 0 /\ out[p] = {}
  /\ cursor' = [cursor EXCEPT ![p] = highest[p]]
  /\ highest' = [highest EXCEPT ![p] = 0]
  /\ UNCHANGED <<vars, inbox, out>>
SaveCursorPastEnd(p) ==
  /\ highest[p] # 0 /\ out[p] = {} /\ stored[p] = session[p]
  /\ cursor' = [cursor EXCEPT ![p] = highest[p] + 1]
  /\ highest' = [highest EXCEPT ![p] = 0]
  /\ UNCHANGED <<vars, inbox, out>>

SaveCursor(p) ==
  /\ highest[p] # 0 /\ out[p] = {} /\ stored[p] = session[p]
  /\ cursor' = [cursor EXCEPT ![p] = highest[p]]
  /\ highest' = [highest EXCEPT ![p] = 0]
  /\ UNCHANGED <<vars, inbox, out>>

\* The loop; it saves the session at any time it likes, not just when it must.
Poll(p) ==
  \/ Fetch(p)
  \/ \E i \in out[p] : OpenOne(p, i)
  \/ SaveSession(p) /\ UNCHANGED mailVars
  \/ SaveCursor(p)

MailStep ==
  \E p \in Party :
    \/ Seal(p) /\ UNCHANGED mailVars
    \/ \E w \in sent[p] : Deliver(p, w)
    \/ Poll(p)
    \/ Restart(p) /\ Dropped(p) /\ UNCHANGED <<inbox, cursor>>

MailNext ==
  /\ \/ carrier = "mail" /\ MailStep
     \/ carrier = "anything" /\ Next /\ UNCHANGED mailVars
  /\ UNCHANGED carrier

MailSpec == MailInit /\ [][MailNext]_allVars

-----------------------------------------------------------------------------
(* Properties.                                                              *)

\* The loop and the cursor know no UID that the folder does not have.
MailTypeOK ==
  /\ inbox \in [Party -> Seq(Wire)]
  /\ \A p \in Party :
       /\ cursor[p] \in 0 .. Len(inbox[p])
       /\ highest[p] \in 0 .. Len(inbox[p])
       /\ out[p] \subseteq 1 .. highest[p]

ReadOrStopped(s, w) == w \in s.opened \/ Len(s.replay_cache) > MaxSkipped

\* Nothing behind the cursor is forgotten in a crash: the session a restart loads
\* has read it, unless that session has come to read nothing more (save_cursor
\* after save_session; fetch_since_uid never returns it again).
CursorPassesOnlyRead ==
  \A p \in Party : \A i \in 1 .. cursor[p] : ReadOrStopped(stored[p], inbox[p][i])

\* Whatever arrived and was not read can be read, with crashes of either side
\* anywhere between sealing, mailing, opening and the two saves: a number that is
\* used again after a crash is never in the mail twice (seal_message,
\* save_session, ratchet_decrypt).
ArrivedStaysReadable ==
  \A p \in Party : \A i \in 1 .. Len(inbox[p]) :
    inbox[p][i] \notin session[p].opened => CanDecrypt(session[p].ratchet, inbox[p][i])
=============================================================================
