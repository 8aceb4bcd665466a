---------------------------- MODULE MailboxSync ----------------------------
(***************************************************************************)
(* Reading the mailbox: fetch_since_uid of crates/mail-transport and the     *)
(* cursors table of crates/storage (cursor, save_cursor), with an IMAP       *)
(* folder that other clients deliver to and delete from meanwhile.           *)
(*                                                                          *)
(* The loop around the calls is not in the repository.  The one modelled     *)
(* here treats them with care: it reads the cursor, fetches, handles every   *)
(* message it was given, and only then saves the highest UID among them.     *)
(* Handling a message is to call open_ciphertext; whether that reads it or   *)
(* refuses it, the loop goes on (MailReading has what comes of either).      *)
(*                                                                          *)
(* fetch_since_uid sends UID SEARCH with a bare range.  In IMAP a bare range *)
(* is a set of message sequence numbers, that is, of positions in the        *)
(* folder; only the answer is in UIDs (RFC 3501, 6.4.4 and 6.4.8).           *)
(***************************************************************************)
EXTENDS Integers, FiniteSets, SequencesExt

CONSTANTS
  MaxMail,      \* bound: messages delivered to the folder
  MaxExpunges,  \* bound: messages other clients delete
  MaxBodiless,  \* bound: messages the server gives out without a body
  MaxFaults     \* bound: crashes, and calls that end in an error

ASSUME BoundsAssumption == {MaxMail, MaxExpunges, MaxBodiless, MaxFaults} \subseteq Nat

VARIABLES
  folder,    \* UIDs in the folder, in the order of their sequence numbers
  uid_next,  \* UID the next delivery gets
  bodiless,  \* messages whose fetch has no body
  cursor,    \* table cursors: last_uid of the folder, 0 without a row
  phase,     \* where the loop is
  uids,      \* inside fetch_since_uid: UIDs found and not fetched yet
  out,       \* messages fetched and not handled yet
  highest,   \* highest UID the fetch returned
  handled,   \* history: messages given to open_ciphertext
  expunged,  \* history: messages deleted
  faults

vars == <<folder, uid_next, bodiless, cursor, phase, uids, out, highest, handled,
          expunged, faults>>
server == <<folder, uid_next, bodiless, expunged>>

Uid == 1 .. MaxMail
Highest(S) == CHOOSE u \in S : \A v \in S : v <= u

Init ==
  /\ folder = << >>
  /\ uid_next = 1 /\ bodiless = {}
  /\ cursor = 0
  /\ phase = "idle"
  /\ uids = {} /\ out = {} /\ highest = 0
  /\ handled = {} /\ expunged = {}
  /\ faults = 0

-----------------------------------------------------------------------------
(* The server.                                                              *)
Deliver ==
  /\ uid_next <= MaxMail
  /\ folder' = Append(folder, uid_next)
  /\ uid_next' = uid_next + 1
  /\ bodiless' \in {bodiless, bodiless \cup {uid_next}}
  /\ Cardinality(bodiless') <= MaxBodiless
  /\ UNCHANGED <<cursor, phase, uids, out, highest, handled, expunged, faults>>

Expunge(i) ==
  /\ Cardinality(expunged) < MaxExpunges
  /\ folder' = RemoveAt(folder, i)
  /\ expunged' = expunged \cup {folder[i]}
  /\ UNCHANGED <<uid_next, bodiless, cursor, phase, uids, out, highest, handled, faults>>

\* The answers to UID SEARCH from:*, by position.  Beyond the end of the folder
\* the range is that of the last message, or an error.
SearchAnswers(from) ==
  IF from <= Len(folder) THEN {{folder[i] : i \in from .. Len(folder)}}
  ELSE IF folder = << >> THEN {{}}
  ELSE {{}, {Last(folder)}}

-----------------------------------------------------------------------------
(* The device.                                                              *)
SearchFromLast(last_uid) == last_uid + 2   \* Slip: one past the first new one
SearchFrom(last_uid) == last_uid + 1       \* last_uid.saturating_add(1)

Search ==
  /\ phase = "idle"
  /\ \E found \in SearchAnswers(SearchFrom(cursor)) :
       found # {} /\ uids' = found /\ highest' = 0
  /\ phase' = "fetching"
  /\ UNCHANGED <<server, cursor, out, handled, faults>>

HasNoBody(u) == Contains(folder, u) /\ u \in bodiless

Dropped == phase' = "idle" /\ uids' = {} /\ out' = {} /\ highest' = 0

\* One UID FETCH; the set is a HashSet, so the order is any.  A message that
\* was deleted meanwhile yields nothing.
FetchOne(u) ==
  /\ phase = "fetching" /\ ~HasNoBody(u)
  /\ uids' = uids \ {u}
  /\ IF Contains(folder, u) THEN out' = out \cup {u} /\ highest' = Highest({highest, u})
                            ELSE UNCHANGED <<out, highest>>
  /\ phase' = IF uids = {u} THEN "handling" ELSE "fetching"
  /\ UNCHANGED <<server, cursor, handled, faults>>

\* "missing RFC822 body": what was fetched before is lost with the error, and the
\* next fetch meets the same message again.
FetchFails(u) ==
  /\ phase = "fetching" /\ HasNoBody(u)
  /\ Dropped
  /\ UNCHANGED <<server, cursor, handled, faults>>

Handle(u) ==
  /\ phase = "handling"
  /\ out' = out \ {u}
  /\ handled' = handled \cup {u}
  /\ UNCHANGED <<server, cursor, phase, uids, highest, faults>>

\* Slip: what is saved is the next UID, not the last.
SaveCursorPastEnd ==
  /\ phase = "handling" /\ out = {}
  /\ cursor' = IF highest = 0 THEN cursor ELSE highest + 1
  /\ phase' = "idle"
  /\ UNCHANGED <<server, uids, out, highest, handled, faults>>

SaveCursor ==
  /\ phase = "handling" /\ out = {}
  /\ cursor' = IF highest = 0 THEN cursor ELSE highest
  /\ phase' = "idle"
  /\ UNCHANGED <<server, uids, out, highest, handled, faults>>

\* A crash, or a connection that fails: all the loop had is dropped.
Abandon ==
  /\ phase # "idle"
  /\ faults < MaxFaults
  /\ faults' = faults + 1
  /\ Dropped
  /\ UNCHANGED <<server, cursor, handled>>

Next ==
  \/ Deliver
  \/ \E i \in 1 .. Len(folder) : Expunge(i)
  \/ Search
  \/ \E u \in uids : FetchOne(u) \/ FetchFails(u)
  \/ \E u \in out : Handle(u)
  \/ SaveCursor
  \/ Abandon

Spec == Init /\ [][Next]_vars

\* The device polls again and again (PollConfig) and finishes what it started.
FairSpec ==
  /\ Spec
  /\ WF_vars(Search)
  /\ WF_vars(\E u \in uids : FetchOne(u) \/ FetchFails(u))
  /\ WF_vars(\E u \in out : Handle(u))
  /\ WF_vars(SaveCursor)

-----------------------------------------------------------------------------
(* Properties.                                                              *)

\* The folder is in UID order and the loop's sets are UIDs it was given.
TypeOK ==
  /\ folder \in Seq(Uid)
  /\ \A i, j \in 1 .. Len(folder) : i < j => folder[i] < folder[j]
  /\ uid_next \in 1 .. MaxMail + 1
  /\ cursor \in 0 .. uid_next - 1
  /\ phase \in {"idle", "fetching", "handling"}
  /\ uids \in SUBSET Uid /\ out \in SUBSET Uid /\ highest \in 0 .. MaxMail
  /\ handled \in SUBSET Uid /\ expunged \in SUBSET Uid /\ bodiless \in SUBSET Uid
  /\ (phase = "fetching" <=> uids # {})
  /\ faults \in Nat

\* The cursor passes no message that was not handled, whatever is delivered
\* during a fetch and wherever the loop fails, as long as nothing was ever
\* deleted from the folder (fetch_since_uid, save_cursor).
NoGapWithoutExpunge ==
  expunged = {} => \A u \in 1 .. cursor : u \in handled

\* Each message is given to open_ciphertext in the end, as long as nothing was
\* ever deleted and every message has a body; one that has none stops the folder
\* for good (fetch_since_uid).
EveryMessageIsHandled ==
  \A u \in Uid :
    Contains(folder, u) ~> (u \in handled \/ expunged # {} \/ bodiless # {})

\* "IMAP sync uses folder-local UID cursors": a message that is in the folder
\* and not beyond the cursor has been handled.
CursorIsUidCursor ==
  \A i \in 1 .. Len(folder) : folder[i] <= cursor => folder[i] \in handled
=============================================================================
