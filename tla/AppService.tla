----------------------------- MODULE AppService -----------------------------
(***************************************************************************)
(* crates/app-services as a whole: the contacts of ContactTrust and the      *)
(* outbox of Outbox in one database, joined by queue_outbound_message.       *)
(*                                                                          *)
(* queue_outbound_message is handed a ContactIdentity and judges that copy;  *)
(* send_outbox_item is handed an OutboxItem and looks at no contact.  So     *)
(* between the moment a caller read the contact and the moment the mail      *)
(* leaves, answers may be registered, the user may confirm, the worker may   *)
(* fail and retry.                                                          *)
(***************************************************************************)
EXTENDS ContactTrust

CONSTANTS
  Message, BaseDelay, MaxDelay, MaxAttempts, AttemptCap, MaxFaults, NoItem  \* of Outbox

VARIABLES
  rows, batch, sending, mails, lost, read_to, receipts, faults,   \* of Outbox
  snapshot,   \* the ContactIdentity the caller holds for an address
  addressed   \* history: the snapshot each message was queued with

O == INSTANCE Outbox

Address == [email : Email, contact : ContactIdentity]

ASSUME AppAssumption ==
  /\ O!PolicyAssumption /\ O!NoItemAssumption
  /\ NoItem \notin Address

outboxVars == <<rows, batch, sending, mails, lost, read_to, receipts, faults>>
appVars == <<vars, outboxVars, snapshot, addressed>>

AppInit ==
  /\ Init
  /\ O!Init
  /\ snapshot = [e \in Email |-> NoContact]
  /\ addressed = [m \in Message |-> NoItem]

-----------------------------------------------------------------------------
\* contact(); register_contact_response and mark_contact_verified return the
\* same row they have just saved.
ReadContact(e) ==
  /\ Pinned(e)
  /\ snapshot' = [snapshot EXCEPT ![e] = contacts[e]]
  /\ UNCHANGED <<vars, outboxVars, addressed>>

\* Slip: the trust state is not looked at.
MaySendAnyway(contact) == contact # NoContact
MaySend(contact) ==
  contact # NoContact /\ contact.trust_state # "BlockedIdentityChange"

QueueOutboundMessage(e, m) ==
  /\ MaySend(snapshot[e])
  /\ O!QueueOutboundMessage(m)
  /\ addressed' = [addressed EXCEPT ![m] = [email |-> e, contact |-> snapshot[e]]]
  /\ UNCHANGED <<vars, snapshot>>

AppNext ==
  \/ Next /\ UNCHANGED <<outboxVars, snapshot, addressed>>
  \/ O!Forward /\ UNCHANGED <<vars, snapshot, addressed>>
  \/ \E e \in Email : ReadContact(e) \/ \E m \in Message : QueueOutboundMessage(e, m)

AppSpec == AppInit /\ [][AppNext]_appVars

-----------------------------------------------------------------------------
(* Properties.                                                              *)

\* A message is queued once, for a contact that was pinned and not blocked.
AppTypeOK ==
  /\ snapshot \in [Email -> ContactIdentity \cup {NoContact}]
  /\ \A m \in Message :
       IF O!Queued(m)
       THEN /\ addressed[m] \in Address
            /\ ~(addressed[m].contact.trust_state = "BlockedIdentityChange")
       ELSE addressed[m] = NoItem

\* Whatever is mailed, and however long it waited, failed and was tried again,
\* was queued for the identity first seen at its address or for one the user
\* confirmed, though the caller's copy of the contact may be older than the
\* answers registered since (queue_outbound_message, tofu_pin).
MailGoesToTrustedIdentity ==
  \A m \in Message :
    mails[m] > 0 =>
      LET a == addressed[m]
      IN  /\ a # NoItem
          /\ a.contact.fingerprint \in {first[a.email]} \cup vouched[a.email]
=============================================================================
