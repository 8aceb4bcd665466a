---------------------------- MODULE ContactTrust ----------------------------
(***************************************************************************)
(* How a device comes to trust a contact: crates/bootstrap (invites, their   *)
(* answers, TOFU pinning) driven by crates/app-services and kept in the      *)
(* contacts and invite_responses tables of crates/storage.                   *)
(*                                                                          *)
(* One device invites; its peers answer by mail.  An answer, once mailed,    *)
(* may be handed to register_contact_response at any time, any number of     *)
(* times and in any order, or never.  A peer who loses a device starts       *)
(* again from generate_device_keys: the repository has no other way to a     *)
(* new signed prekey, so new keys are always a new identity.                 *)
(*                                                                          *)
(* The user compares fingerprints out of band with the peer's device, then   *)
(* confirms; mark_contact_verified runs some time after the comparison.      *)
(***************************************************************************)
EXTENDS Integers, FiniteSets

CONSTANTS
  Email,         \* the peers, by address
  InviteLife,    \* create_contact_invite: expires_at - issued_at (3 days)
  PrekeyLife,    \* DEFAULT_SIGNED_PREKEY_LIFETIME_DAYS (14 days)
  MaxInvites,    \* bound: invites issued
  MaxIdentities, \* bound: devices a peer has in turn
  MaxTime        \* bound: the clock

ASSUME BoundsAssumption ==
  /\ {InviteLife, PrekeyLife, MaxInvites, MaxIdentities, MaxTime} \subseteq Nat
  /\ IsFiniteSet(Email)

VARIABLES
  now,              \* OffsetDateTime::now_utc()
  invites,          \* ContactInvites issued by this device
  device,           \* DeviceKeys of each peer: identity and signed prekey
  mail,             \* ContactInviteResponses mailed so far
  contacts,         \* table contacts: what is pinned for an address, if any
  invite_responses, \* table invite_responses, keyed by invite_id
  comparison,       \* fingerprint the user has just compared, not yet confirmed
  first,            \* history: the fingerprint first pinned for an address
  vouched,          \* history: fingerprints pinned when the user confirmed
  compared,         \* history: fingerprints the user has compared
  registered        \* history: answers registered in full

history == <<first, vouched, compared, registered>>
vars == <<now, invites, device, mail, contacts, invite_responses, comparison, history>>

None == 0                               \* no fingerprint, no row
Fingerprint == Nat \ {None}             \* a peer's identities, in turn
TrustState  == {"Unverified", "Verified", "BlockedIdentityChange"}
ContactIdentity ==
  [fingerprint : Fingerprint, trust_state : TrustState, verified_at : BOOLEAN]
Invite   == [invite_id : Nat, expires_at : Nat]
Response == [invite_id : Nat, email : Email, fingerprint : Fingerprint, expires_at : Nat]

NoContact == [fingerprint |-> None, trust_state |-> "Unverified", verified_at |-> FALSE]
Pinned(e) == contacts[e] # NoContact
Blocked(e) == contacts[e].trust_state = "BlockedIdentityChange"

\* generate_device_keys: an identity and a signed prekey that ages.
DeviceKeys(n) == [fingerprint |-> n, expires_at |-> now + PrekeyLife]

Init ==
  /\ now = 0
  /\ invites = {}
  /\ device = [e \in Email |-> DeviceKeys(1)]
  /\ mail = {}
  /\ contacts = [e \in Email |-> NoContact]
  /\ invite_responses = {}
  /\ comparison = [e \in Email |-> None]
  /\ first = [e \in Email |-> None]
  /\ vouched = [e \in Email |-> {}]
  /\ compared = [e \in Email |-> {}]
  /\ registered = {}

-----------------------------------------------------------------------------
IssueContactInvite ==
  /\ Cardinality(invites) < MaxInvites
  /\ invites' = invites \cup
       {[invite_id |-> Cardinality(invites), expires_at |-> now + InviteLife]}
  /\ UNCHANGED <<now, device, mail, contacts, invite_responses, comparison, history>>

\* validate_contact_invite, maybe_validate_signed_prekey_age.
InviteExpired(i) == i.expires_at < now
SignedPrekeyExpired(r) == r.expires_at < now

CreateInviteResponse(e, i) ==
  [invite_id |-> i.invite_id, email |-> e,
   fingerprint |-> device[e].fingerprint, expires_at |-> device[e].expires_at]

\* A peer answers an invite; it names no addressee, so any peer may.
AcceptContactInvite(e, i) ==
  /\ ~InviteExpired(i)
  /\ mail' = mail \cup {CreateInviteResponse(e, i)}
  /\ UNCHANGED <<now, invites, device, contacts, invite_responses, comparison, history>>

\* The peer's device is lost and set up again.
Reinstall(e) ==
  /\ device[e].fingerprint < MaxIdentities
  /\ device' = [device EXCEPT ![e] = DeviceKeys(@.fingerprint + 1)]
  /\ UNCHANGED <<now, invites, mail, contacts, invite_responses, comparison, history>>

\* verify_invite_response: the invite's expiry plays no part.
ResponseVerified(r) ==
  /\ \E i \in invites : i.invite_id = r.invite_id
  /\ ~SignedPrekeyExpired(r)

\* tofu_pin, after two slips: an answer with the pinned key unblocks; a new key
\* inherits the trust of the old one.
TofuPinForgetsBlock(existing, fp) ==
  IF existing = NoContact \/ existing.fingerprint = fp THEN "Unverified"
  ELSE "BlockedIdentityChange"
TofuPinTrusting(existing, fp) ==
  IF existing = NoContact THEN "Unverified" ELSE existing.trust_state
TofuPin(existing, fp) ==
  IF existing = NoContact THEN "Unverified"
  ELSE IF existing.fingerprint = fp THEN existing.trust_state
  ELSE "BlockedIdentityChange"

\* save_contact, the first of register_contact_response's two writes.
SaveContact(r) ==
  /\ contacts' = [contacts EXCEPT ![r.email] =
       [fingerprint |-> r.fingerprint,
        trust_state |-> TofuPin(contacts[r.email], r.fingerprint),
        verified_at |-> FALSE]]
  /\ first' = [first EXCEPT ![r.email] = IF @ = None THEN r.fingerprint ELSE @]

\* store_invite_response, the second: INSERT OR REPLACE by invite_id.
StoreInviteResponseAnew(r) ==    \* Slip: the key is not the invite_id alone
  /\ invite_responses' = invite_responses \cup {r}
  /\ registered' = registered \cup {r}
StoreInviteResponse(r) ==
  /\ invite_responses' = {s \in invite_responses : s.invite_id # r.invite_id} \cup {r}
  /\ registered' = registered \cup {r}

RegisterContactResponse(r) ==
  /\ ResponseVerified(r)
  /\ SaveContact(r)
  /\ StoreInviteResponse(r)
  /\ UNCHANGED <<now, invites, device, mail, comparison, vouched, compared>>

\* The device goes down, or the database fails, between the two writes.
FirstWriteOfStore(r) ==    \* Slip: the answer is stored before the contact
  /\ StoreInviteResponse(r)
  /\ UNCHANGED <<contacts, first>>
FirstWrite(r) ==
  /\ SaveContact(r)
  /\ UNCHANGED <<invite_responses, registered>>

RegisterInterrupted(r) ==
  /\ ResponseVerified(r)
  /\ FirstWrite(r)
  /\ UNCHANGED <<now, invites, device, mail, comparison, vouched, compared>>

\* The user reads the pinned fingerprint to the peer and they agree.
CompareFingerprint(e) ==
  /\ Pinned(e)
  /\ contacts[e].fingerprint = device[e].fingerprint
  /\ comparison' = [comparison EXCEPT ![e] = contacts[e].fingerprint]
  /\ compared' = [compared EXCEPT ![e] = @ \cup {contacts[e].fingerprint}]
  /\ UNCHANGED <<now, invites, device, mail, contacts, invite_responses,
                 first, vouched, registered>>

\* The user confirms; the call names the address, not the fingerprint.
MarkContactVerified(e) ==
  /\ comparison[e] # None
  /\ Pinned(e)
  /\ contacts' = [contacts EXCEPT ![e].trust_state = "Verified", ![e].verified_at = TRUE]
  /\ comparison' = [comparison EXCEPT ![e] = None]
  /\ vouched' = [vouched EXCEPT ![e] = @ \cup {contacts[e].fingerprint}]
  /\ UNCHANGED <<now, invites, device, mail, invite_responses, first, compared, registered>>

Tick ==
  /\ now < MaxTime
  /\ now' = now + 1
  /\ UNCHANGED <<invites, device, mail, contacts, invite_responses, comparison, history>>

Next ==
  \/ IssueContactInvite
  \/ \E e \in Email :
       \/ \E i \in invites : AcceptContactInvite(e, i)
       \/ Reinstall(e)
       \/ CompareFingerprint(e)
       \/ MarkContactVerified(e)
  \/ \E r \in mail : RegisterContactResponse(r) \/ RegisterInterrupted(r)
  \/ Tick

Spec == Init /\ [][Next]_vars

-----------------------------------------------------------------------------
(* Properties.                                                              *)

\* The two tables hold well-formed rows, at most one per key.
TypeOK ==
  /\ now \in Nat
  /\ invites \in SUBSET Invite
  /\ device \in [Email -> [fingerprint : Fingerprint, expires_at : Nat]]
  /\ mail \in SUBSET Response
  /\ contacts \in [Email -> ContactIdentity \cup {NoContact}]
  /\ invite_responses \in SUBSET Response
  /\ \A r, s \in invite_responses : r.invite_id = s.invite_id => r = s
  /\ comparison \in [Email -> Nat]
  /\ first \in [Email -> Nat]
  /\ vouched \in [Email -> SUBSET Fingerprint]
  /\ compared \in [Email -> SUBSET Fingerprint]
  /\ registered \in SUBSET Response

\* Whatever order the answers of old and new devices arrive in, a contact one
\* may write to without a warning is pinned to the identity first seen, or to
\* one that was pinned when the user confirmed (tofu_pin, mark_contact_verified).
TrustIsFirstUseOrUser ==
  \A e \in Email :
    Pinned(e) =>
      CASE contacts[e].trust_state = "Unverified" -> contacts[e].fingerprint = first[e]
        [] contacts[e].trust_state = "Verified"   -> contacts[e].fingerprint \in vouched[e]
        [] OTHER -> TRUE

\* No answer lifts a block, not even that of an identity which was trusted
\* once and is back: the user has to confirm (tofu_pin keeps the state of a
\* row whose key it matches).
OnlyTheUserLiftsABlock ==
  [][\A e \in Email : Blocked(e) /\ ~Blocked(e)' => MarkContactVerified(e)]_vars

\* A failure between the two writes of register_contact_response loses the
\* record of the answer, never the pin: no stored answer is without contact.
StoredAnswerHasContact ==
  \A r \in invite_responses : Pinned(r.email)

\* "Users must complete out-of-band verification": a contact is shown as
\* verified only for a fingerprint the user has compared.
VerifiedWasCompared ==
  \A e \in Email :
    contacts[e].trust_state = "Verified" => contacts[e].fingerprint \in compared[e]

\* "Reprocessing the same email must be safe": an answer registered before,
\* handed over again, leaves the contact as it is.
ReprocessingKeepsContact ==
  [][\A r \in registered :
       RegisterContactResponse(r) => contacts'[r.email] = contacts[r.email]]_vars
=============================================================================
