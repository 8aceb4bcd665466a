-------------------------- MODULE AppServiceProofs --------------------------
(***************************************************************************)
(* What crates/app-services promises, for any peers, messages, lifetimes and *)
(* retry policy.  First of its contacts alone (the specification Spec of     *)
(* ContactTrust): the tables are well formed, trust comes from first use or  *)
(* from the user, only the user lifts a block, and no answer is stored       *)
(* without its contact.  Then of contacts and outbox together (AppSpec):     *)
(* mail goes to an identity first seen or confirmed.  That argument takes    *)
(* what the first part and OutboxProofs prove of the two halves and joins    *)
(* them by what queue_outbound_message writes down.                         *)
(***************************************************************************)
EXTENDS AppService, FiniteSetTheorems, TLAPS

-----------------------------------------------------------------------------
(* Type correctness.  An invite is numbered by how many there are, so the    *)
(* set of invites has to be finite.                                         *)
TypeInv == TypeOK /\ IsFiniteSet(invites)

\* Pinning gives a trust state for a row, old or new.
LEMMA TofuPinType ==
  ASSUME NEW existing \in ContactIdentity \cup {NoContact}, NEW fp \in Fingerprint
  PROVE  TofuPin(existing, fp) \in TrustState
BY DEF TofuPin, ContactIdentity, TrustState, NoContact

\* save_contact writes a well-formed row and keeps a well-formed history.
LEMMA SaveContactType ==
  ASSUME TypeOK, NEW r \in Response, SaveContact(r)
  PROVE  /\ contacts' \in [Email -> ContactIdentity \cup {NoContact}]
         /\ first' \in [Email -> Nat]
<1>1. r.email \in Email /\ r.fingerprint \in Fingerprint
  BY DEF Response
<1>2. contacts[r.email] \in ContactIdentity \cup {NoContact}
  BY <1>1 DEF TypeOK
<1>3. TofuPin(contacts[r.email], r.fingerprint) \in TrustState
  BY <1>1, <1>2, TofuPinType
<1>4. [fingerprint |-> r.fingerprint,
       trust_state |-> TofuPin(contacts[r.email], r.fingerprint),
       verified_at |-> FALSE] \in ContactIdentity
  BY <1>1, <1>3 DEF ContactIdentity
<1>5. r.fingerprint \in Nat
  BY <1>1 DEF Fingerprint
<1>6. QED
  BY <1>1, <1>4, <1>5 DEF SaveContact, TypeOK

\* store_invite_response keeps at most one row per invite.
LEMMA StoreInviteResponseType ==
  ASSUME TypeOK, NEW r \in Response, StoreInviteResponse(r)
  PROVE  /\ invite_responses' \in SUBSET Response
         /\ \A s, t \in invite_responses' : s.invite_id = t.invite_id => s = t
         /\ registered' \in SUBSET Response
BY DEF StoreInviteResponse, TypeOK

\* The tables are well formed initially.
LEMMA TypeInvInit == Init => TypeInv
<1> SUFFICES ASSUME Init PROVE TypeInv
  OBVIOUS
<1>1. 1 \in Fingerprint /\ now + PrekeyLife \in Nat
  BY BoundsAssumption DEF Init, Fingerprint, None
<1>2. device \in [Email -> [fingerprint : Fingerprint, expires_at : Nat]]
  BY <1>1 DEF Init, DeviceKeys
<1>3. IsFiniteSet(invites)
  BY FS_EmptySet DEF Init
<1>4. QED
  BY <1>2, <1>3 DEF Init, TypeInv, TypeOK, None

\* Every step keeps the tables well formed.
LEMMA TypeInvNext == TypeInv /\ [Next]_vars => TypeInv'
<1> SUFFICES ASSUME TypeInv, [Next]_vars PROVE TypeInv'
  OBVIOUS
<1> USE DEF history
<1>1. CASE IssueContactInvite
  <2>1. Cardinality(invites) \in Nat
    BY FS_CardinalityType DEF TypeInv
  <2> DEFINE i == [invite_id |-> Cardinality(invites), expires_at |-> now + InviteLife]
  <2>2. i \in Invite
    BY <2>1, BoundsAssumption DEF TypeInv, TypeOK, Invite
  <2>3. invites' = invites \cup {i}
    BY <1>1 DEF IssueContactInvite
  <2>4. IsFiniteSet(invites')
    BY <2>3, FS_AddElement DEF TypeInv
  <2>5. QED
    BY <1>1, <2>2, <2>3, <2>4 DEF IssueContactInvite, TypeInv, TypeOK
<1>2. ASSUME NEW e \in Email, NEW i \in invites, AcceptContactInvite(e, i) PROVE TypeInv'
  <2>1. [invite_id |-> i.invite_id, email |-> e,
         fingerprint |-> device[e].fingerprint, expires_at |-> device[e].expires_at]
          \in Response
    BY DEF TypeInv, TypeOK, Invite, Response
  <2>2. QED
    BY <1>2, <2>1 DEF AcceptContactInvite, CreateInviteResponse, TypeInv, TypeOK
<1>3. ASSUME NEW e \in Email, Reinstall(e) PROVE TypeInv'
  <2>1. DeviceKeys(device[e].fingerprint + 1) \in [fingerprint : Fingerprint, expires_at : Nat]
    BY BoundsAssumption DEF DeviceKeys, TypeInv, TypeOK, Fingerprint, None
  <2>2. device' = [device EXCEPT ![e] = DeviceKeys(device[e].fingerprint + 1)]
    BY <1>3 DEF Reinstall, TypeInv, TypeOK
  <2>3. QED
    BY <1>3, <2>1, <2>2 DEF Reinstall, TypeInv, TypeOK
<1>4. ASSUME NEW r \in mail, RegisterContactResponse(r) PROVE TypeInv'
  <2>1. r \in Response
    BY DEF TypeInv, TypeOK
  <2>2. /\ contacts' \in [Email -> ContactIdentity \cup {NoContact}]
        /\ first' \in [Email -> Nat]
    BY <1>4, <2>1, SaveContactType DEF RegisterContactResponse, TypeInv
  <2>3. /\ invite_responses' \in SUBSET Response
        /\ \A s, t \in invite_responses' : s.invite_id = t.invite_id => s = t
        /\ registered' \in SUBSET Response
    BY <1>4, <2>1, StoreInviteResponseType DEF RegisterContactResponse, TypeInv
  <2>4. QED
    BY <1>4, <2>2, <2>3 DEF RegisterContactResponse, TypeInv, TypeOK
<1>5. ASSUME NEW r \in mail, RegisterInterrupted(r) PROVE TypeInv'
  <2>1. r \in Response
    BY DEF TypeInv, TypeOK
  <2>2. /\ contacts' \in [Email -> ContactIdentity \cup {NoContact}]
        /\ first' \in [Email -> Nat]
    BY <1>5, <2>1, SaveContactType DEF RegisterInterrupted, FirstWrite, TypeInv
  <2>3. QED
    BY <1>5, <2>2 DEF RegisterInterrupted, FirstWrite, TypeInv, TypeOK
<1>6. ASSUME NEW e \in Email, CompareFingerprint(e) PROVE TypeInv'
  <2>1. contacts[e].fingerprint \in Fingerprint
    BY <1>6 DEF CompareFingerprint, Pinned, TypeInv, TypeOK, ContactIdentity
  <2>2. contacts[e].fingerprint \in Nat
    BY <2>1 DEF Fingerprint
  <2>3. QED
    BY <1>6, <2>1, <2>2 DEF CompareFingerprint, TypeInv, TypeOK
<1>7. ASSUME NEW e \in Email, MarkContactVerified(e) PROVE TypeInv'
  <2>1. contacts[e] \in ContactIdentity
    BY <1>7 DEF MarkContactVerified, Pinned, TypeInv, TypeOK
  <2>2. [contacts[e] EXCEPT !.trust_state = "Verified", !.verified_at = TRUE] \in ContactIdentity
    BY <2>1 DEF ContactIdentity, TrustState
  <2>3. contacts' = [contacts EXCEPT ![e] =
          [contacts[e] EXCEPT !.trust_state = "Verified", !.verified_at = TRUE]]
    BY <1>7 DEF MarkContactVerified, TypeInv, TypeOK
  <2>4. contacts[e].fingerprint \in Fingerprint
    BY <2>1 DEF ContactIdentity
  <2>5. QED
    BY <1>7, <2>2, <2>3, <2>4 DEF MarkContactVerified, TypeInv, TypeOK, None
<1>8. CASE Tick
  BY <1>8 DEF Tick, TypeInv, TypeOK
<1>9. CASE UNCHANGED vars
  BY <1>9 DEF vars, TypeInv, TypeOK
<1>10. QED
  BY <1>1, <1>2, <1>3, <1>4, <1>5, <1>6, <1>7, <1>8, <1>9 DEF Next

\* The two tables always hold well-formed rows, at most one per key.
THEOREM TypeCorrect == Spec => []TypeOK
<1>1. TypeInv => TypeOK
  BY DEF TypeInv
<1>2. QED
  BY <1>1, TypeInvInit, TypeInvNext, PTL DEF Spec

-----------------------------------------------------------------------------
(* Trust.  A row and the history of its first fingerprint appear together.   *)
TrustInv ==
  /\ TrustIsFirstUseOrUser
  /\ \A e \in Email : Pinned(e) <=> first[e] # None

\* What a save_contact does to the row it writes and to all others.
LEMMA SaveContactEffect ==
  ASSUME TypeOK, NEW r \in Response, SaveContact(r)
  PROVE  /\ contacts'[r.email].fingerprint = r.fingerprint
         /\ contacts'[r.email].trust_state = TofuPin(contacts[r.email], r.fingerprint)
         /\ contacts'[r.email] # NoContact
         /\ first'[r.email] = IF first[r.email] = None THEN r.fingerprint ELSE first[r.email]
         /\ \A e \in Email \ {r.email} : contacts'[e] = contacts[e] /\ first'[e] = first[e]
<1>1. r.email \in Email /\ r.fingerprint # None
  BY DEF Response, Fingerprint
<1> DEFINE row == [fingerprint |-> r.fingerprint,
                   trust_state |-> TofuPin(contacts[r.email], r.fingerprint),
                   verified_at |-> FALSE]
<1>2. contacts' = [contacts EXCEPT ![r.email] = row]
  BY DEF SaveContact
<1>3. contacts'[r.email] = row /\ \A e \in Email \ {r.email} : contacts'[e] = contacts[e]
  BY <1>1, <1>2 DEF TypeOK
<1>4. row.fingerprint = r.fingerprint /\ NoContact.fingerprint = None
  BY DEF NoContact
<1>5. row # NoContact
  BY <1>1, <1>4
<1>6. row.trust_state = TofuPin(contacts[r.email], r.fingerprint)
  OBVIOUS
<1>7. /\ first'[r.email] = IF first[r.email] = None THEN r.fingerprint ELSE first[r.email]
      /\ \A e \in Email \ {r.email} : first'[e] = first[e]
  BY <1>1 DEF SaveContact, TypeOK
<1> HIDE DEF row
<1>8. QED
  BY <1>3, <1>4, <1>5, <1>6, <1>7

\* An answer registered, in full or in part, keeps TrustInv.
LEMMA SaveContactTrust ==
  ASSUME TypeOK, TrustInv, NEW r \in Response, SaveContact(r), vouched' = vouched
  PROVE  TrustInv'
<1> DEFINE e == r.email
<1>1. e \in Email /\ r.fingerprint # None
  BY DEF Response, Fingerprint
<1>2. /\ contacts'[e].fingerprint = r.fingerprint
      /\ contacts'[e].trust_state = TofuPin(contacts[e], r.fingerprint)
      /\ contacts'[e] # NoContact
      /\ first'[e] = IF first[e] = None THEN r.fingerprint ELSE first[e]
      /\ \A d \in Email \ {e} : contacts'[d] = contacts[d] /\ first'[d] = first[d]
  BY SaveContactEffect
<1> HIDE DEF e
<1>3. first'[e] # None /\ Pinned(e)'
  BY <1>1, <1>2 DEF Pinned
<1>4. CASE contacts[e] = NoContact
  <2>1. first[e] = None
    BY <1>1, <1>4 DEF TrustInv, Pinned
  <2>2. contacts'[e].trust_state = "Unverified" /\ contacts'[e].fingerprint = first'[e]
    BY <1>2, <1>4, <2>1 DEF TofuPin
  <2>3. QED
    BY <1>1, <1>2, <1>3, <2>2 DEF TrustInv, TrustIsFirstUseOrUser, Pinned
<1>5. CASE contacts[e] # NoContact /\ contacts[e].fingerprint = r.fingerprint
  <2>1. first[e] # None
    BY <1>1, <1>5 DEF TrustInv, Pinned
  <2>2. /\ contacts'[e].trust_state = contacts[e].trust_state
        /\ contacts'[e].fingerprint = contacts[e].fingerprint
        /\ first'[e] = first[e]
    BY <1>2, <1>5, <2>1 DEF TofuPin
  <2>3. QED
    BY <1>1, <1>2, <1>3, <1>5, <2>2 DEF TrustInv, TrustIsFirstUseOrUser, Pinned
<1>6. CASE contacts[e] # NoContact /\ contacts[e].fingerprint # r.fingerprint
  <2>1. contacts'[e].trust_state = "BlockedIdentityChange"
    BY <1>2, <1>6 DEF TofuPin
  <2>2. QED
    BY <1>1, <1>2, <1>3, <2>1 DEF TrustInv, TrustIsFirstUseOrUser, Pinned
<1>7. QED
  BY <1>4, <1>5, <1>6

\* Initially nothing is pinned.
LEMMA TrustInvInit == Init => TrustInv
BY DEF Init, TrustInv, TrustIsFirstUseOrUser, Pinned, None

\* Every step keeps TrustInv.
LEMMA TrustInvNext == TypeInv /\ TrustInv /\ [Next]_vars => TrustInv'
<1> SUFFICES ASSUME TypeInv, TrustInv, [Next]_vars PROVE TrustInv'
  OBVIOUS
<1> USE DEF TypeInv
<1>1. ASSUME UNCHANGED <<contacts, first, vouched>> PROVE TrustInv'
  BY <1>1 DEF TrustInv, TrustIsFirstUseOrUser, Pinned
<1>2. ASSUME NEW r \in mail, RegisterContactResponse(r) PROVE TrustInv'
  BY <1>2, SaveContactTrust DEF RegisterContactResponse, TypeOK
<1>3. ASSUME NEW r \in mail, RegisterInterrupted(r) PROVE TrustInv'
  BY <1>3, SaveContactTrust DEF RegisterInterrupted, FirstWrite, TypeOK
<1>4. ASSUME NEW e \in Email, MarkContactVerified(e) PROVE TrustInv'
  <2>1. contacts[e] \in ContactIdentity
    BY <1>4 DEF MarkContactVerified, Pinned, TypeOK
  <2> DEFINE row == [contacts[e] EXCEPT !.trust_state = "Verified", !.verified_at = TRUE]
  <2>2. /\ row.trust_state = "Verified"
        /\ row.fingerprint = contacts[e].fingerprint
    BY <2>1 DEF ContactIdentity
  <2>3. row # NoContact
    BY <2>2 DEF NoContact
  <2>4. contacts'[e] = row /\ \A d \in Email \ {e} : contacts'[d] = contacts[d]
    BY <1>4 DEF MarkContactVerified, TypeOK
  <2>5. /\ contacts[e].fingerprint \in vouched'[e]
        /\ \A d \in Email \ {e} : vouched'[d] = vouched[d]
        /\ first' = first
        /\ Pinned(e)
    BY <1>4 DEF MarkContactVerified, TypeOK
  <2> HIDE DEF row
  <2>6. QED
    BY <2>2, <2>3, <2>4, <2>5 DEF TrustInv, TrustIsFirstUseOrUser, Pinned
<1>5. QED
  BY <1>1, <1>2, <1>3, <1>4
  DEF Next, vars, history, IssueContactInvite, AcceptContactInvite, Reinstall,
      CompareFingerprint, Tick

\* Whatever order answers arrive in, a contact that may be written to without a
\* warning is pinned to the identity first seen or to one the user confirmed
\* (tofu_pin, mark_contact_verified).
THEOREM TrustFromFirstUseOrUser == Spec => []TrustIsFirstUseOrUser
<1>1. TrustInv => TrustIsFirstUseOrUser
  BY DEF TrustInv
<1>2. QED
  BY <1>1, TypeInvInit, TypeInvNext, TrustInvInit, TrustInvNext, PTL DEF Spec

-----------------------------------------------------------------------------
(* Blocks, and the two writes of register_contact_response.                  *)

\* An answer does not lift a block.
LEMMA SaveContactKeepsBlock ==
  ASSUME TypeOK, NEW r \in Response, SaveContact(r), NEW e \in Email, Blocked(e)
  PROVE  Blocked(e)'
<1>1. contacts[e] # NoContact
  BY DEF Blocked, NoContact
<1>2. CASE e = r.email
  <2>1. contacts'[e].trust_state = TofuPin(contacts[e], r.fingerprint)
    BY <1>2, SaveContactEffect
  <2>2. TofuPin(contacts[e], r.fingerprint) = "BlockedIdentityChange"
    BY <1>1 DEF TofuPin, Blocked
  <2>3. QED
    BY <2>1, <2>2 DEF Blocked
<1>3. CASE e # r.email
  BY <1>3, SaveContactEffect DEF Blocked
<1>4. QED
  BY <1>2, <1>3

\* A blocked contact is unblocked by mark_contact_verified alone (tofu_pin).
THEOREM UserLiftsBlocks == Spec => OnlyTheUserLiftsABlock
<1>1. ASSUME TypeInv, [Next]_vars
      PROVE  [\A e \in Email : Blocked(e) /\ ~Blocked(e)' => MarkContactVerified(e)]_vars
  <2> SUFFICES ASSUME NEW e \in Email, Blocked(e), ~Blocked(e)' PROVE MarkContactVerified(e)
    OBVIOUS
  <2> USE <1>1 DEF TypeInv
  <2>1. contacts' # contacts
    BY DEF Blocked
  <2>2. ASSUME NEW r \in mail, RegisterContactResponse(r) PROVE FALSE
    BY <2>2, SaveContactKeepsBlock DEF RegisterContactResponse, TypeOK
  <2>3. ASSUME NEW r \in mail, RegisterInterrupted(r) PROVE FALSE
    BY <2>3, SaveContactKeepsBlock DEF RegisterInterrupted, FirstWrite, TypeOK
  <2>4. PICK d \in Email : MarkContactVerified(d)
    BY <2>1, <2>2, <2>3
    DEF Next, vars, IssueContactInvite, AcceptContactInvite, Reinstall,
        CompareFingerprint, Tick
  <2>5. contacts' = [contacts EXCEPT ![d] = contacts'[d]]
    BY <2>4 DEF MarkContactVerified, TypeOK
  <2>6. d = e
    BY <2>5 DEF Blocked, TypeOK
  <2>7. QED
    BY <2>4, <2>6
<1>2. QED
  BY <1>1, TypeInvInit, TypeInvNext, PTL DEF Spec, OnlyTheUserLiftsABlock

\* Every step keeps a contact for each stored answer.
LEMMA StoredInvNext ==
  TypeInv /\ StoredAnswerHasContact /\ [Next]_vars => StoredAnswerHasContact'
<1> SUFFICES ASSUME TypeInv, StoredAnswerHasContact, [Next]_vars
             PROVE  StoredAnswerHasContact'
  OBVIOUS
<1> USE DEF TypeInv
<1>1. ASSUME UNCHANGED <<contacts, invite_responses>> PROVE StoredAnswerHasContact'
  BY <1>1 DEF StoredAnswerHasContact, Pinned
<1>2. ASSUME NEW r \in Response, SaveContact(r), NEW e \in Email, Pinned(e) \/ e = r.email
      PROVE  Pinned(e)'
  BY <1>2, SaveContactEffect DEF Pinned
<1>3. ASSUME NEW r \in mail, RegisterContactResponse(r) PROVE StoredAnswerHasContact'
  <2>1. r \in Response /\ SaveContact(r) /\ r.email \in Email
    BY <1>3 DEF RegisterContactResponse, TypeOK, Response
  <2>2. invite_responses' \subseteq invite_responses \cup {r}
    BY <1>3 DEF RegisterContactResponse, StoreInviteResponse
  <2>3. \A t \in invite_responses : t.email \in Email
    BY DEF TypeOK, Response
  <2>4. QED
    BY <1>2, <2>1, <2>2, <2>3 DEF StoredAnswerHasContact
<1>4. ASSUME NEW r \in mail, RegisterInterrupted(r) PROVE StoredAnswerHasContact'
  <2>1. r \in Response /\ SaveContact(r) /\ invite_responses' = invite_responses
    BY <1>4 DEF RegisterInterrupted, FirstWrite, TypeOK
  <2>2. \A t \in invite_responses : t.email \in Email
    BY DEF TypeOK, Response
  <2>3. QED
    BY <1>2, <2>1, <2>2 DEF StoredAnswerHasContact
<1>5. ASSUME NEW e \in Email, MarkContactVerified(e) PROVE StoredAnswerHasContact'
  <2>1. contacts[e] \in ContactIdentity
    BY <1>5 DEF MarkContactVerified, Pinned, TypeOK
  <2> DEFINE row == [contacts[e] EXCEPT !.trust_state = "Verified", !.verified_at = TRUE]
  <2>2. row.trust_state = "Verified"
    BY <2>1 DEF ContactIdentity
  <2>3. row # NoContact
    BY <2>2 DEF NoContact
  <2>4. contacts'[e] = row /\ \A d \in Email \ {e} : contacts'[d] = contacts[d]
    BY <1>5 DEF MarkContactVerified, TypeOK
  <2> HIDE DEF row
  <2>5. invite_responses' = invite_responses /\ \A t \in invite_responses : t.email \in Email
    BY <1>5 DEF MarkContactVerified, TypeOK, Response
  <2>6. QED
    BY <2>3, <2>4, <2>5 DEF StoredAnswerHasContact, Pinned
<1>6. QED
  BY <1>1, <1>3, <1>4, <1>5
  DEF Next, vars, history, IssueContactInvite, AcceptContactInvite, Reinstall,
      CompareFingerprint, Tick

\* A failure between the two writes never leaves an answer without contact.
THEOREM StoredAnswersHaveContacts == Spec => []StoredAnswerHasContact
<1>1. Init => StoredAnswerHasContact
  BY DEF Init, StoredAnswerHasContact
<1>2. QED
  BY <1>1, TypeInvInit, TypeInvNext, StoredInvNext, PTL DEF Spec

-----------------------------------------------------------------------------
(* The composition.                                                         *)
OP == INSTANCE OutboxProofs

\* O and OP instantiate one module: their definitions are the same formulas.
LEMMA SameOutbox ==
  /\ O!Init => OP!Init
  /\ O!Forward => OP!Forward
  /\ \A m \in Message : /\ O!QueueOutboundMessage(m) => OP!QueueOutboundMessage(m)
                        /\ O!Queued(m) <=> OP!Queued(m)
BY DEF O!Init, OP!Init, O!Forward, OP!Forward, O!QueueOutboundMessage,
       OP!QueueOutboundMessage, O!PeerReceipt, OP!PeerReceipt, O!TakeBatch, OP!TakeBatch,
       O!PendingOutbox, OP!PendingOutbox, O!Queued, OP!Queued, O!Due, OP!Due,
       O!PendingState, OP!PendingState, O!Send, OP!Send, O!SendAccepted, OP!SendAccepted,
       O!SendRefused, OP!SendRefused, O!SendAnswerLost, OP!SendAnswerLost,
       O!Record, OP!Record, O!EnqueueOutbox, OP!EnqueueOutbox, O!Transition,
       OP!Transition, O!Result, OP!Result, O!NextAttempt, OP!NextAttempt, O!Least,
       OP!Least, O!HandleReceipt, OP!HandleReceipt, O!Tick, OP!Tick, O!Crash, OP!Crash,
       O!PeerStates, OP!PeerStates

LEMMA OutboxAssumptions == OP!PolicyAssumption /\ OP!NoItemAssumption
BY AppAssumption
DEF O!PolicyAssumption, OP!PolicyAssumption, O!NoItemAssumption, OP!NoItemAssumption,
    O!Sending, OP!Sending, O!OutboxItem, OP!OutboxItem, O!PendingState,
    OP!PendingState, O!AcceptedState, OP!AcceptedState, O!PeerState, OP!PeerState,
    O!PeerStates, OP!PeerStates

-----------------------------------------------------------------------------
\* An identity that is, and stays, fit to write to at an address.
Trusted(e, contact) ==
  first[e] # None /\ contact.fingerprint \in {first[e]} \cup vouched[e]

\* What each step of ContactTrust does to that: nothing.
LEMMA TrustedForever ==
  ASSUME TypeInv, [Next]_vars, NEW e \in Email, NEW contact, Trusted(e, contact)
  PROVE  Trusted(e, contact)'
<1>0. first[e] # None  BY DEF Trusted
<1>1. ASSUME NEW r \in mail, SaveContact(r)
      PROVE  first'[e] = first[e]
  <2>1. r \in Response  BY DEF TypeInv, TypeOK
  <2>2. CASE e = r.email
    BY <1>0, <1>1, <2>1, <2>2, SaveContactEffect DEF TypeInv
  <2>3. CASE e # r.email
    BY <1>1, <2>1, <2>3, SaveContactEffect DEF TypeInv
  <2> QED  BY <2>2, <2>3
<1>2. ASSUME NEW d \in Email, MarkContactVerified(d)
      PROVE  first' = first /\ vouched[e] \subseteq vouched'[e]
  BY <1>2 DEF MarkContactVerified, TypeInv, TypeOK
<1>3. first'[e] = first[e] /\ vouched[e] \subseteq vouched'[e]
  BY <1>1, <1>2
  DEF Next, vars, history, IssueContactInvite, AcceptContactInvite, Reinstall,
      CompareFingerprint, Tick, RegisterContactResponse, RegisterInterrupted, FirstWrite,
      StoreInviteResponse
<1> QED  BY <1>3 DEF Trusted

\* What a pinned contact that is not blocked tells: it is trusted.
LEMMA PinnedIsTrusted ==
  ASSUME TypeInv, TrustInv, NEW e \in Email, Pinned(e), ~Blocked(e)
  PROVE  Trusted(e, contacts[e])
<1>1. contacts[e] \in ContactIdentity
  BY DEF Pinned, TypeInv, TypeOK
<1>2. contacts[e].trust_state \in {"Unverified", "Verified"}
  BY <1>1 DEF Blocked, ContactIdentity, TrustState
<1>3. CASE contacts[e].trust_state = "Unverified"
  BY <1>3 DEF TrustInv, TrustIsFirstUseOrUser, Trusted
<1>4. CASE contacts[e].trust_state = "Verified"
  BY <1>4 DEF TrustInv, TrustIsFirstUseOrUser, Trusted
<1> QED  BY <1>2, <1>3, <1>4

-----------------------------------------------------------------------------
\* The copies of contacts in flight: in the caller's hands, in the outbox.
CopyInv ==
  /\ snapshot \in [Email -> ContactIdentity \cup {NoContact}]
  /\ \A e \in Email : MaySend(snapshot[e]) => Trusted(e, snapshot[e])
  /\ addressed \in [Message -> Address \cup {NoItem}]
  /\ \A m \in Message : addressed[m] # NoItem =>
       /\ MaySend(addressed[m].contact)
       /\ Trusted(addressed[m].email, addressed[m].contact)
  /\ \A m \in Message : OP!Queued(m) <=> addressed[m] # NoItem

AppInv == TypeInv /\ TrustInv /\ OP!TypeOK /\ OP!QueuedInv /\ CopyInv

\* A step that leaves the copies alone may do anything to the contacts.
LEMMA CopiesKept ==
  ASSUME TypeInv, CopyInv, [Next]_vars, UNCHANGED <<snapshot, addressed>>,
         \A m \in Message : OP!Queued(m)' <=> OP!Queued(m)
  PROVE  CopyInv'
<1>1. ASSUME NEW e \in Email, MaySend(snapshot[e])  PROVE Trusted(e, snapshot[e])'
  <2>1. Trusted(e, snapshot[e])  BY <1>1 DEF CopyInv
  <2> DEFINE c == snapshot[e]
  <2>2. PICK k : k = c  OBVIOUS
  <2>3. Trusted(e, k)  BY <2>1, <2>2
  <2> HIDE DEF c
  <2>4. Trusted(e, k)'  BY <2>3, TrustedForever
  <2> QED  BY <2>2, <2>4 DEF Trusted, c
<1>2. ASSUME NEW m \in Message, addressed[m] # NoItem
      PROVE  Trusted(addressed[m].email, addressed[m].contact)'
  <2>1. addressed[m].email \in Email /\ Trusted(addressed[m].email, addressed[m].contact)
    BY <1>2 DEF CopyInv, Address
  <2>2. PICK d, k : d = addressed[m].email /\ k = addressed[m].contact  OBVIOUS
  <2>3. Trusted(d, k)'  BY <2>1, <2>2, TrustedForever
  <2> QED  BY <2>2, <2>3 DEF Trusted
<1> QED  BY <1>1, <1>2 DEF CopyInv, MaySend, Trusted

LEMMA AppInvInit == AppInit => AppInv
<1> SUFFICES ASSUME AppInit PROVE AppInv  OBVIOUS
<1>1. TypeInv /\ TrustInv
  BY TypeInvInit, TrustInvInit DEF AppInit
<1>2. OP!Init
  BY SameOutbox DEF AppInit
<1>3. OP!TypeOK
  BY <1>2, OutboxAssumptions, OP!TypeInit
<1>4. OP!QueuedInv /\ \A m \in Message : ~OP!Queued(m)
  BY <1>2 DEF OP!Init, OP!QueuedInv, OP!Queued
<1>5. CopyInv
  BY <1>4 DEF AppInit, CopyInv, MaySend
<1> QED  BY <1>1, <1>3, <1>4, <1>5 DEF AppInv

LEMMA AppInvNext == AppInv /\ [AppNext]_appVars => AppInv'
<1> SUFFICES ASSUME AppInv, [AppNext]_appVars PROVE AppInv'  OBVIOUS
<1> USE DEF AppInv
\* The two parts keep their own invariants.
<1>1. [Next]_vars
  BY DEF AppNext, appVars, ReadContact, QueueOutboundMessage
<1>2. TypeInv' /\ TrustInv'
  BY <1>1, TypeInvNext, TrustInvNext
<1>3. OP!Next \/ UNCHANGED outboxVars
  BY SameOutbox DEF AppNext, appVars, ReadContact, QueueOutboundMessage, OP!Next
<1>4. [OP!Next]_OP!vars
  BY <1>3 DEF outboxVars, OP!vars
<1>5. OP!TypeOK' /\ OP!QueuedInv'
  BY <1>4, OutboxAssumptions, OP!TypeNext, OP!QueuedInvNext
\* The copies follow.
<1>6. ASSUME UNCHANGED outboxVars
      PROVE  \A m \in Message : OP!Queued(m)' <=> OP!Queued(m)
  BY <1>6 DEF outboxVars, OP!Queued
<1>7. CASE Next /\ UNCHANGED <<outboxVars, snapshot, addressed>>
  BY <1>1, <1>2, <1>5, <1>6, <1>7, CopiesKept
<1>8. CASE O!Forward /\ UNCHANGED <<vars, snapshot, addressed>>
  <2>1. \A m \in Message : OP!Queued(m)' <=> OP!Queued(m)
    BY <1>8, SameOutbox, OutboxAssumptions, OP!ForwardKeepsQueued
  <2> QED  BY <1>1, <1>2, <1>5, <1>8, <2>1, CopiesKept
<1>9. ASSUME NEW e \in Email, ReadContact(e)  PROVE AppInv'
  <2>1. /\ snapshot' = [snapshot EXCEPT ![e] = contacts[e]]
        /\ UNCHANGED <<first, vouched, addressed, outboxVars>>
        /\ contacts[e] \in ContactIdentity /\ Pinned(e)
    BY <1>9 DEF ReadContact, vars, history, Pinned, TypeInv, TypeOK
  <2>2. MaySend(contacts[e]) => Trusted(e, contacts[e])
    BY <2>1, PinnedIsTrusted DEF MaySend, Blocked
  <2>3. CopyInv'
    BY <1>6, <2>1, <2>2 DEF CopyInv, Trusted
  <2> QED  BY <1>2, <1>5, <2>3
<1>10. ASSUME NEW e \in Email, NEW m \in Message, QueueOutboundMessage(e, m)  PROVE AppInv'
  <2> DEFINE a == [email |-> e, contact |-> snapshot[e]]
  <2>1. snapshot[e] \in ContactIdentity /\ MaySend(snapshot[e]) /\ Trusted(e, snapshot[e])
    BY <1>10 DEF QueueOutboundMessage, MaySend, CopyInv
  <2>2. a \in Address /\ a # NoItem
    BY <2>1, AppAssumption DEF Address
  <2>3. /\ addressed' = [addressed EXCEPT ![m] = a]
        /\ UNCHANGED <<first, vouched, snapshot>>
    BY <1>10 DEF QueueOutboundMessage, vars, history
  <2>4. /\ OP!Queued(m)'
        /\ \A k \in Message \ {m} : OP!Queued(k)' <=> OP!Queued(k)
    BY <1>10, SameOutbox, OutboxAssumptions, OP!QueueEffect DEF QueueOutboundMessage
  <2>5. MaySend(a.contact) /\ Trusted(a.email, a.contact)
    BY <2>1
  <2> HIDE DEF a
  <2>6. CopyInv'
    BY <2>2, <2>3, <2>4, <2>5 DEF CopyInv, Trusted
  <2> QED  BY <1>2, <1>5, <2>6
<1>11. CASE UNCHANGED appVars
  BY <1>1, <1>2, <1>5, <1>6, <1>11, CopiesKept DEF appVars
<1> QED
  BY <1>7, <1>8, <1>9, <1>10, <1>11 DEF AppNext

\* Whatever is mailed was queued for an identity first seen at its address or
\* confirmed there, however old the caller's copy of the contact was
\* (queue_outbound_message, tofu_pin, mark_contact_verified).
THEOREM MailGoesToTrusted == AppSpec => []MailGoesToTrustedIdentity
<1>1. AppInv => MailGoesToTrustedIdentity
  <2> SUFFICES ASSUME AppInv, NEW m \in Message, mails[m] > 0
               PROVE  /\ addressed[m] # NoItem
                      /\ addressed[m].contact.fingerprint
                           \in {first[addressed[m].email]} \cup vouched[addressed[m].email]
    BY DEF MailGoesToTrustedIdentity
  <2>1. OP!Queued(m)
    BY DEF AppInv, OP!QueuedInv
  <2> QED  BY <2>1 DEF AppInv, CopyInv, Trusted
<1>2. QED
  BY <1>1, AppInvInit, AppInvNext, PTL DEF AppSpec

\* A message is queued once, for a contact that was not blocked.
THEOREM QueuedForUnblocked == AppSpec => []AppTypeOK
<1>1. AppInv => AppTypeOK
  BY SameOutbox DEF AppInv, CopyInv, AppTypeOK, MaySend, Address
<1>2. QED
  BY <1>1, AppInvInit, AppInvNext, PTL DEF AppSpec

-----------------------------------------------------------------------------
(* What is promised of the parts is promised of the whole.                   *)

\* app-services with one database runs as its contacts alone would, and as its
\* outbox alone would: neither half writes a table of the other.
THEOREM AppIsBothParts == AppSpec => Spec /\ OP!Spec
<1>1. AppInit => Init /\ OP!Init
  BY SameOutbox DEF AppInit
<1>2. ASSUME [AppNext]_appVars  PROVE [Next]_vars /\ [OP!Next]_OP!vars
  <2>1. [Next]_vars
    BY <1>2 DEF AppNext, appVars, ReadContact, QueueOutboundMessage
  <2>2. OP!Next \/ UNCHANGED outboxVars
    BY <1>2, SameOutbox DEF AppNext, appVars, ReadContact, QueueOutboundMessage, OP!Next
  <2> QED  BY <2>1, <2>2 DEF outboxVars, OP!vars
<1> QED
  BY <1>1, <1>2, PTL DEF AppSpec, Spec, OP!Spec

\* So, while contacts come and go: no answer lifts a block, no stored answer is
\* without its contact, no retry comes early, and no further copy of a message is
\* mailed while an acceptance of it stands confirmed.
THEOREM PartsKeepTheirPromises ==
  AppSpec => /\ OnlyTheUserLiftsABlock /\ []StoredAnswerHasContact
             /\ OP!NoEarlyRetry /\ OP!ImplementsCarefulMailer
<1>1. OP!Spec => OP!NoEarlyRetry
  BY OutboxAssumptions, OP!RetriesWait
<1>2. OP!Spec => OP!ImplementsCarefulMailer
  BY OutboxAssumptions, OP!OutboxIsCarefulMailer
<1> QED
  BY <1>1, <1>2, AppIsBothParts, UserLiftsBlocks, StoredAnswersHaveContacts, PTL
=============================================================================
