------------------------------- MODULE Outbox -------------------------------
(***************************************************************************)
(* The way of an outgoing message: the outbox table of crates/storage, the   *)
(* retry rules of crates/reliability, and send_outbox_item of                *)
(* crates/app-services, with a worker, an SMTP server and the peer's         *)
(* receipts around them.                                                     *)
(*                                                                          *)
(* The repository holds the calls, not yet the loop that makes them.  The    *)
(* worker here is the one they are cut for: it asks pending_outbox for a     *)
(* batch, hands each item to send_outbox_item, and records an error with     *)
(* transition_outbox and enqueue_outbox, as the tests of crates/reliability  *)
(* do.  It is alone, and a crash may stop it between any two steps.          *)
(*                                                                          *)
(* Time is kept as what is left of each delay: wait is next_attempt_at - now *)
(* where that is positive, else 0.                                          *)
(***************************************************************************)
EXTENDS Integers

CONSTANTS
  Message,      \* messages, each queued at most once (message_id is fresh)
  BaseDelay,    \* RetryPolicy::base_delay_seconds (15)
  MaxDelay,     \* RetryPolicy::max_delay_seconds (1800)
  MaxAttempts,  \* RetryPolicy::max_attempts (8)
  AttemptCap,   \* bound: attempt_count is not told apart beyond it
  MaxFaults,    \* bound: crashes and SMTP answers that get lost
  NoItem        \* no item in hand, no row

ASSUME PolicyAssumption ==
  /\ BaseDelay \in Nat \ {0} /\ MaxDelay \in Nat /\ BaseDelay <= MaxDelay
  /\ MaxAttempts \in Nat /\ AttemptCap \in Nat /\ MaxAttempts <= AttemptCap
  /\ MaxFaults \in Nat

VARIABLES
  rows,      \* table outbox: OutboxItem per message, if queued
  batch,     \* items pending_outbox returned that are still to be sent
  sending,   \* inside send_outbox_item: the item, and how the SMTP send ended
  mails,     \* copies of each message the SMTP server has taken
  lost,      \* how many of those the client was never told of, or forgot
  read_to,   \* how far the peer is with each message
  receipts,  \* delivery receipts mailed by the peer
  faults

vars == <<rows, batch, sending, mails, lost, read_to, receipts, faults>>

PeerStates    == <<"FetchedByPeer", "DecryptedByPeer", "ReadByPeer">>  \* in turn
PeerState     == {PeerStates[i] : i \in 1 .. 3}
AcceptedState == {"SmtpAccepted"} \cup PeerState
PendingState  == {"Queued", "FailedRetryable"}

OutboxItem ==
  [message_id : Message, delivery_state : PendingState \cup AcceptedState,
   attempt_count : 0 .. AttemptCap, wait : 0 .. MaxDelay]

Sending == [item : OutboxItem, ok : BOOLEAN]
ASSUME NoItemAssumption == NoItem \notin OutboxItem \cup Sending

Queued(m) == rows[m] # NoItem

Least(a, b) == IF a <= b THEN a ELSE b
NextAttemptUncapped(n) == BaseDelay * 2 ^ Least(n, 10)  \* Slip: no max_delay
NextAttempt(n) == Least(BaseDelay * 2 ^ Least(n, 10), MaxDelay)

\* transition_outbox.  FailedTerminal, Draft, Encrypted and SmtpInFlight are
\* states nothing in the repository puts an item in.
Transition(item, state) ==
  LET n == Least(item.attempt_count + 1, AttemptCap)
  IN  IF state = "FailedRetryable"
      THEN [item EXCEPT !.delivery_state = state, !.attempt_count = n,
                        !.wait = NextAttempt(n)]
      ELSE [item EXCEPT !.delivery_state = state, !.wait = 0]

\* enqueue_outbox is INSERT OR REPLACE.  Slip: INSERT OR IGNORE.
EnqueueOrIgnore(item) ==
  rows' = [rows EXCEPT ![item.message_id] = IF @ = NoItem THEN item ELSE @]
EnqueueOutbox(item) == rows' = [rows EXCEPT ![item.message_id] = item]

\* pending_outbox, after three slips: the delay is not looked at; nor is the
\* state; an item that failed once is not offered again.
DueAtOnce(item)     == item.delivery_state \in PendingState
DueInAnyState(item) == item.wait = 0
DueOnlyQueued(item) == item.delivery_state = "Queued" /\ item.wait = 0
Due(item)          == item.delivery_state \in PendingState /\ item.wait = 0
PendingOutbox == {rows[m] : m \in {k \in Message : Queued(k) /\ Due(rows[k])}}

ShouldRetry(item) ==
  /\ item.delivery_state = "FailedRetryable"
  /\ item.attempt_count < MaxAttempts
  /\ item.wait = 0

Init ==
  /\ rows = [m \in Message |-> NoItem]
  /\ batch = {}
  /\ sending = NoItem
  /\ mails = [m \in Message |-> 0]
  /\ lost = [m \in Message |-> 0]
  /\ read_to = [m \in Message |-> 0]
  /\ receipts = {}
  /\ faults = 0

-----------------------------------------------------------------------------
QueueOutboundMessage(m) ==
  /\ ~Queued(m)
  /\ EnqueueOutbox([message_id |-> m, delivery_state |-> "Queued",
                    attempt_count |-> 0, wait |-> 0])
  /\ UNCHANGED <<batch, sending, mails, lost, read_to, receipts, faults>>

TakeBatch ==
  /\ batch = {} /\ sending = NoItem
  /\ PendingOutbox # {}
  /\ batch' = PendingOutbox
  /\ UNCHANGED <<rows, sending, mails, lost, read_to, receipts, faults>>

\* send_outbox_item, up to the end of send_ciphertext: the server takes the
\* mail and says so, refuses it, or takes it while the client sees an error.
SendAccepted(item) ==
  /\ mails' = [mails EXCEPT ![item.message_id] = @ + 1]
  /\ sending' = [item |-> item, ok |-> TRUE]
  /\ UNCHANGED <<lost, faults>>

SendRefused(item) ==
  /\ sending' = [item |-> item, ok |-> FALSE]
  /\ UNCHANGED <<mails, lost, faults>>

SendAnswerLost(item) ==
  /\ faults < MaxFaults
  /\ mails' = [mails EXCEPT ![item.message_id] = @ + 1]
  /\ lost' = [lost EXCEPT ![item.message_id] = @ + 1]
  /\ faults' = faults + 1
  /\ sending' = [item |-> item, ok |-> FALSE]

Send(item) ==
  /\ sending = NoItem
  /\ batch' = batch \ {item}
  /\ SendAccepted(item) \/ SendRefused(item) \/ SendAnswerLost(item)
  /\ UNCHANGED <<rows, read_to, receipts>>

\* send_outbox_item after the `?`, or the worker on its error: the row of the
\* item in hand is written over.
ResultIgnored(s) == "SmtpAccepted"     \* Slip: the send's error is dropped
Result(s) == IF s.ok THEN "SmtpAccepted" ELSE "FailedRetryable"

Record ==
  /\ sending # NoItem
  /\ EnqueueOutbox(Transition(sending.item, Result(sending)))
  /\ sending' = NoItem
  /\ UNCHANGED <<batch, mails, lost, read_to, receipts, faults>>

\* The peer fetches, decrypts and reads, and mails a receipt for each.
PeerReceipt(m) ==
  /\ mails[m] > 0 /\ read_to[m] < 3
  /\ read_to' = [read_to EXCEPT ![m] = @ + 1]
  /\ receipts' = receipts \cup
       {[original_message_id |-> m, state |-> PeerStates[read_to[m] + 1]]}
  /\ UNCHANGED <<rows, batch, sending, mails, lost, faults>>

\* A receipt is handled: late, twice or out of order, as mail comes.
HandleReceipt(r) ==
  /\ Queued(r.original_message_id)
  /\ EnqueueOutbox(Transition(rows[r.original_message_id], r.state))
  /\ UNCHANGED <<batch, sending, mails, lost, read_to, receipts, faults>>

Tick ==
  /\ \E m \in Message : Queued(m) /\ rows[m].wait > 0
  /\ rows' = [m \in Message |->
       IF Queued(m) /\ rows[m].wait > 0 THEN [rows[m] EXCEPT !.wait = @ - 1]
                                        ELSE rows[m]]
  /\ UNCHANGED <<batch, sending, mails, lost, read_to, receipts, faults>>

\* The device goes down; a mail accepted but not yet recorded is forgotten.
Crash ==
  /\ faults < MaxFaults
  /\ batch # {} \/ sending # NoItem
  /\ faults' = faults + 1
  /\ batch' = {}
  /\ sending' = NoItem
  /\ lost' = IF sending # NoItem /\ sending.ok
             THEN [lost EXCEPT ![sending.item.message_id] = @ + 1] ELSE lost
  /\ UNCHANGED <<rows, mails, read_to, receipts>>

\* What happens to messages once they are queued.
Forward ==
  \/ \E m \in Message : PeerReceipt(m)
  \/ TakeBatch
  \/ \E item \in batch : Send(item)
  \/ Record
  \/ \E r \in receipts : HandleReceipt(r)
  \/ Tick
  \/ Crash

Next == (\E m \in Message : QueueOutboundMessage(m)) \/ Forward

Spec == Init /\ [][Next]_vars

\* The worker keeps working, time passes, and an SMTP server that is offered
\* a message again and again takes it in the end.
OfferAccepted(m) ==
  \E item \in batch : item.message_id = m /\ Send(item) /\ SendAccepted(item)

FairSpec ==
  /\ Spec
  /\ WF_vars(TakeBatch) /\ WF_vars(Record) /\ WF_vars(Tick)
  /\ WF_vars(\E item \in batch : Send(item))
  /\ \A m \in Message : SF_vars(OfferAccepted(m))

-----------------------------------------------------------------------------
(* Properties.                                                              *)

Accepted(m) == Queued(m) /\ rows[m].delivery_state \in AcceptedState

\* Rows, batch and the item in hand are well-formed items under their own id.
TypeOK ==
  /\ rows \in [Message -> OutboxItem \cup {NoItem}]
  /\ \A m \in Message : Queued(m) => rows[m].message_id = m
  /\ batch \in SUBSET OutboxItem
  /\ sending \in Sending \cup {NoItem}
  /\ mails \in [Message -> Nat]
  /\ lost \in [Message -> Nat]
  /\ read_to \in [Message -> 0 .. 3]
  /\ receipts \in SUBSET [original_message_id : Message, state : PeerState]
  /\ faults \in Nat

\* "Sent" is never shown for a message that was not: a row leaves the pending
\* states only for a message the SMTP server has taken, whatever crashes and
\* however late a receipt is (send_outbox_item sends before it records).
AcceptedWasMailed == \A m \in Message : Accepted(m) => mails[m] > 0

\* A message is mailed twice only where the first acceptance never reached the
\* outbox: once per answer that got lost on the way or in a crash.
EveryExtraMailHasLostAnswer ==
  \A m \in Message : mails[m] <= 1 + lost[m]

\* No retry comes early: a message is offered to the SMTP server only when its
\* delay has run out, also when its batch was taken before the delay began.
NoEarlyRetry ==
  [][\A m \in Message : mails'[m] # mails[m] => rows[m].wait = 0]_vars

\* Every queued message is accepted in the end, and stays accepted: the queue
\* never forgets one, whatever failed before (pending_outbox, transition_outbox).
DeliverySettles == \A m \in Message : Queued(m) ~> []Accepted(m)

\* should_retry on the limit it enforces, "attempt_count < max_attempts": no
\* failed item beyond the limit is offered for another attempt.
OfferedWithinLimit ==
  \A item \in PendingOutbox :
    item.delivery_state = "FailedRetryable" => ShouldRetry(item)

-----------------------------------------------------------------------------
(* What the outbox implements.                                              *)
Letters == INSTANCE CarefulMailer WITH
             Letter <- Message, asked <- {m \in Message : Queued(m)}, copies <- mails,
             unconfirmed <- lost, shown <- {m \in Message : Accepted(m)}

\* No further copy of a message is mailed, and "sent" is not taken back, while one
\* acceptance by the SMTP server reached the outbox and was not forgotten in a
\* crash; "sent" is shown of mailed messages alone.  A receipt is no acceptance: a
\* failure recorded over one takes "sent" back, and the message is mailed again
\* (send_outbox_item, pending_outbox, transition_outbox).
ImplementsCarefulMailer == Letters!Spec
=============================================================================
