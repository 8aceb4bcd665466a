---------------------------- MODULE OutboxProofs ----------------------------
(***************************************************************************)
(* Proofs about Outbox, for any set of messages, any retry policy and any    *)
(* number of faults.                                                        *)
(***************************************************************************)
EXTENDS Outbox, TLAPS

\* saturating_pow of the exponents next_attempt uses.
LEMMA PowerOfTwo ==
  ASSUME NEW k \in 0 .. 10  PROVE 2 ^ k \in Nat
<1>1. /\ 2^0 \in Nat /\ 2^1 \in Nat /\ 2^2 \in Nat /\ 2^3 \in Nat
      /\ 2^4 \in Nat /\ 2^5 \in Nat /\ 2^6 \in Nat /\ 2^7 \in Nat
      /\ 2^8 \in Nat /\ 2^9 \in Nat /\ 2^10 \in Nat
  OBVIOUS
<1>2. \/ k = 0 \/ k = 1 \/ k = 2 \/ k = 3 \/ k = 4 \/ k = 5
      \/ k = 6 \/ k = 7 \/ k = 8 \/ k = 9 \/ k = 10
  OBVIOUS
<1> QED  BY <1>1, <1>2, Zenon

LEMMA NextAttemptType ==
  ASSUME NEW n \in Nat  PROVE NextAttempt(n) \in 0 .. MaxDelay
<1> DEFINE k == Least(n, 10)
           d == BaseDelay * 2 ^ k
<1>1. k \in 0 .. 10  BY DEF Least
<1> HIDE DEF k
<1>2. 2 ^ k \in Nat  BY <1>1, PowerOfTwo
<1>3. BaseDelay \in Nat /\ MaxDelay \in Nat  BY PolicyAssumption
<1>4. d \in Nat
  <2> DEFINE x == 2 ^ k
  <2>1. x \in Nat  BY <1>2
  <2> HIDE DEF x
  <2>2. BaseDelay * x \in Nat  BY <2>1, <1>3
  <2> QED  BY <2>2 DEF x
<1> HIDE DEF d
<1>5. NextAttempt(n) = Least(d, MaxDelay)  BY DEF NextAttempt, d, k
<1> QED  BY <1>3, <1>4, <1>5 DEF Least

\* transition_outbox keeps an item an item, under the same id.
LEMMA TransitionType ==
  ASSUME NEW item \in OutboxItem, NEW state \in {"FailedRetryable"} \cup AcceptedState
  PROVE  /\ Transition(item, state) \in OutboxItem
         /\ Transition(item, state).message_id = item.message_id
         /\ Transition(item, state).delivery_state = state
         /\ Transition(item, state) # NoItem
<1> DEFINE n == Least(item.attempt_count + 1, AttemptCap)
<1>1. n \in 0 .. AttemptCap /\ n \in Nat
  BY PolicyAssumption DEF Least, OutboxItem
<1> HIDE DEF n
<1>2. NextAttempt(n) \in 0 .. MaxDelay  BY <1>1, NextAttemptType
<1>3. 0 \in 0 .. MaxDelay  BY PolicyAssumption
<1>4. item = [message_id |-> item.message_id, delivery_state |-> item.delivery_state,
              attempt_count |-> item.attempt_count, wait |-> item.wait]
  BY DEF OutboxItem
<1>5. Transition(item, state) =
        IF state = "FailedRetryable"
        THEN [item EXCEPT !.delivery_state = state, !.attempt_count = n,
                          !.wait = NextAttempt(n)]
        ELSE [item EXCEPT !.delivery_state = state, !.wait = 0]
  BY DEF Transition, n
<1>6. /\ Transition(item, state) \in OutboxItem
      /\ Transition(item, state).message_id = item.message_id
      /\ Transition(item, state).delivery_state = state
  <2>1. CASE state = "FailedRetryable"
    BY <1>1, <1>2, <1>5, <2>1 DEF OutboxItem, PendingState
  <2>2. CASE state # "FailedRetryable"
    BY <1>3, <1>5, <2>2 DEF OutboxItem
  <2> QED  BY <2>1, <2>2
<1> QED  BY <1>6, NoItemAssumption

-----------------------------------------------------------------------------
(* Types.                                                                    *)

RowsType ==
  /\ rows \in [Message -> OutboxItem \cup {NoItem}]
  /\ \A m \in Message : Queued(m) => rows[m].message_id = m

LEMMA EnqueueType ==
  ASSUME RowsType, NEW item \in OutboxItem, EnqueueOutbox(item)
  PROVE  /\ RowsType'
         /\ item.message_id \in Message
         /\ rows'[item.message_id] = item
         /\ \A m \in Message \ {item.message_id} : rows'[m] = rows[m]
<1>1. item.message_id \in Message  BY DEF OutboxItem
<1>2. rows' = [rows EXCEPT ![item.message_id] = item]  BY DEF EnqueueOutbox
<1> QED  BY <1>1, <1>2 DEF RowsType, Queued

LEMMA RowOfQueued ==
  ASSUME RowsType, NEW m \in Message, Queued(m)  PROVE rows[m] \in OutboxItem
  BY DEF RowsType, Queued

LEMMA ResultType ==
  ASSUME NEW s \in Sending
  PROVE  /\ Result(s) \in {"FailedRetryable"} \cup AcceptedState
         /\ s.ok => Result(s) \in AcceptedState
         /\ ~s.ok => Result(s) = "FailedRetryable"
  BY DEF Result, AcceptedState

LEMMA PeerStateType ==
  /\ \A i \in 1 .. 3 : PeerStates[i] \in PeerState
  /\ PeerState \subseteq AcceptedState
  /\ "FailedRetryable" \notin AcceptedState
  /\ AcceptedState \cap PendingState = {}
  BY DEF PeerState, PeerStates, AcceptedState, PendingState

LEMMA BatchType == ASSUME TypeOK PROVE PendingOutbox \subseteq OutboxItem
  BY DEF TypeOK, PendingOutbox, Queued

LEMMA TypeInit == Init => TypeOK
  BY NoItemAssumption DEF Init, TypeOK, Queued

LEMMA TypeNext == TypeOK /\ [Next]_vars => TypeOK'
<1> SUFFICES ASSUME TypeOK, [Next]_vars PROVE TypeOK'  OBVIOUS
<1>0. RowsType /\ (RowsType' /\ UNCHANGED <<batch, sending, mails, lost, read_to, receipts, faults>> => TypeOK')
  BY DEF TypeOK, RowsType, Queued
<1>1. ASSUME NEW m \in Message, QueueOutboundMessage(m)  PROVE TypeOK'
  <2> DEFINE item == [message_id |-> m, delivery_state |-> "Queued",
                      attempt_count |-> 0, wait |-> 0]
  <2>1. item \in OutboxItem
    BY PolicyAssumption DEF OutboxItem, PendingState
  <2>2. EnqueueOutbox(item)
    BY <1>1 DEF QueueOutboundMessage
  <2> HIDE DEF item
  <2>3. RowsType'  BY <1>0, <2>1, <2>2, EnqueueType
  <2> QED  BY <1>0, <1>1, <2>3 DEF QueueOutboundMessage
<1>2. CASE TakeBatch
  BY <1>2, BatchType DEF TakeBatch, TypeOK, Queued
<1>3. ASSUME NEW item \in batch, Send(item)  PROVE TypeOK'
  <2>1. item \in OutboxItem /\ item.message_id \in Message
    BY DEF TypeOK, OutboxItem
  <2>2. /\ batch' \in SUBSET OutboxItem
        /\ UNCHANGED <<rows, read_to, receipts>>
    BY <1>3 DEF Send, TypeOK
  <2>3. sending' \in Sending
    <3>1. sending' = [item |-> item, ok |-> TRUE] \/ sending' = [item |-> item, ok |-> FALSE]
      BY <1>3 DEF Send, SendAccepted, SendRefused, SendAnswerLost
    <3>2. \A b \in BOOLEAN : [item |-> item, ok |-> b] \in Sending
      BY <2>1 DEF Sending
    <3> QED  BY <3>1, <3>2
  <2>4. mails' \in [Message -> Nat] /\ lost' \in [Message -> Nat] /\ faults' \in Nat
    BY <1>3, <2>1 DEF Send, SendAccepted, SendRefused, SendAnswerLost, TypeOK
  <2> QED  BY <2>2, <2>3, <2>4 DEF TypeOK, Queued
<1>4. CASE Record
  <2>1. sending \in Sending
    BY <1>4 DEF Record, TypeOK
  <2>2. Transition(sending.item, Result(sending)) \in OutboxItem
    BY <2>1, TransitionType, ResultType DEF Sending
  <2>3. RowsType'
    BY <1>0, <1>4, <2>2, EnqueueType DEF Record
  <2> QED  BY <1>4, <2>3 DEF Record, TypeOK, RowsType, Queued
<1>5. ASSUME NEW m \in Message, PeerReceipt(m)  PROVE TypeOK'
  <2>1. PeerStates[read_to[m] + 1] \in PeerState
    BY <1>5, PeerStateType DEF PeerReceipt, TypeOK
  <2>2. /\ read_to' \in [Message -> 0 .. 3]
        /\ receipts' \in SUBSET [original_message_id : Message, state : PeerState]
    BY <1>5, <2>1 DEF PeerReceipt, TypeOK
  <2> QED  BY <1>5, <2>2 DEF PeerReceipt, TypeOK, Queued
<1>6. ASSUME NEW r \in receipts, HandleReceipt(r)  PROVE TypeOK'
  <2>1. r.original_message_id \in Message /\ r.state \in AcceptedState
    BY PeerStateType DEF TypeOK
  <2>2. Queued(r.original_message_id)
    BY <1>6 DEF HandleReceipt
  <2>3. Transition(rows[r.original_message_id], r.state) \in OutboxItem
    BY <1>0, <2>1, <2>2, RowOfQueued, TransitionType
  <2>4. RowsType'
    BY <1>0, <1>6, <2>3, EnqueueType DEF HandleReceipt
  <2> QED  BY <1>0, <1>6, <2>4 DEF HandleReceipt
<1>7. CASE Tick
  <2>1. rows' = [m \in Message |->
                   IF Queued(m) /\ rows[m].wait > 0 THEN [rows[m] EXCEPT !.wait = @ - 1]
                                                    ELSE rows[m]]
    BY <1>7 DEF Tick
  <2>2. \A m \in Message : Queued(m) /\ rows[m].wait > 0 =>
          [rows[m] EXCEPT !.wait = @ - 1] \in OutboxItem
    BY <1>0, RowOfQueued, PolicyAssumption DEF OutboxItem
  <2>3. \A m \in Message : Queued(m) /\ rows[m].wait > 0 =>
          [rows[m] EXCEPT !.wait = @ - 1].message_id = rows[m].message_id
    BY <1>0, RowOfQueued DEF OutboxItem
  <2>4. RowsType'
    BY <1>0, <2>1, <2>2, <2>3 DEF RowsType, Queued
  <2> QED  BY <1>0, <1>7, <2>4 DEF Tick
<1>8. CASE Crash
  <2>1. sending # NoItem => sending.item.message_id \in Message
    BY DEF TypeOK, Sending, OutboxItem
  <2>2. lost' \in [Message -> Nat]
    BY <1>8, <2>1 DEF Crash, TypeOK
  <2> QED  BY <1>8, <2>2 DEF Crash, TypeOK, Queued
<1>9. CASE UNCHANGED vars
  BY <1>9 DEF vars, TypeOK, Queued
<1> QED
  BY <1>1, <1>2, <1>3, <1>4, <1>5, <1>6, <1>7, <1>8, <1>9 DEF Next, Forward

\* Rows, batch, the item in hand and the receipts are well typed, whatever
\* the retry policy.
THEOREM TypeCorrect == Spec => []TypeOK
  BY TypeInit, TypeNext, PTL DEF Spec

-----------------------------------------------------------------------------
(* What the outbox says of a message, and how often it was mailed.           *)

InHand(m) == sending # NoItem /\ sending.item.message_id = m

\* Every place a message can be in, from the row on, knows it was queued.
QueuedInv ==
  /\ \A item \in batch : Queued(item.message_id)
  /\ sending # NoItem => Queued(sending.item.message_id)
  /\ \A m \in Message : mails[m] > 0 => Queued(m)

\* What reports an acceptance, reports one that was.
MailedInv ==
  /\ sending # NoItem /\ sending.ok => mails[sending.item.message_id] > 0
  /\ \A r \in receipts : mails[r.original_message_id] > 0
  /\ AcceptedWasMailed

\* A message about to be sent has been mailed only as often as the client was
\* not told; and it is about to be sent once.
SpareInv ==
  /\ \A item \in batch : mails[item.message_id] <= lost[item.message_id]
  /\ sending # NoItem /\ ~sending.ok
       => mails[sending.item.message_id] <= lost[sending.item.message_id]
  /\ \A m \in Message :
       Queued(m) /\ rows[m].delivery_state \in PendingState /\ ~(InHand(m) /\ sending.ok)
         => mails[m] <= lost[m]
  /\ \A i, j \in batch : i.message_id = j.message_id => i = j
  /\ sending # NoItem => \A i \in batch : i.message_id # sending.item.message_id
  /\ EveryExtraMailHasLostAnswer

OutboxInv == TypeOK /\ QueuedInv /\ MailedInv /\ SpareInv

LEMMA BatchRows ==
  ASSUME TypeOK, NEW item \in PendingOutbox
  PROVE  /\ item.message_id \in Message
         /\ Queued(item.message_id)
         /\ item = rows[item.message_id]
         /\ item.delivery_state \in PendingState
  BY DEF TypeOK, PendingOutbox, Queued, Due

\* One step of the outbox table: what an item written under its own id does.
LEMMA EnqueueEffect ==
  ASSUME TypeOK, NEW item \in OutboxItem, EnqueueOutbox(item)
  PROVE  /\ item.message_id \in Message
         /\ rows'[item.message_id] = item /\ Queued(item.message_id)'
         /\ \A m \in Message \ {item.message_id} :
              rows'[m] = rows[m] /\ (Queued(m)' <=> Queued(m))
<1>1. RowsType  BY DEF TypeOK, RowsType
<1>2. item # NoItem  BY NoItemAssumption
<1> QED  BY <1>1, <1>2, EnqueueType DEF Queued

\* The three ways send_ciphertext ends.
LEMMA SendEffect ==
  ASSUME TypeOK, NEW item \in batch, Send(item)
  PROVE  /\ item.message_id \in Message
         /\ sending = NoItem /\ sending' # NoItem /\ sending'.item = item
         /\ batch' = batch \ {item}
         /\ UNCHANGED <<rows, receipts>>
         /\ \A m \in Message \ {item.message_id} :
              mails'[m] = mails[m] /\ lost'[m] = lost[m]
         /\ sending'.ok => /\ mails'[item.message_id] = mails[item.message_id] + 1
                           /\ lost'[item.message_id] = lost[item.message_id]
         /\ ~sending'.ok =>
              \/ /\ mails'[item.message_id] = mails[item.message_id]
                 /\ lost'[item.message_id] = lost[item.message_id]
              \/ /\ mails'[item.message_id] = mails[item.message_id] + 1
                 /\ lost'[item.message_id] = lost[item.message_id] + 1
<1>1. item \in OutboxItem /\ item.message_id \in Message
  BY DEF TypeOK, OutboxItem
<1>2. \A b \in BOOLEAN : [item |-> item, ok |-> b] # NoItem
  BY <1>1, NoItemAssumption DEF Sending
<1>3. sending = NoItem /\ batch' = batch \ {item} /\ UNCHANGED <<rows, receipts>>
  BY DEF Send
<1>4. mails \in [Message -> Nat] /\ lost \in [Message -> Nat]
  BY DEF TypeOK
<1>5. CASE SendAccepted(item)
  BY <1>1, <1>2, <1>3, <1>4, <1>5 DEF SendAccepted
<1>6. CASE SendRefused(item)
  BY <1>1, <1>2, <1>3, <1>4, <1>6 DEF SendRefused
<1>7. CASE SendAnswerLost(item)
  BY <1>1, <1>2, <1>3, <1>4, <1>7 DEF SendAnswerLost
<1> QED  BY <1>5, <1>6, <1>7 DEF Send


\* The steps that write one row: a new message, a result, a receipt.
LEMMA RowSteps ==
  ASSUME TypeOK, QueuedInv, [Next]_vars
  PROVE  \/ \E m \in Message, item \in OutboxItem :
              /\ item.message_id = m /\ item.delivery_state = "Queued"
              /\ ~Queued(m)
              /\ EnqueueOutbox(item)
              /\ UNCHANGED <<batch, sending, mails, lost, receipts>>
         \/ \E item \in OutboxItem :
              /\ sending \in Sending /\ item.message_id = sending.item.message_id
              /\ sending.ok => item.delivery_state \in AcceptedState
              /\ ~sending.ok => item.delivery_state = "FailedRetryable"
              /\ EnqueueOutbox(item)
              /\ sending' = NoItem
              /\ UNCHANGED <<batch, mails, lost, receipts>>
         \/ \E r \in receipts : \E item \in OutboxItem :
              /\ item.message_id = r.original_message_id
              /\ item.delivery_state \in AcceptedState
              /\ EnqueueOutbox(item)
              /\ UNCHANGED <<batch, sending, mails, lost, receipts>>
         \/ \E item \in batch : Send(item)
         \/ TakeBatch
         \/ \E m \in Message : PeerReceipt(m)
         \/ /\ \A m \in Message :
                 /\ Queued(m)' <=> Queued(m)
                 /\ Queued(m) => rows'[m].delivery_state = rows[m].delivery_state
            /\ UNCHANGED <<batch, sending, mails, lost, receipts>>
         \/ Crash
<1>0. RowsType  BY DEF TypeOK, RowsType
<1>1. ASSUME NEW m \in Message, QueueOutboundMessage(m)
      PROVE  \E item \in OutboxItem :
               /\ item.message_id = m /\ item.delivery_state = "Queued"
               /\ ~Queued(m)
               /\ EnqueueOutbox(item)
               /\ UNCHANGED <<batch, sending, mails, lost, receipts>>
  <2> DEFINE item == [message_id |-> m, delivery_state |-> "Queued",
                      attempt_count |-> 0, wait |-> 0]
  <2>1. item \in OutboxItem /\ item.message_id = m /\ item.delivery_state = "Queued"
    BY PolicyAssumption DEF OutboxItem, PendingState
  <2>2. EnqueueOutbox(item) /\ ~Queued(m)
    BY <1>1 DEF QueueOutboundMessage
  <2> HIDE DEF item
  <2> QED  BY <1>1, <2>1, <2>2 DEF QueueOutboundMessage
<1>2. ASSUME Record
      PROVE  \E item \in OutboxItem :
              /\ sending \in Sending /\ item.message_id = sending.item.message_id
              /\ sending.ok => item.delivery_state \in AcceptedState
              /\ ~sending.ok => item.delivery_state = "FailedRetryable"
              /\ EnqueueOutbox(item)
              /\ sending' = NoItem
              /\ UNCHANGED <<batch, mails, lost, receipts>>
  <2> DEFINE item == Transition(sending.item, Result(sending))
  <2>1. sending \in Sending
    BY <1>2 DEF Record, TypeOK
  <2>2. sending.item \in OutboxItem
    BY <2>1 DEF Sending
  <2>3. /\ item \in OutboxItem /\ item.message_id = sending.item.message_id
        /\ item.delivery_state = Result(sending)
    BY <2>1, <2>2, TransitionType, ResultType
  <2>4. EnqueueOutbox(item) /\ sending' = NoItem /\ UNCHANGED <<batch, mails, lost, receipts>>
    BY <1>2 DEF Record
  <2> HIDE DEF item
  <2> QED  BY <2>1, <2>3, <2>4, ResultType
<1>3. ASSUME NEW r \in receipts, HandleReceipt(r)
      PROVE  \E item \in OutboxItem :
              /\ item.message_id = r.original_message_id
              /\ item.delivery_state \in AcceptedState
              /\ EnqueueOutbox(item)
              /\ UNCHANGED <<batch, sending, mails, lost, receipts>>
  <2> DEFINE m == r.original_message_id
             item == Transition(rows[m], r.state)
  <2>1. m \in Message /\ r.state \in AcceptedState
    BY PeerStateType DEF TypeOK
  <2>2. rows[m] \in OutboxItem /\ rows[m].message_id = m
    BY <1>0, <1>3, <2>1, RowOfQueued DEF HandleReceipt, RowsType
  <2>3. /\ item \in OutboxItem /\ item.message_id = m
        /\ item.delivery_state \in AcceptedState
    BY <2>1, <2>2, TransitionType
  <2>4. EnqueueOutbox(item) /\ UNCHANGED <<batch, sending, mails, lost, receipts>>
    BY <1>3 DEF HandleReceipt
  <2> HIDE DEF item
  <2> QED  BY <2>3, <2>4
<1>4. ASSUME Tick
      PROVE  /\ \A m \in Message :
                  /\ Queued(m)' <=> Queued(m)
                  /\ Queued(m) => rows'[m].delivery_state = rows[m].delivery_state
             /\ UNCHANGED <<batch, sending, mails, lost, receipts>>
  <2> SUFFICES ASSUME NEW m \in Message
               PROVE  /\ Queued(m)' <=> Queued(m)
                      /\ Queued(m) => rows'[m].delivery_state = rows[m].delivery_state
    BY <1>4 DEF Tick
  <2>1. rows'[m] = IF Queued(m) /\ rows[m].wait > 0 THEN [rows[m] EXCEPT !.wait = @ - 1]
                                                    ELSE rows[m]
    BY <1>4 DEF Tick
  <2>2. ASSUME Queued(m), rows[m].wait > 0
        PROVE  /\ [rows[m] EXCEPT !.wait = @ - 1] \in OutboxItem
               /\ [rows[m] EXCEPT !.wait = @ - 1].delivery_state = rows[m].delivery_state
    BY <1>0, <2>2, RowOfQueued, PolicyAssumption DEF OutboxItem
  <2> QED  BY <2>1, <2>2, NoItemAssumption DEF Queued
<1>5. CASE UNCHANGED vars
  BY <1>5 DEF vars, Queued
<1> QED
  BY <1>1, <1>2, <1>3, <1>4, <1>5 DEF Next, Forward

LEMMA QueuedInvNext ==
  ASSUME TypeOK, QueuedInv, [Next]_vars  PROVE QueuedInv'
<1>1. \A i \in batch : i.message_id \in Message
  BY DEF TypeOK, OutboxItem
<1>2. sending # NoItem => sending.item.message_id \in Message
  BY DEF TypeOK, Sending, OutboxItem
<1>3. ASSUME NEW item \in OutboxItem, EnqueueOutbox(item), batch' = batch, mails' = mails,
             sending' \in {sending, NoItem}
      PROVE  QueuedInv'
  <2>1. \A m \in Message : Queued(m) => Queued(m)'
    BY <1>3, EnqueueEffect
  <2> QED  BY <1>1, <1>2, <1>3, <2>1 DEF QueuedInv
<1>4. ASSUME NEW item \in batch, Send(item)  PROVE QueuedInv'
  <2>1. \A m : Queued(m)' <=> Queued(m)
    BY <1>4 DEF Send, Queued
  <2>2. Queued(item.message_id)
    BY DEF QueuedInv
  <2>3. \A m \in Message : mails'[m] > 0 => m = item.message_id \/ mails[m] > 0
    BY <1>4, SendEffect
  <2> QED  BY <1>4, <2>1, <2>2, <2>3, SendEffect DEF QueuedInv
<1>5. CASE TakeBatch
  BY <1>5, BatchRows DEF TakeBatch, QueuedInv, Queued
<1>6. ASSUME NEW m \in Message, PeerReceipt(m)  PROVE QueuedInv'
  BY <1>6 DEF PeerReceipt, QueuedInv, Queued
<1>7. CASE Crash
  BY <1>7 DEF Crash, QueuedInv, Queued
<1>8. CASE /\ \A m \in Message : Queued(m)' <=> Queued(m)
           /\ UNCHANGED <<batch, sending, mails>>
  BY <1>1, <1>2, <1>8 DEF QueuedInv
<1> QED  BY <1>3, <1>4, <1>5, <1>6, <1>7, <1>8, RowSteps

\* Only queue_outbound_message gives a message a row, and nothing takes it.
LEMMA ForwardKeepsQueued ==
  ASSUME TypeOK, QueuedInv, Forward
  PROVE  \A m \in Message : Queued(m)' <=> Queued(m)
<1>1. \A i \in batch : i.message_id \in Message  BY DEF TypeOK, OutboxItem
<1>2. sending # NoItem => sending \in Sending
  BY DEF TypeOK
<1>3. ASSUME NEW item \in OutboxItem, EnqueueOutbox(item), Queued(item.message_id)
      PROVE  \A m \in Message : Queued(m)' <=> Queued(m)
  BY <1>3, EnqueueEffect
<1>4. CASE Record
  <2>1. sending \in Sending /\ Queued(sending.item.message_id) /\ sending.item \in OutboxItem
    BY <1>2, <1>4 DEF Record, QueuedInv, Sending
  <2> DEFINE item == Transition(sending.item, Result(sending))
  <2>2. item \in OutboxItem /\ item.message_id = sending.item.message_id
    BY <2>1, TransitionType, ResultType
  <2>3. EnqueueOutbox(item)  BY <1>4 DEF Record
  <2> HIDE DEF item
  <2> QED  BY <1>3, <2>1, <2>2, <2>3
<1>5. ASSUME NEW r \in receipts, HandleReceipt(r)
      PROVE  \A m \in Message : Queued(m)' <=> Queued(m)
  <2> DEFINE k == r.original_message_id
             item == Transition(rows[k], r.state)
  <2>1. k \in Message /\ r.state \in AcceptedState
    BY PeerStateType DEF TypeOK
  <2>2. Queued(k) /\ EnqueueOutbox(item)
    BY <1>5 DEF HandleReceipt
  <2>3. rows[k] \in OutboxItem /\ rows[k].message_id = k
    BY <2>1, <2>2 DEF TypeOK, Queued
  <2>4. item \in OutboxItem /\ item.message_id = k
    BY <2>1, <2>3, TransitionType
  <2> HIDE DEF item
  <2> QED  BY <1>3, <2>2, <2>4
<1>6. CASE Tick
  <2>1. ASSUME NEW m \in Message, Queued(m), rows[m].wait > 0
        PROVE  [rows[m] EXCEPT !.wait = @ - 1] # NoItem
    <3>1. [rows[m] EXCEPT !.wait = @ - 1] \in OutboxItem
      BY <2>1, RowOfQueued, PolicyAssumption DEF TypeOK, RowsType, OutboxItem
    <3> QED  BY <3>1, NoItemAssumption
  <2> QED  BY <1>6, <2>1 DEF Tick, Queued
<1>7. CASE UNCHANGED rows
  BY <1>7 DEF Queued
<1> QED
  BY <1>4, <1>5, <1>6, <1>7 DEF Forward, PeerReceipt, TakeBatch, Send, Crash

\* Queueing a message gives it a row, and no other.
LEMMA QueueEffect ==
  ASSUME TypeOK, NEW m \in Message, QueueOutboundMessage(m)
  PROVE  /\ Queued(m)'
         /\ \A k \in Message \ {m} : Queued(k)' <=> Queued(k)
<1> DEFINE item == [message_id |-> m, delivery_state |-> "Queued",
                    attempt_count |-> 0, wait |-> 0]
<1>1. item \in OutboxItem /\ item.message_id = m
  BY PolicyAssumption DEF OutboxItem, PendingState
<1>2. EnqueueOutbox(item)
  BY DEF QueueOutboundMessage
<1> HIDE DEF item
<1> QED  BY <1>1, <1>2, EnqueueEffect

LEMMA MailedInvNext ==
  ASSUME TypeOK, QueuedInv, MailedInv, [Next]_vars  PROVE MailedInv'
<1> USE DEF MailedInv, AcceptedWasMailed, Accepted
<1>0. "Queued" \notin AcceptedState /\ "FailedRetryable" \notin AcceptedState
  BY DEF AcceptedState, PeerState, PeerStates
<1>1. ASSUME NEW item \in OutboxItem, EnqueueOutbox(item), UNCHANGED <<mails, receipts>>,
             sending' \in {sending, NoItem},
             item.delivery_state \in AcceptedState => mails[item.message_id] > 0
      PROVE  MailedInv'
  <2>1. \A m \in Message : Accepted(m)' => mails'[m] > 0
    BY <1>1, EnqueueEffect
  <2> QED  BY <1>1, <2>1
<1>2. ASSUME NEW item \in batch, Send(item)  PROVE MailedInv'
  <2>1. mails \in [Message -> Nat] /\ item.message_id \in Message
    BY <1>2, SendEffect DEF TypeOK
  <2>2. \A m \in Message : mails[m] > 0 => mails'[m] > 0
    BY <1>2, <2>1, SendEffect
  <2>3. sending'.ok => mails'[item.message_id] > 0
    BY <1>2, <2>1, SendEffect
  <2>4. \A r \in receipts : r.original_message_id \in Message
    BY DEF TypeOK
  <2> QED  BY <1>2, <2>2, <2>3, <2>4, SendEffect DEF Queued
<1>3. CASE TakeBatch
  BY <1>3 DEF TakeBatch, Queued
<1>4. ASSUME NEW m \in Message, PeerReceipt(m)  PROVE MailedInv'
  BY <1>4 DEF PeerReceipt, Queued
<1>5. CASE Crash
  BY <1>5 DEF Crash, Queued
<1>6. CASE /\ \A m \in Message :
                /\ Queued(m)' <=> Queued(m)
                /\ Queued(m) => rows'[m].delivery_state = rows[m].delivery_state
           /\ UNCHANGED <<sending, mails, receipts>>
  BY <1>6
<1>7. ASSUME NEW item \in OutboxItem, EnqueueOutbox(item), sending \in Sending,
             item.message_id = sending.item.message_id,
             ~sending.ok => item.delivery_state = "FailedRetryable",
             sending' = NoItem, UNCHANGED <<mails, receipts>>
      PROVE  MailedInv'
  <2>1. sending # NoItem  BY <1>7, NoItemAssumption
  <2>2. item.delivery_state \in AcceptedState => mails[item.message_id] > 0
    BY <1>0, <1>7, <2>1
  <2> QED  BY <1>1, <1>7, <2>2
<1>8. ASSUME NEW r \in receipts, NEW item \in OutboxItem, EnqueueOutbox(item),
             item.message_id = r.original_message_id, UNCHANGED <<sending, mails, receipts>>
      PROVE  MailedInv'
  BY <1>1, <1>8
<1>9. ASSUME NEW item \in OutboxItem, EnqueueOutbox(item), item.delivery_state = "Queued",
             UNCHANGED <<sending, mails, receipts>>
      PROVE  MailedInv'
  BY <1>0, <1>1, <1>9
<1> HIDE DEF MailedInv, AcceptedWasMailed, Accepted
<1> QED
  BY <1>2, <1>3, <1>4, <1>5, <1>6, <1>7, <1>8, <1>9, RowSteps


LEMMA SpareInvNext ==
  ASSUME TypeOK, QueuedInv, SpareInv, [Next]_vars  PROVE SpareInv'
<1> USE DEF SpareInv, EveryExtraMailHasLostAnswer
<1>0. /\ mails \in [Message -> Nat] /\ lost \in [Message -> Nat]
      /\ \A i \in batch : i.message_id \in Message
      /\ sending # NoItem => sending.item.message_id \in Message
      /\ "Queued" \in PendingState /\ "FailedRetryable" \in PendingState
      /\ AcceptedState \cap PendingState = {}
  BY PeerStateType DEF TypeOK, Sending, OutboxItem, PendingState
\* A row written while no one else is sending it.
<1>1. ASSUME NEW item \in OutboxItem, EnqueueOutbox(item),
             UNCHANGED <<batch, sending, mails, lost>>,
             item.delivery_state \in PendingState
               => mails[item.message_id] <= lost[item.message_id]
      PROVE  SpareInv'
  <2>1. \A m \in Message : InHand(m)' <=> InHand(m)
    BY <1>1 DEF InHand
  <2>2. ASSUME NEW m \in Message, Queued(m)', rows'[m].delivery_state \in PendingState,
               ~(InHand(m) /\ sending.ok)
        PROVE  mails[m] <= lost[m]
    <3>1. CASE m = item.message_id
      BY <1>1, <2>2, <3>1, EnqueueEffect
    <3>2. CASE m # item.message_id
      BY <1>1, <2>2, <3>2, EnqueueEffect
    <3> QED  BY <3>1, <3>2
  <2> QED  BY <1>1, <2>1, <2>2
<1>2. ASSUME NEW m \in Message, NEW item \in OutboxItem, item.message_id = m, ~Queued(m),
             EnqueueOutbox(item), UNCHANGED <<batch, sending, mails, lost>>
      PROVE  SpareInv'
  <2>1. mails[m] <= lost[m]
    BY <1>0, <1>2 DEF QueuedInv
  <2> QED  BY <1>1, <1>2, <2>1
<1>3. ASSUME NEW item \in OutboxItem, sending \in Sending,
             item.message_id = sending.item.message_id,
             sending.ok => item.delivery_state \in AcceptedState,
             EnqueueOutbox(item), sending' = NoItem, UNCHANGED <<batch, mails, lost>>
      PROVE  SpareInv'
  <2>1. sending # NoItem
    BY <1>3, NoItemAssumption
  <2>2. ASSUME NEW m \in Message, Queued(m)', rows'[m].delivery_state \in PendingState
        PROVE  mails[m] <= lost[m]
    <3>1. CASE m = item.message_id
      <4>1. rows'[m] = item
        BY <1>3, <3>1, EnqueueEffect
      <4>2. ~sending.ok
        BY <1>0, <1>3, <2>2, <4>1
      <4> QED  BY <1>3, <2>1, <3>1, <4>2
    <3>2. CASE m # item.message_id
      <4>1. Queued(m) /\ rows[m].delivery_state \in PendingState /\ ~InHand(m)
        BY <1>3, <2>2, <3>2, EnqueueEffect DEF InHand
      <4> QED  BY <4>1
    <3> QED  BY <3>1, <3>2
  <2> QED  BY <1>3, <2>2
<1>4. ASSUME NEW item \in OutboxItem, item.delivery_state \in AcceptedState,
             EnqueueOutbox(item), UNCHANGED <<batch, sending, mails, lost>>
      PROVE  SpareInv'
  BY <1>0, <1>1, <1>4
<1>5. ASSUME NEW item \in batch, Send(item)  PROVE SpareInv'
  <2> DEFINE k == item.message_id
  <2>1. /\ k \in Message
        /\ sending = NoItem /\ sending' # NoItem /\ sending'.item = item
        /\ batch' = batch \ {item}
        /\ UNCHANGED <<rows, receipts>>
        /\ \A m \in Message \ {k} : mails'[m] = mails[m] /\ lost'[m] = lost[m]
        /\ sending'.ok => mails'[k] = mails[k] + 1 /\ lost'[k] = lost[k]
        /\ ~sending'.ok => \/ mails'[k] = mails[k] /\ lost'[k] = lost[k]
                           \/ mails'[k] = mails[k] + 1 /\ lost'[k] = lost[k] + 1
    BY <1>5, SendEffect
  <2>2. mails[k] <= lost[k] /\ mails[k] \in Nat /\ lost[k] \in Nat
    BY <1>0, <2>1
  <2>3. \A i \in batch' : i \in batch /\ i.message_id # k
    BY <2>1
  <2>4. ~sending'.ok => mails'[k] <= lost'[k]
    BY <2>1, <2>2
  <2>5. mails'[k] <= 1 + lost'[k]
    BY <2>1, <2>2
  <2> HIDE DEF k
  <2>6. \A i \in batch' : mails'[i.message_id] <= lost'[i.message_id]
    BY <1>0, <2>1, <2>3
  <2>7. ASSUME NEW m \in Message, Queued(m)', rows'[m].delivery_state \in PendingState,
               ~(InHand(m)' /\ sending'.ok)
        PROVE  mails'[m] <= lost'[m]
    <3>1. CASE m = k
      BY <2>1, <2>4, <2>7, <3>1 DEF InHand, k
    <3>2. CASE m # k
      BY <2>1, <2>7, <3>2 DEF InHand, Queued
    <3> QED  BY <3>1, <3>2
  <2>8. \A m \in Message : mails'[m] <= 1 + lost'[m]
    BY <2>1, <2>5
  <2>9. sending'.item.message_id = k
    BY <2>1 DEF k
  <2> QED  BY <2>1, <2>3, <2>4, <2>6, <2>7, <2>8, <2>9
<1>6. CASE TakeBatch
  <2>1. sending = NoItem /\ batch' = PendingOutbox
        /\ UNCHANGED <<rows, sending, mails, lost>>
    BY <1>6 DEF TakeBatch
  <2>2. \A item \in PendingOutbox : mails[item.message_id] <= lost[item.message_id]
    BY <2>1, BatchRows DEF InHand
  <2>3. \A i, j \in PendingOutbox : i.message_id = j.message_id => i = j
    BY BatchRows
  <2> QED  BY <2>1, <2>2, <2>3 DEF InHand, Queued
<1>7. ASSUME NEW m \in Message, PeerReceipt(m)  PROVE SpareInv'
  BY <1>7 DEF PeerReceipt, InHand, Queued
<1>8. CASE /\ \A m \in Message :
                /\ Queued(m)' <=> Queued(m)
                /\ Queued(m) => rows'[m].delivery_state = rows[m].delivery_state
           /\ UNCHANGED <<batch, sending, mails, lost>>
  BY <1>8 DEF InHand
<1>9. CASE Crash
  <2>1. /\ batch' = {} /\ sending' = NoItem /\ UNCHANGED <<rows, mails>>
        /\ lost' = IF sending # NoItem /\ sending.ok
                   THEN [lost EXCEPT ![sending.item.message_id] = @ + 1] ELSE lost
    BY <1>9 DEF Crash
  <2>2. \A m \in Message : lost'[m] >= lost[m] /\ lost'[m] \in Nat
    BY <1>0, <2>1
  <2>3. \A m \in Message : mails[m] <= 1 + lost'[m]
    BY <1>0, <2>2
  <2>4. ASSUME NEW m \in Message, Queued(m), rows[m].delivery_state \in PendingState
        PROVE  mails[m] <= lost'[m]
    <3>1. CASE InHand(m) /\ sending.ok
      <4>1. lost'[m] = lost[m] + 1 /\ mails[m] <= 1 + lost[m]
        BY <1>0, <2>1, <3>1 DEF InHand
      <4> QED  BY <1>0, <4>1
    <3>2. CASE ~(InHand(m) /\ sending.ok)
      <4>1. mails[m] <= lost[m]
        BY <2>4, <3>2
      <4> QED  BY <1>0, <2>2, <4>1
    <3> QED  BY <3>1, <3>2
  <2> QED  BY <2>1, <2>3, <2>4 DEF Queued
<1> HIDE DEF SpareInv, EveryExtraMailHasLostAnswer
<1> QED
  BY <1>2, <1>3, <1>4, <1>5, <1>6, <1>7, <1>8, <1>9, RowSteps

LEMMA OutboxInvariance == Spec => []OutboxInv
<1>1. Init => OutboxInv
  <2> SUFFICES ASSUME Init PROVE OutboxInv  OBVIOUS
  <2>1. TypeOK  BY TypeInit
  <2>2. \A m \in Message : ~Queued(m) /\ mails[m] = 0 /\ lost[m] = 0
    BY DEF Init, Queued
  <2>3. batch = {} /\ receipts = {} /\ sending = NoItem
    BY DEF Init
  <2>4. QueuedInv /\ MailedInv
    BY <2>2, <2>3 DEF QueuedInv, MailedInv, AcceptedWasMailed, Accepted
  <2>5. SpareInv
    BY <2>2, <2>3 DEF SpareInv, EveryExtraMailHasLostAnswer
  <2> QED  BY <2>1, <2>4, <2>5 DEF OutboxInv
<1>2. OutboxInv /\ [Next]_vars => OutboxInv'
  BY TypeNext, QueuedInvNext, MailedInvNext, SpareInvNext DEF OutboxInv
<1> QED  BY <1>1, <1>2, PTL DEF Spec

\* A row leaves the pending states only for a message the server has taken.
THEOREM AcceptedWasAlwaysMailed == Spec => []AcceptedWasMailed
<1>1. OutboxInv => AcceptedWasMailed  BY DEF OutboxInv, MailedInv
<1> QED  BY <1>1, OutboxInvariance, PTL

\* Every mail of a message beyond the first has an acceptance the client was
\* never told of, or forgot in a crash.
THEOREM ExtraMailsHaveLostAnswers == Spec => []EveryExtraMailHasLostAnswer
<1>1. OutboxInv => EveryExtraMailHasLostAnswer  BY DEF OutboxInv, SpareInv
<1> QED  BY <1>1, OutboxInvariance, PTL

-----------------------------------------------------------------------------
(* No retry comes early: while a message is in the batch, no delay runs for   *)
(* it, since only a failed send begins one and a message is not sent twice.  *)

NoDelayInBatch == \A item \in batch : rows[item.message_id].wait = 0

LEMMA NoDelayNext ==
  ASSUME OutboxInv, NoDelayInBatch, [Next]_vars  PROVE NoDelayInBatch'
<1>0. TypeOK /\ QueuedInv /\ SpareInv
  BY DEF OutboxInv
<1>t. /\ rows \in [Message -> OutboxItem \cup {NoItem}] /\ batch \subseteq OutboxItem
      /\ \A item \in batch : item.message_id \in Message
  BY <1>0 DEF TypeOK, OutboxItem
<1>1. ASSUME NEW m \in Message, QueueOutboundMessage(m)  PROVE NoDelayInBatch'
  <2>1. \A item \in batch : item.message_id # m
    BY <1>0, <1>1 DEF QueueOutboundMessage, QueuedInv
  <2> QED  BY <1>t, <1>1, <2>1 DEF QueueOutboundMessage, EnqueueOutbox, NoDelayInBatch
<1>2. CASE TakeBatch
  BY <1>0, <1>2, BatchRows DEF TakeBatch, NoDelayInBatch, PendingOutbox, Due
<1>3. ASSUME NEW item \in batch, Send(item)  PROVE NoDelayInBatch'
  BY <1>3 DEF Send, NoDelayInBatch
<1>4. CASE Record
  <2>1. sending \in Sending /\ sending.item \in OutboxItem
    BY <1>0, <1>4 DEF Record, TypeOK, Sending
  <2>2. Transition(sending.item, Result(sending)).message_id = sending.item.message_id
    BY <2>1, TransitionType, ResultType
  <2>3. \A item \in batch : item.message_id # sending.item.message_id
    BY <1>0, <1>4 DEF Record, SpareInv
  <2>4. \A item \in batch : rows'[item.message_id] = rows[item.message_id]
    BY <1>t, <1>4, <2>2, <2>3 DEF Record, EnqueueOutbox
  <2> QED  BY <1>4, <2>4 DEF Record, NoDelayInBatch
<1>5. ASSUME NEW r \in receipts, HandleReceipt(r)  PROVE NoDelayInBatch'
  <2> DEFINE m == r.original_message_id
             item == Transition(rows[m], r.state)
  <2>1. m \in Message /\ r.state # "FailedRetryable"
    BY <1>0 DEF TypeOK, PeerState, PeerStates
  <2>2. rows[m] \in OutboxItem
    BY <1>0, <1>t, <1>5, <2>1 DEF HandleReceipt, Queued
  <2>3. item.wait = 0
    BY <2>1, <2>2 DEF Transition, OutboxItem
  <2>4. EnqueueOutbox(item) /\ batch' = batch
    BY <1>5 DEF HandleReceipt
  <2> HIDE DEF item
  <2> QED  BY <1>t, <2>3, <2>4 DEF EnqueueOutbox, NoDelayInBatch
<1>6. CASE Tick
  BY <1>t, <1>6 DEF Tick, NoDelayInBatch
<1>7. CASE Crash
  BY <1>7 DEF Crash, NoDelayInBatch
<1>8. CASE UNCHANGED <<rows, batch>>
  BY <1>8 DEF NoDelayInBatch
<1> QED
  BY <1>1, <1>2, <1>3, <1>4, <1>5, <1>6, <1>7, <1>8 DEF Next, Forward, PeerReceipt, vars

\* A message goes to the SMTP server only when no delay runs for it, for every
\* retry policy (next_attempt, pending_outbox).
THEOREM RetriesWait == Spec => NoEarlyRetry
<1>1. Init => NoDelayInBatch
  BY DEF Init, NoDelayInBatch
<1>2. ASSUME OutboxInv, NoDelayInBatch, [Next]_vars
      PROVE  [\A m \in Message : mails'[m] # mails[m] => rows[m].wait = 0]_vars
  <2>1. ASSUME NEW item \in batch, Send(item), NEW m \in Message, mails'[m] # mails[m]
        PROVE  rows[m].wait = 0
    <3>1. m = item.message_id
      BY <1>2, <2>1, SendEffect DEF OutboxInv
    <3> QED  BY <1>2, <2>1, <3>1 DEF NoDelayInBatch
  <2>2. CASE mails' = mails
    BY <2>2
  <2> QED
    BY <1>2, <2>1, <2>2
    DEF Next, Forward, QueueOutboundMessage, PeerReceipt, TakeBatch, Record,
        HandleReceipt, Tick, Crash, vars
<1> QED
  BY <1>1, <1>2, OutboxInvariance, NoDelayNext, PTL DEF Spec, NoEarlyRetry

-----------------------------------------------------------------------------
(* The outbox is a careful mailer.                                           *)

\* The client was never told of at most as many copies as were taken; and of the
\* one it has just been told of it was told.
HeardInv ==
  /\ \A m \in Message : lost[m] <= mails[m]
  /\ sending # NoItem /\ sending.ok => lost[sending.item.message_id] < mails[sending.item.message_id]

LEMMA HeardNext ==
  ASSUME OutboxInv, HeardInv, [Next]_vars  PROVE HeardInv'
<1>1. /\ TypeOK /\ QueuedInv /\ mails \in [Message -> Nat] /\ lost \in [Message -> Nat]
      /\ sending # NoItem => sending.item.message_id \in Message
  BY DEF OutboxInv, TypeOK, Sending, OutboxItem
<1>2. ASSUME UNCHANGED <<mails, lost>>, sending' = sending \/ sending' = NoItem
      PROVE  HeardInv'
  BY <1>2 DEF HeardInv
<1>3. ASSUME NEW item \in batch, Send(item)  PROVE HeardInv'
  <2> DEFINE k == item.message_id
  <2>1. /\ k \in Message /\ sending'.item = item
        /\ \A m \in Message \ {k} : mails'[m] = mails[m] /\ lost'[m] = lost[m]
        /\ sending'.ok => mails'[k] = mails[k] + 1 /\ lost'[k] = lost[k]
        /\ ~sending'.ok => \/ mails'[k] = mails[k] /\ lost'[k] = lost[k]
                           \/ mails'[k] = mails[k] + 1 /\ lost'[k] = lost[k] + 1
    BY <1>1, <1>3, SendEffect
  <2>2. mails[k] \in Nat /\ lost[k] \in Nat /\ lost[k] <= mails[k]
    BY <1>1, <2>1 DEF HeardInv
  <2>3. lost'[k] <= mails'[k] /\ (sending'.ok => lost'[k] < mails'[k])
    BY <2>1, <2>2
  <2>4. sending'.item.message_id = k
    BY <2>1
  <2> HIDE DEF k
  <2> QED  BY <2>1, <2>3, <2>4 DEF HeardInv
<1>4. CASE Crash
  <2>1. /\ sending' = NoItem /\ mails' = mails
        /\ lost' = IF sending # NoItem /\ sending.ok
                   THEN [lost EXCEPT ![sending.item.message_id] = @ + 1] ELSE lost
    BY <1>4 DEF Crash
  <2>2. ASSUME NEW m \in Message  PROVE lost'[m] <= mails'[m]
    <3>1. CASE sending # NoItem /\ sending.ok /\ m = sending.item.message_id
      BY <1>1, <2>1, <3>1 DEF HeardInv
    <3>2. CASE ~(sending # NoItem /\ sending.ok /\ m = sending.item.message_id)
      <4>1. lost'[m] = lost[m]
        BY <1>1, <2>1, <3>2
      <4> QED  BY <2>1, <4>1 DEF HeardInv
    <3> QED  BY <3>1, <3>2
  <2> QED  BY <2>1, <2>2 DEF HeardInv
<1>5. CASE TakeBatch
  BY <1>2, <1>5 DEF TakeBatch
<1>6. ASSUME NEW m \in Message, PeerReceipt(m)  PROVE HeardInv'
  BY <1>2, <1>6 DEF PeerReceipt
<1> QED
  BY <1>1, <1>2, <1>3, <1>4, <1>5, <1>6, RowSteps

\* What is shown when an item was written under its id.
LEMMA RowShown ==
  ASSUME TypeOK, NEW item \in OutboxItem, EnqueueOutbox(item)
  PROVE  LET k == item.message_id
         IN  /\ k \in Message
             /\ {m \in Message : Queued(m)'} = {m \in Message : Queued(m)} \cup {k}
             /\ {m \in Message : Accepted(m)'} =
                  IF item.delivery_state \in AcceptedState
                  THEN {m \in Message : Accepted(m)} \cup {k}
                  ELSE {m \in Message : Accepted(m)} \ {k}
<1> DEFINE k == item.message_id
<1>1. /\ k \in Message /\ rows'[k] = item /\ Queued(k)'
      /\ \A m \in Message \ {k} : rows'[m] = rows[m] /\ (Queued(m)' <=> Queued(m))
  BY EnqueueEffect
<1> HIDE DEF k
<1>2. Accepted(k)' <=> item.delivery_state \in AcceptedState
  BY <1>1 DEF Accepted
<1>3. \A m \in Message \ {k} : Accepted(m)' <=> Accepted(m)
  BY <1>1 DEF Accepted
<1> QED  BY <1>1, <1>2, <1>3 DEF k

LEMMA StepIsLetterStep ==
  ASSUME OutboxInv, HeardInv, [Next]_vars  PROVE [Letters!Next]_Letters!vars
<1> DEFINE asked == {m \in Message : Queued(m)}
           shown == {m \in Message : Accepted(m)}
<1>1. /\ TypeOK /\ QueuedInv /\ MailedInv /\ SpareInv
      /\ mails \in [Message -> Nat] /\ lost \in [Message -> Nat]
      /\ AcceptedState \cap PendingState = {}
      /\ "Queued" \in PendingState /\ "FailedRetryable" \in PendingState
  BY PeerStateType DEF OutboxInv, TypeOK, PendingState
<1>2. ASSUME NEW item \in OutboxItem, EnqueueOutbox(item)
      PROVE  /\ item.message_id \in Message
             /\ asked' = asked \cup {item.message_id}
             /\ item.delivery_state \in AcceptedState => shown' = shown \cup {item.message_id}
             /\ item.delivery_state \in PendingState  => shown' = shown \ {item.message_id}
  BY <1>1, <1>2, RowShown
<1>3. \A m \in Message : mails[m] > 0 => m \in asked
  BY <1>1 DEF QueuedInv
<1>4. \A m \in shown : m \in asked
  BY DEF Accepted
<1>5. ASSUME UNCHANGED <<mails, lost>>, asked' = asked, shown' = shown
      PROVE  UNCHANGED Letters!vars
  BY <1>5 DEF Letters!vars
<1>6. ASSUME UNCHANGED rows  PROVE asked' = asked /\ shown' = shown
  BY <1>6 DEF Queued, Accepted
<1>7. ASSUME NEW m \in Message, NEW item \in OutboxItem, item.message_id = m,
             item.delivery_state = "Queued", ~Queued(m), EnqueueOutbox(item),
             UNCHANGED <<mails, lost>>
      PROVE  Letters!Next
  <2>1. m \notin asked /\ asked' = asked \cup {m} /\ shown' = shown
    BY <1>1, <1>2, <1>4, <1>7
  <2>2. Letters!Ask(m)
    BY <1>7, <2>1 DEF Letters!Ask
  <2> QED  BY <2>2 DEF Letters!Next
<1>8. ASSUME NEW item \in OutboxItem, mails[item.message_id] > 0,
             item.delivery_state \in AcceptedState, EnqueueOutbox(item),
             UNCHANGED <<mails, lost>>
      PROVE  Letters!Next
  <2>1. /\ item.message_id \in Message /\ asked' = asked
        /\ shown' = shown \cup {item.message_id}
    BY <1>2, <1>3, <1>8
  <2>2. Letters!Show(item.message_id)
    BY <1>8, <2>1 DEF Letters!Show
  <2> QED  BY <2>1, <2>2 DEF Letters!Next
<1>9. ASSUME NEW item \in OutboxItem, sending \in Sending,
             item.message_id = sending.item.message_id,
             sending.ok => item.delivery_state \in AcceptedState,
             ~sending.ok => item.delivery_state = "FailedRetryable",
             EnqueueOutbox(item), UNCHANGED <<mails, lost>>
      PROVE  Letters!Next
  <2>1. sending # NoItem
    BY <1>9, NoItemAssumption
  <2>2. CASE sending.ok
    BY <1>1, <1>8, <1>9, <2>1, <2>2 DEF MailedInv
  <2>3. CASE ~sending.ok
    <3> DEFINE k == item.message_id
    <3>1. k \in Message /\ asked' = asked /\ shown' = shown \ {k}
      BY <1>1, <1>2, <1>9, <2>1, <2>3 DEF QueuedInv
    <3>2. mails[k] <= lost[k] /\ mails[k] \in Nat /\ lost[k] \in Nat
      BY <1>1, <1>9, <2>1, <2>3, <3>1 DEF SpareInv
    <3> HIDE DEF k
    <3>3. Letters!TakeBack(k)
      BY <1>9, <3>1, <3>2 DEF Letters!TakeBack, Letters!Confirmed
    <3> QED  BY <3>1, <3>3 DEF Letters!Next
  <2> QED  BY <2>2, <2>3
<1>10. ASSUME NEW item \in batch, Send(item)  PROVE [Letters!Next]_Letters!vars
  <2> DEFINE k == item.message_id
  <2>1. /\ k \in Message /\ k \in asked /\ rows' = rows
        /\ mails[k] <= lost[k] /\ mails[k] \in Nat /\ lost[k] \in Nat
    BY <1>1, <1>10, SendEffect DEF QueuedInv, SpareInv
  <2>2. asked' = asked /\ shown' = shown
    BY <1>6, <2>1
  <2>3. \/ UNCHANGED <<mails, lost>>
        \/ /\ mails' = [mails EXCEPT ![k] = @ + 1]
           /\ lost' \in {lost, [lost EXCEPT ![k] = @ + 1]}
    BY <1>10 DEF Send, SendAccepted, SendRefused, SendAnswerLost
  <2> HIDE DEF k
  <2>4. CASE UNCHANGED <<mails, lost>>
    BY <1>5, <2>2, <2>4
  <2>5. CASE /\ mails' = [mails EXCEPT ![k] = @ + 1]
             /\ lost' \in {lost, [lost EXCEPT ![k] = @ + 1]}
    <3>1. Letters!Post(k)
      BY <2>1, <2>2, <2>5 DEF Letters!Post, Letters!Confirmed
    <3> QED  BY <2>1, <3>1 DEF Letters!Next
  <2> QED  BY <2>3, <2>4, <2>5
<1>11. CASE Crash
  <2>1. /\ UNCHANGED <<rows, mails>>
        /\ lost' = IF sending # NoItem /\ sending.ok
                   THEN [lost EXCEPT ![sending.item.message_id] = @ + 1] ELSE lost
    BY <1>11 DEF Crash
  <2>2. asked' = asked /\ shown' = shown
    BY <1>6, <2>1
  <2>3. CASE sending # NoItem /\ sending.ok
    <3> DEFINE k == sending.item.message_id
    <3>1. k \in Message /\ mails[k] > lost[k]
      BY <1>1, <2>3 DEF HeardInv, TypeOK, Sending, OutboxItem
    <3>2. lost' = [lost EXCEPT ![k] = @ + 1] /\ mails' = mails
      BY <2>1, <2>3
    <3> HIDE DEF k
    <3>3. Letters!Forget(k)
      BY <2>2, <3>1, <3>2 DEF Letters!Forget, Letters!Confirmed
    <3> QED  BY <3>1, <3>3 DEF Letters!Next
  <2>4. CASE ~(sending # NoItem /\ sending.ok)
    BY <1>5, <2>1, <2>2, <2>4
  <2> QED  BY <2>3, <2>4
<1>12. ASSUME NEW r \in receipts, NEW item \in OutboxItem,
              item.message_id = r.original_message_id,
              item.delivery_state \in AcceptedState, EnqueueOutbox(item),
              UNCHANGED <<mails, lost>>
       PROVE  Letters!Next
  BY <1>1, <1>8, <1>12 DEF MailedInv
<1>13. CASE TakeBatch \/ \E m \in Message : PeerReceipt(m)
  BY <1>5, <1>6, <1>13 DEF TakeBatch, PeerReceipt
<1>14. CASE /\ \A m \in Message :
                 /\ Queued(m)' <=> Queued(m)
                 /\ Queued(m) => rows'[m].delivery_state = rows[m].delivery_state
            /\ UNCHANGED <<batch, sending, mails, lost, receipts>>
  BY <1>5, <1>14 DEF Accepted
<1> HIDE DEF asked, shown
<1> QED
  BY <1>1, <1>7, <1>9, <1>10, <1>11, <1>12, <1>13, <1>14, RowSteps

\* The outbox lets no further copy of a message out, and does not take "sent"
\* back, while an acceptance by the SMTP server reached it and was not forgotten;
\* it shows as sent only what was mailed (send_outbox_item, pending_outbox,
\* transition_outbox), for every policy and every failure.  It does not say that
\* a message is mailed at all, nor that a receipt keeps one from being mailed again.
THEOREM OutboxIsCarefulMailer == Spec => ImplementsCarefulMailer
<1>1. Init => HeardInv /\ Letters!Init
  BY DEF Init, HeardInv, Letters!Init, Queued, Accepted
<1>2. OutboxInv /\ HeardInv /\ [Next]_vars => HeardInv' /\ [Letters!Next]_Letters!vars
  BY HeardNext, StepIsLetterStep
<1> QED
  BY <1>1, <1>2, OutboxInvariance, PTL DEF Spec, ImplementsCarefulMailer, Letters!Spec
=============================================================================
