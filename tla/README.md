# A formal model of Mimicrypt

Mimicrypt is a messenger that sends end-to-end encrypted messages as ordinary
e-mail. This directory holds TLA+ models of its state-keeping parts, TLC
configurations that check them on small instances, and TLAPS proofs of what
matters most, for instances of any size. Paths below are relative to the
repository; `PROJECT.json` maps every definition to the lines it stands for.

## 1. Inventory

The repository is a set of Rust crates and a Tauri/React shell. The crates offer
calls; the loops that would make them (poll, send, receipt handling) are not
written yet, and the shell does not use the crates so far: it keeps a profile of
its own with demonstration data. A model of a crate therefore adds the most
ordinary caller, and says so.

| Part | State it keeps | Operations | Talks to |
| --- | --- | --- | --- |
| `crates/ratchet` | `SessionState`: Double Ratchet, replay cache | init_alice, init_bob, encrypt, decrypt, export, import | `double-ratchet-2` (external), called by envelope, saved by storage |
| `crates/envelope` | none | seal_message, open_message | ratchet, crypto |
| `crates/crypto` | `DeviceKeys`: identity, signed prekey, one-time prekeys | generate, export bundle, verify, derive root key, consume one-time prekey | bootstrap, envelope |
| `crates/bootstrap` | none | create / validate invite, create / verify answer, tofu_pin | crypto; called by app-services |
| `crates/storage` | SQLite: contacts, sessions, cursors, outbox, invite_responses | one upsert and one read per table | everything that lasts |
| `crates/reliability` | none | transition_outbox, next_attempt, should_retry, delivery_receipt | app-services, storage |
| `crates/mail-transport` | an SMTP or IMAP connection | send_ciphertext, fetch_since_uid | mail servers |
| `crates/app-services` | a database handle, a retry policy | issue / accept invite, register answer, mark verified, queue, send | all of the above |
| `apps/desktop-tauri` | React state, localStorage, `app-state.json` | hydrate, edit, persist, import, export, reset | native commands load / save / reset |

What is hard in each part, and what makes it correct:

* **Session.** Mail is lost, duplicated and reordered; `ratchet_decrypt` mutates
  the session and has no error result; a crash falls back to the session last
  saved. Correct: a copy is refused exactly when it was read; an honest envelope
  never brings the reader down; none becomes unreadable; numbers are not reused;
  a used key is kept nowhere.
* **Key agreement.** Bundles are old when they are used, offers come late, twice and
  out of order, and a one-time prekey is consumed in one step and used in another
  with saves and crashes around both. Correct: both sides derive one root; a one-time
  prekey serves one answer; none is refused without having been taken.
* **Trust.** Answers to invites are mail too, so they arrive late, twice or in the
  wrong order, around a user who compares fingerprints in the meantime. Correct:
  what may be written to without warning was seen first or vouched for; a block is
  lifted by the user alone.
* **Outbox.** A send may succeed and look failed; rows are overwritten by copies
  read earlier; receipts arrive in any order. Correct: "sent" is never claimed for
  a message that was not; double mails only where an answer was lost; everything
  is sent in the end; no retry comes early. With the contacts: what leaves was queued
  for an identity that was trusted then.
* **Mailbox.** Other clients deliver and delete during a fetch, every call may
  fail, one message may fail every fetch; the session and the cursor are saved apart.
  Correct: the cursor passes nothing that was not handled, nor anything that a crash
  makes the session forget.
* **Desktop profile.** Two copies, one written asynchronously and not atomically; a
  ref that tells the persist effect to skip. Correct: what the screen shows at rest
  is what a restart loads.

## 2. Modules

| Module | Models | Extended by |
| --- | --- | --- |
| `DoubleRatchet` | the external ratchet library, symbolically | `RatchetSession` |
| `RatchetSession` | `crates/ratchet`, `crates/envelope`, sessions table: two devices and the mail between them | `MailReading`, proofs |
| `MailReading` | the conversation carried by mail: sessions and cursors tables together, crashes between the two saves | proofs |
| `Channel` | abstract: what a conversation promises | implemented by `RatchetSession` |
| `DoubleRatchetProofs`, `RatchetSessionProofs` | lemmas and theorems | |
| `MessagePadding` | padding and trimming in `crates/envelope`, with their theorems | |
| `KeyAgreement`, `KeyAgreementMC` | one-time prekeys and root key derivation of `crates/crypto` | proofs |
| `KeyAgreementProofs` | theorems | |
| `ContactTrust` | `crates/bootstrap`, the trust half of `crates/app-services`, two tables | `AppService` |
| `Outbox` | `crates/reliability`, the sending half of `crates/app-services`, outbox table | proofs, instantiated by `AppService` |
| `CarefulMailer` | abstract: what an outbox may and may not do | implemented by `Outbox` |
| `OutboxProofs` | theorems | |
| `AppService` | `crates/app-services` whole: `ContactTrust` and `Outbox` composed | proofs |
| `AppServiceProofs` | theorems, those about `ContactTrust` alone included | |
| `MailboxSync` | `fetch_since_uid`, cursors table, an IMAP folder | proofs |
| `MailboxSyncProofs` | theorems | |
| `ShellPersistence` | `state.ts`, the effects and handlers of `App.tsx`, the native commands | proofs |
| `ShellPersistenceProofs` | theorems | |

Each module declares its bounds as CONSTANTS, so its `.cfg` files instantiate it
directly; `KeyAgreementMC` adds the symmetry of the initiators. Definitions marked *Slip* are
plausible mistakes; nothing uses them. Each is put in place of the definition that follows it to see that a property notices.

### DoubleRatchet and RatchetSession

Keys are symbols: a key pair is `<<party, i>>`, a root key is the sequence of
Diffie-Hellman secrets mixed into it, and a chain is named by the root key it came
from. A wire carries the name of the chain it was sealed under, and a receiver can
read it iff it derives that chain and still has the message's key. `session[p]` is
the `SessionState` in memory, with the set `opened` of wires it has read as a
history; `stored[p]` is the row in `sessions`.

* `Seal(p)` is `seal_message`; `Open(p, w)` is `open_message`, in the three ways it
  ends: `OpenRefused` (replay guard or bound, nothing changed), `OpenAccepted`, and
  `OpenAborts` (the library gives up inside `ratchet_decrypt`, the caller is gone).
* `SaveSession(p)` is `save_session`, which nothing in the repository calls: it may
  happen or not between any two calls. `Restart(p)` is a crash.
* Every sealed wire may be opened at any time, any number of times: that is loss,
  duplication and reordering at once. `orphans` are wires whose sealing a crash made
  the sender forget.

The library has no source here; it is the published algorithm as the wrapper uses
it. A limit on the keys skipped in a single jump, should the library have one, is
not modelled: `UnreadStaysReadable` speaks of conversations within it.

`Channel` has three sets per device: sent, read, and read as of the last save. It is
instantiated with `sent` as it is, and with what a session has `opened` and the
length of its replay cache for what was read and how often; `ImplementsChannel` is
its specification under that mapping. So a message is shown at most once between two
saves, the cache counts exactly the messages shown, and a crash takes a device back
to its last save and no further.

### MailReading

`RatchetSession` extended by a folder per party and a cursor. `fetch_since_uid` returns
nothing behind the saved cursor again, and `save_cursor` and `save_session` write two
tables at different times, so what a crash takes from the session may be gone for good.
The loop between the calls is not in the repository; the one modelled keeps two rules:
an envelope leaves only after the session that sealed it was saved (`MayLeave`), and the
cursor is saved only after the session that read the batch was (`SaveCursor`). `Fetch` is
`fetch_since_uid`, `OpenOne` the call of `open_message` for one of the batch, after whose
error the loop goes on; `Restart` drops what the loop had in hand. Nothing is deleted
here, so a position is a UID; `MailboxSync` has the steps of a fetch and deletions.

The result: the two rules are enough. With crashes anywhere, what the cursor has passed was
read by the session a restart loads (`CursorPassesOnlyRead`), and what arrived unread can
be read (`ArrivedStaysReadable`, without the condition `UnreadStaysReadable` needs: a
number used again after a crash is never in the mail twice). Each rule is needed; without
one the property it stands for fails. Both speak of a reader that the bound check
has not stopped. That every message is read in the end is not claimed: that depends on
the loop.

`carrier` says how a conversation's envelopes travel: by that mail, or anyhow, which is
`RatchetSession` unchanged, so that one run checks both.

### KeyAgreement

One device publishes bundles, initiators derive roots from any of them and mail
offers. A key pair is a symbol, a Diffie-Hellman secret the unordered pair of two
symbols, and a root the sequence of secrets that goes into HKDF, in the order the code
appends them. `ConsumeOneTimePrekey` finds the position of the id among the public
keys and removes it from both vectors; `Derive` is the responder's derivation, with
the keys the device has by then. Between the two the offer is `in_hand`. The caller
that keeps `DeviceKeys` is not in the repository: `SaveKeys` may happen or not
between any two calls, `Restart` loads what was saved, and `SetUpAnew` is a new device,
whose ids start from 0 again. `taken` and `forgotten` are histories.

### MessagePadding

`Target` and `PaddedPlaintext` are `padded_plaintext`, `Trimmed` the end of
`open_message`. Two pure functions and what is proved of them; there is no state.

### ContactTrust

One device invites; each peer answers, may lose its device and come back with new
keys (`Reinstall`; the code has no other way to a new signed prekey), and its
answers stay in the mail. `RegisterContactResponse` makes both writes;
`RegisterInterrupted` only the first. `CompareFingerprint` is the user's
comparison, `MarkContactVerified` the confirmation, some time after it.
`first`, `vouched`, `compared` and `registered` are histories.

### Outbox

`wait` is `next_attempt_at - now` where positive. `TakeBatch`, `Send` and `Record`
are the worker: `pending_outbox`, `send_ciphertext`, and the row's replacement by
`enqueue_outbox`. `Send` ends in one of three ways; `lost` counts mails taken
by the server of which the outbox was never told. `PeerReceipt` and
`HandleReceipt` are the peer's receipts, kept in a set, so late, repeated and
unordered. `Crash` drops the batch and the item in hand. `Forward` is all of it but
the queueing, which `AppService` guards.

`CarefulMailer` knows neither rows, batches, delays nor receipts. A letter is posted only
when it was asked for, and again only while no acceptance by the post office stands
confirmed; it is shown as posted only when it was, and that is taken back only while no
acceptance stands confirmed. It is about what may not happen: an outbox that never
posts satisfies it, and that one does post is `DeliverySettles`. Only the SMTP server's
answer confirms. A receipt does not: when the answer was lost, the receipt is handled and
the failure recorded after it, the message is mailed again, and the code does so. The
module is instantiated with the queued messages as asked for, `mails` as the copies,
`lost` as the unconfirmed ones, and the accepted rows as what is shown;
`ImplementsCarefulMailer` is its specification under that mapping.

### AppService

`ContactTrust` extended, `Outbox` instantiated, all steps interleaved. `ReadContact(e)`
is the caller's copy of a contact, from `contact()` or from a call that returns the row
it saved; `QueueOutboundMessage(e, m)` judges that copy, as the code does, however
old. `addressed` is the history of the copy each message was queued with.

### MailboxSync

`folder` is the sequence of UIDs, so its indices are IMAP sequence numbers.
`Search` sends `last_uid + 1 : *` as the code does, that is, as a range of
positions; `FetchOne` is one turn of the fetch loop, in any order; the loop around
it hands everything on before it saves the highest UID. `Abandon` is a crash or an
error that passes, anywhere in between. An error that does not pass is `FetchFails`: a
message without a body (`bodiless`) fails the whole fetch, each time it is in one.
`Handle` is the call of `open_ciphertext`, whether it succeeds or returns an error; the
loop goes on to the next message, as it must, since the same mail would fail again.

### ShellPersistence

The native shell only; in a plain browser there is one copy and nothing to go
wrong. `localStorage.setItem` is assumed never to throw: there is room, and the
webview allows it. A profile is a number. An update of the state and the effect it causes are
one step. Native commands are served in order, one at a time; a save has two steps,
`Truncate` and `Write`, with a crash or failure possible between them. `import` and
`reset` are the two handlers that await, one of each at a time.

## 3. Runs

| Run | Instance | Shows |
| --- | --- | --- |
| `session` | 4 envelopes, bound 2, cache 3, 1 crash and an abort after it; 2 messages a folder | carried anyhow: `TypeOK`, `ReplayVerdictExact`, `NoHonestAbort`, `UnreadStaysReadable`, `NumberReuseNeedsOrphan`, `ForwardSecrecy`, `SkippedKeysWait` hold; refinement `ImplementsChannel`. Carried by mail: `MailTypeOK`, `CursorPassesOnlyRead`, `ArrivedStaysReadable` as well |
| `session_bound` | 4 envelopes, no restart | **violated**: `SkippedBoundIsHonest` |
| `key_agreement` | 2 initiators, 2 devices in turn, 2 one-time prekeys, 2 offers, 2 answers, 1 crash | `TypeOK`, `RootsAgree`, `OneTimeKeyServesOnce`, `RefusedOnlyIfTaken` hold |
| `trust_compared` | 2 contacts, 2 devices each | **violated**: `VerifiedWasCompared` |
| `trust_reprocessed` | 2 contacts, 2 devices each | **violated**: `ReprocessingKeepsContact` |
| `outbox` | 2 messages, limit 2, 1 fault | `TypeOK`, `AcceptedWasMailed`, `EveryExtraMailHasLostAnswer`, `NoEarlyRetry` hold; `DeliverySettles`; refinement `ImplementsCarefulMailer` |
| `outbox_limit` | 1 message, no fault | **violated**: `OfferedWithinLimit` |
| `app_service` | 1 contact, 2 devices in turn, lifetimes 0, clock to 1, 1 message, no fault | `TypeOK`, `TrustIsFirstUseOrUser`, `StoredAnswerHasContact`, `OnlyTheUserLiftsABlock`, `AppTypeOK`, `MailGoesToTrustedIdentity` hold |
| `mailbox` | 5 messages, 1 of them perhaps without a body, 2 deletions, 2 faults | `TypeOK`, `NoGapWithoutExpunge` hold; `EveryMessageIsHandled` |
| `mailbox_uid` | 3 messages, 1 deletion | **violated**: `CursorIsUidCursor` |
| `shell` | 3 profiles, 1 fault, 2 crashes | `TypeOK`, `SettledIsSaved`, `LoadingKeepsTheCopies` hold |
| `shell_edit` | 3 profiles, 1 fault, no crash | **violated**: `EditIsSaved` |

A violated run states what a document, comment, error text or function of the
repository says; `PROJECT.json` quotes it beside the line that does otherwise.

Why the bounds are enough for the interesting cases. Four envelopes make two turns
of the DH ratchet with a skipped tail, and with `MaxSkipped = 2` reach the bound
check; `MaxReplay > MaxSkipped` as in the code (4096 and 1000). One crash loses or
repeats anything once, and an abort may follow it; two messages in a folder are a batch
in either order, or two fetches, or a message and its copy. `AttemptCap` is one
more than `MaxAttempts`, so items beyond the limit occur; delays of 1 to 3 include
the cap. Two deletions and five messages let deletions fall before, in and after a
batch. Two crashes let a shell fail while it recovers. Two
one-time prekeys and two devices are the least at which a position differs from an
id and an id from its device; two answers the least of which one may be too many. In
`app_service` one message
suffices because messages do not touch one another's rows, and two devices because they
let an identity be pinned, replaced and come back; lifetimes of 0 expire when the clock
moves. Refused sends and retries happen there; crashes and lost answers, which concern
neither contacts nor what a message was queued for, are the matter of `outbox`. `CHECK_DEADLOCK` is off
throughout: every counter is bounded, so a finished instance has no next step.

Fairness. `outbox`: the
worker's steps and the passing of time are weakly fair; the SMTP server is strongly
fair for each message, that is, it takes in the end what it is offered again and
again. `mailbox`: the poll loop goes on with what it started (`PollConfig`). Crashes, lost
answers and deletions are never fair and are bounded.

Some properties are conditional because the code needs it. `NoHonestAbort` and
`UnreadStaysReadable` hold while no crash made a sender forget an envelope it had
sealed (a caller that saves before mailing gets that), and
`NoGapWithoutExpunge` and `EveryMessageIsHandled` while nothing was deleted from the
folder; the latter also needs every message to have a body, since one without stops the
folder for good. `CursorPassesOnlyRead` excepts a reader that the misplaced bound check
has stopped for good. `SettledIsSaved` leaves out what happens where a
reset overlaps an edit or an import: an edit during a reset does leave the old profile
in the file. `OneTimeKeyServesOnce`
leaves out keys whose consumption a crash undid before it was saved.

## 4. Proofs

`RatchetSessionProofs` proves, for all values of the bounds and any parties and
keys allowed by the assumptions of `DoubleRatchet` and `RatchetSession`:

* **TypeCorrect** (`Spec => []TypeOK`). Not inductive as it stands: setting keys
  aside stores the remote key `dhr`, which must be one and not `NoKey`, and a wire's
  id counts those sealed before. `TypeInv` adds, for the session in memory and the
  stored one, that a receiving chain has a remote key (`ChainHasKey`), and that a
  party has sealed finitely many wires. What a ratchet's operations do to its type
  is in the lemmas of `DoubleRatchetProofs` (`AfterEncryptType`, `SkipUntilType`,
  `DhRatchetType`, `AfterDecryptType`).
* **ReplayGuardIsExact** (`Spec => []ReplayVerdictExact`). The invariant `ReplayInv`
  says of both the session in memory and the stored one that the cache holds
  exactly the replay keys of `opened` (`CacheTracks`), that `opened` is a part of
  what the peer sealed, and that ids are unique. The crux is that
  `Remember` never drops an entry: a wire is read only while the cache has at most
  `MaxSkipped` entries, so its length stays at or below `MaxSkipped + 1`, and
  `MaxSkipped < MaxReplay`. The misplaced bound check is thus what makes the guard
  exact; moving it where its text says it belongs would need another argument.
* **NumbersAreFresh** (`Spec => []NumberReuseNeedsOrphan`). The invariant
  `NumberInv` keeps, for the session in memory and the stored one, that every wire
  sealed under the current key and not forgotten has a smaller number than the next
  one, and that a key minted later was never used before.
* **SecretsGoForward** (`Spec => []ForwardSecrecy`). A chain is named by the secrets
  mixed into it, so a later chain has a longer name. Each session alone, in memory or
  stored, has left behind every wire it opened (`Used`: an earlier chain, or an earlier
  place in this one, and no key set aside), and no key set aside lies ahead of its
  chain (`Behind`). The lemmas `SkipUntilUsed`, `DhRatchetUsed` and `AfterDecryptUsed`
  show that a reading keeps both; `UsedUnreadable` that what was left behind cannot be
  read again.
* **SessionIsChannel** (`Spec => ImplementsChannel`). Each step of the session is a
  step of `Channel` or a stutter under the mapping of section 2. It rests on
  `ReplayInv`: because the cache holds exactly the keys of what was opened and never
  fills up, an accepted envelope is a new one and the count goes up by one. A refused
  one changes nothing, an abort is a crash, and key generation is not visible.
* **UnreadCanBeRead**, **HonestMailNeverAborts** and **SkippedKeysHaveMail**
  (`Spec => []` of `UnreadStaysReadable`, `NoHonestAbort` and `SkippedKeysWait`). These
  need what each ratchet has to do with the other party. The other ratchet is of no
  use for that: it may be many wires ahead, or back at its last save. `MailInv`
  describes each ratchet against the two sets of wires sealed so far instead, which
  only grow. `Orderly` says of the wires of one party that the numbers on a chain have
  no gap, that `pn` counts the chain before, and that each chain answers a wire of the
  peer. `Leads` says that a ratchet sends where its own wires end; `Follows` that it
  receives where it has read the peer's to, and, in `Accounts`, that it has a key set
  aside for exactly the wires it has passed unread. Both hold of the session in
  memory, and of the stored one wherever nothing was sealed since the save, that is,
  wherever a crash forgets nothing. `ReplayInv` and `NumberInv` are part of
  the invariant, as a key names a chain and a key and a number name a wire only
  while both are fresh. `ReadableAt` shows that in such a state every unread wire can be
  read, `SealOrderly`, `NewWireAhead`, `AccountsOnChain`, `AccountsOnTurn` and
  `ReadInStep` that sealing and reading lead to such a state again. The theorems carry
  the condition of the properties: nothing is said once a crash made a sender forget
  a wire.

Of the conversation carried by mail, the same module proves:

* **MailIsConversation** (`MailSpec => Spec`). That a step of the mail is one of
  `RatchetSession` is plain but for one point: what is opened must be a wire the peer
  sealed, and folders keep wires that were sealed long ago. `FolderInv` says that a
  folder holds only wires its sender has saved (`Saved`: sent, minus the unsaved and
  the orphans), which no later step takes away.
* **MailTypeCorrect** (`MailSpec => []MailTypeOK`), a part of `FolderInv`.
* **NothingBehindCursor** (`MailSpec => []CursorPassesOnlyRead`). A cursor is saved long
  after the batch was searched, so `CursorInv` speaks of the fetch under way as
  well: what it has found and no longer holds, the session in memory has read. At
  `SaveCursor` that session is the stored one, and no save forgets a wire
  (`OpenReads`: neither does opening).
* **ArrivedCanBeRead** (`MailSpec => []ArrivedStaysReadable`), without the condition on
  orphans that `UnreadCanBeRead` has. `SyncInv` relates the ratchets to two versions of
  each party's mail: the session in memory leads the wires a crash did not forget
  (`Live`), the stored one the saved wires, and both follow the saved wires of the
  peer, since nothing else arrives. Unsaved wires come after all saved ones
  (`After`, `LaterWiresAhead`), so that sealing disturbs nobody who
  follows the saved ones, a save makes the two versions one, and a crash goes back to
  the older of them. The orphans it makes may share key and number with later
  wires; they are in no folder.

Of the contacts alone, `AppServiceProofs` proves for any finite set of peers and any
bounds:

* **TypeCorrect** (`Spec => []TypeOK`), with the finiteness of `invites` added, since
  an invite is numbered by counting them.
* **TrustFromFirstUseOrUser** (`Spec => []TrustIsFirstUseOrUser`), with the fact that a
  row and its first fingerprint appear together: `tofu_pin` treats a missing row as
  first use, so the history must be empty exactly then. `SaveContactEffect` says
  what one `save_contact` does, and serves the next two as well.
* **UserLiftsBlocks** (`Spec => OnlyTheUserLiftsABlock`), an action property from
  types alone.
* **StoredAnswersHaveContacts** (`Spec => []StoredAnswerHasContact`), inductive over
  well-typed states: the first write pins, and nothing unpins.

`KeyAgreementProofs` proves, for any initiators, stock and bounds:

* **TypeCorrect**, **RootsAlwaysAgree**, **OneTimeKeysServeOnce** and
  **RefusalsAreJustified** (`Spec => []` of `TypeOK`, `RootsAgree`,
  `OneTimeKeyServesOnce` and `RefusedOnlyIfTaken`). The strengthening says of the keys in
  memory, and of the stored ones, that the two vectors are aligned (a position names
  both halves of one pair, and no id occurs twice), and that every pair the device
  generated is in the vectors or taken (`StockInv`), while one that was taken is in them
  only if a crash brought it back (`SpentInv`). `RemoveAt` at one position in both is
  shown to preserve the alignment; taking the wrong position in either breaks it.

`OutboxProofs` proves, for any messages, retry policy and number of faults:

* **TypeCorrect**, **AcceptedWasAlwaysMailed**, **ExtraMailsHaveLostAnswers**. The
  difficulty is that a row is written over by a copy taken earlier. `MailedInv` says
  that whatever reports an acceptance, the item in hand or a receipt, reports one that
  was. `SpareInv` says that a message about to be sent (in the batch, in hand after a
  failure, or pending in its row) has been mailed only as often as the client was not
  told, and that no message is about to be sent twice. `QueuedInv` and the lemmas
  `QueueEffect` and `ForwardKeepsQueued` serve the composition.
* **RetriesWait** (`Spec => NoEarlyRetry`), an action property. The wait is looked at
  when the batch is read and not when it is sent; `NoDelayInBatch` says that in between
  no delay begins, which needs `SpareInv`: only a failure begins one, and the item that
  failed is not in the batch again.
* **OutboxIsCarefulMailer** (`Spec => ImplementsCarefulMailer`). Each step is a step of
  `CarefulMailer` or a stutter. That a mail goes out, or "sent" is taken back, only while
  no acceptance stands confirmed is `SpareInv`; that "sent" is shown only of what was
  posted is `MailedInv`; `HeardInv` adds that `lost` counts at most the mails there are,
  and fewer while the client holds an acceptance it has not recorded, so that to crash
  then is to forget one. `RowShown` says when replacing a row changes what is shown.

`AppServiceProofs` proves of the composition:

* **QueuedForUnblocked** (`AppSpec => []AppTypeOK`) and **MailGoesToTrusted**
  (`AppSpec => []MailGoesToTrustedIdentity`). The steps of each half are steps of
  its own specification, so the invariants of `ContactTrust` and `Outbox` carry over;
  the rest is that fingerprints once first or vouched for stay so, that every copy of
  an unblocked contact has such a fingerprint, and that what is mailed is queued.
* **AppIsBothParts** (`AppSpec => Spec /\ OP!Spec`): seen through the variables of one
  half, the composition does nothing that half could not do alone, so queueing
  asks for more than `Outbox` does and never for less. **PartsKeepTheirPromises** carries
  over by it what is proved of the halves on their own, the refinement of
  `CarefulMailer` included.

`MailboxSyncProofs` proves **TypeCorrect** (`Spec => []TypeOK`), for which every UID in
the folder, in the loop's hands or in the cursor must be one the server has given out
(`ExpungeEffect` and `SearchFinds` say what a deletion and a search do to them), and
**CursorLeavesNoGap** (`Spec => []NoGapWithoutExpunge`). While nothing is deleted, position
and UID are the same (`folder[i] = i`); the
invariant then says that what was found and not fetched, what was fetched and not
handled, and what was handled together cover everything up to `highest`.

`ShellPersistenceProofs` proves, for any profiles and any number of faults and crashes:

* **TypeCorrect** (`Spec => []TypeOK`). `QueueInv` adds that `import` and `reset` are
  awaited exactly while their call is in the queue, and that what is being written
  is a save.
* **LoadingWritesNothing** (`Spec => LoadingKeepsTheCopies`), an action property: before
  the shell has loaded nothing is under way (`LoadingInv`), and the flag is up when the
  effect first runs.
* **RestIsSaved** (`Spec => []SettledIsSaved`). The property speaks of rest alone and is
  far from inductive. `SavedInv` looks at `Arriving`, what a restart would show once
  the queue was served, and that is what the last call in it carries (`FlagInv`: after
  loading, the flag that keeps an edit out of it is up only while an import is awaited or
  a call has failed): with neither
  handler awaited it is what the screen shows, with an import awaited and nothing
  edited over it the imported profile, with a reset awaited the initial one. Serving a call
  leaves it alone (`ServingBringsItAbout`).

`MessagePadding` proves of its two functions, for every length: **OpenedIsSealed** (a
plaintext without zero bytes, as JSON is, comes back as it was sealed) and
**LengthsShown** (what a mail's length tells).

Every invariant and every action property of the passing runs, and both refinements,
are proved. Only liveness is left to TLC, as the prover has no means for it:
`DeliverySettles` and `EveryMessageIsHandled`.

## 5. Not modelled

Cryptographic functions and signature checks (keys and secrets are ideal), JSON,
safety numbers, the keyring, poll intervals, presentation and demonstration data of the
shell, generated mobile projects and the Android stub of `send_outbox_item`. The cursor
table is modelled for one folder. `UIDVALIDITY` and
folders other than the inbox are listed as hazards: what would react to them is not
in the repository. A `localStorage` that refuses a write is left out. Nothing replenishes one-time prekeys or rotates signed ones, so
there is no operation to model.

## 6. Plan

1. What trust on first use promises, stated without tables and mail (an identity is
   pinned, doubted, and vouched for by the user alone), as an abstract specification
   that `ContactTrust` implements.
2. Once the repository has its receive loop: that loop in place of the one assumed in
   `MailReading`, with deletions, and what it promises of reading in the end.
