--------------------------- MODULE RatchetSession ---------------------------
(***************************************************************************)
(* A conversation between two devices: crates/ratchet (SessionState, its    *)
(* replay cache and bounds) driven by crates/envelope (seal_message,        *)
(* open_message) and persisted by crates/storage (save_session, session).   *)
(*                                                                          *)
(* Mail delivers a sealed wire never, once, many times or in any order:     *)
(* an envelope, once sealed, may be opened by the peer at any time and any  *)
(* number of times.  A device may crash at any time; it then goes on from   *)
(* the session it last saved.  The repository calls save_session nowhere,   *)
(* so the model lets it happen, or not happen, between any two calls.       *)
(*                                                                          *)
(* A conversation has one session id and one device per side (the           *)
(* protocol's "single-device source of truth"), so neither appears in the   *)
(* replay key below.                                                        *)
(***************************************************************************)
EXTENDS DoubleRatchet, FiniteSets

CONSTANTS
  MaxSkipped,   \* MAX_SKIPPED_MESSAGE_KEYS (1000)
  MaxReplay,    \* MAX_REPLAY_CACHE_PER_SESSION (4096)
  MaxSeals,     \* bound: envelopes sealed, both parties together
  MaxRestarts   \* bound: crashes, both parties together; an abort may follow the last

ASSUME BoundsAssumption ==
  /\ MaxSkipped \in Nat
  /\ MaxReplay \in Nat
  /\ MaxSkipped < MaxReplay
  /\ MaxSeals \in Nat
  /\ MaxRestarts \in Nat

VARIABLES
  session,    \* SessionState in memory, with the wires it has opened
  stored,     \* the sessions table: the SessionState last saved
  keys,       \* key pairs each party has generated, lost ones included
  sent,       \* wires each party has sealed
  unsaved,    \* wires sealed since the party last saved its session
  orphans,    \* wires whose sealing a crash made the sender forget
  outcome,    \* how the last open_message of either party ended
  restarts    \* crashes and aborts so far

vars == <<session, stored, keys, sent, unsaved, orphans, outcome, restarts>>

Wire == [from : Party, key : Key, n : Nat, pn : Nat, chain : Chain, id : Nat]

\* The bytes of ciphertext_sha256 are stood for by the wire's id.
ReplayKeyNoHash(w) ==   \* Slip: two wires under one number look alike
  [key |-> w.key, n |-> w.n, sha256 |-> 0]
ReplayKey(w)  == [key |-> w.key, n |-> w.n, sha256 |-> w.id]
ReplayKeys    == [key : Key, n : Nat, sha256 : Nat]

SessionState == [ratchet : Ratchet, replay_cache : Seq(ReplayKeys),
                 opened : SUBSET Wire]

Entries(cache) == {cache[i] : i \in DOMAIN cache}

NewSession(p) ==
  [ratchet |-> IF p = Alice THEN InitAlice ELSE InitBob,
   replay_cache |-> << >>, opened |-> {}]

Init ==
  /\ session  = [p \in Party |-> NewSession(p)]
  /\ stored   = session
  /\ keys     = [p \in Party |-> 1]
  /\ sent     = [p \in Party |-> {}]
  /\ unsaved  = [p \in Party |-> {}]
  /\ orphans  = {}
  /\ outcome  = "none"
  /\ restarts = 0

-----------------------------------------------------------------------------
(* seal_message: encrypt in the in-memory session and sign.  The id stands   *)
(* for the ciphertext, which the fresh nonce makes different at every call.  *)
Seal(p) ==
  LET r == session[p].ratchet
      w == [from |-> p, key |-> Header(r).key, n |-> Header(r).n,
            pn |-> Header(r).pn, chain |-> Header(r).chain,
            id |-> Cardinality(sent[p])]
  IN  /\ CanEncrypt(r)
      /\ Cardinality(sent[Alice]) + Cardinality(sent[Bob]) < MaxSeals
      /\ session' = [session EXCEPT ![p].ratchet = AfterEncrypt(r)]
      /\ sent'    = [sent EXCEPT ![p] = @ \cup {w}]
      /\ unsaved' = [unsaved EXCEPT ![p] = @ \cup {w}]
      /\ UNCHANGED <<stored, keys, orphans, outcome, restarts>>

ReplaySeenNever(s, w) == FALSE          \* Slip: no replay guard
ReplaySeen(s, w) == ReplayKey(w) \in Entries(s.replay_cache)

\* The code measures the replay cache here, not the skipped keys.
SkippedBoundExceeded(s) == Len(s.replay_cache) > MaxSkipped

Remember(s, w) ==
  Append(IF Len(s.replay_cache) = MaxReplay THEN Tail(s.replay_cache)
                                            ELSE s.replay_cache,
         ReplayKey(w))

\* open_message refuses the wire before touching the session.
OpenRefused(p, w) ==
  LET s == session[p]
  IN  /\ \/ ReplaySeen(s, w) /\ outcome' = "replayed"
         \/ /\ ~ReplaySeen(s, w)
            /\ SkippedBoundExceeded(s)
            /\ outcome' = "bound"
      /\ UNCHANGED <<session, stored, keys, sent, unsaved, orphans, restarts>>

ReachesRatchet(s, w) == ~ReplaySeen(s, w) /\ ~SkippedBoundExceeded(s)

\* open_message reads the wire: the ratchet moves, the cache remembers.
OpenAccepted(p, w) ==
  LET s     == session[p]
      fresh == <<p, keys[p]>>
  IN  /\ ReachesRatchet(s, w)
      /\ CanDecrypt(s.ratchet, w)
      /\ session' = [session EXCEPT ![p] =
           [ratchet      |-> AfterDecrypt(s.ratchet, w, fresh),
            replay_cache |-> Remember(s, w),
            opened       |-> s.opened \cup {w}]]
      /\ keys' = [keys EXCEPT ![p] = IF TurnsDh(s.ratchet, w) THEN @ + 1 ELSE @]
      /\ outcome' = "opened"
      /\ UNCHANGED <<stored, sent, unsaved, orphans, restarts>>

\* The process holding the session goes down; session() then loads what was
\* last saved.
ForgetSessionAnew(p) ==    \* Slip: a new session is begun
  /\ restarts' = restarts + 1
  /\ session' = [session EXCEPT ![p] = NewSession(p)]
  /\ orphans' = orphans \cup unsaved[p]
  /\ unsaved' = [unsaved EXCEPT ![p] = {}]
ForgetSession(p) ==
  /\ restarts' = restarts + 1
  /\ session' = [session EXCEPT ![p] = stored[p]]
  /\ orphans' = orphans \cup unsaved[p]
  /\ unsaved' = [unsaved EXCEPT ![p] = {}]

\* ratchet_decrypt has no error result: a wire it cannot read takes the
\* caller down, and with it the session it was mutating.
OpenAborts(p, w) ==
  LET s == session[p]
  IN  /\ ReachesRatchet(s, w)
      /\ ~CanDecrypt(s.ratchet, w)
      /\ restarts <= MaxRestarts
      /\ ForgetSession(p)
      /\ outcome' = "aborted"
      /\ UNCHANGED <<stored, keys, sent>>

\* Slips: the row is not replaced; the ratchet is not in the blob, or its
\* skipped keys are not.
SaveOrIgnore(p) ==
  /\ unsaved' = [unsaved EXCEPT ![p] = {}]
  /\ UNCHANGED <<session, stored, keys, sent, orphans, outcome, restarts>>
SaveCacheOnly(p) ==
  /\ stored'  = [stored EXCEPT ![p] = [session[p] EXCEPT !.ratchet = stored[p].ratchet]]
  /\ unsaved' = [unsaved EXCEPT ![p] = {}]
  /\ UNCHANGED <<session, keys, sent, orphans, outcome, restarts>>
SaveWithoutSkipped(p) ==
  /\ stored'  = [stored EXCEPT ![p] = [session[p] EXCEPT !.ratchet.skipped = {}]]
  /\ unsaved' = [unsaved EXCEPT ![p] = {}]
  /\ UNCHANGED <<session, keys, sent, orphans, outcome, restarts>>

SaveSession(p) ==
  /\ stored'  = [stored EXCEPT ![p] = session[p]]
  /\ unsaved' = [unsaved EXCEPT ![p] = {}]
  /\ UNCHANGED <<session, keys, sent, orphans, outcome, restarts>>

\* A crash between any two calls.
Restart(p) ==
  /\ restarts < MaxRestarts
  /\ ForgetSession(p)
  /\ UNCHANGED <<stored, keys, sent, outcome>>

Open(p, w) == OpenRefused(p, w) \/ OpenAccepted(p, w) \/ OpenAborts(p, w)

Next ==
  \E p \in Party :
    \/ Seal(p)
    \/ \E w \in sent[Peer(p)] : Open(p, w)
    \/ SaveSession(p)
    \/ Restart(p)

Spec == Init /\ [][Next]_vars

-----------------------------------------------------------------------------
(* Properties.                                                              *)

\* The ratchet, its caches and the crash bookkeeping stay well formed: no
\* sequence of opens makes a message counter negative or a key alien.
TypeOK ==
  /\ session \in [Party -> SessionState]
  /\ stored \in [Party -> SessionState]
  /\ keys \in [Party -> Nat]
  /\ sent \in [Party -> SUBSET Wire]
  /\ unsaved \in [Party -> SUBSET Wire]
  /\ orphans \in SUBSET Wire
  /\ outcome \in {"none", "opened", "replayed", "bound", "aborted"}
  /\ restarts \in Nat

\* The replay guard is exact: it refuses an envelope if and only if this
\* session has read that very envelope, whatever was delivered in between,
\* reordered, duplicated or lost, and whatever either side forgot in a crash
\* (ensure_replay_not_seen and remember_replay).
ReplayVerdictExact ==
  \A p \in Party : \A w \in sent[Peer(p)] :
    ReplaySeen(session[p], w) <=> w \in session[p].opened

\* Opening an envelope the peer sealed never takes the reader down, as long
\* as no crash made a sender forget an envelope it had sealed: every copy that
\* would hit a used key is stopped before ratchet_decrypt sees it.
NoHonestAbort == orphans = {} => outcome # "aborted"

\* No delivery order loses an envelope: one that was not read yet can still be
\* read, across DH turns and across crashes of the reader, as long as no crash
\* made a sender forget an envelope it had sealed.
UnreadStaysReadable ==
  orphans = {} =>
    \A p \in Party : \A w \in sent[Peer(p)] \ session[p].opened :
      CanDecrypt(session[p].ratchet, w)

\* Forward secrecy, crashes included: the keys a session holds, or goes back to,
\* read nothing it has read already (ratchet_decrypt uses keys up, save_session
\* writes the ratchet together with the replay cache).
ForwardSecrecy ==
  \A p \in Party : \A w \in session[p].opened : ~CanDecrypt(session[p].ratchet, w)

\* The skipped keys never outgrow the mail: each waits for an envelope the peer
\* has sealed and this session has not read (header.pn, header.n), as long as no
\* crash made a sender forget one.
SkippedKeysWait ==
  orphans = {} =>
    \A p \in Party : \A k \in session[p].ratchet.skipped :
      \E w \in sent[Peer(p)] \ session[p].opened :
        k = [key |-> w.key, n |-> w.n, chain |-> w.chain]

\* Two envelopes share a ratchet key and a message number only if a crash made
\* the sender forget one of them: what a caller of seal_message buys by saving
\* the session before it lets the envelope out.
NumberReuseNeedsOrphan ==
  \A p \in Party : \A v, w \in sent[p] :
    v # w /\ v.key = w.key /\ v.n = w.n => v \in orphans \/ w \in orphans

\* What the error text of SessionState::decrypt says, "skipped key bound
\* exceeded": it is given only to a session holding that many skipped keys.
SkippedBoundIsHonest ==
  \A p \in Party :
    SkippedBoundExceeded(session[p])
      => Cardinality(session[p].ratchet.skipped) > MaxSkipped

-----------------------------------------------------------------------------
(* What the session implements.                                             *)
Shown(s) == [messages |-> s.opened, shown |-> Len(s.replay_cache)]

Ch == INSTANCE Channel WITH
        Device <- Party, Other <- Peer, sent <- sent,
        read <- [p \in Party |-> Shown(session[p])],
        kept <- [p \in Party |-> Shown(stored[p])]

\* The conversation is a channel: an envelope is shown at most once between two
\* saves, whatever is delivered twice, and a crash forgets only what was read
\* after the last save (ensure_replay_not_seen, save_session and session()).
ImplementsChannel == Ch!Spec
=============================================================================
