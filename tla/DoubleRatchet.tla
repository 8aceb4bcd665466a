--------------------------- MODULE DoubleRatchet ---------------------------
(***************************************************************************)
(* The Double Ratchet that crates/ratchet wraps (the crate                  *)
(* double-ratchet-2, outside the repository), as the wrapper uses it:       *)
(* init_alice, init_bob, ratchet_encrypt and ratchet_decrypt.               *)
(*                                                                          *)
(* Secrets are symbolic.  A public key names its key pair; the              *)
(* Diffie-Hellman secret of two pairs is the unordered set of the two; a    *)
(* root key is the sequence of secrets mixed into it, and the chain key     *)
(* the KDF emits with it is named by the same sequence.  A wire carries     *)
(* the chain it was sealed under: a receiver reads it exactly when it       *)
(* derives the same chain and still holds that message's key.               *)
(***************************************************************************)
EXTENDS Integers, Sequences

CONSTANTS
  Alice,   \* the party that calls init_alice
  Bob,     \* the party that calls init_bob
  NoKey    \* no remote ratchet key seen yet

ASSUME PartyAssumption == Alice # Bob

Party == {Alice, Bob}
Peer(p) == IF p = Alice THEN Bob ELSE Alice

Key   == Party \X Nat            \* the i-th key pair a party generated
ASSUME NoKeyAssumption == NoKey \notin Key

Chain == Seq(SUBSET Key)
NoChain    == << >>              \* cks or ckr is None
SharedRoot == <<{}>>             \* the root key both sides bootstrapped

KdfRk(rk, own, remote) == Append(rk, {own, remote})

Ratchet ==
  [dhs : Key, dhr : Key \cup {NoKey}, rk : Chain, cks : Chain, ckr : Chain,
   ns : Nat, nr : Nat, pn : Nat,
   skipped : SUBSET [key : Key, n : Nat, chain : Chain]]

InitBob ==
  [dhs |-> <<Bob, 0>>, dhr |-> NoKey, rk |-> SharedRoot, cks |-> NoChain,
   ckr |-> NoChain, ns |-> 0, nr |-> 0, pn |-> 0, skipped |-> {}]

InitAlice ==
  LET rk == KdfRk(SharedRoot, <<Alice, 0>>, <<Bob, 0>>)
  IN  [dhs |-> <<Alice, 0>>, dhr |-> <<Bob, 0>>, rk |-> rk, cks |-> rk,
       ckr |-> NoChain, ns |-> 0, nr |-> 0, pn |-> 0, skipped |-> {}]

-----------------------------------------------------------------------------
(* ratchet_encrypt: the header, and the ratchet with its counter advanced.   *)
CanEncrypt(r)    == r.cks # NoChain
\* Slips: the number of the message before; a chain counted one too long.
HeaderPnMore(r)  == [key |-> r.dhs, n |-> r.ns, pn |-> r.pn + 1, chain |-> r.cks]
HeaderOneLess(r) == [key |-> r.dhs, n |-> r.ns - 1, pn |-> r.pn, chain |-> r.cks]
Header(r)        == [key |-> r.dhs, n |-> r.ns, pn |-> r.pn, chain |-> r.cks]

AfterEncrypt(r)  == [r EXCEPT !.ns = @ + 1]

-----------------------------------------------------------------------------
(* ratchet_decrypt: a stored skipped key is used up; otherwise a new remote  *)
(* key turns the DH ratchet (after setting aside the rest of the old chain), *)
(* and the keys before the message's own are set aside.                      *)
SkippedFor(r, w) == {k \in r.skipped : k.key = w.key /\ k.n = w.n}

SkipUntil(r, until) ==
  IF r.ckr = NoChain \/ until <= r.nr THEN r
  ELSE [r EXCEPT !.skipped = @ \cup {[key |-> r.dhr, n |-> i, chain |-> r.ckr] :
                                        i \in r.nr .. until - 1},
                 !.nr = until]

TurnsDh(r, w) == SkippedFor(r, w) = {} /\ w.key # r.dhr

DhRatchet(r, remote, fresh) ==
  LET ckr == KdfRk(r.rk, r.dhs, remote)
      rk  == KdfRk(ckr, fresh, remote)
  IN  [dhs |-> fresh, dhr |-> remote, rk |-> rk, cks |-> rk, ckr |-> ckr,
       ns |-> 0, nr |-> 0, pn |-> r.ns, skipped |-> r.skipped]

OnChain(r, w, fresh) ==
  IF TurnsDh(r, w) THEN DhRatchet(SkipUntil(r, w.pn), w.key, fresh) ELSE r

\* The key this receiver would use is the one the wire was sealed under.
CanDecrypt(r, w) ==
  IF SkippedFor(r, w) # {}
  THEN \E k \in SkippedFor(r, w) : k.chain = w.chain
  ELSE LET c == OnChain(r, w, r.dhs)
       IN  c.ckr = w.chain /\ c.nr <= w.n

AfterDecrypt(r, w, fresh) ==
  IF SkippedFor(r, w) # {}
  THEN [r EXCEPT !.skipped = @ \ SkippedFor(r, w)]
  ELSE [SkipUntil(OnChain(r, w, fresh), w.n) EXCEPT !.nr = w.n + 1]
=============================================================================
