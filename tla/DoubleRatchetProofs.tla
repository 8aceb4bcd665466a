------------------------ MODULE DoubleRatchetProofs ------------------------
(***************************************************************************)
(* What one step of the ratchet returns, for every key, counter and chain,  *)
(* and how the ratchets of two parties stay in step when each opens what     *)
(* the other sealed, in whatever order it comes.                            *)
(***************************************************************************)
EXTENDS DoubleRatchet, TLAPS

\* A receiving chain has a remote key: skip_message_keys files the keys of a
\* chain under dhr, and would find none there otherwise.
ChainHasKey(r) == r.ckr # NoChain => r.dhr # NoKey

LEMMA PeerParty == \A p \in Party : Peer(p) \in Party /\ Peer(Peer(p)) = p /\ Peer(p) # p
  BY PartyAssumption DEF Party, Peer

LEMMA KdfRkType ==
  \A rk \in Chain : \A own, remote \in Key : KdfRk(rk, own, remote) \in Chain
  BY DEF Chain, KdfRk

LEMMA InitBobType == InitBob \in Ratchet /\ ChainHasKey(InitBob)
<1>1. NoChain \in Chain /\ SharedRoot \in Chain
  BY DEF NoChain, SharedRoot, Chain
<1>2. <<Bob, 0>> \in Key
  BY DEF Key, Party
<1> QED
  BY <1>1, <1>2 DEF InitBob, Ratchet, ChainHasKey

LEMMA InitAliceType == InitAlice \in Ratchet /\ ChainHasKey(InitAlice)
<1>1. NoChain \in Chain /\ SharedRoot \in Chain
  BY DEF NoChain, SharedRoot, Chain
<1>2. <<Alice, 0>> \in Key /\ <<Bob, 0>> \in Key
  BY DEF Key, Party
<1>3. KdfRk(SharedRoot, <<Alice, 0>>, <<Bob, 0>>) \in Chain
  BY <1>1, <1>2, KdfRkType
<1> QED
  BY <1>1, <1>2, <1>3 DEF InitAlice, Ratchet, ChainHasKey

\* ratchet_encrypt moves nothing but the sending counter.
LEMMA AfterEncryptType ==
  ASSUME NEW r \in Ratchet, ChainHasKey(r)
  PROVE  /\ AfterEncrypt(r) \in Ratchet
         /\ ChainHasKey(AfterEncrypt(r))
         /\ AfterEncrypt(r).dhs = r.dhs
         /\ AfterEncrypt(r).ns = r.ns + 1
  BY DEF AfterEncrypt, Ratchet, ChainHasKey

\* Setting keys aside touches the receiving counter and the skipped keys only.
LEMMA SkipUntilType ==
  ASSUME NEW r \in Ratchet, ChainHasKey(r), NEW until \in Nat
  PROVE  /\ SkipUntil(r, until) \in Ratchet
         /\ ChainHasKey(SkipUntil(r, until))
         /\ SkipUntil(r, until).dhs = r.dhs
         /\ SkipUntil(r, until).ns = r.ns
<1>1. CASE r.ckr = NoChain \/ until <= r.nr
  BY <1>1 DEF SkipUntil
<1>2. CASE ~(r.ckr = NoChain \/ until <= r.nr)
  <2> DEFINE new == {[key |-> r.dhr, n |-> i, chain |-> r.ckr] : i \in r.nr .. until - 1}
  <2>1. r.dhr \in Key /\ r.ckr \in Chain /\ r.nr \in Nat
    BY <1>2 DEF Ratchet, ChainHasKey
  <2>2. new \in SUBSET [key : Key, n : Nat, chain : Chain]
    BY <2>1
  <2>3. r.skipped \cup new \in SUBSET [key : Key, n : Nat, chain : Chain]
    BY <2>2 DEF Ratchet
  <2>4. SkipUntil(r, until) = [r EXCEPT !.skipped = r.skipped \cup new, !.nr = until]
    BY <1>2 DEF SkipUntil
  <2> HIDE DEF new
  <2> QED
    BY <2>3, <2>4 DEF Ratchet, ChainHasKey
<1> QED
  BY <1>1, <1>2

\* A DH turn starts a new sending chain under the fresh key.
LEMMA DhRatchetType ==
  ASSUME NEW r \in Ratchet, NEW remote \in Key, NEW fresh \in Key, remote # NoKey
  PROVE  /\ DhRatchet(r, remote, fresh) \in Ratchet
         /\ ChainHasKey(DhRatchet(r, remote, fresh))
         /\ DhRatchet(r, remote, fresh).dhs = fresh
         /\ DhRatchet(r, remote, fresh).ns = 0
<1> DEFINE ckr == KdfRk(r.rk, r.dhs, remote)
           rk  == KdfRk(ckr, fresh, remote)
<1>1. ckr \in Chain /\ rk \in Chain
  BY KdfRkType DEF Ratchet
<1>2. DhRatchet(r, remote, fresh) =
        [dhs |-> fresh, dhr |-> remote, rk |-> rk, cks |-> rk, ckr |-> ckr,
         ns |-> 0, nr |-> 0, pn |-> r.ns, skipped |-> r.skipped]
  BY DEF DhRatchet
<1> HIDE DEF ckr, rk
<1> QED
  BY <1>1, <1>2 DEF Ratchet, ChainHasKey

\* ratchet_decrypt keeps the ratchet well formed; it leaves the sending chain
\* alone or starts a new one under the fresh key.
LEMMA AfterDecryptType ==
  ASSUME NEW r \in Ratchet, ChainHasKey(r), NEW fresh \in Key,
         NEW w, w.key \in Key, w.n \in Nat, w.pn \in Nat, w.key # NoKey
  PROVE  /\ AfterDecrypt(r, w, fresh) \in Ratchet
         /\ ChainHasKey(AfterDecrypt(r, w, fresh))
         /\ IF TurnsDh(r, w)
            THEN /\ AfterDecrypt(r, w, fresh).dhs = fresh
                 /\ AfterDecrypt(r, w, fresh).ns = 0
            ELSE /\ AfterDecrypt(r, w, fresh).dhs = r.dhs
                 /\ AfterDecrypt(r, w, fresh).ns = r.ns
<1>1. CASE SkippedFor(r, w) # {}
  BY <1>1 DEF AfterDecrypt, TurnsDh, Ratchet, ChainHasKey
<1>2. CASE SkippedFor(r, w) = {}
  <2> DEFINE c == OnChain(r, w, fresh)
             s == SkipUntil(c, w.n)
  <2>1. /\ c \in Ratchet /\ ChainHasKey(c)
        /\ IF TurnsDh(r, w) THEN c.dhs = fresh /\ c.ns = 0
                            ELSE c.dhs = r.dhs /\ c.ns = r.ns
    BY SkipUntilType, DhRatchetType DEF OnChain
  <2>2. s \in Ratchet /\ ChainHasKey(s) /\ s.dhs = c.dhs /\ s.ns = c.ns
    BY <2>1, SkipUntilType
  <2>3. AfterDecrypt(r, w, fresh) = [s EXCEPT !.nr = w.n + 1]
    BY <1>2 DEF AfterDecrypt
  <2> HIDE DEF s, c
  <2> QED
    BY <2>1, <2>2, <2>3 DEF Ratchet, ChainHasKey
<1> QED
  BY <1>1, <1>2
-----------------------------------------------------------------------------
(* Used keys.  A chain is named by the secrets mixed into it, so a chain      *)
(* derived later has a longer name, and no wire is read under it that was     *)
(* read before.                                                             *)

\* The chains a ratchet knows are no longer than its root, and of the chain it
\* receives on it has set aside only keys it has passed.
Behind(r) ==
  /\ Len(r.ckr) <= Len(r.rk)
  /\ \A k \in r.skipped : /\ Len(k.chain) <= Len(r.rk)
                          /\ k.chain = r.ckr => k.n < r.nr

\* The ratchet has left the wire behind and holds no key for it.
Used(r, w) ==
  /\ Len(w.chain) <= Len(r.rk)
  /\ w.chain = r.ckr => w.n < r.nr
  /\ \A k \in r.skipped : ~(k.key = w.key /\ k.n = w.n /\ k.chain = w.chain)

LEMMA ChainLength ==
  \A rk \in Chain : \A own, remote \in Key :
    /\ Len(rk) \in Nat
    /\ Len(KdfRk(rk, own, remote)) = Len(rk) + 1
  BY DEF Chain, KdfRk

\* A ratchet at its beginning has used nothing.
LEMMA BehindInit == Behind(InitBob) /\ Behind(InitAlice)
<1>1. Len(SharedRoot) = 1 /\ Len(NoChain) = 0 /\ SharedRoot \in Chain
  BY DEF SharedRoot, NoChain, Chain
<1>2. <<Alice, 0>> \in Key /\ <<Bob, 0>> \in Key
  BY DEF Key, Party
<1>3. \A own, remote \in Key : 0 <= Len(KdfRk(SharedRoot, own, remote))
  BY <1>1, ChainLength
<1> QED
  BY <1>1, <1>2, <1>3 DEF Behind, InitBob, InitAlice

\* What skip_message_keys sets aside lies ahead, so it was not used.
LEMMA SkipUntilUsed ==
  ASSUME NEW r \in Ratchet, ChainHasKey(r), Behind(r), NEW until \in Nat
  PROVE  LET s == SkipUntil(r, until)
         IN  /\ s.rk = r.rk /\ s.ckr = r.ckr /\ s.dhs = r.dhs /\ s.dhr = r.dhr
             /\ s.nr = r.nr \/ (s.nr = until /\ r.nr < until)
             /\ Behind(s)
             /\ \A k \in s.skipped \ r.skipped :
                  k.key = r.dhr /\ k.chain = r.ckr /\ k.n \in r.nr .. until - 1
             /\ \A w : w.n \in Nat /\ Used(r, w) => Used(s, w)
<1> DEFINE s == SkipUntil(r, until)
<1>1. CASE r.ckr = NoChain \/ until <= r.nr
  BY <1>1 DEF SkipUntil
<1>2. CASE ~(r.ckr = NoChain \/ until <= r.nr)
  <2> DEFINE new == {[key |-> r.dhr, n |-> i, chain |-> r.ckr] : i \in r.nr .. until - 1}
  <2>1. \A k \in new : k.key = r.dhr /\ k.chain = r.ckr /\ k.n \in r.nr .. until - 1
    OBVIOUS
  <2>2. s = [r EXCEPT !.skipped = r.skipped \cup new, !.nr = until]
    BY <1>2 DEF SkipUntil
  <2>3. /\ s.rk = r.rk /\ s.ckr = r.ckr /\ s.dhs = r.dhs /\ s.dhr = r.dhr
        /\ s.nr = until /\ s.skipped = r.skipped \cup new
    BY <2>2 DEF Ratchet
  <2>4. r.nr \in Nat /\ r.nr < until /\ \A k \in r.skipped : k.n \in Nat
    BY <1>2 DEF Ratchet
  <2> HIDE DEF new, s
  <2>5. Behind(s)
    BY <2>1, <2>3, <2>4 DEF Behind
  <2>6. ASSUME NEW w, w.n \in Nat, Used(r, w)  PROVE Used(s, w)
    <3>1. w.chain = r.ckr => w.n < r.nr
      BY <2>6 DEF Used
    <3>2. w.chain = s.ckr => w.n < s.nr
      BY <2>3, <2>4, <2>6, <3>1
    <3>3. ASSUME NEW k \in new  PROVE ~(k.key = w.key /\ k.n = w.n /\ k.chain = w.chain)
      BY <2>1, <2>4, <3>1
    <3> QED  BY <2>3, <2>6, <3>2, <3>3 DEF Used
  <2> QED  BY <2>1, <2>3, <2>4, <2>5, <2>6 DEF s
<1> QED  BY <1>1, <1>2

\* A DH turn leaves every chain known so far behind.
LEMMA DhRatchetUsed ==
  ASSUME NEW r \in Ratchet, Behind(r), NEW remote \in Key, NEW fresh \in Key
  PROVE  LET c == DhRatchet(r, remote, fresh)
         IN  /\ Len(r.rk) \in Nat /\ Len(c.ckr) = Len(r.rk) + 1
             /\ c.nr = 0 /\ c.dhr = remote /\ c.skipped = r.skipped
             /\ Behind(c)
             /\ \A w : Used(r, w) /\ w.chain \in Chain => Used(c, w)
<1> DEFINE ckr == KdfRk(r.rk, r.dhs, remote)
           rk  == KdfRk(ckr, fresh, remote)
           c   == DhRatchet(r, remote, fresh)
<1>1. r.rk \in Chain /\ r.dhs \in Key /\ \A k \in r.skipped : k.chain \in Chain
  BY DEF Ratchet
<1>2. ckr \in Chain /\ Len(r.rk) \in Nat /\ Len(ckr) = Len(r.rk) + 1
  BY <1>1, ChainLength, KdfRkType
<1>3. Len(rk) = Len(r.rk) + 2
  BY <1>2, ChainLength
<1>4. c.rk = rk /\ c.ckr = ckr /\ c.nr = 0 /\ c.dhr = remote /\ c.skipped = r.skipped
  BY DEF DhRatchet
<1> HIDE DEF c, rk, ckr
<1>5. \A s \in Chain : Len(s) \in Nat /\ (Len(s) <= Len(r.rk) => Len(s) <= Len(rk) /\ s # ckr)
  <2>1. \A s \in Chain : Len(s) \in Nat
    BY DEF Chain
  <2> QED  BY <1>2, <1>3, <2>1
<1>6. Behind(c)
  BY <1>1, <1>2, <1>3, <1>4, <1>5 DEF Behind
<1>7. \A w : Used(r, w) /\ w.chain \in Chain => Used(c, w)
  BY <1>4, <1>5 DEF Used
<1> QED  BY <1>2, <1>4, <1>6, <1>7 DEF c

\* A used wire cannot be read.
LEMMA UsedUnreadable ==
  ASSUME NEW r \in Ratchet, ChainHasKey(r), Behind(r), NEW w,
         w.key \in Key, w.n \in Nat, w.pn \in Nat, w.chain \in Chain, Used(r, w)
  PROVE  ~CanDecrypt(r, w)
<1>1. CASE SkippedFor(r, w) # {}
  BY <1>1 DEF CanDecrypt, SkippedFor, Used
<1>2. CASE SkippedFor(r, w) = {} /\ ~TurnsDh(r, w)
  BY <1>2 DEF CanDecrypt, OnChain, Used, Ratchet
<1>3. CASE SkippedFor(r, w) = {} /\ TurnsDh(r, w)
  <2> DEFINE s == SkipUntil(r, w.pn)
             c == DhRatchet(s, w.key, r.dhs)
  <2>1. s \in Ratchet /\ s.rk = r.rk /\ Behind(s) /\ r.dhs \in Key
    BY SkipUntilType, SkipUntilUsed DEF Ratchet
  <2> HIDE DEF s
  <2>2. Len(r.rk) \in Nat /\ Len(c.ckr) = Len(r.rk) + 1
    BY <2>1, DhRatchetUsed
  <2>3. Len(w.chain) <= Len(r.rk) /\ Len(w.chain) \in Nat
    BY DEF Used, Chain
  <2>4. c.ckr # w.chain
    BY <2>2, <2>3
  <2> QED  BY <1>3, <2>4 DEF CanDecrypt, OnChain, s
<1> QED  BY <1>1, <1>2, <1>3

\* Reading a wire uses it up, and leaves what was used before used.
LEMMA AfterDecryptUsed ==
  ASSUME NEW r \in Ratchet, ChainHasKey(r), Behind(r), NEW fresh \in Key, NEW w,
         w.key \in Key, w.n \in Nat, w.pn \in Nat, w.chain \in Chain, CanDecrypt(r, w)
  PROVE  LET a == AfterDecrypt(r, w, fresh)
         IN  /\ Behind(a) /\ Used(a, w)
             /\ \A v : v.n \in Nat /\ v.chain \in Chain /\ Used(r, v) => Used(a, v)
<1>1. CASE SkippedFor(r, w) # {}
  <2> DEFINE a == AfterDecrypt(r, w, fresh)
  <2>1. a.rk = r.rk /\ a.ckr = r.ckr /\ a.nr = r.nr
        /\ a.skipped = r.skipped \ SkippedFor(r, w)
    BY <1>1 DEF AfterDecrypt, Ratchet
  <2>2. PICK k \in SkippedFor(r, w) : k.chain = w.chain
    BY <1>1 DEF CanDecrypt
  <2>3. k \in r.skipped /\ k.n = w.n
    BY <2>2 DEF SkippedFor
  <2> HIDE DEF a
  <2>4. Used(a, w)
    BY <2>1, <2>2, <2>3 DEF Used, Behind, SkippedFor
  <2> QED  BY <2>1, <2>4 DEF Used, Behind, a
<1>2. CASE SkippedFor(r, w) = {}
  <2> DEFINE c == OnChain(r, w, fresh)
             s == SkipUntil(c, w.n)
             a == AfterDecrypt(r, w, fresh)
  <2>1. /\ c \in Ratchet /\ ChainHasKey(c) /\ Behind(c)
        /\ c.ckr = w.chain /\ c.nr <= w.n
        /\ \A k \in c.skipped : ~(k.key = w.key /\ k.n = w.n)
        /\ \A v : v.n \in Nat /\ v.chain \in Chain /\ Used(r, v) => Used(c, v)
    <3>1. CASE ~TurnsDh(r, w)
      BY <1>2, <3>1 DEF OnChain, CanDecrypt, SkippedFor
    <3>2. CASE TurnsDh(r, w)
      <4> DEFINE t == SkipUntil(r, w.pn)
      <4>1. /\ t \in Ratchet /\ ChainHasKey(t) /\ Behind(t) /\ r.dhs \in Key
            /\ \A k \in t.skipped \ r.skipped : k.key = r.dhr
            /\ \A v : v.n \in Nat /\ Used(r, v) => Used(t, v)
        BY SkipUntilType, SkipUntilUsed DEF Ratchet
      <4>2. w.key # r.dhr /\ w.key # NoKey
        BY <3>2, NoKeyAssumption DEF TurnsDh
      <4>3. c = DhRatchet(t, w.key, fresh)
        BY <3>2 DEF OnChain
      <4>4. DhRatchet(t, w.key, r.dhs).ckr = c.ckr /\ DhRatchet(t, w.key, r.dhs).nr = c.nr
        BY <4>3 DEF DhRatchet
      <4>5. c.ckr = w.chain /\ c.nr <= w.n
        BY <1>2, <3>2, <4>4 DEF CanDecrypt, OnChain
      <4> HIDE DEF t, c
      <4>6. c \in Ratchet /\ ChainHasKey(c) /\ Behind(c) /\ c.skipped = t.skipped
            /\ \A v : Used(t, v) /\ v.chain \in Chain => Used(c, v)
        BY <4>1, <4>2, <4>3, DhRatchetType, DhRatchetUsed
      <4>7. \A k \in c.skipped : ~(k.key = w.key /\ k.n = w.n)
        BY <1>2, <4>1, <4>2, <4>6 DEF SkippedFor
      <4> QED  BY <4>1, <4>5, <4>6, <4>7
    <3> QED  BY <3>1, <3>2
  <2> HIDE DEF c
  <2>2. /\ s \in Ratchet /\ s.rk = c.rk /\ s.ckr = c.ckr
        /\ s.nr = c.nr \/ s.nr = w.n
        /\ Behind(s)
        /\ \A k \in s.skipped \ c.skipped : k.n \in c.nr .. w.n - 1
        /\ \A v : v.n \in Nat /\ Used(c, v) => Used(s, v)
    BY <2>1, SkipUntilType, SkipUntilUsed
  <2>3. a = [s EXCEPT !.nr = w.n + 1]
    BY <1>2 DEF AfterDecrypt, c
  <2> HIDE DEF s, a
  <2>4. a.rk = s.rk /\ a.ckr = s.ckr /\ a.nr = w.n + 1 /\ a.skipped = s.skipped
    BY <2>2, <2>3 DEF Ratchet
  <2>5. s.nr \in Nat /\ s.nr <= w.n /\ \A k \in s.skipped : k.n \in Nat
    BY <2>1, <2>2 DEF Ratchet
  <2>6. Behind(a)
    BY <2>2, <2>4, <2>5 DEF Behind
  <2>7. Used(a, w)
    <3>1. Len(w.chain) <= Len(a.rk) /\ w.n < a.nr
      BY <2>1, <2>2, <2>4 DEF Behind
    <3>2. \A k \in s.skipped : ~(k.key = w.key /\ k.n = w.n)
      BY <2>1, <2>2
    <3> QED  BY <2>4, <3>1, <3>2 DEF Used
  <2>8. ASSUME NEW v, v.n \in Nat, Used(s, v)  PROVE Used(a, v)
    <3>1. v.chain = a.ckr => v.n < a.nr
      <4>1. ASSUME v.chain = a.ckr  PROVE v.n < w.n + 1
        <5>1. v.n < s.nr
          BY <2>4, <2>8, <4>1 DEF Used
        <5> QED  BY <2>5, <2>8, <5>1
      <4> QED  BY <2>4, <4>1
    <3> QED  BY <2>4, <2>8, <3>1 DEF Used
  <2> QED  BY <2>1, <2>2, <2>6, <2>7, <2>8 DEF a
<1> QED  BY <1>1, <1>2
-----------------------------------------------------------------------------
(* Two ratchets that talk by mail.  What ties the two together is the mail:   *)
(* each is described against the wires both have sealed, never against the    *)
(* other.  Below, ws are the wires of party p and vs those of its peer.       *)

WiresOK(ws) ==
  \A w \in ws : w.key \in Key /\ w.n \in Nat /\ w.pn \in Nat /\ w.chain \in Chain

\* Alice seals on chains of even length, Bob on chains of odd length.
Half(p) == IF p = Alice THEN 0 ELSE 1

Start(p) == IF p = Alice THEN InitAlice ELSE InitBob

\* A wire has number i on the chain of length l.
At(ws, l, i) == \E w \in ws : Len(w.chain) = l /\ w.n = i

\* The chain of a wire was derived from a wire the sender had read, or is the
\* one that Alice begins with.
Answers(w, vs) ==
  IF Len(w.chain) = 2
  THEN w.key = <<Alice, 0>> /\ w.chain = KdfRk(SharedRoot, <<Alice, 0>>, <<Bob, 0>>)
  ELSE \E v \in vs : /\ Len(v.chain) + 1 = Len(w.chain)
                     /\ w.chain = KdfRk(v.chain, v.key, w.key)

\* The wires of one party: a key names a chain and a key and a number name a
\* wire; the numbers on a chain have no gap, and pn counts the chain before.
Orderly(p, ws, vs) ==
  /\ \A w \in ws : Len(w.chain) >= 2 /\ Len(w.chain) % 2 = Half(p) /\ w.key # <<Bob, 0>>
  /\ \A v, w \in ws : v.key = w.key <=> Len(v.chain) = Len(w.chain)
  /\ \A v, w \in ws : v.key = w.key => v.chain = w.chain
  /\ \A v, w \in ws : v.key = w.key /\ v.n = w.n => v = w
  /\ \A w \in ws : \A i \in 0 .. w.n - 1 : At(ws, Len(w.chain), i)
  /\ \A w \in ws : \A i \in Nat : i < w.pn <=> At(ws, Len(w.chain) - 2, i)
  /\ \A w \in ws : Answers(w, vs)

\* The ratchet of party p is where its own wires end.
Leads(p, r, ws) ==
  /\ Len(r.rk) >= 1 /\ Len(r.rk) % 2 = Half(p)
  /\ r.cks = IF Len(r.rk) = 1 THEN NoChain ELSE r.rk
  /\ Len(r.rk) > 1 => r.dhs # <<Bob, 0>>
  /\ \A w \in ws : Len(w.chain) <= Len(r.rk)
  /\ \A w \in ws : w.key = r.dhs <=> Len(w.chain) = Len(r.rk)
  /\ \A w \in ws : w.key = r.dhs => w.chain = r.rk
  /\ \A i \in Nat : i < r.ns <=> At(ws, Len(r.rk), i)
  /\ \A i \in Nat : i < r.pn <=> At(ws, Len(r.rk) - 2, i)

\* The ratchet has gone past the wire's place.
Passed(r, w) ==
  \/ Len(w.chain) < Len(r.ckr)
  \/ Len(w.chain) = Len(r.ckr) /\ w.n < r.nr

KeyOf(w) == [key |-> w.key, n |-> w.n, chain |-> w.chain]

\* It has passed what was read, and set aside a key for exactly the wires that
\* it passed without reading them.
Accounts(r, read, vs) ==
  /\ \A w \in read : Passed(r, w)
  /\ r.skipped = {KeyOf(w) : w \in {v \in vs \ read : Passed(r, v)}}

\* The ratchet of party p is where it read its peer's wires to.
Follows(p, r, read, vs) ==
  /\ IF r.ckr = NoChain
     THEN r.rk = Start(p).rk /\ r.dhs = Start(p).dhs /\ r.dhr = Start(p).dhr
     ELSE /\ r.rk = KdfRk(r.ckr, r.dhs, r.dhr)
          /\ \E v \in vs : v.chain = r.ckr /\ v.key = r.dhr /\ v.n + 1 = r.nr
  /\ read \subseteq vs
  /\ Accounts(r, read, vs)

LEMMA KdfRkSymmetric == \A rk, a, b : KdfRk(rk, a, b) = KdfRk(rk, b, a)
<1>1. \A a, b : {a, b} = {b, a}
  OBVIOUS
<1> QED  BY <1>1 DEF KdfRk

LEMMA HalfOfPeer ==
  \A p \in Party : Half(p) \in {0, 1} /\ Half(p) # Half(Peer(p)) /\ Peer(p) \in Party
BY PartyAssumption DEF Party, Half, Peer

LEMMA TwoLonger == \A n \in Nat : (n + 2) % 2 = n % 2
OBVIOUS

LEMMA StartRatchet ==
  ASSUME NEW p \in Party
  PROVE  /\ Start(p).ckr = NoChain /\ Start(p).rk \in Chain /\ Start(p).dhs \in Key
         /\ p = Alice => /\ Len(Start(p).rk) = 2 /\ Start(p).cks = Start(p).rk
                         /\ Start(p).rk = KdfRk(SharedRoot, <<Alice, 0>>, <<Bob, 0>>)
                         /\ Start(p).dhs = <<Alice, 0>> /\ Start(p).dhr = <<Bob, 0>>
         /\ p # Alice => /\ Len(Start(p).rk) = 1 /\ Start(p).cks = NoChain
                         /\ Start(p).rk = SharedRoot
                         /\ Start(p).dhs = <<Bob, 0>> /\ Start(p).dhr = NoKey
<1>1. SharedRoot \in Chain /\ Len(SharedRoot) = 1
  BY DEF SharedRoot, Chain
<1>2. <<Alice, 0>> \in Key /\ <<Bob, 0>> \in Key
  BY DEF Key, Party
<1>3. Len(KdfRk(SharedRoot, <<Alice, 0>>, <<Bob, 0>>)) = 2
      /\ KdfRk(SharedRoot, <<Alice, 0>>, <<Bob, 0>>) \in Chain
  <2>1. \A a, b \in Key : /\ Len(KdfRk(SharedRoot, a, b)) = Len(SharedRoot) + 1
                          /\ KdfRk(SharedRoot, a, b) \in Chain
    BY <1>1, ChainLength, KdfRkType
  <2>2. Len(SharedRoot) + 1 = 2
    BY <1>1
  <2> QED  BY <1>2, <2>1, <2>2
<1> QED  BY <1>1, <1>2, <1>3 DEF Start, InitAlice, InitBob

\* Before the first wire.
LEMMA StartInStep ==
  ASSUME NEW p \in Party
  PROVE  Orderly(p, {}, {}) /\ Leads(p, Start(p), {}) /\ Follows(p, Start(p), {}, {})
<1>1. Start(p).ns = 0 /\ Start(p).pn = 0 /\ Start(p).skipped = {}
  BY DEF Start, InitAlice, InitBob
<1>2. Orderly(p, {}, {})
  BY DEF Orderly
<1>3. Leads(p, Start(p), {})
  <2>1. <<Alice, 0>> # <<Bob, 0>>
    BY PartyAssumption
  <2>2. Len(Start(p).rk) >= 1 /\ Len(Start(p).rk) % 2 = Half(p)
    <3>1. 2 % 2 = 0 /\ 1 % 2 = 1
      OBVIOUS
    <3>2. Len(Start(p).rk) = (IF p = Alice THEN 2 ELSE 1)
      BY StartRatchet
    <3> QED  BY <3>1, <3>2 DEF Half
  <2>3. \A i \in Nat : ~(i < 0) /\ \A l : ~At({}, l, i)
    BY DEF At
  <2>4. Start(p).cks = (IF Len(Start(p).rk) = 1 THEN NoChain ELSE Start(p).rk)
        /\ (Len(Start(p).rk) > 1 => Start(p).dhs # <<Bob, 0>>)
    BY <2>1, StartRatchet
  <2> QED  BY <1>1, <2>2, <2>3, <2>4 DEF Leads
<1>4. Follows(p, Start(p), {}, {})
  BY <1>1, StartRatchet DEF Follows, Accounts
<1> QED  BY <1>2, <1>3, <1>4
-----------------------------------------------------------------------------
(* What is left to read can be read.                                        *)

LEMMA WireLength ==
  ASSUME NEW ws, WiresOK(ws)
  PROVE  \A w \in ws : Len(w.chain) \in Nat
BY DEF WiresOK, Chain

\* Its key was set aside; or it lies ahead on the chain; or it begins the next.
WasSetAside(r, w) == Passed(r, w) /\ SkippedFor(r, w) = {KeyOf(w)}
LiesAhead(r, w) ==
  /\ ~Passed(r, w) /\ SkippedFor(r, w) = {} /\ r.ckr # NoChain
  /\ w.key = r.dhr /\ w.chain = r.ckr /\ r.nr <= w.n
TurnsAhead(r, w) ==
  /\ ~Passed(r, w) /\ SkippedFor(r, w) = {} /\ w.key # r.dhr
  /\ Len(w.chain) = Len(r.rk) + 1 /\ w.chain = KdfRk(r.rk, r.dhs, w.key)

\* The peer is at most one chain ahead.
LEMMA OneChainAhead ==
  ASSUME NEW p \in Party, NEW r \in Ratchet, NEW ws, NEW vs, NEW read,
         WiresOK(ws), WiresOK(vs),
         Orderly(Peer(p), vs, ws), Leads(p, r, ws), Follows(p, r, read, vs), NEW w \in vs
  PROVE  /\ Len(w.chain) <= Len(r.rk) + 1 /\ Len(w.chain) # Len(r.rk)
         /\ Len(w.chain) = Len(r.rk) + 1 => w.chain = KdfRk(r.rk, r.dhs, w.key)
<1>1. Len(w.chain) \in Nat /\ Len(r.rk) \in Nat /\ \A v \in ws : Len(v.chain) \in Nat
  BY WireLength DEF Ratchet, Chain
<1>2. Len(w.chain) # Len(r.rk)
  <2>1. Len(w.chain) % 2 = Half(Peer(p)) /\ Len(r.rk) % 2 = Half(p)
    BY DEF Orderly, Leads
  <2> QED  BY <2>1, HalfOfPeer
<1>3. Answers(w, ws) /\ Len(r.rk) >= 1 /\ Len(w.chain) >= 2
  BY DEF Orderly, Leads
<1>4. CASE Len(w.chain) = 2
  <2>1. w.key = <<Alice, 0>> /\ w.chain = KdfRk(SharedRoot, <<Alice, 0>>, <<Bob, 0>>)
    BY <1>3, <1>4 DEF Answers
  <2>2. ASSUME Len(r.rk) = 1  PROVE r.rk = SharedRoot /\ r.dhs = <<Bob, 0>>
    <3>1. CASE r.ckr = NoChain
      <4>1. p # Alice
        BY <2>2, <3>1, StartRatchet DEF Follows
      <4> QED  BY <3>1, <4>1, StartRatchet DEF Follows
    <3>2. CASE r.ckr # NoChain
      <4>1. PICK u \in vs : u.chain = r.ckr /\ u.key = r.dhr /\ r.rk = KdfRk(r.ckr, r.dhs, r.dhr)
        BY <3>2 DEF Follows
      <4>2. r.ckr \in Chain /\ r.dhs \in Key /\ r.dhr \in Key
        BY <4>1 DEF Ratchet, WiresOK
      <4>3. Len(r.rk) = Len(u.chain) + 1 /\ Len(u.chain) \in Nat
        BY <4>1, <4>2, ChainLength
      <4>4. Len(u.chain) >= 2
        BY DEF Orderly
      <4>5. \A l, m \in Nat : l >= 2 /\ m = l + 1 => m # 1
        OBVIOUS
      <4> QED  BY <1>1, <2>2, <4>3, <4>4, <4>5
    <3> QED  BY <3>1, <3>2
  <2>3. ASSUME Len(r.rk) = 1  PROVE w.chain = KdfRk(r.rk, r.dhs, w.key)
    BY <2>1, <2>2, <2>3, KdfRkSymmetric
  <2>4. Len(w.chain) <= Len(r.rk) + 1
    BY <1>1, <1>3, <1>4
  <2>5. Len(w.chain) = Len(r.rk) + 1 => Len(r.rk) = 1
    <3>1. \A l, m \in Nat : l = 2 /\ l = m + 1 => m = 1
      OBVIOUS
    <3> QED  BY <1>1, <1>4, <3>1
  <2> QED  BY <1>2, <2>3, <2>4, <2>5
<1>5. CASE Len(w.chain) # 2
  <2>1. PICK v \in ws : Len(v.chain) + 1 = Len(w.chain) /\ w.chain = KdfRk(v.chain, v.key, w.key)
    BY <1>3, <1>5 DEF Answers
  <2>2. Len(v.chain) <= Len(r.rk)
    BY DEF Leads
  <2>3. Len(v.chain) = Len(r.rk) => v.key = r.dhs /\ v.chain = r.rk
    BY DEF Leads
  <2> QED  BY <1>1, <1>2, <2>1, <2>2, <2>3
<1> QED  BY <1>4, <1>5

LEMMA SkippedForWire ==
  ASSUME NEW p \in Party, NEW r, NEW vs, NEW ws, NEW read,
         Orderly(Peer(p), vs, ws), Accounts(r, read, vs), NEW w \in vs \ read
  PROVE  SkippedFor(r, w) = IF Passed(r, w) THEN {KeyOf(w)} ELSE {}
<1>1. \A k \in r.skipped : \E v \in vs \ read : Passed(r, v) /\ k = KeyOf(v)
  BY DEF Accounts
<1>2. \A v \in vs : v.key = w.key /\ v.n = w.n => v = w
  BY DEF Orderly
<1>3. \A k \in SkippedFor(r, w) : Passed(r, w) /\ k = KeyOf(w)
  BY <1>1, <1>2 DEF SkippedFor, KeyOf
<1>4. Passed(r, w) => KeyOf(w) \in SkippedFor(r, w)
  BY DEF Accounts, SkippedFor, KeyOf
<1> QED  BY <1>3, <1>4

LEMMA ReadableAt ==
  ASSUME NEW p \in Party, NEW r \in Ratchet, NEW ws, NEW vs, NEW read,
         WiresOK(ws), WiresOK(vs),
         Orderly(Peer(p), vs, ws), Leads(p, r, ws), Follows(p, r, read, vs),
         NEW w \in vs \ read
  PROVE  WasSetAside(r, w) \/ LiesAhead(r, w) \/ TurnsAhead(r, w)
<1>1. CASE Passed(r, w)
  BY <1>1, SkippedForWire DEF WasSetAside, Follows
<1>2. CASE ~Passed(r, w)
  <2>1. SkippedFor(r, w) = {}
    BY <1>2, SkippedForWire DEF Follows
  <2>2. /\ Len(w.chain) <= Len(r.rk) + 1 /\ Len(w.chain) # Len(r.rk)
        /\ Len(w.chain) = Len(r.rk) + 1 => w.chain = KdfRk(r.rk, r.dhs, w.key)
    BY OneChainAhead
  <2>3. /\ Len(w.chain) \in Nat /\ Len(r.rk) \in Nat /\ Len(r.ckr) \in Nat
        /\ w.key \in Key /\ w.n \in Nat /\ r.nr \in Nat
        /\ Len(w.chain) >= 2 /\ w.key # <<Bob, 0>>
    <3>1. Len(w.chain) \in Nat /\ w.key \in Key /\ w.n \in Nat
      BY WireLength DEF WiresOK
    <3>2. Len(r.rk) \in Nat /\ Len(r.ckr) \in Nat /\ r.nr \in Nat
      BY DEF Ratchet, Chain
    <3> QED  BY <3>1, <3>2 DEF Orderly
  <2>4. CASE r.ckr = NoChain
    <3>1. w.key # r.dhr
      BY <2>3, <2>4, StartRatchet, NoKeyAssumption DEF Follows
    <3>2. Len(r.rk) = 1 \/ Len(r.rk) = 2
      BY <2>4, StartRatchet DEF Follows
    <3>3. \A l, m \in Nat : l >= 2 /\ m \in {1, 2} /\ l <= m + 1 /\ l # m => l = m + 1
      OBVIOUS
    <3>4. Len(w.chain) = Len(r.rk) + 1
      BY <2>2, <2>3, <3>2, <3>3
    <3> QED  BY <1>2, <2>1, <2>2, <3>1, <3>4 DEF TurnsAhead
  <2>5. CASE r.ckr # NoChain
    <3>1. PICK u \in vs : u.chain = r.ckr /\ u.key = r.dhr /\ u.n + 1 = r.nr
      BY <2>5 DEF Follows
    <3>2. Len(r.rk) = Len(r.ckr) + 1
      BY <2>5, <3>1, ChainLength DEF Follows, Ratchet, WiresOK
    <3>3. w.key = r.dhr <=> Len(w.chain) = Len(r.ckr)
      BY <3>1 DEF Orderly
    <3>4. w.key = r.dhr => w.chain = r.ckr
      BY <3>1 DEF Orderly
    <3>5. ~(Len(w.chain) < Len(r.ckr)) /\ (Len(w.chain) = Len(r.ckr) => ~(w.n < r.nr))
      BY <1>2 DEF Passed
    <3>6. CASE Len(w.chain) = Len(r.ckr)
      <4>1. r.nr <= w.n
        BY <2>3, <3>5, <3>6
      <4> QED  BY <1>2, <2>1, <2>5, <3>3, <3>4, <3>6, <4>1 DEF LiesAhead
    <3>7. CASE Len(w.chain) # Len(r.ckr)
      <4>1. Len(w.chain) = Len(r.rk) + 1
        BY <2>2, <2>3, <3>2, <3>5, <3>7
      <4> QED  BY <1>2, <2>1, <2>2, <3>3, <3>7, <4>1 DEF TurnsAhead
    <3> QED  BY <3>6, <3>7
  <2> QED  BY <2>4, <2>5
<1> QED  BY <1>1, <1>2

\* Whatever is unread can be read.
LEMMA UnreadReadable ==
  ASSUME NEW r \in Ratchet, NEW w, w.key \in Key, w.n \in Nat, w.pn \in Nat,
         WasSetAside(r, w) \/ LiesAhead(r, w) \/ TurnsAhead(r, w)
  PROVE  CanDecrypt(r, w)
<1>1. CASE WasSetAside(r, w)
  BY <1>1 DEF WasSetAside, CanDecrypt, KeyOf
<1>2. CASE LiesAhead(r, w)
  BY <1>2 DEF LiesAhead, CanDecrypt, OnChain, TurnsDh
<1>3. CASE TurnsAhead(r, w)
  <2> DEFINE t == SkipUntil(r, w.pn)
             c == DhRatchet(t, w.key, r.dhs)
  <2>1. t.rk = r.rk /\ t.dhs = r.dhs
    BY DEF SkipUntil, Ratchet
  <2> HIDE DEF t
  <2>2. c.ckr = KdfRk(t.rk, t.dhs, w.key) /\ c.nr = 0
    BY DEF DhRatchet
  <2>3. TurnsDh(r, w) /\ SkippedFor(r, w) = {} /\ w.chain = KdfRk(r.rk, r.dhs, w.key)
    BY <1>3 DEF TurnsAhead, TurnsDh
  <2>4. OnChain(r, w, r.dhs) = c
    BY <2>3 DEF OnChain, t
  <2> QED  BY <2>1, <2>2, <2>3, <2>4 DEF CanDecrypt
<1> QED  BY <1>1, <1>2, <1>3
-----------------------------------------------------------------------------
(* Sealing.                                                                 *)

LEMMA AtAdd ==
  \A ws, w, l, i : At(ws \cup {w}, l, i) <=> At(ws, l, i) \/ (Len(w.chain) = l /\ w.n = i)
BY DEF At

LEMMA AnswersMore ==
  ASSUME NEW w, NEW vs, NEW us, vs \subseteq us, Answers(w, vs)  PROVE Answers(w, us)
BY DEF Answers

\* The chain a party seals on answers a wire it has read.
LEMMA ChainAnswers ==
  ASSUME NEW p \in Party, NEW r \in Ratchet, NEW ws, NEW vs, NEW read,
         WiresOK(vs), Orderly(Peer(p), vs, ws), Leads(p, r, ws), Follows(p, r, read, vs),
         CanEncrypt(r), NEW w, w.key = r.dhs, w.chain = r.cks
  PROVE  Answers(w, vs)
<1>1. r.cks = r.rk /\ Len(r.rk) # 1 /\ Len(r.rk) \in Nat
  BY DEF Leads, CanEncrypt, Ratchet, Chain
<1>2. CASE r.ckr = NoChain
  <2>1. p = Alice
    BY <1>1, <1>2, StartRatchet DEF Follows
  <2> QED  BY <1>1, <1>2, <2>1, StartRatchet DEF Follows, Answers
<1>3. CASE r.ckr # NoChain
  <2>1. PICK v \in vs : v.chain = r.ckr /\ v.key = r.dhr /\ r.rk = KdfRk(r.ckr, r.dhs, r.dhr)
    BY <1>3 DEF Follows
  <2>2. v.chain \in Chain /\ v.key \in Key /\ r.dhs \in Key /\ Len(v.chain) >= 2
    BY DEF WiresOK, Ratchet, Orderly
  <2>3. Len(r.rk) = Len(v.chain) + 1 /\ Len(v.chain) \in Nat
    BY <2>1, <2>2, ChainLength
  <2>4. \A l, m \in Nat : l >= 2 /\ m = l + 1 => m # 2
    OBVIOUS
  <2>5. Len(r.rk) # 2
    BY <1>1, <2>2, <2>3, <2>4
  <2>6. w.chain = KdfRk(v.chain, v.key, w.key)
    BY <1>1, <2>1, KdfRkSymmetric
  <2> QED  BY <1>1, <2>3, <2>5, <2>6 DEF Answers
<1> QED  BY <1>2, <1>3

LEMMA MoreThanOne == \A l \in Nat : l > 1 <=> l >= 1 /\ l # 1
OBVIOUS

LEMMA SealOrderly ==
  ASSUME NEW p \in Party, NEW r \in Ratchet, NEW ws, NEW vs,
         WiresOK(ws), Orderly(p, ws, vs), Leads(p, r, ws), CanEncrypt(r),
         NEW w, w.key = r.dhs, w.n = r.ns, w.pn = r.pn, w.chain = r.cks, Answers(w, vs)
  PROVE  Orderly(p, ws \cup {w}, vs) /\ Leads(p, AfterEncrypt(r), ws \cup {w})
<1> DEFINE l == Len(r.rk)
           all == ws \cup {w}
<1>1. /\ l \in Nat /\ l > 1 /\ w.chain = r.rk /\ l % 2 = Half(p) /\ r.dhs # <<Bob, 0>>
      /\ r.cks = r.rk /\ r.ns \in Nat /\ r.pn \in Nat
  <2>1. l \in Nat /\ l >= 1 /\ r.ns \in Nat /\ r.pn \in Nat
    BY DEF Ratchet, Chain, Leads
  <2>2. l # 1 /\ r.cks = r.rk
    BY DEF Leads, CanEncrypt
  <2>3. l > 1
    BY <2>1, <2>2, MoreThanOne
  <2> QED  BY <2>1, <2>2, <2>3 DEF Leads
<1>2. \A v \in ws : /\ Len(v.chain) \in Nat /\ Len(v.chain) <= l /\ v.n \in Nat
                    /\ v.key = r.dhs <=> Len(v.chain) = l
                    /\ v.key = r.dhs => v.chain = r.rk
  BY WireLength DEF Leads, WiresOK
<1>3. /\ \A i \in Nat : i < r.ns <=> At(ws, l, i)
      /\ \A i \in Nat : i < r.pn <=> At(ws, l - 2, i)
  BY DEF Leads
<1>4. Len(w.chain) = l
  BY <1>1
<1> HIDE DEF l
<1>5. \A v \in all : Len(v.chain) \in Nat /\ Len(v.chain) <= l
  BY <1>1, <1>2, <1>4
<1>6. \A v \in all : \A i : At(all, Len(v.chain) - 2, i) <=> At(ws, Len(v.chain) - 2, i)
  <2>1. \A m \in Nat : m <= l => m - 2 # l
    BY <1>1
  <2> QED  BY <1>4, <1>5, <2>1, AtAdd
<1>7. \A v \in ws : v.key = r.dhs => v.n < r.ns
  <2>1. \A v \in ws : v.key = r.dhs => At(ws, l, v.n)
    BY <1>2 DEF At
  <2> QED  BY <1>2, <1>3, <2>1
<1>8. /\ \A v \in all : Len(v.chain) >= 2 /\ Len(v.chain) % 2 = Half(p) /\ v.key # <<Bob, 0>>
      /\ \A u, v \in all : u.key = v.key <=> Len(u.chain) = Len(v.chain)
      /\ \A u, v \in all : u.key = v.key => u.chain = v.chain
  <2>1. Len(w.chain) >= 2 /\ Len(w.chain) % 2 = Half(p) /\ w.key # <<Bob, 0>>
    BY <1>1, <1>4
  <2>2. \A v \in ws : /\ v.key = w.key <=> Len(v.chain) = Len(w.chain)
                      /\ v.key = w.key => v.chain = w.chain
    BY <1>1, <1>2, <1>4
  <2> QED  BY <2>1, <2>2 DEF Orderly
<1>9. \A u, v \in all : u.key = v.key /\ u.n = v.n => u = v
  <2>1. \A v \in ws : v.key = w.key => v.n # w.n
    BY <1>1, <1>2, <1>7
  <2> QED  BY <2>1 DEF Orderly
<1>10. \A v \in all : \A i \in 0 .. v.n - 1 : At(all, Len(v.chain), i)
  <2>1. ASSUME NEW i \in 0 .. w.n - 1  PROVE At(ws, Len(w.chain), i)
    BY <1>1, <1>3, <1>4
  <2> QED  BY <2>1, AtAdd DEF Orderly
<1>11. \A v \in all : \A i \in Nat : i < v.pn <=> At(all, Len(v.chain) - 2, i)
  <2>1. \A v \in all : \A i \in Nat : i < v.pn <=> At(ws, Len(v.chain) - 2, i)
    BY <1>3, <1>4 DEF Orderly
  <2> QED  BY <1>6, <2>1
<1>12. Orderly(p, all, vs)
  BY <1>8, <1>9, <1>10, <1>11 DEF Orderly
<1>13. Leads(p, AfterEncrypt(r), all)
  <2> DEFINE a == AfterEncrypt(r)
  <2>1. a.rk = r.rk /\ a.cks = r.cks /\ a.dhs = r.dhs /\ a.ns = r.ns + 1 /\ a.pn = r.pn
    BY DEF AfterEncrypt, Ratchet
  <2>2. \A i \in Nat : i < r.ns + 1 <=> At(all, l, i)
    <3>1. \A i \in Nat : i < r.ns + 1 <=> i < r.ns \/ i = r.ns
      BY <1>1
    <3> QED  BY <1>3, <1>4, <3>1, AtAdd
  <2>3. \A i \in Nat : i < r.pn <=> At(all, l - 2, i)
    BY <1>3, <1>4, <1>6
  <2>4. \A v \in all : /\ Len(v.chain) <= l
                       /\ v.key = r.dhs <=> Len(v.chain) = l
                       /\ v.key = r.dhs => v.chain = r.rk
    BY <1>1, <1>2, <1>4, <1>5
  <2> HIDE DEF a
  <2>5. Len(a.rk) >= 1 /\ Len(a.rk) % 2 = Half(p) /\ a.dhs # <<Bob, 0>>
        /\ a.cks = (IF Len(a.rk) = 1 THEN NoChain ELSE a.rk)
    <3>1. Len(r.rk) >= 1 /\ Len(r.rk) # 1
      BY <1>1, MoreThanOne DEF l
    <3> QED  BY <1>1, <2>1, <3>1 DEF l
  <2> QED  BY <2>1, <2>2, <2>3, <2>4, <2>5 DEF Leads, l, a
<1> QED  BY <1>12, <1>13

\* Sealing moves nothing on the receiving side.
LEMMA SealFollows ==
  ASSUME NEW p \in Party, NEW r \in Ratchet, NEW vs, NEW read, Follows(p, r, read, vs)
  PROVE  Follows(p, AfterEncrypt(r), read, vs)
<1> DEFINE a == AfterEncrypt(r)
<1>1. /\ a.ckr = r.ckr /\ a.rk = r.rk /\ a.dhs = r.dhs /\ a.dhr = r.dhr /\ a.nr = r.nr
      /\ a.skipped = r.skipped
  BY DEF AfterEncrypt, Ratchet
<1> HIDE DEF a
<1>2. \A v : Passed(a, v) <=> Passed(r, v)
  BY <1>1 DEF Passed
<1>3. Accounts(a, read, vs)
  BY <1>1, <1>2 DEF Follows, Accounts
<1> QED  BY <1>1, <1>3 DEF Follows, a

\* A wire that the peer seals now lies ahead of whatever was read.
LEMMA NewWireAhead ==
  ASSUME NEW p \in Party, NEW r \in Ratchet, NEW vs, NEW read, WiresOK(vs),
         Follows(p, r, read, vs), NEW q, NEW s \in Ratchet, Leads(q, s, vs),
         NEW w, w.chain = s.rk, w.n = s.ns
  PROVE  Follows(p, r, read, vs \cup {w})
<1>1. /\ Len(w.chain) \in Nat /\ Len(w.chain) >= 1 /\ s.ns \in Nat
      /\ r.nr \in Nat /\ Len(r.ckr) \in Nat
  <2>1. Len(s.rk) \in Nat /\ s.ns \in Nat /\ r.nr \in Nat /\ Len(r.ckr) \in Nat
    BY DEF Ratchet, Chain
  <2> QED  BY <2>1 DEF Leads
<1>2. ~Passed(r, w)
  <2>1. CASE r.ckr = NoChain
    <3>1. Len(r.ckr) = 0
      BY <2>1 DEF NoChain
    <3>2. \A l \in Nat : l >= 1 => ~(l < 0) /\ l # 0
      OBVIOUS
    <3> QED  BY <1>1, <3>1, <3>2 DEF Passed
  <2>2. CASE r.ckr # NoChain
    <3>1. PICK u \in vs : u.chain = r.ckr /\ u.n + 1 = r.nr
      BY <2>2 DEF Follows
    <3>2. Len(u.chain) <= Len(w.chain) /\ u.n \in Nat
      BY DEF Leads, WiresOK
    <3>3. Len(u.chain) = Len(w.chain) => At(vs, Len(s.rk), u.n)
      BY DEF At
    <3>4. Len(u.chain) = Len(w.chain) => u.n < s.ns
      BY <3>2, <3>3 DEF Leads
    <3>5. \A l, m \in Nat : l <= m => ~(m < l)
      OBVIOUS
    <3>6. Len(u.chain) = Len(w.chain) => ~(w.n < r.nr)
      BY <1>1, <3>1, <3>2, <3>4
    <3> QED  BY <1>1, <3>1, <3>2, <3>5, <3>6 DEF Passed
  <2> QED  BY <2>1, <2>2
<1>3. w \notin read
  BY <1>2 DEF Follows, Accounts
<1>4. {v \in (vs \cup {w}) \ read : Passed(r, v)} = {v \in vs \ read : Passed(r, v)}
  BY <1>2
<1> QED  BY <1>4 DEF Follows, Accounts
-----------------------------------------------------------------------------
(* Reading.                                                                 *)

\* What skip_message_keys adds to the keys set aside.
LEMMA SkipUntilKeys ==
  ASSUME NEW r \in Ratchet, r.ckr # NoChain, NEW until \in Nat
  PROVE  \A k : k \in SkipUntil(r, until).skipped <=>
                  \/ k \in r.skipped
                  \/ \E i \in r.nr .. until - 1 : k = [key |-> r.dhr, n |-> i, chain |-> r.ckr]
<1>1. CASE until <= r.nr
  <2>1. r.nr .. until - 1 = {}
    BY <1>1 DEF Ratchet
  <2> QED  BY <1>1, <2>1 DEF SkipUntil
<1>2. CASE ~(until <= r.nr)
  BY <1>2 DEF SkipUntil, Ratchet
<1> QED  BY <1>1, <1>2

LEMMA SkipUntilRest ==
  ASSUME NEW r \in Ratchet, NEW until \in Nat
  PROVE  LET s == SkipUntil(r, until)
         IN  /\ s.dhs = r.dhs /\ s.dhr = r.dhr /\ s.rk = r.rk /\ s.cks = r.cks
             /\ s.ckr = r.ckr /\ s.ns = r.ns /\ s.pn = r.pn
BY DEF SkipUntil, Ratchet

\* A wire ahead on the chain: the keys of the places before it are set aside,
\* and those are the places of wires that were sealed and not read.
LEMMA AccountsOnChain ==
  ASSUME NEW p \in Party, NEW r \in Ratchet, NEW ws, NEW vs, NEW read, WiresOK(vs),
         Orderly(p, vs, ws), Accounts(r, read, vs), read \subseteq vs,
         NEW w \in vs \ read, r.ckr # NoChain,
         w.key = r.dhr, w.chain = r.ckr, r.nr <= w.n,
         NEW a, a.skipped = SkipUntil(r, w.n).skipped, a.ckr = r.ckr, a.nr = w.n + 1
  PROVE  Accounts(a, read \cup {w}, vs)
<1> DEFINE l == Len(r.ckr)
<1>1. /\ l = Len(w.chain) /\ r.nr \in Nat
      /\ \A v \in vs : v.n \in Nat /\ Len(v.chain) \in Nat
      /\ \A v \in vs : Len(v.chain) = l <=> v.key = r.dhr
      /\ \A v \in vs : v.key = r.dhr => v.chain = r.ckr
      /\ \A v \in vs : v.key = r.dhr /\ v.n = w.n => v = w
  BY WireLength DEF Ratchet, WiresOK, Orderly
<1>2. \A v : Passed(r, v) <=> Len(v.chain) < l \/ (Len(v.chain) = l /\ v.n < r.nr)
  BY DEF Passed
<1>3. \A v : Passed(a, v) <=> Len(v.chain) < l \/ (Len(v.chain) = l /\ v.n < w.n + 1)
  BY DEF Passed
<1>4. l \in Nat /\ ~(l < l)
  <2>1. l \in Nat
    BY DEF Ratchet, Chain
  <2>2. \A m \in Nat : ~(m < m)
    OBVIOUS
  <2> QED  BY <2>1, <2>2
<1> HIDE DEF l
<1>5. \A v \in read \cup {w} : Passed(a, v)
  <2>1. \A v \in read : Passed(a, v)
    BY <1>1, <1>2, <1>3 DEF Accounts
  <2>2. Passed(a, w)
    BY <1>1, <1>3
  <2> QED  BY <2>1, <2>2
<1>6. \A v \in vs : Passed(a, v) /\ v # w =>
        \/ Passed(r, v)
        \/ v.key = r.dhr /\ v.chain = r.ckr /\ v.n \in r.nr .. w.n - 1
  <2> SUFFICES ASSUME NEW v \in vs, Passed(a, v), v # w, ~Passed(r, v)
               PROVE  v.key = r.dhr /\ v.chain = r.ckr /\ v.n \in r.nr .. w.n - 1
    OBVIOUS
  <2>1. Len(v.chain) = l /\ v.n < w.n + 1 /\ ~(v.n < r.nr)
    BY <1>2, <1>3
  <2>2. v.key = r.dhr /\ v.chain = r.ckr /\ v.n # w.n
    BY <1>1, <2>1
  <2> QED  BY <1>1, <2>1, <2>2
<1>7. ASSUME NEW i \in r.nr .. w.n - 1
      PROVE  \E v \in vs \ (read \cup {w}) :
               Passed(a, v) /\ v.key = r.dhr /\ v.chain = r.ckr /\ v.n = i
  <2>1. i \in 0 .. w.n - 1 /\ i \in Nat /\ ~(i < r.nr) /\ i < w.n + 1 /\ i # w.n
    BY <1>1
  <2>2. PICK v \in vs : Len(v.chain) = l /\ v.n = i
    BY <1>1, <2>1 DEF Orderly, At
  <2>3. ~Passed(r, v) /\ Passed(a, v)
    BY <1>2, <1>3, <1>4, <2>1, <2>2
  <2>4. v \notin read /\ v # w
    BY <2>1, <2>2, <2>3 DEF Accounts
  <2> QED  BY <1>1, <2>2, <2>3, <2>4
<1>8. ASSUME NEW k
      PROVE  k \in a.skipped <=> \E v \in vs \ (read \cup {w}) : Passed(a, v) /\ k = KeyOf(v)
  <2>1. k \in a.skipped <=> \/ k \in r.skipped
                            \/ \E i \in r.nr .. w.n - 1 :
                                 k = [key |-> r.dhr, n |-> i, chain |-> r.ckr]
    BY SkipUntilKeys DEF WiresOK
  <2>2. ASSUME k \in r.skipped
        PROVE  \E v \in vs \ (read \cup {w}) : Passed(a, v) /\ k = KeyOf(v)
    <3>1. PICK v \in vs \ read : Passed(r, v) /\ k = KeyOf(v)
      BY <2>2 DEF Accounts
    <3>2. ~Passed(r, w)
      BY <1>1, <1>2, <1>4
    <3>3. Passed(a, v) /\ v # w
      BY <1>1, <1>2, <1>3, <3>1, <3>2
    <3> QED  BY <3>1, <3>3
  <2>3. ASSUME NEW i \in r.nr .. w.n - 1, k = [key |-> r.dhr, n |-> i, chain |-> r.ckr]
        PROVE  \E v \in vs \ (read \cup {w}) : Passed(a, v) /\ k = KeyOf(v)
    BY <1>7, <2>3 DEF KeyOf
  <2>4. ASSUME NEW v \in vs \ (read \cup {w}), Passed(a, v), k = KeyOf(v)
        PROVE  k \in a.skipped
    <3>1. CASE Passed(r, v)
      BY <2>1, <2>4, <3>1 DEF Accounts
    <3>2. CASE ~Passed(r, v)
      BY <1>6, <2>1, <2>4, <3>2 DEF KeyOf
    <3> QED  BY <3>1, <3>2
  <2> QED  BY <2>1, <2>2, <2>3, <2>4
<1> QED  BY <1>5, <1>8 DEF Accounts

\* A wire of the next chain: what is left of the chain before is set aside, as
\* far as pn says, and that is as far as it goes.
LEMMA AccountsOnTurn ==
  ASSUME NEW p \in Party, NEW r \in Ratchet, ChainHasKey(r), NEW ws, NEW vs, NEW read,
         WiresOK(ws), WiresOK(vs),
         Orderly(Peer(p), vs, ws), Leads(p, r, ws), Follows(p, r, read, vs),
         NEW w \in vs \ read, TurnsAhead(r, w),
         NEW c, c.skipped = SkipUntil(r, w.pn).skipped, c.ckr = w.chain, c.nr = 0
  PROVE  Accounts(c, read, vs)
<1> DEFINE l == Len(r.ckr)
           m == Len(w.chain)
<1>1. /\ l \in Nat /\ m \in Nat /\ r.nr \in Nat /\ w.pn \in Nat
      /\ \A v \in vs : v.n \in Nat /\ v.pn \in Nat /\ Len(v.chain) \in Nat /\ Len(v.chain) >= 2
  <2>1. l \in Nat /\ r.nr \in Nat
    BY DEF Ratchet, Chain
  <2> QED  BY <2>1, WireLength DEF WiresOK, Orderly
<1>2. \A v \in vs : Len(v.chain) <= m /\ Len(v.chain) # m - 1
  <2>1. \A v \in vs : Len(v.chain) <= Len(r.rk) + 1 /\ Len(v.chain) # Len(r.rk)
    BY OneChainAhead
  <2>2. m = Len(r.rk) + 1 /\ Len(r.rk) \in Nat
    BY DEF TurnsAhead, Ratchet, Chain
  <2>3. \A j \in Nat : (j + 1) - 1 = j
    OBVIOUS
  <2> QED  BY <2>1, <2>2, <2>3
<1>3. \A v : Passed(r, v) <=> Len(v.chain) < l \/ (Len(v.chain) = l /\ v.n < r.nr)
  BY DEF Passed
<1>4. \A v \in vs : Passed(c, v) <=> Len(v.chain) < m
  BY <1>1 DEF Passed
<1>5. CASE r.ckr = NoChain
  <2>1. l = 0 /\ m <= 3
    <3>1. Len(r.rk) \in {1, 2} /\ m = Len(r.rk) + 1
      BY <1>5, StartRatchet DEF Follows, TurnsAhead
    <3>2. \A i \in {1, 2} : \A j \in Nat : j = i + 1 => j <= 3
      OBVIOUS
    <3> QED  BY <1>1, <1>5, <3>1, <3>2 DEF NoChain
  <2> HIDE DEF l, m
  <2>2. \A v \in vs : ~Passed(r, v) /\ ~Passed(c, v)
    BY <1>1, <1>2, <1>3, <1>4, <2>1
  <2>3. c.skipped = r.skipped
    BY <1>5 DEF SkipUntil
  <2> QED  BY <2>2, <2>3 DEF Follows, Accounts
<1>6. CASE r.ckr # NoChain
  <2>1. PICK u \in vs : u.chain = r.ckr /\ u.key = r.dhr
    BY <1>6 DEF Follows
  <2>2. m = l + 2
    <3>1. Len(r.rk) = l + 1
      BY <1>6, <2>1, ChainLength DEF Follows, Ratchet, WiresOK
    <3>2. \A j \in Nat : (j + 1) + 1 = j + 2
      OBVIOUS
    <3> QED  BY <1>1, <3>1, <3>2 DEF TurnsAhead
  <2>3. \A v \in vs : /\ Len(v.chain) = l <=> v.key = r.dhr
                      /\ v.key = r.dhr => v.chain = r.ckr
    BY <2>1 DEF Orderly
  <2>4. \A i \in Nat : i < w.pn <=> \E v \in vs : Len(v.chain) = l /\ v.n = i
    <3>1. m - 2 = l
      <4>1. \A i, j \in Nat : i = j + 2 => i - 2 = j
        OBVIOUS
      <4> QED  BY <1>1, <2>2, <4>1
    <3>2. \A i \in Nat : i < w.pn <=> At(vs, m - 2, i)
      BY DEF Orderly
    <3> QED  BY <3>1, <3>2 DEF At
  <2> HIDE DEF l, m
  <2>5. \A v \in vs : Len(v.chain) < m <=> Len(v.chain) < l \/ Len(v.chain) = l
    BY <1>1, <1>2, <2>2
  <2>6. \A v \in read : Passed(c, v)
    BY <1>3, <1>4, <2>5 DEF Follows, Accounts
  <2>7. ASSUME NEW k
        PROVE  k \in c.skipped <=> \E v \in vs \ read : Passed(c, v) /\ k = KeyOf(v)
    <3>1. k \in c.skipped <=> \/ k \in r.skipped
                              \/ \E i \in r.nr .. w.pn - 1 :
                                   k = [key |-> r.dhr, n |-> i, chain |-> r.ckr]
      BY <1>1, <1>6, SkipUntilKeys
    <3>2. k \in r.skipped <=> \E v \in vs \ read : Passed(r, v) /\ k = KeyOf(v)
      BY DEF Follows, Accounts
    <3>3. \A v \in vs : Passed(r, v) => Passed(c, v)
      BY <1>3, <1>4, <2>5
    <3>4. ASSUME NEW i \in r.nr .. w.pn - 1, k = [key |-> r.dhr, n |-> i, chain |-> r.ckr]
          PROVE  \E v \in vs \ read : Passed(c, v) /\ k = KeyOf(v)
      <4>1. i \in Nat /\ i < w.pn /\ ~(i < r.nr)
        BY <1>1
      <4>2. PICK v \in vs : Len(v.chain) = l /\ v.n = i
        BY <2>4, <4>1
      <4>3. ~(l < l)
        BY <1>1
      <4>4. ~Passed(r, v)
        BY <1>3, <4>1, <4>2, <4>3
      <4>5. v \notin read
        BY <4>4 DEF Follows, Accounts
      <4> QED  BY <1>4, <2>3, <2>5, <3>4, <4>2, <4>5 DEF KeyOf
    <3>5. ASSUME NEW v \in vs \ read, Passed(c, v), ~Passed(r, v), k = KeyOf(v)
          PROVE  k \in c.skipped
      <4>1. Len(v.chain) = l /\ ~(v.n < r.nr) /\ v.n \in Nat
        BY <1>1, <1>3, <1>4, <2>5, <3>5
      <4>2. v.n < w.pn
        BY <2>4, <4>1
      <4>3. v.n \in r.nr .. w.pn - 1
        BY <1>1, <4>1, <4>2
      <4> QED  BY <2>3, <3>1, <3>5, <4>1, <4>3 DEF KeyOf
    <3> QED  BY <3>1, <3>2, <3>3, <3>4, <3>5
  <2> QED  BY <2>6, <2>7 DEF Accounts
<1> QED  BY <1>5, <1>6
\* A DH turn starts the next sending chain, on which nothing was sealed yet.
LEMMA TurnLeads ==
  ASSUME NEW p \in Party, NEW r \in Ratchet, NEW ws, WiresOK(ws), Leads(p, r, ws),
         \A v \in ws : Len(v.chain) >= 2,
         NEW fresh \in Key, fresh # <<Bob, 0>>, \A v \in ws : v.key # fresh,
         NEW a, a.rk \in Chain, Len(a.rk) = Len(r.rk) + 2, a.cks = a.rk, a.dhs = fresh,
         a.ns = 0, a.pn = r.ns
  PROVE  Leads(p, a, ws)
<1> DEFINE l == Len(r.rk)
           m == Len(a.rk)
<1>1. l \in Nat /\ l >= 1 /\ l % 2 = Half(p) /\ r.ns \in Nat
  <2>1. l \in Nat /\ r.ns \in Nat
    BY DEF Ratchet, Chain
  <2> QED  BY <2>1 DEF Leads
<1>2. \A v \in ws : Len(v.chain) \in Nat /\ Len(v.chain) <= l
  BY WireLength DEF Leads
<1>3. \A i \in Nat : i < r.ns <=> At(ws, l, i)
  BY DEF Leads
<1>4. m = l + 2
  OBVIOUS
<1> HIDE DEF l, m
<1>5. m >= 1 /\ m # 1 /\ m % 2 = Half(p) /\ m - 2 = l
  BY <1>1, <1>4, TwoLonger
<1>6. \A v \in ws : Len(v.chain) <= m /\ Len(v.chain) # m
  BY <1>1, <1>2, <1>4
<1>7. \A i \in Nat : ~(i < 0) /\ ~At(ws, m, i)
  BY <1>6 DEF At
<1>8. \A i \in Nat : i < a.pn <=> At(ws, m - 2, i)
  BY <1>3, <1>5
<1> QED  BY <1>5, <1>6, <1>7, <1>8 DEF Leads, m

\* Reading a wire that was not read keeps the ratchet in step with the mail.
LEMMA ReadInStep ==
  ASSUME NEW p \in Party, NEW r \in Ratchet, ChainHasKey(r), NEW ws, NEW vs, NEW read,
         WiresOK(ws), WiresOK(vs), Orderly(p, ws, vs),
         Orderly(Peer(p), vs, ws), Leads(p, r, ws), Follows(p, r, read, vs),
         NEW w \in vs \ read,
         NEW fresh \in Key, fresh # <<Bob, 0>>, \A v \in ws : v.key # fresh
  PROVE  LET a == AfterDecrypt(r, w, fresh)
         IN  Leads(p, a, ws) /\ Follows(p, a, read \cup {w}, vs)
<1> DEFINE a == AfterDecrypt(r, w, fresh)
<1>1. w.key \in Key /\ w.n \in Nat /\ w.pn \in Nat /\ w.chain \in Chain /\ Peer(p) \in Party
  BY HalfOfPeer DEF WiresOK
<1>2. read \subseteq vs /\ Accounts(r, read, vs)
  BY DEF Follows
<1>3. CASE WasSetAside(r, w)
  <2>1. a = [r EXCEPT !.skipped = @ \ {KeyOf(w)}]
    BY <1>3 DEF WasSetAside, AfterDecrypt
  <2>2. /\ a.rk = r.rk /\ a.cks = r.cks /\ a.dhs = r.dhs /\ a.ns = r.ns /\ a.pn = r.pn
        /\ a.ckr = r.ckr /\ a.dhr = r.dhr /\ a.nr = r.nr /\ a.skipped = r.skipped \ {KeyOf(w)}
    BY <2>1 DEF Ratchet
  <2> HIDE DEF a
  <2>3. \A v : Passed(a, v) <=> Passed(r, v)
    BY <2>2 DEF Passed
  <2>4. \A v \in vs : KeyOf(v) = KeyOf(w) => v = w
    <3>1. \A v \in vs : KeyOf(v) = KeyOf(w) => v.key = w.key /\ v.n = w.n
      BY DEF KeyOf
    <3> QED  BY <3>1 DEF Orderly
  <2>5. \A v \in read \cup {w} : Passed(a, v)
    BY <1>2, <1>3, <2>3 DEF Accounts, WasSetAside
  <2>6. a.skipped = {KeyOf(v) : v \in {u \in vs \ (read \cup {w}) : Passed(a, u)}}
    BY <1>2, <2>2, <2>3, <2>4 DEF Accounts
  <2>7. Leads(p, a, ws)
    BY <2>2 DEF Leads
  <2> QED  BY <1>2, <2>2, <2>5, <2>6, <2>7 DEF Follows, Accounts, a
<1>4. CASE LiesAhead(r, w)
  <2> DEFINE s == SkipUntil(r, w.n)
  <2>1. a = [s EXCEPT !.nr = w.n + 1]
    BY <1>4 DEF LiesAhead, AfterDecrypt, OnChain, TurnsDh
  <2>2. s \in Ratchet
    BY <1>1, SkipUntilType
  <2>3. /\ s.dhs = r.dhs /\ s.dhr = r.dhr /\ s.rk = r.rk /\ s.cks = r.cks
        /\ s.ckr = r.ckr /\ s.ns = r.ns /\ s.pn = r.pn
    BY <1>1, SkipUntilRest
  <2> HIDE DEF s, a
  <2>4. /\ a.rk = r.rk /\ a.cks = r.cks /\ a.dhs = r.dhs /\ a.ns = r.ns /\ a.pn = r.pn
        /\ a.ckr = r.ckr /\ a.dhr = r.dhr /\ a.nr = w.n + 1 /\ a.skipped = s.skipped
    BY <2>1, <2>2, <2>3 DEF Ratchet
  <2>5. Accounts(a, read \cup {w}, vs)
    BY <1>1, <1>2, <1>4, <2>4, AccountsOnChain DEF LiesAhead, s
  <2>6. Leads(p, a, ws)
    BY <2>4 DEF Leads
  <2>7. r.ckr # NoChain /\ w.chain = r.ckr /\ w.key = r.dhr
    BY <1>4 DEF LiesAhead
  <2>8. r.rk = KdfRk(r.ckr, r.dhs, r.dhr)
    BY <2>7 DEF Follows
  <2> QED  BY <1>2, <2>4, <2>5, <2>6, <2>7, <2>8 DEF Follows, a
<1>5. CASE TurnsAhead(r, w)
  <2> DEFINE t == SkipUntil(r, w.pn)
             c == DhRatchet(t, w.key, fresh)
             s == SkipUntil(c, w.n)
  <2>1. SkippedFor(r, w) = {} /\ TurnsDh(r, w) /\ w.key # NoKey
        /\ w.chain = KdfRk(r.rk, r.dhs, w.key) /\ Len(w.chain) = Len(r.rk) + 1
    BY <1>1, <1>5, NoKeyAssumption DEF TurnsAhead, TurnsDh
  <2>2. a = [s EXCEPT !.nr = w.n + 1]
    BY <2>1 DEF AfterDecrypt, OnChain
  <2>3. /\ t \in Ratchet /\ t.dhs = r.dhs /\ t.rk = r.rk /\ t.ns = r.ns
    BY <1>1, SkipUntilType, SkipUntilRest
  <2>4. c \in Ratchet /\ ChainHasKey(c)
    BY <1>1, <2>1, <2>3, DhRatchetType
  <2>5. s \in Ratchet
    BY <1>1, <2>4, SkipUntilType
  <2>6. c = [dhs |-> fresh, dhr |-> w.key, rk |-> KdfRk(w.chain, fresh, w.key),
             cks |-> KdfRk(w.chain, fresh, w.key), ckr |-> w.chain,
             ns |-> 0, nr |-> 0, pn |-> r.ns, skipped |-> t.skipped]
    BY <2>1, <2>3 DEF DhRatchet
  <2> HIDE DEF a, s, c
  <2>7. /\ c.dhs = fresh /\ c.dhr = w.key /\ c.rk = KdfRk(w.chain, fresh, w.key)
        /\ c.cks = c.rk /\ c.ckr = w.chain /\ c.ns = 0 /\ c.nr = 0 /\ c.pn = r.ns
        /\ c.skipped = t.skipped
    BY <2>6
  <2> HIDE DEF t
  <2>8. /\ s.dhs = c.dhs /\ s.dhr = c.dhr /\ s.rk = c.rk /\ s.cks = c.cks
        /\ s.ckr = c.ckr /\ s.ns = c.ns /\ s.pn = c.pn
    BY <1>1, <2>4, SkipUntilRest DEF s
  <2>9. /\ a.dhs = fresh /\ a.dhr = w.key /\ a.rk = KdfRk(w.chain, fresh, w.key)
        /\ a.cks = a.rk /\ a.ckr = w.chain /\ a.ns = 0 /\ a.nr = w.n + 1 /\ a.pn = r.ns
        /\ a.skipped = s.skipped
    BY <2>2, <2>5, <2>7, <2>8 DEF Ratchet
  <2>10. Accounts(c, read, vs)
    BY <1>5, <2>7, AccountsOnTurn DEF t
  <2>11. w.chain # NoChain
    <3>1. Len(w.chain) >= 2
      BY DEF Orderly
    <3>2. Len(NoChain) = 0 /\ ~(0 >= 2)
      BY DEF NoChain
    <3> QED  BY <3>1, <3>2
  <2>12. Accounts(a, read \cup {w}, vs)
    BY <1>1, <1>2, <2>4, <2>7, <2>9, <2>10, <2>11, AccountsOnChain DEF s
  <2>13. a.rk \in Chain /\ Len(a.rk) = Len(r.rk) + 2
    <3>1. Len(a.rk) = Len(w.chain) + 1 /\ a.rk \in Chain
      BY <1>1, <2>9, ChainLength, KdfRkType
    <3>2. Len(r.rk) \in Nat
      BY DEF Ratchet, Chain
    <3>3. \A j \in Nat : (j + 1) + 1 = j + 2
      OBVIOUS
    <3> QED  BY <2>1, <3>1, <3>2, <3>3
  <2>14. Leads(p, a, ws)
    <3>1. \A v \in ws : Len(v.chain) >= 2
      BY DEF Orderly
    <3> QED  BY <2>9, <2>13, <3>1, TurnLeads
  <2> QED  BY <1>2, <2>9, <2>11, <2>12, <2>14 DEF Follows, a
<1> QED  BY <1>3, <1>4, <1>5, ReadableAt
=============================================================================
