----------------------- MODULE RatchetSessionProofs -----------------------
(***************************************************************************)
(* What holds of a conversation for every bound with MaxSkipped below       *)
(* MaxReplay, every number of envelopes and every number of crashes; and of  *)
(* one carried by mail, for every size of folder.                           *)
(***************************************************************************)
EXTENDS MailReading, DoubleRatchetProofs, FiniteSetTheorems

RatchetOK(r) == r \in Ratchet /\ ChainHasKey(r)

\* Types, and what they rest on: a receiving chain has a key, and a party has
\* sealed finitely many wires, so that counting them names a new one.
TypeInv ==
  /\ TypeOK
  /\ \A p \in Party : /\ RatchetOK(session[p].ratchet)
                      /\ RatchetOK(stored[p].ratchet)
                      /\ IsFiniteSet(sent[p])

LEMMA RestTyped ==
  ASSUME TypeInv
  PROVE  /\ \A p \in Party : /\ session[p] \in SessionState /\ stored[p] \in SessionState
                             /\ keys[p] \in Nat
                             /\ sent[p] \in SUBSET Wire /\ unsaved[p] \in SUBSET Wire
         /\ \A p \in Party : <<p, keys[p]>> \in Key
  BY DEF TypeInv, TypeOK, Key

LEMMA TypeInit == Init => TypeInv
<1> SUFFICES ASSUME Init PROVE TypeInv
  OBVIOUS
<1>1. ASSUME NEW p \in Party
      PROVE  NewSession(p) \in SessionState /\ RatchetOK(NewSession(p).ratchet)
  BY InitAliceType, InitBobType DEF NewSession, SessionState, RatchetOK
<1>2. session = [p \in Party |-> NewSession(p)] /\ stored = session
  BY DEF Init
<1>3. session \in [Party -> SessionState] /\ stored \in [Party -> SessionState]
  BY <1>1, <1>2
<1>4. \A p \in Party : IsFiniteSet(sent[p])
  BY FS_EmptySet DEF Init
<1>5. \A p \in Party : RatchetOK(session[p].ratchet) /\ RatchetOK(stored[p].ratchet)
  BY <1>1, <1>2
<1> QED
  BY <1>3, <1>4, <1>5 DEF Init, TypeInv, TypeOK

\* The new state of a session that read a wire.
LEMMA RememberType ==
  ASSUME NEW s \in SessionState, NEW w \in Wire
  PROVE  Remember(s, w) \in Seq(ReplayKeys)
<1>1. ReplayKey(w) \in ReplayKeys
  BY DEF ReplayKey, ReplayKeys, Wire
<1>2. s.replay_cache \in Seq(ReplayKeys)
  BY DEF SessionState
<1>3. s.replay_cache # << >> => Tail(s.replay_cache) \in Seq(ReplayKeys)
  BY <1>2
<1>4. Len(s.replay_cache) = MaxReplay => s.replay_cache # << >>
  BY BoundsAssumption
<1> QED
  BY <1>1, <1>2, <1>3, <1>4 DEF Remember

LEMMA TypeNext == TypeInv /\ [Next]_vars => TypeInv'
<1> SUFFICES ASSUME TypeInv, [Next]_vars PROVE TypeInv'
  OBVIOUS
<1> USE RestTyped
<1>1. ASSUME NEW p \in Party, Seal(p) PROVE TypeInv'
  <2> DEFINE r == session[p].ratchet
             w == [from |-> p, key |-> Header(r).key, n |-> Header(r).n,
                   pn |-> Header(r).pn, chain |-> Header(r).chain,
                   id |-> Cardinality(sent[p])]
  <2>1. RatchetOK(r) /\ RatchetOK(AfterEncrypt(r))
    BY AfterEncryptType DEF TypeInv, RatchetOK
  <2>2. Cardinality(sent[p]) \in Nat
    BY FS_CardinalityType DEF TypeInv
  <2>3. w \in Wire
    BY <2>1, <2>2 DEF Wire, Header, RatchetOK, Ratchet
  <2>4. /\ session' = [session EXCEPT ![p].ratchet = AfterEncrypt(r)]
        /\ sent' = [sent EXCEPT ![p] = @ \cup {w}]
        /\ unsaved' = [unsaved EXCEPT ![p] = @ \cup {w}]
        /\ UNCHANGED <<stored, keys, orphans, outcome, restarts>>
    BY <1>1 DEF Seal
  <2> HIDE DEF w
  <2>5. session' \in [Party -> SessionState]
    BY <2>1, <2>4 DEF TypeInv, TypeOK, SessionState, RatchetOK
  <2>6. sent' \in [Party -> SUBSET Wire] /\ unsaved' \in [Party -> SUBSET Wire]
    BY <2>3, <2>4 DEF TypeInv, TypeOK
  <2>7. \A q \in Party : IsFiniteSet(sent'[q])
    BY <2>4, FS_AddElement DEF TypeInv, TypeOK
  <2>8. \A q \in Party : RatchetOK(session'[q].ratchet)
    BY <2>1, <2>4 DEF TypeInv, TypeOK
  <2> QED
    BY <2>4, <2>5, <2>6, <2>7, <2>8 DEF TypeInv, TypeOK
<1>2. ASSUME NEW p \in Party, NEW w \in sent[Peer(p)], OpenAccepted(p, w)
      PROVE  TypeInv'
  <2> DEFINE s     == session[p]
             fresh == <<p, keys[p]>>
             a     == AfterDecrypt(s.ratchet, w, fresh)
             new   == [ratchet |-> a, replay_cache |-> Remember(s, w),
                       opened  |-> s.opened \cup {w}]
  <2>1. w \in Wire
    BY PeerParty
  <2>2. RatchetOK(a)
    BY <2>1, AfterDecryptType, NoKeyAssumption DEF TypeInv, RatchetOK, Wire
  <2>3. new \in SessionState
    BY <2>1, <2>2, RememberType DEF SessionState, RatchetOK
  <2>4. /\ session' = [session EXCEPT ![p] = new]
        /\ keys' = [keys EXCEPT ![p] = IF TurnsDh(s.ratchet, w) THEN @ + 1 ELSE @]
        /\ outcome' = "opened"
        /\ UNCHANGED <<stored, sent, unsaved, orphans, restarts>>
    BY <1>2 DEF OpenAccepted
  <2>5. new.ratchet = a
    OBVIOUS
  <2> HIDE DEF new, a
  <2>6. keys' \in [Party -> Nat]
    BY <2>4 DEF TypeInv, TypeOK
  <2>7. session' \in [Party -> SessionState]
    BY <2>3, <2>4 DEF TypeInv, TypeOK
  <2>8. \A q \in Party : RatchetOK(session'[q].ratchet)
    BY <2>2, <2>4, <2>5 DEF TypeInv, TypeOK
  <2> QED
    BY <2>4, <2>6, <2>7, <2>8 DEF TypeInv, TypeOK
<1>3. ASSUME NEW p \in Party, ForgetSession(p), UNCHANGED <<stored, keys, sent>>,
             outcome' \in {outcome, "aborted"}
      PROVE  TypeInv'
  <2>1. session' \in [Party -> SessionState]
        /\ \A q \in Party : RatchetOK(session'[q].ratchet)
    BY <1>3 DEF ForgetSession, TypeInv, TypeOK
  <2>2. orphans' \in SUBSET Wire /\ unsaved' \in [Party -> SUBSET Wire]
        /\ restarts' \in Nat
    BY <1>3 DEF ForgetSession, TypeInv, TypeOK
  <2> QED
    BY <1>3, <2>1, <2>2 DEF TypeInv, TypeOK
<1>4. ASSUME NEW p \in Party, SaveSession(p) PROVE TypeInv'
  BY <1>4 DEF SaveSession, TypeInv, TypeOK
<1>5. ASSUME NEW p \in Party, NEW w \in sent[Peer(p)], OpenRefused(p, w)
      PROVE  TypeInv'
  BY <1>5 DEF OpenRefused, TypeInv, TypeOK
<1>6. ASSUME NEW p \in Party, NEW w \in sent[Peer(p)], OpenAborts(p, w)
      PROVE  TypeInv'
  BY <1>3, <1>6 DEF OpenAborts
<1>7. ASSUME NEW p \in Party, Restart(p) PROVE TypeInv'
  BY <1>3, <1>7 DEF Restart
<1>8. CASE UNCHANGED vars
  BY <1>8 DEF vars, TypeInv, TypeOK
<1> QED
  BY <1>1, <1>2, <1>4, <1>5, <1>6, <1>7, <1>8 DEF Next, Open

\* The ratchet, the caches and the crash bookkeeping stay well formed, for
\* every bound and every number of envelopes.
THEOREM TypeCorrect == Spec => []TypeOK
<1>1. TypeInv => TypeOK
  BY DEF TypeInv
<1> QED
  BY TypeInit, TypeNext, <1>1, PTL DEF Spec

-----------------------------------------------------------------------------
(* The replay guard.  It is exact because the cache never drops an entry: a  *)
(* session stops reading at MaxSkipped + 1 entries, before the cache is full.*)

\* What the replay cache of a session in memory or on disk says.
CacheTracks(s) ==
  /\ Len(s.replay_cache) <= MaxSkipped + 1
  /\ Entries(s.replay_cache) = {ReplayKey(w) : w \in s.opened}

ReplayInv ==
  /\ TypeInv
  /\ \A p \in Party :
       /\ CacheTracks(session[p]) /\ session[p].opened \subseteq sent[Peer(p)]
       /\ CacheTracks(stored[p])  /\ stored[p].opened  \subseteq sent[Peer(p)]
       /\ \A w \in sent[p] : w.id < Cardinality(sent[p])
       /\ \A v, w \in sent[p] : v.id = w.id => v = w

LEMMA EntriesAppend ==
  \A cache \in Seq(ReplayKeys) : \A k \in ReplayKeys :
    /\ Len(Append(cache, k)) = Len(cache) + 1
    /\ Entries(Append(cache, k)) = Entries(cache) \cup {k}
<1> SUFFICES ASSUME NEW cache \in Seq(ReplayKeys), NEW k \in ReplayKeys
             PROVE  /\ Len(Append(cache, k)) = Len(cache) + 1
                    /\ Entries(Append(cache, k)) = Entries(cache) \cup {k}
  OBVIOUS
<1> DEFINE longer == Append(cache, k)
<1>1. /\ DOMAIN cache = 1 .. Len(cache) /\ DOMAIN longer = 1 .. Len(cache) + 1
      /\ Len(cache) \in Nat /\ Len(longer) = Len(cache) + 1
      /\ longer[Len(cache) + 1] = k
      /\ \A i \in 1 .. Len(cache) : longer[i] = cache[i]
  OBVIOUS
<1> HIDE DEF longer
<1>2. Entries(longer) \subseteq Entries(cache) \cup {k}
  BY <1>1 DEF Entries
<1>3. Entries(cache) \subseteq Entries(longer)
  BY <1>1 DEF Entries
<1>4. k \in Entries(longer)
  BY <1>1 DEF Entries
<1> QED
  BY <1>1, <1>2, <1>3, <1>4 DEF longer

\* Below the bound, remembering a wire adds its entry and drops none.
LEMMA RememberTracks ==
  ASSUME NEW s \in SessionState, NEW w \in Wire, CacheTracks(s),
         ~SkippedBoundExceeded(s),
         NEW t, t.replay_cache = Remember(s, w), t.opened = s.opened \cup {w}
  PROVE  CacheTracks(t)
<1>1. ReplayKey(w) \in ReplayKeys
  BY DEF ReplayKey, ReplayKeys, Wire
<1>2. s.replay_cache \in Seq(ReplayKeys)
  BY DEF SessionState
<1>3. Len(s.replay_cache) <= MaxSkipped /\ Len(s.replay_cache) # MaxReplay
  BY <1>2, BoundsAssumption DEF SkippedBoundExceeded
<1>4. Remember(s, w) = Append(s.replay_cache, ReplayKey(w))
  BY <1>3 DEF Remember
<1>5. Len(t.replay_cache) <= MaxSkipped + 1
  BY <1>1, <1>2, <1>3, <1>4, EntriesAppend, BoundsAssumption
<1>6. Entries(t.replay_cache) = Entries(s.replay_cache) \cup {ReplayKey(w)}
  BY <1>1, <1>2, <1>4, EntriesAppend
<1> QED
  BY <1>5, <1>6 DEF CacheTracks

LEMMA ReplayInit == Init => ReplayInv
<1> SUFFICES ASSUME Init PROVE ReplayInv
  OBVIOUS
<1>1. \A p \in Party : /\ session[p] = NewSession(p) /\ stored[p] = NewSession(p)
                       /\ sent[p] = {}
  BY DEF Init
<1>2. \A p \in Party : CacheTracks(NewSession(p)) /\ NewSession(p).opened = {}
  BY BoundsAssumption DEF NewSession, CacheTracks, Entries
<1> QED
  BY <1>1, <1>2, TypeInit DEF ReplayInv

LEMMA ReplayNext == ReplayInv /\ [Next]_vars => ReplayInv'
<1> SUFFICES ASSUME ReplayInv, [Next]_vars PROVE ReplayInv'
  OBVIOUS
<1> USE PeerParty
<1>0. TypeInv /\ TypeInv'
  BY TypeNext DEF ReplayInv
<1>t. /\ session \in [Party -> SessionState] /\ stored \in [Party -> SessionState]
      /\ sent \in [Party -> SUBSET Wire]
  BY <1>0 DEF TypeInv, TypeOK
<1>1. ASSUME NEW p \in Party, Seal(p) PROVE ReplayInv'
  <2> DEFINE r == session[p].ratchet
             w == [from |-> p, key |-> Header(r).key, n |-> Header(r).n,
                   pn |-> Header(r).pn, chain |-> Header(r).chain,
                   id |-> Cardinality(sent[p])]
  <2>1. /\ session' = [session EXCEPT ![p].ratchet = AfterEncrypt(r)]
        /\ sent' = [sent EXCEPT ![p] = @ \cup {w}]
        /\ stored' = stored
    BY <1>1 DEF Seal
  <2>2. IsFiniteSet(sent[p]) /\ Cardinality(sent[p]) \in Nat
    BY <1>0, FS_CardinalityType DEF TypeInv
  <2>3. w.id = Cardinality(sent[p])
    OBVIOUS
  <2> HIDE DEF w
  <2>4. \A v \in sent[p] : v.id < Cardinality(sent[p]) /\ v.id \in Nat
    BY <1>t DEF ReplayInv, Wire
  <2>5. w \notin sent[p]
    BY <2>2, <2>3, <2>4
  <2>6. Cardinality(sent[p] \cup {w}) = Cardinality(sent[p]) + 1
    BY <2>2, <2>5, FS_AddElement
  <2>7. \A q \in Party : /\ session'[q].replay_cache = session[q].replay_cache
                         /\ session'[q].opened = session[q].opened
                         /\ sent[q] \subseteq sent'[q]
    BY <1>t, <2>1 DEF SessionState
  <2>8. ASSUME NEW q \in Party
        PROVE  /\ \A v \in sent'[q] : v.id < Cardinality(sent'[q])
               /\ \A u, v \in sent'[q] : u.id = v.id => u = v
    <3>1. CASE q = p
      <4>1. sent'[q] = sent[p] \cup {w}
        BY <1>t, <2>1, <3>1
      <4>2. \A v \in sent[p] \cup {w} : v.id < Cardinality(sent[p]) + 1
        BY <2>2, <2>3, <2>4
      <4>3. \A u, v \in sent[p] \cup {w} : u.id = v.id => u = v
        BY <2>2, <2>3, <2>4 DEF ReplayInv
      <4> QED
        BY <2>6, <4>1, <4>2, <4>3
    <3>2. CASE q # p
      BY <1>t, <2>1, <3>2 DEF ReplayInv
    <3> QED
      BY <3>1, <3>2
  <2>9. ASSUME NEW q \in Party
        PROVE  /\ CacheTracks(session'[q]) /\ session'[q].opened \subseteq sent'[Peer(q)]
               /\ CacheTracks(stored'[q])  /\ stored'[q].opened  \subseteq sent'[Peer(q)]
    BY <2>1, <2>7 DEF ReplayInv, CacheTracks
  <2> QED
    BY <1>0, <2>8, <2>9 DEF ReplayInv
<1>2. ASSUME NEW p \in Party, NEW w \in sent[Peer(p)], OpenAccepted(p, w)
      PROVE  ReplayInv'
  <2> DEFINE s   == session[p]
             new == [ratchet |-> AfterDecrypt(s.ratchet, w, <<p, keys[p]>>),
                     replay_cache |-> Remember(s, w), opened |-> s.opened \cup {w}]
  <2>1. session' = [session EXCEPT ![p] = new] /\ UNCHANGED <<stored, sent>>
        /\ ~SkippedBoundExceeded(s)
    BY <1>2 DEF OpenAccepted, ReachesRatchet
  <2>2. w \in Wire /\ s \in SessionState /\ CacheTracks(s)
        /\ s.opened \subseteq sent[Peer(p)]
    BY <1>t DEF ReplayInv
  <2>3. new.replay_cache = Remember(s, w) /\ new.opened = s.opened \cup {w}
    OBVIOUS
  <2> HIDE DEF new, s
  <2>4. CacheTracks(new) /\ new.opened \subseteq sent[Peer(p)]
    BY <2>1, <2>2, <2>3, RememberTracks
  <2> QED
    BY <1>0, <1>t, <2>1, <2>4 DEF ReplayInv
<1>3. ASSUME NEW p \in Party, ForgetSession(p), UNCHANGED <<stored, sent>>
      PROVE  ReplayInv'
  BY <1>0, <1>t, <1>3 DEF ForgetSession, ReplayInv
<1>4. ASSUME NEW p \in Party, SaveSession(p) PROVE ReplayInv'
  BY <1>0, <1>t, <1>4 DEF SaveSession, ReplayInv
<1>5. ASSUME NEW p \in Party, NEW w \in sent[Peer(p)], OpenRefused(p, w)
      PROVE  ReplayInv'
  BY <1>0, <1>5 DEF OpenRefused, ReplayInv
<1>6. ASSUME NEW p \in Party, NEW w \in sent[Peer(p)], OpenAborts(p, w)
      PROVE  ReplayInv'
  BY <1>3, <1>6 DEF OpenAborts
<1>7. ASSUME NEW p \in Party, Restart(p) PROVE ReplayInv'
  BY <1>3, <1>7 DEF Restart
<1>8. CASE UNCHANGED vars
  BY <1>0, <1>8 DEF vars, ReplayInv
<1> QED
  BY <1>1, <1>2, <1>4, <1>5, <1>6, <1>7, <1>8 DEF Next, Open

\* The replay guard refuses exactly the envelopes this session has read, for
\* every bound with MaxSkipped < MaxReplay and every schedule of deliveries
\* and crashes (ensure_replay_not_seen, remember_replay).
THEOREM ReplayGuardIsExact == Spec => []ReplayVerdictExact
<1>1. ReplayInv => ReplayVerdictExact
  <2> SUFFICES ASSUME ReplayInv, NEW p \in Party, NEW w \in sent[Peer(p)]
               PROVE  ReplaySeen(session[p], w) <=> w \in session[p].opened
    BY DEF ReplayVerdictExact
  <2>1. /\ Entries(session[p].replay_cache) = {ReplayKey(v) : v \in session[p].opened}
        /\ session[p].opened \subseteq sent[Peer(p)]
        /\ \A u, v \in sent[Peer(p)] : u.id = v.id => u = v
    BY PeerParty DEF ReplayInv, CacheTracks
  <2>2. \A v \in session[p].opened : ReplayKey(v) = ReplayKey(w) => v = w
    BY <2>1 DEF ReplayKey
  <2> QED
    BY <2>1, <2>2 DEF ReplaySeen
<1> QED
  BY ReplayInit, ReplayNext, <1>1, PTL DEF Spec

-----------------------------------------------------------------------------
(* Message numbers.  The sending position a party holds, in memory or on     *)
(* disk, is past every wire it still knows of: in memory all wires but the   *)
(* orphans, on disk those saved as well.                                     *)

\* A key pair that party p has generated.
Minted(p, k) == \E j \in Nat : j < keys[p] /\ k = <<p, j>>

\* The ratchet r of party p is past the wires ws.
Past(p, r, ws) ==
  /\ Minted(p, r.dhs)
  /\ \A w \in ws : w.key = r.dhs => w.n < r.ns

NumberInv ==
  /\ TypeInv
  /\ NumberReuseNeedsOrphan
  /\ \A p \in Party :
       /\ \A w \in sent[p] : Minted(p, w.key)
       /\ Past(p, session[p].ratchet, sent[p] \ orphans)
       /\ Past(p, stored[p].ratchet, sent[p] \ (orphans \cup unsaved[p]))

LEMMA NumberInit == Init => NumberInv
<1> SUFFICES ASSUME Init PROVE NumberInv
  OBVIOUS
<1>1. \A p \in Party : /\ session[p] = NewSession(p) /\ stored[p] = NewSession(p)
                       /\ sent[p] = {} /\ keys[p] = 1
  BY DEF Init
<1>2. \A p \in Party : NewSession(p).ratchet.dhs = <<p, 0>>
  BY DEF NewSession, InitAlice, InitBob, Party
<1> QED
  BY <1>1, <1>2, TypeInit DEF NumberInv, NumberReuseNeedsOrphan, Past, Minted

LEMMA NumberNext == NumberInv /\ [Next]_vars => NumberInv'
<1> SUFFICES ASSUME NumberInv, [Next]_vars PROVE NumberInv'
  OBVIOUS
<1> USE PeerParty
<1>0. TypeInv /\ TypeInv'
  BY TypeNext DEF NumberInv
<1>t. /\ session \in [Party -> SessionState] /\ stored \in [Party -> SessionState]
      /\ sent \in [Party -> SUBSET Wire] /\ unsaved \in [Party -> SUBSET Wire]
      /\ keys \in [Party -> Nat]
      /\ \A p \in Party : RatchetOK(session[p].ratchet) /\ RatchetOK(stored[p].ratchet)
  BY <1>0 DEF TypeInv, TypeOK
<1>1. ASSUME NEW p \in Party, Seal(p) PROVE NumberInv'
  <2> DEFINE r == session[p].ratchet
             w == [from |-> p, key |-> Header(r).key, n |-> Header(r).n,
                   pn |-> Header(r).pn, chain |-> Header(r).chain,
                   id |-> Cardinality(sent[p])]
  <2>1. /\ session' = [session EXCEPT ![p].ratchet = AfterEncrypt(r)]
        /\ sent' = [sent EXCEPT ![p] = @ \cup {w}]
        /\ unsaved' = [unsaved EXCEPT ![p] = @ \cup {w}]
        /\ UNCHANGED <<stored, keys, orphans>>
    BY <1>1 DEF Seal
  <2>2. w.key = r.dhs /\ w.n = r.ns
    BY DEF Header
  <2> HIDE DEF w
  <2>3. /\ r.ns \in Nat /\ AfterEncrypt(r).dhs = r.dhs
        /\ AfterEncrypt(r).ns = r.ns + 1
    BY <1>t, AfterEncryptType DEF RatchetOK, Ratchet
  <2>4. /\ session'[p].ratchet = AfterEncrypt(r)
        /\ sent'[p] = sent[p] \cup {w} /\ unsaved'[p] = unsaved[p] \cup {w}
        /\ \A q \in Party : q # p => /\ session'[q] = session[q] /\ sent'[q] = sent[q]
                                     /\ unsaved'[q] = unsaved[q]
    BY <1>t, <2>1 DEF SessionState
  <2>5. Minted(p, r.dhs) /\ \A q \in Party : \A k : Minted(q, k)' <=> Minted(q, k)
    BY <2>1 DEF NumberInv, Past, Minted
  <2>6. \A v \in sent[p] \ orphans : v.key = r.dhs => v.n < r.ns /\ v.n \in Nat
    BY <1>t DEF NumberInv, Past, Wire
  <2>7. NumberReuseNeedsOrphan'
    <3> SUFFICES ASSUME NEW q \in Party, NEW u \in sent'[q], NEW v \in sent'[q],
                        u # v, u.key = v.key, u.n = v.n
                 PROVE  u \in orphans \/ v \in orphans
      BY <2>1 DEF NumberReuseNeedsOrphan
    <3>1. CASE u \in sent[q] /\ v \in sent[q]
      BY <3>1 DEF NumberInv, NumberReuseNeedsOrphan
    <3>2. CASE ~(u \in sent[q] /\ v \in sent[q])
      BY <2>2, <2>3, <2>4, <2>6, <3>2
    <3> QED
      BY <3>1, <3>2
  <2>8. ASSUME NEW q \in Party, NEW v \in sent'[q]
        PROVE  Minted(q, v.key)'
    <3>1. v \in sent[q] \/ (q = p /\ v = w)
      BY <2>4
    <3>2. Minted(q, v.key)
      BY <2>2, <2>5, <3>1 DEF NumberInv
    <3> QED
      BY <2>1, <3>2 DEF Minted
  <2>9. ASSUME NEW q \in Party
        PROVE  /\ Past(q, session[q].ratchet, sent[q] \ orphans)'
               /\ Past(q, stored[q].ratchet, sent[q] \ (orphans \cup unsaved[q]))'
    <3>1. CASE q # p
      BY <2>1, <2>4, <3>1 DEF NumberInv, Past, Minted
    <3>2. CASE q = p
      <4>1. \A v \in sent'[p] \ orphans : v.key = r.dhs => v.n < r.ns + 1
        BY <2>2, <2>3, <2>4, <2>6
      <4>2. sent'[p] \ (orphans \cup unsaved'[p]) \subseteq sent[p] \ (orphans \cup unsaved[p])
        BY <2>4
      <4>3. Past(p, session[p].ratchet, sent[p] \ orphans)'
        BY <2>1, <2>3, <2>4, <2>5, <4>1 DEF Past, Minted
      <4>4. Past(p, stored[p].ratchet, sent[p] \ (orphans \cup unsaved[p]))'
        BY <2>1, <4>2 DEF NumberInv, Past, Minted
      <4> QED
        BY <3>2, <4>3, <4>4
    <3> QED
      BY <3>1, <3>2
  <2> QED
    BY <1>0, <2>7, <2>8, <2>9 DEF NumberInv
<1>2. ASSUME NEW p \in Party, NEW w \in sent[Peer(p)], OpenAccepted(p, w)
      PROVE  NumberInv'
  <2> DEFINE s     == session[p]
             fresh == <<p, keys[p]>>
             a     == AfterDecrypt(s.ratchet, w, fresh)
  <2>1. /\ session' = [session EXCEPT ![p] =
             [ratchet |-> a, replay_cache |-> Remember(s, w), opened |-> s.opened \cup {w}]]
        /\ keys' = [keys EXCEPT ![p] = IF TurnsDh(s.ratchet, w) THEN @ + 1 ELSE @]
        /\ UNCHANGED <<stored, sent, unsaved, orphans>>
    BY <1>2 DEF OpenAccepted
  <2>2. IF TurnsDh(s.ratchet, w) THEN a.dhs = fresh /\ a.ns = 0
                                 ELSE a.dhs = s.ratchet.dhs /\ a.ns = s.ratchet.ns
    <3>1. s.ratchet \in Ratchet /\ ChainHasKey(s.ratchet) /\ fresh \in Key
      BY <1>t DEF RatchetOK, Key
    <3>2. w.key \in Key /\ w.n \in Nat /\ w.pn \in Nat /\ w.key # NoKey
      BY <1>t, NoKeyAssumption DEF Wire
    <3> QED
      BY <3>1, <3>2, AfterDecryptType
  <2> HIDE DEF a
  <2>3. /\ session'[p].ratchet = a
        /\ \A q \in Party : q # p => session'[q] = session[q]
    BY <1>t, <2>1
  <2>k. /\ TurnsDh(s.ratchet, w) => keys'[p] = keys[p] + 1
        /\ \A q \in Party : /\ keys[q] \in Nat
                            /\ keys'[q] \in {keys[q], keys[q] + 1}
    <3>1. CASE TurnsDh(s.ratchet, w)
      BY <1>t, <2>1, <3>1
    <3>2. CASE ~TurnsDh(s.ratchet, w)
      BY <1>t, <2>1, <3>2
    <3> QED
      BY <3>1, <3>2
  <2>m. \A q \in Party : \A k : Minted(q, k) => Minted(q, k)'
    BY <2>k DEF Minted
  <2>4. ASSUME NEW q \in Party, NEW v \in sent'[q]
        PROVE  Minted(q, v.key)'
    <3>1. Minted(q, v.key)
      BY <2>1 DEF NumberInv
    <3> QED
      BY <2>k, <3>1 DEF Minted
  <2>5. ASSUME NEW q \in Party
        PROVE  Past(q, stored[q].ratchet, sent[q] \ (orphans \cup unsaved[q]))'
    <3>1. Past(q, stored[q].ratchet, sent[q] \ (orphans \cup unsaved[q]))
      BY DEF NumberInv
    <3>2. Minted(q, stored[q].ratchet.dhs)'
      BY <2>1, <2>m, <3>1 DEF Past, Minted
    <3> QED
      BY <2>1, <3>1, <3>2 DEF Past
  <2>6. \A q \in Party : q # p => Past(q, session[q].ratchet, sent[q] \ orphans)'
    BY <2>1, <2>3, <2>m DEF NumberInv, Past, Minted
  <2>7. Past(p, session[p].ratchet, sent[p] \ orphans)'
    <3>1. CASE TurnsDh(s.ratchet, w)
      <4> PICK f : f = fresh
        OBVIOUS
      <4>1. \A v \in sent[p] : v.key # f
        <5> SUFFICES ASSUME NEW v \in sent[p] PROVE v.key # <<p, keys[p]>>
          OBVIOUS
        <5>1. PICK j \in Nat : j < keys[p] /\ v.key = <<p, j>>
          BY DEF NumberInv, Minted
        <5>2. j # keys[p]
          BY <2>k, <5>1
        <5> QED
          BY <5>1, <5>2
      <4>2. Minted(p, f)'
        BY <2>k, <3>1 DEF Minted
      <4>3. a.dhs = f
        BY <2>2, <3>1
      <4> QED
        BY <2>1, <2>3, <4>1, <4>2, <4>3 DEF Past, Minted
    <3>2. CASE ~TurnsDh(s.ratchet, w)
      BY <2>1, <2>2, <2>3, <2>m, <3>2 DEF NumberInv, Past, Minted
    <3> QED
      BY <3>1, <3>2
  <2>8. NumberReuseNeedsOrphan'
    BY <2>1 DEF NumberInv, NumberReuseNeedsOrphan
  <2> QED
    BY <1>0, <2>4, <2>5, <2>6, <2>7, <2>8 DEF NumberInv
<1>3. ASSUME NEW p \in Party, ForgetSession(p), UNCHANGED <<stored, keys, sent>>
      PROVE  NumberInv'
  <2>1. /\ session'[p] = stored[p] /\ orphans' = orphans \cup unsaved[p]
        /\ unsaved'[p] = {}
        /\ \A q \in Party : q # p => session'[q] = session[q] /\ unsaved'[q] = unsaved[q]
    BY <1>t, <1>3 DEF ForgetSession
  <2>2. NumberReuseNeedsOrphan'
    BY <1>3, <2>1 DEF NumberInv, NumberReuseNeedsOrphan
  <2>3. ASSUME NEW q \in Party
        PROVE  /\ Past(q, session[q].ratchet, sent[q] \ orphans)'
               /\ Past(q, stored[q].ratchet, sent[q] \ (orphans \cup unsaved[q]))'
    <3>1. CASE q = p
      BY <1>3, <2>1, <3>1 DEF NumberInv, Past, Minted
    <3>2. CASE q # p
      BY <1>3, <2>1, <3>2 DEF NumberInv, Past, Minted
    <3> QED
      BY <3>1, <3>2
  <2> QED
    BY <1>0, <1>3, <2>2, <2>3 DEF NumberInv, Minted
<1>4. ASSUME NEW p \in Party, SaveSession(p) PROVE NumberInv'
  <2>1. /\ stored'[p] = session[p] /\ unsaved'[p] = {}
        /\ \A q \in Party : q # p => stored'[q] = stored[q] /\ unsaved'[q] = unsaved[q]
        /\ UNCHANGED <<session, keys, sent, orphans>>
    BY <1>t, <1>4 DEF SaveSession
  <2> QED
    BY <1>0, <2>1 DEF NumberInv, NumberReuseNeedsOrphan, Past, Minted
<1>5. ASSUME NEW p \in Party, NEW w \in sent[Peer(p)], OpenRefused(p, w)
      PROVE  NumberInv'
  BY <1>0, <1>5 DEF OpenRefused, NumberInv, NumberReuseNeedsOrphan, Past, Minted
<1>6. ASSUME NEW p \in Party, NEW w \in sent[Peer(p)], OpenAborts(p, w)
      PROVE  NumberInv'
  BY <1>3, <1>6 DEF OpenAborts
<1>7. ASSUME NEW p \in Party, Restart(p) PROVE NumberInv'
  BY <1>3, <1>7 DEF Restart
<1>8. CASE UNCHANGED vars
  BY <1>0, <1>8 DEF vars, NumberInv, NumberReuseNeedsOrphan, Past, Minted
<1> QED
  BY <1>1, <1>2, <1>4, <1>5, <1>6, <1>7, <1>8 DEF Next, Open

\* Two envelopes of a party share a ratchet key and a message number only if
\* a crash made the sender forget one of them, for every number of envelopes
\* and crashes (seal_message against save_session).
THEOREM NumbersAreFresh == Spec => []NumberReuseNeedsOrphan
<1>1. NumberInv => NumberReuseNeedsOrphan
  BY DEF NumberInv
<1> QED
  BY NumberInit, NumberNext, <1>1, PTL DEF Spec

-----------------------------------------------------------------------------
(* Forward secrecy.  Of what a session has read, neither the session in       *)
(* memory nor the one on disk holds a key.                                  *)

AllUsed(s) == Behind(s.ratchet) /\ \A w \in s.opened : Used(s.ratchet, w)

ForwardInv ==
  TypeInv /\ \A p \in Party : AllUsed(session[p]) /\ AllUsed(stored[p])

LEMMA ForwardInit == Init => ForwardInv
<1> SUFFICES ASSUME Init PROVE ForwardInv
  OBVIOUS
<1>1. \A p \in Party : session[p] = NewSession(p) /\ stored[p] = NewSession(p)
  BY DEF Init
<1>2. \A p \in Party : AllUsed(NewSession(p))
  BY BehindInit DEF NewSession, AllUsed
<1> QED
  BY <1>1, <1>2, TypeInit DEF ForwardInv

LEMMA ForwardNext == ForwardInv /\ [Next]_vars => ForwardInv'
<1> SUFFICES ASSUME ForwardInv, [Next]_vars PROVE ForwardInv'
  OBVIOUS
<1> USE PeerParty
<1>0. TypeInv /\ TypeInv'
  BY TypeNext DEF ForwardInv
<1>t. /\ session \in [Party -> SessionState] /\ stored \in [Party -> SessionState]
      /\ sent \in [Party -> SUBSET Wire]
      /\ \A p \in Party : RatchetOK(session[p].ratchet)
  BY <1>0 DEF TypeInv, TypeOK
<1>1. ASSUME NEW p \in Party, Seal(p) PROVE ForwardInv'
  <2> DEFINE r == session[p].ratchet
             a == AfterEncrypt(r)
  <2>1. session' = [session EXCEPT ![p].ratchet = a] /\ stored' = stored
    BY <1>1 DEF Seal
  <2>2. a.rk = r.rk /\ a.ckr = r.ckr /\ a.nr = r.nr /\ a.skipped = r.skipped
    BY <1>t DEF AfterEncrypt, RatchetOK, Ratchet
  <2>3. session'[p].ratchet = a /\ session'[p].opened = session[p].opened
    BY <1>t, <2>1 DEF SessionState
  <2>4. AllUsed(session'[p])
    BY <2>2, <2>3 DEF ForwardInv, AllUsed, Behind, Used
  <2>5. \A q \in Party : q # p => session'[q] = session[q]
    BY <1>t, <2>1
  <2> QED
    BY <1>0, <2>1, <2>4, <2>5 DEF ForwardInv
<1>2. ASSUME NEW p \in Party, NEW w \in sent[Peer(p)], OpenAccepted(p, w)
      PROVE  ForwardInv'
  <2> DEFINE s     == session[p]
             fresh == <<p, keys[p]>>
             a     == AfterDecrypt(s.ratchet, w, fresh)
             new   == [ratchet |-> a, replay_cache |-> Remember(s, w),
                       opened  |-> s.opened \cup {w}]
  <2>1. session' = [session EXCEPT ![p] = new] /\ stored' = stored
        /\ CanDecrypt(s.ratchet, w)
    BY <1>2 DEF OpenAccepted
  <2>2. w \in Wire /\ s.opened \subseteq Wire /\ AllUsed(s) /\ fresh \in Key
        /\ s.ratchet \in Ratchet /\ ChainHasKey(s.ratchet)
    BY <1>0, <1>t, RestTyped DEF ForwardInv, SessionState, RatchetOK
  <2>3. /\ w.key \in Key /\ w.n \in Nat /\ w.pn \in Nat /\ w.chain \in Chain
        /\ \A v \in s.opened : v.n \in Nat /\ v.chain \in Chain
    BY <2>2 DEF Wire
  <2>4. new.ratchet = a /\ new.opened = s.opened \cup {w}
    OBVIOUS
  <2> HIDE DEF new, fresh
  <2>5. Behind(a) /\ Used(a, w) /\ \A v \in s.opened : Used(a, v)
    BY <2>1, <2>2, <2>3, AfterDecryptUsed DEF AllUsed
  <2> HIDE DEF a
  <2>6. AllUsed(new)
    BY <2>4, <2>5 DEF AllUsed
  <2> QED
    BY <1>0, <1>t, <2>1, <2>6 DEF ForwardInv
<1>3. ASSUME NEW p \in Party, ForgetSession(p), UNCHANGED stored
      PROVE  ForwardInv'
  BY <1>0, <1>t, <1>3 DEF ForgetSession, ForwardInv
<1>4. ASSUME NEW p \in Party, SaveSession(p) PROVE ForwardInv'
  BY <1>0, <1>t, <1>4 DEF SaveSession, ForwardInv
<1>5. ASSUME UNCHANGED <<session, stored>> PROVE ForwardInv'
  BY <1>0, <1>5 DEF ForwardInv
<1> QED
  BY <1>1, <1>2, <1>3, <1>4, <1>5
  DEF Next, Open, OpenRefused, OpenAborts, Restart, vars

\* Forward secrecy: whatever was read, and however often the session was saved
\* and restored, no key that could read it again is left (ratchet_decrypt,
\* save_session).
THEOREM SecretsGoForward == Spec => []ForwardSecrecy
<1>1. ForwardInv => ForwardSecrecy
  <2> SUFFICES ASSUME ForwardInv, NEW p \in Party, NEW w \in session[p].opened
               PROVE  ~CanDecrypt(session[p].ratchet, w)
    BY DEF ForwardSecrecy
  <2>1. /\ session[p] \in SessionState /\ RatchetOK(session[p].ratchet)
        /\ Behind(session[p].ratchet) /\ Used(session[p].ratchet, w)
    BY DEF ForwardInv, AllUsed, TypeInv, TypeOK
  <2>2. w \in Wire
    BY <2>1 DEF SessionState
  <2> QED
    BY <2>1, <2>2, UsedUnreadable DEF RatchetOK, Wire
<1> QED
  BY ForwardInit, ForwardNext, <1>1, PTL DEF Spec

-----------------------------------------------------------------------------
(* What can still be read.  As long as no crash made a sender forget a wire, *)
(* each session, and each one on disk that a crash would go back to, is in    *)
(* step with the wires both parties have sealed.                             *)

InStep(p, s) ==
  Leads(p, s.ratchet, sent[p]) /\ Follows(p, s.ratchet, s.opened, sent[Peer(p)])

MailInStep ==
  /\ outcome # "aborted"
  /\ \A p \in Party : /\ Orderly(p, sent[p], sent[Peer(p)])
                      /\ InStep(p, session[p])
                      /\ unsaved[p] = {} => InStep(p, stored[p])

MailInv == ReplayInv /\ NumberInv /\ (orphans = {} => MailInStep)

LEMMA InStepInit == Init => MailInv
<1> SUFFICES ASSUME Init PROVE MailInStep
  BY ReplayInit, NumberInit DEF MailInv
<1>1. \A p \in Party : /\ session[p] = NewSession(p) /\ stored[p] = NewSession(p)
                       /\ sent[p] = {} /\ sent[Peer(p)] = {}
  BY PeerParty DEF Init
<1>2. \A p \in Party : NewSession(p).ratchet = Start(p) /\ NewSession(p).opened = {}
  BY DEF NewSession, Start
<1>3. outcome # "aborted"
  BY DEF Init
<1> QED
  BY <1>1, <1>2, <1>3, StartInStep DEF MailInStep, InStep

\* The types that the lemmas about the mail ask for.
LEMMA MailTyped ==
  ASSUME TypeInv, NEW p \in Party
  PROVE  /\ WiresOK(sent[p]) /\ WiresOK(sent[Peer(p)])
         /\ session[p].ratchet \in Ratchet /\ ChainHasKey(session[p].ratchet)
         /\ stored[p].ratchet \in Ratchet /\ ChainHasKey(stored[p].ratchet)
BY PeerParty DEF TypeInv, TypeOK, WiresOK, Wire, RatchetOK

\* A wire that was not read, in hand, can be read.
LEMMA UnreadInStep ==
  ASSUME MailInv, orphans = {}, NEW p \in Party, NEW w \in sent[Peer(p)] \ session[p].opened
  PROVE  CanDecrypt(session[p].ratchet, w)
<1> DEFINE r == session[p].ratchet
<1>1. /\ WiresOK(sent[p]) /\ WiresOK(sent[Peer(p)]) /\ r \in Ratchet /\ Peer(p) \in Party
      /\ Peer(Peer(p)) = p
  BY MailTyped, PeerParty DEF MailInv, ReplayInv
<1>2. /\ Orderly(Peer(p), sent[Peer(p)], sent[p])
      /\ Leads(p, r, sent[p]) /\ Follows(p, r, session[p].opened, sent[Peer(p)])
  BY <1>1 DEF MailInv, MailInStep, InStep
<1>3. WasSetAside(r, w) \/ LiesAhead(r, w) \/ TurnsAhead(r, w)
  BY <1>1, <1>2, ReadableAt
<1>4. w.key \in Key /\ w.n \in Nat /\ w.pn \in Nat
  BY <1>1 DEF WiresOK
<1> QED
  BY <1>1, <1>3, <1>4, UnreadReadable

\* The new key of a DH turn was never on a wire and is not the one Bob begins with.
LEMMA FreshKey ==
  ASSUME NumberInv, NEW p \in Party
  PROVE  /\ <<p, keys[p]>> \in Key /\ <<p, keys[p]>> # <<Bob, 0>>
         /\ \A v \in sent[p] : v.key # <<p, keys[p]>>
<1>1. keys[p] \in Nat
  BY DEF NumberInv, TypeInv, TypeOK
<1>2. \A k : Minted(p, k) => k # <<p, keys[p]>>
  BY <1>1 DEF Minted
<1>3. keys[p] # 0
  BY <1>1 DEF NumberInv, Past, Minted
<1> QED
  BY <1>1, <1>2, <1>3 DEF NumberInv, Key

LEMMA SealMail ==
  ASSUME MailInv, orphans = {}, NEW p \in Party, Seal(p)  PROVE MailInStep'
<1> DEFINE q == Peer(p)
           r == session[p].ratchet
<1> PICK w : w = [from |-> p, key |-> Header(r).key, n |-> Header(r).n,
                  pn |-> Header(r).pn, chain |-> Header(r).chain,
                  id |-> Cardinality(sent[p])]
  OBVIOUS
<1>1. /\ session' = [session EXCEPT ![p].ratchet = AfterEncrypt(r)]
      /\ sent' = [sent EXCEPT ![p] = @ \cup {w}]
      /\ unsaved' = [unsaved EXCEPT ![p] = @ \cup {w}]
      /\ UNCHANGED <<stored, outcome>> /\ CanEncrypt(r)
  BY DEF Seal
<1>2. w.key = r.dhs /\ w.n = r.ns /\ w.pn = r.pn /\ w.chain = r.cks
  BY DEF Header
<1>3. /\ session \in [Party -> SessionState] /\ sent \in [Party -> SUBSET Wire]
      /\ unsaved \in [Party -> SUBSET Wire] /\ TypeInv
      /\ q \in Party /\ q # p /\ Peer(q) = p /\ \A t \in Party : t = p \/ t = q
  BY PeerParty DEF MailInv, ReplayInv, TypeInv, TypeOK, Party
<1>4. /\ session'[p].ratchet = AfterEncrypt(r) /\ session'[p].opened = session[p].opened
      /\ session'[q] = session[q] /\ stored' = stored /\ outcome' = outcome
      /\ sent'[p] = sent[p] \cup {w} /\ sent'[q] = sent[q]
      /\ unsaved'[p] # {} /\ unsaved'[q] = unsaved[q]
  BY <1>1, <1>3 DEF SessionState
<1>5. /\ WiresOK(sent[p]) /\ WiresOK(sent[q]) /\ r \in Ratchet
      /\ stored[q].ratchet \in Ratchet /\ session[q].ratchet \in Ratchet
  BY <1>3, MailTyped
<1>6. /\ outcome # "aborted"
      /\ Orderly(p, sent[p], sent[q]) /\ Orderly(q, sent[q], sent[p])
      /\ Leads(p, r, sent[p]) /\ Follows(p, r, session[p].opened, sent[q])
      /\ Leads(q, session[q].ratchet, sent[q])
      /\ Follows(q, session[q].ratchet, session[q].opened, sent[p])
      /\ unsaved[q] = {} => /\ Leads(q, stored[q].ratchet, sent[q])
                            /\ Follows(q, stored[q].ratchet, stored[q].opened, sent[p])
  BY <1>3 DEF MailInv, MailInStep, InStep
<1> HIDE DEF q, r
<1>7. Answers(w, sent[q])
  BY <1>1, <1>2, <1>5, <1>6, ChainAnswers DEF q
<1>8. Orderly(p, sent'[p], sent[q]) /\ Leads(p, AfterEncrypt(r), sent'[p])
  <2>1. CanEncrypt(r) /\ p \in Party
    BY <1>1
  <2>2. Orderly(p, sent[p] \cup {w}, sent[q]) /\ Leads(p, AfterEncrypt(r), sent[p] \cup {w})
    <3>1. WiresOK(sent[p]) /\ r \in Ratchet
      BY <1>5
    <3>2. Orderly(p, sent[p], sent[q]) /\ Leads(p, r, sent[p])
      BY <1>6
    <3> QED  BY <1>2, <1>7, <2>1, <3>1, <3>2, SealOrderly
  <2> QED  BY <1>4, <2>2
<1>9. Follows(p, AfterEncrypt(r), session[p].opened, sent[q])
  BY <1>5, <1>6, SealFollows
<1>10. Orderly(q, sent[q], sent'[p])
  <2>1. \A v \in sent[q] : Answers(v, sent'[p])
    BY <1>4, <1>6, AnswersMore DEF Orderly
  <2> QED  BY <1>6, <2>1 DEF Orderly
<1>11. r.cks = r.rk
  BY <1>1, <1>6 DEF Leads, CanEncrypt
<1>12. ASSUME NEW s, s.ratchet \in Ratchet, Follows(q, s.ratchet, s.opened, sent[p])
       PROVE  Follows(q, s.ratchet, s.opened, sent'[p])
  BY <1>2, <1>3, <1>4, <1>5, <1>6, <1>11, <1>12, NewWireAhead
<1>13. InStep(p, session[p])'
  BY <1>4, <1>8, <1>9 DEF InStep, q
<1>14. InStep(q, session[q])' /\ (unsaved'[q] = {} => InStep(q, stored[q])')
  BY <1>3, <1>4, <1>5, <1>6, <1>12 DEF InStep
<1>15. Orderly(p, sent[p], sent[Peer(p)])' /\ Orderly(q, sent[q], sent[Peer(q)])'
  BY <1>3, <1>4, <1>8, <1>10 DEF q
<1> QED
  BY <1>3, <1>4, <1>6, <1>13, <1>14, <1>15 DEF MailInStep

LEMMA OpenMail ==
  ASSUME MailInv, orphans = {}, NEW p \in Party, NEW w \in sent[Peer(p)], OpenAccepted(p, w)
  PROVE  MailInStep'
<1> DEFINE s     == session[p]
           fresh == <<p, keys[p]>>
           a     == AfterDecrypt(s.ratchet, w, fresh)
<1>1. /\ session' = [session EXCEPT ![p] =
           [ratchet |-> a, replay_cache |-> Remember(s, w), opened |-> s.opened \cup {w}]]
      /\ outcome' = "opened" /\ ~ReplaySeen(s, w)
      /\ UNCHANGED <<stored, sent, unsaved>>
  BY DEF OpenAccepted, ReachesRatchet
<1>2. session \in [Party -> SessionState] /\ TypeInv /\ Peer(p) \in Party
      /\ Peer(Peer(p)) = p
  BY PeerParty DEF MailInv, ReplayInv, TypeInv, TypeOK
<1>3. w \notin s.opened
  BY <1>1 DEF MailInv, ReplayInv, CacheTracks, ReplaySeen
<1>4. /\ session'[p].ratchet = a /\ session'[p].opened = s.opened \cup {w}
      /\ \A t \in Party : t # p => session'[t] = session[t]
  BY <1>1, <1>2
<1>5. /\ Orderly(p, sent[p], sent[Peer(p)]) /\ Orderly(Peer(p), sent[Peer(p)], sent[p])
      /\ Leads(p, s.ratchet, sent[p]) /\ Follows(p, s.ratchet, s.opened, sent[Peer(p)])
  BY <1>2 DEF MailInv, MailInStep, InStep
<1>6. Leads(p, a, sent[p]) /\ Follows(p, a, s.opened \cup {w}, sent[Peer(p)])
  BY <1>2, <1>3, <1>5, MailTyped, FreshKey, ReadInStep DEF MailInv
<1>7. InStep(p, session[p])'
  BY <1>1, <1>4, <1>6 DEF InStep
<1>8. \A t \in Party : /\ t # p => InStep(t, session[t])'
                       /\ unsaved'[t] = {} => InStep(t, stored[t])'
                       /\ Orderly(t, sent[t], sent[Peer(t)])'
  BY <1>1, <1>4 DEF MailInv, MailInStep, InStep
<1> QED
  BY <1>1, <1>7, <1>8 DEF MailInStep

LEMMA InStepNext == MailInv /\ [Next]_vars => MailInv'
<1> SUFFICES ASSUME MailInv, [Next]_vars, orphans' = {}  PROVE MailInStep'
  BY ReplayNext, NumberNext DEF MailInv
<1>1. orphans = {}
  BY DEF Next, Open, vars, Seal, OpenRefused, OpenAccepted, OpenAborts, SaveSession,
         Restart, ForgetSession
<1>2. /\ MailInStep
      /\ session \in [Party -> SessionState] /\ stored \in [Party -> SessionState]
      /\ unsaved \in [Party -> SUBSET Wire]
  BY <1>1 DEF MailInv, ReplayInv, TypeInv, TypeOK
<1>3. ASSUME NEW p \in Party, Restart(p)  PROVE MailInStep'
  <2>1. /\ session' = [session EXCEPT ![p] = stored[p]] /\ unsaved[p] = {}
        /\ unsaved' = [unsaved EXCEPT ![p] = {}]
        /\ UNCHANGED <<stored, sent, outcome>>
    BY <1>3 DEF Restart, ForgetSession
  <2> QED  BY <1>2, <2>1 DEF MailInStep, InStep
<1>4. ASSUME NEW p \in Party, NEW w \in sent[Peer(p)], OpenAborts(p, w)  PROVE FALSE
  <2>1. ~ReplaySeen(session[p], w) /\ ~CanDecrypt(session[p].ratchet, w)
    BY <1>4 DEF OpenAborts, ReachesRatchet
  <2>2. w \notin session[p].opened
    BY <2>1 DEF MailInv, ReplayInv, CacheTracks, ReplaySeen
  <2> QED  BY <1>1, <2>1, <2>2, UnreadInStep
<1>5. ASSUME NEW p \in Party, SaveSession(p)  PROVE MailInStep'
  <2>1. /\ stored' = [stored EXCEPT ![p] = session[p]]
        /\ unsaved' = [unsaved EXCEPT ![p] = {}]
        /\ UNCHANGED <<session, sent, outcome>>
    BY <1>5 DEF SaveSession
  <2> QED  BY <1>2, <2>1 DEF MailInStep, InStep
<1>6. ASSUME NEW p \in Party, NEW w \in sent[Peer(p)], OpenRefused(p, w)  PROVE MailInStep'
  <2>1. outcome' # "aborted" /\ UNCHANGED <<session, stored, sent, unsaved>>
    BY <1>6 DEF OpenRefused
  <2> QED  BY <1>2, <2>1 DEF MailInStep, InStep
<1>7. CASE UNCHANGED vars
  BY <1>2, <1>7 DEF vars, MailInStep, InStep
<1> QED
  BY <1>1, <1>3, <1>4, <1>5, <1>6, <1>7, SealMail, OpenMail DEF Next, Open

LEMMA InStepInvariance == Spec => []MailInv
BY InStepInit, InStepNext, PTL DEF Spec

\* No order of delivery, no duplicate and no crash of the reader takes from it an
\* envelope it has not read, for every length of conversation; as long as no
\* crash made a sender forget one (ratchet_decrypt, skip_message_keys).
THEOREM UnreadCanBeRead == Spec => []UnreadStaysReadable
<1>1. MailInv => UnreadStaysReadable
  BY UnreadInStep DEF UnreadStaysReadable
<1> QED
  BY <1>1, InStepInvariance, PTL

\* Opening what the peer sealed never takes the reader down (ensure_replay_not_seen
\* before ratchet_decrypt), under the same condition.
THEOREM HonestMailNeverAborts == Spec => []NoHonestAbort
<1>1. MailInv => NoHonestAbort
  BY DEF MailInv, MailInStep, NoHonestAbort
<1> QED
  BY <1>1, InStepInvariance, PTL

\* Every skipped key waits for an envelope that was sealed and not read, so there
\* are never more of them than mail on its way (header.pn, header.n).
THEOREM SkippedKeysHaveMail == Spec => []SkippedKeysWait
<1>1. MailInv => SkippedKeysWait
  <2> SUFFICES ASSUME MailInv, orphans = {}, NEW p \in Party,
                      NEW k \in session[p].ratchet.skipped
               PROVE  \E w \in sent[Peer(p)] \ session[p].opened :
                        k = [key |-> w.key, n |-> w.n, chain |-> w.chain]
    BY DEF SkippedKeysWait
  <2>1. Accounts(session[p].ratchet, session[p].opened, sent[Peer(p)])
    BY DEF MailInv, MailInStep, InStep, Follows
  <2> QED  BY <2>1 DEF Accounts, KeyOf
<1> QED
  BY <1>1, InStepInvariance, PTL

-----------------------------------------------------------------------------
(* The channel.                                                             *)

\* How a step of one session looks in the channel.
LEMMA ShownAfter ==
  ASSUME NEW p \in Party, NEW f \in [Party -> SessionState], NEW s
  PROVE  [q \in Party |-> Shown([f EXCEPT ![p] = s][q])]
           = [[q \in Party |-> Shown(f[q])] EXCEPT ![p] = Shown(s)]
OBVIOUS

\* Reading an envelope is one Read of the channel: it was not read before.
LEMMA OpenIsRead ==
  ASSUME ReplayInv, NEW p \in Party, NEW w \in sent[Peer(p)], OpenAccepted(p, w)
  PROVE  Ch!Read(p, w)
<1> DEFINE s   == session[p]
           new == [ratchet |-> AfterDecrypt(s.ratchet, w, <<p, keys[p]>>),
                   replay_cache |-> Remember(s, w), opened |-> s.opened \cup {w}]
<1>1. /\ session \in [Party -> SessionState] /\ s \in SessionState
      /\ w \in Wire /\ CacheTracks(s)
  BY PeerParty DEF ReplayInv, TypeInv, TypeOK
<1>2. ~SkippedBoundExceeded(s) /\ ~ReplaySeen(s, w) /\ UNCHANGED <<stored, sent>>
      /\ session' = [session EXCEPT ![p] = new]
  BY DEF OpenAccepted, ReachesRatchet
<1>3. w \notin s.opened
  BY <1>1, <1>2 DEF ReplaySeen, CacheTracks
<1>4. Remember(s, w) = Append(s.replay_cache, ReplayKey(w))
  BY <1>1, <1>2, BoundsAssumption DEF Remember, SkippedBoundExceeded, CacheTracks, SessionState
<1>5. ReplayKey(w) \in ReplayKeys /\ s.replay_cache \in Seq(ReplayKeys)
  BY <1>1 DEF ReplayKey, ReplayKeys, Wire, SessionState
<1>6. Len(Remember(s, w)) = Len(s.replay_cache) + 1
  BY <1>4, <1>5, EntriesAppend
<1>7. Shown(new) = [messages |-> s.opened \cup {w}, shown |-> Len(s.replay_cache) + 1]
  BY <1>6 DEF Shown
<1> HIDE DEF new
<1> DEFINE read == [q \in Party |-> Shown(session[q])]
<1>8. [q \in Party |-> Shown(session'[q])] = [read EXCEPT ![p] = Shown(new)]
  BY <1>1, <1>2, ShownAfter
<1>9. read[p] = [messages |-> s.opened, shown |-> Len(s.replay_cache)]
  BY DEF Shown
<1>10. read' = [read EXCEPT ![p] = [messages |-> read[p].messages \cup {w},
                                    shown |-> read[p].shown + 1]]
  <2>1. read[p].messages = s.opened /\ read[p].shown = Len(s.replay_cache)
    BY <1>9
  <2>2. Shown(new) = [messages |-> read[p].messages \cup {w}, shown |-> read[p].shown + 1]
    BY <1>7, <2>1
  <2>3. read' = [q \in Party |-> Shown(session'[q])]
    OBVIOUS
  <2> HIDE DEF read
  <2> QED  BY <1>8, <2>2, <2>3
<1>11. w \notin read[p].messages
  BY <1>3, <1>9
<1>12. UNCHANGED <<sent, [q \in Party |-> Shown(stored[q])]>>
  BY <1>2
<1> QED
  BY <1>10, <1>11, <1>12 DEF Ch!Read

LEMMA StepIsChannelStep == ReplayInv /\ [Next]_vars => [Ch!Next]_Ch!vars
<1> SUFFICES ASSUME ReplayInv, [Next]_vars PROVE [Ch!Next]_Ch!vars
  OBVIOUS
<1>t. /\ session \in [Party -> SessionState] /\ stored \in [Party -> SessionState]
      /\ sent \in [Party -> SUBSET Wire]
  BY DEF ReplayInv, TypeInv, TypeOK
<1>1. ASSUME NEW p \in Party, Seal(p) PROVE Ch!Next
  <2> PICK w : w = [from |-> p, key |-> Header(session[p].ratchet).key,
                    n |-> Header(session[p].ratchet).n,
                    pn |-> Header(session[p].ratchet).pn,
                    chain |-> Header(session[p].ratchet).chain,
                    id |-> Cardinality(sent[p])]
    OBVIOUS
  <2>1. /\ session' = [session EXCEPT ![p].ratchet = AfterEncrypt(session[p].ratchet)]
        /\ sent' = [sent EXCEPT ![p] = @ \cup {w}]
        /\ stored' = stored
    BY <1>1 DEF Seal
  <2>2. Cardinality(sent[p]) \in Nat /\ w.id = Cardinality(sent[p])
    BY FS_CardinalityType DEF ReplayInv, TypeInv
  <2>3. w \notin sent[p]
    BY <2>2 DEF ReplayInv
  <2>4. \A q \in Party : Shown(session'[q]) = Shown(session[q])
    BY <1>t, <2>1 DEF Shown, SessionState
  <2>5. Ch!Send(p)
    BY <1>t, <2>1, <2>3, <2>4 DEF Ch!Send
  <2> QED  BY <2>5 DEF Ch!Next
<1>2. ASSUME NEW p \in Party, NEW w \in sent[Peer(p)], OpenAccepted(p, w) PROVE Ch!Next
  BY <1>2, OpenIsRead DEF Ch!Next
<1>3. ASSUME NEW p \in Party, ForgetSession(p), UNCHANGED <<stored, sent>> PROVE Ch!Next
  <2>1. session' = [session EXCEPT ![p] = stored[p]]
    BY <1>3 DEF ForgetSession
  <2>2. Ch!Crash(p)
    BY <1>t, <1>3, <2>1, ShownAfter DEF Ch!Crash
  <2> QED  BY <2>2 DEF Ch!Next
<1>4. ASSUME NEW p \in Party, SaveSession(p) PROVE Ch!Next
  <2>1. stored' = [stored EXCEPT ![p] = session[p]] /\ UNCHANGED <<session, sent>>
    BY <1>4 DEF SaveSession
  <2>2. Ch!Save(p)
    BY <1>t, <2>1, ShownAfter DEF Ch!Save
  <2> QED  BY <2>2 DEF Ch!Next
<1>5. ASSUME UNCHANGED <<session, stored, sent>> PROVE UNCHANGED Ch!vars
  BY <1>5 DEF Ch!vars
<1> QED
  BY <1>1, <1>2, <1>3, <1>4, <1>5
  DEF Next, Open, OpenRefused, OpenAborts, Restart, vars

\* The conversation implements the channel, for every bound and every schedule
\* of deliveries, saves and crashes: an envelope is shown at most once between
\* two saves (ensure_replay_not_seen, save_session, session).
THEOREM SessionIsChannel == Spec => ImplementsChannel
<1>1. Init => Ch!Init
  <2> SUFFICES ASSUME Init PROVE Ch!Init  OBVIOUS
  <2>1. \A p \in Party : Shown(NewSession(p)) = Ch!Nothing
    BY DEF Shown, NewSession, Ch!Nothing
  <2> QED  BY <2>1 DEF Init, Ch!Init
<1> QED
  BY <1>1, ReplayInit, ReplayNext, StepIsChannelStep, PTL
  DEF Spec, ImplementsChannel, Ch!Spec

-----------------------------------------------------------------------------
(* The conversation carried by mail.  The wires that count are those a party  *)
(* has not forgotten, and those of them that its saved session has sealed:    *)
(* only these are ever in a folder.                                          *)

Live(p) == sent[p] \ orphans
Saved(p) == sent[p] \ (unsaved[p] \cup orphans)

\* Wires are told apart by their sender.
OwnWires ==
  /\ \A p \in Party : unsaved[p] \subseteq sent[p] /\ \A w \in sent[p] : w.from = p
  /\ \A w \in orphans : \E p \in Party : w \in sent[p]

BaseInv == ReplayInv /\ NumberInv /\ OwnWires

\* A wire is sealed: it is new, not forgotten, and not saved.
LEMMA SealSets ==
  ASSUME BaseInv, NEW p \in Party, Seal(p)
  PROVE  LET r == session[p].ratchet
         IN  \E w \in Wire :
               /\ w.from = p /\ w.key = r.dhs /\ w.n = r.ns /\ w.pn = r.pn /\ w.chain = r.cks
               /\ w \notin sent[p] /\ w \notin orphans
               /\ sent' = [sent EXCEPT ![p] = @ \cup {w}]
               /\ unsaved' = [unsaved EXCEPT ![p] = @ \cup {w}]
               /\ Live(p)' = Live(p) \cup {w}
               /\ \A t \in Party : /\ Saved(t)' = Saved(t)
                                   /\ t # p => Live(t)' = Live(t)
<1> DEFINE r == session[p].ratchet
<1> PICK w : w = [from |-> p, key |-> Header(r).key, n |-> Header(r).n,
                  pn |-> Header(r).pn, chain |-> Header(r).chain,
                  id |-> Cardinality(sent[p])]
  OBVIOUS
<1>1. /\ sent' = [sent EXCEPT ![p] = @ \cup {w}]
      /\ unsaved' = [unsaved EXCEPT ![p] = @ \cup {w}]
      /\ orphans' = orphans
  BY DEF Seal
<1>2. /\ w.from = p /\ w.key = r.dhs /\ w.n = r.ns /\ w.pn = r.pn /\ w.chain = r.cks
      /\ w.id = Cardinality(sent[p])
  BY DEF Header
<1>t. /\ sent \in [Party -> SUBSET Wire] /\ unsaved \in [Party -> SUBSET Wire]
      /\ sent' \in [Party -> SUBSET Wire]
      /\ IsFiniteSet(sent[p])
  <2>1. TypeInv /\ [Next]_vars
    BY DEF BaseInv, ReplayInv, Next
  <2> QED  BY <2>1, TypeNext DEF TypeInv, TypeOK
<1>3. Cardinality(sent[p]) \in Nat
  BY <1>t, FS_CardinalityType
<1>4. w \notin sent[p]
  BY <1>2, <1>3 DEF BaseInv, ReplayInv
<1>5. w \notin orphans
  BY <1>2, <1>4 DEF BaseInv, OwnWires
<1>6. w \in Wire
  BY <1>1, <1>t
<1>7. /\ sent'[p] = sent[p] \cup {w} /\ unsaved'[p] = unsaved[p] \cup {w}
      /\ \A t \in Party : t # p => sent'[t] = sent[t] /\ unsaved'[t] = unsaved[t]
  BY <1>1, <1>t
<1>8. /\ Live(p)' = Live(p) \cup {w}
      /\ \A t \in Party : Saved(t)' = Saved(t) /\ (t # p => Live(t)' = Live(t))
  BY <1>1, <1>4, <1>5, <1>7 DEF Live, Saved
<1> QED  BY <1>1, <1>2, <1>4, <1>5, <1>6, <1>8

\* A session is saved: what it sealed and did not forget is saved.
LEMMA SaveSets ==
  ASSUME BaseInv, NEW p \in Party, SaveSession(p)
  PROVE  /\ Saved(p)' = Live(p)
         /\ \A t \in Party : /\ Live(t)' = Live(t)
                             /\ t # p => Saved(t)' = Saved(t)
<1>1. unsaved \in [Party -> SUBSET Wire]
  BY DEF BaseInv, ReplayInv, TypeInv, TypeOK
<1> QED  BY <1>1 DEF SaveSession, Live, Saved

\* A session is forgotten: what it had sealed since the save counts no more.
LEMMA ForgetSets ==
  ASSUME BaseInv, NEW p \in Party, ForgetSession(p), UNCHANGED sent
  PROVE  /\ Live(p)' = Saved(p)
         /\ \A t \in Party : /\ Saved(t)' = Saved(t)
                             /\ t # p => Live(t)' = Live(t)
<1>1. unsaved \in [Party -> SUBSET Wire]
  BY DEF BaseInv, ReplayInv, TypeInv, TypeOK
<1>2. \A t \in Party : t # p => \A w \in sent[t] : w \notin unsaved[p]
  BY DEF BaseInv, OwnWires
<1> QED  BY <1>1, <1>2 DEF ForgetSession, Live, Saved

LEMMA BaseNext == BaseInv /\ [Next]_vars => BaseInv'
<1> SUFFICES ASSUME BaseInv, [Next]_vars  PROVE OwnWires'
  BY ReplayNext, NumberNext DEF BaseInv
<1>t. sent \in [Party -> SUBSET Wire] /\ unsaved \in [Party -> SUBSET Wire] /\ OwnWires
  BY DEF BaseInv, ReplayInv, TypeInv, TypeOK
<1>1. ASSUME NEW p \in Party, Seal(p)  PROVE OwnWires'
  <2>1. PICK w : /\ w.from = p /\ sent' = [sent EXCEPT ![p] = @ \cup {w}]
                 /\ unsaved' = [unsaved EXCEPT ![p] = @ \cup {w}]
    BY <1>1, SealSets
  <2>2. orphans' = orphans
    BY <1>1 DEF Seal
  <2> QED  BY <1>t, <2>1, <2>2 DEF OwnWires
<1>2. ASSUME NEW p \in Party, ForgetSession(p), UNCHANGED sent  PROVE OwnWires'
  BY <1>t, <1>2 DEF OwnWires, ForgetSession
<1>3. ASSUME NEW p \in Party, SaveSession(p)  PROVE OwnWires'
  BY <1>t, <1>3 DEF OwnWires, SaveSession
<1>4. ASSUME UNCHANGED <<sent, unsaved, orphans>>  PROVE OwnWires'
  BY <1>t, <1>4 DEF OwnWires
<1> QED
  BY <1>1, <1>2, <1>3, <1>4
  DEF Next, Open, OpenRefused, OpenAccepted, OpenAborts, Restart, vars

LEMMA BaseInit == Init => BaseInv
BY ReplayInit, NumberInit DEF BaseInv, OwnWires, Init

\* A saved wire stays saved.
LEMMA SavedStays ==
  ASSUME BaseInv, [Next]_vars, NEW p \in Party  PROVE Saved(p) \subseteq Saved(p)'
<1>1. ASSUME NEW t \in Party, SaveSession(t)  PROVE Saved(p) \subseteq Saved(p)'
  BY <1>1, SaveSets DEF Saved, Live
<1>2. ASSUME NEW t \in Party, ForgetSession(t), UNCHANGED sent
      PROVE  Saved(p) \subseteq Saved(p)'
  BY <1>2, ForgetSets
<1>3. ASSUME UNCHANGED <<sent, unsaved, orphans>>  PROVE Saved(p) \subseteq Saved(p)'
  BY <1>3 DEF Saved
<1> QED
  BY <1>1, <1>2, <1>3, SealSets
  DEF Next, Open, OpenRefused, OpenAccepted, OpenAborts, Restart, vars

\* The folders hold saved wires, and nothing where something else carries them.
FolderInv ==
  /\ MailTypeOK
  /\ cursor \in [Party -> Nat] /\ highest \in [Party -> Nat] /\ out \in [Party -> SUBSET Nat]
  /\ \A p \in Party : \A i \in 1 .. Len(inbox[p]) : inbox[p][i] \in Saved(Peer(p))
  /\ carrier \in {"mail", "anything"}
  /\ carrier = "anything" => \A p \in Party : inbox[p] = << >>

LEMMA FolderInit == MailInit => FolderInv
BY DEF MailInit, FolderInv, MailTypeOK

\* Every step of the mail and of its loop is one of the conversation, or none.
LEMMA MailStepIsStep == FolderInv /\ [MailNext]_allVars => [Next]_vars
<1> SUFFICES ASSUME FolderInv, [MailNext]_allVars  PROVE [Next]_vars
  OBVIOUS
<1>1. ASSUME NEW p \in Party, NEW i \in out[p], OpenOne(p, i)  PROVE Next
  <2>1. i \in 1 .. Len(inbox[p])
    BY DEF FolderInv, MailTypeOK
  <2>2. inbox[p][i] \in sent[Peer(p)]
    BY <2>1 DEF FolderInv, Saved
  <2> QED  BY <1>1, <2>2 DEF OpenOne, Next
<1>2. ASSUME NEW p \in Party, Poll(p)  PROVE [Next]_vars
  BY <1>1, <1>2 DEF Poll, Fetch, SaveCursor, Next
<1>3. CASE MailStep
  BY <1>2, <1>3 DEF MailStep, Deliver, Next
<1>4. CASE UNCHANGED allVars
  BY <1>4 DEF allVars
<1> QED  BY <1>3, <1>4 DEF MailNext

LEMMA FolderNext == BaseInv /\ FolderInv /\ [MailNext]_allVars => FolderInv'
<1> SUFFICES ASSUME BaseInv, FolderInv, [MailNext]_allVars  PROVE FolderInv'
  OBVIOUS
<1> USE PeerParty
<1>t. /\ inbox \in [Party -> Seq(Wire)] /\ cursor \in [Party -> Nat]
      /\ highest \in [Party -> Nat] /\ out \in [Party -> SUBSET Nat]
      /\ \A p \in Party : /\ Len(inbox[p]) \in Nat
                          /\ cursor[p] \in 0 .. Len(inbox[p])
                          /\ highest[p] \in 0 .. Len(inbox[p])
                          /\ out[p] \subseteq 1 .. highest[p]
  BY DEF FolderInv, MailTypeOK
<1>k. /\ \A p \in Party : Saved(p) \subseteq Saved(p)'
      /\ carrier' = carrier
  <2>1. [Next]_vars
    BY MailStepIsStep
  <2> QED  BY <2>1, SavedStays DEF MailNext, allVars
<1>1. ASSUME NEW p \in Party, NEW w \in sent[p], Deliver(p, w), carrier = "mail"
      PROVE  FolderInv'
  <2> DEFINE q == Peer(p)
  <2>1. /\ w \in Saved(p) /\ inbox' = [inbox EXCEPT ![q] = Append(@, w)]
        /\ cursor' = cursor /\ highest' = highest /\ out' = out
    BY <1>1 DEF Deliver, MayLeave, Saved
  <2>2. w \in Wire
    BY DEF BaseInv, ReplayInv, TypeInv, TypeOK
  <2>3. /\ inbox' \in [Party -> Seq(Wire)] /\ Len(inbox'[q]) = Len(inbox[q]) + 1
        /\ \A i \in 1 .. Len(inbox[q]) : inbox'[q][i] = inbox[q][i]
        /\ inbox'[q][Len(inbox[q]) + 1] = w
        /\ \A t \in Party : t # q => inbox'[t] = inbox[t]
    BY <1>t, <2>1, <2>2
  <2> HIDE DEF q
  <2>4. MailTypeOK'
    <3>1. \A t \in Party : Len(inbox'[t]) \in {Len(inbox[t]), Len(inbox[t]) + 1}
      BY <2>3
    <3>2. \A t \in Party : /\ cursor'[t] \in 0 .. Len(inbox'[t])
                           /\ highest'[t] \in 0 .. Len(inbox'[t])
      BY <1>t, <2>1, <3>1
    <3> QED  BY <1>t, <2>1, <2>3, <3>2 DEF MailTypeOK
  <2>5. ASSUME NEW t \in Party, NEW i \in 1 .. Len(inbox'[t])
        PROVE  inbox'[t][i] \in Saved(Peer(t))'
    <3>1. CASE t = q
      <4>1. i = Len(inbox[q]) + 1 \/ i \in 1 .. Len(inbox[q])
        BY <1>t, <2>3, <2>5, <3>1 DEF q
      <4>2. Peer(q) = p
        BY DEF q
      <4> QED  BY <1>k, <2>1, <2>3, <3>1, <4>1, <4>2 DEF FolderInv
    <3>2. CASE t # q
      BY <1>k, <2>3, <3>2 DEF FolderInv
    <3> QED  BY <3>1, <3>2
  <2> QED  BY <1>t, <1>k, <1>1, <2>1, <2>4, <2>5 DEF FolderInv
<1>2. ASSUME inbox' = inbox,
             cursor' \in [Party -> Nat], highest' \in [Party -> Nat],
             out' \in [Party -> SUBSET Nat],
             \A t \in Party : /\ cursor'[t] \in 0 .. Len(inbox[t])
                              /\ highest'[t] \in 0 .. Len(inbox[t])
                              /\ out'[t] \subseteq 1 .. highest'[t]
      PROVE  FolderInv'
  BY <1>t, <1>k, <1>2 DEF FolderInv, MailTypeOK
<1>3. ASSUME NEW p \in Party, Fetch(p)  PROVE FolderInv'
  <2>1. /\ inbox' = inbox /\ cursor' = cursor /\ Len(inbox[p]) >= 1
        /\ out' = [out EXCEPT ![p] = Found(p)]
        /\ highest' = [highest EXCEPT ![p] = Len(inbox[p])]
    BY <1>t, <1>3 DEF Fetch
  <2>2. Found(p) \subseteq 1 .. Len(inbox[p])
    BY <1>t, <2>1 DEF Found
  <2> QED  BY <1>t, <1>2, <2>1, <2>2
<1>4. ASSUME NEW p \in Party, Dropped(p), UNCHANGED <<inbox, cursor>>  PROVE FolderInv'
  BY <1>t, <1>2, <1>4 DEF Dropped
<1>5. ASSUME NEW p \in Party, NEW i \in out[p], OpenOne(p, i)  PROVE FolderInv'
  <2>1. CASE outcome' = "aborted"
    BY <1>4, <1>5, <2>1 DEF OpenOne
  <2>2. CASE outcome' # "aborted"
    BY <1>t, <1>2, <1>5, <2>2 DEF OpenOne
  <2> QED  BY <2>1, <2>2
<1>6. ASSUME NEW p \in Party, SaveCursor(p)  PROVE FolderInv'
  BY <1>t, <1>2, <1>6 DEF SaveCursor
<1>7. CASE UNCHANGED mailVars
  BY <1>t, <1>2, <1>7 DEF mailVars
<1>8. CASE MailStep /\ carrier = "mail"
  BY <1>1, <1>3, <1>4, <1>5, <1>6, <1>7, <1>8 DEF MailStep, Poll
<1> QED  BY <1>7, <1>8 DEF MailNext, allVars, mailVars

LEMMA FolderInvariance == MailSpec => [](BaseInv /\ FolderInv)
<1>1. MailInit => BaseInv /\ FolderInv
  BY BaseInit, FolderInit DEF MailInit
<1>2. BaseInv /\ FolderInv /\ [MailNext]_allVars => (BaseInv /\ FolderInv)'
  BY MailStepIsStep, BaseNext, FolderNext
<1> QED  BY <1>1, <1>2, PTL DEF MailSpec

\* The loop opens nothing that was not sealed and loses nothing of a session in
\* other ways than a crash does: whatever is proved of a conversation holds of
\* one carried by mail (open_message, save_session).
THEOREM MailIsConversation == MailSpec => Spec
<1>1. MailInit => Init
  BY DEF MailInit
<1> QED  BY <1>1, FolderInvariance, MailStepIsStep, PTL DEF MailSpec, Spec

\* Cursor and loop know no UID that the folder does not have, for every number
\* of messages, parties' crashes and saves (fetch_since_uid, save_cursor).
THEOREM MailTypeCorrect == MailSpec => []MailTypeOK
<1>1. FolderInv => MailTypeOK
  BY DEF FolderInv
<1> QED  BY <1>1, FolderInvariance, PTL

\* What the cursor has passed is read, on disk and in memory; so is what the loop
\* has had of the fetch under way.
CursorInv ==
  \A p \in Party :
    /\ \A i \in 1 .. cursor[p] : /\ ReadOrStopped(stored[p], inbox[p][i])
                                 /\ ReadOrStopped(session[p], inbox[p][i])
    /\ \A i \in 1 .. highest[p] : i \in out[p] \/ ReadOrStopped(session[p], inbox[p][i])

\* Opening leaves an envelope read, or the session one that reads nothing; and
\* what was so stays so.
LEMMA OpenReads ==
  ASSUME BaseInv, NEW p \in Party, NEW w \in sent[Peer(p)],
         OpenRefused(p, w) \/ OpenAccepted(p, w)
  PROVE  /\ ReadOrStopped(session'[p], w)
         /\ \A v : ReadOrStopped(session[p], v) => ReadOrStopped(session'[p], v)
         /\ stored' = stored
         /\ \A t \in Party : t # p => session'[t] = session[t]
<1>t. /\ session \in [Party -> SessionState] /\ Peer(p) \in Party
      /\ Len(session[p].replay_cache) \in Nat /\ w \in Wire
  BY PeerParty DEF BaseInv, ReplayInv, TypeInv, TypeOK, SessionState
<1>1. CASE OpenRefused(p, w)
  <2>1. session' = session /\ stored' = stored
    BY <1>1 DEF OpenRefused
  <2>2. ReplaySeen(session[p], w) => w \in session[p].opened
    <3>1. /\ Entries(session[p].replay_cache) = {ReplayKey(v) : v \in session[p].opened}
          /\ session[p].opened \subseteq sent[Peer(p)]
          /\ \A u, v \in sent[Peer(p)] : u.id = v.id => u = v
      BY <1>t DEF BaseInv, ReplayInv, CacheTracks
    <3> QED  BY <3>1 DEF ReplaySeen, ReplayKey
  <2> QED  BY <1>1, <2>1, <2>2 DEF OpenRefused, SkippedBoundExceeded, ReadOrStopped
<1>2. CASE OpenAccepted(p, w)
  <2> DEFINE s   == session[p]
             new == [ratchet |-> AfterDecrypt(s.ratchet, w, <<p, keys[p]>>),
                     replay_cache |-> Remember(s, w), opened |-> s.opened \cup {w}]
  <2>1. session' = [session EXCEPT ![p] = new] /\ stored' = stored
        /\ ~SkippedBoundExceeded(s)
    BY <1>2 DEF OpenAccepted, ReachesRatchet
  <2>2. new.opened = s.opened \cup {w}
    OBVIOUS
  <2> HIDE DEF new
  <2>3. session'[p].opened = session[p].opened \cup {w}
        /\ \A t \in Party : t # p => session'[t] = session[t]
    BY <1>t, <2>1, <2>2
  <2>4. ~(Len(session[p].replay_cache) > MaxSkipped)
    BY <2>1 DEF SkippedBoundExceeded
  <2> QED  BY <2>1, <2>3, <2>4 DEF ReadOrStopped
<1> QED  BY <1>1, <1>2

LEMMA CursorNext ==
  BaseInv /\ FolderInv /\ FolderInv' /\ CursorInv /\ [MailNext]_allVars => CursorInv'
<1> SUFFICES ASSUME BaseInv, FolderInv, FolderInv', CursorInv, [MailNext]_allVars
             PROVE  CursorInv'
  OBVIOUS
<1> USE PeerParty
<1>t. /\ inbox \in [Party -> Seq(Wire)] /\ cursor \in [Party -> Nat]
      /\ highest \in [Party -> Nat] /\ out \in [Party -> SUBSET Nat]
      /\ session \in [Party -> SessionState] /\ stored \in [Party -> SessionState]
      /\ \A p \in Party : /\ Len(inbox[p]) \in Nat
                          /\ cursor[p] \in 0 .. Len(inbox[p])
                          /\ highest[p] \in 0 .. Len(inbox[p])
                          /\ out[p] \subseteq 1 .. highest[p]
  BY DEF FolderInv, MailTypeOK, BaseInv, ReplayInv, TypeInv, TypeOK
<1>1. ASSUME NEW p \in Party, NEW w \in sent[p], Deliver(p, w)  PROVE CursorInv'
  <2> DEFINE q == Peer(p)
  <2>1. /\ inbox' = [inbox EXCEPT ![q] = Append(@, w)]
        /\ UNCHANGED <<cursor, highest, out, session, stored>>
    BY <1>1 DEF Deliver, vars
  <2>2. w \in Wire
    BY DEF BaseInv, ReplayInv, TypeInv, TypeOK
  <2>3. \A t \in Party : \A i \in 1 .. Len(inbox[t]) : inbox'[t][i] = inbox[t][i]
    BY <1>t, <2>1, <2>2
  <2>4. \A t \in Party : /\ 1 .. cursor[t] \subseteq 1 .. Len(inbox[t])
                         /\ 1 .. highest[t] \subseteq 1 .. Len(inbox[t])
    BY <1>t
  <2> QED  BY <2>1, <2>3, <2>4 DEF CursorInv
<1>2. ASSUME NEW p \in Party, Fetch(p)  PROVE CursorInv'
  <2>1. /\ UNCHANGED <<inbox, cursor, session, stored>>
        /\ out' = [out EXCEPT ![p] = Found(p)]
        /\ highest' = [highest EXCEPT ![p] = Len(inbox[p])]
    BY <1>2 DEF Fetch, vars
  <2>2. \A i \in 1 .. Len(inbox[p]) : i \in Found(p) \/ i \in 1 .. cursor[p]
    <3>1. CASE cursor[p] < Len(inbox[p])
      BY <1>t, <3>1 DEF Found
    <3>2. CASE ~(cursor[p] < Len(inbox[p]))
      BY <1>t, <3>2
    <3> QED  BY <3>1, <3>2
  <2> QED  BY <1>t, <2>1, <2>2 DEF CursorInv
<1>3. ASSUME NEW p \in Party, ForgetSession(p), Dropped(p), UNCHANGED <<inbox, cursor, stored>>
      PROVE  CursorInv'
  <2>1. /\ session' = [session EXCEPT ![p] = stored[p]]
        /\ out' = [out EXCEPT ![p] = {}] /\ highest' = [highest EXCEPT ![p] = 0]
    BY <1>3 DEF ForgetSession, Dropped
  <2> QED  BY <1>t, <1>3, <2>1 DEF CursorInv
<1>4. ASSUME NEW p \in Party, NEW i \in out[p], OpenOne(p, i)  PROVE CursorInv'
  <2> DEFINE w == inbox[p][i]
  <2>1. w \in sent[Peer(p)]
    <3>1. i \in 1 .. Len(inbox[p])
      BY <1>t
    <3> QED  BY <3>1 DEF FolderInv, Saved
  <2>2. CASE OpenAborts(p, w)
    BY <1>3, <1>4, <2>2 DEF OpenOne, OpenAborts
  <2>3. CASE OpenRefused(p, w) \/ OpenAccepted(p, w)
    <3>1. /\ out' = [out EXCEPT ![p] = @ \ {i}] /\ UNCHANGED <<inbox, cursor, highest>>
      BY <1>4, <2>3 DEF OpenOne, OpenRefused, OpenAccepted
    <3>2. /\ ReadOrStopped(session'[p], w)
          /\ \A v : ReadOrStopped(session[p], v) => ReadOrStopped(session'[p], v)
          /\ stored' = stored
          /\ \A t \in Party : t # p => session'[t] = session[t]
      BY <2>1, <2>3, OpenReads
    <3> QED  BY <1>t, <3>1, <3>2 DEF CursorInv
  <2> QED  BY <1>4, <2>2, <2>3 DEF OpenOne, Open
<1>5. ASSUME NEW p \in Party, SaveSession(p), UNCHANGED mailVars  PROVE CursorInv'
  BY <1>t, <1>5 DEF SaveSession, mailVars, CursorInv
<1>6. ASSUME NEW p \in Party, SaveCursor(p)  PROVE CursorInv'
  <2>1. /\ out[p] = {} /\ stored[p] = session[p]
        /\ cursor' = [cursor EXCEPT ![p] = highest[p]]
        /\ highest' = [highest EXCEPT ![p] = 0]
        /\ UNCHANGED <<inbox, out, session, stored>>
    BY <1>6 DEF SaveCursor, vars
  <2>2. \A i \in 1 .. highest[p] : ReadOrStopped(session[p], inbox[p][i])
    BY <2>1 DEF CursorInv
  <2>3. 1 .. 0 = {}
    OBVIOUS
  <2> QED  BY <1>t, <2>1, <2>2, <2>3 DEF CursorInv
<1>7. ASSUME NEW p \in Party, Seal(p), UNCHANGED mailVars  PROVE CursorInv'
  <2>1. stored' = stored /\ session' = [session EXCEPT ![p].ratchet = AfterEncrypt(session[p].ratchet)]
    BY <1>7 DEF Seal
  <2>2. \A t \in Party : /\ session'[t].opened = session[t].opened
                         /\ session'[t].replay_cache = session[t].replay_cache
    BY <1>t, <2>1 DEF SessionState
  <2> QED  BY <1>7, <2>1, <2>2 DEF CursorInv, ReadOrStopped, mailVars
<1>8. CASE carrier = "anything"
  <2>1. \A t \in Party : inbox'[t] = << >>
    BY <1>8 DEF FolderInv, MailNext, allVars
  <2>2. \A t \in Party : cursor'[t] = 0 /\ highest'[t] = 0
    BY <2>1 DEF FolderInv, MailTypeOK
  <2> QED  BY <2>2 DEF CursorInv
<1>9. CASE MailStep
  BY <1>1, <1>2, <1>3, <1>4, <1>5, <1>6, <1>7, <1>9
  DEF MailStep, Poll, Restart
<1>10. CASE UNCHANGED allVars
  BY <1>10 DEF allVars, mailVars, vars, CursorInv
<1> QED  BY <1>8, <1>9, <1>10 DEF MailNext

\* Nothing behind the cursor is forgotten in a crash, for every length of
\* conversation and any crashes and saves in between (save_cursor after
\* save_session; fetch_since_uid never returns it again).
THEOREM NothingBehindCursor == MailSpec => []CursorPassesOnlyRead
<1>1. MailInit => CursorInv
  BY DEF MailInit, CursorInv
<1>2. CursorInv => CursorPassesOnlyRead
  BY DEF CursorInv, CursorPassesOnlyRead
<1> QED  BY <1>1, <1>2, CursorNext, FolderInvariance, PTL DEF MailSpec

-----------------------------------------------------------------------------
(* What can still be read by mail, crashes of the senders included.  Each     *)
(* session in memory leads the wires it has not forgotten, each one on disk   *)
(* those that were saved, and both follow the peer's saved wires: no other is  *)
(* ever in the mail.                                                         *)

\* A wire comes after another of its sender.
After(u, v) ==
  Len(v.chain) < Len(u.chain) \/ (Len(v.chain) = Len(u.chain) /\ v.n < u.n)

SyncInv ==
  \A p \in Party :
    /\ Orderly(p, Live(p), Saved(Peer(p)))
    /\ Orderly(p, Saved(p), Saved(Peer(p)))
    /\ Leads(p, session[p].ratchet, Live(p))
    /\ Leads(p, stored[p].ratchet, Saved(p))
    /\ Follows(p, session[p].ratchet, session[p].opened, Saved(Peer(p)))
    /\ Follows(p, stored[p].ratchet, stored[p].opened, Saved(Peer(p)))
    /\ \A u \in Live(p) \ Saved(p) : \A v \in Saved(p) : After(u, v)

LEMMA SyncTyped ==
  ASSUME BaseInv, NEW p \in Party
  PROVE  /\ Peer(p) \in Party /\ Peer(Peer(p)) = p /\ Peer(p) # p
         /\ WiresOK(Live(p)) /\ WiresOK(Saved(p)) /\ Saved(p) \subseteq Live(p)
         /\ WiresOK(Live(Peer(p))) /\ WiresOK(Saved(Peer(p)))
         /\ Saved(Peer(p)) \subseteq Live(Peer(p))
         /\ session[p].ratchet \in Ratchet /\ ChainHasKey(session[p].ratchet)
         /\ stored[p].ratchet \in Ratchet /\ ChainHasKey(stored[p].ratchet)
         /\ session \in [Party -> SessionState] /\ stored \in [Party -> SessionState]
         /\ \A t \in Party : t = p \/ t = Peer(p)
<1>1. TypeInv /\ PartyAssumption
  BY PartyAssumption DEF BaseInv, ReplayInv
<1>2. \A t \in Party : WiresOK(sent[t])
  BY <1>1, MailTyped
<1> QED  BY <1>1, <1>2, PeerParty, MailTyped DEF WiresOK, Live, Saved, TypeInv, TypeOK, Party, Peer

\* Orderly asks of the peer's wires only that there be enough of them.
LEMMA OrderlyMore ==
  ASSUME NEW p, NEW ws, NEW vs, NEW us, vs \subseteq us, Orderly(p, ws, vs)
  PROVE  Orderly(p, ws, us)
BY AnswersMore DEF Orderly

\* Wires that come after all a ratchet may have read lie ahead of it.
LEMMA LaterWiresAhead ==
  ASSUME NEW p \in Party, NEW r \in Ratchet, NEW vs, NEW us, NEW read,
         WiresOK(us), vs \subseteq us, Follows(p, r, read, vs),
         \A u \in us \ vs : Len(u.chain) >= 2 /\ \A v \in vs : After(u, v)
  PROVE  Follows(p, r, read, us)
<1>1. ASSUME NEW u \in us \ vs  PROVE ~Passed(r, u)
  <2>1. Len(u.chain) \in Nat /\ u.n \in Nat /\ Len(r.ckr) \in Nat /\ r.nr \in Nat
    BY DEF WiresOK, Chain, Ratchet
  <2>2. CASE r.ckr = NoChain
    <3>1. Len(r.ckr) = 0 /\ Len(u.chain) >= 2
      BY <2>2 DEF NoChain
    <3> QED  BY <2>1, <3>1 DEF Passed
  <2>3. CASE r.ckr # NoChain
    <3>1. PICK v \in vs : v.chain = r.ckr /\ v.n + 1 = r.nr
      BY <2>3 DEF Follows
    <3>2. After(u, v) /\ v.n \in Nat
      BY DEF WiresOK
    <3> QED  BY <2>1, <3>1, <3>2 DEF Passed, After
  <2> QED  BY <2>2, <2>3
<1>2. read \subseteq vs /\ read \subseteq us
  BY DEF Follows
<1>3. {v \in us \ read : Passed(r, v)} = {v \in vs \ read : Passed(r, v)}
  BY <1>1
<1>4. Accounts(r, read, us)
  BY <1>3 DEF Follows, Accounts
<1> QED  BY <1>2, <1>4 DEF Follows

\* What has arrived and was not read can be read.
LEMMA SavedReadable ==
  ASSUME BaseInv, SyncInv, NEW p \in Party, NEW w \in Saved(Peer(p)),
         w \notin session[p].opened
  PROVE  CanDecrypt(session[p].ratchet, w)
<1> DEFINE r == session[p].ratchet
<1>1. /\ WiresOK(Live(p)) /\ WiresOK(Saved(Peer(p))) /\ r \in Ratchet
      /\ Leads(p, r, Live(p)) /\ Follows(p, r, session[p].opened, Saved(Peer(p)))
  BY SyncTyped DEF SyncInv
<1>2. Orderly(Peer(p), Saved(Peer(p)), Live(p))
  <2>1. Orderly(Peer(p), Saved(Peer(p)), Saved(p)) /\ Saved(p) \subseteq Live(p)
    BY SyncTyped DEF SyncInv
  <2> QED  BY <2>1, OrderlyMore
<1>3. WasSetAside(r, w) \/ LiesAhead(r, w) \/ TurnsAhead(r, w)
  BY <1>1, <1>2, ReadableAt
<1>4. w.key \in Key /\ w.n \in Nat /\ w.pn \in Nat
  BY <1>1 DEF WiresOK
<1> QED  BY <1>1, <1>3, <1>4, UnreadReadable

LEMMA SyncSeal ==
  ASSUME BaseInv, SyncInv, NEW p \in Party, Seal(p)  PROVE SyncInv'
<1> DEFINE q == Peer(p)
           r == session[p].ratchet
<1> PICK w \in Wire :
      /\ w.key = r.dhs /\ w.n = r.ns /\ w.pn = r.pn /\ w.chain = r.cks
      /\ w \notin sent[p]
      /\ Live(p)' = Live(p) \cup {w}
      /\ \A t \in Party : Saved(t)' = Saved(t) /\ (t # p => Live(t)' = Live(t))
  BY SealSets
<1>1. /\ session' = [session EXCEPT ![p].ratchet = AfterEncrypt(r)] /\ stored' = stored
      /\ CanEncrypt(r)
  BY DEF Seal
<1>2. /\ q \in Party /\ q # p /\ Peer(q) = p /\ \A t \in Party : t = p \/ t = q
      /\ WiresOK(Live(p)) /\ WiresOK(Saved(q)) /\ Saved(p) \subseteq Live(p) /\ r \in Ratchet
      /\ session \in [Party -> SessionState]
  BY SyncTyped
<1>3. /\ session'[p].ratchet = AfterEncrypt(r) /\ session'[p].opened = session[p].opened
      /\ session'[q] = session[q]
  BY <1>1, <1>2 DEF SessionState
<1>4. /\ Orderly(p, Live(p), Saved(q)) /\ Orderly(q, Saved(q), Live(p))
      /\ Leads(p, r, Live(p)) /\ Follows(p, r, session[p].opened, Saved(q))
      /\ \A u \in Live(p) \ Saved(p) : \A v \in Saved(p) : After(u, v)
  BY <1>2, OrderlyMore DEF SyncInv
<1> HIDE DEF q, r
<1>5. Answers(w, Saved(q))
  BY <1>1, <1>2, <1>4, ChainAnswers DEF q
<1>6. Orderly(p, Live(p) \cup {w}, Saved(q)) /\ Leads(p, AfterEncrypt(r), Live(p) \cup {w})
  BY <1>1, <1>2, <1>4, <1>5, SealOrderly
<1>7. Follows(p, AfterEncrypt(r), session[p].opened, Saved(q))
  BY <1>2, <1>4, SealFollows
<1>8. \A v \in Saved(p) : After(w, v)
  <2>1. r.cks = r.rk
    BY <1>1, <1>4 DEF Leads, CanEncrypt
  <2> TAKE v \in Saved(p)
  <2>2. /\ v \in Live(p) /\ Len(v.chain) \in Nat /\ v.n \in Nat
        /\ Len(r.rk) \in Nat /\ r.ns \in Nat
    BY <1>2 DEF WiresOK, Chain, Ratchet
  <2>3. Len(v.chain) <= Len(r.rk)
    BY <1>4, <2>2 DEF Leads
  <2>4. Len(v.chain) = Len(r.rk) => v.n < r.ns
    BY <1>4, <2>2 DEF Leads, At
  <2> QED  BY <2>1, <2>2, <2>3, <2>4 DEF After
<1>9. /\ Orderly(p, Live(p), Saved(q))' /\ Orderly(p, Saved(p), Saved(q))'
      /\ Leads(p, session[p].ratchet, Live(p))' /\ Leads(p, stored[p].ratchet, Saved(p))'
      /\ Follows(p, session[p].ratchet, session[p].opened, Saved(q))'
      /\ Follows(p, stored[p].ratchet, stored[p].opened, Saved(q))'
      /\ \A u \in Live(p)' \ Saved(p)' : \A v \in Saved(p)' : After(u, v)
  BY <1>1, <1>2, <1>3, <1>4, <1>6, <1>7, <1>8 DEF SyncInv, q
<1>10. /\ Orderly(q, Live(q), Saved(p))' /\ Orderly(q, Saved(q), Saved(p))'
       /\ Leads(q, session[q].ratchet, Live(q))' /\ Leads(q, stored[q].ratchet, Saved(q))'
       /\ Follows(q, session[q].ratchet, session[q].opened, Saved(p))'
       /\ Follows(q, stored[q].ratchet, stored[q].opened, Saved(p))'
       /\ \A u \in Live(q)' \ Saved(q)' : \A v \in Saved(q)' : After(u, v)
  BY <1>1, <1>2, <1>3 DEF SyncInv
<1> QED  BY <1>2, <1>9, <1>10 DEF SyncInv, q

LEMMA SyncOpen ==
  ASSUME BaseInv, SyncInv, NEW p \in Party, NEW w \in Saved(Peer(p)), OpenAccepted(p, w)
  PROVE  SyncInv'
<1> DEFINE q     == Peer(p)
           s     == session[p]
           fresh == <<p, keys[p]>>
           a     == AfterDecrypt(s.ratchet, w, fresh)
<1>1. /\ session' = [session EXCEPT ![p] =
           [ratchet |-> a, replay_cache |-> Remember(s, w), opened |-> s.opened \cup {w}]]
      /\ ~ReplaySeen(s, w)
      /\ UNCHANGED <<stored, sent, unsaved, orphans>>
  BY DEF OpenAccepted, ReachesRatchet
<1>2. w \notin s.opened
  BY <1>1 DEF BaseInv, ReplayInv, CacheTracks, ReplaySeen
<1>3. /\ session'[p].ratchet = a /\ session'[p].opened = s.opened \cup {w}
      /\ \A t \in Party : t # p => session'[t] = session[t]
  BY <1>1, SyncTyped
<1>4. /\ Orderly(p, Live(p), Saved(q)) /\ Orderly(q, Saved(q), Live(p))
      /\ Leads(p, s.ratchet, Live(p)) /\ Follows(p, s.ratchet, s.opened, Saved(q))
  BY SyncTyped, OrderlyMore DEF SyncInv
<1>5. /\ fresh \in Key /\ fresh # <<Bob, 0>> /\ \A v \in Live(p) : v.key # fresh
  BY FreshKey DEF BaseInv, Live
<1>6. Leads(p, a, Live(p)) /\ Follows(p, a, s.opened \cup {w}, Saved(q))
  BY <1>2, <1>4, <1>5, SyncTyped, ReadInStep
<1>7. \A t \in Party : Live(t)' = Live(t) /\ Saved(t)' = Saved(t)
  BY <1>1 DEF Live, Saved
<1> HIDE DEF a, s
<1>8. ASSUME NEW t \in Party
      PROVE  /\ Leads(t, session'[t].ratchet, Live(t))
             /\ Follows(t, session'[t].ratchet, session'[t].opened, Saved(Peer(t)))
  <2>1. CASE t = p
    BY <1>3, <1>6, <2>1
  <2>2. CASE t # p
    BY <1>3, <2>2 DEF SyncInv
  <2> QED  BY <2>1, <2>2
<1> QED
  BY <1>1, <1>7, <1>8, PeerParty DEF SyncInv

LEMMA SyncSave ==
  ASSUME BaseInv, SyncInv, NEW p \in Party, SaveSession(p)  PROVE SyncInv'
<1> DEFINE q == Peer(p)
<1>1. /\ stored' = [stored EXCEPT ![p] = session[p]] /\ session' = session
      /\ Saved(p)' = Live(p) /\ Live(p)' = Live(p) /\ Live(q)' = Live(q) /\ Saved(q)' = Saved(q)
  BY SaveSets, PeerParty DEF SaveSession
<1>2. /\ q \in Party /\ q # p /\ Peer(q) = p /\ \A t \in Party : t = p \/ t = q
      /\ WiresOK(Live(p)) /\ Saved(p) \subseteq Live(p)
      /\ session[q].ratchet \in Ratchet /\ stored[q].ratchet \in Ratchet
      /\ stored \in [Party -> SessionState]
  BY SyncTyped
<1>3. stored'[p] = session[p] /\ stored'[q] = stored[q]
  BY <1>1, <1>2
<1>4. \A u \in Live(p) \ Saved(p) : Len(u.chain) >= 2 /\ \A v \in Saved(p) : After(u, v)
  BY DEF SyncInv, Orderly
<1>5. /\ Follows(q, session[q].ratchet, session[q].opened, Live(p))
      /\ Follows(q, stored[q].ratchet, stored[q].opened, Live(p))
  <2>1. /\ Follows(q, session[q].ratchet, session[q].opened, Saved(p))
        /\ Follows(q, stored[q].ratchet, stored[q].opened, Saved(p))
    BY <1>2 DEF SyncInv
  <2> HIDE DEF q
  <2> QED  BY <1>2, <1>4, <2>1, LaterWiresAhead
<1>6. Orderly(q, Live(q), Live(p)) /\ Orderly(q, Saved(q), Live(p))
  <2>1. Orderly(q, Live(q), Saved(p)) /\ Orderly(q, Saved(q), Saved(p))
    BY <1>2 DEF SyncInv
  <2> HIDE DEF q
  <2> QED  BY <1>2, <2>1, OrderlyMore
<1>7. /\ Orderly(p, Live(p), Saved(q)) /\ Leads(p, session[p].ratchet, Live(p))
      /\ Follows(p, session[p].ratchet, session[p].opened, Saved(q))
  BY DEF SyncInv
<1>8. /\ Leads(q, session[q].ratchet, Live(q)) /\ Leads(q, stored[q].ratchet, Saved(q))
      /\ \A u \in Live(q) \ Saved(q) : \A v \in Saved(q) : After(u, v)
  BY <1>2 DEF SyncInv
<1> HIDE DEF q
<1>9. Peer(p) = q
  BY DEF q
<1> QED
  BY <1>1, <1>2, <1>3, <1>5, <1>6, <1>7, <1>8, <1>9 DEF SyncInv

LEMMA SyncForget ==
  ASSUME BaseInv, SyncInv, NEW p \in Party, ForgetSession(p), UNCHANGED <<stored, sent>>
  PROVE  SyncInv'
<1>1. /\ session' = [session EXCEPT ![p] = stored[p]]
      /\ Live(p)' = Saved(p)
      /\ \A t \in Party : Saved(t)' = Saved(t) /\ (t # p => Live(t)' = Live(t))
  BY ForgetSets DEF ForgetSession
<1>2. session'[p] = stored[p] /\ \A t \in Party : t # p => session'[t] = session[t]
  BY <1>1, SyncTyped
<1>3. ASSUME NEW t \in Party
      PROVE  /\ Orderly(t, Live(t)', Saved(Peer(t)))
             /\ Leads(t, session'[t].ratchet, Live(t)')
             /\ Follows(t, session'[t].ratchet, session'[t].opened, Saved(Peer(t)))
             /\ \A u \in Live(t)' \ Saved(t) : \A v \in Saved(t) : After(u, v)
  <2>1. CASE t = p
    BY <1>1, <1>2, <2>1 DEF SyncInv
  <2>2. CASE t # p
    BY <1>1, <1>2, <2>2 DEF SyncInv
  <2> QED  BY <2>1, <2>2
<1> QED  BY <1>1, <1>3, PeerParty DEF SyncInv

LEMMA SyncNext ==
  BaseInv /\ FolderInv /\ (carrier = "mail" => SyncInv) /\ [MailNext]_allVars
    => (carrier = "mail" => SyncInv)'
<1> SUFFICES ASSUME BaseInv, FolderInv, SyncInv, carrier = "mail", [MailNext]_allVars
             PROVE  SyncInv'
  BY DEF MailNext, allVars
<1>1. ASSUME NEW p \in Party, NEW i \in out[p], OpenOne(p, i)  PROVE SyncInv'
  <2>1. i \in 1 .. Len(inbox[p])
    BY DEF FolderInv, MailTypeOK
  <2>2. inbox[p][i] \in Saved(Peer(p))
    BY <2>1 DEF FolderInv
  <2>3. CASE OpenRefused(p, inbox[p][i])
    BY <2>3 DEF OpenRefused, SyncInv, Live, Saved
  <2> QED  BY <1>1, <2>2, <2>3, SyncOpen, SyncForget DEF OpenOne, Open, OpenAborts
<1>2. CASE UNCHANGED vars
  BY <1>2 DEF vars, SyncInv, Live, Saved
<1>3. CASE MailStep
  BY <1>1, <1>2, <1>3, SyncSeal, SyncSave, SyncForget
  DEF MailStep, Poll, Deliver, Fetch, SaveCursor, Restart
<1> QED  BY <1>2, <1>3 DEF MailNext, allVars

LEMMA SyncInit == MailInit => SyncInv
<1> SUFFICES ASSUME MailInit, NEW p \in Party
             PROVE  /\ Orderly(p, {}, {}) /\ Leads(p, session[p].ratchet, {})
                    /\ Leads(p, stored[p].ratchet, {})
                    /\ Follows(p, session[p].ratchet, session[p].opened, {})
                    /\ Follows(p, stored[p].ratchet, stored[p].opened, {})
  BY PeerParty DEF MailInit, Init, SyncInv, Live, Saved
<1>1. /\ session[p] = NewSession(p) /\ stored[p] = NewSession(p)
      /\ NewSession(p).ratchet = Start(p) /\ NewSession(p).opened = {}
  BY DEF MailInit, Init, NewSession, Start
<1> QED  BY <1>1, StartInStep

\* Whatever arrived and was not read can be read, for every length of
\* conversation and with crashes of either side anywhere between sealing, mailing,
\* opening and the two saves (seal_message, save_session, ratchet_decrypt).
THEOREM ArrivedCanBeRead == MailSpec => []ArrivedStaysReadable
<1>1. BaseInv /\ FolderInv /\ (carrier = "mail" => SyncInv) => ArrivedStaysReadable
  <2> SUFFICES ASSUME BaseInv, FolderInv, carrier = "mail" => SyncInv,
                      NEW p \in Party, NEW i \in 1 .. Len(inbox[p]),
                      inbox[p][i] \notin session[p].opened
               PROVE  CanDecrypt(session[p].ratchet, inbox[p][i])
    BY DEF ArrivedStaysReadable
  <2>1. inbox[p][i] \in Saved(Peer(p)) /\ inbox[p] # << >>
    BY DEF FolderInv
  <2>2. SyncInv
    BY <2>1 DEF FolderInv
  <2> QED  BY <2>1, <2>2, SavedReadable
<1> QED  BY <1>1, SyncInit, SyncNext, FolderInvariance, PTL DEF MailSpec
=============================================================================
