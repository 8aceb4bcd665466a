------------------------- MODULE KeyAgreementProofs -------------------------
(***************************************************************************)
(* Proofs about KeyAgreement: what is derived on both sides agrees, and a    *)
(* one-time prekey serves once, for any number of initiators, prekeys,       *)
(* devices, offers and crashes.                                              *)
(***************************************************************************)
EXTENDS KeyAgreement, TLAPS, SequenceTheorems, FiniteSetTheorems

\* Vec::remove: what was before the position stays, the rest moves up.
LEMMA RemoveAtEffect ==
  ASSUME NEW S, NEW s \in Seq(S), NEW i \in 1 .. Len(s)
  PROVE  /\ RemoveAt(s, i) \in Seq(S)
         /\ Len(RemoveAt(s, i)) = Len(s) - 1
         /\ \A j \in 1 .. Len(s) - 1 :
              RemoveAt(s, i)[j] = IF j < i THEN s[j] ELSE s[j + 1]
<1> DEFINE before == SubSeq(s, 1, i - 1)
           after  == SubSeq(s, i + 1, Len(s))
<1>1. /\ before \in Seq(S)
      /\ Len(before) = i - 1
      /\ \A j \in 1 .. i - 1 : before[j] = s[j]
  <2>1. \A j \in 1 .. i - 1 : s[j] \in S
    BY ElementOfSeq
  <2> QED  BY <2>1, SubSeqProperties, i - 1 \in Int, 1 \in Int
<1>2. /\ after \in Seq(S)
      /\ Len(after) = Len(s) - i
      /\ \A j \in 1 .. Len(s) - i : after[j] = s[i + j]
  <2>1. \A j \in i + 1 .. Len(s) : s[j] \in S
    BY ElementOfSeq
  <2> QED  BY <2>1, SubSeqProperties, i + 1 \in Int, Len(s) \in Int
<1>3. RemoveAt(s, i) = before \o after
  BY DEF RemoveAt
<1> HIDE DEF before, after
<1>4. /\ before \o after \in Seq(S)
      /\ Len(before \o after) = Len(before) + Len(after)
      /\ \A j \in 1 .. Len(before) + Len(after) : (before \o after)[j] =
           IF j <= Len(before) THEN before[j] ELSE after[j - Len(before)]
  BY <1>1, <1>2, ConcatProperties
<1> QED
  <2> SUFFICES ASSUME NEW j \in 1 .. Len(s) - 1
               PROVE  (before \o after)[j] = IF j < i THEN s[j] ELSE s[j + 1]
    BY <1>1, <1>2, <1>3, <1>4
  <2>1. CASE j < i
    BY <2>1, <1>1, <1>2, <1>4
  <2>2. CASE ~(j < i)
    <3>1. j - (i - 1) \in 1 .. Len(s) - i /\ i + (j - (i - 1)) = j + 1
      BY <2>2
    <3>2. after[j - (i - 1)] = s[j + 1]
      BY <3>1, <1>2
    <3> QED  BY <3>2, <2>2, <1>1, <1>2, <1>4
  <2> QED  BY <2>1, <2>2

-----------------------------------------------------------------------------
(* The keys: a position of the one vector holds the private half of the same *)
(* position of the other, on the device they belong to.                      *)

KeysOK(ks) ==
  /\ ks \in DeviceKeys
  /\ Len(ks.one_time_prekeys_private) = Len(ks.one_time_prekeys_public)
  /\ \A n \in 1 .. Len(ks.one_time_prekeys_public) :
       /\ ks.one_time_prekeys_public[n].key_id < OneTimeCount
       /\ ks.one_time_prekeys_public[n].public_key
            = OneTimeKey(ks.device, ks.one_time_prekeys_public[n].key_id)
       /\ ks.one_time_prekeys_private[n] = ks.one_time_prekeys_public[n].public_key
  /\ \A m, n \in 1 .. Len(ks.one_time_prekeys_public) :
       ks.one_time_prekeys_public[m].key_id = ks.one_time_prekeys_public[n].key_id
         => m = n

KeysInv ==
  /\ devices \in Device
  /\ KeysOK(keys) /\ keys.device <= devices
  /\ KeysOK(stored) /\ stored.device <= devices

\* Keys just generated are in order.
LEMMA GeneratedKeysOK ==
  ASSUME NEW d \in Device
  PROVE  KeysOK(GenerateDeviceKeys(d)) /\ GenerateDeviceKeys(d).device = d
<1> DEFINE public  == [n \in 1 .. OneTimeCount |-> OneTimePrekey(d, n - 1)]
           private == [n \in 1 .. OneTimeCount |-> OneTimeKey(d, n - 1)]
<1>1. OneTimeCount \in Nat  BY BoundsAssumption
<1>2. \A k \in Nat : OneTimeKey(d, k) \in KeyPairs
  BY DEF OneTimeKey, KeyPairs
<1>3. /\ public \in Seq([key_id : Nat, public_key : KeyPairs])
      /\ Len(public) = OneTimeCount
      /\ \A n \in 1 .. OneTimeCount :
           public[n].key_id = n - 1 /\ public[n].public_key = OneTimeKey(d, n - 1)
  BY <1>1, <1>2 DEF OneTimePrekey
<1>4. /\ private \in Seq(KeyPairs)
      /\ Len(private) = OneTimeCount
      /\ \A n \in 1 .. OneTimeCount : private[n] = OneTimeKey(d, n - 1)
  BY <1>1, <1>2
<1> HIDE DEF public, private
<1>5. GenerateDeviceKeys(d) =
        [device |-> d, one_time_prekeys_public |-> public,
         one_time_prekeys_private |-> private]
  BY DEF GenerateDeviceKeys, public, private
<1> QED  BY <1>1, <1>3, <1>4, <1>5 DEF KeysOK, DeviceKeys

\* consume_one_time_prekey keeps them in order, and takes away one pair.
LEMMA RemoveBothEffect ==
  ASSUME KeysOK(keys),
         NEW idx \in 1 .. Len(keys.one_time_prekeys_public), RemoveBoth(idx)
  PROVE  /\ KeysOK(keys')
         /\ keys'.device = keys.device
         /\ \A n \in 1 .. Len(keys'.one_time_prekeys_public) :
              \E m \in 1 .. Len(keys.one_time_prekeys_public) \ {idx} :
                keys'.one_time_prekeys_public[n] = keys.one_time_prekeys_public[m]
         /\ \A m \in 1 .. Len(keys.one_time_prekeys_public) \ {idx} :
              \E n \in 1 .. Len(keys'.one_time_prekeys_public) :
                keys'.one_time_prekeys_public[n] = keys.one_time_prekeys_public[m]
<1> DEFINE pub == keys.one_time_prekeys_public
           pri == keys.one_time_prekeys_private
           pubR == RemoveAt(pub, idx)
           priR == RemoveAt(pri, idx)
<1>1. /\ pub \in Seq([key_id : Nat, public_key : KeyPairs])
      /\ pri \in Seq(KeyPairs)
      /\ Len(pri) = Len(pub)
      /\ Len(pub) \in Nat
      /\ idx \in 1 .. Len(pub)
  BY DEF KeysOK, DeviceKeys
<1>2. /\ pubR \in Seq([key_id : Nat, public_key : KeyPairs])
      /\ Len(pubR) = Len(pub) - 1
      /\ \A j \in 1 .. Len(pub) - 1 : pubR[j] = IF j < idx THEN pub[j] ELSE pub[j + 1]
  <2> HIDE DEF pub
  <2> QED  BY <1>1, RemoveAtEffect
<1>3. /\ priR \in Seq(KeyPairs)
      /\ Len(priR) = Len(pri) - 1
      /\ \A j \in 1 .. Len(pri) - 1 : priR[j] = IF j < idx THEN pri[j] ELSE pri[j + 1]
  <2> HIDE DEF pri, pub
  <2> QED  BY <1>1, RemoveAtEffect
<1>4. /\ keys \in DeviceKeys
      /\ keys' = [keys EXCEPT !.one_time_prekeys_public = pubR,
                              !.one_time_prekeys_private = priR]
  BY DEF KeysOK, RemoveBoth
<1> HIDE DEF pubR, priR
<1>5. /\ keys' \in DeviceKeys
      /\ keys'.device = keys.device
      /\ keys'.one_time_prekeys_public = pubR
      /\ keys'.one_time_prekeys_private = priR
  BY <1>2, <1>3, <1>4 DEF DeviceKeys
<1>6. /\ \A n \in 1 .. Len(pub) :
           /\ pub[n].key_id < OneTimeCount
           /\ pub[n].public_key = OneTimeKey(keys.device, pub[n].key_id)
           /\ pri[n] = pub[n].public_key
      /\ \A m, n \in 1 .. Len(pub) : pub[m].key_id = pub[n].key_id => m = n
  BY DEF KeysOK
<1> HIDE DEF pub, pri
<1>7. \A n \in 1 .. Len(pubR) :
        /\ pubR[n].key_id < OneTimeCount
        /\ pubR[n].public_key = OneTimeKey(keys.device, pubR[n].key_id)
        /\ priR[n] = pubR[n].public_key
  <2> SUFFICES ASSUME NEW n \in 1 .. Len(pubR)
               PROVE  /\ pubR[n].key_id < OneTimeCount
                      /\ pubR[n].public_key = OneTimeKey(keys.device, pubR[n].key_id)
                      /\ priR[n] = pubR[n].public_key
    OBVIOUS
  <2>1. CASE n < idx
    <3>1. n \in 1 .. Len(pub) - 1 /\ n \in 1 .. Len(pub)
      BY <2>1, <1>1, <1>2
    <3>2. pubR[n] = pub[n]
      BY <3>1, <2>1, <1>2
    <3>3. priR[n] = pri[n]
      BY <3>1, <2>1, <1>1, <1>3
    <3> QED  BY <3>1, <3>2, <3>3, <1>6
  <2>2. CASE ~(n < idx)
    <3>1. n \in 1 .. Len(pub) - 1 /\ n + 1 \in 1 .. Len(pub)
      BY <2>2, <1>1, <1>2
    <3>2. pubR[n] = pub[n + 1]
      BY <3>1, <2>2, <1>2
    <3>3. priR[n] = pri[n + 1]
      BY <3>1, <2>2, <1>1, <1>3
    <3> QED  BY <3>1, <3>2, <3>3, <1>6
  <2> QED  BY <2>1, <2>2
<1>8. \A m, n \in 1 .. Len(pubR) : pubR[m].key_id = pubR[n].key_id => m = n
  <2> SUFFICES ASSUME NEW m \in 1 .. Len(pubR), NEW n \in 1 .. Len(pubR),
                      pubR[m].key_id = pubR[n].key_id
               PROVE  m = n
    OBVIOUS
  <2> DEFINE at(j) == IF j < idx THEN j ELSE j + 1
  <2>0. m \in 1 .. Len(pub) - 1 /\ n \in 1 .. Len(pub) - 1 /\ idx \in Int
    BY <1>1, <1>2
  <2>1. at(m) \in 1 .. Len(pub) /\ at(n) \in 1 .. Len(pub)
    BY <2>0, <1>1
  <2>2. pubR[m] = pub[at(m)] /\ pubR[n] = pub[at(n)]
    BY <1>1, <1>2
  <2>3. at(m) = at(n)
    <3> HIDE DEF at
    <3> QED  BY <2>1, <2>2, <1>6
  <2> QED  BY <2>3, <2>0
<1>9. KeysOK(keys')
  BY <1>1, <1>2, <1>3, <1>5, <1>6, <1>7, <1>8 DEF KeysOK
<1>10. \A n \in 1 .. Len(pubR) :
         \E m \in 1 .. Len(pub) \ {idx} : pubR[n] = pub[m]
  <2> SUFFICES ASSUME NEW n \in 1 .. Len(pubR)
               PROVE  \E m \in 1 .. Len(pub) \ {idx} : pubR[n] = pub[m]
    OBVIOUS
  <2>1. CASE n < idx
    BY <2>1, <1>1, <1>2, n \in 1 .. Len(pub) \ {idx}
  <2>2. CASE ~(n < idx)
    BY <2>2, <1>1, <1>2, n + 1 \in 1 .. Len(pub) \ {idx}
  <2> QED  BY <2>1, <2>2
<1>11. \A m \in 1 .. Len(pub) \ {idx} :
         \E n \in 1 .. Len(pubR) : pubR[n] = pub[m]
  <2> SUFFICES ASSUME NEW m \in 1 .. Len(pub) \ {idx}
               PROVE  \E n \in 1 .. Len(pubR) : pubR[n] = pub[m]
    OBVIOUS
  <2>1. CASE m < idx
    BY <2>1, <1>1, <1>2, m \in 1 .. Len(pubR)
  <2>2. CASE ~(m < idx)
    <3>1. m - 1 \in 1 .. Len(pubR) /\ ~(m - 1 < idx) /\ (m - 1) + 1 = m
      BY <2>2, <1>1, <1>2
    <3> QED  BY <3>1, <1>2
  <2> QED  BY <2>1, <2>2
<1> QED  BY <1>5, <1>9, <1>10, <1>11 DEF pub

\* Which steps touch the keys.
LEMMA KeySteps ==
  ASSUME [Next]_vars
  PROVE  \/ UNCHANGED <<keys, stored, devices>>
         \/ \E o \in offers : ConsumeOneTimePrekey(o)
         \/ SetUpAnew
         \/ SaveKeys
         \/ Restart
  BY DEF Next, vars, ExportPublicBundle, Offer, DeriveWithout, DeriveWithOneTime, Derive

LEMMA KeysInvInit == Init => KeysInv
<1> SUFFICES ASSUME Init PROVE KeysInv  OBVIOUS
<1>1. devices = 1 /\ 1 \in Device /\ 1 <= 1  BY DEF Init, Device
<1>2. KeysOK(GenerateDeviceKeys(1)) /\ GenerateDeviceKeys(1).device = 1
  BY <1>1, GeneratedKeysOK
<1> QED  BY <1>1, <1>2 DEF Init, KeysInv

LEMMA KeysInvNext == KeysInv /\ [Next]_vars => KeysInv'
<1> SUFFICES ASSUME KeysInv, [Next]_vars PROVE KeysInv'
  OBVIOUS
<1> USE DEF KeysInv
<1>1. CASE UNCHANGED <<keys, stored, devices>>
  BY <1>1 DEF KeysOK
<1>2. ASSUME NEW o \in offers, ConsumeOneTimePrekey(o) PROVE KeysInv'
  <2>1. PICK idx \in 1 .. Len(keys.one_time_prekeys_public) : RemoveBoth(idx)
    BY <1>2 DEF ConsumeOneTimePrekey
  <2>2. stored' = stored /\ devices' = devices
    BY <1>2 DEF ConsumeOneTimePrekey
  <2> QED  BY <2>1, <2>2, RemoveBothEffect
<1>3. CASE SetUpAnew
  <2>1. /\ devices' \in Device /\ devices' = devices + 1 /\ stored' = stored
        /\ keys' = GenerateDeviceKeys(devices')
    BY <1>3 DEF SetUpAnew, Device
  <2>2. stored.device \in Int /\ devices \in Int /\ devices' \in Int
    BY <2>1 DEF KeysOK, DeviceKeys, Device
  <2> QED  BY <2>1, <2>2, GeneratedKeysOK
<1>4. CASE SaveKeys
  BY <1>4 DEF SaveKeys, KeysOK
<1>5. CASE Restart
  BY <1>5 DEF Restart, KeysOK
<1> QED  BY <1>1, <1>2, <1>3, <1>4, <1>5, KeySteps

-----------------------------------------------------------------------------
(* Bundles and offers name keys of the device they were made from.           *)

BundleInv ==
  \A b \in bundles :
    /\ b.device \in Device /\ b.device <= devices
    /\ \A p \in b.one_time_prekeys :
         /\ p.key_id \in Nat /\ p.key_id < OneTimeCount
         /\ p.public_key = OneTimeKey(b.device, p.key_id)

OfferOK(o) ==
  /\ o.initiator \in Initiator /\ o.ephemeral \in Nat
  /\ o.device \in Device
  /\ o.key_id \in Nat
  /\ \/ o.one_time = NoKey
     \/ o.key_id < OneTimeCount /\ o.one_time = OneTimeKey(o.device, o.key_id)
  /\ o.root = InitiatorRoot(InitiatorKey(o.initiator), EphemeralKey(o.ephemeral),
                            o.device, o.one_time)

OfferInv ==
  IsFiniteSet(offers) /\ \A o \in offers : OfferOK(o) /\ o.device <= devices

LEMMA BundleInvNext ==
  ASSUME KeysInv, BundleInv, [Next]_vars  PROVE BundleInv'
<1>1. CASE ExportPublicBundle
  <2> SUFFICES ASSUME NEW b \in {PublicBundle(keys)}
               PROVE  /\ b.device \in Device /\ b.device <= devices
                      /\ \A p \in b.one_time_prekeys :
                           /\ p.key_id \in Nat /\ p.key_id < OneTimeCount
                           /\ p.public_key = OneTimeKey(b.device, p.key_id)
    BY <1>1 DEF ExportPublicBundle, BundleInv
  <2>1. keys \in DeviceKeys
    BY DEF KeysInv, KeysOK
  <2>2. b.device = keys.device /\ b.one_time_prekeys = Range(keys.one_time_prekeys_public)
    BY DEF PublicBundle
  <2>3. \A p \in b.one_time_prekeys :
          \E n \in 1 .. Len(keys.one_time_prekeys_public) :
            p = keys.one_time_prekeys_public[n]
    BY <2>1, <2>2 DEF Range, DeviceKeys
  <2>4. \A n \in 1 .. Len(keys.one_time_prekeys_public) :
          /\ keys.one_time_prekeys_public[n].key_id \in Nat
          /\ keys.one_time_prekeys_public[n].key_id < OneTimeCount
          /\ keys.one_time_prekeys_public[n].public_key
               = OneTimeKey(keys.device, keys.one_time_prekeys_public[n].key_id)
    <3>1. keys.one_time_prekeys_public \in Seq([key_id : Nat, public_key : KeyPairs])
      BY <2>1 DEF DeviceKeys
    <3>2. \A n \in 1 .. Len(keys.one_time_prekeys_public) :
            keys.one_time_prekeys_public[n] \in [key_id : Nat, public_key : KeyPairs]
      BY <3>1, ElementOfSeq
    <3> QED  BY <3>2 DEF KeysInv, KeysOK
  <2>5. b.device \in Device /\ b.device <= devices
    BY <2>1, <2>2 DEF KeysInv, DeviceKeys
  <2> QED  BY <2>2, <2>3, <2>4, <2>5
<1>2. CASE SetUpAnew
  <2>1. bundles' = bundles /\ devices' = devices + 1
    BY <1>2 DEF SetUpAnew
  <2> QED  BY <2>1 DEF BundleInv, KeysInv, Device
<1>3. CASE UNCHANGED <<bundles, devices>>
  BY <1>3 DEF BundleInv
<1> QED
  BY <1>1, <1>2, <1>3 DEF Next, vars, Offer, DeriveWithout, DeriveWithOneTime, Derive,
     ConsumeOneTimePrekey, SaveKeys, Restart

LEMMA OfferInvNext ==
  ASSUME KeysInv, BundleInv, OfferInv, [Next]_vars  PROVE OfferInv'
<1>1. ASSUME NEW i \in Initiator, NEW b \in bundles,
             NEW choice \in OneTimeChoices(b), Offer(i, b, choice)
      PROVE  OfferInv'
  <2> DEFINE n == Cardinality(offers)
             o == [initiator |-> i, ephemeral |-> n, device |-> b.device,
                   key_id |-> choice.key_id, one_time |-> choice.public_key,
                   root |-> InitiatorRoot(InitiatorKey(i), EphemeralKey(n),
                                          b.device, choice.public_key)]
  <2>1. offers' = offers \cup {o} /\ devices' = devices
    BY <1>1 DEF Offer
  <2>2. n \in Nat
    BY FS_CardinalityType DEF OfferInv
  <2>3. /\ choice.key_id \in Nat
        /\ \/ choice.public_key = NoKey
           \/ /\ choice.key_id < OneTimeCount
              /\ choice.public_key = OneTimeKey(b.device, choice.key_id)
    BY DEF OneTimeChoices, BundleInv
  <2>4. OfferOK(o) /\ o.device <= devices
    BY <2>2, <2>3 DEF OfferOK, BundleInv
  <2>5. IsFiniteSet(offers')
    BY <2>1, FS_AddElement DEF OfferInv
  <2> HIDE DEF o
  <2> QED  BY <2>1, <2>4, <2>5 DEF OfferInv
<1>2. CASE SetUpAnew
  <2>1. offers' = offers /\ devices' = devices + 1
    BY <1>2 DEF SetUpAnew
  <2> QED  BY <2>1 DEF OfferInv, OfferOK, KeysInv, Device
<1>3. CASE UNCHANGED <<offers, devices>>
  BY <1>3 DEF OfferInv
<1> QED
  BY <1>1, <1>2, <1>3 DEF Next, vars, ExportPublicBundle, DeriveWithout,
     DeriveWithOneTime, Derive, ConsumeOneTimePrekey, SaveKeys, Restart

-----------------------------------------------------------------------------
(* What is in hand fits the offer as long as the device is the offer's, and  *)
(* so does the root derived from it.                                        *)

HandInv ==
  \A h \in in_hand :
    /\ h.offer \in offers /\ h.offer.one_time # NoKey
    /\ h.one_time \in KeyPairs
    /\ h.offer.device = keys.device => h.one_time = h.offer.one_time

AnswerInv ==
  \A a \in answers :
    /\ a.offer \in offers /\ a.device \in Device
    /\ a.root = a.offer.root <=> a.device = a.offer.device

LEMMA HandInvNext ==
  ASSUME KeysInv, OfferInv, HandInv, [Next]_vars  PROVE HandInv'
<1>1. ASSUME NEW o \in offers, ConsumeOneTimePrekey(o)  PROVE HandInv'
  <2>1. PICK idx \in 1 .. Len(keys.one_time_prekeys_public) :
          /\ IsPosition(idx, o.key_id)
          /\ RemoveBoth(idx)
          /\ in_hand' = in_hand \cup
               {[offer |-> o, one_time |-> keys.one_time_prekeys_private[idx]]}
    BY <1>1 DEF ConsumeOneTimePrekey
  <2>2. keys'.device = keys.device
    BY <2>1, RemoveBothEffect DEF KeysInv
  <2>3. keys.one_time_prekeys_private[idx] = OneTimeKey(keys.device, o.key_id)
    BY <2>1 DEF KeysInv, KeysOK, IsPosition
  <2>4. o.one_time # NoKey /\ o.one_time = OneTimeKey(o.device, o.key_id) /\ o.key_id \in Nat
    BY <1>1 DEF OfferInv, OfferOK, ConsumeOneTimePrekey
  <2>5. OneTimeKey(keys.device, o.key_id) \in KeyPairs
    BY <2>4 DEF OneTimeKey, KeyPairs, KeysInv, KeysOK, DeviceKeys
  <2>6. offers' = offers
    BY <1>1 DEF ConsumeOneTimePrekey
  <2> QED  BY <2>1, <2>2, <2>3, <2>4, <2>5, <2>6 DEF HandInv
<1>2. CASE SetUpAnew
  <2>1. keys'.device = devices + 1
    BY <1>2, GeneratedKeysOK DEF SetUpAnew, KeysInv, Device
  <2>2. \A h \in in_hand : h.offer.device # devices + 1
    BY DEF HandInv, OfferInv, OfferOK, KeysInv, Device
  <2> QED  BY <1>2, <2>1, <2>2 DEF SetUpAnew, HandInv
<1>3. CASE Restart
  BY <1>3 DEF Restart, HandInv
<1>4. CASE UNCHANGED keys /\ offers \subseteq offers' /\ in_hand' \subseteq in_hand
  BY <1>4 DEF HandInv
<1> QED
  BY <1>1, <1>2, <1>3, <1>4 DEF Next, vars, ExportPublicBundle, Offer, DeriveWithout,
     DeriveWithOneTime, Derive, SaveKeys

\* One derivation gives the root of the other exactly if it uses the keys of
\* the offer's device.
LEMMA DerivationsAgree ==
  ASSUME NEW o, OfferOK(o), NEW d \in Device, NEW one_time,
         d = o.device => one_time = o.one_time
  PROVE  ResponderRoot(d, one_time, InitiatorKey(o.initiator), EphemeralKey(o.ephemeral))
           = o.root  <=>  d = o.device
<1> DEFINE r == ResponderRoot(d, one_time, InitiatorKey(o.initiator),
                              EphemeralKey(o.ephemeral))
<1>1. ASSUME d = o.device PROVE r = o.root
  BY <1>1 DEF OfferOK, ResponderRoot, InitiatorRoot, DH
<1>2. ASSUME r = o.root PROVE d = o.device
  <2>1. DH(SignedPrekey(d), InitiatorKey(o.initiator))
          = DH(InitiatorKey(o.initiator), SignedPrekey(o.device))
    BY <1>2 DEF OfferOK, ResponderRoot, InitiatorRoot
  <2>2. SignedPrekey(d) = SignedPrekey(o.device)
    BY <2>1 DEF DH
  <2> QED  BY <2>2 DEF SignedPrekey
<1> QED  BY <1>1, <1>2

LEMMA AnswerInvNext ==
  ASSUME KeysInv, OfferInv, HandInv, AnswerInv, [Next]_vars  PROVE AnswerInv'
<1>0. keys.device \in Device
  BY DEF KeysInv, KeysOK, DeviceKeys
<1>1. ASSUME NEW o \in offers, NEW k, keys.device = o.device => k = o.one_time,
             offers' = offers, answers' = answers \cup {Answer(o, k)}
      PROVE  AnswerInv'
  <2>1. /\ Answer(o, k).offer = o /\ Answer(o, k).device = keys.device
        /\ Answer(o, k).root = o.root <=> keys.device = o.device
    BY <1>0, <1>1, DerivationsAgree DEF OfferInv, Answer
  <2> QED  BY <1>0, <1>1, <2>1 DEF AnswerInv
<1>2. ASSUME NEW o \in offers, DeriveWithout(o)  PROVE AnswerInv'
  BY <1>1, <1>2 DEF DeriveWithout, Derive
<1>3. ASSUME NEW h \in in_hand, DeriveWithOneTime(h)  PROVE AnswerInv'
  <2>1. h.offer \in offers /\ (keys.device = h.offer.device => h.one_time = h.offer.one_time)
    BY DEF HandInv
  <2> QED  BY <1>1, <1>3, <2>1 DEF DeriveWithOneTime, Derive
<1>4. CASE UNCHANGED answers /\ offers \subseteq offers'
  BY <1>4 DEF AnswerInv
<1> QED
  BY <1>2, <1>3, <1>4 DEF Next, vars, ExportPublicBundle, Offer, ConsumeOneTimePrekey,
     SetUpAnew, SaveKeys, Restart


-----------------------------------------------------------------------------
(* A pair that was taken is in the keys again only if a crash brought it     *)
(* back; what is in hand or answered was taken, by one offer.                *)

HistoryInv == taken \subseteq KeyPairs /\ forgotten \subseteq taken /\ restarts \in Nat

Holds(ks, p) ==
  \E n \in 1 .. Len(ks.one_time_prekeys_private) : ks.one_time_prekeys_private[n] = p

SpentInv ==
  /\ \A p \in taken : Holds(keys, p) => p \in forgotten
  /\ \A p \in taken : p[2] <= devices

UsedOnceInv ==
  /\ \A h \in in_hand : h.one_time \in taken
  /\ \A a \in answers : a.one_time = NoKey \/ a.one_time \in taken
  /\ \A g, h \in in_hand : g # h /\ g.one_time = h.one_time => g.one_time \in forgotten
  /\ \A h \in in_hand, a \in answers : h.one_time = a.one_time => h.one_time \in forgotten
  /\ OneTimeKeyServesOnce

\* What one consumption takes, and leaves.
LEMMA ConsumeEffect ==
  ASSUME KeysInv, NEW o \in offers, ConsumeOneTimePrekey(o)
  PROVE  \E p \in KeyPairs :
           /\ Holds(keys, p) /\ ~Holds(keys', p)
           /\ \A q : Holds(keys', q) => Holds(keys, q)
           /\ p[2] = keys.device
           /\ taken' = taken \cup {p}
           /\ in_hand' = in_hand \cup {[offer |-> o, one_time |-> p]}
<1> DEFINE pub == keys.one_time_prekeys_public
           pri == keys.one_time_prekeys_private
           pubN == keys'.one_time_prekeys_public
           priN == keys'.one_time_prekeys_private
<1>1. PICK idx \in 1 .. Len(pub) :
        /\ RemoveBoth(idx)
        /\ in_hand' = in_hand \cup {[offer |-> o, one_time |-> pri[idx]]}
        /\ taken' = taken \cup {pri[idx]}
  BY DEF ConsumeOneTimePrekey
<1>2. /\ KeysOK(keys')
      /\ keys'.device = keys.device
      /\ \A n \in 1 .. Len(pubN) : \E m \in 1 .. Len(pub) \ {idx} : pubN[n] = pub[m]
  BY <1>1, RemoveBothEffect DEF KeysInv
<1>3. /\ Len(pri) = Len(pub)
      /\ \A n \in 1 .. Len(pub) :
           pri[n] = OneTimeKey(keys.device, pub[n].key_id) /\ pri[n] = pub[n].public_key
      /\ \A m, n \in 1 .. Len(pub) : pub[m].key_id = pub[n].key_id => m = n
  BY DEF KeysInv, KeysOK
<1>4. /\ Len(priN) = Len(pubN)
      /\ \A n \in 1 .. Len(pubN) : priN[n] = pubN[n].public_key
  BY <1>2 DEF KeysOK
<1>5. pri[idx] \in KeyPairs /\ pri[idx][2] = keys.device
  <2>1. pri \in Seq(KeyPairs) /\ idx \in 1 .. Len(pri)
    BY <1>3 DEF KeysInv, KeysOK, DeviceKeys
  <2>2. pri[idx] \in KeyPairs
    BY <2>1, ElementOfSeq
  <2> QED  BY <2>2, <1>3 DEF OneTimeKey
<1> HIDE DEF pub, pri, pubN, priN
<1>6. \A n \in 1 .. Len(priN) :
        \E m \in 1 .. Len(pri) \ {idx} : priN[n] = pri[m]
  <2> SUFFICES ASSUME NEW n \in 1 .. Len(priN)
               PROVE  \E m \in 1 .. Len(pri) \ {idx} : priN[n] = pri[m]
    OBVIOUS
  <2>1. PICK m \in 1 .. Len(pub) \ {idx} : pubN[n] = pub[m]
    BY <1>2, <1>4
  <2>2. priN[n] = pri[m] /\ m \in 1 .. Len(pri) \ {idx}
    BY <2>1, <1>3, <1>4
  <2> QED  BY <2>2
<1>7. \A m \in 1 .. Len(pri) \ {idx} : pri[m] # pri[idx]
  <2> SUFFICES ASSUME NEW m \in 1 .. Len(pri) \ {idx}, pri[m] = pri[idx]
               PROVE  FALSE
    OBVIOUS
  <2>1. pub[m].key_id = pub[idx].key_id
    BY <1>3 DEF OneTimeKey
  <2> QED  BY <2>1, <1>3
<1>8. Holds(keys, pri[idx]) /\ ~Holds(keys', pri[idx])
  BY <1>1, <1>3, <1>6, <1>7 DEF Holds, pri, priN
<1>9. \A q : Holds(keys', q) => Holds(keys, q)
  BY <1>6 DEF Holds, pri, priN
<1> QED  BY <1>1, <1>5, <1>8, <1>9

LEMMA HistoryInvNext ==
  ASSUME KeysInv, HistoryInv, [Next]_vars  PROVE HistoryInv'
<1>1. ASSUME NEW o \in offers, ConsumeOneTimePrekey(o)  PROVE HistoryInv'
  BY <1>1, ConsumeEffect DEF HistoryInv, ConsumeOneTimePrekey
<1>2. CASE Restart
  BY <1>2 DEF Restart, HistoryInv
<1>3. CASE UNCHANGED <<taken, forgotten, restarts>>
  BY <1>3 DEF HistoryInv
<1> QED
  BY <1>1, <1>2, <1>3 DEF Next, vars, ExportPublicBundle, Offer, DeriveWithout,
     DeriveWithOneTime, Derive, SetUpAnew, SaveKeys

LEMMA SpentInvNext ==
  ASSUME KeysInv, HistoryInv, SpentInv, [Next]_vars  PROVE SpentInv'
<1>1. ASSUME NEW o \in offers, ConsumeOneTimePrekey(o)  PROVE SpentInv'
  <2>1. PICK p \in KeyPairs :
          /\ ~Holds(keys', p)
          /\ \A q : Holds(keys', q) => Holds(keys, q)
          /\ p[2] = keys.device
          /\ taken' = taken \cup {p}
    BY <1>1, ConsumeEffect
  <2>2. forgotten' = forgotten /\ devices' = devices
    BY <1>1 DEF ConsumeOneTimePrekey
  <2>3. \A q \in taken' : Holds(keys', q) => q \in forgotten'
    BY <2>1, <2>2 DEF SpentInv
  <2>4. \A q \in taken' : q[2] <= devices'
    BY <2>1, <2>2 DEF SpentInv, KeysInv
  <2> QED  BY <2>3, <2>4 DEF SpentInv, Holds
<1>2. CASE SetUpAnew
  <2>1. /\ keys' = GenerateDeviceKeys(devices + 1) /\ devices' = devices + 1
        /\ taken' = taken /\ forgotten' = forgotten /\ devices \in Nat
    BY <1>2 DEF SetUpAnew, KeysInv, Device
  <2>2. \A p \in taken : p[2] \in Nat /\ p[2] <= devices
    BY DEF SpentInv, HistoryInv, KeyPairs, Device
  <2>3. \A p : Holds(keys', p) => p[2] = devices + 1
    BY <2>1, BoundsAssumption
    DEF Holds, GenerateDeviceKeys, OneTimeKey
  <2>4. \A p \in taken : ~Holds(keys', p) /\ p[2] <= devices + 1
    BY <2>1, <2>2, <2>3
  <2> QED  BY <2>1, <2>4 DEF SpentInv, Holds
<1>3. CASE Restart
  <2>1. /\ keys' = stored /\ devices' = devices /\ taken' = taken
        /\ forgotten' = forgotten \cup (taken \cap Range(stored.one_time_prekeys_private))
    BY <1>3 DEF Restart
  <2>2. stored.one_time_prekeys_private \in Seq(KeyPairs)
    BY DEF KeysInv, KeysOK, DeviceKeys
  <2>3. \A p : Holds(stored, p) => p \in Range(stored.one_time_prekeys_private)
    BY <2>2 DEF Holds, Range
  <2> QED  BY <2>1, <2>3 DEF SpentInv, Holds
<1>4. CASE UNCHANGED <<keys, devices, taken, forgotten>>
  BY <1>4 DEF SpentInv, Holds
<1> QED
  BY <1>1, <1>2, <1>3, <1>4 DEF Next, vars, ExportPublicBundle, Offer, DeriveWithout,
     DeriveWithOneTime, Derive, SaveKeys

LEMMA UsedOnceInvNext ==
  ASSUME KeysInv, HistoryInv, SpentInv, UsedOnceInv, [Next]_vars  PROVE UsedOnceInv'
<1> USE DEF UsedOnceInv, OneTimeKeyServesOnce
<1>1. ASSUME NEW o \in offers, ConsumeOneTimePrekey(o)  PROVE UsedOnceInv'
  <2>1. PICK p \in KeyPairs :
          /\ Holds(keys, p)
          /\ taken' = taken \cup {p}
          /\ in_hand' = in_hand \cup {[offer |-> o, one_time |-> p]}
    BY <1>1, ConsumeEffect
  <2>2. forgotten' = forgotten /\ answers' = answers
    BY <1>1 DEF ConsumeOneTimePrekey
  <2>3. p \in taken => p \in forgotten
    BY <2>1 DEF SpentInv
  <2>4. p # NoKey
    BY DEF KeyPairs, NoKey
  <2>5. \A h \in in_hand' : h \in in_hand \/ h.one_time = p
    BY <2>1
  <2>6. \A h \in in_hand' : h.one_time \in taken'
    BY <2>1, <2>5
  <2>7. \A a \in answers' : a.one_time = NoKey \/ a.one_time \in taken'
    BY <2>1, <2>2
  <2>8. \A g, h \in in_hand' : g # h /\ g.one_time = h.one_time => g.one_time \in forgotten'
    <3> SUFFICES ASSUME NEW g \in in_hand', NEW h \in in_hand', g # h,
                        g.one_time = h.one_time
                 PROVE  g.one_time \in forgotten
      BY <2>2
    <3>1. CASE g \in in_hand /\ h \in in_hand  BY <3>1
    <3>2. CASE g \in in_hand /\ h \notin in_hand  BY <3>2, <2>3, <2>5
    <3>3. CASE g \notin in_hand /\ h \in in_hand  BY <3>3, <2>3, <2>5
    <3>4. CASE g \notin in_hand /\ h \notin in_hand  BY <3>4, <2>1
    <3> QED  BY <3>1, <3>2, <3>3, <3>4
  <2>9. \A h \in in_hand', a \in answers' :
          h.one_time = a.one_time => h.one_time \in forgotten'
    BY <2>2, <2>3, <2>4, <2>5
  <2> QED  BY <2>2, <2>6, <2>7, <2>8, <2>9
<1>2. ASSUME NEW o \in offers, DeriveWithout(o)  PROVE UsedOnceInv'
  <2>1. answers' = answers \cup {Answer(o, NoKey)} /\ Answer(o, NoKey).one_time = NoKey
    BY <1>2 DEF DeriveWithout, Derive, Answer
  <2>2. UNCHANGED <<in_hand, taken, forgotten>>
    BY <1>2 DEF DeriveWithout, Derive
  <2>3. \A h \in in_hand : h.one_time # NoKey
    <3>1. NoKey \notin KeyPairs  BY DEF NoKey, KeyPairs
    <3> QED  BY <3>1 DEF HistoryInv
  <2> QED  BY <2>1, <2>2, <2>3
<1>3. ASSUME NEW h \in in_hand, DeriveWithOneTime(h)  PROVE UsedOnceInv'
  <2> DEFINE a == Answer(h.offer, h.one_time)
  <2>1. answers' = answers \cup {a} /\ a.one_time = h.one_time
    BY <1>3 DEF DeriveWithOneTime, Derive, Answer
  <2> HIDE DEF a
  <2>2. in_hand' = in_hand \ {h} /\ UNCHANGED <<taken, forgotten>>
    BY <1>3 DEF DeriveWithOneTime, Derive
  <2> QED  BY <2>1, <2>2
<1>4. CASE Restart
  BY <1>4 DEF Restart
<1>5. CASE UNCHANGED <<in_hand, answers, taken, forgotten>>
  BY <1>5
<1> QED
  BY <1>1, <1>2, <1>3, <1>4, <1>5 DEF Next, vars, ExportPublicBundle, Offer,
     SetUpAnew, SaveKeys

-----------------------------------------------------------------------------
(* A device's prekeys are in its keys until they are taken.                  *)

InStock(ks, k) ==
  \E n \in 1 .. Len(ks.one_time_prekeys_public) : ks.one_time_prekeys_public[n].key_id = k

StockOK(ks) ==
  \A k \in Nat : k < OneTimeCount => OneTimeKey(ks.device, k) \in taken \/ InStock(ks, k)

StockInv == StockOK(keys) /\ StockOK(stored)

LEMMA GeneratedInStock ==
  ASSUME NEW d \in Device, NEW k \in Nat, k < OneTimeCount
  PROVE  InStock(GenerateDeviceKeys(d), k)
<1>1. k + 1 \in 1 .. OneTimeCount /\ OneTimeCount \in Nat  BY BoundsAssumption
<1> DEFINE pub == [n \in 1 .. OneTimeCount |-> OneTimePrekey(d, n - 1)]
<1>2. Len(pub) = OneTimeCount /\ pub[k + 1].key_id = k
  <2>1. pub[k + 1] = OneTimePrekey(d, k)  BY <1>1
  <2>2. DOMAIN pub = 1 .. OneTimeCount  OBVIOUS
  <2> QED  BY <1>1, <2>1, <2>2 DEF OneTimePrekey
<1>3. GenerateDeviceKeys(d).one_time_prekeys_public = pub
  BY DEF GenerateDeviceKeys
<1> HIDE DEF pub
<1> QED  BY <1>1, <1>2, <1>3 DEF InStock

LEMMA StockInvNext ==
  ASSUME KeysInv, StockInv, [Next]_vars  PROVE StockInv'
<1>1. ASSUME NEW o \in offers, ConsumeOneTimePrekey(o)  PROVE StockInv'
  <2> DEFINE pub == keys.one_time_prekeys_public
             pubN == keys'.one_time_prekeys_public
  <2>1. PICK idx \in 1 .. Len(pub) :
          /\ RemoveBoth(idx)
          /\ taken' = taken \cup {keys.one_time_prekeys_private[idx]}
    BY <1>1 DEF ConsumeOneTimePrekey
  <2>2. /\ keys'.device = keys.device
        /\ \A m \in 1 .. Len(pub) \ {idx} : \E n \in 1 .. Len(pubN) : pubN[n] = pub[m]
    BY <2>1, RemoveBothEffect DEF KeysInv
  <2>3. keys.one_time_prekeys_private[idx] = OneTimeKey(keys.device, pub[idx].key_id)
    BY DEF KeysInv, KeysOK
  <2>4. stored' = stored
    BY <1>1 DEF ConsumeOneTimePrekey
  <2> HIDE DEF pub, pubN
  <2>5. ASSUME NEW k \in Nat, k < OneTimeCount
        PROVE  OneTimeKey(keys.device, k) \in taken' \/ InStock(keys', k)
    <3>1. CASE OneTimeKey(keys.device, k) \in taken
      BY <3>1, <2>1
    <3>2. CASE InStock(keys, k)
      <4>1. PICK m \in 1 .. Len(pub) : pub[m].key_id = k
        BY <3>2 DEF InStock, pub
      <4>2. CASE m = idx
        BY <4>1, <4>2, <2>1, <2>3
      <4>3. CASE m # idx
        <5>1. PICK n \in 1 .. Len(pubN) : pubN[n] = pub[m]
          BY <4>3, <2>2
        <5> QED  BY <4>1, <5>1 DEF InStock, pubN
      <4> QED  BY <4>2, <4>3
    <3> QED  BY <3>1, <3>2, <2>5 DEF StockInv, StockOK
  <2> QED  BY <2>1, <2>2, <2>4, <2>5 DEF StockInv, StockOK
<1>2. CASE SetUpAnew
  <2>1. /\ keys' = GenerateDeviceKeys(devices + 1) /\ devices + 1 \in Device
        /\ stored' = stored /\ taken' = taken
    BY <1>2 DEF SetUpAnew, KeysInv, Device
  <2>2. StockOK(keys)'
    BY <2>1, GeneratedInStock DEF StockOK
  <2> QED  BY <2>1, <2>2 DEF StockInv, StockOK
<1>3. CASE SaveKeys
  BY <1>3 DEF SaveKeys, StockInv, StockOK
<1>4. CASE Restart
  BY <1>4 DEF Restart, StockInv, StockOK
<1>5. CASE UNCHANGED <<keys, stored, taken>>
  BY <1>5 DEF StockInv, StockOK
<1> QED
  BY <1>1, <1>2, <1>3, <1>4, <1>5 DEF Next, vars, ExportPublicBundle, Offer,
     DeriveWithout, DeriveWithOneTime, Derive

-----------------------------------------------------------------------------
(* All of it together, and the theorems.                                     *)

Inv ==
  /\ KeysInv /\ BundleInv /\ OfferInv /\ HandInv /\ AnswerInv
  /\ HistoryInv /\ SpentInv /\ UsedOnceInv /\ StockInv

LEMMA InvInit == Init => Inv
<1> SUFFICES ASSUME Init PROVE Inv  OBVIOUS
<1>1. KeysInv  BY KeysInvInit
<1>2. /\ bundles = {} /\ offers = {} /\ in_hand = {} /\ answers = {}
      /\ taken = {} /\ forgotten = {} /\ restarts = 0
  BY DEF Init
<1>3. BundleInv /\ OfferInv /\ HandInv /\ AnswerInv
  BY <1>2, FS_EmptySet DEF BundleInv, OfferInv, HandInv, AnswerInv
<1>4. HistoryInv /\ SpentInv /\ UsedOnceInv
  BY <1>2 DEF HistoryInv, SpentInv, UsedOnceInv, OneTimeKeyServesOnce
<1>5. StockInv
  <2>1. keys = GenerateDeviceKeys(1) /\ stored = keys /\ 1 \in Device
    BY DEF Init, Device
  <2> QED  BY <2>1, GeneratedInStock DEF StockInv, StockOK
<1> QED  BY <1>1, <1>3, <1>4, <1>5 DEF Inv

LEMMA InvNext == Inv /\ [Next]_vars => Inv'
  BY KeysInvNext, BundleInvNext, OfferInvNext, HandInvNext, AnswerInvNext,
     HistoryInvNext, SpentInvNext, UsedOnceInvNext, StockInvNext DEF Inv

LEMMA Invariance == Spec => []Inv
  BY InvInit, InvNext, PTL DEF Spec

\* Every reachable state is well typed: the two vectors of one-time prekeys
\* never get out of step, however the prekeys are consumed.
THEOREM TypeCorrect == Spec => []TypeOK
<1>1. Inv => TypeOK
  <2> SUFFICES ASSUME Inv PROVE TypeOK  OBVIOUS
  <2> USE DEF Inv
  <2>1. /\ {keys, stored} \subseteq DeviceKeys
        /\ \A ks \in {keys, stored} :
             Len(ks.one_time_prekeys_public) = Len(ks.one_time_prekeys_private)
        /\ devices \in Device
    BY DEF KeysInv, KeysOK
  <2>2. \A d \in Device, k \in Nat : OneTimeKey(d, k) \in KeyPairs
    BY DEF OneTimeKey, KeyPairs
  <2>3. \A b \in bundles : b.device \in Device /\ \A p \in b.one_time_prekeys :
          p.key_id \in Nat /\ p.public_key \in KeyPairs
    BY <2>2 DEF BundleInv
  <2>4. \A o \in offers :
          /\ o.initiator \in Initiator /\ o.ephemeral \in Nat
          /\ o.device \in Device /\ o.key_id \in Nat
          /\ o.one_time \in KeyPairs \cup {NoKey}
    BY <2>2 DEF OfferInv, OfferOK
  <2>5. /\ \A h \in in_hand : h.offer \in offers /\ h.one_time \in KeyPairs
        /\ \A a \in answers : a.offer \in offers /\ a.device \in Device
        /\ taken \subseteq KeyPairs /\ forgotten \subseteq taken
        /\ restarts \in Nat
    BY DEF HandInv, AnswerInv, HistoryInv
  <2> QED  BY <2>1, <2>3, <2>4, <2>5 DEF TypeOK
<1> QED  BY <1>1, Invariance, PTL

\* Responder and initiator derive the same root exactly when the offer was
\* made for the device that answers it, in whatever order offers arrive.
THEOREM RootsAlwaysAgree == Spec => []RootsAgree
<1>1. Inv => RootsAgree  BY DEF Inv, AnswerInv, RootsAgree
<1> QED  BY <1>1, Invariance, PTL

\* A one-time prekey serves two answers only if a crash undid its consumption.
THEOREM OneTimeKeysServeOnce == Spec => []OneTimeKeyServesOnce
<1>1. Inv => OneTimeKeyServesOnce  BY DEF Inv, UsedOnceInv
<1> QED  BY <1>1, Invariance, PTL

\* No offer for the present device is refused unless its prekey was taken.
THEOREM RefusalsAreJustified == Spec => []RefusedOnlyIfTaken
<1>1. Inv => RefusedOnlyIfTaken
  <2> SUFFICES ASSUME Inv, NEW o \in offers, o.one_time # NoKey,
                      o.device = keys.device, NotFound(o.key_id)
               PROVE  o.one_time \in taken
    BY DEF RefusedOnlyIfTaken
  <2>1. /\ o.key_id \in Nat /\ o.key_id < OneTimeCount
        /\ o.one_time = OneTimeKey(keys.device, o.key_id)
    BY DEF Inv, OfferInv, OfferOK
  <2>2. ~InStock(keys, o.key_id)
    <3> SUFFICES ASSUME NEW n \in 1 .. Len(keys.one_time_prekeys_public),
                        keys.one_time_prekeys_public[n].key_id = o.key_id
                 PROVE  IsPosition(n, o.key_id)
      BY DEF InStock, NotFound
    <3>1. /\ keys.one_time_prekeys_public \in Seq([key_id : Nat, public_key : KeyPairs])
          /\ \A i, j \in 1 .. Len(keys.one_time_prekeys_public) :
               keys.one_time_prekeys_public[i].key_id = keys.one_time_prekeys_public[j].key_id
                 => i = j
      BY DEF Inv, KeysInv, KeysOK, DeviceKeys
    <3> QED  BY <3>1 DEF IsPosition
  <2> QED  BY <2>1, <2>2 DEF Inv, StockInv, StockOK
<1> QED  BY <1>1, Invariance, PTL
=============================================================================
