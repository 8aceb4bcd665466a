---------------------------- MODULE KeyAgreement ----------------------------
(***************************************************************************)
(* The root key a session starts from: crates/crypto's DeviceKeys with their *)
(* one-time prekeys, consume_one_time_prekey and the two derivations of the   *)
(* bootstrap root key.                                                      *)
(*                                                                          *)
(* One device publishes bundles; initiators derive a root from any bundle    *)
(* they have, however old, and mail what the responder needs to do the same. *)
(* Such an offer is handled at any time, any number of times, in any order,  *)
(* or never.  The repository holds the calls and not their caller: the order *)
(* of consuming and deriving is that of the crate's own test, and the keys   *)
(* may be saved, or lost in a crash, between any two calls.                  *)
(*                                                                          *)
(* A key pair is a symbol which stands for both its halves; the              *)
(* Diffie-Hellman secret of two pairs is the unordered set of the two, and   *)
(* the HKDF of a sequence of secrets is that sequence.                       *)
(***************************************************************************)
EXTENDS Integers, FiniteSets, SequencesExt

CONSTANTS
  Initiator,     \* those who derive a root from this device's bundles
  OneTimeCount,  \* generate_device_keys' one_time_count
  MaxDevices,    \* bound: how often the device is set up, the first included
  MaxOffers,     \* bound: offers made
  MaxAnswers,    \* bound: roots derived by the responder
  MaxRestarts    \* bound: crashes of the responder

ASSUME BoundsAssumption ==
  {OneTimeCount, MaxDevices, MaxOffers, MaxAnswers, MaxRestarts} \subseteq Nat

VARIABLES
  keys,      \* DeviceKeys in memory
  stored,    \* DeviceKeys as last saved
  devices,   \* how many devices there have been
  bundles,   \* PrekeyBundlePublics exported so far
  offers,    \* roots derived by initiators, with what they mail
  in_hand,   \* offers whose one-time prekey is taken and root not yet derived
  answers,   \* roots derived by the responder
  taken,     \* history: one-time pairs consumed
  forgotten, \* history: those whose consumption a crash undid
  restarts

vars == <<keys, stored, devices, bundles, offers, in_hand, answers,
          taken, forgotten, restarts>>

Device    == Nat \ {0}
NoKey     == <<"none", 0>>
IdentityKey(d)    == <<"identity", d>>
SignedPrekey(d)   == <<"signed_prekey", d>>
OneTimeKey(d, k)  == <<"one_time", d, k>>
InitiatorKey(i)   == <<"initiator", i>>
EphemeralKey(n)   == <<"ephemeral", n>>     \* random_x25519_private

DH(own, remote) == {own, remote}

\* key_ids are counted from 0 on every device.
OneTimePrekey(d, k) == [key_id |-> k, public_key |-> OneTimeKey(d, k)]
GenerateDeviceKeys(d) ==
  [device |-> d,
   one_time_prekeys_public  |-> [n \in 1 .. OneTimeCount |-> OneTimePrekey(d, n - 1)],
   one_time_prekeys_private |-> [n \in 1 .. OneTimeCount |-> OneTimeKey(d, n - 1)]]

PublicBundle(ks) ==
  [device |-> ks.device, one_time_prekeys |-> Range(ks.one_time_prekeys_public)]

\* The two derivations, each with the secrets in the order it appends them.
InitiatorRoot(identity, ephemeral, d, one_time) ==
  << DH(identity, SignedPrekey(d)),
     DH(ephemeral, IdentityKey(d)),
     DH(ephemeral, SignedPrekey(d)),
     IF one_time = NoKey THEN {} ELSE DH(ephemeral, one_time) >>

ResponderRoot(d, one_time, identity, ephemeral) ==
  << DH(SignedPrekey(d), identity),
     DH(IdentityKey(d), ephemeral),
     DH(SignedPrekey(d), ephemeral),
     IF one_time = NoKey THEN {} ELSE DH(one_time, ephemeral) >>

Init ==
  /\ keys = GenerateDeviceKeys(1)
  /\ stored = keys
  /\ devices = 1
  /\ bundles = {} /\ offers = {} /\ in_hand = {} /\ answers = {}
  /\ taken = {} /\ forgotten = {}
  /\ restarts = 0

-----------------------------------------------------------------------------
ExportPublicBundle ==
  /\ bundles' = bundles \cup {PublicBundle(keys)}
  /\ UNCHANGED <<keys, stored, devices, offers, in_hand, answers, taken,
                 forgotten, restarts>>

\* The parameter of the initiator is an Option: a key of the bundle, or none.
OneTimeChoices(b) == b.one_time_prekeys \cup {[key_id |-> 0, public_key |-> NoKey]}

Offer(i, b, choice) ==
  LET n == Cardinality(offers)
  IN  /\ n < MaxOffers
      /\ offers' = offers \cup
           {[initiator |-> i, ephemeral |-> n, device |-> b.device,
             key_id |-> choice.key_id, one_time |-> choice.public_key,
             root |-> InitiatorRoot(InitiatorKey(i), EphemeralKey(n),
                                    b.device, choice.public_key)]}
      /\ UNCHANGED <<keys, stored, devices, bundles, in_hand, answers,
                     taken, forgotten, restarts>>

\* consume_one_time_prekey: the position of the id among the public keys...
\* Slip: the id is taken for the position.
IsPositionById(idx, key_id) ==
  idx \in DOMAIN keys.one_time_prekeys_public /\ idx = key_id + 1
IsPosition(idx, key_id) ==
  /\ idx \in DOMAIN keys.one_time_prekeys_public
  /\ keys.one_time_prekeys_public[idx].key_id = key_id
  /\ \A j \in 1 .. idx - 1 : keys.one_time_prekeys_public[j].key_id # key_id

NotFound(key_id) ==
  ~\E idx \in 1 .. Len(keys.one_time_prekeys_public) : IsPosition(idx, key_id)

\* ... is removed from both vectors; an id that is not there is an error and
\* leaves the keys as they are.  Slips: the last private key is popped; no
\* private key is removed; the keys are read and not removed.
RemoveAndPop(idx) ==
  keys' = [keys EXCEPT !.one_time_prekeys_public  = RemoveAt(@, idx),
                       !.one_time_prekeys_private = Front(@)]
RemovePublic(idx) ==
  keys' = [keys EXCEPT !.one_time_prekeys_public = RemoveAt(@, idx)]
RemoveNothing(idx) == UNCHANGED keys
RemoveBoth(idx) ==
  keys' = [keys EXCEPT !.one_time_prekeys_public  = RemoveAt(@, idx),
                       !.one_time_prekeys_private = RemoveAt(@, idx)]

ConsumeOneTimePrekey(o) ==
  /\ o.one_time # NoKey
  /\ \E idx \in 1 .. Len(keys.one_time_prekeys_public) :
       LET private == keys.one_time_prekeys_private[idx]
       IN  /\ IsPosition(idx, o.key_id)
           /\ RemoveBoth(idx)
           /\ in_hand' = in_hand \cup {[offer |-> o, one_time |-> private]}
           /\ taken' = taken \cup {private}
  /\ UNCHANGED <<stored, devices, bundles, offers, answers, forgotten, restarts>>

\* derive_bootstrap_root_key_responder, with the keys the device has by then.
Answer(o, one_time) ==
  [n |-> Cardinality(answers), offer |-> o, device |-> keys.device,
   one_time |-> one_time,
   root |-> ResponderRoot(keys.device, one_time, InitiatorKey(o.initiator),
                          EphemeralKey(o.ephemeral))]

Derive(o, one_time) ==
  /\ Cardinality(answers) < MaxAnswers
  /\ answers' = answers \cup {Answer(o, one_time)}
  /\ UNCHANGED <<keys, stored, devices, bundles, offers, taken, forgotten, restarts>>

DeriveWithOneTime(h) ==
  /\ Derive(h.offer, h.one_time)
  /\ in_hand' = in_hand \ {h}

DeriveWithout(o) ==
  /\ o.one_time = NoKey
  /\ Derive(o, NoKey)
  /\ UNCHANGED in_hand

\* The device is set up anew, with key_ids from 0 again.
SetUpAnew ==
  /\ devices < MaxDevices
  /\ devices' = devices + 1
  /\ keys' = GenerateDeviceKeys(devices')
  /\ UNCHANGED <<stored, bundles, offers, in_hand, answers, taken,
                 forgotten, restarts>>

SaveKeys ==
  /\ stored' = keys
  /\ UNCHANGED <<keys, devices, bundles, offers, in_hand, answers, taken,
                 forgotten, restarts>>

\* A crash between any two calls: the keys saved last are loaded.
Restart ==
  /\ restarts < MaxRestarts
  /\ restarts' = restarts + 1
  /\ keys' = stored
  /\ in_hand' = {}
  /\ forgotten' = forgotten \cup (taken \cap Range(stored.one_time_prekeys_private))
  /\ UNCHANGED <<stored, devices, bundles, offers, answers, taken>>

Next ==
  \/ ExportPublicBundle
  \/ \E i \in Initiator, b \in bundles : \E choice \in OneTimeChoices(b) : Offer(i, b, choice)
  \/ \E o \in offers :
       DeriveWithout(o) \/ ConsumeOneTimePrekey(o)
  \/ \E h \in in_hand : DeriveWithOneTime(h)
  \/ SetUpAnew
  \/ SaveKeys
  \/ Restart

Spec == Init /\ [][Next]_vars

-----------------------------------------------------------------------------
(* Properties.                                                              *)

KeyPairs == {"one_time"} \X Device \X Nat

DeviceKeys ==
  [device : Device,
   one_time_prekeys_public  : Seq([key_id : Nat, public_key : KeyPairs]),
   one_time_prekeys_private : Seq(KeyPairs)]

\* The two vectors of one-time prekeys stay vectors of keys of equal length,
\* and what is exported, offered and taken are keys of some device.
TypeOK ==
  /\ {keys, stored} \subseteq DeviceKeys
  /\ \A ks \in {keys, stored} :
       Len(ks.one_time_prekeys_public) = Len(ks.one_time_prekeys_private)
  /\ devices \in Device
  /\ \A b \in bundles : b.device \in Device /\ \A p \in b.one_time_prekeys :
       p.key_id \in Nat /\ p.public_key \in KeyPairs
  /\ \A o \in offers :
       /\ o.initiator \in Initiator /\ o.ephemeral \in Nat
       /\ o.device \in Device /\ o.key_id \in Nat
       /\ o.one_time \in KeyPairs \cup {NoKey}
  /\ \A h \in in_hand : h.offer \in offers /\ h.one_time \in KeyPairs
  /\ \A a \in answers : a.offer \in offers /\ a.device \in Device
  /\ taken \subseteq KeyPairs /\ forgotten \subseteq taken
  /\ restarts \in Nat

\* Both sides derive the same root, whichever bundle the initiator used and
\* whatever other offers were answered in between, unless the device was set
\* up anew: then the roots differ, also where the new device has a key under
\* the same key_id (derive_bootstrap_root_key_initiator and _responder).
RootsAgree ==
  \A a \in answers : a.root = a.offer.root <=> a.device = a.offer.device

\* A one-time prekey serves one answer only, however many initiators found it
\* in their bundles and however often an offer is handed over, unless a crash
\* made the device forget that it had used it (consume_one_time_prekey).
OneTimeKeyServesOnce ==
  \A a, b \in answers :
    a # b /\ a.one_time = b.one_time /\ a.one_time # NoKey => a.one_time \in forgotten

\* An offer made for the device that handles it is refused for one reason
\* only: its one-time prekey was taken before.
RefusedOnlyIfTaken ==
  \A o \in offers :
    o.one_time # NoKey /\ o.device = keys.device /\ NotFound(o.key_id)
      => o.one_time \in taken
=============================================================================
