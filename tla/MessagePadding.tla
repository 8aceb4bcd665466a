--------------------------- MODULE MessagePadding ---------------------------
(***************************************************************************)
(* How crates/envelope hides the length of a message: padded_plaintext fills *)
(* it up with zero bytes, open_message takes what stands before the first    *)
(* zero.  A plaintext is canonical JSON, whose bytes are never zero (control *)
(* characters are escaped).                                                 *)
(***************************************************************************)
EXTENDS Integers, Sequences, TLAPS

Byte    == 0 .. 255
Buckets == {512, 1024, 2048, 4096, 8192}

Target(n) ==
  IF n <= 8192 THEN CHOOSE b \in Buckets : n <= b /\ \A c \in Buckets : n <= c => b <= c
               ELSE ((n \div 16384) + 1) * 16384

PaddedPlaintext(p) ==
  [i \in 1 .. Target(Len(p)) |-> IF i <= Len(p) THEN p[i] ELSE 0]

\* take_while(|byte| *byte != 0)
BeforeZero(q, k) == (\A i \in 1 .. k : q[i] # 0) /\ (k < Len(q) => q[k + 1] = 0)
Trimmed(q) == SubSeq(q, 1, CHOOSE k \in 0 .. Len(q) : BeforeZero(q, k))

-----------------------------------------------------------------------------
LEMMA BucketChosen ==
  ASSUME NEW n \in Nat, n <= 8192
  PROVE  /\ Target(n) \in Buckets /\ n <= Target(n)
         /\ \A c \in Buckets : n <= c => Target(n) <= c
<1>1. \E b \in Buckets : n <= b /\ \A c \in Buckets : n <= c => b <= c
  <2>1. CASE n <= 512                  BY <2>1 DEF Buckets
  <2>2. CASE 512 < n /\ n <= 1024      BY <2>2 DEF Buckets
  <2>3. CASE 1024 < n /\ n <= 2048     BY <2>3 DEF Buckets
  <2>4. CASE 2048 < n /\ n <= 4096     BY <2>4 DEF Buckets
  <2>5. CASE 4096 < n                  BY <2>5 DEF Buckets
  <2> QED  BY <2>1, <2>2, <2>3, <2>4, <2>5
<1> QED  BY <1>1 DEF Target

LEMMA TargetType ==
  ASSUME NEW n \in Nat  PROVE Target(n) \in Nat /\ n <= Target(n)
<1>1. CASE n <= 8192
  BY <1>1, BucketChosen DEF Buckets
<1>2. CASE n > 8192
  BY <1>2 DEF Target
<1> QED  BY <1>1, <1>2

\* Nothing is cut off and the trimming stops where the padding began: what is
\* opened is what was sealed, for a message of any length (padded_plaintext,
\* open_message).
THEOREM OpenedIsSealed ==
  ASSUME NEW p \in Seq(Byte \ {0})
  PROVE  /\ Len(PaddedPlaintext(p)) = Target(Len(p))
         /\ Trimmed(PaddedPlaintext(p)) = p
<1> DEFINE q == PaddedPlaintext(p)
           n == Len(p)
           t == Target(n)
<1>1. n \in Nat /\ t \in Nat /\ n <= t
  BY TargetType
<1>2. q = [i \in 1 .. t |-> IF i <= n THEN p[i] ELSE 0]
  BY DEF PaddedPlaintext
<1> HIDE DEF t
<1>3. /\ q \in Seq(Byte) /\ Len(q) = t
      /\ \A i \in 1 .. n : q[i] = p[i] /\ p[i] # 0
      /\ \A i \in n + 1 .. t : q[i] = 0
  <2>1. \A i \in 1 .. n : p[i] \in Byte \ {0}
    OBVIOUS
  <2>2. \A i \in 1 .. t : q[i] = (IF i <= n THEN p[i] ELSE 0)
    BY <1>2
  <2>3. q \in [1 .. t -> Byte]
    BY <1>1, <1>2, <2>1 DEF Byte
  <2>4. q \in Seq(Byte) /\ Len(q) = t
    BY <1>1, <2>3
  <2> QED  BY <1>1, <2>1, <2>2, <2>4
<1> HIDE DEF q
<1>4. BeforeZero(q, n) /\ n \in 0 .. Len(q)
  BY <1>1, <1>3 DEF BeforeZero
<1>5. ASSUME NEW k \in 0 .. Len(q), BeforeZero(q, k)  PROVE k = n
  <2>1. CASE k < n
    <3>1. k + 1 \in 1 .. n
      BY <1>1, <2>1
    <3> QED  BY <1>1, <1>3, <1>5, <2>1, <3>1 DEF BeforeZero
  <2>2. CASE k > n
    <3>1. n + 1 \in 1 .. k /\ n + 1 \in n + 1 .. t
      BY <1>1, <1>3, <2>2
    <3> QED  BY <1>3, <1>5, <3>1 DEF BeforeZero
  <2> QED  BY <1>1, <2>1, <2>2
<1>6. (CHOOSE k \in 0 .. Len(q) : BeforeZero(q, k)) = n
  BY <1>4, <1>5
<1>7. Trimmed(q) = SubSeq(q, 1, n)
  BY <1>6 DEF Trimmed
<1>8. SubSeq(q, 1, n) = [i \in 1 .. n |-> q[i]]
  BY <1>1, <1>3
<1>9. p = [i \in 1 .. n |-> p[i]]
  OBVIOUS
<1>10. [i \in 1 .. n |-> q[i]] = [i \in 1 .. n |-> p[i]]
  BY <1>3
<1> QED  BY <1>3, <1>7, <1>8, <1>9, <1>10 DEF q, t

\* What a mail tells of the message's length: one of five sizes or a multiple
\* of 16384, and a longer message never looks shorter (padded_plaintext).
THEOREM LengthsShown ==
  ASSUME NEW n \in Nat
  PROVE  /\ Target(n) \in Buckets \/ \E k \in Nat : Target(n) = k * 16384
         /\ \A m \in Nat : m <= n => Target(m) <= Target(n)
<1>1. CASE n <= 8192
  <2>1. Target(n) \in Buckets /\ n <= Target(n)
    BY <1>1, BucketChosen
  <2>2. ASSUME NEW m \in Nat, m <= n  PROVE Target(m) <= Target(n)
    BY <1>1, <2>1, <2>2, BucketChosen DEF Buckets
  <2> QED  BY <2>1, <2>2
<1>2. CASE n > 8192
  <2>1. Target(n) = ((n \div 16384) + 1) * 16384 /\ (n \div 16384) + 1 \in Nat
    BY <1>2 DEF Target
  <2>2. ASSUME NEW m \in Nat, m <= n  PROVE Target(m) <= Target(n)
    <3>1. CASE m <= 8192
      <4>1. Target(m) <= 8192 /\ Target(m) \in Nat
        BY <3>1, BucketChosen DEF Buckets
      <4> QED  BY <2>1, <4>1
    <3>2. CASE m > 8192
      BY <2>1, <2>2, <3>2 DEF Target
    <3> QED  BY <3>1, <3>2
  <2> QED  BY <2>1, <2>2
<1> QED  BY <1>1, <1>2
=============================================================================
