------------------------- MODULE MailboxSyncProofs -------------------------
(***************************************************************************)
(* What a mailbox and its reader keep, and what the cursor promises, for any *)
(* number of deliveries, deletions and faults.                              *)
(***************************************************************************)
EXTENDS MailboxSync, SequenceTheorems, TLAPS

-----------------------------------------------------------------------------
(* Type correctness.                                                        *)

\* What the loop knows of the folder was given out by the server: every UID in
\* the folder, in the loop's hands or in the cursor is below uid_next.
TypeInv ==
  /\ TypeOK
  /\ \A i \in 1 .. Len(folder) : folder[i] < uid_next
  /\ uids \cup out \subseteq 1 .. uid_next - 1
  /\ highest \in 0 .. uid_next - 1

\* A deletion moves the later messages one position up.
LEMMA ExpungeEffect ==
  ASSUME NEW s \in Seq(Uid), NEW i \in 1 .. Len(s)
  PROVE  /\ RemoveAt(s, i) \in Seq(Uid)
         /\ Len(RemoveAt(s, i)) = Len(s) - 1
         /\ \A j \in 1 .. Len(s) - 1 :
              RemoveAt(s, i)[j] = s[IF j < i THEN j ELSE j + 1]
<1> DEFINE l == Len(s)
           before == SubSeq(s, 1, i - 1)
           after  == SubSeq(s, i + 1, l)
<1>1. l \in Nat /\ i \in 1 .. l /\ \A j \in 1 .. l : s[j] \in Uid
  BY ElementOfSeq
<1>2. /\ before \in Seq(Uid) /\ Len(before) = i - 1
      /\ \A j \in 1 .. i - 1 : before[j] = s[j]
  BY <1>1, SubSeqProperties, i - 1 \in Int
<1>3. /\ after \in Seq(Uid) /\ Len(after) = l - i
      /\ \A j \in 1 .. l - i : after[j] = s[i + j]
  BY <1>1, SubSeqProperties, i + 1 \in Int
<1>4. RemoveAt(s, i) = before \o after
  BY DEF RemoveAt
<1> HIDE DEF before, after, l
<1>5. /\ before \o after \in Seq(Uid) /\ Len(before \o after) = Len(before) + Len(after)
      /\ \A j \in 1 .. Len(before) + Len(after) : (before \o after)[j] =
           IF j <= Len(before) THEN before[j] ELSE after[j - Len(before)]
  BY <1>2, <1>3, ConcatProperties
<1>6. ASSUME NEW j \in 1 .. l - 1
      PROVE  (before \o after)[j] = s[IF j < i THEN j ELSE j + 1]
  <2>1. CASE j < i
    BY <1>1, <1>2, <1>3, <1>5, <2>1
  <2>2. CASE ~(j < i)
    <3>1. j - (i - 1) \in 1 .. l - i /\ i + (j - (i - 1)) = j + 1
      BY <1>1, <2>2
    <3>2. after[j - (i - 1)] = s[j + 1]
      BY <1>3, <3>1
    <3> QED  BY <1>1, <1>2, <1>3, <1>5, <2>2, <3>2
  <2> QED  BY <2>1, <2>2
<1>7. Len(before \o after) = l - 1
  BY <1>1, <1>2, <1>3, <1>5
<1> QED
  BY <1>4, <1>5, <1>6, <1>7 DEF l

\* What a search finds is in the folder.
LEMMA SearchFinds ==
  ASSUME folder \in Seq(Uid), NEW from \in Nat, from >= 1, NEW found \in SearchAnswers(from)
  PROVE  \A u \in found : \E i \in 1 .. Len(folder) : u = folder[i]
<1>1. Len(folder) \in Nat
  OBVIOUS
<1>2. CASE from <= Len(folder)
  BY <1>1, <1>2 DEF SearchAnswers
<1>3. CASE ~(from <= Len(folder)) /\ folder = << >>
  BY <1>3 DEF SearchAnswers
<1>4. CASE ~(from <= Len(folder)) /\ folder # << >>
  <2>1. Len(folder) # 0
    BY <1>4
  <2>2. Len(folder) \in 1 .. Len(folder)
    BY <1>1, <2>1
  <2> QED  BY <1>4, <2>2 DEF SearchAnswers, Last
<1> QED  BY <1>2, <1>3, <1>4

LEMMA TypeInvInit == Init => TypeInv
<1> SUFFICES ASSUME Init PROVE TypeInv  OBVIOUS
<1>1. MaxMail \in Nat
  BY BoundsAssumption
<1>2. folder = << >> /\ folder \in Seq(Uid) /\ Len(folder) = 0
  BY DEF Init
<1> QED  BY <1>1, <1>2 DEF Init, TypeInv, TypeOK

LEMMA TypeInvNext == TypeInv /\ [Next]_vars => TypeInv'
<1> SUFFICES ASSUME TypeInv, [Next]_vars PROVE TypeInv'  OBVIOUS
<1> DEFINE Folder(f, next) ==
      /\ f \in Seq(Uid) /\ next \in 1 .. MaxMail + 1
      /\ \A i, j \in 1 .. Len(f) : i < j => f[i] < f[j]
      /\ \A i \in 1 .. Len(f) : f[i] < next
<1> DEFINE Loop(next) ==
      /\ cursor \in 0 .. next - 1 /\ highest \in 0 .. next - 1
      /\ uids \subseteq 1 .. next - 1 /\ out \subseteq 1 .. next - 1
      /\ phase \in {"idle", "fetching", "handling"} /\ (phase = "fetching" <=> uids # {})
      /\ handled \in SUBSET Uid /\ faults \in Nat
<1>1. MaxMail \in Nat
  BY BoundsAssumption
<1>2. /\ Folder(folder, uid_next) /\ Loop(uid_next)
      /\ expunged \in SUBSET Uid /\ bodiless \in SUBSET Uid
  BY DEF TypeInv, TypeOK
<1>3. ASSUME Folder(folder', uid_next'), Loop(uid_next)',
             expunged' \in SUBSET Uid, bodiless' \in SUBSET Uid
      PROVE  TypeInv'
  <2>1. \A n \in 1 .. MaxMail + 1 : 1 .. n - 1 \subseteq Uid /\ 0 .. n - 1 \subseteq 0 .. MaxMail
    BY <1>1 DEF Uid
  <2>2. 1 .. uid_next' - 1 \subseteq Uid /\ 0 .. uid_next' - 1 \subseteq 0 .. MaxMail
    BY <1>3, <2>1
  <2> QED  BY <1>3, <2>2 DEF TypeInv, TypeOK
<1>4. Len(folder) \in Nat /\ uid_next \in Nat /\ \A i \in 1 .. Len(folder) : folder[i] \in Uid
  BY <1>1, <1>2, ElementOfSeq
<1>5. ASSUME UNCHANGED server
      PROVE  /\ Folder(folder', uid_next')
             /\ expunged' \in SUBSET Uid /\ bodiless' \in SUBSET Uid
  BY <1>2, <1>5 DEF server
<1>6. ASSUME UNCHANGED <<cursor, phase, uids, out, highest, handled, faults>>,
             uid_next' \in {uid_next, uid_next + 1}
      PROVE  Loop(uid_next)'
  <2>1. \A n \in Nat : \A m \in {n, n + 1} : /\ 1 .. n - 1 \subseteq 1 .. m - 1
                                            /\ 0 .. n - 1 \subseteq 0 .. m - 1
    OBVIOUS
  <2>2. /\ 1 .. uid_next - 1 \subseteq 1 .. uid_next' - 1
        /\ 0 .. uid_next - 1 \subseteq 0 .. uid_next' - 1
    BY <1>4, <1>6, <2>1
  <2> QED  BY <1>2, <1>6, <2>2
<1>7. CASE Deliver
  <2> DEFINE l == Len(folder)
  <2>1. /\ uid_next \in Uid /\ folder' = Append(folder, uid_next) /\ uid_next' = uid_next + 1
        /\ UNCHANGED <<cursor, phase, uids, out, highest, handled, expunged, faults>>
    BY <1>1, <1>2, <1>7 DEF Deliver, Uid
  <2>2. /\ folder' \in Seq(Uid) /\ Len(folder') = l + 1 /\ folder'[l + 1] = uid_next
        /\ \A i \in 1 .. l : folder'[i] = folder[i]
    BY <1>2, <2>1, AppendProperties
  <2> HIDE DEF l
  <2>3. l \in Nat /\ \A i \in 1 .. l + 1 : i \in 1 .. l \/ i = l + 1
    BY <1>4 DEF l
  <2>4. \A i \in 1 .. l : folder[i] \in Nat /\ folder[i] < uid_next
    BY <1>2, <1>4 DEF l, Uid
  <2>5. ASSUME NEW i \in 1 .. l + 1  PROVE folder'[i] < uid_next + 1
    <3>1. CASE i \in 1 .. l
      BY <1>4, <2>2, <2>4, <3>1
    <3>2. CASE i = l + 1
      BY <1>4, <2>2, <3>2
    <3> QED  BY <2>3, <3>1, <3>2
  <2>6. ASSUME NEW i \in 1 .. l + 1, NEW j \in 1 .. l + 1, i < j
        PROVE  folder'[i] < folder'[j]
    <3>1. i \in 1 .. l
      BY <2>3, <2>6
    <3> QED  BY <1>2, <2>2, <2>3, <2>4, <2>6, <3>1 DEF l
  <2>7. uid_next' \in 1 .. MaxMail + 1
    BY <1>1, <2>1 DEF Uid
  <2>8. bodiless' \in SUBSET Uid
    BY <1>2, <1>7, <2>1 DEF Deliver
  <2> QED  BY <1>2, <1>3, <1>6, <2>1, <2>2, <2>5, <2>6, <2>7, <2>8
<1>8. ASSUME NEW i \in 1 .. Len(folder), Expunge(i)  PROVE TypeInv'
  <2> DEFINE l == Len(folder)
             At(j) == IF j < i THEN j ELSE j + 1
  <2>1. /\ folder' = RemoveAt(folder, i) /\ expunged' = expunged \cup {folder[i]}
        /\ UNCHANGED <<uid_next, bodiless, cursor, phase, uids, out, highest, handled, faults>>
    BY <1>8 DEF Expunge
  <2>2. /\ folder' \in Seq(Uid) /\ Len(folder') = l - 1
        /\ \A j \in 1 .. l - 1 : folder'[j] = folder[At(j)]
    BY <1>2, <2>1, ExpungeEffect
  <2>3. /\ \A j \in 1 .. l - 1 : At(j) \in 1 .. l
        /\ \A j, k \in 1 .. l - 1 : j < k => At(j) < At(k)
    BY <1>4
  <2> HIDE DEF l, At
  <2>4. /\ \A j \in 1 .. l - 1 : folder'[j] < uid_next
        /\ \A j, k \in 1 .. l - 1 : j < k => folder'[j] < folder'[k]
    BY <1>2, <2>2, <2>3 DEF l
  <2>5. expunged' \in SUBSET Uid
    BY <1>2, <1>4, <2>1
  <2> QED  BY <1>2, <1>3, <1>6, <2>1, <2>2, <2>4, <2>5
<1>9. CASE Search
  <2>1. PICK found \in SearchAnswers(cursor + 1) : found # {} /\ uids' = found /\ highest' = 0
    BY <1>9 DEF Search, SearchFrom
  <2>2. phase' = "fetching" /\ UNCHANGED server /\ UNCHANGED <<cursor, out, handled, faults>>
    BY <1>9 DEF Search
  <2>3. cursor + 1 \in Nat /\ cursor + 1 >= 1
    BY <1>2, <1>4
  <2>4. \A u \in found : \E i \in 1 .. Len(folder) : u = folder[i]
    BY <1>2, <2>3, SearchFinds
  <2>5. found \subseteq 1 .. uid_next - 1
    BY <1>1, <1>2, <1>4, <2>4 DEF Uid
  <2>6. Loop(uid_next)'
    BY <1>2, <1>4, <2>1, <2>2, <2>5 DEF server
  <2> QED  BY <1>3, <1>5, <2>2, <2>6
<1>10. ASSUME NEW u \in uids, FetchOne(u)  PROVE TypeInv'
  <2>1. /\ phase = "fetching" /\ uids' = uids \ {u}
        /\ \/ out' = out \cup {u} /\ highest' = Highest({highest, u})
           \/ UNCHANGED <<out, highest>>
        /\ phase' = (IF uids = {u} THEN "handling" ELSE "fetching")
        /\ UNCHANGED server /\ UNCHANGED <<cursor, handled, faults>>
    BY <1>10 DEF FetchOne
  <2>2. /\ u \in 1 .. uid_next - 1 /\ u \in 0 .. uid_next - 1
        /\ highest \in Nat /\ u \in Nat
    BY <1>2, <1>4
  <2>3. Highest({highest, u}) \in {highest, u}
    <3>1. \E w \in {highest, u} : \A v \in {highest, u} : v <= w
      BY <2>2
    <3> QED  BY <3>1 DEF Highest
  <2>4. highest' \in 0 .. uid_next - 1 /\ out' \subseteq 1 .. uid_next - 1
    <3>1. highest' \in {highest, u}
      BY <2>1, <2>3
    <3>2. out' \subseteq out \cup {u}
      BY <2>1
    <3> QED  BY <1>2, <2>2, <3>1, <3>2
  <2>5. phase' \in {"fetching", "handling"} /\ (phase' = "fetching" <=> uids' # {})
    BY <2>1
  <2>6. Loop(uid_next)'
    BY <1>2, <2>1, <2>4, <2>5 DEF server
  <2> QED  BY <1>3, <1>5, <2>1, <2>6
<1>11. ASSUME NEW u \in out, Handle(u)  PROVE TypeInv'
  <2>1. /\ out' = out \ {u} /\ handled' = handled \cup {u} /\ UNCHANGED server
        /\ UNCHANGED <<cursor, phase, uids, highest, faults>>
    BY <1>11 DEF Handle
  <2>2. u \in Uid
    BY <1>1, <1>2, <1>4 DEF Uid
  <2>3. Loop(uid_next)'
    BY <1>2, <2>1, <2>2 DEF server
  <2> QED  BY <1>3, <1>5, <2>1, <2>3
<1>12. CASE SaveCursor
  <2>1. /\ phase = "handling" /\ phase' = "idle" /\ cursor' \in {cursor, highest}
        /\ UNCHANGED server /\ UNCHANGED <<uids, out, highest, handled, faults>>
    BY <1>12 DEF SaveCursor
  <2>2. Loop(uid_next)'
    BY <1>2, <2>1 DEF server
  <2> QED  BY <1>3, <1>5, <2>1, <2>2
<1>13. CASE Abandon
  <2>1. /\ faults' = faults + 1 /\ phase' = "idle" /\ uids' = {} /\ out' = {} /\ highest' = 0
        /\ UNCHANGED server /\ UNCHANGED <<cursor, handled>>
    BY <1>13 DEF Abandon, Dropped
  <2>2. Loop(uid_next)'
    BY <1>2, <1>4, <2>1 DEF server
  <2> QED  BY <1>3, <1>5, <2>1, <2>2
<1>14. ASSUME NEW u \in uids, FetchFails(u)  PROVE TypeInv'
  <2>1. /\ phase' = "idle" /\ uids' = {} /\ out' = {} /\ highest' = 0
        /\ UNCHANGED server /\ UNCHANGED <<cursor, handled, faults>>
    BY <1>14 DEF FetchFails, Dropped
  <2>2. Loop(uid_next)'
    BY <1>2, <1>4, <2>1 DEF server
  <2> QED  BY <1>3, <1>5, <2>1, <2>2
<1>15. CASE UNCHANGED vars
  BY <1>3, <1>5, <1>6, <1>15 DEF vars, server
<1> QED
  BY <1>7, <1>8, <1>9, <1>10, <1>11, <1>12, <1>13, <1>14, <1>15 DEF Next

\* The folder is in UID order whatever is delivered and deleted, the loop holds
\* no UID the server did not give out, and the cursor stays below uid_next.
THEOREM TypeCorrect == Spec => []TypeOK
<1>1. TypeInv => TypeOK
  BY DEF TypeInv
<1> QED
  BY <1>1, TypeInvInit, TypeInvNext, PTL DEF Spec

-----------------------------------------------------------------------------
(* The cursor.                                                              *)

\* While nothing was deleted, position and UID of a message are one number; up
\* to the cursor all is handled; and of what the loop is at, nothing between
\* the cursor and any message it holds or has fetched is missing from its hands.
CursorInv ==
  expunged = {} =>
    /\ uid_next \in Nat \ {0}
    /\ folder = [i \in 1 .. uid_next - 1 |-> i]
    /\ cursor \in Nat /\ highest \in Nat
    /\ uids \subseteq 1 .. uid_next - 1
    /\ \A u \in 1 .. cursor : u \in handled
    /\ phase = "fetching" <=> uids # {}
    /\ \A v \in uids \cup {highest} : \A u \in 1 .. v :
         u <= cursor \/ u \in uids \cup out \cup handled

\* Appending to such a folder, and what is found in it.
LEMMA FolderAppend ==
  ASSUME NEW n \in Nat
  PROVE  Append([i \in 1 .. n |-> i], n + 1) = [i \in 1 .. n + 1 |-> i]
OBVIOUS

LEMMA FolderFacts ==
  ASSUME NEW n \in Nat
  PROVE  LET f == [i \in 1 .. n |-> i]
         IN  /\ Len(f) = n
             /\ n > 0 => Last(f) = n
             /\ \A u \in 1 .. n : Contains(f, u)
             /\ f = << >> => n = 0
<1> DEFINE f == [i \in 1 .. n |-> i]
<1>1. f \in Seq(Nat) /\ Len(f) = n /\ DOMAIN f = 1 .. n /\ \A i \in 1 .. n : f[i] = i
  OBVIOUS
<1>2. f = << >> => n = 0
  BY <1>1
<1> HIDE DEF f
<1>3. n > 0 => Last(f) = n
  BY <1>1 DEF Last
<1>4. \A u \in 1 .. n : Contains(f, u)
  BY <1>1 DEF Contains
<1> QED  BY <1>1, <1>2, <1>3, <1>4 DEF f

LEMMA CursorInit == Init => CursorInv
BY DEF Init, CursorInv

LEMMA CursorNext == CursorInv /\ [Next]_vars => CursorInv'
<1> SUFFICES ASSUME CursorInv, [Next]_vars, expunged' = {}
             PROVE  CursorInv'
  BY DEF CursorInv
<1>0. \/ \E i \in 1 .. Len(folder) : Expunge(i)
      \/ expunged = {}
  BY DEF Next, vars, server, Deliver, Search, FetchOne, FetchFails, Handle, SaveCursor,
         Abandon
<1>1. expunged = {}
  BY <1>0 DEF Expunge
<1> DEFINE n == uid_next - 1
<1>2. /\ uid_next \in Nat /\ n \in Nat /\ folder = [i \in 1 .. n |-> i] /\ Len(folder) = n
      /\ cursor \in Nat /\ highest \in Nat /\ uids \subseteq 1 .. n
      /\ \A u \in 1 .. cursor : u \in handled
      /\ phase = "fetching" <=> uids # {}
      /\ \A v \in uids \cup {highest} : \A u \in 1 .. v :
           u <= cursor \/ u \in uids \cup out \cup handled
  BY <1>1, FolderFacts DEF CursorInv
<1>3. CASE Deliver
  <2>1. folder' = Append(folder, uid_next) /\ uid_next' = uid_next + 1
        /\ UNCHANGED <<cursor, phase, uids, out, highest, handled>>
    BY <1>3 DEF Deliver
  <2>2. folder' = [i \in 1 .. n + 1 |-> i]
    BY <1>2, <2>1, FolderAppend
  <2>3. uid_next' - 1 = n + 1 /\ uid_next' \in Nat \ {0} /\ uids' \subseteq 1 .. n + 1
    BY <1>2, <2>1
  <2> HIDE DEF n
  <2> QED  BY <1>2, <2>1, <2>2, <2>3 DEF CursorInv
<1>4. CASE Search
  <2>1. PICK found \in SearchAnswers(cursor + 1) : found # {} /\ uids' = found /\ highest' = 0
    BY <1>4 DEF Search, SearchFrom
  <2>2. UNCHANGED <<folder, uid_next, cursor, out, handled>> /\ phase' = "fetching"
    BY <1>4 DEF Search, server
  <2>3. uids' \subseteq 1 .. n
        /\ \A v \in uids' : \A u \in 1 .. v : u <= cursor \/ u \in uids'
    <3>1. CASE cursor + 1 <= n
      <4>1. found = {folder[i] : i \in cursor + 1 .. n}
        BY <1>2, <2>1, <3>1 DEF SearchAnswers
      <4>2. found = cursor + 1 .. n
        BY <1>2, <4>1
      <4> QED  BY <1>2, <2>1, <4>2
    <3>2. CASE ~(cursor + 1 <= n)
      <4>1. n > 0 /\ found = {n}
        BY <1>2, <2>1, <3>2, FolderFacts DEF SearchAnswers
      <4> QED  BY <1>2, <2>1, <3>2, <4>1
    <3> QED  BY <3>1, <3>2
  <2> QED  BY <1>2, <2>1, <2>2, <2>3 DEF CursorInv
<1>5. ASSUME NEW u \in uids, FetchOne(u)  PROVE CursorInv'
  <2>1. Contains(folder, u) /\ u \in Nat
    BY <1>2, FolderFacts
  <2>2. /\ uids' = uids \ {u} /\ out' = out \cup {u} /\ highest' = Highest({highest, u})
        /\ phase' = (IF uids = {u} THEN "handling" ELSE "fetching")
        /\ UNCHANGED <<folder, uid_next, cursor, handled>>
    BY <1>5, <2>1 DEF FetchOne, server
  <2>3. highest' \in {highest, u}
    <3>1. \E w \in {highest, u} : \A v \in {highest, u} : v <= w
      BY <1>2, <2>1
    <3> QED  BY <2>2, <3>1 DEF Highest
  <2>4. phase' = "fetching" <=> uids' # {}
    BY <2>2
  <2>5. \A v \in uids' \cup {highest'} : v \in uids \cup {highest}
    BY <2>2, <2>3
  <2>6. uids \cup out \cup handled = uids' \cup out' \cup handled'
    BY <2>2
  <2>7. highest' \in Nat /\ uids' \subseteq 1 .. n
    BY <1>2, <2>1, <2>2, <2>3
  <2>8. \A v \in uids' \cup {highest'} : \A k \in 1 .. v :
          k <= cursor \/ k \in uids' \cup out' \cup handled'
    BY <1>2, <2>5, <2>6
  <2>9. UNCHANGED <<folder, uid_next, cursor, handled>>
    BY <2>2
  <2>10. \A k \in 1 .. cursor' : k \in handled'
    BY <1>2, <2>9
  <2>11. /\ uid_next' \in Nat \ {0} /\ folder' = [i \in 1 .. uid_next' - 1 |-> i]
         /\ cursor' \in Nat /\ uids' \subseteq 1 .. uid_next' - 1
    BY <1>2, <2>7, <2>9
  <2>12. \A v \in uids' \cup {highest'} : \A k \in 1 .. v :
           k <= cursor' \/ k \in uids' \cup out' \cup handled'
    BY <2>8, <2>9
  <2> QED  BY <2>4, <2>7, <2>10, <2>11, <2>12 DEF CursorInv
<1>6. ASSUME NEW u \in out, Handle(u)  PROVE CursorInv'
  <2>1. /\ out' = out \ {u} /\ handled' = handled \cup {u}
        /\ UNCHANGED <<folder, uid_next, cursor, phase, uids, highest>>
    BY <1>6 DEF Handle, server
  <2> QED  BY <1>2, <2>1 DEF CursorInv
<1>7. CASE SaveCursor
  <2>1. /\ uids = {} /\ out = {} /\ phase' = "idle"
        /\ cursor' = (IF highest = 0 THEN cursor ELSE highest)
        /\ UNCHANGED <<folder, uid_next, uids, out, highest, handled>>
    BY <1>2, <1>7 DEF SaveCursor, server
  <2>2. \A u \in 1 .. highest : u \in handled
    BY <1>2, <2>1
  <2>3. cursor' \in Nat /\ \A u \in 1 .. cursor' : u \in handled
    BY <1>2, <2>1, <2>2
  <2> QED  BY <1>2, <2>1, <2>2, <2>3 DEF CursorInv
<1>8. CASE Abandon
  <2>1. /\ phase' = "idle" /\ uids' = {} /\ out' = {} /\ highest' = 0
        /\ UNCHANGED <<folder, uid_next, cursor, handled>>
    BY <1>8 DEF Abandon, Dropped, server
  <2> QED  BY <1>2, <2>1 DEF CursorInv
<1>9. ASSUME NEW u \in uids, FetchFails(u)  PROVE CursorInv'
  <2>1. /\ phase' = "idle" /\ uids' = {} /\ out' = {} /\ highest' = 0
        /\ UNCHANGED <<folder, uid_next, cursor, handled>>
    BY <1>9 DEF FetchFails, Dropped, server
  <2> QED  BY <1>2, <2>1 DEF CursorInv
<1>10. CASE UNCHANGED vars
  BY <1>10 DEF vars, server, CursorInv
<1>11. ASSUME NEW i \in 1 .. Len(folder), Expunge(i)  PROVE FALSE
  BY <1>11 DEF Expunge
<1> QED
  BY <1>3, <1>4, <1>5, <1>6, <1>7, <1>8, <1>9, <1>10, <1>11 DEF Next

\* The cursor passes no message that was not handled, whatever is delivered
\* during a fetch and however often the loop fails, as long as nothing is ever
\* deleted (fetch_since_uid, save_cursor).
THEOREM CursorLeavesNoGap == Spec => []NoGapWithoutExpunge
<1>1. CursorInv => NoGapWithoutExpunge
  BY DEF CursorInv, NoGapWithoutExpunge
<1> QED
  BY <1>1, CursorInit, CursorNext, PTL DEF Spec
=============================================================================
