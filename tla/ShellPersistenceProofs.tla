----------------------- MODULE ShellPersistenceProofs -----------------------
(***************************************************************************)
(* What the desktop shell keeps of its profile, for any number of edits and  *)
(* imports, native calls that fail, and restarts.                           *)
(*                                                                          *)
(* The argument looks at the queue of native calls: whatever the file says   *)
(* now, it will say what the last call in the queue carries.                *)
(***************************************************************************)
EXTENDS ShellPersistence, TLAPS

Call == [cmd : {"save", "reset"}, profile : Profile, from : {"effect", "import", "reset"}]

InFlight(k) == \E i \in DOMAIN calls : calls[i].from = k

\* doImport and resetAll have at most one call in flight each; the calls of
\* resetAll are the resets; what is being written is a save.
QueueInv ==
  /\ \A i, j \in DOMAIN calls :
       calls[i].from = calls[j].from /\ calls[i].from # "effect" => i = j
  /\ \A i \in DOMAIN calls : calls[i].from = "reset" <=> calls[i].cmd = "reset"
  /\ \A i \in DOMAIN calls : calls[i].cmd = "reset" => calls[i].profile = Initial
  /\ writing => calls # << >> /\ calls[1].cmd = "save"

TypeInv == TypeOK /\ QueueInv

\* What a restart will show when every call in the queue has been served.
Arriving == IF calls = << >> THEN LoadState ELSE calls[Len(calls)].profile

-----------------------------------------------------------------------------
(* Queues of calls.                                                         *)
LEMMA AppendFacts ==
  ASSUME NEW s \in Seq(Call), NEW c \in Call
  PROVE  /\ Append(s, c) \in Seq(Call) /\ Append(s, c) # << >>
         /\ Len(s) \in Nat /\ DOMAIN s = 1 .. Len(s)
         /\ Len(Append(s, c)) = Len(s) + 1
         /\ DOMAIN Append(s, c) = 1 .. Len(s) + 1
         /\ \A i \in 1 .. Len(s) : Append(s, c)[i] = s[i]
         /\ Append(s, c)[Len(s) + 1] = c
OBVIOUS

LEMMA TailFacts ==
  ASSUME NEW s \in Seq(Call), s # << >>
  PROVE  /\ Tail(s) \in Seq(Call) /\ Head(s) = s[1] /\ s[1] \in Call
         /\ Len(s) \in Nat /\ Len(s) >= 1 /\ DOMAIN s = 1 .. Len(s)
         /\ Len(Tail(s)) = Len(s) - 1 /\ DOMAIN Tail(s) = 1 .. Len(s) - 1
         /\ \A i \in 1 .. Len(s) - 1 : Tail(s)[i] = s[i + 1]
         /\ Tail(s) = << >> => Len(s) = 1
<1>1. /\ Len(s) \in Nat /\ DOMAIN s = 1 .. Len(s) /\ Len(s) # 0
      /\ Tail(s) \in Seq(Call) /\ Head(s) = s[1]
  OBVIOUS
<1>2. 1 \in 1 .. Len(s)
  BY <1>1
<1>3. s[1] \in Call
  BY <1>1, <1>2
<1>4. Len(Tail(s)) = Len(s) - 1
  OBVIOUS
<1>5. \A i \in 1 .. Len(s) - 1 : Tail(s)[i] = s[i + 1]
  OBVIOUS
<1>6. DOMAIN Tail(s) = 1 .. Len(s) - 1
  BY <1>1, <1>4
<1>7. Tail(s) = << >> => Len(Tail(s)) = 0
  <2>1. \A t \in Seq(Call) : t = << >> => Len(t) = 0
    OBVIOUS
  <2> QED  BY <1>1, <2>1
<1> QED
  BY <1>1, <1>2, <1>3, <1>4, <1>5, <1>6, <1>7

\* A new call at the end of the queue.
LEMMA CallInvoked ==
  ASSUME TypeInv, NEW c \in Call, calls' = Append(calls, c), writing' = writing,
         c.from # "effect" => ~InFlight(c.from),
         c.from = "reset" <=> c.cmd = "reset",
         c.cmd = "reset" => c.profile = Initial
  PROVE  /\ calls' \in Seq(Call) /\ calls' # << >> /\ QueueInv'
         /\ \A k : InFlight(k)' <=> InFlight(k) \/ c.from = k
         /\ Arriving' = c.profile
<1> DEFINE l == Len(calls)
<1>0. calls \in Seq(Call)
  BY DEF TypeInv, TypeOK, Call
<1>1. /\ calls' \in Seq(Call) /\ calls' # << >>
      /\ l \in Nat /\ DOMAIN calls = 1 .. l
      /\ Len(calls') = l + 1 /\ DOMAIN calls' = 1 .. l + 1
      /\ \A i \in 1 .. l : calls'[i] = calls[i]
      /\ calls'[l + 1] = c
  BY <1>0, AppendFacts
<1> HIDE DEF l
<1>2. \A i \in 1 .. l + 1 : i \in 1 .. l \/ i = l + 1
  BY <1>1
<1>3. \A k : InFlight(k)' <=> InFlight(k) \/ c.from = k
  <2> SUFFICES ASSUME NEW k  PROVE InFlight(k)' <=> InFlight(k) \/ c.from = k
    OBVIOUS
  <2>1. ASSUME InFlight(k)  PROVE InFlight(k)'
    BY <1>1, <2>1 DEF InFlight
  <2>2. ASSUME c.from = k  PROVE InFlight(k)'
    BY <1>1, <2>2 DEF InFlight
  <2>3. ASSUME InFlight(k)', ~InFlight(k)  PROVE c.from = k
    BY <1>1, <1>2, <2>3 DEF InFlight
  <2> QED  BY <2>1, <2>2, <2>3
<1>4. \A i, j \in DOMAIN calls' :
        calls'[i].from = calls'[j].from /\ calls'[i].from # "effect" => i = j
  BY <1>1, <1>2 DEF TypeInv, QueueInv, InFlight
<1>5. /\ \A i \in DOMAIN calls' : calls'[i].from = "reset" <=> calls'[i].cmd = "reset"
      /\ \A i \in DOMAIN calls' : calls'[i].cmd = "reset" => calls'[i].profile = Initial
  BY <1>1, <1>2 DEF TypeInv, QueueInv
<1>6. writing' => calls'[1].cmd = "save"
  <2>1. writing => l # 0 /\ calls[1].cmd = "save"
    BY <1>1 DEF TypeInv, QueueInv, l, TypeOK
  <2>2. writing => 1 \in 1 .. l
    BY <1>1, <2>1
  <2> QED  BY <1>1, <2>1, <2>2
<1> QED
  BY <1>1, <1>3, <1>4, <1>5, <1>6 DEF QueueInv, Arriving

\* The call at the head is gone.
LEMMA CallGone ==
  ASSUME TypeInv, calls # << >>, calls' = Tail(calls), writing' = FALSE
  PROVE  /\ calls' \in Seq(Call) /\ calls[1] \in Call /\ Head(calls) = calls[1]
         /\ QueueInv'
         /\ \A k : k # "effect" => (InFlight(k)' <=> InFlight(k) /\ calls[1].from # k)
         /\ calls' # << >> => calls'[Len(calls')] = calls[Len(calls)]
         /\ calls' = << >> => Len(calls) = 1
<1> DEFINE l == Len(calls)
<1>0. calls \in Seq(Call)
  BY DEF TypeInv, TypeOK, Call
<1>1. /\ calls' \in Seq(Call) /\ calls[1] \in Call /\ Head(calls) = calls[1]
      /\ l \in Nat /\ l >= 1 /\ DOMAIN calls = 1 .. l
      /\ Len(calls') = l - 1 /\ DOMAIN calls' = 1 .. l - 1
      /\ \A i \in 1 .. l - 1 : calls'[i] = calls[i + 1]
      /\ calls' = << >> => l = 1
  BY <1>0, TailFacts
<1> HIDE DEF l
<1>2. /\ \A i \in 1 .. l - 1 : i + 1 \in 1 .. l /\ i + 1 # 1
      /\ \A i \in 1 .. l : i = 1 \/ (i - 1 \in 1 .. l - 1 /\ i - 1 + 1 = i)
      /\ 1 \in 1 .. l /\ (l - 1 # 0 => l - 1 \in 1 .. l - 1 /\ l - 1 + 1 = l)
      /\ \A i, j \in 1 .. l - 1 : i + 1 = j + 1 => i = j
  BY <1>1
<1>3. ASSUME NEW k, k # "effect"  PROVE InFlight(k)' <=> InFlight(k) /\ calls[1].from # k
  <2>1. ASSUME InFlight(k)'  PROVE InFlight(k) /\ calls[1].from # k
    <3>1. PICK i \in 1 .. l - 1 : calls'[i].from = k
      BY <1>1, <2>1 DEF InFlight
    <3>2. i + 1 \in DOMAIN calls /\ i + 1 # 1 /\ 1 \in DOMAIN calls /\ calls[i + 1].from = k
      BY <1>1, <1>2, <3>1
    <3> QED  BY <1>3, <3>2 DEF TypeInv, QueueInv, InFlight
  <2>2. ASSUME InFlight(k), calls[1].from # k  PROVE InFlight(k)'
    <3>1. PICK i \in 1 .. l : calls[i].from = k /\ i # 1
      BY <1>1, <2>2 DEF InFlight
    <3>2. i - 1 \in DOMAIN calls' /\ calls'[i - 1].from = k
      BY <1>1, <1>2, <3>1
    <3> QED  BY <3>2 DEF InFlight
  <2> QED  BY <2>1, <2>2
<1>4. QueueInv'
  <2>1. ASSUME NEW i \in DOMAIN calls', NEW j \in DOMAIN calls',
               calls'[i].from = calls'[j].from, calls'[i].from # "effect"
        PROVE  i = j
    <3>1. /\ i + 1 \in DOMAIN calls /\ j + 1 \in DOMAIN calls
          /\ calls'[i] = calls[i + 1] /\ calls'[j] = calls[j + 1]
      BY <1>1, <1>2
    <3>2. i + 1 = j + 1
      BY <2>1, <3>1 DEF TypeInv, QueueInv
    <3> QED  BY <1>1, <1>2, <3>2
  <2>2. ASSUME NEW i \in DOMAIN calls'
        PROVE  /\ calls'[i].from = "reset" <=> calls'[i].cmd = "reset"
               /\ calls'[i].cmd = "reset" => calls'[i].profile = Initial
    <3>1. i + 1 \in DOMAIN calls /\ calls'[i] = calls[i + 1]
      BY <1>1, <1>2
    <3> QED  BY <3>1 DEF TypeInv, QueueInv
  <2> QED  BY <2>1, <2>2 DEF QueueInv
<1>5. calls' # << >> => calls'[Len(calls')] = calls[l]
  <2>1. calls' # << >> => l - 1 # 0
    BY <1>1
  <2> QED  BY <1>1, <1>2, <2>1
<1> QED
  BY <1>1, <1>3, <1>4, <1>5 DEF l

-----------------------------------------------------------------------------
(* What the parts of a step do.                                             *)
LEMMA Typed ==
  ASSUME TypeInv
  PROVE  /\ calls \in Seq(Call) /\ QueueInv
         /\ state \in Profile /\ browser \in Profile \cup {None}
         /\ file \in Profile \cup {None, Empty, Torn} /\ writing \in BOOLEAN
         /\ import \in [profile : Profile, answer : Answer] /\ reset \in Answer
         /\ import.answer = "waiting" <=> InFlight("import")
         /\ reset = "waiting" <=> InFlight("reset")
         /\ LoadState \in Profile /\ BrowserState \in Profile
         /\ Initial \in Profile /\ profiles \in Nat /\ faults \in Nat
<1>1. Initial \in Profile
  BY BoundsAssumption DEF Initial, Profile
<1>2. browser \in Profile \cup {None} /\ file \in Profile \cup {None, Empty, Torn}
  BY DEF TypeInv, TypeOK
<1>3. LoadState \in Profile /\ BrowserState \in Profile
  BY <1>1, <1>2 DEF LoadState, BrowserState
<1> QED
  BY <1>1, <1>3 DEF TypeInv, TypeOK, InFlight, Call

\* SaveState: the browser has the profile now, the file will have it.
LEMMA SaveStateEffect ==
  ASSUME TypeInv, NEW p \in Profile, NEW from \in {"effect", "import"}, SaveState(p, from),
         from # "effect" => ~InFlight(from), writing' = writing
  PROVE  /\ browser' = p /\ Arriving' = p
         /\ calls' \in Seq(Call) /\ calls' # << >> /\ QueueInv'
         /\ \A k : InFlight(k)' <=> InFlight(k) \/ from = k
<1> DEFINE c == [cmd |-> "save", profile |-> p, from |-> from]
<1>1. /\ c \in Call /\ c.from = from /\ c.profile = p /\ c.cmd = "save"
      /\ calls' = Append(calls, c) /\ browser' = p
  BY DEF SaveState, Call
<1> HIDE DEF c
<1> QED
  BY <1>1, CallInvoked

\* The effect: it saves, or it skips the one time it was told to.
LEMMA EffectEffect ==
  ASSUME TypeInv, NEW p \in Profile, NEW flag \in BOOLEAN, PersistEffect(p, flag),
         writing' = writing
  PROVE  /\ skip' = FALSE
         /\ browser' \in Profile \cup {None} /\ calls' \in Seq(Call) /\ QueueInv'
         /\ calls # << >> => calls' # << >>
         /\ \A k : k # "effect" => (InFlight(k)' <=> InFlight(k))
         /\ flag => UNCHANGED <<browser, calls>>
         /\ ~flag => browser' = p /\ Arriving' = p
<1>1. CASE flag
  <2>1. UNCHANGED <<browser, calls, writing>> /\ skip' = FALSE
    BY <1>1 DEF PersistEffect
  <2> QED  BY <1>1, <2>1, Typed DEF QueueInv, InFlight
<1>2. CASE ~flag
  <2>1. SaveState(p, "effect") /\ skip' = FALSE
    BY <1>2 DEF PersistEffect
  <2> QED  BY <1>2, <2>1, SaveStateEffect
<1> QED  BY <1>1, <1>2

\* A call is served: only who waits for it is answered.
LEMMA ServedEffect ==
  ASSUME TypeInv, calls # << >>, NEW r \in {"ok", "failed"}, Served(r)
  PROVE  /\ calls' \in Seq(Call) /\ QueueInv' /\ writing' = FALSE
         /\ import' \in [profile : Profile, answer : Answer] /\ reset' \in Answer
         /\ import'.profile = import.profile
         /\ import'.answer = "waiting" <=> InFlight("import")'
         /\ reset' = "waiting" <=> InFlight("reset")'
         /\ import'.answer = "idle" <=> import.answer = "idle"
         /\ reset' = "idle" <=> reset = "idle"
         /\ import'.answer \in {import.answer, r} /\ reset' \in {reset, r}
<1>1. calls' = Tail(calls) /\ writing' = FALSE
  BY DEF Served
<1>2. /\ calls' \in Seq(Call) /\ calls[1] \in Call /\ Head(calls) = calls[1] /\ QueueInv'
      /\ \A k : k # "effect" => (InFlight(k)' <=> InFlight(k) /\ calls[1].from # k)
  BY <1>1, CallGone
<1>3. InFlight(calls[1].from)
  <2>1. calls \in Seq(Call)
    BY Typed
  <2>2. 1 \in DOMAIN calls
    BY <2>1, TailFacts
  <2> QED  BY <2>2 DEF InFlight
<1>4. /\ import' = IF calls[1].from = "import" THEN [import EXCEPT !.answer = r] ELSE import
      /\ reset' = IF calls[1].from = "reset" THEN r ELSE reset
  BY <1>2 DEF Served
<1>5. /\ import \in [profile : Profile, answer : Answer] /\ reset \in Answer
      /\ import.answer = "waiting" <=> InFlight("import")
      /\ reset = "waiting" <=> InFlight("reset")
  BY Typed
<1>6. CASE calls[1].from = "import"
  <2>1. import' = [import EXCEPT !.answer = r] /\ reset' = reset /\ import.answer = "waiting"
    BY <1>3, <1>4, <1>5, <1>6
  <2>2. /\ import' \in [profile : Profile, answer : Answer]
        /\ import'.profile = import.profile /\ import'.answer = r
    BY <1>5, <2>1 DEF Answer
  <2> QED  BY <1>1, <1>2, <1>5, <1>6, <2>1, <2>2
<1>7. CASE calls[1].from = "reset"
  <2>1. import' = import /\ reset' = r /\ reset = "waiting"
    BY <1>3, <1>4, <1>5, <1>7
  <2> QED  BY <1>1, <1>2, <1>5, <1>7, <2>1 DEF Answer
<1>8. CASE calls[1].from \notin {"import", "reset"}
  <2>1. import' = import /\ reset' = reset
    BY <1>4, <1>8
  <2> QED  BY <1>1, <1>2, <1>5, <1>8, <2>1
<1> QED
  BY <1>6, <1>7, <1>8

-----------------------------------------------------------------------------
(* Type correctness.                                                        *)
LEMMA TypeInvInit == Init => TypeInv
<1> SUFFICES ASSUME Init PROVE TypeInv  OBVIOUS
<1>1. Initial \in Profile
  BY BoundsAssumption DEF Initial, Profile
<1>2. calls = << >> /\ calls \in Seq(Call) /\ DOMAIN calls = {} /\ writing = FALSE
  BY DEF Init
<1>3. NoImport \in [profile : Profile, answer : Answer] /\ NoImport.answer = "idle"
  BY <1>1 DEF NoImport, Answer
<1>4. QueueInv
  BY <1>2 DEF QueueInv
<1>5. TypeOK
  BY <1>1, <1>2, <1>3 DEF Init, TypeOK, Call, Answer
<1> QED  BY <1>4, <1>5 DEF TypeInv

LEMMA TypeInvNext == TypeInv /\ [Next]_vars => TypeInv'
<1> SUFFICES ASSUME TypeInv, [Next]_vars PROVE TypeInv'  OBVIOUS
<1>1. /\ calls \in Seq(Call) /\ QueueInv
      /\ state \in Profile /\ browser \in Profile \cup {None}
      /\ file \in Profile \cup {None, Empty, Torn} /\ writing \in BOOLEAN
      /\ import \in [profile : Profile, answer : Answer] /\ reset \in Answer
      /\ import.answer = "waiting" <=> InFlight("import")
      /\ reset = "waiting" <=> InFlight("reset")
      /\ LoadState \in Profile /\ BrowserState \in Profile
      /\ Initial \in Profile /\ profiles \in Nat /\ faults \in Nat
  BY Typed
<1>2. /\ hydrated \in BOOLEAN /\ skip \in BOOLEAN /\ overlapped \in BOOLEAN
      /\ crashes \in Nat /\ (writing => calls # << >>)
  BY DEF TypeInv, TypeOK
<1>3. profiles < MaxProfiles => profiles + 1 \in Profile
  BY <1>1, BoundsAssumption DEF Profile
<1>4. NoImport \in [profile : Profile, answer : Answer] /\ NoImport.answer = "idle"
  BY <1>1 DEF NoImport, Answer, Initial
\* What has to be shown of a step.
<1> DEFINE Rest ==
      /\ state' \in Profile /\ hydrated' \in BOOLEAN /\ skip' \in BOOLEAN
      /\ file' \in Profile \cup {None, Empty, Torn} /\ overlapped' \in BOOLEAN
      /\ profiles' \in Nat /\ faults' \in Nat /\ crashes' \in Nat
<1> DEFINE Queue ==
      /\ browser' \in Profile \cup {None} /\ calls' \in Seq(Call) /\ QueueInv'
      /\ writing' \in BOOLEAN /\ (writing' => calls' # << >>)
<1> DEFINE Answers ==
      /\ import' \in [profile : Profile, answer : Answer] /\ reset' \in Answer
      /\ import'.answer = "waiting" <=> InFlight("import")'
      /\ reset' = "waiting" <=> InFlight("reset")'
<1>5. ASSUME Rest, Queue, Answers  PROVE TypeInv'
  BY <1>5 DEF TypeInv, TypeOK, InFlight, Call
<1>6. ASSUME NEW p \in Profile, NEW flag \in BOOLEAN, PersistEffect(p, flag),
             writing' = writing
      PROVE  /\ Queue /\ skip' \in BOOLEAN
             /\ \A k : k # "effect" => (InFlight(k)' <=> InFlight(k))
  BY <1>1, <1>2, <1>6, EffectEffect
<1>7. ASSUME UNCHANGED <<browser, calls, writing>>
      PROVE  Queue /\ \A k : k # "effect" => (InFlight(k)' <=> InFlight(k))
  BY <1>1, <1>2, <1>7 DEF QueueInv, InFlight
<1>8. CASE Hydrate \/ HydrateFailed
  <2>1. /\ \E p \in Profile : state' = p /\ PersistEffect(p, TRUE)
        /\ hydrated' = TRUE /\ faults' \in {faults, faults + 1}
        /\ UNCHANGED <<file, writing, import, reset, overlapped, profiles, crashes>>
    BY <1>1, <1>8 DEF Hydrate, HydrateFailed, StartsSkipping
  <2>2. /\ Queue /\ skip' \in BOOLEAN /\ state' \in Profile
        /\ \A k : k # "effect" => (InFlight(k)' <=> InFlight(k))
    BY <1>6, <2>1
  <2>3. Answers
    BY <1>1, <2>1, <2>2
  <2>4. Rest
    BY <1>1, <1>2, <2>1, <2>2
  <2> QED  BY <1>5, <2>2, <2>3, <2>4
<1>9. CASE Edit
  <2>1. /\ state' = profiles + 1 /\ profiles' = profiles + 1 /\ state' \in Profile
        /\ PersistEffect(profiles + 1, skip) /\ overlapped' \in BOOLEAN
        /\ UNCHANGED <<hydrated, file, writing, import, reset, faults, crashes>>
    BY <1>3, <1>9 DEF Edit, NewProfile, NoteReset
  <2>2. /\ Queue /\ skip' \in BOOLEAN
        /\ \A k : k # "effect" => (InFlight(k)' <=> InFlight(k))
    BY <1>2, <1>6, <2>1
  <2> QED  BY <1>1, <1>2, <1>5, <2>1, <2>2
<1>10. CASE StartImport
  <2>1. /\ SaveState(profiles + 1, "import") /\ profiles + 1 \in Profile
        /\ import' = [profile |-> profiles + 1, answer |-> "waiting"]
        /\ ~InFlight("import")
    BY <1>1, <1>3, <1>10 DEF StartImport, NewProfile
  <2>2. /\ skip' = TRUE /\ overlapped' \in BOOLEAN /\ profiles' = profiles + 1
        /\ UNCHANGED <<state, hydrated, file, writing, reset, faults, crashes>>
    BY <1>10 DEF StartImport, NewProfile, NoteReset
  <2>3. /\ browser' = profiles + 1 /\ calls' \in Seq(Call) /\ calls' # << >> /\ QueueInv'
        /\ \A k : InFlight(k)' <=> InFlight(k) \/ "import" = k
    BY <2>1, <2>2, SaveStateEffect
  <2>4. Answers
    BY <1>1, <2>1, <2>2, <2>3 DEF Answer
  <2> QED  BY <1>1, <1>2, <1>5, <2>1, <2>2, <2>3, <2>4
<1>11. CASE FinishImport
  <2>1. /\ import.answer # "waiting" /\ import' = NoImport
        /\ UNCHANGED <<hydrated, file, writing, reset, overlapped, profiles, faults, crashes>>
    BY <1>11 DEF FinishImport
  <2>2. CASE import.answer = "ok"
    <3>1. state' = import.profile /\ import.profile \in Profile
          /\ PersistEffect(import.profile, skip)
      BY <1>1, <1>11, <2>2 DEF FinishImport
    <3> QED  BY <1>1, <1>2, <1>4, <1>5, <1>6, <2>1, <3>1
  <2>3. CASE import.answer # "ok"
    <3>1. UNCHANGED <<state, skip, browser, calls>>
      BY <1>11, <2>3 DEF FinishImport
    <3> QED  BY <1>1, <1>2, <1>4, <1>5, <1>7, <2>1, <3>1
  <2> QED  BY <2>2, <2>3
<1>12. CASE StartReset
  <2> DEFINE c == [cmd |-> "reset", profile |-> Initial, from |-> "reset"]
  <2>1. /\ calls' = Append(calls, c) /\ browser' = None /\ reset' = "waiting"
        /\ overlapped' \in BOOLEAN /\ ~InFlight("reset")
        /\ UNCHANGED <<state, hydrated, skip, file, writing, import, profiles, faults, crashes>>
    BY <1>1, <1>12 DEF StartReset
  <2>2. c \in Call /\ c.from = "reset" /\ c.cmd = "reset" /\ c.profile = Initial
    BY <1>1 DEF Call
  <2> HIDE DEF c
  <2>3. /\ calls' \in Seq(Call) /\ calls' # << >> /\ QueueInv'
        /\ \A k : InFlight(k)' <=> InFlight(k) \/ k = "reset"
    BY <2>1, <2>2, CallInvoked
  <2> QED  BY <1>1, <1>2, <1>5, <2>1, <2>3 DEF Answer
<1>13. CASE FinishReset
  <2>1. /\ reset # "waiting" /\ reset' = "idle"
        /\ UNCHANGED <<hydrated, file, writing, import, overlapped, profiles, faults, crashes>>
    BY <1>13 DEF FinishReset
  <2>2. \/ state' = Initial /\ PersistEffect(Initial, TRUE)
        \/ UNCHANGED <<state, skip, browser, calls>>
    BY <1>13 DEF FinishReset
  <2> QED  BY <1>1, <1>2, <1>5, <1>6, <1>7, <2>1, <2>2 DEF Answer
<1>14. CASE Truncate
  <2>1. /\ calls # << >> /\ Head(calls).cmd = "save" /\ file' = Empty /\ writing' = TRUE
        /\ UNCHANGED <<state, hydrated, skip, browser, calls, import, reset,
                       overlapped, profiles, faults, crashes>>
    BY <1>14 DEF Truncate
  <2>2. calls[1].cmd = "save"
    BY <1>1, <2>1, TailFacts
  <2> QED  BY <1>1, <1>2, <1>5, <2>1, <2>2 DEF QueueInv, InFlight
<1>15. ASSUME NEW r \in {"ok", "failed"}, calls # << >>, Served(r), browser' = browser
       PROVE  Queue /\ Answers
  BY <1>1, <1>15, ServedEffect
<1>16. CASE Write
  <2>1. /\ Served("ok") /\ calls # << >> /\ file' = Head(calls).profile
        /\ UNCHANGED <<state, hydrated, skip, browser, overlapped, profiles, faults, crashes>>
    BY <1>2, <1>16 DEF Write
  <2>2. file' \in Profile
    BY <1>1, <2>1, TailFacts DEF Call
  <2> QED  BY <1>1, <1>2, <1>5, <1>15, <2>1, <2>2
<1>17. CASE RemoveFile
  <2>1. /\ Served("ok") /\ calls # << >> /\ file' = None
        /\ UNCHANGED <<state, hydrated, skip, browser, overlapped, profiles, faults, crashes>>
    BY <1>17 DEF RemoveFile
  <2> QED  BY <1>1, <1>2, <1>5, <1>15, <2>1
<1>18. CASE CallFails
  <2>1. /\ Served("failed") /\ calls # << >> /\ file' \in {Empty, Torn, file}
        /\ faults' = faults + 1
        /\ UNCHANGED <<state, hydrated, skip, browser, overlapped, profiles, crashes>>
    BY <1>18 DEF CallFails
  <2> QED  BY <1>1, <1>2, <1>5, <1>15, <2>1
<1>19. CASE Crash
  <2>1. /\ file' \in {Empty, Torn, file} /\ crashes' = crashes + 1
        /\ state' = Initial /\ hydrated' = FALSE /\ skip' = TRUE
        /\ calls' = << >> /\ writing' = FALSE /\ import' = NoImport /\ reset' = "idle"
        /\ UNCHANGED <<browser, overlapped, profiles, faults>>
    BY <1>19 DEF Crash
  <2>2. calls' \in Seq(Call) /\ DOMAIN calls' = {}
    BY <2>1
  <2>3. Queue
    BY <1>1, <2>1, <2>2 DEF QueueInv
  <2>4. Answers
    BY <1>4, <2>1, <2>2 DEF InFlight, Answer
  <2>5. file' \in Profile \cup {None, Empty, Torn}
    BY <1>1, <2>1
  <2>6. crashes' \in Nat /\ profiles' \in Nat /\ faults' \in Nat
    BY <1>1, <1>2, <2>1
  <2>7. Rest
    BY <1>1, <1>2, <2>1, <2>5, <2>6
  <2> QED  BY <1>5, <2>3, <2>4, <2>7
<1>20. CASE UNCHANGED vars
  BY <1>1, <1>2, <1>5, <1>7, <1>20 DEF vars
<1> QED
  BY <1>8, <1>9, <1>10, <1>11, <1>12, <1>13, <1>14, <1>16, <1>17, <1>18, <1>19,
     <1>20 DEF Next

\* Profiles, copies and calls are well formed whatever fails, and doImport and
\* resetAll wait for an answer exactly while their call is in flight.
THEOREM TypeCorrect == Spec => []TypeOK
<1>1. TypeInv => TypeOK
  BY DEF TypeInv
<1> QED
  BY <1>1, TypeInvInit, TypeInvNext, PTL DEF Spec

-----------------------------------------------------------------------------
(* Loading.                                                                 *)

\* Before the shell has loaded nothing is under way.
LoadingInv == ~hydrated => calls = << >> /\ ~Awaiting

LEMMA LoadingNext == TypeInv /\ LoadingInv /\ [Next]_vars => LoadingInv'
<1> SUFFICES ASSUME TypeInv, LoadingInv, [Next]_vars, ~hydrated'  PROVE LoadingInv'
  BY DEF LoadingInv
<1>1. CASE Crash
  BY <1>1 DEF Crash, LoadingInv, Awaiting, NoImport
<1>2. CASE ~Crash
  <2>1. hydrated' = hydrated
    BY <1>2
    DEF Next, vars, Hydrate, HydrateFailed, Edit, StartImport, FinishImport, StartReset,
        FinishReset, Truncate, Write, RemoveFile, CallFails
  <2>2. /\ ~hydrated /\ calls = << >> /\ ~writing
        /\ import.answer = "idle" /\ reset = "idle"
    BY <2>1 DEF LoadingInv, Awaiting, TypeInv, TypeOK
  <2>3. UNCHANGED vars
    BY <1>2, <2>1, <2>2
    DEF Next, Hydrate, HydrateFailed, Edit, StartImport, FinishImport, StartReset,
        FinishReset, Truncate, Write, RemoveFile, CallFails
  <2> QED  BY <2>2, <2>3 DEF LoadingInv, Awaiting, vars
<1> QED  BY <1>1, <1>2

\* Loading writes nothing: a copy that could not be read this time is still
\* there the next time (skipNextPersist), whichever way the load went.
THEOREM LoadingWritesNothing == Spec => LoadingKeepsTheCopies
<1>1. Init => LoadingInv
  BY DEF Init, LoadingInv, Awaiting, NoImport
<1>2. ASSUME TypeInv, LoadingInv, [Next]_vars, ~hydrated
      PROVE  UNCHANGED <<browser, calls>>
  <2>1. /\ calls = << >> /\ ~writing /\ import.answer = "idle" /\ reset = "idle"
    BY <1>2 DEF LoadingInv, Awaiting, TypeInv, TypeOK
  <2>2. Hydrate \/ HydrateFailed \/ Crash \/ UNCHANGED vars
    BY <1>2, <2>1
    DEF Next, Edit, StartImport, FinishImport, StartReset, FinishReset, Truncate, Write,
        RemoveFile, CallFails
  <2> QED
    BY <2>1, <2>2
    DEF Hydrate, HydrateFailed, Crash, vars, PersistEffect, StartsSkipping
<1>3. TypeInv /\ LoadingInv /\ [Next]_vars => [~hydrated => UNCHANGED <<browser, calls>>]_vars
  BY <1>2
<1> QED
  BY <1>1, <1>3, TypeInvInit, TypeInvNext, LoadingNext, PTL DEF Spec, LoadingKeepsTheCopies

-----------------------------------------------------------------------------
(* The flag skipNextPersist.                                                *)

\* It is up, once the shell has loaded, only while an import is awaited or
\* after a native call failed.
FlagInv ==
  /\ hydrated /\ skip => import.answer # "idle" \/ faults > 0
  /\ "failed" \in {import.answer, reset} => faults > 0

LEMMA FlagNext == TypeInv /\ FlagInv /\ [Next]_vars => FlagInv'
<1> SUFFICES ASSUME TypeInv, FlagInv, [Next]_vars  PROVE FlagInv'  OBVIOUS
<1>1. /\ faults \in Nat /\ import \in [profile : Profile, answer : Answer] /\ reset \in Answer
      /\ LoadState \in Profile /\ BrowserState \in Profile /\ Initial \in Profile
      /\ calls \in Seq(Call)
  BY Typed
<1>2. ASSUME NEW p, NEW flag, PersistEffect(p, flag)  PROVE skip' = FALSE
  BY <1>2 DEF PersistEffect
<1>3. CASE Hydrate \/ HydrateFailed \/ Edit
  <2>1. skip' = FALSE /\ UNCHANGED <<import, reset>> /\ faults' \in {faults, faults + 1}
    BY <1>2, <1>3 DEF Hydrate, HydrateFailed, Edit
  <2> QED  BY <1>1, <2>1 DEF FlagInv
<1>4. CASE StartImport
  <2>1. import'.answer = "waiting" /\ UNCHANGED <<reset, faults>>
    BY <1>4 DEF StartImport
  <2> QED  BY <1>1, <2>1 DEF FlagInv
<1>5. CASE FinishImport
  <2>1. /\ import'.answer = "idle" /\ UNCHANGED <<hydrated, reset, faults>>
        /\ import.answer = "failed" \/ skip' = FALSE
    BY <1>2, <1>5 DEF FinishImport, NoImport
  <2> QED  BY <1>1, <2>1 DEF FlagInv
<1>6. CASE StartReset
  BY <1>1, <1>6 DEF StartReset, FlagInv
<1>7. CASE FinishReset
  <2>1. /\ reset' = "idle" /\ UNCHANGED <<hydrated, import, faults>>
        /\ skip' => skip
    BY <1>2, <1>7 DEF FinishReset
  <2> QED  BY <1>1, <2>1 DEF FlagInv
<1>8. CASE Truncate
  BY <1>1, <1>8 DEF Truncate, FlagInv
<1>9. CASE Write \/ RemoveFile
  <2>1. calls # << >> /\ Served("ok") /\ UNCHANGED <<hydrated, skip, faults>>
    BY <1>9 DEF Write, RemoveFile, TypeInv, TypeOK
  <2>2. /\ import'.answer = "idle" <=> import.answer = "idle"
        /\ import'.answer \in {import.answer, "ok"} /\ reset' \in {reset, "ok"}
    BY <2>1, ServedEffect
  <2> QED  BY <1>1, <2>1, <2>2 DEF FlagInv
<1>10. CASE CallFails
  <2>1. faults' = faults + 1 /\ faults' > 0
    BY <1>1, <1>10 DEF CallFails
  <2> QED  BY <2>1 DEF FlagInv
<1>11. CASE Crash
  <2>1. hydrated' = FALSE /\ import'.answer = "idle" /\ reset' = "idle"
    BY <1>11 DEF Crash, NoImport
  <2> QED  BY <2>1 DEF FlagInv
<1>12. CASE UNCHANGED vars
  BY <1>12 DEF vars, FlagInv
<1> QED
  BY <1>3, <1>4, <1>5, <1>6, <1>7, <1>8, <1>9, <1>10, <1>11, <1>12 DEF Next

-----------------------------------------------------------------------------
(* What the file will say.                                                  *)

\* While no native call failed and no edit or import met a reset: a reset will
\* leave nothing in the file; an import that nothing was edited over will leave
\* its profile; and with neither awaited the file will have what the screen has.
SavedInv ==
  hydrated /\ faults = 0 /\ ~overlapped =>
    /\ reset # "idle" => Arriving = Initial /\ import.answer = "idle"
    /\ import.answer # "idle" /\ skip => Arriving = import.profile
    /\ ~Awaiting => Arriving = state

\* Serving a call changes nothing of what is to arrive: the file now says what
\* the call carried, and the last call is the last one still.
LEMMA ServingBringsItAbout ==
  ASSUME TypeInv, Write \/ RemoveFile  PROVE Arriving' = Arriving
<1>1. /\ calls # << >> /\ Served("ok") /\ browser' = browser
      /\ \/ file' = Head(calls).profile
         \/ file' = None /\ Head(calls).cmd = "reset"
  BY DEF Write, RemoveFile, TypeInv, TypeOK
<1>2. calls' = Tail(calls) /\ writing' = FALSE
  BY <1>1 DEF Served
<1>3. /\ calls[1] \in Call /\ Head(calls) = calls[1]
      /\ calls' # << >> => calls'[Len(calls')] = calls[Len(calls)]
      /\ calls' = << >> => Len(calls) = 1
  BY <1>1, <1>2, CallGone
<1>4. CASE calls' # << >>
  BY <1>1, <1>3, <1>4 DEF Arriving
<1>5. CASE calls' = << >>
  <2>1. Arriving = calls[1].profile
    BY <1>1, <1>3, <1>5 DEF Arriving
  <2>2. Arriving' = LoadState'
    BY <1>5 DEF Arriving
  <2>3. CASE file' = calls[1].profile
    <3>1. file' \in Nat
      BY <1>3, <2>3, BoundsAssumption DEF Call, Profile
    <3>2. file' \notin {None, Empty, Torn}
      BY <3>1, MarksAssumption
    <3>3. LoadState' = file'
      BY <3>2 DEF LoadState
    <3> QED  BY <2>1, <2>2, <2>3, <3>3
  <2>4. CASE file' = None /\ calls[1].cmd = "reset"
    <3>1. LoadState' = Initial
      BY <2>4, MarksAssumption DEF LoadState
    <3>2. 1 \in DOMAIN calls
      BY <1>1, TailFacts, Typed
    <3>3. calls[1].profile = Initial
      BY <2>4, <3>2 DEF TypeInv, QueueInv
    <3> QED  BY <2>1, <2>2, <3>1, <3>3
  <2> QED  BY <1>1, <1>3, <2>3, <2>4
<1> QED  BY <1>4, <1>5

LEMMA SavedNext ==
  TypeInv /\ LoadingInv /\ FlagInv /\ SavedInv /\ [Next]_vars => SavedInv'
<1> SUFFICES ASSUME TypeInv, LoadingInv, FlagInv, SavedInv, [Next]_vars,
                    hydrated', faults' = 0, ~overlapped'
             PROVE  SavedInv'
  BY DEF SavedInv
<1>0. skip \in BOOLEAN
  BY DEF TypeInv, TypeOK
<1>1. /\ faults \in Nat /\ LoadState \in Profile /\ Initial \in Profile
      /\ import \in [profile : Profile, answer : Answer] /\ reset \in Answer
      /\ calls \in Seq(Call)
      /\ reset = "waiting" <=> InFlight("reset")
      /\ import.answer = "waiting" <=> InFlight("import")
  BY Typed
<1>2. ASSUME UNCHANGED <<calls, file, browser>>  PROVE Arriving' = Arriving
  BY <1>2 DEF Arriving, LoadState, BrowserState
<1>3. CASE Hydrate
  <2>1. /\ calls = << >> /\ import.answer = "idle" /\ reset = "idle"
    BY <1>3 DEF Hydrate, LoadingInv, Awaiting
  <2>2. /\ state' = LoadState /\ skip' = FALSE
        /\ UNCHANGED <<calls, file, browser, import, reset>>
    BY <1>3 DEF Hydrate, PersistEffect, StartsSkipping
  <2>3. Arriving' = state'
    BY <1>2, <2>1, <2>2 DEF Arriving
  <2> QED  BY <2>1, <2>2, <2>3 DEF SavedInv
<1>4. CASE HydrateFailed \/ CallFails
  <2>1. faults' = faults + 1
    BY <1>4 DEF HydrateFailed, CallFails
  <2> QED  BY <1>1, <2>1
<1>5. CASE Edit
  <2>1. /\ hydrated /\ faults = 0 /\ reset = "idle" /\ state' = profiles + 1
        /\ PersistEffect(profiles + 1, skip)
        /\ UNCHANGED <<file, writing, import, reset>>
    BY <1>5 DEF Edit, NoteReset
  <2>2. profiles + 1 \in Profile
    BY <1>5, Typed, BoundsAssumption DEF Edit, NewProfile, Profile
  <2>3. /\ skip' = FALSE
        /\ ~skip => Arriving' = state'
    BY <2>1, <2>2, <1>0, EffectEffect
  <2>4. skip => import.answer # "idle"
    BY <2>1 DEF FlagInv
  <2> QED  BY <2>1, <2>3, <2>4 DEF SavedInv, Awaiting
<1>6. CASE StartImport
  <2>1. /\ import' = [profile |-> profiles + 1, answer |-> "waiting"]
        /\ reset = "idle" /\ reset' = "idle" /\ writing' = writing
        /\ SaveState(profiles + 1, "import") /\ import.answer = "idle"
    BY <1>6 DEF StartImport, NoteReset
  <2>2. profiles + 1 \in Profile
    BY <1>6, Typed, BoundsAssumption DEF StartImport, NewProfile, Profile
  <2>3. Arriving' = profiles + 1
    BY <1>1, <2>1, <2>2, SaveStateEffect
  <2> QED  BY <2>1, <2>3 DEF SavedInv, Awaiting
<1>7. CASE FinishImport
  <2>1. /\ hydrated /\ faults = 0 /\ ~overlapped /\ import.answer \in {"ok", "failed"}
        /\ import' = NoImport /\ UNCHANGED <<file, writing, reset>>
    BY <1>7 DEF FinishImport
  <2>2. import.answer = "ok"
    BY <1>1, <2>1 DEF FlagInv
  <2>3. /\ state' = import.profile /\ PersistEffect(import.profile, skip)
    BY <1>7, <2>2 DEF FinishImport
  <2>4. /\ reset = "idle" /\ (skip => Arriving = import.profile)
    BY <2>1, <2>2 DEF SavedInv
  <2>5. /\ skip' = FALSE
        /\ skip => UNCHANGED <<browser, calls>>
        /\ ~skip => Arriving' = import.profile
    BY <1>0, <1>1, <2>1, <2>3, EffectEffect
  <2>6. Arriving' = state'
    BY <1>2, <2>1, <2>3, <2>4, <2>5
  <2> QED  BY <2>1, <2>4, <2>5, <2>6 DEF SavedInv, NoImport
<1>8. CASE StartReset
  <2> DEFINE c == [cmd |-> "reset", profile |-> Initial, from |-> "reset"]
  <2>1. /\ import.answer = "idle" /\ import' = import /\ reset' = "waiting"
        /\ calls' = Append(calls, c) /\ writing' = writing /\ ~InFlight("reset")
    BY <1>1, <1>8 DEF StartReset
  <2>2. c \in Call /\ c.from = "reset" /\ c.cmd = "reset" /\ c.profile = Initial
    BY <1>1 DEF Call
  <2> HIDE DEF c
  <2>3. Arriving' = Initial
    BY <2>1, <2>2, CallInvoked
  <2> QED  BY <2>1, <2>3 DEF SavedInv, Awaiting, Initial
<1>9. CASE FinishReset
  <2>1. /\ hydrated /\ faults = 0 /\ ~overlapped /\ reset \in {"ok", "failed"}
        /\ reset' = "idle" /\ UNCHANGED <<file, import>>
    BY <1>9 DEF FinishReset
  <2>2. reset = "ok" /\ Arriving = Initial /\ import.answer = "idle"
    BY <2>1 DEF FlagInv, SavedInv
  <2>3. state' = Initial /\ UNCHANGED <<browser, calls>>
    BY <1>9, <2>2 DEF FinishReset, PersistEffect
  <2>4. Arriving' = state'
    BY <1>2, <2>1, <2>2, <2>3 DEF Initial
  <2> QED  BY <2>1, <2>2, <2>4 DEF SavedInv
<1>10. ASSUME UNCHANGED <<state, hydrated, skip, overlapped>>, Arriving' = Arriving,
              faults = 0, import'.profile = import.profile,
              import'.answer = "idle" <=> import.answer = "idle",
              reset' = "idle" <=> reset = "idle"
       PROVE  SavedInv'
  BY <1>10 DEF SavedInv, Awaiting, Initial
<1>11. CASE Truncate
  <2>1. /\ calls # << >>
        /\ UNCHANGED <<state, hydrated, skip, calls, import, reset, overlapped, faults>>
    BY <1>11 DEF Truncate
  <2>2. Arriving' = Arriving
    BY <2>1 DEF Arriving
  <2> QED  BY <1>10, <2>1, <2>2
<1>12. CASE Write \/ RemoveFile
  <2>1. /\ calls # << >> /\ Served("ok")
        /\ UNCHANGED <<state, hydrated, skip, overlapped, faults>>
    BY <1>12 DEF Write, RemoveFile, TypeInv, TypeOK
  <2>2. /\ import'.profile = import.profile
        /\ import'.answer = "idle" <=> import.answer = "idle"
        /\ reset' = "idle" <=> reset = "idle"
    BY <2>1, ServedEffect
  <2> QED  BY <1>10, <1>12, <2>1, <2>2, ServingBringsItAbout
<1>13. CASE Crash
  BY <1>13 DEF Crash
<1>14. CASE UNCHANGED vars
  BY <1>2, <1>10, <1>14 DEF vars
<1> QED
  BY <1>3, <1>4, <1>5, <1>6, <1>7, <1>8, <1>9, <1>11, <1>12, <1>13, <1>14 DEF Next

\* Once the shell is at rest, a restart shows what the screen shows, whatever
\* order edits, imports, resets and crashes came in, provided every native call
\* succeeded and no edit or import met a reset (the effect, doImport, resetAll).
THEOREM RestIsSaved == Spec => []SettledIsSaved
<1>1. Init => LoadingInv /\ FlagInv /\ SavedInv
  BY DEF Init, LoadingInv, FlagInv, SavedInv, Awaiting, NoImport
<1>2. SavedInv => SettledIsSaved
  BY DEF SavedInv, SettledIsSaved, Quiet, Arriving
<1> QED
  BY <1>1, <1>2, TypeInvInit, TypeInvNext, LoadingNext, FlagNext, SavedNext, PTL DEF Spec
=============================================================================
