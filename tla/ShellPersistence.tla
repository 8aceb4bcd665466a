-------------------------- MODULE ShellPersistence --------------------------
(***************************************************************************)
(* Where the desktop shell keeps its profile: the React state of App.tsx,    *)
(* the copy in localStorage and the native state file (state.ts and the      *)
(* commands of src-tauri/src/lib.rs), across edits, import, reset, failing   *)
(* native calls and crashes.                                                *)
(*                                                                          *)
(* A profile is a number: 0 is createInitialState(), every edit and every    *)
(* imported profile has a new one.  A React effect runs with the update that *)
(* causes it.  Native commands are served one at a time in the order they    *)
(* were invoked (they are synchronous commands of one process); whoever      *)
(* awaits one goes on some time after it was served.                        *)
(* localStorage is taken to be there and to have room: setItem never throws. *)
(***************************************************************************)
EXTENDS Integers, Sequences

CONSTANTS
  None,          \* no copy
  Empty,         \* fs::write has truncated the file
  Torn,          \* a part of the JSON text
  MaxProfiles,   \* bound: edits and imports
  MaxFaults,     \* bound: native commands that fail
  MaxCrashes     \* bound: times the process ends

ASSUME BoundsAssumption == {MaxProfiles, MaxFaults, MaxCrashes} \subseteq Nat
ASSUME MarksAssumption ==
  {None, Empty, Torn} \cap Nat = {} /\ None # Empty /\ None # Torn /\ Empty # Torn

VARIABLES
  state,       \* React state
  hydrated,    \* isHydrated
  skip,        \* skipNextPersist.current
  browser,     \* localStorage: a profile, or None
  file,        \* app-state.json: a profile, None, or what a broken write left
  calls,       \* native commands invoked and not served yet
  writing,     \* the command served is between truncating and writing the file
  import,      \* doImport: the profile, and the answer it waits for
  reset,       \* resetAll: the answer it waits for
  overlapped,  \* history: a reset and an edit or import were under way at once
  profiles,    \* profiles made so far
  faults, crashes

vars == <<state, hydrated, skip, browser, file, calls, writing, import, reset,
          overlapped, profiles, faults, crashes>>

Initial == 0
Profile == 0 .. MaxProfiles
Answer  == {"idle", "waiting", "ok", "failed"}

NoImport == [profile |-> Initial, answer |-> "idle"]
Awaiting == import.answer # "idle" \/ reset # "idle"

Init ==
  /\ state = Initial /\ hydrated = FALSE /\ skip = TRUE
  /\ browser = None /\ file = None
  /\ calls = << >> /\ writing = FALSE
  /\ import = NoImport /\ reset = "idle" /\ overlapped = FALSE
  /\ profiles = 0 /\ faults = 0 /\ crashes = 0

-----------------------------------------------------------------------------
(* loadState: a missing or empty file is a new device; one that does not     *)
(* parse falls back to localStorage.                                        *)
BrowserState == IF browser = None THEN Initial ELSE browser
LoadState ==
  CASE file \in {None, Empty} -> Initial
    [] file = Torn -> BrowserState
    [] OTHER -> file

\* saveState: localStorage at once, then the native command.
SaveState(p, from) ==
  /\ browser' = p
  /\ calls' = Append(calls, [cmd |-> "save", profile |-> p, from |-> from])

\* Slip: the flag is not cleared.
PersistEffectKeepsFlag(p, flag) ==
  /\ skip' = flag
  /\ IF flag THEN UNCHANGED <<browser, calls>> ELSE SaveState(p, "effect")

\* The effect on [isHydrated, state] when the state becomes p.
PersistEffect(p, flag) ==
  /\ skip' = FALSE
  /\ IF flag THEN UNCHANGED <<browser, calls>> ELSE SaveState(p, "effect")

StartsPersisting == FALSE    \* Slip: the loaded state is saved back
StartsSkipping   == TRUE     \* skipNextPersist is true when the shell starts

Hydrate ==
  /\ ~hydrated
  /\ hydrated' = TRUE
  /\ state' = LoadState
  /\ PersistEffect(LoadState, StartsSkipping)
  /\ UNCHANGED <<file, writing, import, reset, overlapped, profiles, faults, crashes>>

\* load_app_state fails; its catch takes localStorage.
HydrateFailed ==
  /\ ~hydrated
  /\ faults < MaxFaults
  /\ hydrated' = TRUE
  /\ state' = BrowserState
  /\ PersistEffect(BrowserState, StartsSkipping)
  /\ faults' = faults + 1
  /\ UNCHANGED <<file, writing, import, reset, overlapped, profiles, crashes>>

NewProfile == profiles' = profiles + 1 /\ profiles < MaxProfiles
NoteReset == overlapped' = (overlapped \/ reset # "idle")

\* Any setState of the chat screens: contacts, messages, onboarding.
Edit ==
  /\ hydrated
  /\ NewProfile /\ NoteReset
  /\ state' = profiles + 1
  /\ PersistEffect(profiles + 1, skip)
  /\ UNCHANGED <<hydrated, file, writing, import, reset, faults, crashes>>

\* doImport up to its await, and after it.
StartImport ==
  /\ hydrated /\ import.answer = "idle"
  /\ NewProfile /\ NoteReset
  /\ skip' = TRUE
  /\ import' = [profile |-> profiles + 1, answer |-> "waiting"]
  /\ SaveState(profiles + 1, "import")
  /\ UNCHANGED <<state, hydrated, file, writing, reset, faults, crashes>>

FinishImport ==
  /\ import.answer \in {"ok", "failed"}
  /\ import' = NoImport
  /\ IF import.answer = "ok"
     THEN state' = import.profile /\ PersistEffect(import.profile, skip)
     ELSE UNCHANGED <<state, skip, browser, calls>>
  /\ UNCHANGED <<hydrated, file, writing, reset, overlapped, profiles, faults, crashes>>

\* resetAll up to its await, and after it.
StartReset ==
  /\ hydrated /\ reset = "idle"
  /\ overlapped' = (overlapped \/ import.answer # "idle")
  /\ browser' = None
  /\ calls' = Append(calls, [cmd |-> "reset", profile |-> Initial, from |-> "reset"])
  /\ reset' = "waiting"
  /\ UNCHANGED <<state, hydrated, skip, file, writing, import, profiles, faults, crashes>>

FinishReset ==
  /\ reset \in {"ok", "failed"}
  /\ reset' = "idle"
  /\ IF reset = "ok"
     THEN state' = Initial /\ PersistEffect(Initial, TRUE)
     ELSE UNCHANGED <<state, skip, browser, calls>>
  /\ UNCHANGED <<hydrated, file, writing, import, overlapped, profiles, faults, crashes>>

-----------------------------------------------------------------------------
(* The native side.                                                         *)
\* Slip: the caller of the command is never answered.
ServedUnanswered(r) ==
  /\ calls' = Tail(calls)
  /\ writing' = FALSE
  /\ UNCHANGED <<import, reset>>

\* The command at the head is served with result r; its caller is answered.
Served(r) ==
  /\ calls' = Tail(calls)
  /\ writing' = FALSE
  /\ import' = IF Head(calls).from = "import" THEN [import EXCEPT !.answer = r] ELSE import
  /\ reset'  = IF Head(calls).from = "reset" THEN r ELSE reset

\* save_app_state: fs::write truncates, then writes.
Truncate ==
  /\ calls # << >> /\ Head(calls).cmd = "save" /\ ~writing
  /\ file' = Empty
  /\ writing' = TRUE
  /\ UNCHANGED <<state, hydrated, skip, browser, calls, import, reset,
                 overlapped, profiles, faults, crashes>>

Write ==
  /\ writing
  /\ file' = Head(calls).profile
  /\ Served("ok")
  /\ UNCHANGED <<state, hydrated, skip, browser, overlapped, profiles, faults, crashes>>

RemoveFile ==
  /\ calls # << >> /\ Head(calls).cmd = "reset"
  /\ file' = None
  /\ Served("ok")
  /\ UNCHANGED <<state, hydrated, skip, browser, overlapped, profiles, faults, crashes>>

\* The command fails, before it touched the file or halfway through a write.
CallFails ==
  /\ calls # << >>
  /\ faults < MaxFaults
  /\ faults' = faults + 1
  /\ file' \in IF writing THEN {Empty, Torn} ELSE {file}
  /\ Served("failed")
  /\ UNCHANGED <<state, hydrated, skip, browser, overlapped, profiles, crashes>>

\* The process ends, in the middle of a write if need be, and starts again.
Crash ==
  /\ crashes < MaxCrashes
  /\ crashes' = crashes + 1
  /\ file' \in IF writing THEN {Empty, Torn} ELSE {file}
  /\ state' = Initial /\ hydrated' = FALSE /\ skip' = TRUE
  /\ calls' = << >> /\ writing' = FALSE
  /\ import' = NoImport /\ reset' = "idle"
  /\ UNCHANGED <<browser, overlapped, profiles, faults>>

Next ==
  \/ Hydrate \/ HydrateFailed
  \/ Edit
  \/ StartImport \/ FinishImport
  \/ StartReset \/ FinishReset
  \/ Truncate \/ Write \/ RemoveFile \/ CallFails
  \/ Crash

Spec == Init /\ [][Next]_vars

-----------------------------------------------------------------------------
(* Properties.                                                              *)

\* Profiles, copies and commands in flight are well formed; doImport and
\* resetAll wait for an answer exactly while their command is in flight.
TypeOK ==
  /\ state \in Profile /\ hydrated \in BOOLEAN /\ skip \in BOOLEAN
  /\ browser \in Profile \cup {None}
  /\ file \in Profile \cup {None, Empty, Torn}
  /\ calls \in Seq([cmd : {"save", "reset"}, profile : Profile,
                    from : {"effect", "import", "reset"}])
  /\ writing \in BOOLEAN /\ (writing => calls # << >>)
  /\ import \in [profile : Profile, answer : Answer]
  /\ reset \in Answer
  /\ (import.answer = "waiting") = (\E i \in DOMAIN calls : calls[i].from = "import")
  /\ (reset = "waiting") = (\E i \in DOMAIN calls : calls[i].from = "reset")
  /\ overlapped \in BOOLEAN
  /\ profiles \in Nat /\ faults \in Nat /\ crashes \in Nat

Quiet == hydrated /\ calls = << >> /\ ~Awaiting

\* Once the shell is at rest, a restart shows what the screen shows, whatever
\* order edits, imports, resets and crashes came in, edits made while an import
\* was awaited included; provided every native call succeeded and no edit or
\* import met a reset that was awaited (the effect, skipNextPersist and
\* doImport's own save).
SettledIsSaved == Quiet /\ faults = 0 /\ ~overlapped => LoadState = state

\* Loading writes nothing: a copy that could not be read this time is still
\* there the next time, until the user changes something (skipNextPersist).
LoadingKeepsTheCopies ==
  [][~hydrated => UNCHANGED <<browser, calls>>]_vars

\* "Local-first persistence": an edit made while no import and no reset is awaited
\* is in localStorage with the update that makes it (the effect, skipNextPersist).
EditIsSaved == [][Edit /\ ~Awaiting => browser' = state']_vars
=============================================================================
