------------------------------ MODULE EngineHook ------------------------------
(***************************************************************************)
(* The inline hook of the client's engine loop in                          *)
(* src/gwa3/packets/CtoS.cpp: five bytes of client code that three parties *)
(* write without a lock.  The client's integrity checker puts its own bytes *)
(* back, EngineWatchdog patches the hook in again, and the bot thread      *)
(* takes the hook out before a map transition and puts it back after it.   *)
(* Frames that meet the patch run one queued command each.                 *)
(***************************************************************************)
EXTENDS Integers

CONSTANTS
    Originals,          \* the values the client's own five bytes can have
    Patch,              \* the jump to EngineDetourNaked, s_enginePatchedBytes
    MaxPending,         \* bound on the commands that wait
    SleepCoversCycle    \* whether Suspend's Sleep(10) outlasts a cycle of the watchdog

ASSUME BytesAssumption == Patch \notin Originals /\ Originals # {}
ASSUME BoundAssumption == MaxPending \in Nat /\ SleepCoversCycle \in BOOLEAN

VARIABLES
    site,                   \* the bytes at s_engineHookAddr
    client,                 \* the bytes the client wants there
    s_engineSavedBytes,
    s_engineSuspended,
    watchdog,               \* where EngineWatchdog is in its cycle
    bot,                    \* where the bot thread is in Suspend and Resume
    detour,                  \* whether the client's thread is in the detour
    pending                 \* commands queued for the detour

hookVars == <<site, client, s_engineSavedBytes, s_engineSuspended, watchdog, bot, detour, pending>>

\* The state InstallEngineHook leaves.
HookInit ==
    /\ client \in Originals /\ site = Patch /\ s_engineSavedBytes = client
    /\ s_engineSuspended = FALSE
    /\ watchdog = "sleep" /\ bot = "playing" /\ detour = "out" /\ pending = 0

-----------------------------------------------------------------------------
(* The client.                                                              *)

ClientRestores ==
    /\ site # client
    /\ site' = client
    /\ UNCHANGED <<client, s_engineSavedBytes, s_engineSuspended, watchdog, bot, detour, pending>>

\* Other bytes may be there after a map transition (CtoS.cpp:748).
ClientChanges ==
    /\ bot = "transition"
    /\ client' \in Originals /\ site' = client'
    /\ UNCHANGED <<s_engineSavedBytes, s_engineSuspended, watchdog, bot, detour, pending>>

DetourEnters ==
    /\ detour = "out" /\ site = Patch
    /\ detour' = "in"
    /\ UNCHANGED <<site, client, s_engineSavedBytes, s_engineSuspended, watchdog, bot, pending>>

\* One command of those queued, if any; module CommandLanes has the rings.
TakenOne(n) == IF n = 0 THEN 0 ELSE n - 1

DetourLeaves ==
    /\ detour = "in"
    /\ detour' = "out"
    /\ pending' = TakenOne(pending)
    /\ UNCHANGED <<site, client, s_engineSavedBytes, s_engineSuspended, watchdog, bot>>

-----------------------------------------------------------------------------
(* EngineWatchdog.                                                          *)

SuspensionIgnored == FALSE   \* mutant: the flag is not looked at
SuspensionSeen == s_engineSuspended

WatchdogWakes ==
    /\ watchdog = "sleep" /\ ~SuspensionSeen
    /\ watchdog' = "compare"
    /\ UNCHANGED <<site, client, s_engineSavedBytes, s_engineSuspended, bot, detour, pending>>

MatchesPatch == site = Patch   \* mutant: the wrong saved bytes are compared
MatchesOriginal == site # Patch /\ site = s_engineSavedBytes

\* Only the saved original bytes are repaired.
WatchdogCompares ==
    /\ watchdog = "compare"
    /\ watchdog' = IF MatchesOriginal THEN "repair" ELSE "sleep"
    /\ UNCHANGED <<site, client, s_engineSavedBytes, s_engineSuspended, bot, detour, pending>>

WatchdogRepairs ==
    /\ watchdog = "repair"
    /\ site' = Patch
    /\ watchdog' = "sleep"
    /\ UNCHANGED <<client, s_engineSavedBytes, s_engineSuspended, bot, detour, pending>>

\* Within 100 ms of the last repair it does not write.
WatchdogThrottles ==
    /\ watchdog = "repair"
    /\ watchdog' = "sleep"
    /\ UNCHANGED <<site, client, s_engineSavedBytes, s_engineSuspended, bot, detour, pending>>

Watchdog == WatchdogWakes \/ WatchdogCompares \/ WatchdogRepairs \/ WatchdogThrottles

-----------------------------------------------------------------------------
(* The bot thread: IsBotshubCommandLaneAvailable and an enqueue, then       *)
(* SuspendEngineHook, the transition, ResumeEngineHook.                     *)

BotQueues ==
    /\ bot = "playing" /\ ~s_engineSuspended /\ pending < MaxPending
    /\ pending' = pending + 1
    /\ UNCHANGED <<site, client, s_engineSavedBytes, s_engineSuspended, watchdog, bot, detour>>

SuspendFlags ==
    /\ bot = "playing"
    /\ s_engineSuspended' = TRUE
    /\ bot' = "asleep"
    /\ UNCHANGED <<site, client, s_engineSavedBytes, watchdog, detour, pending>>

\* After Sleep(10), which is meant to let the watchdog's cycle pass.
SuspendRestores ==
    /\ bot = "asleep"
    /\ SleepCoversCycle => watchdog = "sleep"
    /\ site' = s_engineSavedBytes
    /\ bot' = "transition"
    /\ UNCHANGED <<client, s_engineSavedBytes, s_engineSuspended, watchdog, detour, pending>>

SavedKept(bytes) == s_engineSavedBytes   \* mutant: the original bytes are not read again
SavedAgain(bytes) == bytes

ResumeReads ==
    /\ bot = "transition"
    /\ s_engineSavedBytes' = SavedAgain(site)
    /\ bot' = "reread"
    /\ UNCHANGED <<site, client, s_engineSuspended, watchdog, detour, pending>>

ResumePatches ==
    /\ bot = "reread"
    /\ site' = Patch
    /\ bot' = "patched"
    /\ UNCHANGED <<client, s_engineSavedBytes, s_engineSuspended, watchdog, detour, pending>>

ResumeUnflags ==
    /\ bot = "patched"
    /\ s_engineSuspended' = FALSE
    /\ bot' = "playing"
    /\ UNCHANGED <<site, client, s_engineSavedBytes, watchdog, detour, pending>>

InTransition == SuspendRestores \/ ResumeReads \/ ResumePatches \/ ResumeUnflags

-----------------------------------------------------------------------------

HookNext ==
    \/ ClientRestores \/ ClientChanges \/ DetourEnters \/ DetourLeaves
    \/ Watchdog
    \/ BotQueues \/ SuspendFlags \/ InTransition

HookSpec == HookInit /\ [][HookNext]_hookVars

\* The threads are scheduled; a throttled repair is followed by one that is
\* not.  The client draws frames, and a transition ends (its wait times out).
HookFairSpec ==
    /\ HookSpec
    /\ WF_hookVars(WatchdogWakes) /\ WF_hookVars(WatchdogCompares) /\ SF_hookVars(WatchdogRepairs)
    /\ SF_hookVars(DetourEnters) /\ WF_hookVars(DetourLeaves)
    /\ WF_hookVars(InTransition)

-----------------------------------------------------------------------------

\* Type invariant of the hook's state.
TypeOK ==
    /\ site \in Originals \cup {Patch} /\ client \in Originals
    /\ s_engineSavedBytes \in Originals \cup {Patch}
    /\ s_engineSuspended \in BOOLEAN
    /\ watchdog \in {"sleep", "compare", "repair"}
    /\ bot \in {"playing", "asleep", "transition", "reread", "patched"}
    /\ detour \in {"out", "in"}
    /\ pending \in 0 .. MaxPending

\* CtoS.h:37: between SuspendEngineHook and ResumeEngineHook the client's code
\* is unhooked.  Whether it holds rests on SleepCoversCycle: a watchdog that
\* read the flag before it was set patches the hook in after the restore.
HookOffWhileSuspended == bot = "transition" => site # Patch

\* What counts as original is what the client had there, so that the next
\* suspension restores client code and never the jump itself.
SavedAreClientBytes == bot \in {"playing", "asleep"} => s_engineSavedBytes = client

\* A hook the client has undone is patched in again, and queued commands run.
QueuedCommandRuns == \A n \in 1 .. MaxPending : pending = n ~> pending # n
=============================================================================
