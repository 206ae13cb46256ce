----------------------------- MODULE EventViewer -----------------------------
(***************************************************************************)
(* execEventViewer and eventThreadFunc of                                  *)
(* exampleSrc/GenTLInterfaceExample.cpp: a thread waits for GenTL events   *)
(* until a number of them was seen, or the user has hit a key and main has *)
(* told it by keepRunning, a plain bool on main's stack, and by EventKill. *)
(* An EventKill that finds nobody waiting ends the next EventGetData       *)
(* (assumed of the producer).                                              *)
(***************************************************************************)
EXTENDS Naturals

CONSTANTS
  EvMaxCounts,      \* the values of maxCount; 0 stands for infinite
  EvMaxPending      \* bound of the events that wait

VARIABLES
  evPc,             \* where main is
  evBuild,          \* is it the Windows build, maxCount, and does EventKill succeed?
  evRegistered,     \* is the event registered?
  evKeep,           \* keepRunning
  evThread,         \* where the event thread is
  evCount,          \* eventCount, when there is a limit
  evPending,        \* events not yet taken
  evKills,          \* EventKill calls that ended no wait yet
  evKey             \* a key was hit, or a line entered

evVars == <<evPc, evBuild, evRegistered, evKeep, evThread, evCount, evPending, evKills,
            evKey>>

EvOff == evPc = "off"

EvInit ==
  /\ evPc = "off" /\ evBuild = [windows |-> FALSE, max |-> 0, kills |-> TRUE]
  /\ evRegistered = FALSE /\ evKeep = FALSE /\ evThread = "none" /\ evCount = 0
  /\ evPending = 0 /\ evKills = 0 /\ evKey = FALSE

EvGoes(from, to) == evPc = from /\ evPc' = to
EvThreadRests == UNCHANGED <<evThread, evCount, evPending>>

\* The user's answers, and GCRegisterEvent.
EvRegister ==
  /\ evBuild' \in [windows : BOOLEAN, max : EvMaxCounts, kills : BOOLEAN]
  /\ \/ EvGoes("off", "info") /\ evRegistered' = TRUE
     \/ EvGoes("off", "returned") /\ UNCHANGED evRegistered
  /\ EvThreadRests /\ UNCHANGED <<evKeep, evKills, evKey>>

\* EVENT_SIZE_MAX, then the thread.
EvLaunch ==
  /\ \/ EvGoes("info", "wait") /\ evKeep' = TRUE /\ evThread' = "check"
     \/ EvGoes("info", "unregister") /\ UNCHANGED <<evKeep, evThread>>
  /\ UNCHANGED <<evBuild, evRegistered, evCount, evPending, evKills, evKey>>

\* A key: keepRunning = false ...
EvStop ==
  /\ EvGoes("wait", "kill") /\ evKey
  /\ evKeep' = FALSE
  /\ EvThreadRests /\ UNCHANGED <<evBuild, evRegistered, evKills, evKey>>

\* Faulty variant: the thread is left to see keepRunning.
EvKill_Not ==
  /\ EvGoes("kill", "join")
  /\ EvThreadRests /\ UNCHANGED <<evBuild, evRegistered, evKeep, evKills, evKey>>

\* ... and EventKill, whose result is not looked at.
EvKill ==
  /\ EvGoes("kill", "join")
  /\ evKills' = IF evBuild.kills THEN evKills + 1 ELSE evKills
  /\ EvThreadRests /\ UNCHANGED <<evBuild, evRegistered, evKeep, evKey>>

\* With a limit, the Windows build also looks whether the thread has ended.
EvSeeStopped ==
  /\ evBuild.windows /\ evBuild.max # 0 /\ ~evKey /\ ~evKeep
  /\ EvGoes("wait", "join")
  /\ EvThreadRests /\ UNCHANGED <<evBuild, evRegistered, evKeep, evKills, evKey>>

\* Faulty variant: the thread is not waited for.
EvJoin_Not ==
  /\ EvGoes("join", "unregister")
  /\ EvThreadRests /\ UNCHANGED <<evBuild, evRegistered, evKeep, evKills, evKey>>

EvJoin ==
  /\ EvGoes("join", "unregister") /\ evThread = "done"
  /\ EvThreadRests /\ UNCHANGED <<evBuild, evRegistered, evKeep, evKills, evKey>>

\* GCUnregisterEvent
EvUnregister ==
  /\ EvGoes("unregister", "returned")
  /\ evRegistered' = FALSE
  /\ EvThreadRests /\ UNCHANGED <<evBuild, evKeep, evKills, evKey>>

-----------------------------------------------------------------------------
EvMainRests == UNCHANGED <<evPc, evBuild, evRegistered, evKey>>

\* while (*a_keepRunning && (0 == a_maxCnt || a_maxCnt > eventCount))
EvThreadCheck ==
  /\ evThread = "check"
  /\ evThread' = IF evKeep /\ (evBuild.max = 0 \/ evBuild.max > evCount)
                 THEN "wait" ELSE "leave"
  /\ EvMainRests /\ UNCHANGED <<evKeep, evCount, evPending, evKills>>

\* EventGetData: a kill ends the loop; an event is counted (and printed); an error is
\* printed.
EvGetData ==
  /\ evThread = "wait"
  /\ \/ /\ evKills > 0 /\ evKills' = evKills - 1
        /\ evThread' = "leave" /\ UNCHANGED <<evCount, evPending>>
     \/ /\ evPending > 0 /\ evPending' = evPending - 1
        /\ evCount' = IF evBuild.max = 0 THEN 0 ELSE evCount + 1
        /\ evThread' = "check" /\ UNCHANGED evKills
     \/ evThread' = "check" /\ UNCHANGED <<evCount, evPending, evKills>>
  /\ EvMainRests /\ UNCHANGED evKeep

\* *a_keepRunning = false
EvThreadLeave ==
  /\ evThread = "leave" /\ evThread' = "done"
  /\ evKeep' = FALSE
  /\ EvMainRests /\ UNCHANGED <<evCount, evPending, evKills>>

EvArrives ==
  /\ evRegistered /\ evPending < EvMaxPending
  /\ evPending' = evPending + 1
  /\ EvMainRests /\ UNCHANGED <<evKeep, evThread, evCount, evKills>>

EvHitKey ==
  /\ evPc = "wait" /\ ~evKey /\ evKey' = TRUE
  /\ EvThreadRests /\ UNCHANGED <<evPc, evBuild, evRegistered, evKeep, evKills>>

EvMain == EvLaunch \/ EvStop \/ EvKill \/ EvSeeStopped \/ EvJoin \/ EvUnregister

\* What the thread does when a call returns for a reason; an error has none.
EvThread ==
  EvThreadCheck \/ EvThreadLeave \/ ((evKills > 0 \/ evPending > 0) /\ EvGetData)

EvNext == EvRegister \/ EvMain \/ EvThreadCheck \/ EvGetData \/ EvThreadLeave \/ EvArrives
          \/ EvHitKey

EvFairness == WF_evVars(EvMain) /\ WF_evVars(EvThread)

-----------------------------------------------------------------------------
\* The thread uses keepRunning and the output file on execEventViewer's stack, and the
\* event: all three live as long as it does.
EvThreadInScope ==
  evThread \notin {"none", "done"} => evRegistered /\ evPc \in {"wait", "kill", "join"}

\* The viewer returns after a key was hit, whatever the thread is doing then, also
\* when no event comes any more, if the EventKill succeeds: if it fails main waits for
\* the thread, and the thread for an event.  In the Windows build it also returns after
\* the last event that was asked for.  (Line 1146 says "Wait for some user input, or for
\* the thread to exit."; the Linux loop waits for the user input only.)
EvEnds ==
  /\ (evPc = "wait" /\ evKey /\ evBuild.kills) ~> (evPc = "returned")
  /\ (evPc = "wait" /\ evBuild.windows /\ evBuild.max # 0 /\ evCount = evBuild.max)
       ~> (evPc = "returned")
=============================================================================
