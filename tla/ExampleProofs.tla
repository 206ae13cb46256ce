---------------------------- MODULE ExampleProofs ----------------------------
(***************************************************************************)
(* Proofs about the threads, callbacks and cleanup of the programs of      *)
(* exampleSrc, for every number of frames, errors and events.  Each is     *)
(* about the program alone; in the module that checks them together the    *)
(* others do not move.                                                     *)
(***************************************************************************)
EXTENDS CIsimple, CiSimpleWin, CiSimpleCallBack, EventViewer, NodeConsole,
        SubFileIterator, LapAverager, GenTLView, TLAPS, FiniteSetTheorems,
        WellFoundedInduction

-----------------------------------------------------------------------------
\* CIsimple_Linux.c

CiSpec == CiInit /\ [][CiNext]_ciVars

\* What the program has at each of its calls.
CiInv ==
  \/ ciPc \in {"off", "open", "exit"} /\ ciHeld = {}
  \/ ciPc \in {"init", "configure", "interrogate", "map", "close"} /\ ciHeld = {"board"}
  \/ ciPc \in {"depth", "reset", "start", "next", "show"} /\ ciHeld = {"board", "buffers"}
  \/ ciPc = "unmap" /\ ciHeld \in {{"board"}, {"board", "buffers"}}

LEMMA CiStep == CiInv /\ [CiNext]_ciVars => CiInv'
<1> SUFFICES ASSUME CiInv, [CiNext]_ciVars PROVE CiInv'
  OBVIOUS
<1> USE DEF CiInv
<1>1. CASE CiDecodeArgs
  BY <1>1 DEF CiDecodeArgs
<1>2. CASE CiOpen
  BY <1>2 DEF CiOpen
<1>3. CASE CiSetup
  BY <1>3 DEF CiSetup, CiNextCall, CiGiveUp
<1>4. CASE CiStart
  BY <1>4 DEF CiStart, CiGiveUp
<1>5. CASE CiNextFrame \/ CiNoFrame
  BY <1>5 DEF CiNextFrame, CiNoFrame, CiGiveUp
<1>6. CASE CiShowFrame
  BY <1>6 DEF CiShowFrame
<1>7. CASE CiCleanUp
  BY <1>7 DEF CiCleanUp
<1>8. CASE CiFrameArrives \/ CiAborted \/ CiTypeNewline \/ UNCHANGED ciVars
  BY <1>8 DEF CiFrameArrives, CiAborted, CiTypeNewline, ciVars
<1> QED BY <1>1, <1>2, <1>3, <1>4, <1>5, <1>6, <1>7, <1>8 DEF CiNext, CiRun

\* Every path of the program through its andOut label gives back what it took, in
\* the right order, whichever call fails.
THEOREM CiAlwaysCleansUp == CiSpec => []CiCleansUp
<1>1. CiInit => CiInv
  BY DEF CiInit, CiInv
<1>2. CiInv => CiCleansUp
  BY DEF CiInv, CiCleansUp
<1> QED BY <1>1, <1>2, CiStep, PTL DEF CiSpec

-----------------------------------------------------------------------------
\* CiSimple_Windows.c

CsSpec == CsInit /\ [][CsNext]_csVars

\* Where the thread can be while main is at each of its calls.
CsInv ==
  /\ csThread \in {"none", "inquire", "create", "serve", "closed", "ended"}
  /\ csThread = "serve" => csRunning /\ csSurface
  /\ csThread = "closed" => csRunning /\ ~csSurface
  /\ csThread \in {"none", "inquire", "create", "ended"} => ~csRunning
  /\ csMain \in {"off", "open", "allocate", "create"} => csThread = "none"
  /\ csMain \in {"allocate", "create", "await"} => "board" \in csHeld
  /\ csMain = "await" => csKeep /\ csThread \notin {"none", "closed"}
  /\ csMain \in {"setup", "snap", "node"} => csKeep /\ csThread = "serve"
  /\ csMain = "join" => \/ csThread \in {"serve", "closed"}
                        \/ csThread = "ended" /\ ~csSurface
  /\ csMain = "cleanUp" => csThread = "ended" /\ ~csSurface
  /\ csThread \in {"inquire", "create"} => csMain = "await"

LEMMA CsStep == CsInv /\ [CsNext]_csVars => CsInv'
<1> SUFFICES ASSUME CsInv, [CsNext]_csVars PROVE CsInv'
  OBVIOUS
<1> USE DEF CsInv, CsMainGoes, CsThreadRests, CsMainRests
<1>1. CASE CsParseArgs
  BY <1>1 DEF CsParseArgs
<1>2. CASE CsOpen
  BY <1>2 DEF CsOpen
<1>3. CASE CsAllocate
  BY <1>3 DEF CsAllocate
<1>4. CASE CsCreateThread
  BY <1>4 DEF CsCreateThread
<1>5. CASE CsAwaitThread
  BY <1>5 DEF CsAwaitThread
<1>6. CASE CsSetup
  BY <1>6 DEF CsSetup
<1>7. CASE CsSnap \/ CsWriteNode
  BY <1>7 DEF CsSnap, CsWriteNode
<1>8. CASE CsLeaveLoop \/ CsJoin \/ CsCleanUp
  BY <1>8 DEF CsLeaveLoop, CsJoin, CsCleanUp
<1>9. CASE CsThreadStarts
  BY <1>9 DEF CsThreadStarts
<1>10. CASE CsThreadEnds
  BY <1>10 DEF CsThreadEnds
<1>11. CASE CsHitKey \/ UNCHANGED csVars
  BY <1>11 DEF CsHitKey, csVars
<1> QED BY <1>1, <1>2, <1>3, <1>4, <1>5, <1>6, <1>7, <1>8, <1>9, <1>10, <1>11
        DEF CsNext, CsMainStep, CsThreadStep

\* Running and KeepUpdating, read and written without a lock, keep main from the
\* display while it is closed and the thread from a board that is not open.
THEOREM CsFlagsSuffice == CsSpec => []CsFlagsProtect
<1>1. CsInit => CsInv
  BY DEF CsInit, CsInv
<1>2. CsInv => CsFlagsProtect
  BY DEF CsInv, CsFlagsProtect
<1> QED BY <1>1, <1>2, CsStep, PTL DEF CsSpec

-----------------------------------------------------------------------------
\* CiSimpleCallBack_Windows.c

CbSpec == CbInit /\ [][CbNext]_cbVars

\* A callback that blits runs before main goes on from its loop; one that counts
\* outlives it only on a Gn2.
CbInv ==
  /\ cbMain \in {"hookEOD", "hookStart", "setup", "start", "loop", "unhook", "abort", "close"}
       => cbSurface
  /\ cbMain \in {"off", "surface", "hookEOD"} => cbHooked = {}
  /\ cbBoard = "grabbing" => cbMain \in {"loop", "unhook", "abort"}
  /\ cbMain \in {"unhook", "abort", "close", "closeBoard"} => "EOD" \notin cbHooked
  /\ cbMain = "abort" /\ ~cbGn2 => "CTab" \notin cbHooked
  /\ cbRunning \in {"asking", "blitting"} => cbMain = "loop"
  /\ cbRunning = "counting" /\ ~cbGn2 => cbMain \in {"loop", "unhook"}
  /\ cbHooked # {} => cbBoard # "closed"
  /\ cbMain \in {"surface", "hookEOD", "hookStart", "setup", "start", "loop", "unhook",
                 "abort", "close", "closeBoard"} => cbBoard # "closed"
  /\ cbMain = "off" => cbRunning = "none" /\ cbBoard = "closed"

LEMMA CbStep == CbInv /\ [CbNext]_cbVars => CbInv'
<1> SUFFICES ASSUME CbInv, [CbNext]_cbVars PROVE CbInv'
  OBVIOUS
<1> USE DEF CbInv, CbGoes, CbStartType
<1>1. CASE CbOpen
  BY <1>1 DEF CbOpen
<1>2. CASE CbCreateSurface
  BY <1>2 DEF CbCreateSurface
<1>3. CASE CbAddCallBacks
  BY <1>3 DEF CbAddCallBacks
<1>4. CASE CbAcquire
  BY <1>4 DEF CbAcquire
<1>5. CASE CbRemoveCallBacks
  BY <1>5 DEF CbRemoveCallBacks
<1>6. CASE CbCleanUp
  BY <1>6 DEF CbCleanUp
<1>7. CASE CbFrame
  BY <1>7 DEF CbFrame
<1>8. CASE CbBlit
  BY <1>8 DEF CbBlit
<1>9. CASE CbCount
  BY <1>9 DEF CbCount
<1>10. CASE CbHitKey \/ UNCHANGED cbVars
  BY <1>10 DEF CbHitKey, cbVars
<1> QED BY <1>1, <1>2, <1>3, <1>4, <1>5, <1>6, <1>7, <1>8, <1>9, <1>10 DEF CbNext

\* No callback uses the display after it is closed or, except on a Gn2, a variable
\* of main after main has returned.
THEOREM CbCallBacksAreSafe == CbSpec => []CbUsesWhatExists
<1>1. CbInit => CbInv
  BY DEF CbInit, CbInv
<1>2. CbInv => CbUsesWhatExists
  BY DEF CbInv, CbUsesWhatExists
<1> QED BY <1>1, <1>2, CbStep, PTL DEF CbSpec

-----------------------------------------------------------------------------
\* GenTLInterfaceExample.cpp, execEventViewer

EvSpec == EvInit /\ [][EvNext]_evVars

EvInv ==
  /\ evPc \in {"off", "info", "unregister", "returned"} => evThread \in {"none", "done"}
  /\ evPc \in {"info", "wait", "kill", "join"} => evRegistered
  /\ evPc \in {"off", "info", "wait", "kill", "join", "unregister", "returned"}

LEMMA EvStep == EvInv /\ [EvNext]_evVars => EvInv'
<1> SUFFICES ASSUME EvInv, [EvNext]_evVars PROVE EvInv'
  OBVIOUS
<1> USE DEF EvInv, EvGoes, EvThreadRests, EvMainRests
<1>1. CASE EvRegister \/ EvLaunch
  BY <1>1 DEF EvRegister, EvLaunch
<1>2. CASE EvStop \/ EvKill \/ EvSeeStopped
  BY <1>2 DEF EvStop, EvKill, EvSeeStopped
<1>3. CASE EvJoin \/ EvUnregister
  BY <1>3 DEF EvJoin, EvUnregister
<1>4. CASE EvThreadCheck \/ EvGetData \/ EvThreadLeave
  BY <1>4 DEF EvThreadCheck, EvGetData, EvThreadLeave
<1>5. CASE EvArrives \/ EvHitKey \/ UNCHANGED evVars
  BY <1>5 DEF EvArrives, EvHitKey, evVars
<1> QED BY <1>1, <1>2, <1>3, <1>4, <1>5 DEF EvNext, EvMain

\* The event thread ends before execEventViewer lets go of what it uses, however
\* many events come and whenever the user hits a key.
THEOREM EvThreadStaysInScope == EvSpec => []EvThreadInScope
<1>1. EvInit => EvInv
  BY DEF EvInit, EvInv
<1>2. EvInv => EvThreadInScope
  BY DEF EvInv, EvThreadInScope
<1> QED BY <1>1, <1>2, EvStep, PTL DEF EvSpec
-----------------------------------------------------------------------------
\* GenTLInterfaceExample.cpp, the node console

NcSpec == NcInit /\ [][NcNextStep]_ncVars

\* While a command closes and opens modules the console has no node map, so that a
\* failure that closes the library leaves none behind.
NcInv ==
  /\ ncNext \in Nat /\ ncNext > SystemHandle
  /\ {ncIf, ncDev} \subseteq Nat /\ ncIf < ncNext /\ ncDev < ncNext
  /\ SystemHandle \notin {ncIf, ncDev}
  /\ ncIf = ncDev => ncIf = NullHandle
  /\ ncRemote \in {NullHandle, ncDev}
  /\ NullHandle \notin ncOpen
  /\ ncPc \in {"off", "closeDev", "closeIf", "openIf", "openDev"} => ncActive = NullHandle
  /\ ncPc \in {"off", "closeIf", "openIf", "openDev"} => {ncDev, ncRemote} = {NullHandle}
  /\ ncPc \in {"off", "openIf"} => ncIf = NullHandle
  /\ ncPc \in {"off", "prompt", "setif", "setdev", "setport", "closeDev", "closeIf", "openIf",
               "openDev", "returned"}
  /\ ncCmd \in {"setif", "setdev"}
  /\ NcMapsOfOpenModules

LEMMA NcStep == NcInv /\ [NcNextStep]_ncVars => NcInv'
<1> SUFFICES ASSUME NcInv, [NcNextStep]_ncVars PROVE NcInv'
  OBVIOUS
<1> USE DEF NcInv, NcGoes, NullHandle, SystemHandle, NcMapsOfOpenModules
<1>1. CASE NcOpenSystem
  BY <1>1 DEF NcOpenSystem
<1>2. CASE NcSetIf
  BY <1>2 DEF NcSetIf
<1>3. CASE NcSetDev
  BY <1>3 DEF NcSetDev
<1>4. CASE NcCloseDevice
  <2>1. UNCHANGED <<ncCmd, ncIf, ncActive, ncPort, ncNext>> /\ ncPc = "closeDev"
    BY <1>4 DEF NcCloseDevice
  <2>2. CASE /\ ncPc' \in {"closeIf", "openDev"} /\ ncOpen' = ncOpen \ {ncDev}
             /\ ncDev' = NullHandle /\ ncRemote' = NullHandle
    <3>1. NcMapsOfOpenModules'
      <4>1. {ncActive, ncRemote}' \ {NullHandle} \subseteq ncOpen'
        BY <2>1, <2>2
      <4>2. ncOpen' \subseteq {SystemHandle, ncIf, ncDev}'
        BY <2>1, <2>2
      <4>3. ncOpen' # {} => {ncIf, ncDev}' \ {NullHandle} \subseteq ncOpen'
        BY <2>1, <2>2
      <4> QED BY <4>1, <4>2, <4>3
    <3> QED BY <2>1, <2>2, <3>1
  <2>3. CASE ncPc' = "prompt" /\ UNCHANGED <<ncOpen, ncDev, ncRemote>>
    BY <2>1, <2>3
  <2> QED BY <1>4, <2>2, <2>3 DEF NcCloseDevice
<1>5. CASE NcCloseInterface
  <2>1. UNCHANGED <<ncCmd, ncDev, ncRemote, ncActive, ncPort, ncNext>>
    BY <1>5 DEF NcCloseInterface
  <2>2. CASE /\ ncPc = "closeIf" /\ ncPc' = "openIf"
             /\ ncOpen' = ncOpen \ {ncIf} /\ ncIf' = NullHandle
    BY <2>1, <2>2
  <2>3. CASE ncPc = "closeIf" /\ ncPc' = "prompt" /\ UNCHANGED <<ncOpen, ncIf>>
    BY <2>1, <2>3
  <2> QED BY <1>5, <2>2, <2>3 DEF NcCloseInterface
<1>6. CASE NcOpenInterface
  <2>1. ncPc = "openIf" /\ UNCHANGED <<ncCmd, ncDev, ncRemote, ncActive, ncPort>>
    BY <1>6 DEF NcOpenInterface
  <2>2. CASE NcCloseLib /\ UNCHANGED <<ncIf, ncNext>>
    BY <2>1, <2>2 DEF NcCloseLib
  <2>3. CASE ncPc' = "prompt" /\ UNCHANGED <<ncOpen, ncIf, ncNext>>
    BY <2>1, <2>3
  <2>4. CASE /\ SystemHandle \in ncOpen /\ ncPc' = "openDev"
             /\ ncIf' = ncNext /\ ncNext' = ncNext + 1 /\ ncOpen' = ncOpen \cup {ncNext}
    BY <2>1, <2>4
  <2> QED BY <1>6, <2>2, <2>3, <2>4 DEF NcOpenInterface
<1>7. CASE NcOpenDevice
  <2>1. ncPc = "openDev" /\ ncPc' = "prompt" /\ UNCHANGED <<ncCmd, ncIf>>
    BY <1>7 DEF NcOpenDevice, NcCloseLib
  <2>2. CASE /\ ncOpen' \in {{}, ncOpen}
             /\ UNCHANGED <<ncDev, ncRemote, ncActive, ncPort, ncNext>>
    BY <2>1, <2>2
  <2>3. CASE /\ ncIf \in ncOpen /\ ncDev' = ncNext /\ ncNext' = ncNext + 1
             /\ ncOpen' = ncOpen \cup {ncNext}
             /\ \/ UNCHANGED <<ncRemote, ncActive, ncPort>>
                \/ ncRemote' = ncNext /\ ncActive' = ncNext /\ ncPort' = ncNext
    BY <2>1, <2>3
  <2> QED BY <1>7, <2>2, <2>3 DEF NcOpenDevice, NcCloseLib
<1>8. CASE NcSetPort
  BY <1>8 DEF NcSetPort
<1>9. CASE NcCommand \/ NcExit \/ UNCHANGED ncVars
  BY <1>9 DEF NcCommand, NcExit, ncVars
<1> QED BY <1>1, <1>2, <1>3, <1>4, <1>5, <1>6, <1>7, <1>8, <1>9 DEF NcNextStep

\* The console never uses a node map of a module that is closed, after any number of
\* commands and failures.
THEOREM NcMapsAreOfOpenModules == NcSpec => []NcMapsOfOpenModules
<1>1. NcInit => NcInv
  BY DEF NcInit, NcInv, NcMapsOfOpenModules, NullHandle, SystemHandle
<1>2. NcInv => NcMapsOfOpenModules
  BY DEF NcInv
<1> QED BY <1>1, <1>2, NcStep, PTL DEF NcSpec

-----------------------------------------------------------------------------
\* SubFileIterator.h

SiSpec == SiInit /\ [][SiNext]_siVars

\* While the iterator is good it stands at the file shown last.
SiInv ==
  /\ siPc \in {"off", "on", "gone"} /\ siWin \in BOOLEAN
  /\ siFiles \in Nat /\ siAt \in Nat /\ siHeld \in Nat /\ siFrees \in Nat
  /\ siSeen \in Seq(Nat)
  /\ \A i \in 1 .. Len(siSeen) : siSeen[i] = i - 1
  /\ siPc = "off" => siFiles = 0 /\ siAt = 0 /\ siHeld = 0 /\ siFrees = 0 /\ siSeen = <<>>
  /\ siPc = "on" /\ siHeld > 0 =>
       /\ siAt < siFiles /\ Len(siSeen) = siAt + 1 /\ siFrees = 0
       /\ ~siWin => siHeld = siFiles
  /\ siPc = "on" /\ siHeld = 0 =>
       Len(siSeen) = siFiles /\ siFrees = IF siFiles > 0 THEN 1 ELSE 0
  /\ siPc = "gone" => siHeld = 0 /\ siFrees = IF siFiles > 0 THEN 1 ELSE 0

LEMMA SiStepKeeps ==
  ASSUME SiMaxFiles \in Nat, SiInv, [SiNext]_siVars
  PROVE  SiInv'
<1>1. CASE SiOpen
  <2>1. /\ siPc' = "on" /\ siWin' \in BOOLEAN /\ siFiles' \in Nat /\ siAt' = 0 /\ siFrees' = 0
        /\ siHeld' = IF siWin' /\ siFiles' > 0 THEN 1 ELSE siFiles'
    BY <1>1 DEF SiOpen, SiInv
  <2>2. CASE siFiles' > 0
    <3>1. siSeen' = <<0>>
      BY <1>1, <2>2 DEF SiOpen
    <3> QED BY <2>1, <2>2, <3>1 DEF SiInv
  <2>3. CASE ~(siFiles' > 0)
    <3>1. siSeen' = <<>> /\ siFiles' = 0
      BY <1>1, <2>1, <2>3 DEF SiOpen
    <3> QED BY <2>1, <3>1 DEF SiInv
  <2> QED BY <2>2, <2>3
<1>2. CASE SiStep
  <2> USE DEF SiInv
  <2>0. siPc = "on" /\ UNCHANGED <<siPc, siWin, siFiles>>
    BY <1>2 DEF SiStep
  <2>1. CASE siHeld = 0
    <3>1. /\ siHeld' = 0 /\ siFrees' = siFrees /\ siAt' \in Nat
          /\ ~SiGoodAt(siHeld', siAt')
      BY <1>2, <2>1 DEF SiStep, SiGoodAt, SiClose
    <3>2. siSeen' = siSeen
      BY <1>2, <3>1 DEF SiStep
    <3> QED BY <2>0, <2>1, <3>1, <3>2
  <2>2. CASE siHeld > 0 /\ siAt + 1 < siFiles
    <3>1. /\ UNCHANGED <<siHeld, siFrees>> /\ siAt' = siAt + 1
          /\ SiGoodAt(siHeld', siAt')
      BY <1>2, <2>0, <2>2 DEF SiStep, SiGoodAt
    <3>2. siSeen' = Append(siSeen, siAt + 1)
      BY <1>2, <3>1 DEF SiStep
    <3>3. /\ Len(siSeen') = siAt + 2 /\ siSeen' \in Seq(Nat)
          /\ \A i \in 1 .. Len(siSeen') : siSeen'[i] = i - 1
      BY <2>0, <2>2, <3>2
    <3> QED BY <2>0, <2>2, <3>1, <3>3
  <2>3. CASE siHeld > 0 /\ ~(siAt + 1 < siFiles)
    <3>1. siHeld' = 0 /\ siFrees' = 1 /\ siAt' \in Nat /\ siAt + 1 = siFiles
      BY <1>2, <2>0, <2>3 DEF SiStep, SiGoodAt, SiClose
    <3>2. ~SiGoodAt(siHeld', siAt')
      BY <3>1 DEF SiGoodAt
    <3>3. siSeen' = siSeen
      BY <1>2, <3>2 DEF SiStep
    <3> QED BY <2>0, <2>3, <3>1, <3>3
  <2> QED BY <2>1, <2>2, <2>3
<1>3. CASE SiDestroy
  BY <1>3 DEF SiDestroy, SiClose, SiInv
<1>4. CASE UNCHANGED siVars
  BY <1>4 DEF siVars, SiInv
<1> QED BY <1>1, <1>2, <1>3, <1>4 DEF SiNext

\* Both iterators show any number of files in order, each once, and give back once
\* what they took.
THEOREM SiShowsEachOnce ==
  ASSUME SiMaxFiles \in Nat
  PROVE  SiSpec => []SiEachOnce
<1>1. SiInit => SiInv
  <2>1. <<>> \in Seq(Nat) /\ Len(<<>>) = 0
    OBVIOUS
  <2> SUFFICES ASSUME SiInit PROVE SiInv
    OBVIOUS
  <2>2. siPc = "off" /\ siWin = FALSE /\ siSeen = <<>>
        /\ siFiles = 0 /\ siAt = 0 /\ siHeld = 0 /\ siFrees = 0
    BY DEF SiInit
  <2>3. siSeen \in Seq(Nat) /\ Len(siSeen) = 0
    BY <2>1, <2>2
  <2>4. siWin \in BOOLEAN
    BY <2>2
  <2> QED BY <2>2, <2>3, <2>4 DEF SiInv
<1>2. SiInv => SiEachOnce
  <2> SUFFICES ASSUME SiInv PROVE SiEachOnce
    OBVIOUS
  <2>1. siSeen = [i \in 1 .. Len(siSeen) |-> i - 1]
    BY DEF SiInv
  <2>2. siPc = "on" /\ ~SiGoodAt(siHeld, siAt) => Len(siSeen) = siFiles
    BY DEF SiInv, SiGoodAt
  <2>3. siFrees <= 1 /\ (siPc = "gone" => siFrees = IF siFiles > 0 THEN 1 ELSE 0)
    <3>1. siPc \in {"off", "on", "gone"}
      BY DEF SiInv
    <3>2. CASE siPc = "on" /\ siHeld > 0
      BY <3>2 DEF SiInv
    <3>3. CASE siPc = "on" /\ ~(siHeld > 0)
      BY <3>3 DEF SiInv
    <3>4. CASE siPc # "on"
      BY <3>1, <3>4 DEF SiInv
    <3> QED BY <3>2, <3>3, <3>4
  <2> QED BY <2>1, <2>2, <2>3 DEF SiEachOnce
<1>3. SiInv /\ [SiNext]_siVars => SiInv'
  BY SiStepKeeps
<1> QED BY <1>1, <1>2, <1>3, PTL DEF SiSpec
-----------------------------------------------------------------------------
\* Sequences without repetition.

LEMMA SeqOfSet ==
  ASSUME NEW S, IsFiniteSet(S)
  PROVE  /\ SetToSeq(S) \in Seq(S)
         /\ IsInjective(SetToSeq(S))
         /\ ToSet(SetToSeq(S)) = S
<1> DEFINE n == Cardinality(S)
<1>1. n \in Nat /\ IsFiniteSet(1 .. n) /\ Cardinality(1 .. n) = n
  BY FS_CardinalityType, FS_Interval
<1>2. PICK f : f \in Bijection(1 .. n, S)
  BY <1>1, FS_SameCardinalityBij DEF ExistsBijection
<1>3. f \in [1 .. n -> S] /\ IsInjective(f)
  BY <1>2 DEF Bijection, Injection, IsInjective
<1> DEFINE s == SetToSeq(S)
<1>4. s \in [1 .. n -> S] /\ IsInjective(s)
  BY <1>3 DEF SetToSeq
<1> HIDE DEF s
<1>5. s \in Injection(1 .. n, S)
  BY <1>4 DEF Injection, IsInjective
<1>6. s \in Surjection(1 .. n, S)
  BY <1>1, <1>5, FS_Injection
<1>7. ToSet(s) = S
  BY <1>4, <1>6 DEF ToSet, Surjection
<1> QED BY <1>1, <1>4, <1>7 DEF s

LEMMA HeadTaken ==
  ASSUME NEW S, NEW s \in Seq(S), s # <<>>, IsInjective(s)
  PROVE  /\ Tail(s) \in Seq(S) /\ IsInjective(Tail(s))
         /\ ToSet(Tail(s)) = ToSet(s) \ {Head(s)}
         /\ Head(s) \in ToSet(s) /\ Head(s) \in S
<1>1. Len(s) \in Nat \ {0} /\ s[1] \in S
  OBVIOUS
<1>2. /\ Tail(s) \in Seq(S) /\ Len(Tail(s)) = Len(s) - 1
      /\ \A i \in 1 .. Len(s) - 1 : Tail(s)[i] = s[i + 1]
      /\ Head(s) = s[1]
  BY <1>1
<1>3. IsInjective(Tail(s))
  BY <1>1, <1>2 DEF IsInjective
<1>4. ASSUME NEW x \in ToSet(Tail(s)) PROVE x \in ToSet(s) \ {Head(s)}
  <2>1. PICK i \in 1 .. Len(s) - 1 : x = s[i + 1]
    BY <1>1, <1>2 DEF ToSet
  <2>2. i + 1 \in DOMAIN s /\ 1 \in DOMAIN s /\ i + 1 # 1
    BY <1>1, <2>1
  <2> QED BY <1>2, <2>1, <2>2 DEF ToSet, IsInjective
<1>5. ASSUME NEW x \in ToSet(s) \ {Head(s)} PROVE x \in ToSet(Tail(s))
  <2>1. PICK i \in 1 .. Len(s) : x = s[i]
    BY DEF ToSet
  <2>2. i - 1 \in 1 .. Len(s) - 1 /\ i = (i - 1) + 1
    BY <1>1, <1>2, <2>1
  <2>3. Tail(s)[i - 1] = x /\ i - 1 \in DOMAIN Tail(s)
    BY <1>1, <1>2, <2>1, <2>2
  <2> QED BY <2>3 DEF ToSet
<1>6. Head(s) \in ToSet(s)
  BY <1>1, <1>2 DEF ToSet
<1> QED BY <1>1, <1>2, <1>3, <1>4, <1>5, <1>6

LEMMA Joined ==
  ASSUME NEW S, NEW s \in Seq(S), NEW t \in Seq(S), IsInjective(s), IsInjective(t),
         ToSet(s) \cap ToSet(t) = {}
  PROVE  /\ s \o t \in Seq(S) /\ IsInjective(s \o t)
         /\ ToSet(s \o t) = ToSet(s) \cup ToSet(t)
<1> DEFINE st == s \o t
<1>1. /\ st \in Seq(S) /\ Len(s) \in Nat /\ Len(t) \in Nat /\ Len(st) = Len(s) + Len(t)
      /\ DOMAIN st = 1 .. Len(s) + Len(t)
      /\ DOMAIN s = 1 .. Len(s) /\ DOMAIN t = 1 .. Len(t)
  OBVIOUS
<1>2. /\ \A i \in 1 .. Len(s) : st[i] = s[i]
      /\ \A i \in 1 .. Len(t) : st[Len(s) + i] = t[i]
  BY <1>1
<1> HIDE DEF st
<1>3. \A i \in DOMAIN st : i \in DOMAIN s \/ (i - Len(s) \in DOMAIN t /\ i = Len(s) + (i - Len(s)))
  BY <1>1
<1>4. ToSet(st) \subseteq ToSet(s) \cup ToSet(t)
  <2> SUFFICES ASSUME NEW i \in DOMAIN st PROVE st[i] \in ToSet(s) \cup ToSet(t)
    BY DEF ToSet
  <2>1. CASE i \in DOMAIN s
    BY <1>1, <1>2, <2>1 DEF ToSet
  <2>2. CASE i - Len(s) \in DOMAIN t /\ i = Len(s) + (i - Len(s))
    <3>1. st[i] = t[i - Len(s)]
      BY <1>1, <1>2, <2>2
    <3> QED BY <2>2, <3>1 DEF ToSet
  <2> QED BY <1>3, <2>1, <2>2
<1>5. ToSet(s) \cup ToSet(t) \subseteq ToSet(st)
  <2>1. \A i \in DOMAIN s : i \in DOMAIN st
    BY <1>1
  <2>2. \A i \in DOMAIN t : Len(s) + i \in DOMAIN st
    BY <1>1
  <2> QED BY <1>1, <1>2, <2>1, <2>2 DEF ToSet
<1>6. IsInjective(st)
  <2> SUFFICES ASSUME NEW i \in DOMAIN st, NEW j \in DOMAIN st, st[i] = st[j] PROVE i = j
    BY DEF IsInjective
  <2>1. \/ i \in DOMAIN s /\ st[i] = s[i]
        \/ i - Len(s) \in DOMAIN t /\ st[i] = t[i - Len(s)]
    BY <1>1, <1>2, <1>3
  <2>2. \/ j \in DOMAIN s /\ st[j] = s[j]
        \/ j - Len(s) \in DOMAIN t /\ st[j] = t[j - Len(s)]
    BY <1>1, <1>2, <1>3
  <2>3. CASE i \in DOMAIN s /\ j \in DOMAIN s /\ s[i] = s[j]
    BY <2>3 DEF IsInjective
  <2>4. CASE i - Len(s) \in DOMAIN t /\ j - Len(s) \in DOMAIN t /\ t[i - Len(s)] = t[j - Len(s)]
    <3>1. i - Len(s) = j - Len(s)
      BY <2>4 DEF IsInjective
    <3> QED BY <1>1, <3>1
  <2> QED BY <2>1, <2>2, <2>3, <2>4 DEF ToSet
<1> QED BY <1>1, <1>4, <1>5, <1>6 DEF st

LEMMA Appended ==
  ASSUME NEW S, NEW s \in Seq(S), NEW e \in S, IsInjective(s), e \notin ToSet(s)
  PROVE  /\ Append(s, e) \in Seq(S) /\ IsInjective(Append(s, e))
         /\ ToSet(Append(s, e)) = ToSet(s) \cup {e}
<1> DEFINE se == Append(s, e)
<1>1. /\ se \in Seq(S) /\ Len(s) \in Nat /\ DOMAIN s = 1 .. Len(s)
      /\ DOMAIN se = 1 .. Len(s) + 1
      /\ se[Len(s) + 1] = e
      /\ \A i \in 1 .. Len(s) : se[i] = s[i]
  OBVIOUS
<1> HIDE DEF se
<1>2. \A i \in DOMAIN se : i \in DOMAIN s \/ i = Len(s) + 1
  BY <1>1
<1>3. DOMAIN s \subseteq DOMAIN se /\ Len(s) + 1 \in DOMAIN se
  BY <1>1
<1>4. ToSet(se) = ToSet(s) \cup {e}
  BY <1>1, <1>2, <1>3 DEF ToSet
<1>5. IsInjective(se)
  <2> SUFFICES ASSUME NEW i \in DOMAIN se, NEW j \in DOMAIN se, se[i] = se[j] PROVE i = j
    BY DEF IsInjective
  <2>1. \A k \in DOMAIN s : se[k] = s[k] /\ se[k] # e
    BY <1>1 DEF ToSet
  <2> QED BY <1>1, <1>2, <2>1 DEF IsInjective
<1> QED BY <1>1, <1>4, <1>5 DEF se

LEMMA OccursOnce ==
  ASSUME NEW S, NEW s \in Seq(S), IsInjective(s), NEW e
  PROVE  Cardinality({i \in DOMAIN s : s[i] = e}) = IF e \in ToSet(s) THEN 1 ELSE 0
<1> DEFINE at == {i \in DOMAIN s : s[i] = e}
<1>1. CASE e \in ToSet(s)
  <2>1. PICK k \in DOMAIN s : s[k] = e
    BY <1>1 DEF ToSet
  <2>2. at = {k}
    BY <2>1 DEF IsInjective
  <2> QED BY <1>1, <2>2, FS_Singleton
<1>2. CASE e \notin ToSet(s)
  <2>1. at = {}
    BY <1>2 DEF ToSet
  <2> QED BY <1>2, <2>1, FS_EmptySet
<1> QED BY <1>1, <1>2
-----------------------------------------------------------------------------
\* GenTLView.cpp

GvSafetySpec == GvInit /\ [][GvNext]_gvVars

GvAcqThread == [pc : {"none", "check", "wait", "got", "done"},
                event : {"none", "abort", "buffer", "error"},
                buf : BufferHandles \cup {NoBuffer}, errors : Nat]
GvCmdThread == [pc : {"none", "line", "obey", "ask", "count", "garbled", "exit", "done"}, quit : BOOLEAN,
                promise : BOOLEAN, exit : BOOLEAN, n : Nat]
GvStream == [handle : BOOLEAN, open : BOOLEAN, event : BOOLEAN, kills : Nat,
             refused : BOOLEAN]

GvTypes ==
  /\ mainPc \in {"open", "register", "announce", "launch", "queue", "start", "command", "show",
                 "wait", "stop", "kill", "joinAcq", "joinCmd", "close", "gone"}
  /\ mode \in GvModes
  /\ acq \in GvAcqThread /\ cmd \in GvCmdThread /\ stream \in GvStream
  /\ input \in Seq(BufferHandles) /\ output \in Seq(BufferHandles)
  /\ dequeued \in Seq(BufferHandles) /\ lost \in SUBSET BufferHandles

\* How far main is says which threads there are and what the stream is; nobody is past
\* joining a thread that still runs.
GvOrder ==
  /\ mainPc \in {"open", "register", "announce", "launch"} => acq.pc = "none"
  /\ acq.pc = "none" /\ stream.open => mainPc \in {"register", "announce", "launch"}
  /\ mainPc = "open" => ~stream.open
  /\ mainPc \in {"register", "announce", "launch"} => stream.open
  /\ mainPc \in {"queue", "start", "command", "show", "wait"} => stream.open /\ acq.pc # "none"
  /\ cmd.pc # "none" =>
       /\ mainPc \in {"show", "wait", "stop", "kill", "joinAcq", "joinCmd", "close", "gone"}
       /\ acq.pc # "none"
       /\ mainPc # "gone" => stream.open
  /\ mainPc \in {"joinCmd", "close", "gone"} => acq.pc \in {"none", "done"}
  /\ mainPc \in {"close", "gone"} => cmd.pc \in {"none", "done"}

\* Before the first buffer is queued the producer has none.
GvEarly ==
  acq.pc = "none" \/ mainPc = "queue" =>
    input = <<>> /\ output = <<>> /\ acq.buf = NoBuffer /\ lost = {}

\* The acquisition thread has a buffer when it was told of one.
GvEvent ==
  acq.buf # NoBuffer <=> acq.pc = "got" /\ acq.event = "buffer"

InHand == IF acq.buf = NoBuffer THEN {} ELSE {acq.buf}

\* No handle is twice in a queue, or in two queues.
GvPlaces ==
  /\ IsInjective(input) /\ IsInjective(output) /\ IsInjective(dequeued)
  /\ ToSet(input) \cap ToSet(output) = {}
  /\ (ToSet(input) \cup ToSet(output)) \cap ToSet(dequeued) = {}
  /\ (ToSet(input) \cup ToSet(output) \cup ToSet(dequeued)) \cap InHand = {}
  /\ BufferHandles \ lost = ToSet(input) \cup ToSet(output) \cup ToSet(dequeued) \cup InHand

GvHolders == stream.open /\ acq.pc # "none" => GvPlaces

GvInv == GvTypes /\ GvOrder /\ GvEarly /\ GvEvent /\ GvHolders

LEMMA EmptyTyped == ASSUME NEW S PROVE <<>> \in Seq(S)
OBVIOUS

LEMMA EmptyInjective == IsInjective(<<>>)
<1>1. DOMAIN <<>> = {}
  OBVIOUS
<1> QED BY <1>1 DEF IsInjective

LEMMA EmptySet == ToSet(<<>>) = {}
<1>1. DOMAIN <<>> = {}
  OBVIOUS
<1> QED BY <1>1 DEF ToSet

LEMMA GvInvInit == GvInit => GvInv
<1> SUFFICES ASSUME GvInit PROVE GvInv
  OBVIOUS
<1>1. GvTypes
  BY EmptyTyped, ModeAssumption DEF GvInit, GvTypes, GvAcqThread, GvCmdThread, GvStream
<1>2. GvOrder /\ GvEarly /\ GvEvent /\ GvHolders
  BY BufferAssumption DEF GvInit, GvOrder, GvEarly, GvEvent, GvHolders
<1> QED BY <1>1, <1>2 DEF GvInv

\* Nothing of what the invariant is about moves when only main, the user's wishes and the
\* camera do.
LEMMA GvPlacesStay ==
  ASSUME GvPlaces, UNCHANGED <<input, output, dequeued, lost>>, acq'.buf = acq.buf
  PROVE  GvPlaces'
BY DEF GvPlaces, InHand

LEMMA GvMainStep == ASSUME GvInv, GvMain PROVE GvInv'
<1>0. GvTypes /\ GvOrder /\ GvEarly /\ GvEvent /\ GvHolders
  BY DEF GvInv
<1>1. CASE OpenDataStream \/ RegisterEvent \/ AnnounceBuffers
  <2>1. /\ UNCHANGED <<mode, acq, cmd, input, output, dequeued, lost>>
        /\ stream' \in GvStream
        /\ mainPc \in {"open", "register", "announce"}
        /\ mainPc' \in {"register", "announce", "launch", "stop"}
        /\ stream'.open <=> mainPc' # "stop"
    BY <1>0, <1>1 DEF OpenDataStream, RegisterEvent, AnnounceBuffers, MainGoes, GvThreads,
                      GvProducer, GvTypes, GvStream, GvOrder
  <2>2. GvTypes' /\ GvEarly' /\ GvEvent' /\ GvHolders'
    BY <1>0, <2>1 DEF GvTypes, GvOrder, GvEarly, GvEvent, GvHolders
  <2>3. GvOrder'
    BY <1>0, <2>1 DEF GvOrder
  <2> QED BY <2>2, <2>3 DEF GvInv
<1>2. CASE LaunchAcqThread
  <2>1. /\ mainPc = "launch" /\ mainPc' \in {"command", "queue"} /\ acq.pc = "none"
        /\ acq' = [acq EXCEPT !.pc = "check"]
        /\ dequeued' = SetToSeq(BufferHandles)
        /\ UNCHANGED <<mode, cmd, stream, input, output, lost>>
    BY <1>0, <1>2 DEF LaunchAcqThread, MainGoes, GvProducer, GvOrder
  <2>2. /\ acq'.pc = "check" /\ acq'.buf = NoBuffer
        /\ input = <<>> /\ output = <<>> /\ lost = {}
    BY <1>0, <2>1 DEF GvTypes, GvAcqThread, GvEarly
  <2>3. GvTypes'
    BY <1>0, <2>1, SeqOfSet, BufferAssumption DEF GvTypes, GvAcqThread
  <2>4. GvEarly' /\ GvEvent'
    BY <2>1, <2>2 DEF GvEarly, GvEvent
  <2>5. GvPlaces'
    <3>1. IsInjective(dequeued') /\ ToSet(dequeued') = BufferHandles
      BY <2>1, SeqOfSet, BufferAssumption
    <3>2. /\ IsInjective(input') /\ ToSet(input') = {} /\ IsInjective(output')
          /\ ToSet(output') = {} /\ InHand' = {} /\ lost' = {}
      BY <2>1, <2>2, EmptyInjective, EmptySet DEF InHand
    <3> QED BY <3>1, <3>2 DEF GvPlaces
  <2>6. GvOrder'
    BY <1>0, <2>1, <2>2 DEF GvOrder
  <2> QED BY <2>3, <2>4, <2>5, <2>6 DEF GvInv, GvHolders
<1>3. CASE QueueAll
  <2>1. PICK failed \in SUBSET BufferHandles :
          dequeued' = SetToSeq(failed) /\ input' = SetToSeq(BufferHandles \ failed)
    BY <1>3 DEF QueueAll
  <2>2. /\ mainPc = "queue" /\ mainPc' = "start" /\ acq.pc # "none"
        /\ input = <<>> /\ output = <<>> /\ acq.buf = NoBuffer /\ lost = {}
        /\ UNCHANGED <<mode, acq, cmd, stream, output, lost>>
    BY <1>0, <1>3 DEF QueueAll, MainGoes, GvThreads, GvOrder, GvEarly
  <2>3. IsFiniteSet(failed) /\ IsFiniteSet(BufferHandles \ failed)
    BY BufferAssumption, FS_Subset
  <2>4. /\ dequeued' \in Seq(failed) /\ IsInjective(dequeued') /\ ToSet(dequeued') = failed
        /\ input' \in Seq(BufferHandles \ failed) /\ IsInjective(input')
        /\ ToSet(input') = BufferHandles \ failed
    BY <2>1, <2>3, SeqOfSet
  <2>5. dequeued' \in Seq(BufferHandles) /\ input' \in Seq(BufferHandles)
    BY <2>4
  <2>6. GvPlaces'
    <3>1. /\ IsInjective(output') /\ ToSet(output') = {} /\ InHand' = {} /\ lost' = {}
      BY <2>2, EmptyInjective, EmptySet DEF InHand
    <3> QED BY <2>4, <3>1 DEF GvPlaces
  <2>7. GvTypes'
    BY <1>0, <2>2, <2>5 DEF GvTypes
  <2>8. GvOrder' /\ GvEarly' /\ GvEvent'
    BY <1>0, <2>2 DEF GvOrder, GvEarly, GvEvent
  <2> QED BY <2>6, <2>7, <2>8 DEF GvInv, GvHolders
<1>4. CASE StartHost
  <2>1. mainPc = "start" /\ acq.pc # "none" /\ cmd.pc = "none" /\ UNCHANGED <<mode, acq, cmd, dequeued, lost>>
    BY <1>0, <1>4 DEF StartHost, MainGoes, GvThreads, GvOrder
  <2>2. CASE mainPc' = "command" /\ UNCHANGED <<stream, input, output>>
    <3>1. GvTypes' /\ GvEarly' /\ GvEvent'
      BY <1>0, <2>1, <2>2 DEF GvTypes, GvEarly, GvEvent
    <3>2. GvHolders'
      BY <1>0, <2>1, <2>2, GvPlacesStay DEF GvHolders
    <3>3. GvOrder'
      BY <1>0, <2>1, <2>2 DEF GvOrder
    <3> QED BY <3>1, <3>2, <3>3 DEF GvInv
  <2>3. CASE /\ mainPc' = "stop" /\ stream' = [stream EXCEPT !.open = FALSE]
             /\ input' = <<>> /\ output' = <<>>
    <3>1. GvTypes' /\ ~stream'.open
      BY <1>0, <2>1, <2>3, EmptyTyped DEF GvTypes, GvStream
    <3>2. GvEarly' /\ GvEvent' /\ GvHolders'
      BY <1>0, <2>1, <2>3, <3>1 DEF GvEarly, GvEvent, GvHolders
    <3>3. GvOrder'
      BY <1>0, <2>1, <2>3, <3>1 DEF GvOrder
    <3> QED BY <3>1, <3>2, <3>3 DEF GvInv
  <2> QED BY <1>4, <2>2, <2>3 DEF StartHost, MainGoes
<1>5. CASE LaunchCommandThread
  <2>1. /\ mainPc = "command" /\ mainPc' \in {"show", "wait"} /\ acq.pc # "none" /\ stream.open
        /\ cmd' = [cmd EXCEPT !.pc = "line"]
        /\ UNCHANGED <<mode, acq, stream, input, output, dequeued, lost>>
    BY <1>0, <1>5 DEF LaunchCommandThread, MainGoes, GvProducer, GvOrder
  <2>2. GvTypes' /\ cmd'.pc = "line"
    BY <1>0, <2>1 DEF GvTypes, GvCmdThread
  <2>3. GvOrder' /\ GvEarly' /\ GvEvent'
    BY <1>0, <2>1, <2>2 DEF GvOrder, GvEarly, GvEvent
  <2>4. GvHolders'
    BY <1>0, <2>1, GvPlacesStay DEF GvHolders
  <2> QED BY <2>2, <2>3, <2>4 DEF GvInv
<1>6. CASE EnterExec \/ WaitDone \/ StopAcquisition \/ KillEvent \/ JoinThreads
  <2>1. /\ UNCHANGED <<mode, acq, cmd, input, output, dequeued, lost>>
        /\ stream' \in GvStream
        /\ stream'.open = stream.open
    <3>1. CASE EnterExec \/ WaitDone \/ StopAcquisition \/ JoinThreads
      BY <1>0, <3>1 DEF EnterExec, WaitDone, StopAcquisition, JoinThreads, GvThreads, GvProducer, GvTypes
    <3>2. CASE KillEvent
      <4>1. UNCHANGED <<mode, acq, cmd, input, output, dequeued, lost>>
        BY <3>2 DEF KillEvent, GvThreads, GvProducer
      <4>2. \/ stream' = [stream EXCEPT !.kills = stream.kills + 1]
            \/ stream' = [stream EXCEPT !.refused = TRUE]
            \/ stream' = stream
        BY <3>2 DEF KillEvent
      <4>3. stream \in GvStream /\ stream.kills + 1 \in Nat
        BY <1>0 DEF GvTypes, GvStream
      <4>4. \/ \E k \in Nat : stream' = [stream EXCEPT !.kills = k]
            \/ stream' = [stream EXCEPT !.refused = TRUE]
            \/ stream' = stream
        BY <4>2, <4>3
      <4>5. stream' \in GvStream /\ stream'.open = stream.open
        BY <4>3, <4>4 DEF GvStream
      <4> QED BY <4>1, <4>5
    <3> QED BY <1>6, <3>1, <3>2
  <2>2. \/ mainPc = "show" /\ mainPc' = "wait"
        \/ mainPc = "wait" /\ mainPc' = "stop"
        \/ mainPc = "stop" /\ mainPc' = "kill"
        \/ mainPc = "kill" /\ mainPc' = "joinAcq"
        \/ mainPc = "joinAcq" /\ mainPc' = "joinCmd" /\ acq.pc \in {"none", "done"}
        \/ mainPc = "joinCmd" /\ mainPc' = "close" /\ cmd.pc \in {"none", "done"}
    BY <1>6 DEF EnterExec, WaitDone, StopAcquisition, KillEvent, JoinThreads, MainGoes
  <2>3. GvTypes' /\ GvEarly' /\ GvEvent'
    BY <1>0, <2>1, <2>2 DEF GvTypes, GvEarly, GvEvent
  <2>4. GvHolders'
    BY <1>0, <2>1, GvPlacesStay DEF GvHolders
  <2>5. GvOrder'
    BY <1>0, <2>1, <2>2 DEF GvOrder
  <2> QED BY <2>3, <2>4, <2>5 DEF GvInv
<1>7. CASE CloseStream
  <2>1. /\ mainPc = "close" /\ mainPc' = "gone" /\ stream' = [stream EXCEPT !.open = FALSE]
        /\ input' = <<>> /\ output' = <<>> /\ UNCHANGED <<mode, acq, cmd, dequeued, lost>>
    BY <1>7 DEF CloseStream, MainGoes, GvThreads
  <2>2. GvTypes' /\ ~stream'.open
    BY <1>0, <2>1, EmptyTyped DEF GvTypes, GvStream
  <2>3. GvEarly' /\ GvEvent' /\ GvHolders'
    BY <1>0, <2>1, <2>2 DEF GvEarly, GvEvent, GvHolders
  <2>4. GvOrder'
    BY <1>0, <2>1, <2>2 DEF GvOrder
  <2> QED BY <2>2, <2>3, <2>4 DEF GvInv
<1> QED BY <1>1, <1>2, <1>3, <1>4, <1>5, <1>6, <1>7 DEF GvMain
LEMMA GvAcqStep == ASSUME GvInv, GvAcq PROVE GvInv'
<1>0. GvTypes /\ GvOrder /\ GvEarly /\ GvEvent /\ GvHolders
  BY DEF GvInv
<1>1. CASE AcqCheck \/ NoBufferGot
  <2>1. /\ acq.pc \in {"check", "got"} /\ acq.buf = NoBuffer
        /\ acq' \in {[acq EXCEPT !.pc = x] : x \in {"check", "wait", "done"}}
        /\ UNCHANGED <<mode, mainPc, cmd, stream, input, output, dequeued, lost>>
    BY <1>0, <1>1 DEF AcqCheck, NoBufferGot, GvProducer, GvEvent
  <2>2. GvTypes' /\ acq'.pc \in {"check", "wait", "done"} /\ acq'.buf = NoBuffer
    BY <1>0, <2>1 DEF GvTypes, GvAcqThread
  <2>3. GvOrder' /\ GvEarly' /\ GvEvent'
    BY <1>0, <2>1, <2>2 DEF GvOrder, GvEarly, GvEvent
  <2>4. GvHolders'
    BY <1>0, <2>1, <2>2, GvPlacesStay DEF GvHolders
  <2> QED BY <2>2, <2>3, <2>4 DEF GvInv
<1>2. CASE EventGetData
  <2>0. acq.pc = "wait" /\ acq.buf = NoBuffer /\ UNCHANGED <<mode, mainPc, cmd, input, dequeued, lost>>
    BY <1>0, <1>2 DEF EventGetData, GvEvent
  <2>1. CASE /\ output # <<>> /\ output' = Tail(output) /\ UNCHANGED stream
             /\ acq' = [acq EXCEPT !.pc = "got", !.event = "buffer", !.buf = Head(output)]
    <3>1. Head(output) \in BufferHandles /\ Tail(output) \in Seq(BufferHandles)
      BY <1>0, <2>1 DEF GvTypes
    <3>2. /\ acq' \in GvAcqThread /\ acq'.pc = "got" /\ acq'.event = "buffer"
          /\ acq'.buf = Head(output) /\ acq'.buf # NoBuffer
      <4>1. acq \in GvAcqThread
        BY <1>0 DEF GvTypes
      <4> QED BY <2>1, <3>1, <4>1, BufferAssumption DEF GvAcqThread
    <3>5. GvTypes'
      BY <1>0, <2>0, <2>1, <3>1, <3>2 DEF GvTypes
    <3>3. GvOrder' /\ GvEarly' /\ GvEvent'
      BY <1>0, <2>0, <2>1, <3>2 DEF GvOrder, GvEarly, GvEvent
    <3>4. ASSUME GvPlaces PROVE GvPlaces'
      <4>1. /\ IsInjective(output') /\ ToSet(output') = ToSet(output) \ {Head(output)}
            /\ Head(output) \in ToSet(output)
        BY <1>0, <2>1, <3>4, HeadTaken DEF GvPlaces, GvTypes
      <4>2. InHand = {} /\ InHand' = {Head(output)}
        BY <2>0, <3>2 DEF InHand
      <4> QED BY <2>0, <3>4, <4>1, <4>2 DEF GvPlaces
    <3> QED BY <1>0, <2>0, <2>1, <3>2, <3>3, <3>4, <3>5 DEF GvInv, GvHolders
  <2>2. CASE /\ UNCHANGED output
             /\ acq'.pc = "got" /\ acq'.event \in {"abort", "error"} /\ acq'.buf = acq.buf
             /\ GvTypes' /\ stream'.open = stream.open
    <3>1. GvOrder' /\ GvEarly' /\ GvEvent'
      BY <1>0, <2>0, <2>2 DEF GvOrder, GvEarly, GvEvent
    <3>2. GvHolders'
      BY <1>0, <2>0, <2>2, GvPlacesStay DEF GvHolders
    <3> QED BY <2>2, <3>1, <3>2 DEF GvInv
  <2>3. CASE /\ stream.kills > 0 /\ stream' = [stream EXCEPT !.kills = @ - 1]
             /\ acq' = [acq EXCEPT !.pc = "got", !.event = "abort"] /\ UNCHANGED output
    <3>1. acq \in GvAcqThread /\ stream \in GvStream
      BY <1>0 DEF GvTypes
    <3>2. /\ acq' \in GvAcqThread /\ acq'.pc = "got" /\ acq'.event = "abort"
          /\ acq'.buf = acq.buf
      BY <2>3, <3>1 DEF GvAcqThread
    <3>3. stream' \in GvStream /\ stream'.open = stream.open
      BY <2>3, <3>1 DEF GvStream
    <3>4. GvTypes'
      BY <1>0, <2>0, <2>3, <3>2, <3>3 DEF GvTypes
    <3> QED BY <2>2, <2>3, <3>2, <3>3, <3>4
  <2>4. CASE /\ acq' \in {[acq EXCEPT !.pc = "got", !.event = "error", !.errors = @ + 1],
                          [acq EXCEPT !.pc = "got", !.event = "error"]}
             /\ UNCHANGED <<stream, output>>
    <3>1. acq \in GvAcqThread
      BY <1>0 DEF GvTypes
    <3>2. /\ acq' \in GvAcqThread /\ acq'.pc = "got" /\ acq'.event = "error"
          /\ acq'.buf = acq.buf
      <4>1. CASE acq' = [acq EXCEPT !.pc = "got", !.event = "error", !.errors = @ + 1]
        <5>1. acq.errors + 1 \in Nat
          BY <3>1 DEF GvAcqThread
        <5>2. PICK n \in Nat : acq' = [acq EXCEPT !.pc = "got", !.event = "error", !.errors = n]
          BY <4>1, <5>1
        <5> QED BY <3>1, <5>2 DEF GvAcqThread
      <4>2. CASE acq' = [acq EXCEPT !.pc = "got", !.event = "error"]
        BY <3>1, <4>2 DEF GvAcqThread
      <4> QED BY <2>4, <4>1, <4>2
    <3>3. GvTypes'
      BY <1>0, <2>0, <2>4, <3>2 DEF GvTypes
    <3> QED BY <2>2, <2>4, <3>2, <3>3
  <2> QED BY <1>2, <2>1, <2>3, <2>4 DEF EventGetData
<1>3. CASE BufferGot
  <2>1. /\ acq.pc = "got" /\ acq.buf # NoBuffer
        /\ acq' = [acq EXCEPT !.pc = "check", !.event = "none", !.buf = NoBuffer]
        /\ UNCHANGED <<mode, mainPc, cmd, stream, output>>
    BY <1>0, <1>3 DEF BufferGot, GvEvent
  <2>2. /\ acq.buf \in BufferHandles /\ acq' \in GvAcqThread
        /\ acq'.pc = "check" /\ acq'.buf = NoBuffer
    <3>1. acq \in GvAcqThread
      BY <1>0 DEF GvTypes
    <3> QED BY <2>1, <3>1 DEF GvAcqThread
  <2>3. InHand = {acq.buf} /\ InHand' = {}
    BY <2>1, <2>2 DEF InHand
  <2>4. \/ input' = Append(input, acq.buf) /\ UNCHANGED <<dequeued, lost>>
        \/ lost' = lost \cup {acq.buf} /\ UNCHANGED <<input, dequeued>>
        \/ dequeued' = Append(dequeued, acq.buf) /\ UNCHANGED <<input, lost>>
    BY <1>3 DEF BufferGot
  <2>5. GvTypes'
    <3>1. /\ Append(input, acq.buf) \in Seq(BufferHandles)
          /\ Append(dequeued, acq.buf) \in Seq(BufferHandles)
      BY <1>0, <2>2 DEF GvTypes
    <3> QED BY <1>0, <2>1, <2>2, <2>4, <3>1 DEF GvTypes
  <2>6. GvOrder' /\ GvEarly' /\ GvEvent'
    BY <1>0, <2>1, <2>2 DEF GvOrder, GvEarly, GvEvent
  <2>7. ASSUME GvPlaces PROVE GvPlaces'
    <3>0. acq.buf \notin ToSet(input) /\ acq.buf \notin ToSet(dequeued)
      BY <2>3, <2>7 DEF GvPlaces
    <3>1. CASE input' = Append(input, acq.buf) /\ UNCHANGED <<dequeued, lost>>
      <4>1. IsInjective(input') /\ ToSet(input') = ToSet(input) \cup {acq.buf}
        BY <1>0, <2>2, <2>7, <3>0, <3>1, Appended DEF GvPlaces, GvTypes
      <4> QED BY <2>1, <2>3, <2>7, <3>1, <4>1 DEF GvPlaces
    <3>2. CASE lost' = lost \cup {acq.buf} /\ UNCHANGED <<input, dequeued>>
      BY <2>1, <2>3, <2>7, <3>2 DEF GvPlaces
    <3>3. CASE dequeued' = Append(dequeued, acq.buf) /\ UNCHANGED <<input, lost>>
      <4>1. IsInjective(dequeued') /\ ToSet(dequeued') = ToSet(dequeued) \cup {acq.buf}
        BY <1>0, <2>2, <2>7, <3>0, <3>3, Appended DEF GvPlaces, GvTypes
      <4> QED BY <2>1, <2>3, <2>7, <3>3, <4>1 DEF GvPlaces
    <3> QED BY <2>4, <3>1, <3>2, <3>3
  <2> QED BY <1>0, <2>1, <2>2, <2>5, <2>6, <2>7 DEF GvInv, GvHolders
<1> QED BY <1>1, <1>2, <1>3 DEF GvAcq

LEMMA GvUserStep ==
  ASSUME GvInv, GvUser \/ ExitApplication \/ EndLine
  PROVE  GvInv'
<1>0. GvTypes /\ GvOrder /\ GvEarly /\ GvEvent /\ GvHolders
  BY DEF GvInv
<1>1. /\ cmd.pc \in {"line", "exit", "obey"}
      /\ UNCHANGED <<mode, mainPc, acq, stream, input, output, dequeued, lost>>
  BY DEF GvUser, CommandThread, EnterLine, ExitApplication, EndLine, GvProducer
<1>2. cmd' \in GvCmdThread /\ cmd'.pc # "none" /\ (cmd'.pc = "done" \/ cmd.pc # "done")
  <2>0. cmd \in GvCmdThread /\ mode.viewer \in BOOLEAN
    BY <1>0, ModeAssumption DEF GvTypes
  <2>1. CASE CommandThread
    <3>1. cmd.pc = "line" /\ cmd' = [cmd EXCEPT !.pc = "exit", !.promise = TRUE]
      BY <2>1 DEF CommandThread
    <3> QED BY <2>0, <3>1 DEF GvCmdThread
  <2>2. CASE EnterLine
    <3>1. cmd.n + 1 \in Nat
      BY <2>0 DEF GvCmdThread
    <3>2. PICK k \in Nat : cmd' = [cmd EXCEPT !.pc = "obey", !.n = k]
      BY <2>2, <3>1 DEF EnterLine
    <3>3. cmd.pc = "line"
      BY <2>2 DEF EnterLine
    <3> QED BY <2>0, <3>2, <3>3 DEF GvCmdThread
  <2>3. CASE ExitApplication
    <3>1. PICK told \in BOOLEAN : cmd' = [cmd EXCEPT !.pc = "done", !.exit = told]
      BY <2>0, <2>3 DEF ExitApplication
    <3> QED BY <2>0, <3>1 DEF GvCmdThread
  <2>4. CASE EndLine
    <3>1. \/ cmd' = [cmd EXCEPT !.pc = "line"]
          \/ cmd' = [cmd EXCEPT !.pc = "exit", !.promise = TRUE]
      BY <2>4 DEF EndLine
    <3>2. cmd.pc = "obey"
      BY <2>4 DEF EndLine
    <3> QED BY <2>0, <3>1, <3>2 DEF GvCmdThread
  <2> QED BY <2>1, <2>2, <2>3, <2>4 DEF GvUser
<1>5. GvTypes'
  BY <1>0, <1>1, <1>2 DEF GvTypes
<1>3. GvOrder' /\ GvEarly' /\ GvEvent'
  BY <1>0, <1>1, <1>2 DEF GvOrder, GvEarly, GvEvent
<1>4. GvHolders'
  BY <1>0, <1>1, GvPlacesStay DEF GvHolders
<1> QED BY <1>3, <1>4, <1>5 DEF GvInv

\* The commands of a line.  Of them only QueueCommand moves a buffer.
LEMMA GvObeyStep ==
  ASSUME GvInv, keepGoing \in BOOLEAN,
         \/ HostCommand \/ AskCount \/ AnswerCount \/ CameraCommand \/ RequeueCommand
         \/ QueueCommand \/ KillCommand \/ ExitCommand \/ AskCommand
  PROVE  GvInv'
<1>0. GvTypes /\ GvOrder /\ GvEarly /\ GvEvent /\ GvHolders
  BY DEF GvInv
<1>1. /\ cmd.pc \in {"obey", "ask", "count"} /\ UNCHANGED <<mode, mainPc, acq, output, lost>>
  BY DEF HostCommand, AskCount, AnswerCount, CameraCommand, RequeueCommand, QueueCommand, KillCommand, ExitCommand,
         AskCommand, Obey
<1>2. cmd' \in GvCmdThread /\ cmd'.pc \in {"obey", "ask", "count", "garbled"}
  <2>0. cmd \in GvCmdThread /\ cmd.n + 1 \in Nat
    BY <1>0 DEF GvTypes, GvCmdThread
  <2>1. CASE HostCommand \/ CameraCommand \/ RequeueCommand \/ QueueCommand \/ KillCommand
    <3>1. PICK k \in Nat : cmd' = [cmd EXCEPT !.n = k]
      BY <2>0, <2>1 DEF HostCommand, CameraCommand, RequeueCommand, QueueCommand, KillCommand,
                        Obeyed
    <3> QED BY <1>1, <2>0, <3>1 DEF GvCmdThread
  <2>2. CASE ExitCommand
    <3>1. PICK k \in Nat : cmd' = [cmd EXCEPT !.n = k, !.quit = keepGoing]
      BY <2>0, <2>2 DEF ExitCommand
    <3> QED BY <1>1, <2>0, <3>1 DEF GvCmdThread
  <2>3. CASE AskCommand
    <3>1. \/ \E k \in Nat : cmd' = [cmd EXCEPT !.pc = "ask", !.n = k]
          \/ cmd' = [cmd EXCEPT !.pc = "obey"]
      BY <2>0, <2>3 DEF AskCommand
    <3>2. CASE \E k \in Nat : cmd' = [cmd EXCEPT !.pc = "ask", !.n = k]
      BY <2>0, <3>2 DEF GvCmdThread
    <3>3. CASE cmd' = [cmd EXCEPT !.pc = "obey"]
      BY <2>0, <3>3 DEF GvCmdThread
    <3> QED BY <3>1, <3>2, <3>3
  <2>4. CASE AskCount \/ AnswerCount
    <3>1. \/ \E k \in Nat : cmd' = [cmd EXCEPT !.pc = "count", !.n = k]
          \/ \E x \in {"obey", "garbled"} : cmd' = [cmd EXCEPT !.pc = x]
      BY <2>0, <2>4 DEF AskCount, AnswerCount
    <3> QED BY <2>0, <3>1 DEF GvCmdThread
  <2> QED BY <2>1, <2>2, <2>3, <2>4
<1>3. stream' \in GvStream /\ stream'.open = stream.open
  <2>0. stream \in GvStream /\ stream.kills + 1 \in Nat
    BY <1>0 DEF GvTypes, GvStream
  <2>1. CASE KillCommand
    <3>1. stream' = stream \/ \E k \in Nat : stream' = [stream EXCEPT !.kills = k]
      BY <2>0, <2>1 DEF KillCommand
    <3> QED BY <2>0, <3>1 DEF GvStream
  <2>2. CASE UNCHANGED stream
    BY <2>0, <2>2
  <2> QED BY <2>1, <2>2 DEF HostCommand, AskCount, AnswerCount, CameraCommand, RequeueCommand, QueueCommand,
             ExitCommand, AskCommand
<1>5. GvOrder' /\ GvEvent'
  BY <1>0, <1>1, <1>2, <1>3 DEF GvOrder, GvEvent
<1>6. acq'.pc # "none" /\ mainPc' # "queue"
  BY <1>0, <1>1 DEF GvOrder
<1>7. CASE UNCHANGED <<input, dequeued>>
  <2>1. GvTypes' /\ GvEarly'
    BY <1>0, <1>1, <1>2, <1>3, <1>6, <1>7 DEF GvTypes, GvEarly
  <2>2. GvHolders'
    BY <1>0, <1>1, <1>3, <1>7, GvPlacesStay DEF GvHolders
  <2> QED BY <1>5, <2>1, <2>2 DEF GvInv
<1>8. CASE /\ dequeued # <<>> /\ input' = Append(input, Head(dequeued))
           /\ dequeued' = Tail(dequeued)
  <2>1. /\ Head(dequeued) \in BufferHandles /\ Tail(dequeued) \in Seq(BufferHandles)
        /\ Append(input, Head(dequeued)) \in Seq(BufferHandles)
    BY <1>0, <1>8 DEF GvTypes
  <2>2. GvTypes' /\ GvEarly'
    BY <1>0, <1>1, <1>2, <1>3, <1>6, <1>8, <2>1 DEF GvTypes, GvEarly
  <2>3. ASSUME GvPlaces PROVE GvPlaces'
    <3>1. /\ IsInjective(dequeued') /\ ToSet(dequeued') = ToSet(dequeued) \ {Head(dequeued)}
          /\ Head(dequeued) \in ToSet(dequeued)
      BY <1>0, <1>8, <2>3, HeadTaken DEF GvPlaces, GvTypes
    <3>2. Head(dequeued) \notin ToSet(input)
      BY <2>3, <3>1 DEF GvPlaces
    <3>3. IsInjective(input') /\ ToSet(input') = ToSet(input) \cup {Head(dequeued)}
      BY <1>0, <1>8, <2>1, <2>3, <3>2, Appended DEF GvPlaces, GvTypes
    <3>4. InHand' = InHand
      BY <1>1 DEF InHand
    <3> QED BY <1>1, <2>3, <3>1, <3>3, <3>4 DEF GvPlaces
  <2> QED BY <1>0, <1>1, <1>3, <1>5, <1>6, <2>2, <2>3 DEF GvInv, GvHolders
<1> QED BY <1>7, <1>8 DEF HostCommand, AskCount, AnswerCount, CameraCommand, RequeueCommand, QueueCommand, KillCommand,
           ExitCommand, AskCommand

LEMMA GvFrameStep == ASSUME GvInv, FrameArrives PROVE GvInv'
<1>0. GvTypes /\ GvOrder /\ GvEarly /\ GvEvent /\ GvHolders
  BY DEF GvInv
<1>1. /\ input # <<>> /\ output' = Append(output, Head(input)) /\ input' = Tail(input)
      /\ UNCHANGED <<mode, mainPc, keepGoing, acq, cmd, dequeued, lost, stream>>
  BY DEF FrameArrives, GvThreads
<1>2. /\ Head(input) \in BufferHandles /\ Tail(input) \in Seq(BufferHandles)
      /\ Append(output, Head(input)) \in Seq(BufferHandles)
  BY <1>0, <1>1 DEF GvTypes
<1>3. GvTypes' /\ GvOrder' /\ GvEvent' /\ GvEarly'
  BY <1>0, <1>1, <1>2 DEF GvTypes, GvOrder, GvEvent, GvEarly
<1>4. ASSUME GvPlaces PROVE GvPlaces'
  <2>1. /\ IsInjective(input') /\ ToSet(input') = ToSet(input) \ {Head(input)}
        /\ Head(input) \in ToSet(input)
    BY <1>0, <1>1, <1>4, HeadTaken DEF GvPlaces, GvTypes
  <2>2. Head(input) \notin ToSet(output)
    BY <1>4, <2>1 DEF GvPlaces
  <2>3. IsInjective(output') /\ ToSet(output') = ToSet(output) \cup {Head(input)}
    BY <1>0, <1>1, <1>2, <1>4, <2>2, Appended DEF GvPlaces, GvTypes
  <2>4. InHand' = InHand
    BY <1>1 DEF InHand
  <2> QED BY <1>1, <1>4, <2>1, <2>3, <2>4 DEF GvPlaces
<1> QED BY <1>0, <1>1, <1>3, <1>4 DEF GvInv, GvHolders

\* The flag that the loops run by is one.
LEMMA GvKeepGoing == ASSUME keepGoing \in BOOLEAN, [GvNext]_gvVars PROVE keepGoing' \in BOOLEAN
<1>1. CASE GvMain
  BY <1>1 DEF GvMain, OpenDataStream, RegisterEvent, AnnounceBuffers, LaunchAcqThread, QueueAll,
     StartHost, LaunchCommandThread, EnterExec, WaitDone, StopAcquisition, KillEvent, JoinThreads, CloseStream
<1>2. CASE GvAcq \/ FrameArrives
  BY <1>2 DEF GvAcq, AcqCheck, EventGetData, NoBufferGot, BufferGot, FrameArrives
<1>3. CASE GvUser \/ GvCmd
  BY <1>3 DEF GvUser, CommandThread, EnterLine, GvCmd, ExitApplication, EndLine, HostCommand,
     AskCount, AnswerCount, CameraCommand, RequeueCommand, QueueCommand, KillCommand, ExitCommand, AskCommand
<1> QED BY <1>1, <1>2, <1>3 DEF GvNext, gvVars

LEMMA GvInvStep == ASSUME GvInv, keepGoing \in BOOLEAN, [GvNext]_gvVars PROVE GvInv'
<1>1. CASE GvMain
  BY <1>1, GvMainStep
<1>2. CASE GvAcq
  BY <1>2, GvAcqStep
<1>3. CASE GvUser \/ GvCmd
  BY <1>3, GvUserStep, GvObeyStep DEF GvCmd
<1>4. CASE FrameArrives
  BY <1>4, GvFrameStep
<1>5. CASE UNCHANGED gvVars
  BY <1>5, GvPlacesStay DEF gvVars, GvInv, GvTypes, GvOrder, GvEarly, GvEvent, GvHolders
<1> QED BY <1>1, <1>2, <1>3, <1>4, <1>5 DEF GvNext

LEMMA GvInvHolds == GvSafetySpec => []GvInv
<1>1. GvInv /\ keepGoing \in BOOLEAN /\ [GvNext]_gvVars => (GvInv /\ keepGoing \in BOOLEAN)'
  BY GvInvStep, GvKeepGoing
<1>2. GvInit => GvInv /\ keepGoing \in BOOLEAN
  BY GvInvInit DEF GvInit
<1> QED BY <1>1, <1>2, PTL DEF GvSafetySpec

\* The places that GvOneHolder counts hold each buffer once that is not lost.
LEMMA OneHolder == ASSUME GvInv PROVE GvOneHolder
<1> DEFINE hand == IF acq.buf = NoBuffer THEN <<>> ELSE <<acq.buf>>
           three == input \o output \o dequeued
           all == three \o hand
<1>1. SUFFICES ASSUME stream.open, acq.pc # "none", NEW b \in BufferHandles
               PROVE  Cardinality({i \in DOMAIN all : all[i] = b}) = IF b \in lost THEN 0 ELSE 1
  BY DEF GvOneHolder
<1>2. GvPlaces /\ GvTypes
  BY <1>1 DEF GvInv, GvHolders
<1>3. hand \in Seq(BufferHandles) /\ IsInjective(hand) /\ ToSet(hand) = InHand
  <2>1. CASE acq.buf = NoBuffer
    BY <2>1, EmptyTyped, EmptyInjective, EmptySet DEF InHand
  <2>2. CASE acq.buf # NoBuffer
    <3>1. acq.buf \in BufferHandles
      BY <1>2, <2>2 DEF GvTypes, GvAcqThread
    <3>2. <<acq.buf>> \in Seq(BufferHandles) /\ DOMAIN <<acq.buf>> = {1} /\ <<acq.buf>>[1] = acq.buf
      BY <3>1
    <3> QED BY <2>2, <3>2 DEF InHand, IsInjective, ToSet
  <2> QED BY <2>1, <2>2
<1>4. /\ three \in Seq(BufferHandles) /\ IsInjective(three)
      /\ ToSet(three) = ToSet(input) \cup ToSet(output) \cup ToSet(dequeued)
  <2>1. /\ input \o output \in Seq(BufferHandles) /\ IsInjective(input \o output)
        /\ ToSet(input \o output) = ToSet(input) \cup ToSet(output)
    BY <1>2, Joined DEF GvPlaces, GvTypes
  <2> DEFINE two == input \o output
  <2> HIDE DEF two
  <2>2. /\ dequeued \in Seq(BufferHandles) /\ IsInjective(dequeued)
        /\ two \in Seq(BufferHandles) /\ IsInjective(two)
        /\ ToSet(two) \cap ToSet(dequeued) = {}
    BY <1>2, <2>1 DEF GvPlaces, GvTypes, two
  <2>3. /\ two \o dequeued \in Seq(BufferHandles) /\ IsInjective(two \o dequeued)
        /\ ToSet(two \o dequeued) = ToSet(two) \cup ToSet(dequeued)
    BY <2>2, Joined
  <2> QED BY <2>1, <2>3 DEF two
<1> HIDE DEF hand, three
<1>5. /\ all \in Seq(BufferHandles) /\ IsInjective(all)
      /\ ToSet(all) = BufferHandles \ lost
  BY <1>2, <1>3, <1>4, Joined DEF GvPlaces
<1> QED BY <1>1, <1>5, OccursOnce

\* Whatever the user does with the queues and the events while frames arrive, a buffer is
\* at one place, and never at two; at none only when the acquisition thread failed to queue
\* it again.  For every number of buffers, frames and commands.
THEOREM BuffersAreAtOnePlace == GvSafetySpec => []GvOneHolder
BY GvInvHolds, OneHolder, PTL

\* The stream is closed when both threads have ended, in every mode and after every
\* failure but one: when DSStartAcquisition fails init() closes it under the acquisition
\* thread, which the destructor waits for before it goes on.
THEOREM StreamClosedLast == GvSafetySpec => []GvStreamOutlivesThreads
<1>1. GvInv => GvStreamOutlivesThreads
  BY DEF GvInv, GvTypes, GvOrder, GvStreamOutlivesThreads, StartFailed
<1> QED BY <1>1, GvInvHolds, PTL

-----------------------------------------------------------------------------
\* Numbers: a least one, and remainders.

\* Every set of natural numbers that has an element has a least one.
LEMMA LeastNumber ==
  ASSUME NEW A, A \subseteq Nat, A # {}
  PROVE  \E m \in A : \A n \in A : m <= n
<1> DEFINE Below(n) == 0 .. n - 1
           T == {Below(n) : n \in A}
<1>1. T \subseteq FiniteSubsetsOf(Nat) /\ T # {}
  <2>1. \A n \in A : Below(n) \subseteq Nat /\ IsFiniteSet(Below(n))
    BY FS_Interval
  <2> QED BY <2>1 DEF FiniteSubsetsOf
<1>2. \E s \in T : \A u \in T : ~(<<u, s>> \in StrictSubsetOrdering(Nat))
  <2> HIDE DEF T
  <2> QED BY <1>1, FS_StrictSubsetOrderingWellFounded, WFMin, Zenon
<1>3. PICK m \in A : \A n \in A : ~(<<Below(n), Below(m)>> \in StrictSubsetOrdering(Nat))
  BY <1>2
<1>4. ASSUME NEW n \in A, n < m PROVE FALSE
  <2>1. Below(n) \subseteq Below(m) /\ Below(m) \subseteq Nat
    BY <1>4
  <2>2. n \in Below(m) /\ n \notin Below(n)
    BY <1>4
  <2>3. <<Below(n), Below(m)>> \in StrictSubsetOrdering(Nat)
    BY <2>1, <2>2 DEF StrictSubsetOrdering
  <2> QED BY <1>3, <2>3
<1> QED BY <1>4

\* Two numbers less than r apart have different remainders.
LEMMA NearRemainders ==
  ASSUME NEW r \in Nat \ {0}, NEW a \in Nat, NEW b \in Nat, a < b, b < a + r
  PROVE  a % r # b % r
<1> DEFINE d == (b \div r) - (a \div r)
<1>1. /\ a = r * (a \div r) + (a % r) /\ b = r * (b \div r) + (b % r)
      /\ a \div r \in Int /\ b \div r \in Int /\ a % r \in 0 .. r - 1 /\ b % r \in 0 .. r - 1
  OBVIOUS
<1>2. ASSUME a % r = b % r PROVE FALSE
  <2>1. b - a = r * d /\ d \in Int
    BY <1>1, <1>2
  <2> HIDE DEF d
  <2>2. d <= 0 \/ d >= 1
    BY <2>1
  <2>3. d <= 0 => r * d <= 0
    BY <2>1
  <2>4. d >= 1 => r * d >= r
    BY <2>1
  <2> QED BY <2>1, <2>2, <2>3, <2>4
<1> QED BY <1>2

\* A quotient and a remainder are the only ones.
LEMMA RemainderIs ==
  ASSUME NEW r \in Nat \ {0}, NEW x \in Int, NEW q \in Int, NEW s \in 0 .. r - 1,
         x = r * q + s
  PROVE  x % r = s
<1> DEFINE d == (x \div r) - q
<1>1. x = r * (x \div r) + (x % r) /\ x \div r \in Int /\ x % r \in 0 .. r - 1
  OBVIOUS
<1>2. s - (x % r) = r * d /\ d \in Int
  BY <1>1
<1> HIDE DEF d
<1>3. d <= -1 \/ d = 0 \/ d >= 1
  BY <1>2
<1>4. d <= -1 => r * d <= -r
  BY <1>2
<1>5. d >= 1 => r * d >= r
  BY <1>2
<1>6. d = 0 => r * d = 0
  OBVIOUS
<1> QED BY <1>1, <1>2, <1>3, <1>4, <1>5, <1>6

\* A number that is added to a remainder may as well be added before.
LEMMA RemainderOfSum ==
  ASSUME NEW r \in Nat \ {0}, NEW a \in Nat, NEW b \in Nat
  PROVE  ((a % r) + b) % r = (a + b) % r
<1> DEFINE q == ((a + b) \div r) - (a \div r)
           s == (a + b) % r
           x == (a % r) + b
<1>1. a = r * (a \div r) + (a % r) /\ a \div r \in Int /\ a % r \in 0 .. r - 1
  OBVIOUS
<1>2. a + b = r * ((a + b) \div r) + s /\ (a + b) \div r \in Int /\ s \in 0 .. r - 1
  OBVIOUS
<1>3. x = r * q + s /\ q \in Int /\ x \in Int
  BY <1>1, <1>2
<1> HIDE DEF q, s, x
<1>4. x % r = s
  BY <1>2, <1>3, RemainderIs
<1> QED BY <1>4 DEF s, x

-----------------------------------------------------------------------------
\* LapAverager

\* The laps so far, in order of time, and the last ones of them in the ring.
LapLogInv ==
  /\ lapNow \in Nat /\ mLaps \in Nat
  /\ lapLog \in Seq(Nat) /\ Len(lapLog) = mLaps
  /\ \A j, k \in 1 .. mLaps : j <= k => lapLog[j] <= lapLog[k]
  /\ \A k \in 1 .. mLaps : lapLog[k] <= lapNow

RingInv ==
  /\ DOMAIN mTimes = 0 .. RingSize - 1
  /\ \A k \in 1 .. mLaps : k > mLaps - RingSize => mTimes[(k - 1) % RingSize] = lapLog[k]

LapInv == LapLogInv /\ RingInv

LapSpec == LapInit /\ [][LapNext]_lapVars

LEMMA RingSizeType == RingSize \in Nat \ {0}
BY LapAssumption DEF RingSize

LEMMA LapInvInit == LapInit => LapInv
BY RingSizeType DEF LapInit, LapInv, LapLogInv, RingInv

LEMMA LapInvStep == LapInv /\ [LapNext]_lapVars => LapInv'
<1> SUFFICES ASSUME LapInv, [LapNext]_lapVars PROVE LapInv'
  OBVIOUS
<1>0. RingSize \in Nat \ {0} /\ RingSize' = RingSize
  BY RingSizeType DEF RingSize
<1>1. CASE Lap
  <2>1. LapLogInv'
    BY <1>1 DEF LapInv, LapLogInv, Lap
  <2>2. DOMAIN mTimes' = 0 .. RingSize' - 1
    BY <1>0, <1>1 DEF LapInv, RingInv, Lap
  <2>3. mTimes'[mLaps % RingSize] = lapNow
    <3>1. mLaps % RingSize \in 0 .. RingSize - 1
      BY <1>0 DEF LapInv, LapLogInv
    <3> QED BY <1>1, <3>1 DEF LapInv, RingInv, Lap
  <2>4. ASSUME NEW k \in 1 .. mLaps, k > mLaps + 1 - RingSize
        PROVE  mTimes'[(k - 1) % RingSize] = lapLog[k]
    <3>1. (k - 1) % RingSize # mLaps % RingSize
      <4>1. k - 1 \in Nat /\ mLaps \in Nat /\ k - 1 < mLaps /\ mLaps < (k - 1) + RingSize
        BY <1>0, <2>4 DEF LapInv, LapLogInv
      <4> QED BY <1>0, <4>1, NearRemainders
    <3>2. mTimes[(k - 1) % RingSize] = lapLog[k]
      BY <1>0, <2>4 DEF LapInv, LapLogInv, RingInv
    <3>3. (k - 1) % RingSize \in 0 .. RingSize - 1
      BY <1>0 DEF LapInv, LapLogInv
    <3> HIDE DEF RingSize
    <3> QED BY <1>1, <3>1, <3>2, <3>3 DEF LapInv, RingInv, Lap
  <2>5. /\ mLaps' = mLaps + 1 /\ mLaps \in Nat
        /\ lapLog'[mLaps + 1] = lapNow
        /\ \A k \in 1 .. mLaps : lapLog'[k] = lapLog[k]
    BY <1>1 DEF LapInv, LapLogInv, Lap
  <2>6. ASSUME NEW k \in 1 .. mLaps', k > mLaps' - RingSize'
        PROVE  mTimes'[(k - 1) % RingSize'] = lapLog'[k]
    <3>1. CASE k = mLaps + 1
      <4>1. k - 1 = mLaps
        BY <2>5, <3>1
      <4> QED BY <1>0, <2>3, <2>5, <3>1, <4>1
    <3>2. CASE k # mLaps + 1
      <4>1. k \in 1 .. mLaps /\ k > mLaps + 1 - RingSize
        BY <1>0, <2>5, <2>6, <3>2
      <4> QED BY <1>0, <2>4, <2>5, <4>1
    <3> QED BY <3>1, <3>2
  <2> QED BY <2>1, <2>2, <2>6 DEF LapInv, RingInv
<1>2. CASE Tick \/ UNCHANGED lapVars
  <2>1. UNCHANGED <<mTimes, mLaps, lapLog>> /\ lapNow' \in Nat /\ lapNow <= lapNow'
    BY <1>2 DEF Tick, lapVars, LapInv, LapLogInv
  <2> QED BY <1>0, <2>1 DEF LapInv, LapLogInv, RingInv
<1> QED BY <1>1, <1>2 DEF LapNext

\* What the loop reads, from the oldest place of the ring on, are the last laps in their
\* order.
FirstLap == IF mLaps > RingSize THEN mLaps - RingSize + 1 ELSE 1

LEMMA RingLapIs ==
  ASSUME LapInv, mLaps > 1
  PROVE  /\ TimesCnt \in Nat \ {0} /\ FirstLap + TimesCnt - 1 = mLaps /\ FirstLap \in 1 .. mLaps
         /\ \A i \in 0 .. TimesCnt - 1 : RingLap(i) = lapLog[FirstLap + i]
<1>0. RingSize \in Nat \ {0} /\ mLaps \in Nat
  BY RingSizeType DEF LapInv, LapLogInv
<1>1. /\ TimesCnt \in Nat \ {0} /\ TimesCnt <= RingSize
      /\ FirstLap + TimesCnt - 1 = mLaps /\ FirstLap \in 1 .. mLaps
      /\ FirstLap > mLaps - RingSize
  BY <1>0 DEF TimesCnt, FirstLap
<1>2. ASSUME NEW i \in 0 .. TimesCnt - 1
      PROVE  RingLap(i) = lapLog[FirstLap + i]
  <2> DEFINE k == FirstLap + i
  <2>1. k \in 1 .. mLaps /\ k > mLaps - RingSize /\ k \in Nat /\ k - 1 \in Nat
    BY <1>0, <1>1
  <2>2. mTimes[(k - 1) % RingSize] = lapLog[k]
    BY <2>1 DEF LapInv, RingInv
  <2>3. (OldestIndex + i) % TimesCnt = (k - 1) % RingSize
    <3>1. CASE mLaps > RingSize
      <4>1. TimesCnt = RingSize /\ k - 1 = mLaps - RingSize + i
        BY <1>0, <3>1 DEF TimesCnt, FirstLap
      <4>2. (OldestIndex + i) % TimesCnt = (mLaps + i) % RingSize
        <5>1. OldestIndex = mLaps % RingSize
          BY <4>1 DEF OldestIndex
        <5>2. i \in Nat
          BY <1>1
        <5>3. ((mLaps % RingSize) + i) % RingSize = (mLaps + i) % RingSize
          BY <1>0, <5>2, RemainderOfSum
        <5> QED BY <4>1, <5>1, <5>3
      <4> DEFINE x == mLaps + i
                 q == (x \div RingSize) - 1
                 s == x % RingSize
      <4>3. x = RingSize * (x \div RingSize) + s /\ x \div RingSize \in Int
            /\ s \in 0 .. RingSize - 1
        BY <1>0
      <4>4. k - 1 = RingSize * q + s /\ q \in Int
        BY <1>0, <4>1, <4>3
      <4>5. (k - 1) % RingSize = s
        <5> HIDE DEF q, s, k, x
        <5> QED BY <1>0, <2>1, <4>3, <4>4, RemainderIs
      <4> QED BY <4>2, <4>5
    <3>2. CASE ~(mLaps > RingSize)
      <4>1. TimesCnt = mLaps /\ k - 1 = i /\ i < mLaps /\ i < RingSize
        BY <1>0, <1>1, <3>2 DEF TimesCnt, FirstLap
      <4>2. OldestIndex = 0
        BY <1>0, <4>1, RemainderIs DEF OldestIndex
      <4>3. i % mLaps = i /\ i % RingSize = i
        BY <1>0, <4>1
      <4> QED BY <1>0, <4>1, <4>2, <4>3
    <3> QED BY <3>1, <3>2
  <2> QED BY <2>2, <2>3 DEF RingLap
<1> QED BY <1>1, <1>2

\* rate_average() after i turns of its loop, if the periods from the c-th on are recent.
RatesFrom(c, i) ==
  IF i < c THEN [cnt |-> 0, sum |-> 0]
  ELSE [cnt |-> i - c + 1, sum |-> RingLap(i) - RingLap(c - 1)]

LEMMA LoopCounts ==
  ASSUME TimesCnt \in Nat \ {0},
         \A i \in 0 .. TimesCnt - 1 : RingLap(i) \in Nat,
         NEW c \in 1 .. TimesCnt,
         \A i \in 1 .. TimesCnt - 1 : (lapNow - RingLap(i) < LapRecent) <=> i >= c
  PROVE  RatesAfter[TimesCnt - 1] = RatesFrom(c, TimesCnt - 1)
<1> DEFINE D == 0 .. TimesCnt - 1
           Turn(f, i) ==
             IF i = 0 THEN [cnt |-> 0, sum |-> 0]
             ELSE IF lapNow - RingLap(i) < LapRecent
             THEN [cnt |-> f[i - 1].cnt + 1,
                   sum |-> f[i - 1].sum + (RingLap(i) - RingLap(i - 1))]
             ELSE f[i - 1]
           g == [i \in D |-> RatesFrom(c, i)]
\* There is such a function, so the recursive definition is one.
<1>1. ASSUME NEW i \in D PROVE g[i] = Turn(g, i)
  <2>1. CASE i = 0
    BY <2>1 DEF RatesFrom
  <2>2. CASE i # 0
    <3>1. i \in 1 .. TimesCnt - 1 /\ i - 1 \in D
      BY <2>2
    <3>2. g[i - 1] = RatesFrom(c, i - 1) /\ g[i] = RatesFrom(c, i)
      BY <3>1
    <3>3. RingLap(i) \in Nat /\ RingLap(i - 1) \in Nat
      BY <3>1
    <3>4. (lapNow - RingLap(i) < LapRecent) <=> i >= c
      BY <3>1
    <3>5. CASE i < c
      BY <2>2, <3>1, <3>2, <3>4, <3>5 DEF RatesFrom
    <3>6. CASE i = c
      BY <2>2, <3>1, <3>2, <3>3, <3>4, <3>6 DEF RatesFrom
    <3>7. CASE i > c
      <4>1. RingLap(c - 1) \in Nat
        BY <3>1, <3>7
      <4>2. g[i - 1] = [cnt |-> i - c, sum |-> RingLap(i - 1) - RingLap(c - 1)]
        BY <3>1, <3>2, <3>7 DEF RatesFrom
      <4> QED BY <2>2, <3>1, <3>2, <3>3, <3>4, <3>7, <4>1, <4>2 DEF RatesFrom
    <3> QED BY <3>1, <3>5, <3>6, <3>7
  <2> QED BY <2>1, <2>2
<1>2. g = [i \in D |-> Turn(g, i)]
  BY <1>1
<1>3. RatesAfter = [i \in D |-> Turn(RatesAfter, i)]
  <2>1. \E f : f = [i \in D |-> Turn(f, i)]
    BY <1>2
  <2> QED BY <2>1 DEF RatesAfter
\* And only one: there is no first turn after which they differ.
<1> DEFINE Wrong == {i \in D : RatesAfter[i] # g[i]}
<1>4. Wrong = {}
  <2> SUFFICES ASSUME Wrong # {} PROVE FALSE
    OBVIOUS
  <2>1. PICK m \in Wrong : \A n \in Wrong : m <= n
    <3>1. Wrong \subseteq Nat
      OBVIOUS
    <3> HIDE DEF Wrong
    <3> QED BY <3>1, LeastNumber
  <2>2. m \in D /\ RatesAfter[m] = Turn(RatesAfter, m) /\ g[m] = Turn(g, m)
    BY <1>1, <1>3
  <2>3. m # 0
    BY <2>2, <2>1
  <2>4. m - 1 \in D /\ m - 1 \notin Wrong
    BY <2>1, <2>2, <2>3
  <2>5. RatesAfter[m - 1] = g[m - 1]
    BY <2>4
  <2> QED BY <2>1, <2>2, <2>5
<1>5. TimesCnt - 1 \in D
  OBVIOUS
<1>6. RatesAfter[TimesCnt - 1] = g[TimesCnt - 1]
  BY <1>4, <1>5
<1> QED BY <1>5, <1>6

\* The periods that are recent are the last ones.
LEMMA RecentIsLast ==
  ASSUME LapInv, mLaps > 1
  PROVE  \E c \in 1 .. TimesCnt :
           \A i \in 1 .. TimesCnt - 1 : (lapNow - RingLap(i) < LapRecent) <=> i >= c
<1>1. /\ TimesCnt \in Nat \ {0} /\ FirstLap \in 1 .. mLaps /\ FirstLap + TimesCnt - 1 = mLaps
      /\ \A i \in 0 .. TimesCnt - 1 : RingLap(i) = lapLog[FirstLap + i]
  BY RingLapIs
<1>2. ASSUME NEW i \in 0 .. TimesCnt - 1, NEW j \in 0 .. TimesCnt - 1, i <= j
      PROVE  RingLap(i) <= RingLap(j) /\ RingLap(i) \in Nat /\ RingLap(j) \in Nat
  <2>1. FirstLap + i \in 1 .. mLaps /\ FirstLap + j \in 1 .. mLaps /\ FirstLap + i <= FirstLap + j
    BY <1>1, <1>2 DEF LapInv, LapLogInv
  <2>2. lapLog[FirstLap + i] \in Nat /\ lapLog[FirstLap + j] \in Nat
    BY <2>1 DEF LapInv, LapLogInv
  <2> QED BY <1>1, <2>1, <2>2 DEF LapInv, LapLogInv
<1> DEFINE R == {i \in 1 .. TimesCnt - 1 : lapNow - RingLap(i) < LapRecent}
<1>3. CASE R = {}
  <2>1. TimesCnt \in 1 .. TimesCnt
    BY <1>1
  <2> QED BY <1>1, <1>3, <2>1
<1>4. CASE R # {}
  <2>1. PICK c \in R : \A i \in R : c <= i
    <3>1. R \subseteq Nat
      BY <1>1
    <3> HIDE DEF R
    <3> QED BY <1>4, <3>1, LeastNumber
  <2>2. ASSUME NEW i \in 1 .. TimesCnt - 1, i >= c PROVE lapNow - RingLap(i) < LapRecent
    <3>1. c \in 0 .. TimesCnt - 1 /\ i \in 0 .. TimesCnt - 1 /\ c <= i
      BY <1>1, <2>2
    <3>2. RingLap(c) <= RingLap(i) /\ RingLap(c) \in Nat /\ RingLap(i) \in Nat
      BY <1>2, <3>1
    <3> QED BY <2>1, <3>2, LapAssumption DEF LapInv, LapLogInv
  <2> QED BY <1>1, <2>1, <2>2
<1> QED BY <1>3, <1>4

\* The rate is that of the last laps, for every size of the ring, any number of laps and
\* whenever it is asked for: neither the wrap of the ring nor a rate asked for before the
\* ring is full mixes up the order of the periods.
THEOREM RateIsOfLastLaps == LapSpec => []LapRateIsOfLastLaps
<1>1. LapInv => LapRateIsOfLastLaps
  <2> SUFFICES ASSUME LapInv PROVE LapRateIsOfLastLaps
    OBVIOUS
  <2> DEFINE ends == {k \in FirstLap + 1 .. mLaps : lapNow - lapLog[k] < LapRecent}
             Right == /\ RateAverage.cnt = Cardinality(ends)
                      /\ ends # {} => RateAverage.sum = lapLog[mLaps] - lapLog[Min(ends) - 1]
  <2>0. RingSize \in Nat \ {0} /\ mLaps \in Nat
    BY RingSizeType DEF LapInv, LapLogInv
  <2>1. CASE mLaps <= 1
    <3>1. FirstLap + 1 > mLaps
      BY <2>0, <2>1 DEF FirstLap
    <3>2. ends = {}
      BY <2>0, <3>1 DEF FirstLap
    <3>3. Cardinality({}) = 0
      BY FS_EmptySet
    <3>4. RateAverage = [cnt |-> 0, sum |-> 0]
      BY <2>1 DEF RateAverage
    <3> QED BY <3>2, <3>3, <3>4 DEF LapRateIsOfLastLaps, FirstLap
  <2>2. CASE mLaps > 1
    <3>1. /\ TimesCnt \in Nat \ {0} /\ FirstLap \in 1 .. mLaps
          /\ FirstLap + TimesCnt - 1 = mLaps
          /\ \A i \in 0 .. TimesCnt - 1 : RingLap(i) = lapLog[FirstLap + i]
      BY <2>2, RingLapIs
    <3>2. PICK c \in 1 .. TimesCnt :
            \A i \in 1 .. TimesCnt - 1 : (lapNow - RingLap(i) < LapRecent) <=> i >= c
      BY <2>2, RecentIsLast
    <3>3. \A i \in 0 .. TimesCnt - 1 : RingLap(i) \in Nat
      <4>1. \A i \in 0 .. TimesCnt - 1 : FirstLap + i \in 1 .. mLaps
        BY <3>1
      <4> QED BY <3>1, <4>1 DEF LapInv, LapLogInv
    <3>4. RateAverage = RatesFrom(c, TimesCnt - 1)
      BY <2>2, <2>0, <3>1, <3>2, <3>3, LoopCounts DEF RateAverage
    <3>5. ends = FirstLap + c .. mLaps
      <4>1. ASSUME NEW k \in FirstLap + 1 .. mLaps
            PROVE  (lapNow - lapLog[k] < LapRecent) <=> k >= FirstLap + c
        <5>1. k - FirstLap \in 1 .. TimesCnt - 1 /\ FirstLap + (k - FirstLap) = k
          BY <3>1
        <5>2. RingLap(k - FirstLap) = lapLog[k]
          BY <3>1, <5>1
        <5> QED BY <3>1, <3>2, <5>1, <5>2
      <4> QED BY <2>0, <3>1, <4>1
    <3>6. CASE c = TimesCnt
      <4>1. ends = {}
        BY <2>0, <3>1, <3>5, <3>6
      <4>2. RateAverage.cnt = 0
        BY <3>1, <3>4, <3>6 DEF RatesFrom
      <4> QED BY <4>1, <4>2, FS_EmptySet DEF LapRateIsOfLastLaps, FirstLap
    <3>7. CASE c < TimesCnt
      <4>1. Cardinality(ends) = TimesCnt - c
        <5>1. Cardinality(FirstLap + c .. mLaps) = mLaps - (FirstLap + c) + 1
          BY <2>0, <3>1, <3>7, FS_Interval
        <5> HIDE DEF ends
        <5> QED BY <2>0, <3>1, <3>5, <5>1
      <4>2. Min(ends) = FirstLap + c /\ ends # {}
        BY <2>0, <3>1, <3>5, <3>7 DEF Min
      <4>3. RateAverage = [cnt |-> TimesCnt - c, sum |-> RingLap(TimesCnt - 1) - RingLap(c - 1)]
        BY <3>1, <3>4, <3>7 DEF RatesFrom
      <4>4. RingLap(TimesCnt - 1) = lapLog[mLaps] /\ RingLap(c - 1) = lapLog[FirstLap + c - 1]
        BY <3>1, <3>7
      <4>5. Right
        <5>1. Min(ends) - 1 = FirstLap + c - 1
          BY <3>1, <4>2
        <5> HIDE DEF ends
        <5> QED BY <4>1, <4>2, <4>3, <4>4, <5>1
      <4> QED BY <4>5 DEF LapRateIsOfLastLaps, FirstLap
    <3> QED BY <3>1, <3>6, <3>7
  <2> QED BY <2>0, <2>1, <2>2
<1> QED BY <1>1, LapInvInit, LapInvStep, PTL DEF LapSpec
=============================================================================
