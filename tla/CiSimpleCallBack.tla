-------------------------- MODULE CiSimpleCallBack --------------------------
(***************************************************************************)
(* exampleSrc/CiSimpleCallBack_Windows.c: two callbacks, which the SDK     *)
(* calls from its interrupt thread, against main, which registers them,    *)
(* acquires, and takes everything down again.  CiCallBackRemove returns    *)
(* when a running callback has returned (assumed of the SDK); CiBrdClose   *)
(* ends the interrupts, but need not wait.                                 *)
(***************************************************************************)
EXTENDS FiniteSets

VARIABLES
  cbMain,           \* where main is
  cbGn2,            \* BFIsGn2: the second callback is for BFIntTypeZStart
  cbHooked,         \* the interrupt types with a callback
  cbBoard,          \* "closed", "open", "setup" (for acquisition), "grabbing"
  cbSurface,        \* is the display surface open?
  cbRunning,        \* the callback that runs, and how far NewFrameCallBack is
  cbKeyHit          \* _kbhit()

cbVars == <<cbMain, cbGn2, cbHooked, cbBoard, cbSurface, cbRunning, cbKeyHit>>

CbOff == cbMain = "off"

CbInit ==
  /\ cbMain = "off" /\ cbGn2 = FALSE /\ cbHooked = {} /\ cbBoard = "closed"
  /\ cbSurface = FALSE /\ cbRunning = "none" /\ cbKeyHit = FALSE

CbGoes(from, to) == cbMain = from /\ cbMain' = to

\* Choose and open the board.
CbOpen ==
  /\ \/ CbGoes("off", "surface") /\ cbBoard' = "open" /\ cbGn2' \in BOOLEAN
     \/ CbGoes("off", "returned") /\ UNCHANGED <<cbBoard, cbGn2>>
  /\ UNCHANGED <<cbHooked, cbSurface, cbRunning, cbKeyHit>>

\* DispSurfCreate, DispSurfGetBitmap; every failure from here on returns and leaves
\* to the end of the process what was done before.
CbCreateSurface ==
  /\ \/ CbGoes("surface", "hookEOD") /\ cbSurface' = TRUE
     \/ CbGoes("surface", "returned") /\ cbSurface' \in BOOLEAN
  /\ UNCHANGED <<cbGn2, cbHooked, cbBoard, cbRunning, cbKeyHit>>

\* The type that the second callback is added for.
CbStartType == IF cbGn2 THEN "ZStart" ELSE "CTab"

CbAddCallBacks ==
  /\ \/ CbGoes("hookEOD", "hookStart") /\ cbHooked' = {"EOD"}
     \/ CbGoes("hookStart", "setup") /\ cbHooked' = cbHooked \cup {CbStartType}
     \/ cbMain \in {"hookEOD", "hookStart"} /\ cbMain' = "returned" /\ UNCHANGED cbHooked
  /\ UNCHANGED <<cbGn2, cbBoard, cbSurface, cbRunning, cbKeyHit>>

\* CiAqSetup, a key, CiAqCommand(CiConGrab).
CbAcquire ==
  /\ \/ CbGoes("setup", "start") /\ cbBoard' = "setup" /\ UNCHANGED cbKeyHit
     \/ CbGoes("start", "loop") /\ cbKeyHit /\ cbBoard' = "grabbing" /\ cbKeyHit' = FALSE
     \/ CbGoes("setup", "returned") /\ UNCHANGED <<cbBoard, cbKeyHit>>
     \/ /\ CbGoes("start", "returned") /\ cbKeyHit
        /\ cbKeyHit' = FALSE /\ UNCHANGED cbBoard
  /\ UNCHANGED <<cbGn2, cbHooked, cbSurface, cbRunning>>

\* Faulty variant: the callbacks are left to CiBrdClose.
CbRemoveCallBacks_Not ==
  /\ CbGoes("loop", "abort") /\ cbKeyHit
  /\ UNCHANGED <<cbGn2, cbHooked, cbBoard, cbSurface, cbRunning, cbKeyHit>>

\* A key ends the loop.  The callback for EOD is removed, then the one for CTab,
\* which on a Gn2 is not the one that was added.
CbRemoveCallBacks ==
  /\ \/ CbGoes("loop", "unhook") /\ cbKeyHit
        /\ cbRunning \notin {"asking", "blitting"} /\ cbHooked' = cbHooked \ {"EOD"}
     \/ CbGoes("unhook", "abort") /\ (cbGn2 \/ cbRunning # "counting")
        /\ cbHooked' = cbHooked \ {"CTab"}
  /\ UNCHANGED <<cbGn2, cbBoard, cbSurface, cbRunning, cbKeyHit>>

\* CiAqCommand(CiConAbort), CiAqCleanUp, DispSurfClose, CiBrdClose (which ends
\* the interrupts).
CbCleanUp ==
  /\ \/ CbGoes("abort", "close") /\ cbBoard' = "open" /\ UNCHANGED <<cbSurface, cbHooked>>
     \/ CbGoes("close", "closeBoard") /\ cbSurface' = FALSE /\ UNCHANGED <<cbBoard, cbHooked>>
     \/ /\ CbGoes("closeBoard", "returned")
        /\ cbBoard' = "closed" /\ cbHooked' = {} /\ UNCHANGED cbSurface
  /\ UNCHANGED <<cbGn2, cbRunning, cbKeyHit>>

-----------------------------------------------------------------------------
\* The end of a frame's DMA: NewFrameCallBack asks whether the surface is open ...
CbFrame ==
  /\ cbRunning = "none" /\ "EOD" \in cbHooked /\ cbBoard = "grabbing"
  /\ cbRunning' = "asking"
  /\ UNCHANGED <<cbMain, cbGn2, cbHooked, cbBoard, cbSurface, cbKeyHit>>

\* ... and blits if it was.
CbBlit ==
  /\ \/ cbRunning = "asking" /\ cbRunning' = IF cbSurface THEN "blitting" ELSE "none"
     \/ cbRunning = "blitting" /\ cbRunning' = "none"
  /\ UNCHANGED <<cbMain, cbGn2, cbHooked, cbBoard, cbSurface, cbKeyHit>>

\* The start of a frame: CTabCallBack reads UserInt on main's stack.  The camera's
\* frame starts reach a Gn2 also when it does not grab.
CbCount ==
  /\ \/ /\ cbRunning = "none" /\ CbStartType \in cbHooked
        /\ cbGn2 \/ cbBoard = "grabbing"
        /\ cbRunning' = "counting"
     \/ cbRunning = "counting" /\ cbRunning' = "none"
  /\ UNCHANGED <<cbMain, cbGn2, cbHooked, cbBoard, cbSurface, cbKeyHit>>

CbHitKey ==
  /\ cbMain \in {"start", "loop"} /\ ~cbKeyHit /\ cbKeyHit' = TRUE
  /\ UNCHANGED <<cbMain, cbGn2, cbHooked, cbBoard, cbSurface, cbRunning>>

CbNext ==
  \/ CbOpen \/ CbCreateSurface \/ CbAddCallBacks \/ CbAcquire \/ CbRemoveCallBacks
  \/ CbCleanUp \/ CbFrame \/ CbBlit \/ CbCount \/ CbHitKey

-----------------------------------------------------------------------------
\* The frame callback asks whether the display is open and then blits, and main may
\* close it in between: that it does not is due to the order of the cleanup, which
\* removes this callback first.  CTabCallBack uses its pointer to UserInt on main's
\* stack no longer than main runs, on every board but a Gn2: the callback that is added
\* for BFIntTypeZStart there is never removed, so that nothing is said of it.
CbUsesWhatExists ==
  /\ cbRunning = "blitting" => cbSurface
  /\ cbRunning = "counting" /\ ~cbGn2 => cbMain # "returned"
=============================================================================
