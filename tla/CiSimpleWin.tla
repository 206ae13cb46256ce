----------------------------- MODULE CiSimpleWin ----------------------------
(***************************************************************************)
(* exampleSrc/CiSimple_Windows.c: main snaps one frame after the other and *)
(* shows it on a display surface that a second thread creates, serves and  *)
(* closes.  They agree by two flags: Running (set by Thread) and           *)
(* KeepUpdating (set by main), each read in a loop.                        *)
(***************************************************************************)
EXTENDS Naturals

CONSTANT CsErrLimit \* ERR_LIMIT

VARIABLES
  csMain,           \* where main is
  csThread,         \* where Thread is
  csRunning,        \* Running
  csKeep,           \* KeepUpdating
  csHeld,           \* what main has opened: board, camera file, device, buffer, engine
  csSurface,        \* is the display surface open?
  csErrors,         \* keeplooping
  csKey,            \* keyhit, and the key the user will have hit next
  csOptions         \* -Cam (a camera file is named), -SepCam, -CXPCom

csVars == <<csMain, csThread, csRunning, csKeep, csHeld, csSurface, csErrors, csKey,
            csOptions>>

CsOff == csMain = "off"

CsInit ==
  /\ csMain = "off" /\ csThread = "none" /\ csRunning = FALSE /\ csKeep = FALSE
  /\ csHeld = {} /\ csSurface = FALSE /\ csErrors = 0 /\ csKey = [hit |-> "none", next |-> "none"]
  /\ csOptions = [cam |-> FALSE, sep |-> FALSE, cxp |-> FALSE]

CsMainGoes(from, to) == csMain = from /\ csMain' = to
CsThreadRests == UNCHANGED <<csThread, csRunning, csSurface>>

\* The arguments; the usage text, the dialog and a board that is not found end it.
CsParseArgs ==
  /\ \/ CsMainGoes("off", "open") /\ csOptions' \in [cam : BOOLEAN, sep : BOOLEAN, cxp : BOOLEAN]
     \/ CsMainGoes("off", "returned") /\ UNCHANGED csOptions
  /\ CsThreadRests /\ UNCHANGED <<csKeep, csHeld, csErrors, csKey>>

\* A camera file of its own is opened.
CsSepCam == csOptions.sep /\ csOptions.cam

\* CiBrdOpen or CiBrdOpenCam, and with -Cam and -SepCam CiCamOpen and CiBrdCamSetCur,
\* whose failures return with the board (and the camera file) open.
CsOpen ==
  /\ \/ CsMainGoes("open", "allocate")
        /\ csHeld' = {"board"} \cup (IF CsSepCam THEN {"camera"} ELSE {})
     \/ CsMainGoes("open", "returned") /\ UNCHANGED csHeld
     \/ /\ CsSepCam /\ CsMainGoes("open", "returned")
        /\ csHeld' \in {{"board"}, {"board", "camera"}}
  /\ CsThreadRests /\ UNCHANGED <<csKeep, csErrors, csKey, csOptions>>

\* The GenTL device of a CoaXPress board, if it opens, and the image buffer.
CsAllocate ==
  /\ \/ /\ CsMainGoes("allocate", "create")
        /\ \/ csHeld' = csHeld \cup {"buffer"}
           \/ csOptions.cxp /\ csHeld' = csHeld \cup {"buffer", "device"}
     \/ /\ CsMainGoes("allocate", "returned")
        /\ \/ csHeld' = csHeld \ {"board"}
           \/ csOptions.cxp /\ csHeld' = (csHeld \ {"board"}) \cup {"device"}
  /\ CsThreadRests /\ UNCHANGED <<csKeep, csErrors, csKey, csOptions>>

\* KeepUpdating = TRUE; CreateThread, which may fail.
CsCreateThread ==
  /\ csKeep' = TRUE
  /\ \/ CsMainGoes("create", "await") /\ csThread' = "inquire" /\ UNCHANGED csHeld
     \/ /\ CsMainGoes("create", "returned") /\ csHeld' = csHeld \ {"board"}
        /\ UNCHANGED csThread
  /\ UNCHANGED <<csRunning, csSurface, csErrors, csKey, csOptions>>

\* Faulty variant: main does not wait for the thread.
CsAwaitThread_Not ==
  /\ CsMainGoes("await", "setup")
  /\ CsThreadRests /\ UNCHANGED <<csKeep, csHeld, csErrors, csKey, csOptions>>

\* while (!Running) Sleep(10); then the first blit, of a cleared image.
CsAwaitThread ==
  /\ csRunning /\ CsMainGoes("await", "setup")
  /\ CsThreadRests /\ UNCHANGED <<csKeep, csHeld, csErrors, csKey, csOptions>>

\* CiAqSetup; when it fails main frees the buffer, closes the board and returns
\* while the thread goes on serving the display until the process is gone.
CsSetup ==
  /\ \/ CsMainGoes("setup", "snap") /\ csHeld' = csHeld \cup {"engine"}
     \/ CsMainGoes("setup", "returned") /\ csHeld' = csHeld \ {"buffer", "board"}
  /\ CsThreadRests /\ UNCHANGED <<csKeep, csErrors, csKey, csOptions>>

\* One turn of the work loop: snap (which may fail), show, read a key if one was hit.
CsSnap ==
  /\ csMain = "snap" /\ csKey.hit # "q" /\ csErrors < CsErrLimit
  /\ csErrors' \in {csErrors, csErrors + 1}
  /\ csKey' = IF csKey.next = "none" THEN csKey ELSE [hit |-> csKey.next, next |-> "none"]
  /\ csMain' = IF csOptions.cxp /\ "device" \in csHeld /\ csKey'.hit = "c"
               THEN "node" ELSE "snap"
  /\ CsThreadRests /\ UNCHANGED <<csKeep, csHeld, csOptions>>

\* 'c': read a node and write what the user enters; a node that the camera does not
\* have leaves keyhit alone, so that the next turn asks for it again.
CsWriteNode ==
  /\ CsMainGoes("node", "snap")
  /\ csKey' \in {csKey, [csKey EXCEPT !.hit = "none"]}
  /\ CsThreadRests /\ UNCHANGED <<csKeep, csHeld, csErrors, csOptions>>

\* Faulty variant: the thread is not told.
CsLeaveLoop_Untold ==
  /\ csKey.hit = "q" \/ csErrors >= CsErrLimit
  /\ CsMainGoes("snap", "join")
  /\ CsThreadRests /\ UNCHANGED <<csKeep, csHeld, csErrors, csKey, csOptions>>

\* The loop ends; the thread is told.
CsLeaveLoop ==
  /\ csKey.hit = "q" \/ csErrors >= CsErrLimit
  /\ CsMainGoes("snap", "join")
  /\ csKeep' = FALSE
  /\ CsThreadRests /\ UNCHANGED <<csHeld, csErrors, csKey, csOptions>>

\* while (Running) Sleep(10);
CsJoin ==
  /\ ~csRunning /\ CsMainGoes("join", "cleanUp")
  /\ CsThreadRests /\ UNCHANGED <<csKeep, csHeld, csErrors, csKey, csOptions>>

\* CiAqCleanUp .. CiBrdClose, with the walk through the error stack in between.  With
\* -SepCam but no -Cam the camera that is closed was never set: the program may end there.
CsCleanUp ==
  /\ CsMainGoes("cleanUp", "returned")
  /\ \/ csHeld' = {}
     \/ csOptions.sep /\ ~csOptions.cam /\ csHeld' = {"board"}
  /\ CsThreadRests /\ UNCHANGED <<csKeep, csErrors, csKey, csOptions>>

-----------------------------------------------------------------------------
CsMainRests == UNCHANGED <<csMain, csKeep, csHeld, csErrors, csKey, csOptions>>

\* The three CiBrdInquire calls, then the surface and its bitmap; a failure ends the
\* thread with Running as it was.
CsThreadStarts ==
  /\ \/ csThread = "inquire" /\ csThread' = "create" /\ UNCHANGED <<csRunning, csSurface>>
     \/ /\ csThread = "create" /\ csThread' = "serve"
        /\ csSurface' = TRUE /\ csRunning' = TRUE
     \/ /\ csThread = "create" /\ csThread' = "ended"
        /\ csSurface' \in BOOLEAN /\ UNCHANGED csRunning
  /\ CsMainRests

\* while (KeepUpdating) ...; DispSurfClose; Running = FALSE.
CsThreadEnds ==
  /\ \/ csThread = "serve" /\ ~csKeep /\ csThread' = "closed"
        /\ csSurface' = FALSE /\ UNCHANGED csRunning
     \/ csThread = "closed" /\ csThread' = "ended"
        /\ csRunning' = FALSE /\ UNCHANGED csSurface
  /\ CsMainRests

\* The user hits a key.
CsHitKey ==
  /\ csMain \in {"snap", "node"} /\ csKey.next = "none"
  /\ \E k \in {"q", "c", "other"} : csKey' = [csKey EXCEPT !.next = k]
  /\ CsThreadRests /\ UNCHANGED <<csMain, csKeep, csHeld, csErrors, csOptions>>

CsMainStep ==
  CsOpen \/ CsAllocate \/ CsCreateThread \/ CsAwaitThread \/ CsSetup \/ CsSnap
  \/ CsWriteNode \/ CsLeaveLoop \/ CsJoin \/ CsCleanUp

CsThreadStep == CsThreadStarts \/ CsThreadEnds

CsNext == CsParseArgs \/ CsMainStep \/ CsThreadStep \/ CsHitKey

CsFairness == WF_csVars(CsMainStep) /\ WF_csVars(CsThreadStep)

-----------------------------------------------------------------------------
\* The flags are enough: main blits only while the surface is open, from the first
\* image on; the thread asks the board for the image size only while the board is
\* open; and when main has cleaned up the surface is closed.
CsFlagsProtect ==
  /\ csMain \in {"setup", "snap", "node"} => csSurface
  /\ csThread = "inquire" => "board" \in csHeld
  /\ csMain = "cleanUp" => ~csSurface

\* 'q' ends the program, and so do ERR_LIMIT failed snaps: each of the two threads
\* gets to see that the other has gone.  (If Thread cannot create the display main
\* does not get as far: it waits for Running for ever.)
CsQuitEnds ==
  (csMain = "snap" /\ (csKey.hit = "q" \/ csErrors >= CsErrLimit))
    ~> (csMain = "returned" /\ csThread = "ended")
=============================================================================
