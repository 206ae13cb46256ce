---------------------------- MODULE ADBitFlowLife ----------------------------
(***************************************************************************)
(* The Windows driver together with the two operations that take things    *)
(* away from it: setROI, which frees the circular buffers and allocates    *)
(* new ones, and shutdown, which deletes the board.  Neither waits for the *)
(* threads.  Frames are numbered, so the frames whose memory is gone are   *)
(* those up to a number.                                                   *)
(***************************************************************************)
EXTENDS ADBitFlowWin

VARIABLES
  freed,            \* the buffers of the frames 1 .. freed were deallocated
  ready,            \* the board has circular buffers
  boardOpen         \* pBoard_ was not deleted

lifeVars == <<vars, freed, ready, boardOpen>>

LifeInit == Init /\ freed = 0 /\ ready = TRUE /\ boardOpen = TRUE

\* cleanup() or setAcqROI() succeeded or threw: the frames are gone, a wait may
\* or may not be told, and there are new buffers unless something threw.
SetROI ==
  /\ ClientMay("roi") /\ boardOpen
  /\ ready' \in {TRUE, "setup" \notin Faults}
  /\ freed' = frameCount
  /\ running' = FALSE
  /\ doneQ' = <<>>
  /\ bufStatus' = [b \in Buffers |-> "AVAILABLE"]
  /\ content' = [b \in Buffers |-> 0]
  /\ cirEvent' \in {cirEvent, "ABORTED"}
  /\ UNCHANGED <<camera, frameCount, driverVars, boardOpen>>

\* startCapture when setROI left no buffers: the status of cirControl is ignored.
WriteStartUnready ==
  /\ ClientMay("start") /\ boardOpen /\ ~ready
  /\ starts < MaxStarts
  /\ CameraCommand(TRUE)
  /\ startEvent' = TRUE
  /\ params' = [params EXCEPT !.ADAcquire = 1]
  /\ starts' = starts + 1
  /\ UNCHANGED <<running, bufStatus, content, doneQ, cirEvent, frameCount>>
  /\ UNCHANGED <<uniqueId, msgQ, w, p, liveArrays, delivered, freed, ready, boardOpen>>

\* shutdown, at exit: exiting_ is set, for nobody; the board is deleted with its
\* buffers.  What the client does ends here, what the threads do does not.
Shutdown ==
  /\ ClientMay("exit") /\ boardOpen
  /\ StopCapture(params)
  /\ boardOpen' = FALSE
  /\ freed' = frameCount
  /\ UNCHANGED <<bufStatus, content, doneQ, frameCount, ready>>
  /\ UNCHANGED <<startEvent, uniqueId, msgQ, w, p, liveArrays, delivered, starts>>

\* What the pipeline does leaves the board and its buffers where they are.
InPlace == UNCHANGED <<freed, ready, boardOpen>>

LifeBoard == boardOpen /\ Board /\ UNCHANGED driverVars /\ InPlace
LifeClient == boardOpen /\ (WriteStop \/ WriteParam \/ (ready /\ WriteStart)) /\ InPlace
LifeWait == WaitImage /\ InPlace
LifeProcess(t) == ProcessImage(t) /\ InPlace

LifeNext ==
  \/ LifeBoard
  \/ LifeClient
  \/ LifeWait
  \/ \E t \in Threads : LifeProcess(t)
  \/ SetROI
  \/ WriteStartUnready
  \/ Shutdown

\* As for the pipeline alone; the client may do nothing.
LifeSpec ==
  /\ LifeInit /\ [][LifeNext]_lifeVars
  /\ WF_lifeVars(LifeBoard)
  /\ WF_lifeVars(LifeWait)
  /\ \A t \in Threads : WF_lifeVars(LifeProcess(t))

-----------------------------------------------------------------------------
\* The frames whose pixels the driver may still read: that of the wait thread,
\* those of the queue and those of the processing threads.
InUse ==
  (IF w.handle = None THEN {} ELSE {w.handle.frame})
    \cup {msgQ[i].frame : i \in 1 .. Len(msgQ)}
    \cup {p[t].msg.frame : t \in {u \in Threads : p[u].pc # "receive"}}

\* No handle, message or copy refers to a buffer that setROI or shutdown freed.
\* Neither of the two looks whether one does; it holds as long as the client uses
\* them while ADAcquire is 0 after acquisitions that ended by themselves.
NothingFreedInUse == \A f \in InUse : f > freed

\* The board is not deleted while the wait thread is in waitDoneFrame or a thread
\* will still call it ("Set ADAcquire=0 which will tell the imageGrabTask to stop").
BoardOutlivesItsUsers ==
  ~boardOpen => w.pc = "idle" /\ InUse = {}

\* With all parameters changed only between acquisitions the driver keeps the
\* AcquisitionContract, in which the counter is 0 from the start although the wait
\* thread resets it only when it wakes up.
Contract == INSTANCE AcquisitionContract WITH
  busy   <- params.ADAcquire = 1 /\ ready,
  target <- IF params.ADImageMode = "Single" \/ params.ADNumImages = 0
            THEN 1 ELSE params.ADNumImages,
  count  <- IF startEvent \/ w.pc = "woken" THEN 0 ELSE params.ADNumImagesCounter

ContractSpec == Contract!Spec
=============================================================================
