---------------------------- MODULE ADBitFlowLinux ----------------------------
(***************************************************************************)
(* The driver as built for Linux.  The wait thread asks the board for the  *)
(* oldest undelivered frame and, when there is none, waits for the next    *)
(* without a limit; it keeps the port lock from the start of an            *)
(* acquisition to its end.  The processing threads and the client need     *)
(* that lock: a frame is processed after the last one was collected.       *)
(* A buffer is the driver's as soon as its frame was delivered, so here    *)
(* there is no step that marks it BIHOLD.                                  *)
(***************************************************************************)
EXTENDS ADBitFlow

\* idle, woken and send as in the Windows build; poll: about to ask for a frame;
\* waitNext: in CiWaitNextUndeliveredFrame(-1).  From poll on the lock is held.
WaitThread == [pc : {"idle", "woken", "poll", "waitNext", "send"},
               handle : Handles \cup {None},
               imageMode : AllImageModes,
               numImages : Nat,
               imagesCollected : Nat]

Init ==
  /\ DriverInit
  /\ w = [pc |-> "idle", handle |-> None, imageMode |-> params.ADImageMode,
          numImages |-> params.ADNumImages, imagesCollected |-> 0]

-----------------------------------------------------------------------------
\* epicsEventWait returns, still without the lock.
TakeEvent ==
  /\ w.pc = "idle" /\ startEvent
  /\ startEvent' = FALSE
  /\ w' = [w EXCEPT !.pc = "woken"]
  /\ UNCHANGED boardVars
  /\ UNCHANGED <<params, uniqueId, msgQ, p, liveArrays, delivered, starts>>

\* Faulty variant: imagesCollected goes on from the acquisition before.
BeginGrab_KeepCollected ==
  /\ w.pc = "woken"
  /\ params' = [params EXCEPT !.ADNumImagesCounter = 0, !.ADAcquire = 1,
                              !.ADStatus = "Waiting"]
  /\ w' = [w EXCEPT !.pc = "poll", !.imageMode = params.ADImageMode,
                    !.numImages = params.ADNumImages]
  /\ UNCHANGED boardVars
  /\ UNCHANGED <<startEvent, uniqueId, msgQ, p, liveArrays, delivered, starts>>

\* The lock is taken and a new acquisition begins.
BeginGrab ==
  /\ w.pc = "woken"
  /\ params' = [params EXCEPT !.ADNumImagesCounter = 0, !.ADAcquire = 1,
                              !.ADStatus = "Waiting"]
  /\ w' = [w EXCEPT !.pc = "poll", !.imageMode = params.ADImageMode,
                    !.numImages = params.ADNumImages, !.imagesCollected = 0]
  /\ UNCHANGED boardVars
  /\ UNCHANGED <<startEvent, uniqueId, msgQ, p, liveArrays, delivered, starts>>

\* CiGetOldestNotDeliveredFrame delivers a frame, up to the call of send().
GetFrame ==
  /\ w.pc = "poll"
  /\ doneQ # <<>>
  /\ doneQ' = Tail(doneQ)
  /\ bufStatus' = [bufStatus EXCEPT ![Head(doneQ)] = "HOLD"]
  /\ uniqueId' = uniqueId + 1
  /\ w' = [w EXCEPT !.pc = "send",
                    !.handle = [buf |-> Head(doneQ), frame |-> content[Head(doneQ)]]]
  /\ UNCHANGED <<running, camera, content, cirEvent, frameCount>>
  /\ UNCHANGED <<params, startEvent, msgQ, p, liveArrays, delivered, starts>>

\* Faulty variant: frames are counted from 1.
Collected_OneLess(wt) ==
  \/ wt.imageMode = "Single"
  \/ wt.imageMode = "Multiple" /\ wt.imagesCollected + 1 >= wt.numImages

Collected(wt) ==
  \/ wt.imageMode = "Single"
  \/ wt.imageMode = "Multiple" /\ wt.imagesCollected >= wt.numImages

\* send() returns.  After the last frame CiAqAbort, and the lock is given up.
SendMessage ==
  /\ w.pc = "send"
  /\ Len(msgQ) < MessageQueueSize
  /\ msgQ' = Append(msgQ, [buf |-> w.handle.buf, frame |-> w.handle.frame,
                           uniqueId |-> uniqueId - 1])
  /\ LET counted == [w EXCEPT !.imagesCollected = w.imagesCollected + 1, !.handle = None]
     IN  \/ /\ Collected(counted)
            /\ CirAbort
            /\ w' = [counted EXCEPT !.pc = "idle"]
            /\ params' = [params EXCEPT !.ADStatus = "Idle"]
         \/ /\ ~Collected(counted)
            /\ w' = [counted EXCEPT !.pc = "poll"]
            /\ params' = [params EXCEPT !.ADStatus = "Waiting"]
            /\ UNCHANGED <<running, cirEvent>>
  /\ UNCHANGED <<camera, bufStatus, content, doneQ, frameCount>>
  /\ UNCHANGED <<startEvent, uniqueId, p, liveArrays, delivered, starts>>

\* kCIEnoNewData, or an error of either call: another call, with the lock held.
NoNewData ==
  /\ \/ w.pc = "poll" /\ doneQ = <<>> /\ cirEvent = "none"
        /\ w' = [w EXCEPT !.pc = "waitNext"]
     \/ w.pc = "waitNext" /\ (doneQ # <<>> \/ "error" \in Faults)
        /\ w' = [w EXCEPT !.pc = "poll"]
  /\ params' = [params EXCEPT !.ADStatus = "Waiting"]
  /\ UNCHANGED boardVars
  /\ UNCHANGED <<startEvent, uniqueId, msgQ, p, liveArrays, delivered, starts>>

\* Faulty variant: the break after an unknown status is taken here as well.
GotAborted_Break ==
  /\ w.pc \in {"poll", "waitNext"}
  /\ cirEvent # "none"
  /\ w' = [w EXCEPT !.pc = "poll"]
  /\ UNCHANGED <<boardVars, params>>
  /\ UNCHANGED <<startEvent, uniqueId, msgQ, p, liveArrays, delivered, starts>>

\* kCIEaqAbortedErr of either call: stopCapture, and the lock is given up.
GotAborted ==
  /\ w.pc \in {"poll", "waitNext"}
  /\ cirEvent # "none"
  /\ StopCapture([params EXCEPT !.ADStatus = "Idle"])
  /\ w' = [w EXCEPT !.pc = "idle"]
  /\ UNCHANGED <<bufStatus, content, doneQ, frameCount>>
  /\ UNCHANGED <<startEvent, uniqueId, msgQ, p, liveArrays, delivered, starts>>

WaitImage ==
  TakeEvent \/ BeginGrab \/ GetFrame \/ SendMessage \/ NoNewData \/ GotAborted

LinuxBoard == SpontaneousAbort \/ \E b \in Buffers : FrameDone(b)

Next ==
  \/ LinuxBoard /\ UNCHANGED driverVars
  \/ Client
  \/ WaitImage
  \/ \E t \in Threads : ProcessImage(t)

Spec == Init /\ [][Next]_vars

\* As in the Windows build.
FairSpec ==
  /\ Spec
  /\ WF_vars(\E b \in Buffers : FrameDone(b) /\ UNCHANGED driverVars)
  /\ WF_vars(WaitImage)
  /\ \A t \in Threads : WF_vars(ProcessImage(t))

-----------------------------------------------------------------------------
TypeOK ==
  /\ BoardTypeOK
  /\ DriverTypeOK
  /\ w \in WaitThread
  /\ (w.handle # None) <=> (w.pc = "send")

\* From its delivery on a buffer has one owner with its frame still in it, though
\* nothing but the delivery protects the buffer: the wait thread, the queue or one
\* processing thread, whatever is started or aborted meanwhile.
OneOwner == Ownership

\* While an acquisition collects, each frame collected so far occupies a buffer:
\* an acquisition needs as many buffers as it has frames.
CollectedFramesHoldBuffers ==
  w.pc \in {"poll", "waitNext"} => Cardinality(Held) >= w.imagesCollected

\* An abort of the board reaches the wait thread wherever it is, and the driver
\* gets its lock back; the client cannot cause one, it would need the lock.
AbortFreesLock == (~LockFree /\ cirEvent = "ABORTED") ~> LockFree

\* "Task to grab images off the camera and send them up to areaDetector": an
\* image that was grabbed reaches the plugins.
GrabbedImageIsDelivered == uniqueId > 0 ~> delivered # <<>>
=============================================================================
