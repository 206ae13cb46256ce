---------------------------- MODULE BitFlowBoard ----------------------------
(***************************************************************************)
(* The frame grabber and the camera as the driver sees them through        *)
(* CircularInterface (Windows build).  The SDK is not part of the          *)
(* repository: what is written here is what ADBitFlow.cpp relies on, with  *)
(* a nondeterministic choice wherever it relies on nothing.                *)
(*                                                                         *)
(* The board is opened with errorMode CirErStop: it fills a buffer only    *)
(* when the driver has given that buffer back (BIAVAILABLE) and stops the  *)
(* acquisition when the buffer it needs is not free.                       *)
(***************************************************************************)
EXTENDS BFConfig, Sequences

CONSTANTS
  MaxFrames,        \* bound: frames the camera sends in one behaviour
  Faults            \* failures the environment may produce, see AllFaults

\* overrun, abort: the acquisition ends on its own; error: waitDoneFrame fails;
\* command: a camera command fails; alloc: the NDArrayPool is exhausted;
\* nullData: a frame comes without a data pointer; once: the end of an acquisition
\* may be reported once only, and BIABORT of a stopped board not at all; setup:
\* setROI cannot allocate buffers (ADBitFlowLife).
AllFaults == {"overrun", "abort", "error", "command", "alloc", "nullData", "once",
              "setup"}

ASSUME BoardAssumption ==
  /\ MaxFrames \in Nat
  /\ Faults \subseteq AllFaults

VARIABLES
  running,          \* the circular acquisition is started
  camera,           \* the camera was told AcquisitionStart, not yet AcquisitionStop
  bufStatus,        \* who may use each buffer
  content,          \* number of the frame each buffer holds, 0 for none
  doneQ,            \* filled buffers waitDoneFrame has not returned, oldest first
  cirEvent,         \* why the acquisition ended, while waitDoneFrame can report it
  frameCount        \* frames written so far

boardVars == <<running, camera, bufStatus, content, doneQ, cirEvent, frameCount>>

\* AVAILABLE: the board may fill it; DONE: filled, in doneQ; RETURNED: given
\* out by waitDoneFrame; HOLD: marked BIHOLD by the driver.
BufferStates == {"AVAILABLE", "DONE", "RETURNED", "HOLD"}

BoardTypeOK ==
  /\ running \in BOOLEAN
  /\ camera \in BOOLEAN
  /\ bufStatus \in [Buffers -> BufferStates]
  /\ content \in [Buffers -> Nat]
  /\ doneQ \in Seq(Buffers)
  /\ cirEvent \in {"none", "STOPPED", "ABORTED"}
  /\ frameCount \in Nat

BoardInit ==
  /\ running = FALSE
  /\ camera = FALSE
  /\ bufStatus = [b \in Buffers |-> "AVAILABLE"]
  /\ content = [b \in Buffers |-> 0]
  /\ doneQ = <<>>
  /\ cirEvent = "none"
  /\ frameCount = 0

-----------------------------------------------------------------------------
\* What the board and the camera do on their own.

\* DMA of one frame into a free buffer completes.
FrameDone(b) ==
  /\ running /\ camera
  /\ frameCount < MaxFrames
  /\ bufStatus[b] = "AVAILABLE"
  /\ frameCount' = frameCount + 1
  /\ content' = [content EXCEPT ![b] = frameCount + 1]
  /\ bufStatus' = [bufStatus EXCEPT ![b] = "DONE"]
  /\ doneQ' = Append(doneQ, b)
  /\ UNCHANGED <<running, camera, cirEvent>>

\* CirErStop: the next buffer of the circle is still in use.
Overrun ==
  /\ "overrun" \in Faults
  /\ running
  /\ \E b \in Buffers : bufStatus[b] # "AVAILABLE"
  /\ running' = FALSE
  /\ cirEvent' = "STOPPED"
  /\ UNCHANGED <<camera, bufStatus, content, doneQ, frameCount>>

\* The acquisition aborts by itself: RELEASE.md reports this after 5-10 frames
\* at a frame rate of 1.
SpontaneousAbort ==
  /\ "abort" \in Faults
  /\ running
  /\ running' = FALSE
  /\ cirEvent' = "ABORTED"
  /\ UNCHANGED <<camera, bufStatus, content, doneQ, frameCount>>

Board ==
  \/ \E b \in Buffers : FrameDone(b)
  \/ Overrun
  \/ SpontaneousAbort

-----------------------------------------------------------------------------
\* Calls of the driver.  Each sets the part of the state it names.

\* cirControl(BISTART): pending events are forgotten; frames left over from the
\* previous acquisition are either forgotten as well or still returned.
CirStart ==
  /\ running' = TRUE
  /\ cirEvent' = "none"
  /\ \/ UNCHANGED <<doneQ, bufStatus>>
     \/ /\ doneQ' = <<>>
        /\ bufStatus' = [b \in Buffers |->
             IF bufStatus[b] = "DONE" THEN "AVAILABLE" ELSE bufStatus[b]]
  /\ UNCHANGED <<content, frameCount>>

\* An AcquisitionStart or AcquisitionStop node command.  The driver ignores
\* the outcome, so a failed command only shows in the camera's state.
CameraCommand(on) ==
  \/ camera' = on
  \/ "command" \in Faults /\ UNCHANGED camera

\* cirControl(BIABORT).
CirAbort ==
  /\ running' = FALSE
  /\ \/ cirEvent' = "ABORTED"
     \/ "once" \in Faults /\ ~running /\ UNCHANGED cirEvent

\* waitDoneFrame returns BI_OK and the oldest filled buffer.
ReturnFrame ==
  /\ doneQ # <<>>
  /\ doneQ' = Tail(doneQ)
  /\ bufStatus' = [bufStatus EXCEPT ![Head(doneQ)] = "RETURNED"]
  /\ UNCHANGED <<running, camera, content, cirEvent, frameCount>>

\* waitDoneFrame reports that the acquisition ended, and does so again when it
\* is called again before the next BISTART.
ReturnEvent ==
  /\ cirEvent # "none"
  /\ \/ UNCHANGED cirEvent
     \/ "once" \in Faults /\ cirEvent' = "none"
  /\ UNCHANGED <<running, camera, bufStatus, content, doneQ, frameCount>>
=============================================================================
