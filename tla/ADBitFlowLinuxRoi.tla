-------------------------- MODULE ADBitFlowLinuxRoi --------------------------
(***************************************************************************)
(* The Linux driver together with setROI.  In this build the size of a     *)
(* copy is computed from the parameters and from bitsPerPixel_, which      *)
(* setROI alone sets, and nothing configures buffers before the first      *)
(* setROI.  A region is abstracted to a size.                              *)
(***************************************************************************)
EXTENDS ADBitFlowLinux

CONSTANTS
  Sizes,            \* sizes of a region
  Depths            \* bits per pixel the board can report

ASSUME RegionAssumption ==
  Sizes \subseteq Nat \ {0} /\ Depths \subseteq Nat \ {0}

VARIABLES
  freed,            \* the buffers of the frames 1 .. freed were freed
  roiSize,          \* ADSizeX, ADSizeY, ADMinX, ADMinY
  bitsPerPixel,     \* bitsPerPixel_, 0 before it is written
  geometry,         \* of the board's buffers, size 0 when there are none
  roiStatus         \* what the last setROI returned

regionVars == <<freed, roiSize, bitsPerPixel, geometry, roiStatus>>
roiVars == <<vars, regionVars>>

NoBuffers == [size |-> 0, bits |-> 0]

RoiInit ==
  /\ Init
  /\ freed = 0
  /\ roiSize \in Sizes
  /\ bitsPerPixel = 0
  /\ geometry = NoBuffers
  /\ roiStatus = "none"

\* Faulty variant: the region is not read back; the board may have changed it.
RegionSet_NotRead(g, asked) ==
  /\ roiSize' = asked
  /\ bitsPerPixel' = g.bits

\* What the board made of the region goes into the parameters.
RegionSet(g, asked) ==
  /\ roiSize' = g.size
  /\ bitsPerPixel' = g.bits

\* writeInt32 of a region parameter.  CiDrvrBuffConfigure(0) frees the buffers and
\* CiDrvrBuffConfigure(numBFBuffers_) allocates the new ones, whose geometry the
\* board may adjust; when it or CiBufferInterrogate fails, the parameters keep
\* what was written and bitsPerPixel_ what it was.
SetROI ==
  /\ ClientMay("roi")
  /\ freed' = frameCount
  /\ running' = FALSE
  /\ doneQ' = <<>>
  /\ bufStatus' = [b \in Buffers |-> "AVAILABLE"]
  /\ content' = [b \in Buffers |-> 0]
  /\ cirEvent' \in {cirEvent, "ABORTED"}
  /\ \E asked \in Sizes :
       \/ /\ geometry' \in [size : Sizes, bits : Depths]
          /\ RegionSet(geometry', asked)
          /\ roiStatus' = "success"
       \/ /\ "setup" \in Faults
          /\ geometry' \in {NoBuffers} \cup [size : Sizes, bits : Depths]
          /\ roiSize' = asked
          /\ roiStatus' = "error"
          /\ UNCHANGED bitsPerPixel
  /\ UNCHANGED <<camera, frameCount, driverVars>>

\* startCapture without buffers: the status of CiAqStart is ignored.
WriteStartUnready ==
  /\ ClientMay("start")
  /\ geometry = NoBuffers
  /\ starts < MaxStarts
  /\ CameraCommand(TRUE)
  /\ startEvent' = TRUE
  /\ params' = [params EXCEPT !.ADAcquire = 1]
  /\ starts' = starts + 1
  /\ UNCHANGED <<running, bufStatus, content, doneQ, cirEvent, frameCount>>
  /\ UNCHANGED <<uniqueId, msgQ, w, p, liveArrays, delivered>>
  /\ UNCHANGED regionVars

\* What the pipeline does leaves the region as it is.
RoiBoard == LinuxBoard /\ UNCHANGED <<driverVars, regionVars>>
RoiClient ==
  (WriteStop \/ WriteParam \/ (geometry # NoBuffers /\ WriteStart)) /\ UNCHANGED regionVars
RoiWait == WaitImage /\ UNCHANGED regionVars
RoiProcess(t) == ProcessImage(t) /\ UNCHANGED regionVars

RoiNext ==
  \/ RoiBoard
  \/ RoiClient
  \/ RoiWait
  \/ \E t \in Threads : RoiProcess(t)
  \/ SetROI
  \/ WriteStartUnready

RoiSpec ==
  /\ RoiInit /\ [][RoiNext]_roiVars
  /\ WF_roiVars(RoiBoard)
  /\ WF_roiVars(RoiWait)
  /\ \A t \in Threads : WF_roiVars(RoiProcess(t))

-----------------------------------------------------------------------------
\* The frames whose pixels a processing thread copies or will copy.
InUse ==
  (IF w.handle = None THEN {} ELSE {w.handle.frame})
    \cup {msgQ[i].frame : i \in 1 .. Len(msgQ)}
    \cup {p[t].msg.frame : t \in {u \in Threads : p[u].pc # "receive"}}

\* Whenever a frame is to be copied, its buffer is still there, and the parameters and
\* bitsPerPixel_, from which the number of bytes is computed, describe that buffer: the
\* copy reads no byte outside of it.  The region is changed while ADAcquire is 0.  When
\* setROI failed, the second part is not said: if it was CiBufferInterrogate that
\* failed, there are buffers, the driver can be started, and the parameters describe
\* the region that was asked for.  Where the bytes go is another matter: the array is
\* allocated for one byte per pixel, whatever bitsPerPixel_ is.
CopyReadsBuffer ==
  InUse # {} =>
    /\ geometry # NoBuffers /\ \A f \in InUse : f > freed
    /\ roiStatus # "error" => roiSize = geometry.size /\ bitsPerPixel = geometry.bits

\* Acquisitions of no more images than there are buffers count to their target and
\* end, although no frame is processed before the last one was collected.
Contract == INSTANCE AcquisitionContract WITH
  busy   <- params.ADAcquire = 1 /\ geometry # NoBuffers,
  target <- IF params.ADImageMode = "Single" \/ params.ADNumImages = 0
            THEN 1 ELSE params.ADNumImages,
  count  <- IF startEvent \/ w.pc = "woken" THEN 0 ELSE params.ADNumImagesCounter

ContractSpec == Contract!Spec
=============================================================================
