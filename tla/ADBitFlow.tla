------------------------------ MODULE ADBitFlow ------------------------------
(***************************************************************************)
(* The part of the ADBitFlow driver both builds share: the parameters, the *)
(* message queue, the image processing threads, startCapture, stopCapture  *)
(* and the client that writes the driver's parameters.  The thread that    *)
(* waits for images differs between the builds and has a module of its     *)
(* own for each; its state w is declared here because the port lock is     *)
(* held across its steps.                                                  *)
(*                                                                         *)
(* A region of code between lock() and unlock() is one action.  The        *)
(* exceptions are the calls of the wait thread that can block inside the   *)
(* region: while w.pc is in LockedAt the lock is taken.                    *)
(***************************************************************************)
EXTENDS BitFlowBoard

CONSTANTS
  BusyOps,          \* what the client may do at any time
  IdleOps,          \* what the client may do while ADAcquire is 0
  ImageModes,       \* the image modes the client uses
  ImageCounts,      \* the values of ADNumImages the client uses
  MaxStarts,        \* bound: how often the client writes Acquire=1
  None              \* a local variable that holds no buffer or message

\* "roi" and "exit" are used by ADBitFlowLife and ADBitFlowLinuxRoi only.
ClientOps == {"start", "stop", "imageMode", "numImages", "callbacks", "roi", "exit"}

AllImageModes == {"Single", "Multiple", "Continuous"}

ASSUME ClientAssumption ==
  /\ BusyOps \subseteq ClientOps /\ IdleOps \subseteq ClientOps
  /\ ImageModes \subseteq AllImageModes /\ ImageModes # {}
  /\ ImageCounts \subseteq Nat /\ ImageCounts # {}
  /\ MaxStarts \in Nat

VARIABLES
  params,           \* the asyn parameter library
  startEvent,       \* startEventId_, a binary event
  uniqueId,         \* uniqueId_
  msgQ,             \* pMsgQ_
  w,                \* waitImageThread: program counter and locals
  p,                \* processImageThread of each thread: counter and locals
  liveArrays,       \* NDArrays allocated by the driver and not released
  delivered,        \* history: the arrays given to the plugins
  starts            \* history: how often the client wrote Acquire=1

driverVars == <<params, startEvent, uniqueId, msgQ, w, p, liveArrays,
                delivered, starts>>
vars == <<boardVars, driverVars>>

\* BiCirHandle: a buffer and the frame it stood for when waitDoneFrame returned
\* it (cirHandle.FrameCount).
Handles == [buf : Buffers, frame : Nat]

\* workerQueueElement: a handle and the driver's id.
Messages == [buf : Buffers, frame : Nat, uniqueId : Nat]

ASSUME NoneAssumption == None \notin Handles /\ None \notin Messages

Params == [ADAcquire : {0, 1},
           ADStatus : {"Idle", "Waiting", "Readout", "Aborting"},
           ADImageMode : AllImageModes,
           ADNumImages : Nat,
           ADNumImagesCounter : Nat,
           NDArrayCounter : Nat,
           NDArrayCallbacks : BOOLEAN]

\* What waits for a message has none in hand, and what works on one does.
DriverTypeOK ==
  /\ params \in Params
  /\ startEvent \in BOOLEAN
  /\ uniqueId \in Nat
  /\ msgQ \in Seq(Messages)
  /\ p \in [Threads -> [pc : {"receive", "received", "copy"},
                        msg : Messages \cup {None}, raw : BOOLEAN]]
  /\ \A t \in Threads : (p[t].msg # None) <=> (p[t].pc # "receive")
  /\ liveArrays \in Nat
  /\ delivered \in Seq([uniqueId : Nat, frame : Nat, data : Nat])
  /\ starts \in Nat

\* Where the wait thread holds the port lock between two of its steps: in send(),
\* and in the Linux build in the two calls that look and wait for a frame.
LockedAt == {"send", "poll", "waitNext"}
LockFree == w.pc \notin LockedAt

DriverInit ==
  /\ BoardInit
  /\ \E mode \in ImageModes, n \in ImageCounts, cb \in BOOLEAN :
       /\ cb \/ "callbacks" \in BusyOps \cup IdleOps
       /\ params = [ADAcquire |-> 0, ADStatus |-> "Idle", ADImageMode |-> mode,
                    ADNumImages |-> n, ADNumImagesCounter |-> 0,
                    NDArrayCounter |-> 0, NDArrayCallbacks |-> cb]
  /\ startEvent = FALSE
  /\ uniqueId = 0
  /\ msgQ = <<>>
  /\ p = [t \in Threads |-> [pc |-> "receive", msg |-> None, raw |-> FALSE]]
  /\ liveArrays = 0
  /\ delivered = <<>>
  /\ starts = 0

-----------------------------------------------------------------------------
\* startCapture and stopCapture, called with the lock held.

\* startCapture: camera first, then the board, then the wait thread is told.
StartCapture ==
  /\ CameraCommand(TRUE)
  /\ CirStart
  /\ startEvent' = TRUE

\* stopCapture: board, then camera, then ADAcquire; par are the parameters as
\* its caller left them.  The sleep of a second in between keeps the lock, so
\* no other step of the driver falls into it.
StopCapture(par) ==
  /\ CirAbort
  /\ CameraCommand(FALSE)
  /\ params' = [par EXCEPT !.ADAcquire = 0]

-----------------------------------------------------------------------------
\* The client, through ADGenICam::writeInt32 on the port thread.

ClientMay(op) ==
  /\ LockFree
  /\ op \in BusyOps \/ (op \in IdleOps /\ params.ADAcquire = 0)

\* Acquire written 1: the parameter is set, then startCapture runs.
WriteStart ==
  /\ ClientMay("start")
  /\ starts < MaxStarts
  /\ StartCapture
  /\ params' = [params EXCEPT !.ADAcquire = 1]
  /\ starts' = starts + 1
  /\ UNCHANGED <<uniqueId, msgQ, w, p, liveArrays, delivered>>

\* Acquire written 0.
WriteStop ==
  /\ ClientMay("stop")
  /\ StopCapture(params)
  /\ UNCHANGED <<bufStatus, content, doneQ, frameCount>>
  /\ UNCHANGED <<startEvent, uniqueId, msgQ, w, p, liveArrays, delivered, starts>>

\* Any other integer parameter is only stored.
WriteParam ==
  /\ \/ /\ ClientMay("imageMode")
        /\ \E mode \in ImageModes : params' = [params EXCEPT !.ADImageMode = mode]
     \/ /\ ClientMay("numImages")
        /\ \E n \in ImageCounts : params' = [params EXCEPT !.ADNumImages = n]
     \/ /\ ClientMay("callbacks")
        /\ params' = [params EXCEPT !.NDArrayCallbacks = ~@]
  /\ UNCHANGED boardVars
  /\ UNCHANGED <<startEvent, uniqueId, msgQ, w, p, liveArrays, delivered, starts>>

Client == WriteStart \/ WriteStop \/ WriteParam

-----------------------------------------------------------------------------
\* processImageThread of thread t.

\* Faulty variants: the message stays in the queue; the newest comes first.
Receive_Peek(t) ==
  /\ p[t].pc = "receive"
  /\ msgQ # <<>>
  /\ p' = [p EXCEPT ![t].pc = "received", ![t].msg = Head(msgQ)]
  /\ UNCHANGED boardVars
  /\ UNCHANGED <<params, startEvent, uniqueId, msgQ, w, liveArrays, delivered, starts>>

Receive_Newest(t) ==
  /\ p[t].pc = "receive"
  /\ msgQ # <<>>
  /\ p' = [p EXCEPT ![t].pc = "received", ![t].msg = msgQ[Len(msgQ)]]
  /\ msgQ' = SubSeq(msgQ, 1, Len(msgQ) - 1)
  /\ UNCHANGED boardVars
  /\ UNCHANGED <<params, startEvent, uniqueId, w, liveArrays, delivered, starts>>

\* receive() without the lock.
Receive(t) ==
  /\ p[t].pc = "receive"
  /\ msgQ # <<>>
  /\ p' = [p EXCEPT ![t].pc = "received", ![t].msg = Head(msgQ)]
  /\ msgQ' = Tail(msgQ)
  /\ UNCHANGED boardVars
  /\ UNCHANGED <<params, startEvent, uniqueId, w, liveArrays, delivered, starts>>

\* Callbacks are on and the NDArrayPool has no array: ADAcquire is cleared and
\* the loop continues, without giving the buffer back.
AllocFails(t) ==
  /\ p[t].pc = "received" /\ LockFree
  /\ params.NDArrayCallbacks
  /\ "alloc" \in Faults
  /\ params' = [params EXCEPT !.ADStatus = "Aborting", !.ADAcquire = 0]
  /\ p' = [p EXCEPT ![t] = [pc |-> "receive", msg |-> None, raw |-> FALSE]]
  /\ UNCHANGED boardVars
  /\ UNCHANGED <<startEvent, uniqueId, msgQ, w, liveArrays, delivered, starts>>

\* An array was allocated but the frame has no data: the loop continues with
\* neither the array nor the buffer released.
NullData(t) ==
  /\ p[t].pc = "received" /\ LockFree
  /\ params.NDArrayCallbacks
  /\ "nullData" \in Faults
  /\ liveArrays' = liveArrays + 1
  /\ p' = [p EXCEPT ![t] = [pc |-> "receive", msg |-> None, raw |-> TRUE]]
  /\ UNCHANGED boardVars
  /\ UNCHANGED <<params, startEvent, uniqueId, msgQ, w, delivered, starts>>

\* Faulty variant: the buffer is given back before the copy is made.
BeginCopy_Released(t) ==
  /\ p[t].pc = "received" /\ LockFree
  /\ params.NDArrayCallbacks
  /\ liveArrays' = liveArrays + 1
  /\ p' = [p EXCEPT ![t].pc = "copy", ![t].raw = TRUE]
  /\ bufStatus' = [bufStatus EXCEPT ![p[t].msg.buf] = "AVAILABLE"]
  /\ UNCHANGED <<running, camera, content, doneQ, cirEvent, frameCount>>
  /\ UNCHANGED <<params, startEvent, uniqueId, msgQ, w, delivered, starts>>

\* An array was allocated: unlock and copy the frame into it.
BeginCopy(t) ==
  /\ p[t].pc = "received" /\ LockFree
  /\ params.NDArrayCallbacks
  /\ liveArrays' = liveArrays + 1
  /\ p' = [p EXCEPT ![t].pc = "copy", ![t].raw = TRUE]
  /\ UNCHANGED boardVars
  /\ UNCHANGED <<params, startEvent, uniqueId, msgQ, w, delivered, starts>>

\* Faulty variant: the frame at hand is counted twice.
LastImage_OneEarly(par) ==
  \/ par.ADImageMode = "Single"
  \/ par.ADImageMode = "Multiple" /\ par.ADNumImagesCounter + 1 >= par.ADNumImages

\* Is acquisition done, as the processing thread sees it with the parameters
\* of this moment and the frame at hand already counted?
LastImage(par) ==
  \/ par.ADImageMode = "Single"
  \/ par.ADImageMode = "Multiple" /\ par.ADNumImagesCounter >= par.ADNumImages

\* setBufferStatus(BIAVAILABLE).
ReleaseBuffer(m) == bufStatus' = [bufStatus EXCEPT ![m.buf] = "AVAILABLE"]

\* Faulty variant: pRaw is not set to NULL and is released again by the next
\* frame that comes while callbacks are off.
Deliver_Twice(t, par) ==
  LET m == p[t].msg
  IN  \/ /\ par.NDArrayCallbacks
         /\ delivered' = Append(delivered,
              [uniqueId |-> m.uniqueId, frame |-> m.frame, data |-> content[m.buf]])
         /\ liveArrays' = liveArrays - 1
         /\ p' = [p EXCEPT ![t] = [pc |-> "receive", msg |-> None, raw |-> p[t].raw]]
      \/ /\ ~par.NDArrayCallbacks
         /\ p' = [p EXCEPT ![t] = [pc |-> "receive", msg |-> None, raw |-> p[t].raw]]
         /\ liveArrays' = liveArrays - (IF p[t].raw THEN 1 ELSE 0)
         /\ UNCHANGED delivered

\* Callbacks are on: the plugins get the array and the driver releases it.
\* Callbacks are off: nothing, even if the thread has filled an array.
Deliver(t, par) ==
  LET m == p[t].msg
  IN  \/ /\ par.NDArrayCallbacks
         /\ delivered' = Append(delivered,
              [uniqueId |-> m.uniqueId, frame |-> m.frame, data |-> content[m.buf]])
         /\ liveArrays' = liveArrays - 1
         /\ p' = [p EXCEPT ![t] = [pc |-> "receive", msg |-> None, raw |-> FALSE]]
      \/ /\ ~par.NDArrayCallbacks
         /\ p' = [p EXCEPT ![t] = [pc |-> "receive", msg |-> None, raw |-> p[t].raw]]
         /\ UNCHANGED <<delivered, liveArrays>>

\* Faulty variant: after the last image the buffer is not given back.
CompleteFrame_LastKept(t, par) ==
  LET counted == [par EXCEPT !.NDArrayCounter = par.NDArrayCounter + 1,
                               !.ADNumImagesCounter = par.ADNumImagesCounter + 1]
  IN  /\ Deliver(t, par)
      /\ \/ /\ LastImage(counted)
            /\ StopCapture([counted EXCEPT !.ADStatus = "Idle"])
            /\ UNCHANGED bufStatus
         \/ /\ ~LastImage(counted)
            /\ params' = counted
            /\ ReleaseBuffer(p[t].msg)
            /\ UNCHANGED <<running, camera, cirEvent>>
      /\ UNCHANGED <<content, doneQ, frameCount>>
      /\ UNCHANGED <<startEvent, uniqueId, msgQ, w, starts>>

\* The end of the loop, in one locked region: the buffer goes back, the frame is
\* counted, the array delivered and the acquisition stopped after its last image.
CompleteFrame(t, par) ==
  LET counted == [par EXCEPT !.NDArrayCounter = par.NDArrayCounter + 1,
                               !.ADNumImagesCounter = par.ADNumImagesCounter + 1]
  IN  /\ ReleaseBuffer(p[t].msg)
      /\ Deliver(t, par)
      /\ \/ /\ LastImage(counted)
            /\ StopCapture([counted EXCEPT !.ADStatus = "Idle"])
         \/ /\ ~LastImage(counted)
            /\ params' = counted
            /\ UNCHANGED <<running, camera, cirEvent>>
      /\ UNCHANGED <<content, doneQ, frameCount>>
      /\ UNCHANGED <<startEvent, uniqueId, msgQ, w, starts>>

\* Callbacks are off: the frame is counted in the same locked region.
SkipCopy(t) ==
  /\ p[t].pc = "received" /\ LockFree
  /\ ~params.NDArrayCallbacks
  /\ CompleteFrame(t, params)

\* The copy is made and the lock taken again; the parameters may have changed.
FinishCopy(t) ==
  /\ p[t].pc = "copy" /\ LockFree
  /\ CompleteFrame(t, [params EXCEPT !.ADStatus = "Readout"])

ProcessImage(t) ==
  \/ Receive(t)
  \/ AllocFails(t)
  \/ NullData(t)
  \/ BeginCopy(t)
  \/ SkipCopy(t)
  \/ FinishCopy(t)

-----------------------------------------------------------------------------
\* Who owns a buffer, between its delivery and setBufferStatus(BIAVAILABLE), in
\* both builds.

Held == {b \in Buffers : bufStatus[b] = "HOLD"}

\* A handle or message in hand stands for a held buffer with its frame in it.
Pinned(m) == bufStatus[m.buf] = "HOLD" /\ content[m.buf] = m.frame

BoardQueueDistinct ==
  /\ \A i \in 1 .. Len(doneQ) : bufStatus[doneQ[i]] = "DONE"
  /\ \A i, j \in 1 .. Len(doneQ) : i # j => doneQ[i] # doneQ[j]

SenderPins ==
  w.pc = "send" =>
    /\ Pinned(w.handle)
    /\ \A i \in 1 .. Len(msgQ) : msgQ[i].buf # w.handle.buf
    /\ \A t \in Threads : p[t].pc # "receive" => p[t].msg.buf # w.handle.buf

QueuePins ==
  /\ \A i \in 1 .. Len(msgQ) : Pinned(msgQ[i])
  /\ \A i, j \in 1 .. Len(msgQ) : i # j => msgQ[i].buf # msgQ[j].buf

ThreadsPin ==
  \A t \in Threads : p[t].pc # "receive" =>
    /\ Pinned(p[t].msg)
    /\ \A i \in 1 .. Len(msgQ) : msgQ[i].buf # p[t].msg.buf
    /\ \A u \in Threads \ {t} : p[u].pc # "receive" => p[u].msg.buf # p[t].msg.buf

\* The board, the wait thread in send(), the queue and each processing thread own
\* different buffers, and whoever holds a frame finds it in its buffer.
Ownership == BoardQueueDistinct /\ SenderPins /\ QueuePins /\ ThreadsPin
=============================================================================
