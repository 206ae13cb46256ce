---------------------------- MODULE ADBitFlowProofs ----------------------------
(***************************************************************************)
(* Lemmas about the part of the driver both builds share: the types, and   *)
(* who owns a buffer, through the steps of the board, the client and the   *)
(* processing threads.  The builds' wait threads have modules of their own.*)
(***************************************************************************)
EXTENDS ADBitFlow, TLAPS, FiniteSetTheorems

-----------------------------------------------------------------------------
\* Types.  liveArrays - 1 is a natural number because a thread that copies has an
\* array.

Copying == {t \in Threads : p[t].pc = "copy"}

SharedTypeInv ==
  /\ BoardTypeOK
  /\ DriverTypeOK
  /\ Cardinality(Copying) <= liveArrays

\* Adding an element to a finite set, and removing one.
LEMMA CardinalityAdd ==
  ASSUME NEW S, IsFiniteSet(S), NEW x, x \notin S
  PROVE  /\ Cardinality(S) \in Nat
         /\ Cardinality(S \cup {x}) = Cardinality(S) + 1
BY FS_AddElement, FS_CardinalityType

LEMMA CardinalityRemove ==
  ASSUME NEW S, IsFiniteSet(S), NEW x, x \in S
  PROVE  /\ Cardinality(S) \in Nat \ {0}
         /\ Cardinality(S \ {x}) = Cardinality(S) - 1
         /\ Cardinality(S \ {x}) \in Nat
<1>1. /\ IsFiniteSet(S \ {x})
      /\ Cardinality(S \ {x}) = Cardinality(S) - 1
  BY FS_RemoveElement
<1>2. Cardinality(S) \in Nat /\ Cardinality(S \ {x}) \in Nat
  BY <1>1, FS_CardinalityType
<1> QED BY <1>1, <1>2

LEMMA CopyingFinite == IsFiniteSet(Copying) /\ Cardinality(Copying) \in Nat
<1>1. IsFiniteSet(Threads) /\ Copying \in SUBSET Threads
  BY PoolsAssumption DEF Copying
<1>2. IsFiniteSet(Copying)
  BY <1>1, FS_Subset
<1> QED BY <1>2, FS_CardinalityType

LEMMA HeldFinite == IsFiniteSet(Held) /\ Cardinality(Held) \in Nat
<1>1. IsFiniteSet(Buffers) /\ Held \in SUBSET Buffers
  BY PoolsAssumption DEF Held
<1>2. IsFiniteSet(Held)
  BY <1>1, FS_Subset
<1> QED BY <1>2, FS_CardinalityType

\* What the board does on its own, and what the driver's calls do to it, keeps
\* the types.
LEMMA BoardTypeStep == BoardTypeOK /\ Board => BoardTypeOK'
<1> SUFFICES ASSUME BoardTypeOK, Board PROVE BoardTypeOK'
  OBVIOUS
<1>1. ASSUME NEW b \in Buffers, FrameDone(b) PROVE BoardTypeOK'
  <2>1. doneQ' \in Seq(Buffers)
    BY <1>1 DEF FrameDone, BoardTypeOK
  <2>2. bufStatus' \in [Buffers -> BufferStates] /\ content' \in [Buffers -> Nat]
    BY <1>1 DEF FrameDone, BoardTypeOK, BufferStates
  <2> QED BY <1>1, <2>1, <2>2 DEF FrameDone, BoardTypeOK
<1>2. CASE Overrun
  BY <1>2 DEF Overrun, BoardTypeOK
<1>3. CASE SpontaneousAbort
  BY <1>3 DEF SpontaneousAbort, BoardTypeOK
<1> QED BY <1>1, <1>2, <1>3 DEF Board

LEMMA CirStartType == BoardTypeOK /\ CirStart /\ CameraCommand(TRUE) => BoardTypeOK'
<1> SUFFICES ASSUME BoardTypeOK, CirStart, CameraCommand(TRUE) PROVE BoardTypeOK'
  OBVIOUS
<1>1. doneQ' \in Seq(Buffers)
  <2>1. doneQ' = doneQ \/ doneQ' = <<>>
    BY DEF CirStart
  <2>2. doneQ \in Seq(Buffers) /\ <<>> \in Seq(Buffers)
    BY DEF BoardTypeOK
  <2> QED BY <2>1, <2>2
<1>2. bufStatus' \in [Buffers -> BufferStates]
  BY DEF CirStart, BoardTypeOK, BufferStates
<1> QED BY <1>1, <1>2 DEF CirStart, CameraCommand, BoardTypeOK

LEMMA CirAbortType ==
  /\ BoardTypeOK
  /\ CirAbort
  /\ camera' \in BOOLEAN
  /\ bufStatus' \in [Buffers -> BufferStates]
  /\ UNCHANGED <<content, doneQ, frameCount>>
  => BoardTypeOK'
BY DEF CirAbort, BoardTypeOK

\* stopCapture keeps the types if its caller left the parameters typed.
LEMMA StopCaptureType ==
  ASSUME BoardTypeOK, NEW par \in Params, StopCapture(par),
         bufStatus' \in [Buffers -> BufferStates],
         UNCHANGED <<content, doneQ, frameCount>>
  PROVE  BoardTypeOK' /\ params' \in Params
<1>1. params' \in Params
  BY DEF StopCapture, Params
<1>2. camera' \in BOOLEAN
  BY DEF StopCapture, CameraCommand, BoardTypeOK
<1> QED BY <1>1, <1>2, CirAbortType DEF StopCapture

LEMMA AppendType == ASSUME NEW S, NEW s \in Seq(S), NEW x \in S PROVE Append(s, x) \in Seq(S)
OBVIOUS

\* The oldest filled buffer is a buffer.
LEMMA HeadOfDoneQ ==
  ASSUME BoardTypeOK, doneQ # <<>>
  PROVE  /\ Head(doneQ) \in Buffers
         /\ [buf |-> Head(doneQ), frame |-> content[Head(doneQ)]] \in Handles
BY DEF BoardTypeOK, Handles

LEMMA SharedTypeInit == DriverInit => SharedTypeInv /\ params \in Params
<1> SUFFICES ASSUME DriverInit PROVE SharedTypeInv /\ params \in Params
  OBVIOUS
<1>1. BoardTypeOK
  <2>1. doneQ \in Seq(Buffers)
    BY DEF DriverInit, BoardInit
  <2>2. bufStatus \in [Buffers -> BufferStates] /\ content \in [Buffers -> Nat]
    BY DEF DriverInit, BoardInit, BufferStates
  <2> QED BY <2>1, <2>2 DEF DriverInit, BoardInit, BoardTypeOK
<1>2. params \in Params
  <2>1. PICK mode \in ImageModes, n \in ImageCounts, cb \in BOOLEAN :
          params = [ADAcquire |-> 0, ADStatus |-> "Idle", ADImageMode |-> mode,
                    ADNumImages |-> n, ADNumImagesCounter |-> 0,
                    NDArrayCounter |-> 0, NDArrayCallbacks |-> cb]
    BY DEF DriverInit
  <2> QED BY <2>1, ClientAssumption DEF Params, AllImageModes
<1>3. DriverTypeOK
  <2>1. p \in [Threads -> [pc : {"receive", "received", "copy"},
                           msg : Messages \cup {None}, raw : BOOLEAN]]
    BY DEF DriverInit
  <2>2. \A t \in Threads : p[t].msg = None /\ p[t].pc = "receive"
    BY DEF DriverInit
  <2>3. msgQ \in Seq(Messages) /\ delivered \in Seq([uniqueId : Nat, frame : Nat, data : Nat])
    BY DEF DriverInit
  <2>4. startEvent \in BOOLEAN /\ uniqueId \in Nat /\ liveArrays \in Nat /\ starts \in Nat
    BY DEF DriverInit
  <2> QED BY <1>2, <2>1, <2>2, <2>3, <2>4 DEF DriverTypeOK
<1>4. Copying = {}
  BY DEF Copying, DriverInit
<1>5. Cardinality(Copying) <= liveArrays
  BY <1>4, FS_EmptySet DEF DriverInit
<1> QED BY <1>1, <1>2, <1>3, <1>5 DEF SharedTypeInv

\* The board's and the client's steps keep the types.
LEMMA SharedTypeBoard ==
  SharedTypeInv /\ Board /\ UNCHANGED driverVars => SharedTypeInv'
BY BoardTypeStep DEF SharedTypeInv, driverVars, DriverTypeOK, Copying

LEMMA SharedTypeClient ==
  ASSUME SharedTypeInv, Client
  PROVE  SharedTypeInv' /\ UNCHANGED <<w, uniqueId>>
<1> USE DEF SharedTypeInv
<1>1. CASE WriteStart
  <2>1. params' \in Params
    BY <1>1 DEF WriteStart, DriverTypeOK, Params
  <2> QED BY <1>1, <2>1, CirStartType DEF WriteStart, StartCapture, DriverTypeOK, Copying
<1>2. CASE WriteStop
  <2>1. BoardTypeOK' /\ params' \in Params
    BY <1>2, StopCaptureType DEF WriteStop, BoardTypeOK, DriverTypeOK
  <2> QED BY <1>2, <2>1 DEF WriteStop, DriverTypeOK, Copying
<1>3. CASE WriteParam
  <2>1. params' \in Params
    BY <1>3, ClientAssumption DEF WriteParam, DriverTypeOK, Params
  <2> QED BY <1>3, <2>1 DEF WriteParam, boardVars, BoardTypeOK, DriverTypeOK, Copying
<1> QED BY <1>1, <1>2, <1>3 DEF Client

\* A processing thread keeps the types of its own state and of what it shares.
LEMMA SharedTypeProcess ==
  ASSUME SharedTypeInv, NEW t \in Threads, ProcessImage(t)
  PROVE  SharedTypeInv' /\ UNCHANGED <<w, uniqueId>>
<1> USE DEF SharedTypeInv
<1>1. CASE Receive(t)
  <2>1. msgQ \in Seq(Messages) /\ msgQ # <<>>
    BY <1>1 DEF Receive, DriverTypeOK
  <2>2. Head(msgQ) \in Messages /\ msgQ' \in Seq(Messages)
    BY <1>1, <2>1 DEF Receive
  <2>3. DriverTypeOK'
    BY <1>1, <2>2, NoneAssumption DEF Receive, DriverTypeOK
  <2>4. Copying' = Copying
    BY <1>1 DEF Receive, Copying, DriverTypeOK
  <2> QED BY <1>1, <2>3, <2>4 DEF Receive, boardVars, BoardTypeOK
<1>2. CASE AllocFails(t)
  <2>1. DriverTypeOK'
    BY <1>2 DEF AllocFails, DriverTypeOK, Params
  <2>2. Copying' = Copying
    BY <1>2 DEF AllocFails, Copying, DriverTypeOK
  <2> QED BY <1>2, <2>1, <2>2 DEF AllocFails, boardVars, BoardTypeOK
<1>3. CASE NullData(t)
  <2>1. DriverTypeOK'
    BY <1>3 DEF NullData, DriverTypeOK
  <2>2. Copying' = Copying
    BY <1>3 DEF NullData, Copying, DriverTypeOK
  <2>3. Cardinality(Copying) <= liveArrays'
    BY <1>3, CopyingFinite DEF NullData, DriverTypeOK
  <2> QED BY <1>3, <2>1, <2>2, <2>3 DEF NullData, boardVars, BoardTypeOK
<1>4. CASE BeginCopy(t)
  <2>1. DriverTypeOK'
    <3>1. /\ p' \in [Threads -> [pc : {"receive", "received", "copy"},
                                msg : Messages \cup {None}, raw : BOOLEAN]]
          /\ \A u \in Threads : (p'[u].msg # None) <=> (p'[u].pc # "receive")
      BY <1>4 DEF BeginCopy, DriverTypeOK
    <3> QED BY <1>4, <3>1 DEF BeginCopy, DriverTypeOK
  <2>2. Copying' = Copying \cup {t} /\ t \notin Copying
    BY <1>4 DEF BeginCopy, Copying, DriverTypeOK
  <2>3. Cardinality(Copying') <= liveArrays'
    <3>1. Cardinality(Copying') = Cardinality(Copying) + 1
      BY <2>2, CopyingFinite, CardinalityAdd
    <3> QED BY <1>4, <3>1, CopyingFinite DEF BeginCopy, DriverTypeOK
  <2> QED BY <1>4, <2>1, <2>3 DEF BeginCopy, boardVars, BoardTypeOK
<1>5. ASSUME NEW par \in Params, CompleteFrame(t, par), p[t].pc # "receive",
             par.NDArrayCallbacks => p[t].pc = "copy"
      PROVE  SharedTypeInv' /\ UNCHANGED <<w, uniqueId>>
  <2>1. p[t].msg \in Messages
    BY <1>5 DEF DriverTypeOK
  <2>2. bufStatus' \in [Buffers -> BufferStates]
    BY <1>5 DEF CompleteFrame, ReleaseBuffer, BoardTypeOK, BufferStates
  <2>3. BoardTypeOK' /\ params' \in Params
    <3> DEFINE counted == [par EXCEPT !.NDArrayCounter = par.NDArrayCounter + 1,
                                      !.ADNumImagesCounter = par.ADNumImagesCounter + 1]
    <3>0. counted \in Params
      <4>1. par.NDArrayCounter + 1 \in Nat /\ par.ADNumImagesCounter + 1 \in Nat
        BY DEF Params
      <4> QED BY <4>1 DEF Params
    <3>1. [counted EXCEPT !.ADStatus = "Idle"] \in Params
      BY <3>0 DEF Params
    <3>2. CASE LastImage(counted)
      BY <1>5, <2>2, <3>1, <3>2, StopCaptureType DEF CompleteFrame
    <3>3. CASE ~LastImage(counted)
      BY <1>5, <2>2, <3>0, <3>3 DEF CompleteFrame, BoardTypeOK
    <3> QED BY <3>2, <3>3
  <2>4. /\ p' \in [Threads -> [pc : {"receive", "received", "copy"},
                               msg : Messages \cup {None}, raw : BOOLEAN]]
        /\ \A u \in Threads : (p'[u].msg # None) <=> (p'[u].pc # "receive")
        /\ \A u \in Threads \ {t} : p'[u] = p[u]
        /\ p'[t].pc = "receive"
    <3>1. p[t].raw \in BOOLEAN
      BY DEF DriverTypeOK
    <3>2. \E r \in BOOLEAN : p' = [p EXCEPT ![t] = [pc |-> "receive", msg |-> None, raw |-> r]]
      BY <1>5, <3>1 DEF CompleteFrame, Deliver
    <3> QED BY <3>2 DEF DriverTypeOK
  <2>5. delivered' \in Seq([uniqueId : Nat, frame : Nat, data : Nat])
    <3>1. [uniqueId |-> p[t].msg.uniqueId, frame |-> p[t].msg.frame,
           data |-> content[p[t].msg.buf]] \in [uniqueId : Nat, frame : Nat, data : Nat]
      BY <2>1 DEF BoardTypeOK, Messages
    <3>2. \/ delivered' = delivered
          \/ delivered' = Append(delivered,
               [uniqueId |-> p[t].msg.uniqueId, frame |-> p[t].msg.frame,
                data |-> content[p[t].msg.buf]])
      BY <1>5 DEF CompleteFrame, Deliver
    <3>3. delivered \in Seq([uniqueId : Nat, frame : Nat, data : Nat])
      BY DEF DriverTypeOK
    <3> QED BY <3>1, <3>2, <3>3, AppendType
  <2>6. Copying' = Copying \ {t} /\ (t \in Copying <=> p[t].pc = "copy")
    BY <2>4 DEF Copying
  <2>7. liveArrays' \in Nat /\ Cardinality(Copying') <= liveArrays'
    <3>1. CASE t \in Copying
      <4>1. /\ Cardinality(Copying) \in Nat \ {0}
            /\ Cardinality(Copying') = Cardinality(Copying) - 1
        BY <2>6, <3>1, CopyingFinite, CardinalityRemove
      <4>2. liveArrays \in Nat /\ liveArrays' \in {liveArrays, liveArrays - 1}
        BY <1>5 DEF CompleteFrame, Deliver, DriverTypeOK
      <4> QED BY <4>1, <4>2
    <3>2. CASE t \notin Copying
      <4>1. Copying' = Copying /\ liveArrays' = liveArrays
        BY <1>5, <2>6, <3>2 DEF CompleteFrame, Deliver
      <4> QED BY <4>1 DEF DriverTypeOK
    <3> QED BY <3>1, <3>2
  <2>8. DriverTypeOK'
    BY <1>5, <2>3, <2>4, <2>5, <2>7 DEF CompleteFrame, DriverTypeOK
  <2> QED BY <1>5, <2>3, <2>7, <2>8 DEF CompleteFrame
<1>6. CASE SkipCopy(t)
  <2>1. params \in Params
    BY DEF DriverTypeOK
  <2> QED BY <1>5, <1>6, <2>1 DEF SkipCopy
<1>7. CASE FinishCopy(t)
  <2>1. [params EXCEPT !.ADStatus = "Readout"] \in Params
    BY DEF DriverTypeOK, Params
  <2> QED BY <1>5, <1>7, <2>1 DEF FinishCopy
<1> QED BY <1>1, <1>2, <1>3, <1>4, <1>6, <1>7 DEF ProcessImage

-----------------------------------------------------------------------------
\* Ownership of the buffers.

\* What wait threads of both builds have in hand when they call send().
SendType == w.pc = "send" => w.handle \in Handles

LEMMA OwnershipInit == DriverInit /\ w.pc # "send" => Ownership
BY DEF DriverInit, BoardInit, Ownership, BoardQueueDistinct, SenderPins, QueuePins, ThreadsPin

LEMMA QueueElement ==
  ASSUME DriverTypeOK, NEW i \in 1 .. Len(msgQ)
  PROVE  msgQ[i] \in Messages /\ msgQ[i].buf \in Buffers
<1>1. msgQ[i] \in Messages
  BY DEF DriverTypeOK
<1> QED BY <1>1 DEF Messages

LEMMA ThreadElement ==
  ASSUME DriverTypeOK, NEW t \in Threads, p[t].pc # "receive"
  PROVE  p[t].msg \in Messages /\ p[t].msg.buf \in Buffers
<1>1. p[t].msg \in Messages
  BY DEF DriverTypeOK
<1> QED BY <1>1 DEF Messages

\* If the board leaves alone every buffer that is held, everyone who owned a buffer
\* still does.
LEMMA PinsSurvive ==
  ASSUME DriverTypeOK, SendType, Ownership, UNCHANGED <<msgQ, p, w>>,
         \A b \in Buffers : bufStatus[b] = "HOLD" =>
           bufStatus'[b] = "HOLD" /\ content'[b] = content[b]
  PROVE  SenderPins' /\ QueuePins' /\ ThreadsPin'
<1>1. \A i \in 1 .. Len(msgQ) : msgQ[i].buf \in Buffers
  BY QueueElement
<1>2. \A t \in Threads : p[t].pc # "receive" => p[t].msg.buf \in Buffers
  BY ThreadElement
<1>3. w.pc = "send" => w.handle.buf \in Buffers
  BY DEF SendType, Handles
<1>4. SenderPins'
  BY <1>3 DEF Ownership, SenderPins, Pinned
<1>5. QueuePins'
  BY <1>1 DEF Ownership, QueuePins, Pinned
<1>6. ThreadsPin'
  BY <1>2 DEF Ownership, ThreadsPin, Pinned
<1> QED BY <1>4, <1>5, <1>6

\* A step of the wait thread that does not enter send().
LEMMA OwnershipUnchanged ==
  ASSUME Ownership, UNCHANGED <<bufStatus, content, doneQ, msgQ, p>>, w'.pc # "send"
  PROVE  Ownership'
BY DEF Ownership, BoardQueueDistinct, SenderPins, QueuePins, ThreadsPin, Pinned

LEMMA OwnershipBoard ==
  ASSUME BoardTypeOK, DriverTypeOK, SendType, Ownership, Board, UNCHANGED driverVars
  PROVE  Ownership'
<1>1. ASSUME NEW b \in Buffers, FrameDone(b) PROVE Ownership'
  <2>1. \A c \in Buffers \ {b} : bufStatus'[c] = bufStatus[c] /\ content'[c] = content[c]
    BY <1>1 DEF FrameDone, BoardTypeOK
  <2>2. SenderPins' /\ QueuePins' /\ ThreadsPin'
    BY <1>1, <2>1, PinsSurvive DEF FrameDone, driverVars
  <2>3. BoardQueueDistinct'
    <3>1. /\ Len(doneQ') = Len(doneQ) + 1
          /\ \A i \in 1 .. Len(doneQ) : doneQ'[i] = doneQ[i] /\ doneQ[i] \in Buffers \ {b}
          /\ doneQ'[Len(doneQ) + 1] = b
      BY <1>1 DEF FrameDone, BoardTypeOK, Ownership, BoardQueueDistinct
    <3>2. bufStatus'[b] = "DONE"
      BY <1>1 DEF FrameDone, BoardTypeOK
    <3>3. Len(doneQ) \in Nat
      BY DEF BoardTypeOK
    <3>4. \A i \in 1 .. Len(doneQ') : i \in 1 .. Len(doneQ) \/ i = Len(doneQ) + 1
      BY <3>1, <3>3
    <3> QED BY <2>1, <3>1, <3>2, <3>4 DEF Ownership, BoardQueueDistinct
  <2> QED BY <2>2, <2>3 DEF Ownership
<1>2. CASE Overrun \/ SpontaneousAbort
  BY <1>2 DEF Overrun, SpontaneousAbort, driverVars, Ownership, BoardQueueDistinct,
              SenderPins, QueuePins, ThreadsPin, Pinned
<1> QED BY <1>1, <1>2 DEF Board

LEMMA OwnershipClient ==
  ASSUME BoardTypeOK, DriverTypeOK, SendType, Ownership, Client
  PROVE  Ownership'
<1>1. CASE WriteStart
  <2>1. SenderPins' /\ QueuePins' /\ ThreadsPin'
    BY <1>1, PinsSurvive DEF WriteStart, StartCapture, CirStart, BoardTypeOK
  <2>2. BoardQueueDistinct'
    BY <1>1 DEF WriteStart, StartCapture, CirStart, Ownership, BoardQueueDistinct
  <2> QED BY <2>1, <2>2 DEF Ownership
<1>2. CASE WriteStop \/ WriteParam
  BY <1>2 DEF WriteStop, WriteParam, boardVars, Ownership, BoardQueueDistinct, SenderPins,
              QueuePins, ThreadsPin, Pinned
<1> QED BY <1>1, <1>2 DEF Client

\* The frame passes from the wait thread to the queue.
LEMMA OwnershipSend ==
  ASSUME DriverTypeOK, Ownership, w.pc = "send", w'.pc # "send",
         NEW n \in Int,
         msgQ' = Append(msgQ, [buf |-> w.handle.buf, frame |-> w.handle.frame,
                               uniqueId |-> n]),
         UNCHANGED <<bufStatus, content, doneQ, p>>
  PROVE  Ownership'
<1> DEFINE n0 == Len(msgQ)
<1>1. /\ n0 \in Nat /\ Len(msgQ') = n0 + 1
      /\ \A i \in 1 .. n0 : msgQ'[i] = msgQ[i]
      /\ msgQ'[n0 + 1].buf = w.handle.buf
      /\ msgQ'[n0 + 1].frame = w.handle.frame
  BY DEF DriverTypeOK
<1>2. \A i \in 1 .. Len(msgQ') : i \in 1 .. n0 \/ i = n0 + 1
  BY <1>1
<1>3. /\ Pinned(w.handle)
      /\ \A i \in 1 .. n0 : msgQ[i].buf # w.handle.buf
      /\ \A t \in Threads : p[t].pc # "receive" => p[t].msg.buf # w.handle.buf
  BY DEF Ownership, SenderPins
<1>4. SenderPins' /\ BoardQueueDistinct'
  BY DEF Ownership, SenderPins, BoardQueueDistinct
<1>5. QueuePins'
  BY <1>1, <1>2, <1>3 DEF Ownership, QueuePins, Pinned
<1>6. ThreadsPin'
  BY <1>1, <1>2, <1>3 DEF Ownership, ThreadsPin, Pinned
<1> QED BY <1>4, <1>5, <1>6 DEF Ownership

\* The frame passes from the queue to a processing thread.
LEMMA OwnershipReceive ==
  ASSUME DriverTypeOK, Ownership, NEW t \in Threads, Receive(t)
  PROVE  Ownership'
<1>1. /\ UNCHANGED <<bufStatus, content, doneQ, w>>
      /\ p'[t].pc # "receive" /\ p'[t].msg = msgQ[1]
      /\ \A u \in Threads \ {t} : p'[u] = p[u]
  BY DEF Receive, boardVars, DriverTypeOK
<1>2. /\ Len(msgQ) \in Nat /\ 1 \in 1 .. Len(msgQ) /\ Len(msgQ') = Len(msgQ) - 1
      /\ \A i \in 1 .. Len(msgQ') : msgQ'[i] = msgQ[i + 1]
  BY DEF Receive, DriverTypeOK
<1>3. \A i \in 1 .. Len(msgQ') : i + 1 \in 1 .. Len(msgQ) /\ i + 1 # 1
  BY <1>2
<1>4. SenderPins'
  BY <1>1, <1>2, <1>3 DEF Ownership, SenderPins, Pinned
<1>5. QueuePins'
  <2>1. \A i \in 1 .. Len(msgQ') :
          bufStatus'[msgQ'[i].buf] = "HOLD" /\ content'[msgQ'[i].buf] = msgQ'[i].frame
    BY <1>1, <1>2, <1>3 DEF Ownership, QueuePins, Pinned
  <2>2. ASSUME NEW i \in 1 .. Len(msgQ'), NEW j \in 1 .. Len(msgQ'), i # j
        PROVE  msgQ'[i].buf # msgQ'[j].buf
    <3>1. i + 1 # j + 1
      BY <2>2, <1>2
    <3> QED BY <1>2, <1>3, <3>1 DEF Ownership, QueuePins
  <2> QED BY <2>1, <2>2 DEF QueuePins, Pinned
<1>6. ThreadsPin'
  BY <1>1, <1>2, <1>3 DEF Ownership, ThreadsPin, QueuePins, Pinned
<1>7. BoardQueueDistinct'
  BY <1>1 DEF Ownership, BoardQueueDistinct
<1> QED BY <1>4, <1>5, <1>6, <1>7 DEF Ownership

\* A processing thread keeps its message or drops it.
LEMMA OwnershipKeepOrDrop ==
  ASSUME Ownership, NEW t \in Threads,
         UNCHANGED <<bufStatus, content, doneQ, msgQ, w>>,
         \A u \in Threads \ {t} : p'[u] = p[u],
         p'[t].pc # "receive" => p[t].pc # "receive" /\ p'[t].msg = p[t].msg
  PROVE  Ownership'
BY DEF Ownership, BoardQueueDistinct, SenderPins, QueuePins, ThreadsPin, Pinned

\* A processing thread gives its buffer back: nobody else owned it.
LEMMA OwnershipCompleteFrame ==
  ASSUME BoardTypeOK, DriverTypeOK, SendType, Ownership, NEW t \in Threads, p[t].pc # "receive",
         NEW par, CompleteFrame(t, par)
  PROVE  Ownership'
<1> DEFINE b == p[t].msg.buf
<1>1. b \in Buffers /\ bufStatus[b] = "HOLD"
  BY ThreadElement DEF Ownership, ThreadsPin, Pinned
<1>2. /\ UNCHANGED <<content, doneQ, msgQ, w>>
      /\ \A c \in Buffers \ {b} : bufStatus'[c] = bufStatus[c]
  BY DEF CompleteFrame, ReleaseBuffer, BoardTypeOK
<1>3. p'[t].pc = "receive" /\ \A u \in Threads \ {t} : p'[u] = p[u]
  BY DEF CompleteFrame, Deliver, DriverTypeOK
<1>4. \A i \in 1 .. Len(msgQ) : msgQ[i].buf \in Buffers \ {b}
  BY QueueElement DEF Ownership, ThreadsPin
<1>5. \A u \in Threads \ {t} : p[u].pc # "receive" => p[u].msg.buf \in Buffers \ {b}
  BY ThreadElement DEF Ownership, ThreadsPin
<1>6. SenderPins'
  <2>1. w.pc = "send" => w.handle.buf \in Buffers \ {b}
    BY DEF SendType, Handles, Ownership, SenderPins
  <2> QED BY <1>2, <1>3, <2>1 DEF Ownership, SenderPins, Pinned
<1>7. QueuePins'
  BY <1>2, <1>4 DEF Ownership, QueuePins, Pinned
<1>8. ThreadsPin'
  BY <1>2, <1>3, <1>5 DEF Ownership, ThreadsPin, Pinned
<1>9. BoardQueueDistinct'
  <2>1. \A i \in 1 .. Len(doneQ) : doneQ[i] \in Buffers \ {b}
    BY <1>1 DEF Ownership, BoardQueueDistinct, BoardTypeOK
  <2> QED BY <1>2, <2>1 DEF Ownership, BoardQueueDistinct
<1> QED BY <1>6, <1>7, <1>8, <1>9 DEF Ownership

LEMMA OwnershipProcess ==
  ASSUME BoardTypeOK, DriverTypeOK, SendType, Ownership, NEW t \in Threads, ProcessImage(t)
  PROVE  Ownership'
<1>1. CASE Receive(t)
  BY <1>1, OwnershipReceive
<1>2. CASE AllocFails(t) \/ NullData(t)
  <2>1. p'[t].pc = "receive" /\ \A u \in Threads \ {t} : p'[u] = p[u]
    BY <1>2 DEF AllocFails, NullData, DriverTypeOK
  <2> QED BY <1>2, <2>1, OwnershipKeepOrDrop DEF AllocFails, NullData, boardVars
<1>3. CASE BeginCopy(t)
  <2>1. p[t].pc # "receive" /\ p'[t].msg = p[t].msg /\ \A u \in Threads \ {t} : p'[u] = p[u]
    BY <1>3 DEF BeginCopy, DriverTypeOK
  <2> QED BY <1>3, <2>1, OwnershipKeepOrDrop DEF BeginCopy, boardVars
<1>4. CASE SkipCopy(t) \/ FinishCopy(t)
  BY <1>4, OwnershipCompleteFrame DEF SkipCopy, FinishCopy
<1> QED BY <1>1, <1>2, <1>3, <1>4 DEF ProcessImage

\* Distinct queued messages hold distinct buffers, none of them the one in send().
LEMMA QueueFits ==
  ASSUME DriverTypeOK, SendType, Ownership, w.pc = "send"
  PROVE  Len(msgQ) < Cardinality(Buffers)
<1> DEFINE b    == w.handle.buf
           free == Buffers \ {b}
           f    == [i \in 1 .. Len(msgQ) |-> msgQ[i].buf]
<1>1. b \in Buffers /\ IsFiniteSet(Buffers)
  BY PoolsAssumption DEF SendType, Handles
<1>2. IsFiniteSet(free) /\ Cardinality(free) = Cardinality(Buffers) - 1
      /\ Cardinality(Buffers) \in Nat
  BY <1>1, CardinalityRemove, FS_RemoveElement
<1>3. f \in [1 .. Len(msgQ) -> free]
  <2>1. \A i \in 1 .. Len(msgQ) : msgQ[i].buf \in free
    BY QueueElement DEF Ownership, SenderPins
  <2> QED BY <2>1
<1>4. f \in Injection(1 .. Len(msgQ), free)
  <2>1. \A i, j \in 1 .. Len(msgQ) : f[i] = f[j] => i = j
    BY DEF Ownership, QueuePins
  <2> QED BY <1>3, <2>1 DEF Injection, IsInjective
<1>5. Cardinality(1 .. Len(msgQ)) <= Cardinality(free)
  <2> HIDE DEF f, free
  <2> QED BY <1>2, <1>4, FS_Injection
<1>6. Len(msgQ) \in Nat
  BY DEF DriverTypeOK
<1>7. Cardinality(1 .. Len(msgQ)) = Len(msgQ)
  BY <1>6, FS_Interval
<1> QED BY <1>2, <1>5, <1>6, <1>7
-----------------------------------------------------------------------------
\* The images of an acquisition, and the rest after it.

\* One acquisition at a time: while ADAcquire is 1 the client changes at most whether
\* the plugins are called, and neither a board that aborts by itself nor a pool that
\* is exhausted ends the acquisition in the middle.  Everything else may fail.
Orderly ==
  /\ BusyOps \subseteq {"callbacks"}
  /\ Faults \cap {"abort", "alloc"} = {}

\* The number of images an acquisition that is not Continuous is to have.
Target ==
  IF params.ADImageMode = "Single" \/ params.ADNumImages = 0 THEN 1 ELSE params.ADNumImages

\* The images of this acquisition the driver has taken, counted or not.
Taken == Cardinality(Held) + params.ADNumImagesCounter

Bounded == params.ADImageMode # "Continuous"

\* The wait thread takes frames.
Collecting == w.pc \notin {"idle", "woken"}

\* ADAcquire=0: at rest.
RestInv ==
  params.ADAcquire = 0 =>
    /\ ~running /\ ~startEvent /\ w.pc = "idle"
    /\ Held = {}
    /\ params.ADStatus = "Idle"
    /\ "command" \notin Faults => ~camera

\* A start that the wait thread has not seen yet finds no image of an earlier one.
StartInv ==
  /\ startEvent => w.pc = "idle"
  /\ startEvent \/ w.pc = "woken" => Held = {}

\* The wait thread knows the parameters and how many images were taken.
GrabInv ==
  Collecting =>
    /\ w.imageMode = params.ADImageMode /\ w.numImages = params.ADNumImages
    /\ Taken = w.imagesCollected + (IF w.pc = "send" THEN 1 ELSE 0)
    /\ Bounded => w.imagesCollected < Target

\* All images were taken, or as many as came; the last ones are being processed.
DrainInv ==
  w.pc = "idle" /\ ~startEvent /\ params.ADAcquire = 1 /\ Bounded => Taken <= Target

AcqInv == RestInv /\ StartInv /\ GrabInv /\ DrainInv

LEMMA TargetPositive == ASSUME params \in Params PROVE Target \in Nat \ {0}
BY DEF Target, Params

\* What the quantities above are made of keeps them.
LEMMA AcqQuantities ==
  ASSUME params.ADImageMode = params'.ADImageMode, params.ADNumImages = params'.ADNumImages
  PROVE  /\ Target' = Target /\ Bounded' = Bounded
         /\ Held' = Held /\ params'.ADNumImagesCounter = params.ADNumImagesCounter
              => Taken' = Taken
BY DEF Target, Bounded, Taken

\* Nothing of what AcqInv speaks of changes for the worse.
LEMMA AcqUnchanged ==
  ASSUME AcqInv, UNCHANGED <<startEvent, w>>, Held' = Held,
         running' => running, camera' => camera,
         params'.ADImageMode = params.ADImageMode, params'.ADNumImages = params.ADNumImages,
         params'.ADNumImagesCounter = params.ADNumImagesCounter,
         params'.ADAcquire = params.ADAcquire, params'.ADStatus = params.ADStatus
  PROVE  AcqInv'
<1>1. Target' = Target /\ Bounded' = Bounded /\ Taken' = Taken
  BY AcqQuantities
<1> QED BY <1>1 DEF AcqInv, RestInv, StartInv, GrabInv, DrainInv, Collecting

\* The board fills free buffers only.
LEMMA BoardKeepsHeld == ASSUME BoardTypeOK, Board PROVE Held' = Held
BY DEF Board, FrameDone, Overrun, SpontaneousAbort, Held, BoardTypeOK

LEMMA AcqBoard ==
  ASSUME BoardTypeOK, AcqInv, Board, UNCHANGED driverVars
  PROVE  AcqInv'
<1>1. UNCHANGED <<params, startEvent, w, camera>> /\ (running' => running)
  BY DEF Board, FrameDone, Overrun, SpontaneousAbort, driverVars
<1> QED BY <1>1, BoardKeepsHeld, AcqUnchanged

\* A start from rest, with buffers or without.
LEMMA AcqStart ==
  ASSUME DriverTypeOK, AcqInv, params.ADAcquire = 0,
         params' = [params EXCEPT !.ADAcquire = 1], startEvent', UNCHANGED w, Held' = Held
  PROVE  AcqInv'
<1>1. params'.ADAcquire = 1 /\ w'.pc = "idle" /\ Held' = {}
  BY DEF AcqInv, RestInv, DriverTypeOK, Params
<1> QED BY <1>1 DEF AcqInv, RestInv, StartInv, GrabInv, DrainInv, Collecting

\* At rest the parameters may change, and the board be taken away.
LEMMA AcqAtRest ==
  ASSUME AcqInv, params.ADAcquire = 0, params'.ADAcquire = 0,
         params'.ADStatus = params.ADStatus, UNCHANGED <<startEvent, w>>, Held' = {},
         ~running', "command" \notin Faults => ~camera'
  PROVE  AcqInv'
BY DEF AcqInv, RestInv, StartInv, GrabInv, DrainInv, Collecting

\* What an orderly client does: it starts, and changes parameters, from rest.
LEMMA OrderlyClient ==
  ASSUME Orderly, Client
  PROVE  \/ params.ADAcquire = 0
         \/ WriteParam /\ params' = [params EXCEPT !.NDArrayCallbacks = ~@]
BY DEF Orderly, Client, WriteStart, WriteStop, WriteParam, ClientMay

LEMMA AcqClient ==
  ASSUME Orderly, BoardTypeOK, DriverTypeOK, AcqInv, Client
  PROVE  AcqInv'
<1>0. params \in Params
  BY DEF DriverTypeOK
<1>1. CASE WriteParam /\ params' = [params EXCEPT !.NDArrayCallbacks = ~@]
  <2>1. UNCHANGED <<bufStatus, startEvent, w, running, camera>>
    BY <1>1 DEF WriteParam, boardVars
  <2>2. /\ params'.ADImageMode = params.ADImageMode /\ params'.ADNumImages = params.ADNumImages
        /\ params'.ADNumImagesCounter = params.ADNumImagesCounter
        /\ params'.ADAcquire = params.ADAcquire /\ params'.ADStatus = params.ADStatus
    BY <1>0, <1>1 DEF Params
  <2>3. Held' = Held
    BY <2>1 DEF Held
  <2> QED BY <2>1, <2>2, <2>3, AcqUnchanged
<1>2. CASE params.ADAcquire = 0 /\ WriteParam
  <2>1. /\ UNCHANGED <<bufStatus, startEvent, w, running, camera>>
        /\ params'.ADAcquire = 0 /\ params'.ADStatus = params.ADStatus
    BY <1>0, <1>2 DEF WriteParam, boardVars, Params
  <2>2. Held' = {} /\ ~running' /\ ("command" \notin Faults => ~camera')
    BY <1>2, <2>1 DEF AcqInv, RestInv, Held
  <2> QED BY <1>2, <2>1, <2>2, AcqAtRest
<1>3. CASE params.ADAcquire = 0 /\ WriteStop
  <2>1. /\ UNCHANGED <<bufStatus, startEvent, w>> /\ ~running'
        /\ params'.ADAcquire = 0 /\ params'.ADStatus = params.ADStatus
        /\ camera' = FALSE \/ "command" \in Faults
    BY <1>0, <1>3 DEF WriteStop, StopCapture, CirAbort, CameraCommand, Params
  <2>2. Held' = {}
    BY <1>3, <2>1 DEF AcqInv, RestInv, Held
  <2> QED BY <1>3, <2>1, <2>2, AcqAtRest
<1>4. CASE params.ADAcquire = 0 /\ WriteStart
  <2>1. /\ startEvent' /\ UNCHANGED w /\ params' = [params EXCEPT !.ADAcquire = 1]
        /\ CirStart
    BY <1>4 DEF WriteStart, StartCapture
  <2>2. Held' = Held
    BY <2>1 DEF CirStart, Held, BoardTypeOK
  <2> QED BY <1>4, <2>1, <2>2, AcqStart
<1> QED BY <1>1, <1>2, <1>3, <1>4, OrderlyClient DEF Client

\* A thread that has a message works on a held buffer, so there is an acquisition.
LEMMA BusyWhileHeld ==
  ASSUME DriverTypeOK, Ownership, AcqInv, NEW t \in Threads, p[t].pc # "receive"
  PROVE  /\ p[t].msg.buf \in Held
         /\ params.ADAcquire = 1 /\ ~startEvent /\ w.pc # "woken"
<1>1. p[t].msg.buf \in Held
  BY ThreadElement DEF Ownership, ThreadsPin, Pinned, Held
<1>2. params.ADAcquire \in {0, 1}
  BY DEF DriverTypeOK, Params
<1> QED BY <1>1, <1>2 DEF AcqInv, RestInv, StartInv

\* A frame is counted.  It is one of those the acquisition is to have, and the
\* acquisition ends with the last of them and not before.
LEMMA FrameCounted ==
  ASSUME BoardTypeOK, DriverTypeOK, Ownership, AcqInv, w.imagesCollected \in Nat,
         NEW t \in Threads, SkipCopy(t) \/ FinishCopy(t)
  PROVE  /\ params.ADAcquire = 1 /\ ~startEvent /\ w.pc # "woken"
         /\ UNCHANGED <<startEvent, w>>
         /\ Cardinality(Held') = Cardinality(Held) - 1
         /\ params'.ADImageMode = params.ADImageMode
         /\ params'.ADNumImages = params.ADNumImages
         /\ params'.ADNumImagesCounter = params.ADNumImagesCounter + 1
         /\ Bounded => params'.ADNumImagesCounter <= Target
         /\ \/ /\ Bounded => params'.ADNumImagesCounter < Target
               /\ params'.ADAcquire = 1
            \/ /\ Bounded /\ params'.ADNumImagesCounter = Target
               /\ params'.ADAcquire = 0 /\ params'.ADStatus = "Idle"
               /\ w.pc = "idle" /\ Held' = {}
               /\ ~running' /\ (camera' = FALSE \/ "command" \in Faults)
<1> DEFINE c == params.ADNumImagesCounter
           h == Cardinality(Held)
<1>1. /\ params.ADAcquire = 1 /\ ~startEvent /\ w.pc # "woken" /\ w.pc # "send"
      /\ p[t].msg.buf \in Held
  BY BusyWhileHeld DEF SkipCopy, FinishCopy, LockFree, LockedAt
<1>2. params \in Params /\ c \in Nat /\ Target \in Nat \ {0}
  BY TargetPositive DEF DriverTypeOK, Params
<1>3. PICK par \in Params :
        /\ CompleteFrame(t, par)
        /\ par.ADImageMode = params.ADImageMode /\ par.ADNumImages = params.ADNumImages
        /\ par.ADNumImagesCounter = c /\ par.ADAcquire = 1
  <2>1. [params EXCEPT !.ADStatus = "Readout"] \in Params
    BY <1>2 DEF Params
  <2> QED BY <1>1, <1>2, <2>1 DEF SkipCopy, FinishCopy, Params
<1>4. UNCHANGED <<startEvent, w>>
  BY <1>3 DEF CompleteFrame
<1>5. h \in Nat \ {0} /\ Cardinality(Held') = h - 1 /\ Cardinality(Held') \in Nat
      /\ IsFiniteSet(Held')
  <2>1. Held' = Held \ {p[t].msg.buf}
    BY <1>1, <1>3 DEF CompleteFrame, ReleaseBuffer, Held, BoardTypeOK
  <2> QED BY <1>1, <2>1, HeldFinite, CardinalityRemove, FS_RemoveElement
<1>6. Bounded => c + 1 <= Target /\ (Collecting => c + 1 < Target)
  <2>1. CASE Collecting
    BY <1>1, <1>2, <1>5, <2>1 DEF AcqInv, GrabInv, Taken
  <2>2. CASE ~Collecting
    BY <1>1, <1>2, <1>5, <2>2 DEF AcqInv, DrainInv, Taken, Collecting
  <2> QED BY <2>1, <2>2
<1> DEFINE counted == [par EXCEPT !.NDArrayCounter = par.NDArrayCounter + 1,
                                  !.ADNumImagesCounter = par.ADNumImagesCounter + 1]
<1>7. /\ counted.ADImageMode = params.ADImageMode /\ counted.ADNumImages = params.ADNumImages
      /\ counted.ADNumImagesCounter = c + 1 /\ counted.ADAcquire = 1
      /\ counted \in Params
  <2>1. par.NDArrayCounter + 1 \in Nat /\ par.ADNumImagesCounter + 1 \in Nat
    BY DEF Params
  <2> QED BY <1>3, <2>1 DEF Params
<1>8. LastImage(counted) => Bounded /\ c + 1 >= Target
  BY <1>2, <1>7 DEF LastImage, Bounded, Target, Params, AllImageModes
<1>9. ~LastImage(counted) => (Bounded => c + 1 < Target)
  BY <1>2, <1>7 DEF LastImage, Bounded, Target, Params, AllImageModes
<1>10. \/ LastImage(counted) /\ StopCapture([counted EXCEPT !.ADStatus = "Idle"])
       \/ ~LastImage(counted) /\ params' = counted
  BY <1>3 DEF CompleteFrame
<1> HIDE DEF counted
<1>11. CASE LastImage(counted) /\ StopCapture([counted EXCEPT !.ADStatus = "Idle"])
  <2>1. /\ params'.ADImageMode = params.ADImageMode /\ params'.ADNumImages = params.ADNumImages
        /\ params'.ADNumImagesCounter = c + 1 /\ params'.ADAcquire = 0
        /\ params'.ADStatus = "Idle"
    BY <1>7, <1>11 DEF StopCapture, Params
  <2>2. ~running' /\ (camera' = FALSE \/ "command" \in Faults)
    BY <1>11 DEF StopCapture, CirAbort, CameraCommand
  <2>3. Bounded /\ c + 1 = Target /\ ~Collecting
    BY <1>2, <1>6, <1>8, <1>11
  <2>4. w.pc = "idle"
    BY <1>1, <2>3 DEF Collecting
  <2>5. h = 1
    <3>1. h + c <= Target
      BY <1>1, <2>3, <2>4 DEF AcqInv, DrainInv, Taken
    <3> QED BY <1>2, <1>5, <2>3, <3>1
  <2>6. Held' = {}
    BY <1>5, <2>5, FS_EmptySet
  <2> QED BY <1>1, <1>2, <1>4, <1>5, <2>1, <2>2, <2>3, <2>4, <2>6
<1>12. CASE ~LastImage(counted) /\ params' = counted
  BY <1>1, <1>2, <1>4, <1>5, <1>6, <1>7, <1>9, <1>12
<1> QED BY <1>10, <1>11, <1>12

\* What a processing thread does besides: it takes a message, begins to copy, or gives
\* up a frame whose buffer stays held for good.
LEMMA FrameNotCounted ==
  ASSUME Orderly, NEW t \in Threads, Receive(t) \/ AllocFails(t) \/ NullData(t) \/ BeginCopy(t)
  PROVE  UNCHANGED <<boardVars, params, startEvent, w, uniqueId>>
BY DEF Orderly, Receive, AllocFails, NullData, BeginCopy

LEMMA AcqProcess ==
  ASSUME Orderly, BoardTypeOK, DriverTypeOK, Ownership, AcqInv, w.imagesCollected \in Nat,
         NEW t \in Threads, ProcessImage(t)
  PROVE  AcqInv'
<1>1. CASE Receive(t) \/ AllocFails(t) \/ NullData(t) \/ BeginCopy(t)
  <2>1. UNCHANGED <<boardVars, params, startEvent, w>>
    BY <1>1, FrameNotCounted
  <2> QED BY <2>1, AcqUnchanged DEF boardVars, Held
<1>2. CASE SkipCopy(t) \/ FinishCopy(t)
  <2> DEFINE c == params.ADNumImagesCounter
  <2>0. /\ c \in Nat /\ Cardinality(Held) \in Nat /\ Target \in Nat \ {0}
        /\ Target' = Target /\ Bounded' = Bounded
    BY <1>2, FrameCounted, HeldFinite, TargetPositive, AcqQuantities DEF DriverTypeOK, Params
  <2>1. Taken' = Taken
    <3>1. Cardinality(Held') = Cardinality(Held) - 1 /\ params'.ADNumImagesCounter = c + 1
      BY <1>2, FrameCounted
    <3> QED BY <2>0, <3>1 DEF Taken
  <2>2. GrabInv'
    BY <1>2, <2>0, <2>1, FrameCounted DEF AcqInv, GrabInv, Collecting
  <2>3. DrainInv'
    BY <1>2, <2>0, <2>1, FrameCounted DEF AcqInv, DrainInv
  <2>4. StartInv'
    BY <1>2, FrameCounted DEF AcqInv, StartInv
  <2>5. RestInv'
    <3>1. ~startEvent' /\ w' = w
      BY <1>2, FrameCounted
    <3>2. \/ params'.ADAcquire = 1
          \/ /\ params'.ADAcquire = 0 /\ params'.ADStatus = "Idle"
             /\ w.pc = "idle" /\ Held' = {}
             /\ ~running' /\ (camera' = FALSE \/ "command" \in Faults)
      BY <1>2, FrameCounted
    <3> QED BY <3>1, <3>2 DEF RestInv
  <2> QED BY <2>2, <2>3, <2>4, <2>5 DEF AcqInv
<1> QED BY <1>1, <1>2 DEF ProcessImage

\* The steps of the wait thread, in terms of what those of both builds have in common.
\* The start is seen.
LEMMA AcqSeen ==
  ASSUME AcqInv, w.pc = "idle", startEvent, ~startEvent', w'.pc = "woken",
         UNCHANGED <<params, running, camera>>, Held' = Held
  PROVE  AcqInv'
BY DEF AcqInv, RestInv, StartInv, GrabInv, DrainInv, Collecting

\* The acquisition begins.
LEMMA AcqBegin ==
  ASSUME DriverTypeOK, AcqInv, w.pc = "woken",
         params' = [params EXCEPT !.ADNumImagesCounter = 0, !.ADAcquire = 1,
                                  !.ADStatus = "Waiting"],
         UNCHANGED startEvent, Held' = Held,
         w'.pc \notin {"idle", "woken", "send"}, w'.imageMode = params.ADImageMode,
         w'.numImages = params.ADNumImages, w'.imagesCollected = 0
  PROVE  AcqInv'
<1>1. /\ ~startEvent' /\ Cardinality(Held') = 0
      /\ params'.ADAcquire = 1 /\ params'.ADNumImagesCounter = 0
      /\ params'.ADImageMode = params.ADImageMode /\ params'.ADNumImages = params.ADNumImages
  BY FS_EmptySet DEF AcqInv, StartInv, DriverTypeOK, Params
<1>2. Taken' = 0
  BY <1>1 DEF Taken
<1>3. Target' = Target /\ Target \in Nat \ {0}
  BY <1>1, AcqQuantities, TargetPositive DEF DriverTypeOK
<1> QED BY <1>1, <1>2, <1>3 DEF AcqInv, RestInv, StartInv, GrabInv, DrainInv, Collecting

\* A frame is taken: its buffer is held until it is counted.
LEMMA AcqTake ==
  ASSUME AcqInv, params \in Params, Collecting, w.pc # "send", w'.pc = "send",
         w.imagesCollected \in Nat,
         w'.imageMode = w.imageMode, w'.numImages = w.numImages,
         w'.imagesCollected = w.imagesCollected,
         UNCHANGED <<params, startEvent, running, camera>>,
         Cardinality(Held') = Cardinality(Held) + 1
  PROVE  AcqInv'
<1>1. /\ Cardinality(Held) \in Nat /\ params.ADNumImagesCounter \in Nat
      /\ ~startEvent /\ params.ADAcquire # 0
  BY HeldFinite DEF AcqInv, RestInv, StartInv, Collecting, Params
<1>2. Taken' = Taken + 1
  BY <1>1 DEF Taken
<1>3. Taken = w.imagesCollected
  BY DEF AcqInv, GrabInv
<1>4. Target' = Target /\ Bounded' = Bounded
  BY AcqQuantities
<1>5. GrabInv'
  BY <1>2, <1>3, <1>4 DEF AcqInv, GrabInv
<1> QED BY <1>1, <1>5 DEF AcqInv, RestInv, StartInv, DrainInv, Collecting

\* The status of the driver changes, but for the rest the acquisition goes on.
LEMMA AcqGoesOn ==
  ASSUME AcqInv, DriverTypeOK, Collecting, w.pc # "send", w'.pc \notin {"idle", "woken", "send"},
         w'.imageMode = w.imageMode, w'.numImages = w.numImages,
         w'.imagesCollected = w.imagesCollected,
         NEW s, params' = [params EXCEPT !.ADStatus = s] \/ UNCHANGED params,
         UNCHANGED startEvent, Held' = Held
  PROVE  AcqInv'
<1>1. /\ params'.ADImageMode = params.ADImageMode /\ params'.ADNumImages = params.ADNumImages
      /\ params'.ADNumImagesCounter = params.ADNumImagesCounter
      /\ params'.ADAcquire = params.ADAcquire
  BY DEF DriverTypeOK, Params
<1>2. Taken' = Taken /\ Target' = Target /\ Bounded' = Bounded
  BY <1>1, AcqQuantities
<1> QED BY <1>1, <1>2 DEF AcqInv, RestInv, StartInv, GrabInv, DrainInv, Collecting

\* The frame in hand is sent; its acquisition wants another one.
LEMMA AcqSent ==
  ASSUME AcqInv, DriverTypeOK, w.pc = "send", w'.pc \notin {"idle", "woken", "send"},
         w.imagesCollected \in Nat,
         w'.imageMode = w.imageMode, w'.numImages = w.numImages,
         w'.imagesCollected = w.imagesCollected + 1,
         ~(\/ w.imageMode = "Single"
           \/ w.imageMode = "Multiple" /\ w.imagesCollected + 1 >= w.numImages),
         NEW s, params' = [params EXCEPT !.ADStatus = s],
         UNCHANGED startEvent, Held' = Held
  PROVE  AcqInv'
<1>1. /\ params'.ADImageMode = params.ADImageMode /\ params'.ADNumImages = params.ADNumImages
      /\ params'.ADNumImagesCounter = params.ADNumImagesCounter
      /\ params'.ADAcquire = params.ADAcquire
      /\ params.ADNumImages \in Nat /\ params.ADImageMode \in AllImageModes
  BY DEF DriverTypeOK, Params
<1>2. Taken' = Taken /\ Target' = Target /\ Bounded' = Bounded
  BY <1>1, AcqQuantities
<1>3. Bounded => w.imagesCollected + 1 < Target
  BY <1>1 DEF Bounded, Target, AllImageModes, AcqInv, GrabInv, Collecting
<1>4. GrabInv'
  BY <1>1, <1>2, <1>3 DEF AcqInv, GrabInv, Collecting
<1> QED BY <1>1, <1>4 DEF AcqInv, RestInv, StartInv, DrainInv, Collecting

\* The wait thread takes no more frames of this acquisition: the last one was sent, or
\* no more will come.
LEMMA AcqNoMore ==
  ASSUME AcqInv, DriverTypeOK, Collecting, w'.pc = "idle", w.imagesCollected \in Nat,
         NEW s, params' = [params EXCEPT !.ADStatus = s],
         UNCHANGED startEvent, Held' = Held
  PROVE  AcqInv'
<1>1. /\ params'.ADImageMode = params.ADImageMode /\ params'.ADNumImages = params.ADNumImages
      /\ params'.ADNumImagesCounter = params.ADNumImagesCounter
      /\ params'.ADAcquire = params.ADAcquire /\ params.ADAcquire # 0 /\ ~startEvent
  BY DEF DriverTypeOK, Params, AcqInv, RestInv, StartInv, Collecting
<1>2. Taken' = Taken /\ Target' = Target /\ Bounded' = Bounded
  BY <1>1, AcqQuantities
<1>3. Target \in Nat /\ (Bounded => Taken <= Target)
  BY TargetPositive DEF AcqInv, GrabInv, DriverTypeOK
<1>4. DrainInv'
  BY <1>2, <1>3 DEF DrainInv
<1> QED BY <1>1, <1>4 DEF AcqInv, RestInv, StartInv, GrabInv, Collecting

\* stopCapture when no frame was taken.
LEMMA AcqStopped ==
  ASSUME AcqInv, DriverTypeOK, Collecting, w'.pc = "idle", Held = {}, Held' = Held,
         StopCapture([params EXCEPT !.ADStatus = "Idle"]), UNCHANGED startEvent
  PROVE  AcqInv'
<1>1. params'.ADAcquire = 0 /\ params'.ADStatus = "Idle"
  BY DEF StopCapture, DriverTypeOK, Params
<1>2. ~running' /\ (camera' = FALSE \/ "command" \in Faults) /\ ~startEvent'
  BY DEF StopCapture, CirAbort, CameraCommand, AcqInv, StartInv, Collecting
<1> QED BY <1>1, <1>2 DEF AcqInv, RestInv, StartInv, GrabInv, DrainInv, Collecting

LEMMA AcqInit == DriverInit /\ w.pc = "idle" => AcqInv
<1> SUFFICES ASSUME DriverInit, w.pc = "idle" PROVE AcqInv
  OBVIOUS
<1>1. /\ params.ADAcquire = 0 /\ params.ADStatus = "Idle"
      /\ ~startEvent /\ ~running /\ ~camera /\ Held = {}
  BY DEF DriverInit, BoardInit, Held
<1> QED BY <1>1 DEF AcqInv, RestInv, StartInv, GrabInv, DrainInv, Collecting
=============================================================================
