------------------------ MODULE ADBitFlowWinFlowProofs ------------------------
(***************************************************************************)
(* Proofs about the frames of ADBitFlowWin: how many buffers the frames    *)
(* under way occupy, that the driver is a FrameFlow, and the order in      *)
(* which the plugins get the frames.                                       *)
(***************************************************************************)
EXTENDS ADBitFlowWinProofs

-----------------------------------------------------------------------------
\* Which steps change what is held, numbered, counted or delivered.

\* The thread counts its frame and gives the buffer back.
Completes(t) == SkipCopy(t) \/ FinishCopy(t)

Others ==
  \/ Board /\ UNCHANGED driverVars
  \/ Client
  \/ TakeEvent \/ BeginGrab \/ WaitDoneFrame \/ SendMessage
  \/ GotStopped \/ GotAborted \/ GotError
  \/ \E t \in Threads : Receive(t) \/ AllocFails(t) \/ NullData(t) \/ BeginCopy(t)
  \/ UNCHANGED vars

LEMMA StepCases ==
  [Next]_vars => HoldFrame \/ (\E t \in Threads : Completes(t)) \/ Others
BY DEF Next, WaitImage, ProcessImage, Completes, Others

\* HoldFrame holds one buffer more; until then not every buffer was held.
LEMMA HoldFrameHolds ==
  ASSUME TypeOK, OneOwner, HoldFrame
  PROVE  /\ Cardinality(Held') = Cardinality(Held) + 1
         /\ Cardinality(Held) < NumBuffers
<1> DEFINE b == w.handle.buf
<1>1. b \in Buffers /\ bufStatus[b] = "RETURNED"
  BY DEF HoldFrame, TypeOK, WaitThread, Handles, OneOwner, ReturnedIntact
<1>2. Held' = Held \cup {b} /\ b \notin Held
  BY <1>1 DEF HoldFrame, Held, TypeOK, BoardTypeOK
<1>3. Cardinality(Held') = Cardinality(Held) + 1
  BY <1>2, HeldFinite, CardinalityAdd
<1>4. Cardinality(Held) < Cardinality(Buffers)
  <2>1. IsFiniteSet(Buffers) /\ Cardinality(Buffers) \in Nat /\ Held \in SUBSET Buffers
    BY PoolsAssumption, FS_CardinalityType DEF Held
  <2>2. /\ Cardinality(Held) <= Cardinality(Buffers)
        /\ Cardinality(Buffers) = Cardinality(Held) => Buffers = Held
    BY <2>1, FS_Subset
  <2> QED BY <1>1, <1>2, <2>1, <2>2, HeldFinite
<1> QED BY <1>3, <1>4, PoolsAssumption

\* A completed frame frees its buffer and is counted.
LEMMA CompletesFrees ==
  ASSUME TypeOK, OneOwner, NEW t \in Threads, Completes(t)
  PROVE  /\ Cardinality(Held) > 0
         /\ Cardinality(Held') = Cardinality(Held) - 1
         /\ params'.NDArrayCounter = params.NDArrayCounter + 1
         /\ UNCHANGED uniqueId
<1>1. PICK par \in Params : /\ CompleteFrame(t, par)
                            /\ par.NDArrayCounter = params.NDArrayCounter
  <2>1. params \in Params /\ [params EXCEPT !.ADStatus = "Readout"] \in Params
    BY DEF TypeOK, DriverTypeOK, Params
  <2>2. [params EXCEPT !.ADStatus = "Readout"].NDArrayCounter = params.NDArrayCounter
    BY <2>1 DEF Params
  <2> QED BY <2>1, <2>2 DEF Completes, SkipCopy, FinishCopy
<1> DEFINE b == p[t].msg.buf
<1>2. p[t].pc # "receive"
  BY DEF Completes, SkipCopy, FinishCopy
<1>3. b \in Buffers /\ bufStatus[b] = "HOLD"
  BY <1>2 DEF TypeOK, DriverTypeOK, Messages, OneOwner, Ownership, ThreadsPin, Pinned
<1>4. Held' = Held \ {b} /\ b \in Held
  BY <1>1, <1>3 DEF CompleteFrame, ReleaseBuffer, Held, TypeOK, BoardTypeOK
<1>5. params'.NDArrayCounter = params.NDArrayCounter + 1 /\ UNCHANGED uniqueId
  BY <1>1 DEF CompleteFrame, StopCapture, Params
<1>6. /\ Cardinality(Held) \in Nat \ {0}
      /\ Cardinality(Held') = Cardinality(Held) - 1
  BY <1>4, HeldFinite, CardinalityRemove
<1> QED BY <1>5, <1>6

\* No other step changes any of it: what the board and waitDoneFrame do concerns
\* buffers that are not held.
LEMMA OthersHoldNothing ==
  ASSUME TypeOK, OneOwner, Others
  PROVE  /\ Held' = Held
         /\ UNCHANGED <<uniqueId, delivered>>
         /\ params'.NDArrayCounter = params.NDArrayCounter
<1> USE DEF TypeOK, BoardTypeOK, DriverTypeOK, Params
<1>1. CASE Board /\ UNCHANGED driverVars
  BY <1>1 DEF Board, FrameDone, Overrun, SpontaneousAbort, driverVars, Held
<1>2. CASE Client
  BY <1>2 DEF Client, WriteStart, WriteStop, WriteParam, StartCapture, CirStart, StopCapture,
              boardVars, Held
<1>3. CASE WaitDoneFrame
  <2>1. CASE ReturnFrame
    <3>1. Head(doneQ) \in Buffers /\ bufStatus[Head(doneQ)] = "DONE"
      BY <2>1 DEF ReturnFrame, OneOwner, Ownership, BoardQueueDistinct
    <3> QED BY <1>3, <2>1, <3>1 DEF WaitDoneFrame, ReturnFrame, Held
  <2> QED BY <1>3, <2>1 DEF WaitDoneFrame, ReturnEvent, boardVars, Held
<1>4. CASE TakeEvent \/ BeginGrab \/ SendMessage \/ GotStopped \/ GotAborted \/ GotError
  <2>1. UNCHANGED <<bufStatus, uniqueId, delivered>>
    BY <1>4 DEF TakeEvent, BeginGrab, SendMessage, GotStopped, GotAborted, GotError, boardVars
  <2>2. params'.NDArrayCounter = params.NDArrayCounter
    <3>1. CASE TakeEvent \/ BeginGrab \/ SendMessage
      BY <3>1 DEF TakeEvent, BeginGrab, SendMessage
    <3>2. CASE GotStopped \/ GotAborted \/ GotError
      BY <3>2 DEF GotStopped, GotAborted, GotError, StopCapture
    <3> QED BY <1>4, <3>1, <3>2
  <2> QED BY <2>1, <2>2 DEF Held
<1>5. CASE \E t \in Threads : Receive(t) \/ AllocFails(t) \/ NullData(t) \/ BeginCopy(t)
  BY <1>5 DEF Receive, AllocFails, NullData, BeginCopy, boardVars, Held
<1>6. CASE UNCHANGED vars
  BY <1>6 DEF vars, boardVars, driverVars, Held
<1> QED BY <1>1, <1>2, <1>3, <1>4, <1>5, <1>6 DEF Others

-----------------------------------------------------------------------------
\* Counted frames and buffers.

LEMMA HeldInit == Init => Held = {}
BY DEF Init, DriverInit, BoardInit, Held

LEMMA CountedStep ==
  TypeOK /\ OneOwner /\ CountedFramesFreeBuffers /\ [Next]_vars
    => CountedFramesFreeBuffers'
<1> SUFFICES ASSUME TypeOK, OneOwner, CountedFramesFreeBuffers, [Next]_vars
             PROVE  CountedFramesFreeBuffers'
  OBVIOUS
<1> USE DEF CountedFramesFreeBuffers
<1>0. uniqueId \in Nat /\ params.NDArrayCounter \in Nat /\ Cardinality(Held) \in Nat
  BY HeldFinite DEF TypeOK, DriverTypeOK, Params
<1>1. CASE HoldFrame
  BY <1>0, <1>1, HoldFrameHolds DEF HoldFrame
<1>2. CASE \E t \in Threads : Completes(t)
  BY <1>0, <1>2, CompletesFrees
<1>3. CASE Others
  BY <1>3, OthersHoldNothing
<1> QED BY <1>1, <1>2, <1>3, StepCases

\* A counted frame has given its buffer back: the board misses at most one buffer for
\* each frame that was numbered and not counted.
THEOREM FramesNeedBuffers == Spec => []CountedFramesFreeBuffers
<1>1. Init => CountedFramesFreeBuffers
  <2> SUFFICES ASSUME Init PROVE CountedFramesFreeBuffers
    OBVIOUS
  <2>1. uniqueId = 0 /\ params.NDArrayCounter = 0
    BY DEF Init, DriverInit
  <2>2. Cardinality(Held) = 0
    BY HeldInit, FS_EmptySet
  <2> QED BY <2>1, <2>2 DEF CountedFramesFreeBuffers
<1>2. TypeInv /\ OneOwner /\ CountedFramesFreeBuffers /\ [Next]_vars
        => (TypeInv /\ OneOwner /\ CountedFramesFreeBuffers)'
  BY TypeStep, OwnerStep, CountedStep DEF TypeInv
<1> QED BY TypeInit, OwnerInit, <1>1, <1>2, PTL DEF Spec

-----------------------------------------------------------------------------
\* The numbers of the frames.  A message carries two: the driver's id and the
\* board's frame number.

\* Ids below Sent have been sent to the queue.
Sent == IF w.pc = "send" THEN uniqueId - 1 ELSE uniqueId

\* A message with these numbers is ahead of all that is not in the queue yet.
Passed(id, frame) ==
  /\ id < Sent
  /\ frame <= frameCount
  /\ w.handle # None => frame < w.handle.frame
  /\ \A i \in 1 .. Len(doneQ) : frame < content[doneQ[i]]

Precedes(a, b) == a.uniqueId < b.uniqueId /\ a.frame < b.frame

Busy == {t \in Threads : p[t].pc # "receive"}

\* Filled buffers are returned in the order of their frames.
BoardOrder ==
  /\ \A i \in 1 .. Len(doneQ) : content[doneQ[i]] <= frameCount
  /\ \A i, j \in 1 .. Len(doneQ) : i < j => content[doneQ[i]] < content[doneQ[j]]
  /\ w.handle # None =>
       /\ w.handle.frame <= frameCount
       /\ \A i \in 1 .. Len(doneQ) : w.handle.frame < content[doneQ[i]]

QueueOrder ==
  /\ \A i \in 1 .. Len(msgQ) : Passed(msgQ[i].uniqueId, msgQ[i].frame)
  /\ \A i, j \in 1 .. Len(msgQ) : i < j => Precedes(msgQ[i], msgQ[j])

ThreadOrder ==
  \A t \in Busy :
    /\ Passed(p[t].msg.uniqueId, p[t].msg.frame)
    /\ \A i \in 1 .. Len(msgQ) : Precedes(p[t].msg, msgQ[i])
    /\ \A u \in Busy \ {t} : p[u].msg.uniqueId # p[t].msg.uniqueId

DeliveredOnce ==
  \A k \in 1 .. Len(delivered) :
    /\ Passed(delivered[k].uniqueId, delivered[k].frame)
    /\ \A i \in 1 .. Len(msgQ) : Precedes(delivered[k], msgQ[i])
    /\ \A t \in Busy : delivered[k].uniqueId # p[t].msg.uniqueId

\* No two frames under way or delivered have the same id, and up to receive()
\* they are in order.
Numbering == BoardOrder /\ QueueOrder /\ ThreadOrder /\ DeliveredOnce

\* With one thread this goes on until the delivery.
DeliveryOrder ==
  /\ DeliveredInOrder
  /\ \A k \in 1 .. Len(delivered), t \in Busy : Precedes(delivered[k], p[t].msg)

Fills(b) == FrameDone(b) /\ UNCHANGED driverVars

\* Steps that neither take a frame from the board nor send one.
LEMMA FrontKept ==
  ASSUME TypeInv, [Next]_vars,
         ~(\E b \in Buffers : Fills(b)), ~WriteStart,
         ~(WaitDoneFrame /\ ReturnFrame), ~SendMessage
  PROVE  UNCHANGED <<doneQ, content, frameCount, w.handle, Sent>>
<1> USE DEF TypeInv, TypeOK, WaitThread, Sent
<1>1. CASE Board /\ UNCHANGED driverVars
  BY <1>1 DEF Board, Fills, Overrun, SpontaneousAbort, driverVars
<1>2. CASE WriteStop \/ WriteParam
  BY <1>2 DEF WriteStop, WriteParam, boardVars
<1>3. CASE WaitDoneFrame
  <2>1. UNCHANGED <<doneQ, content, frameCount, uniqueId>>
    BY <1>3 DEF WaitDoneFrame, ReturnEvent, boardVars
  <2>2. w'.handle = w.handle /\ w'.pc = "got" /\ w.pc = "waitFrame"
    BY <1>3 DEF WaitDoneFrame
  <2> QED BY <2>1, <2>2
<1>4. CASE HoldFrame
  <2>1. w'.handle = w.handle /\ w'.pc = "send" /\ w.pc = "got" /\ uniqueId' = uniqueId + 1
    BY <1>4 DEF HoldFrame
  <2>2. uniqueId \in Nat
    BY DEF DriverTypeOK
  <2> QED BY <1>4, <2>1, <2>2 DEF HoldFrame
<1>5. CASE TakeEvent \/ BeginGrab \/ GotStopped \/ GotAborted \/ GotError
  <2>1. w'.handle = w.handle /\ w'.pc # "send" /\ w.pc # "send"
    BY <1>5 DEF TakeEvent, BeginGrab, GotStopped, GotAborted, GotError
  <2>2. UNCHANGED <<doneQ, content, frameCount, uniqueId>>
    BY <1>5 DEF TakeEvent, BeginGrab, GotStopped, GotAborted, GotError, boardVars
  <2> QED BY <2>1, <2>2
<1>6. ASSUME NEW t \in Threads, ProcessImage(t) PROVE UNCHANGED <<doneQ, content, frameCount, w, uniqueId>>
  BY <1>6 DEF ProcessImage, Receive, AllocFails, NullData, BeginCopy, SkipCopy, FinishCopy,
              CompleteFrame, boardVars
<1>7. CASE UNCHANGED vars
  BY <1>7 DEF vars, boardVars, driverVars
<1> QED BY <1>1, <1>2, <1>3, <1>4, <1>5, <1>6, <1>7 DEF Next, Client, WaitImage

\* Taking frames from the board and sending them keeps the board's order, and
\* what was ahead of them stays ahead.
LEMMA FrontStep ==
  ASSUME TypeInv, OneOwner, BoardOrder, [Next]_vars
  PROVE  /\ BoardOrder'
         /\ \A n, f \in Nat : Passed(n, f) => Passed(n, f)'
<1> USE DEF TypeInv, TypeOK, BoardTypeOK
<1> DEFINE Goal == BoardOrder' /\ \A n, f \in Nat : Passed(n, f) => Passed(n, f)'
<1>0. /\ frameCount \in Nat /\ Len(doneQ) \in Nat
      /\ w.handle # None => w.handle.frame \in Nat
      /\ \A i \in 1 .. Len(doneQ) : doneQ[i] \in Buffers /\ content[doneQ[i]] \in Nat
  BY DEF WaitThread, Handles
<1>1. ASSUME NEW b \in Buffers, Fills(b) PROVE Goal
  <2>1. /\ Len(doneQ') = Len(doneQ) + 1
        /\ \A i \in 1 .. Len(doneQ) :
             doneQ'[i] = doneQ[i] /\ content'[doneQ[i]] = content[doneQ[i]]
        /\ content'[doneQ'[Len(doneQ) + 1]] = frameCount + 1
        /\ frameCount' = frameCount + 1
    <3>1. \A i \in 1 .. Len(doneQ) : doneQ[i] \in Buffers \ {b}
      BY <1>1 DEF Fills, FrameDone, OneOwner, Ownership, BoardQueueDistinct
    <3>2. doneQ' = Append(doneQ, b) /\ content' = [content EXCEPT ![b] = frameCount + 1]
      BY <1>1 DEF Fills, FrameDone
    <3>3. doneQ'[Len(doneQ) + 1] = b /\ content'[b] = frameCount + 1
      BY <3>2
    <3> QED BY <1>1, <3>1, <3>2, <3>3 DEF Fills, FrameDone
  <2>2. \A i \in 1 .. Len(doneQ') : i \in 1 .. Len(doneQ) \/ i = Len(doneQ) + 1
    BY <1>0, <2>1
  <2>3. UNCHANGED <<w, Sent>>
    BY <1>1 DEF Fills, driverVars, Sent
  <2>4. BoardOrder'
    <3> HIDE DEF TypeInv, TypeOK, BoardTypeOK
    <3>1. \A i \in 1 .. Len(doneQ') : content'[doneQ'[i]] <= frameCount'
      BY <1>0, <2>1, <2>2 DEF BoardOrder
    <3>2. ASSUME NEW i \in 1 .. Len(doneQ'), NEW j \in 1 .. Len(doneQ'), i < j
          PROVE  content'[doneQ'[i]] < content'[doneQ'[j]]
      <4>1. i \in 1 .. Len(doneQ)
        BY <1>0, <2>1, <3>2
      <4>2. CASE j \in 1 .. Len(doneQ)
        BY <2>1, <3>2, <4>1, <4>2 DEF BoardOrder
      <4>3. CASE j = Len(doneQ) + 1
        <5>1. content[doneQ[i]] <= frameCount
          BY <4>1 DEF BoardOrder
        <5> QED BY <1>0, <2>1, <4>1, <4>3, <5>1
      <4> QED BY <2>2, <4>2, <4>3
    <3>3. ASSUME w'.handle # None
          PROVE  /\ w'.handle.frame <= frameCount'
                 /\ \A i \in 1 .. Len(doneQ') : w'.handle.frame < content'[doneQ'[i]]
      <4>1. w.handle # None /\ w'.handle = w.handle /\ w.handle.frame \in Nat
        BY <1>0, <2>3, <3>3
      <4> QED BY <1>0, <2>1, <2>2, <4>1 DEF BoardOrder
    <3> QED BY <3>1, <3>2, <3>3 DEF BoardOrder
  <2>5. \A n, f \in Nat : Passed(n, f) => Passed(n, f)'
    BY <1>0, <2>1, <2>2, <2>3 DEF Passed
  <2> QED BY <2>4, <2>5
<1>2. CASE WriteStart
  <2>1. UNCHANGED <<w, Sent, content, frameCount>> /\ (doneQ' = doneQ \/ doneQ' = <<>>)
    BY <1>2 DEF WriteStart, StartCapture, CirStart, Sent
  <2> QED BY <2>1 DEF BoardOrder, Passed
<1>3. CASE WaitDoneFrame /\ ReturnFrame
  <2>1. /\ w'.handle = [buf |-> Head(doneQ), frame |-> content[Head(doneQ)]]
        /\ w'.pc = "got" /\ w.pc = "waitFrame"
    <3>1. doneQ' # doneQ
      BY <1>3 DEF ReturnFrame
    <3>2. w' = [w EXCEPT !.pc = "got", !.status = "OK",
                  !.handle = [buf |-> Head(doneQ), frame |-> content[Head(doneQ)]]]
      BY <1>3, <3>1 DEF WaitDoneFrame, ReturnEvent, boardVars
    <3> QED BY <1>3, <3>2 DEF WaitDoneFrame, WaitThread
  <2>2. UNCHANGED <<Sent, content, frameCount>>
    BY <1>3, <2>1 DEF WaitDoneFrame, ReturnFrame, Sent
  <2>3. /\ 1 \in 1 .. Len(doneQ) /\ Head(doneQ) = doneQ[1]
        /\ Len(doneQ') = Len(doneQ) - 1
        /\ \A i \in 1 .. Len(doneQ') :
             doneQ'[i] = doneQ[i + 1] /\ i + 1 \in 1 .. Len(doneQ) /\ 1 < i + 1
    BY <1>0, <1>3 DEF ReturnFrame
  <2>4. w'.handle.frame = content[doneQ[1]]
    BY <2>1, <2>3
  <2>5. BoardOrder'
    <3>1. \A i \in 1 .. Len(doneQ') : content[doneQ[1]] < content[doneQ[i + 1]]
      BY <1>0, <2>3 DEF BoardOrder
    <3>2. ASSUME NEW i \in 1 .. Len(doneQ'), NEW j \in 1 .. Len(doneQ'), i < j
          PROVE  content[doneQ[i + 1]] < content[doneQ[j + 1]]
      <4>1. i + 1 < j + 1
        BY <3>2
      <4> QED BY <2>3, <4>1 DEF BoardOrder
    <3>3. content[doneQ[1]] <= frameCount
      BY <2>3 DEF BoardOrder
    <3> QED BY <2>2, <2>3, <2>4, <3>1, <3>2, <3>3 DEF BoardOrder
  <2>6. \A n, f \in Nat : Passed(n, f) => Passed(n, f)'
    BY <2>2, <2>3, <2>4 DEF Passed
  <2> QED BY <2>5, <2>6
<1>4. CASE SendMessage
  <2>1. UNCHANGED <<doneQ, content, frameCount>> /\ w'.handle = None
    BY <1>4 DEF SendMessage, WaitThread
  <2>2. uniqueId \in Nat /\ Sent = uniqueId - 1 /\ Sent' = uniqueId
    <3>1. w.pc = "send" /\ w'.pc # "send" /\ uniqueId' = uniqueId
      BY <1>4 DEF SendMessage, WaitThread
    <3> QED BY <3>1 DEF Sent, DriverTypeOK
  <2> QED BY <2>1, <2>2 DEF BoardOrder, Passed
<1>5. CASE UNCHANGED <<doneQ, content, frameCount, w.handle, Sent>>
  BY <1>5 DEF BoardOrder, Passed
<1> QED BY <1>1, <1>2, <1>3, <1>4, <1>5, FrontKept

LEMMA NumbersAreNatural ==
  ASSUME TypeOK
  PROVE  /\ \A i \in 1 .. Len(msgQ) : msgQ[i].uniqueId \in Nat /\ msgQ[i].frame \in Nat
         /\ \A t \in Busy : p[t].msg.uniqueId \in Nat /\ p[t].msg.frame \in Nat
         /\ \A k \in 1 .. Len(delivered) :
              delivered[k].uniqueId \in Nat /\ delivered[k].frame \in Nat
<1>1. \A i \in 1 .. Len(msgQ) : msgQ[i] \in Messages
  BY QueueElement DEF TypeOK
<1>2. \A t \in Busy : p[t].msg \in Messages
  BY DEF TypeOK, DriverTypeOK, Busy
<1>3. \A k \in 1 .. Len(delivered) : delivered[k] \in [uniqueId : Nat, frame : Nat, data : Nat]
  <2> DEFINE S == [uniqueId : Nat, frame : Nat, data : Nat]
  <2>1. delivered \in Seq(S)
    BY DEF TypeOK, DriverTypeOK
  <2> HIDE DEF S
  <2>2. \A k \in 1 .. Len(delivered) : delivered[k] \in S
    BY <2>1
  <2> QED BY <2>2 DEF S
<1>4. \A k \in 1 .. Len(delivered) :
        delivered[k].uniqueId \in Nat /\ delivered[k].frame \in Nat
  BY <1>3
<1>5. \A i \in 1 .. Len(msgQ) : msgQ[i].uniqueId \in Nat /\ msgQ[i].frame \in Nat
  BY <1>1 DEF Messages
<1>6. \A t \in Busy : p[t].msg.uniqueId \in Nat /\ p[t].msg.frame \in Nat
  BY <1>2 DEF Messages
<1> QED BY <1>4, <1>5, <1>6

\* What a completed frame changes, in terms of the numbers.
LEMMA CompletesMoves ==
  ASSUME TypeOK, NEW t \in Threads, Completes(t)
  PROVE  /\ t \in Busy /\ Busy' = Busy \ {t}
         /\ UNCHANGED msgQ /\ \A u \in Threads \ {t} : p'[u] = p[u]
         /\ \/ UNCHANGED delivered
            \/ /\ Len(delivered') = Len(delivered) + 1
               /\ \A k \in 1 .. Len(delivered) : delivered'[k] = delivered[k]
               /\ delivered'[Len(delivered) + 1].uniqueId = p[t].msg.uniqueId
               /\ delivered'[Len(delivered) + 1].frame = p[t].msg.frame
<1>1. PICK par : CompleteFrame(t, par)
  BY DEF Completes, SkipCopy, FinishCopy
<1>2. p[t].pc # "receive"
  BY DEF Completes, SkipCopy, FinishCopy
<1>3. p'[t].pc = "receive" /\ \A u \in Threads \ {t} : p'[u] = p[u]
  BY <1>1 DEF CompleteFrame, Deliver, TypeOK, DriverTypeOK
<1>4. t \in Busy /\ Busy' = Busy \ {t}
  BY <1>2, <1>3 DEF Busy
<1>5. \/ UNCHANGED delivered
      \/ delivered' = Append(delivered,
           [uniqueId |-> p[t].msg.uniqueId, frame |-> p[t].msg.frame,
            data |-> content[p[t].msg.buf]])
  BY <1>1 DEF CompleteFrame, Deliver
<1>6. delivered \in Seq([uniqueId : Nat, frame : Nat, data : Nat])
  BY DEF TypeOK, DriverTypeOK
<1>7. UNCHANGED msgQ
  BY <1>1 DEF CompleteFrame
<1>8. CASE UNCHANGED delivered
  BY <1>3, <1>4, <1>7, <1>8
<1>9. CASE ~UNCHANGED delivered
  <2> DEFINE m == [uniqueId |-> p[t].msg.uniqueId, frame |-> p[t].msg.frame,
                   data |-> content[p[t].msg.buf]]
  <2>1. delivered' = Append(delivered, m)
    BY <1>5, <1>9
  <2>2. m.uniqueId = p[t].msg.uniqueId /\ m.frame = p[t].msg.frame
    OBVIOUS
  <2> HIDE DEF m
  <2>3. /\ Len(delivered') = Len(delivered) + 1
        /\ \A k \in 1 .. Len(delivered) : delivered'[k] = delivered[k]
        /\ delivered'[Len(delivered) + 1] = m
    BY <1>6, <2>1
  <2> QED BY <1>3, <1>4, <1>7, <2>2, <2>3
<1> QED BY <1>8, <1>9

\* The steps that move no frame between the queue, the threads and the plugins.
\* A thread that gives up its frame drops it.
LEMMA MovesElsewhere ==
  ASSUME TypeOK, [Next]_vars, ~SendMessage,
         ~(\E t \in Threads : Receive(t) \/ Completes(t))
  PROVE  /\ UNCHANGED <<msgQ, delivered>>
         /\ Busy' \subseteq Busy
         /\ \A t \in Busy' : p'[t].msg = p[t].msg
<1> USE DEF TypeOK, DriverTypeOK, Busy
<1>1. CASE UNCHANGED <<msgQ, delivered, p>>
  BY <1>1
<1>2. ASSUME NEW t \in Threads, AllocFails(t) \/ NullData(t)
      PROVE  UNCHANGED <<msgQ, delivered>> /\ Busy' \subseteq Busy /\ \A u \in Busy' : p'[u] = p[u]
  <2>1. p'[t].pc = "receive" /\ \A u \in Threads \ {t} : p'[u] = p[u]
    BY <1>2 DEF AllocFails, NullData
  <2> QED BY <1>2, <2>1 DEF AllocFails, NullData
<1>3. ASSUME NEW t \in Threads, BeginCopy(t)
      PROVE  UNCHANGED <<msgQ, delivered>> /\ Busy' \subseteq Busy /\ \A u \in Busy' : p'[u].msg = p[u].msg
  <2>1. /\ p[t].pc # "receive" /\ p'[t].msg = p[t].msg
        /\ \A u \in Threads \ {t} : p'[u] = p[u]
    BY <1>3 DEF BeginCopy
  <2> QED BY <1>3, <2>1 DEF BeginCopy
<1>4. CASE (Board /\ UNCHANGED driverVars) \/ UNCHANGED vars
  BY <1>1, <1>4 DEF vars, driverVars
<1>5. CASE Client
  BY <1>1, <1>5 DEF Client, WriteStart, WriteStop, WriteParam
<1>6. CASE WaitImage
  BY <1>1, <1>6 DEF WaitImage, TakeEvent, BeginGrab, WaitDoneFrame, HoldFrame, GotStopped,
                    GotAborted, GotError
<1> QED BY <1>2, <1>3, <1>4, <1>5, <1>6 DEF Next, ProcessImage, Completes

LEMMA NumberingSend ==
  ASSUME TypeInv, OneOwner, Numbering, SendMessage
  PROVE  Numbering'
<1>0. PICK n \in Nat, id \in Nat, frame \in Nat :
        n = Len(msgQ) /\ id = uniqueId - 1 /\ frame = w.handle.frame
  BY DEF TypeInv, TypeOK, SendMessage, DriverTypeOK, WaitThread, Handles
<1>1. BoardOrder' /\ \A i, f \in Nat : Passed(i, f) => Passed(i, f)'
  BY FrontStep DEF Numbering, Next, WaitImage
<1>2. TypeOK /\ uniqueId \in Nat /\ id \in Nat /\ frame \in Nat /\ w.pc = "send" /\ w.handle # None
  BY DEF TypeInv, TypeOK, SendMessage, DriverTypeOK, WaitThread, Handles
<1>3. \A i, f \in Nat : Passed(i, f) => i < id /\ f < frame
  BY <1>0, <1>2 DEF Passed, Sent
<1>4. Passed(id, frame)'
  <2>1. w'.pc # "send" /\ w'.handle = None
    BY DEF SendMessage, TypeInv, TypeOK, WaitThread
  <2>2. UNCHANGED <<uniqueId, frameCount, doneQ, content>>
    BY DEF SendMessage
  <2>3. /\ frame <= frameCount
        /\ \A i \in 1 .. Len(doneQ) : frame < content[doneQ[i]]
    BY <1>0, <1>2 DEF Numbering, BoardOrder
  <2>4. id < uniqueId
    BY <1>0, <1>2
  <2> QED BY <2>1, <2>2, <2>3, <2>4 DEF Passed, Sent
<1>5. /\ UNCHANGED <<p, delivered, Busy>>
      /\ n \in Nat /\ Len(msgQ') = n + 1
      /\ \A i \in 1 .. n : msgQ'[i] = msgQ[i]
      /\ msgQ'[n + 1].uniqueId = id /\ msgQ'[n + 1].frame = frame
  BY <1>0, <1>2 DEF SendMessage, Busy, TypeOK, DriverTypeOK
<1>6. \A i \in 1 .. Len(msgQ') : i \in 1 .. n \/ i = n + 1
  BY <1>5
<1>7. QueueOrder'
  <2>1. \A i \in 1 .. Len(msgQ') : Passed(msgQ[i].uniqueId, msgQ[i].frame)'
    <3>1. ASSUME NEW i \in 1 .. n PROVE Passed(msgQ[i].uniqueId, msgQ[i].frame)'
      <4>1. Passed(msgQ[i].uniqueId, msgQ[i].frame)
        BY <1>0, <3>1 DEF Numbering, QueueOrder
      <4>2. msgQ'[i] = msgQ[i] /\ msgQ[i].uniqueId \in Nat /\ msgQ[i].frame \in Nat
        BY <1>2, <1>5, <3>1, <1>0, NumbersAreNatural
      <4> QED BY <1>1, <4>1, <4>2 DEF Passed
    <3>2. Passed(msgQ[n + 1].uniqueId, msgQ[n + 1].frame)'
      BY <1>4, <1>5 DEF Passed
    <3> QED BY <1>6, <3>1, <3>2
  <2>2. ASSUME NEW i \in 1 .. Len(msgQ'), NEW j \in 1 .. Len(msgQ'), i < j
        PROVE  Precedes(msgQ'[i], msgQ'[j])
    <3>1. i \in 1 .. n
      BY <1>5, <1>6, <2>2
    <3>2. CASE j \in 1 .. n
      BY <1>5, <2>2, <1>0, <3>1, <3>2 DEF Numbering, QueueOrder
    <3>3. CASE j = n + 1
      <4>1. Passed(msgQ[i].uniqueId, msgQ[i].frame)
        BY <1>0, <3>1 DEF Numbering, QueueOrder
      <4>2. msgQ[i].uniqueId < id /\ msgQ[i].frame < frame
        BY <1>2, <1>3, <3>1, <4>1, <1>0, NumbersAreNatural
      <4> QED BY <1>5, <3>1, <3>3, <4>2 DEF Precedes
    <3> QED BY <1>6, <3>2, <3>3
  <2> QED BY <2>1, <2>2 DEF QueueOrder
<1>8. ThreadOrder'
  <2>1. \A t \in Busy : p[t].msg.uniqueId < id /\ p[t].msg.frame < frame
                        /\ Passed(p[t].msg.uniqueId, p[t].msg.frame)'
    <3> SUFFICES ASSUME NEW t \in Busy
                 PROVE  /\ p[t].msg.uniqueId < id /\ p[t].msg.frame < frame
                        /\ Passed(p[t].msg.uniqueId, p[t].msg.frame)'
      OBVIOUS
    <3>1. Passed(p[t].msg.uniqueId, p[t].msg.frame)
      BY DEF Numbering, ThreadOrder
    <3>2. p'[t] = p[t] /\ p[t].msg.uniqueId \in Nat /\ p[t].msg.frame \in Nat
      BY <1>2, <1>5, NumbersAreNatural
    <3> QED BY <1>1, <1>3, <3>1, <3>2 DEF Passed
  <2> QED BY <1>0, <1>5, <1>6, <2>1 DEF Numbering, ThreadOrder, Precedes
<1>9. DeliveredOnce'
  <2>1. \A k \in 1 .. Len(delivered) :
          delivered[k].uniqueId < id /\ delivered[k].frame < frame
          /\ Passed(delivered[k].uniqueId, delivered[k].frame)'
    <3> SUFFICES ASSUME NEW k \in 1 .. Len(delivered)
                 PROVE  /\ delivered[k].uniqueId < id /\ delivered[k].frame < frame
                        /\ Passed(delivered[k].uniqueId, delivered[k].frame)'
      OBVIOUS
    <3>1. Passed(delivered[k].uniqueId, delivered[k].frame)
      BY DEF Numbering, DeliveredOnce
    <3>2. delivered' = delivered /\ delivered[k].uniqueId \in Nat /\ delivered[k].frame \in Nat
      BY <1>2, <1>5, NumbersAreNatural
    <3> QED BY <1>1, <1>3, <3>1, <3>2 DEF Passed
  <2> QED BY <1>0, <1>5, <1>6, <2>1 DEF Numbering, DeliveredOnce, Precedes
<1> QED BY <1>1, <1>7, <1>8, <1>9 DEF Numbering

\* What is ahead stays ahead, wherever it is.
LEMMA PassedStays ==
  ASSUME TypeInv, OneOwner, Numbering, [Next]_vars
  PROVE  /\ TypeOK /\ BoardOrder'
         /\ \A i \in 1 .. Len(msgQ) :
              \A n, f \in Nat : n = msgQ[i].uniqueId /\ f = msgQ[i].frame => Passed(n, f)'
         /\ \A t \in Busy :
              \A n, f \in Nat : n = p[t].msg.uniqueId /\ f = p[t].msg.frame => Passed(n, f)'
         /\ \A k \in 1 .. Len(delivered) :
              \A n, f \in Nat : n = delivered[k].uniqueId /\ f = delivered[k].frame
                                  => Passed(n, f)'
<1>1. TypeOK /\ BoardOrder' /\ \A n, f \in Nat : Passed(n, f) => Passed(n, f)'
  BY FrontStep DEF TypeInv, Numbering
<1>2. ASSUME NEW i \in 1 .. Len(msgQ), NEW n \in Nat, NEW f \in Nat,
             n = msgQ[i].uniqueId, f = msgQ[i].frame
      PROVE  Passed(n, f)'
  BY <1>1, <1>2 DEF Numbering, QueueOrder
<1>3. ASSUME NEW t \in Busy, NEW n \in Nat, NEW f \in Nat,
             n = p[t].msg.uniqueId, f = p[t].msg.frame
      PROVE  Passed(n, f)'
  BY <1>1, <1>3 DEF Numbering, ThreadOrder
<1>4. ASSUME NEW k \in 1 .. Len(delivered), NEW n \in Nat, NEW f \in Nat,
             n = delivered[k].uniqueId, f = delivered[k].frame
      PROVE  Passed(n, f)'
  BY <1>1, <1>4 DEF Numbering, DeliveredOnce
<1> QED BY <1>1, <1>2, <1>3, <1>4

LEMMA NumberingReceive ==
  ASSUME TypeInv, OneOwner, Numbering, NEW t \in Threads, Receive(t)
  PROVE  Numbering'
<1>1. [Next]_vars
  BY DEF Next, ProcessImage
<1>2. TypeOK /\ BoardOrder'
  BY <1>1, PassedStays
<1>3. /\ UNCHANGED delivered
      /\ t \notin Busy /\ Busy' = Busy \cup {t} /\ p'[t].msg = msgQ[1]
      /\ \A u \in Busy : p'[u] = p[u]
  BY <1>2 DEF Receive, Busy, TypeOK, DriverTypeOK
<1>4. /\ 1 \in 1 .. Len(msgQ) /\ Len(msgQ') = Len(msgQ) - 1
      /\ \A i \in 1 .. Len(msgQ') :
           msgQ'[i] = msgQ[i + 1] /\ i + 1 \in 1 .. Len(msgQ) /\ 1 < i + 1
  BY <1>2 DEF Receive, TypeOK, DriverTypeOK
<1>5. QueueOrder'
  <2>1. ASSUME NEW i \in 1 .. Len(msgQ') PROVE Passed(msgQ[i].uniqueId, msgQ[i].frame)'
    <3>1. PICK n, f \in Nat : n = msgQ[i + 1].uniqueId /\ f = msgQ[i + 1].frame
      BY <1>2, <1>4, NumbersAreNatural
    <3>2. Passed(n, f)'
      BY <1>1, <1>4, <3>1, PassedStays
    <3> QED BY <1>4, <3>1, <3>2 DEF Passed
  <2>2. ASSUME NEW i \in 1 .. Len(msgQ'), NEW j \in 1 .. Len(msgQ'), i < j
        PROVE  Precedes(msgQ'[i], msgQ'[j])
    <3>1. i + 1 < j + 1
      BY <2>2
    <3> QED BY <1>4, <3>1 DEF Numbering, QueueOrder
  <2> QED BY <2>1, <2>2 DEF QueueOrder
<1>6. ThreadOrder'
  <2>1. ASSUME NEW u \in Busy' PROVE Passed(p[u].msg.uniqueId, p[u].msg.frame)'
    <3>1. PICK n, f \in Nat : /\ n = p'[u].msg.uniqueId /\ f = p'[u].msg.frame
                              /\ Passed(n, f)'
      <4>1. CASE u = t
        <5>1. PICK n, f \in Nat : n = msgQ[1].uniqueId /\ f = msgQ[1].frame
          BY <1>2, <1>4, NumbersAreNatural
        <5> QED BY <1>1, <1>3, <1>4, <4>1, <5>1, PassedStays
      <4>2. CASE u \in Busy
        <5>1. PICK n, f \in Nat : n = p[u].msg.uniqueId /\ f = p[u].msg.frame
          BY <1>2, <4>2, NumbersAreNatural
        <5> QED BY <1>1, <1>3, <4>2, <5>1, PassedStays
      <4> QED BY <1>3, <4>1, <4>2
    <3> QED BY <3>1 DEF Passed
  <2>2. ASSUME NEW u \in Busy', NEW i \in 1 .. Len(msgQ')
        PROVE  Precedes(p'[u].msg, msgQ'[i])
    BY <1>3, <1>4 DEF Numbering, QueueOrder, ThreadOrder
  <2>3. ASSUME NEW u \in Busy', NEW v \in Busy' \ {u}
        PROVE  p'[v].msg.uniqueId # p'[u].msg.uniqueId
    <3>1. \A s \in Busy : p[s].msg.uniqueId # msgQ[1].uniqueId
      BY <1>2, <1>4, NumbersAreNatural DEF Numbering, ThreadOrder, Precedes
    <3> QED BY <1>3, <3>1 DEF Numbering, ThreadOrder
  <2> QED BY <2>1, <2>2, <2>3 DEF ThreadOrder
<1>7. DeliveredOnce'
  <2>1. ASSUME NEW k \in 1 .. Len(delivered')
        PROVE  Passed(delivered[k].uniqueId, delivered[k].frame)'
    <3>1. PICK n, f \in Nat : n = delivered[k].uniqueId /\ f = delivered[k].frame
      BY <1>2, <1>3, NumbersAreNatural
    <3>2. Passed(n, f)'
      BY <1>1, <1>3, <3>1, PassedStays
    <3> QED BY <1>3, <3>1, <3>2 DEF Passed
  <2>2. ASSUME NEW k \in 1 .. Len(delivered'), NEW i \in 1 .. Len(msgQ')
        PROVE  Precedes(delivered'[k], msgQ'[i])
    BY <1>3, <1>4 DEF Numbering, DeliveredOnce
  <2>3. ASSUME NEW k \in 1 .. Len(delivered'), NEW u \in Busy'
        PROVE  delivered'[k].uniqueId # p'[u].msg.uniqueId
    <3>1. delivered[k].uniqueId # msgQ[1].uniqueId
      BY <1>2, <1>3, <1>4, NumbersAreNatural DEF Numbering, DeliveredOnce, Precedes
    <3> QED BY <1>3, <3>1 DEF Numbering, DeliveredOnce
  <2> QED BY <2>1, <2>2, <2>3 DEF DeliveredOnce
<1> QED BY <1>2, <1>5, <1>6, <1>7 DEF Numbering

\* A thread finishes with its frame, delivered or not; or nothing moves.
LEMMA NumberingElsewhere ==
  ASSUME TypeInv, OneOwner, Numbering, [Next]_vars, UNCHANGED msgQ,
         Busy' \subseteq Busy, \A t \in Busy' : p'[t].msg = p[t].msg,
         \/ UNCHANGED delivered
         \/ \E t \in Busy \ Busy' :
              /\ Len(delivered') = Len(delivered) + 1
              /\ \A k \in 1 .. Len(delivered) : delivered'[k] = delivered[k]
              /\ delivered'[Len(delivered) + 1].uniqueId = p[t].msg.uniqueId
              /\ delivered'[Len(delivered) + 1].frame = p[t].msg.frame
  PROVE  Numbering'
<1>1. TypeOK /\ BoardOrder'
  BY PassedStays
<1>2. QueueOrder'
  <2>1. ASSUME NEW i \in 1 .. Len(msgQ) PROVE Passed(msgQ[i].uniqueId, msgQ[i].frame)'
    <3>1. PICK n, f \in Nat : n = msgQ[i].uniqueId /\ f = msgQ[i].frame
      BY <1>1, NumbersAreNatural
    <3>2. Passed(n, f)'
      BY <3>1, PassedStays
    <3> QED BY <3>1, <3>2 DEF Passed
  <2> QED BY <2>1 DEF Numbering, QueueOrder
<1>3. ThreadOrder'
  <2>1. ASSUME NEW u \in Busy' PROVE Passed(p[u].msg.uniqueId, p[u].msg.frame)'
    <3>1. PICK n, f \in Nat : n = p[u].msg.uniqueId /\ f = p[u].msg.frame
      BY <1>1, NumbersAreNatural
    <3>2. Passed(n, f)'
      BY <3>1, PassedStays
    <3> QED BY <3>1, <3>2 DEF Passed
  <2> QED BY <2>1 DEF Numbering, ThreadOrder
<1>4. DeliveredOnce'
  <2>1. ASSUME NEW k \in 1 .. Len(delivered), delivered'[k] = delivered[k]
        PROVE  /\ Passed(delivered[k].uniqueId, delivered[k].frame)'
               /\ \A i \in 1 .. Len(msgQ') : Precedes(delivered'[k], msgQ'[i])
               /\ \A u \in Busy' : delivered'[k].uniqueId # p'[u].msg.uniqueId
    <3>1. PICK n, f \in Nat : n = delivered[k].uniqueId /\ f = delivered[k].frame
      BY <1>1, NumbersAreNatural
    <3>2. Passed(n, f)'
      BY <3>1, PassedStays
    <3>3. Passed(delivered[k].uniqueId, delivered[k].frame)'
      BY <2>1, <3>1, <3>2 DEF Passed
    <3> QED BY <2>1, <3>3 DEF Numbering, DeliveredOnce
  <2>2. CASE UNCHANGED delivered
    BY <2>1, <2>2 DEF DeliveredOnce
  <2>3. ASSUME NEW t \in Busy \ Busy', NEW m \in Nat, m = Len(delivered) + 1,
               Len(delivered') = m,
               \A k \in 1 .. Len(delivered) : delivered'[k] = delivered[k],
               delivered'[m].uniqueId = p[t].msg.uniqueId,
               delivered'[m].frame = p[t].msg.frame
        PROVE  DeliveredOnce'
    <3>1. PICK n, f \in Nat : n = p[t].msg.uniqueId /\ f = p[t].msg.frame
      BY <1>1, NumbersAreNatural
    <3>2. Passed(n, f)'
      BY <3>1, PassedStays
    <3>3. Passed(delivered[m].uniqueId, delivered[m].frame)'
      BY <2>3, <3>1, <3>2 DEF Passed
    <3>4. \A i \in 1 .. Len(msgQ') : Precedes(delivered'[m], msgQ'[i])
      BY <2>3 DEF Numbering, ThreadOrder, Precedes
    <3>5. \A u \in Busy' : delivered'[m].uniqueId # p'[u].msg.uniqueId
      BY <2>3 DEF Numbering, ThreadOrder
    <3>6. Len(delivered) \in Nat
      BY <1>1 DEF TypeOK, DriverTypeOK
    <3>7. \A k \in 1 .. Len(delivered') : k \in 1 .. Len(delivered) \/ k = m
      BY <2>3, <3>6
    <3> QED BY <2>1, <2>3, <3>3, <3>4, <3>5, <3>7 DEF DeliveredOnce
  <2>4. Len(delivered) + 1 \in Nat
    BY <1>1 DEF TypeOK, DriverTypeOK
  <2> QED BY <2>2, <2>3, <2>4
<1> QED BY <1>1, <1>2, <1>3, <1>4 DEF Numbering

LEMMA NumberingStep == TypeInv /\ OneOwner /\ Numbering /\ [Next]_vars => Numbering'
<1> SUFFICES ASSUME TypeInv, OneOwner, Numbering, [Next]_vars PROVE Numbering'
  OBVIOUS
<1>0. TypeOK
  BY DEF TypeInv
<1>1. CASE SendMessage
  BY <1>1, NumberingSend
<1>2. CASE \E t \in Threads : Receive(t)
  BY <1>2, NumberingReceive
<1>3. ASSUME NEW t \in Threads, Completes(t) PROVE Numbering'
  <2>1. Busy' \subseteq Busy /\ \A u \in Busy' : p'[u].msg = p[u].msg
    BY <1>0, <1>3, CompletesMoves DEF Busy
  <2>2. t \in Busy \ Busy'
    BY <1>0, <1>3, CompletesMoves
  <2> QED BY <1>0, <1>3, <2>1, <2>2, CompletesMoves, NumberingElsewhere
<1>4. CASE ~SendMessage /\ ~(\E t \in Threads : Receive(t) \/ Completes(t))
  BY <1>0, <1>4, MovesElsewhere, NumberingElsewhere
<1> QED BY <1>1, <1>2, <1>3, <1>4

LEMMA NumberingInit == Init => Numbering
<1> SUFFICES ASSUME Init PROVE Numbering
  OBVIOUS
<1>1. doneQ = <<>> /\ msgQ = <<>> /\ delivered = <<>> /\ w.handle = None
  BY DEF Init, DriverInit, BoardInit
<1>2. Busy = {}
  BY DEF Busy, Init, DriverInit
<1> QED BY <1>1, <1>2 DEF Numbering, BoardOrder, QueueOrder, ThreadOrder, DeliveredOnce

\* The invariant the theorems below rest on.
FlowInv == TypeInv /\ OneOwner /\ Numbering

LEMMA FlowInvInductive == (Init => FlowInv) /\ (FlowInv /\ [Next]_vars => FlowInv')
BY TypeInit, OwnerInit, NumberingInit, TypeStep, OwnerStep, NumberingStep
   DEF FlowInv, TypeInv

-----------------------------------------------------------------------------
\* The driver is a FrameFlow.

OutIds == {delivered[i].uniqueId : i \in 1 .. Len(delivered)}

LEMMA FlowInit == Init => Flow!Init
<1> SUFFICES ASSUME Init PROVE Flow!Init
  OBVIOUS
<1>1. uniqueId = 0 /\ delivered = <<>>
  BY DEF Init, DriverInit
<1>2. Cardinality(Held) = 0
  BY HeldInit, FS_EmptySet
<1>3. {delivered[i].uniqueId : i \in 1 .. Len(delivered)} = {}
  BY <1>1
<1> QED BY <1>1, <1>2, <1>3 DEF Flow!Init

\* A completed frame is given out under an id that was not used before, or dropped.
LEMMA CompletesGivesOut ==
  ASSUME FlowInv, NEW t \in Threads, Completes(t)
  PROVE  \/ OutIds' = OutIds
         \/ \E n \in 0 .. uniqueId - 1 : n \notin OutIds /\ OutIds' = OutIds \cup {n}
<1>1. TypeOK /\ uniqueId \in Nat
  BY DEF FlowInv, TypeInv, TypeOK, DriverTypeOK
<1>2. CASE UNCHANGED delivered
  BY <1>2 DEF OutIds
<1>3. CASE /\ Len(delivered') = Len(delivered) + 1
           /\ \A k \in 1 .. Len(delivered) : delivered'[k] = delivered[k]
           /\ delivered'[Len(delivered) + 1].uniqueId = p[t].msg.uniqueId
  <2>1. t \in Busy
    BY <1>1, CompletesMoves
  <2>2. PICK n \in Nat : n = p[t].msg.uniqueId
    BY <1>1, <2>1, NumbersAreNatural
  <2>3. n \in 0 .. uniqueId - 1
    <3>1. n < Sent
      BY <2>1, <2>2 DEF FlowInv, Numbering, ThreadOrder, Passed
    <3>2. Sent <= uniqueId /\ Sent \in Int
      BY <1>1 DEF Sent
    <3> QED BY <1>1, <3>1, <3>2
  <2>4. n \notin OutIds
    BY <2>1, <2>2 DEF FlowInv, Numbering, DeliveredOnce, OutIds
  <2>5. OutIds' = OutIds \cup {n}
    <3>1. Len(delivered) \in Nat
      BY <1>1 DEF TypeOK, DriverTypeOK
    <3>2. 1 .. Len(delivered') = (1 .. Len(delivered)) \cup {Len(delivered) + 1}
      BY <1>3, <3>1
    <3> QED BY <1>3, <2>2, <3>2 DEF OutIds
  <2> QED BY <2>3, <2>4, <2>5
<1> QED BY <1>1, <1>2, <1>3, CompletesMoves

LEMMA FlowStep ==
  FlowInv /\ [Next]_vars => [Flow!Next]_<<uniqueId, Cardinality(Held), OutIds>>
<1> SUFFICES ASSUME FlowInv, [Next]_vars
             PROVE  [Flow!Next]_<<uniqueId, Cardinality(Held), OutIds>>
  OBVIOUS
<1>0. TypeOK /\ OneOwner
  BY DEF FlowInv, TypeInv
<1>1. CASE HoldFrame
  <2>1. uniqueId' = uniqueId + 1 /\ UNCHANGED delivered
    BY <1>1 DEF HoldFrame
  <2>2. UNCHANGED OutIds
    BY <2>1 DEF OutIds
  <2>3. Flow!Take
    BY <1>0, <1>1, <2>1, <2>2, HoldFrameHolds DEF Flow!Take, OutIds
  <2> QED BY <2>3 DEF Flow!Next
<1>2. ASSUME NEW t \in Threads, Completes(t) PROVE Flow!Next
  <2>1. /\ Cardinality(Held) > 0 /\ Cardinality(Held') = Cardinality(Held) - 1
        /\ UNCHANGED uniqueId
    BY <1>0, <1>2, CompletesFrees
  <2>2. CASE OutIds' = OutIds
    BY <2>1, <2>2 DEF Flow!Drop, Flow!Next, OutIds
  <2>3. CASE \E n \in 0 .. uniqueId - 1 : n \notin OutIds /\ OutIds' = OutIds \cup {n}
    <3>1. PICK n \in 0 .. uniqueId - 1 : n \notin OutIds /\ OutIds' = OutIds \cup {n}
      BY <2>3
    <3>2. n < uniqueId
      BY <1>0 DEF TypeOK, DriverTypeOK
    <3>3. Flow!GiveOut(n)
      BY <2>1, <3>1, <3>2 DEF Flow!GiveOut, OutIds
    <3> QED BY <3>3 DEF Flow!Next
  <2> QED BY <1>2, <2>2, <2>3, CompletesGivesOut
<1>3. CASE Others
  <2>1. Held' = Held /\ UNCHANGED <<uniqueId, delivered>>
    BY <1>0, <1>3, OthersHoldNothing
  <2> QED BY <2>1 DEF OutIds
<1> QED BY <1>1, <1>2, <1>3, StepCases

\* Whatever the client, the board and the scheduler do, every frame that the driver
\* numbers is given out once or not at all, and never more of them are under way
\* than there are buffers.
THEOREM DriverIsFrameFlow == Spec => FlowSpec
<1>1. Init => FlowInv /\ Flow!Init
  BY FlowInvInductive, FlowInit
<1>2. FlowInv /\ [Next]_vars => FlowInv'
  BY FlowInvInductive
<1>3. FlowInv /\ [Next]_vars
        => [Flow!Next]_<<uniqueId, Cardinality(Held),
                         {delivered[i].uniqueId : i \in 1 .. Len(delivered)}>>
  BY FlowStep DEF OutIds
<1> QED BY <1>1, <1>2, <1>3, PTL DEF Spec, FlowSpec, Flow!Spec

-----------------------------------------------------------------------------
\* One processing thread keeps the order.

LEMMA DeliveryStep ==
  ASSUME \A t, u \in Threads : t = u, FlowInv, DeliveryOrder, [Next]_vars
  PROVE  DeliveryOrder'
<1>0. TypeInv /\ TypeOK /\ OneOwner /\ Numbering /\ Len(delivered) \in Nat
  BY DEF FlowInv, TypeInv, TypeOK, DriverTypeOK
<1>1. ASSUME NEW t \in Threads, Receive(t) PROVE DeliveryOrder'
  <2>1. UNCHANGED delivered /\ p'[t].msg = msgQ[1] /\ 1 \in 1 .. Len(msgQ)
    BY <1>0, <1>1 DEF Receive, TypeOK, DriverTypeOK
  <2>2. \A u \in Busy' : u = t
    BY <1>1 DEF Busy
  <2>3. \A k \in 1 .. Len(delivered) : Precedes(delivered[k], msgQ[1])
    BY <1>0, <2>1 DEF Numbering, DeliveredOnce
  <2> QED BY <2>1, <2>2, <2>3 DEF DeliveryOrder, DeliveredInOrder
<1>2. ASSUME NEW t \in Threads, Completes(t) PROVE DeliveryOrder'
  <2>1. t \in Busy /\ Busy' = {}
    <3>1. t \in Busy /\ Busy' = Busy \ {t} /\ Busy \subseteq Threads
      BY <1>0, <1>2, CompletesMoves DEF Busy
    <3> QED BY <3>1
  <2>2. CASE UNCHANGED delivered
    BY <2>1, <2>2 DEF DeliveryOrder, DeliveredInOrder
  <2>3. ASSUME NEW m \in Nat, m = Len(delivered) + 1, Len(delivered') = m,
               \A k \in 1 .. Len(delivered) : delivered'[k] = delivered[k],
               delivered'[m].uniqueId = p[t].msg.uniqueId,
               delivered'[m].frame = p[t].msg.frame
        PROVE  DeliveryOrder'
    <3>1. \A k \in 1 .. Len(delivered') : k \in 1 .. Len(delivered) \/ k = m
      BY <1>0, <2>3
    <3>2. ASSUME NEW i \in 1 .. Len(delivered'), NEW j \in 1 .. Len(delivered'), i < j
          PROVE  Precedes(delivered'[i], delivered'[j])
      <4>1. i \in 1 .. Len(delivered)
        BY <1>0, <2>3, <3>2
      <4>2. CASE j \in 1 .. Len(delivered)
        BY <2>3, <3>2, <4>1, <4>2 DEF DeliveryOrder, DeliveredInOrder, Precedes
      <4>3. CASE j = m
        <5>1. Precedes(delivered[i], p[t].msg)
          BY <2>1, <4>1 DEF DeliveryOrder
        <5> QED BY <2>3, <4>1, <4>3, <5>1 DEF Precedes
      <4> QED BY <3>1, <4>2, <4>3
    <3> QED BY <2>1, <3>2 DEF DeliveryOrder, DeliveredInOrder, Precedes
  <2>4. Len(delivered) + 1 \in Nat
    BY <1>0
  <2> QED BY <1>0, <1>2, <2>2, <2>3, <2>4, CompletesMoves
<1>3. CASE SendMessage
  BY <1>3 DEF SendMessage, DeliveryOrder, DeliveredInOrder, Busy
<1>4. CASE ~SendMessage /\ ~(\E t \in Threads : Receive(t) \/ Completes(t))
  <2>1. /\ UNCHANGED <<msgQ, delivered>>
        /\ Busy' \subseteq Busy
        /\ \A t \in Busy' : p'[t].msg = p[t].msg
    BY <1>0, <1>4, MovesElsewhere
  <2> QED BY <2>1 DEF DeliveryOrder, DeliveredInOrder
<1> QED BY <1>1, <1>2, <1>3, <1>4

\* With one processing thread the plugins get the frames in the order in which the
\* board filled the buffers, and with increasing ids.
THEOREM OneThreadDeliversInOrder ==
  ASSUME \A t, u \in Threads : t = u
  PROVE  Spec => []DeliveredInOrder
<1>1. Init => FlowInv /\ DeliveryOrder
  <2>1. Init => delivered = <<>>
    BY DEF Init, DriverInit
  <2> QED BY <2>1, FlowInvInductive DEF DeliveryOrder, DeliveredInOrder
<1>2. FlowInv /\ DeliveryOrder /\ [Next]_vars => (FlowInv /\ DeliveryOrder)'
  BY FlowInvInductive, DeliveryStep
<1>3. DeliveryOrder => DeliveredInOrder
  BY DEF DeliveryOrder
<1> QED BY <1>1, <1>2, <1>3, PTL DEF Spec
=============================================================================
