-------------------------- MODULE ADBitFlowWinProofs --------------------------
(***************************************************************************)
(* Proofs about ADBitFlowWin: type correctness, the ownership of the       *)
(* buffers, and what follows from it for the queue and the plugins.        *)
(***************************************************************************)
EXTENDS ADBitFlowWin, ADBitFlowProofs

-----------------------------------------------------------------------------
\* Type correctness.  uniqueId - 1 is a natural number because a frame in send()
\* has been numbered.

TypeInv ==
  /\ TypeOK
  /\ w.pc = "send" => uniqueId > 0
  /\ Cardinality(Copying) <= liveArrays

LEMMA TypeInvShared == TypeInv => SharedTypeInv /\ SendType
BY DEF TypeInv, TypeOK, SharedTypeInv, SendType, WaitThread

\* The initial state is typed.
LEMMA TypeInit == Init => TypeInv
<1> SUFFICES ASSUME Init PROVE TypeInv
  OBVIOUS
<1>1. SharedTypeInv /\ params \in Params
  BY SharedTypeInit DEF Init
<1>2. w \in WaitThread /\ w.pc = "idle" /\ w.handle = None
  BY <1>1 DEF Init, WaitThread, Params
<1> QED BY <1>1, <1>2 DEF TypeInv, TypeOK, SharedTypeInv

\* A step of the board, the client or a processing thread leaves the wait thread's
\* part alone.
LEMMA TypeElsewhere ==
  ASSUME TypeInv, SharedTypeInv', UNCHANGED <<w, uniqueId>>
  PROVE  TypeInv'
BY DEF TypeInv, TypeOK, SharedTypeInv

\* Every step keeps the types.
LEMMA TypeStep == TypeInv /\ [Next]_vars => TypeInv'
<1> SUFFICES ASSUME TypeInv, [Next]_vars PROVE TypeInv'
  OBVIOUS
<1>1. CASE Board /\ UNCHANGED driverVars
  BY <1>1, TypeInvShared, SharedTypeBoard, TypeElsewhere DEF driverVars
<1>2. CASE Client
  BY <1>2, TypeInvShared, SharedTypeClient, TypeElsewhere
<1> USE DEF TypeInv, TypeOK
<1>3. CASE TakeEvent
  BY <1>3 DEF TakeEvent, boardVars, BoardTypeOK, DriverTypeOK, Copying, WaitThread
<1>4. CASE BeginGrab
  <2>1. params' \in Params /\ w' \in WaitThread
    BY <1>4 DEF BeginGrab, DriverTypeOK, Params, WaitThread
  <2> QED BY <1>4, <2>1 DEF BeginGrab, boardVars, BoardTypeOK, DriverTypeOK, Copying, WaitThread
<1>5. CASE WaitDoneFrame
  <2>1. DriverTypeOK' /\ Copying' = Copying
    BY <1>5 DEF WaitDoneFrame, DriverTypeOK, Copying
  <2>2. CASE ReturnFrame /\ w' = [w EXCEPT !.pc = "got", !.status = "OK",
               !.handle = [buf |-> Head(doneQ), frame |-> content[Head(doneQ)]]]
    <3>1. doneQ' \in Seq(Buffers) /\ bufStatus' \in [Buffers -> BufferStates]
      BY <2>2 DEF ReturnFrame, BoardTypeOK, BufferStates
    <3>2. BoardTypeOK'
      BY <2>2, <3>1 DEF ReturnFrame, BoardTypeOK
    <3>3. w'.handle \in Handles /\ w'.pc = "got" /\ w'.status = "OK" /\ w' \in WaitThread
      BY <2>2, HeadOfDoneQ DEF ReturnFrame, WaitThread
    <3> QED BY <1>5, <2>1, <3>2, <3>3, NoneAssumption DEF WaitDoneFrame
  <2>3. CASE w' = [w EXCEPT !.pc = "got", !.status = cirEvent] /\ ReturnEvent
    <3>1. BoardTypeOK' /\ cirEvent \in {"STOPPED", "ABORTED"}
      BY <2>3 DEF ReturnEvent, BoardTypeOK
    <3>2. w' \in WaitThread /\ w'.handle = None
      BY <1>5, <2>3, <3>1 DEF WaitDoneFrame, WaitThread
    <3> QED BY <1>5, <2>1, <2>3, <3>1, <3>2 DEF WaitDoneFrame, WaitThread
  <2>4. CASE w' = [w EXCEPT !.pc = "got", !.status = "ERROR"] /\ UNCHANGED boardVars
    BY <1>5, <2>1, <2>4 DEF WaitDoneFrame, WaitThread, boardVars, BoardTypeOK
  <2> QED BY <1>5, <2>2, <2>3, <2>4 DEF WaitDoneFrame
<1>6. CASE HoldFrame
  <2>1. bufStatus' \in [Buffers -> BufferStates]
    BY <1>6 DEF HoldFrame, BoardTypeOK, BufferStates
  <2>2. uniqueId' \in Nat /\ uniqueId' > 0
    BY <1>6 DEF HoldFrame, DriverTypeOK
  <2> QED BY <1>6, <2>1, <2>2 DEF HoldFrame, BoardTypeOK, DriverTypeOK, Copying, WaitThread
<1>7. CASE SendMessage
  <2>1. w.handle \in Handles /\ uniqueId \in Nat /\ uniqueId > 0
    BY <1>7 DEF SendMessage, WaitThread, DriverTypeOK
  <2>2. msgQ' \in Seq(Messages)
    <3>1. [buf |-> w.handle.buf, frame |-> w.handle.frame, uniqueId |-> uniqueId - 1]
            \in Messages
      BY <2>1 DEF Handles, Messages
    <3> QED BY <1>7, <3>1 DEF SendMessage, DriverTypeOK
  <2>3. params' \in Params
    BY <1>7 DEF SendMessage, DriverTypeOK, Params
  <2>4. w' \in WaitThread /\ w'.pc \in {"idle", "waitFrame"} /\ w'.handle = None
    <3> DEFINE counted == [w EXCEPT !.imagesCollected = w.imagesCollected + 1, !.handle = None]
    <3>1. counted \in WaitThread /\ counted.handle = None
      <4>1. w.imagesCollected + 1 \in Nat
        BY DEF WaitThread
      <4> QED BY <4>1 DEF WaitThread
    <3>2. w' = [counted EXCEPT !.pc = "idle"] \/ w' = [counted EXCEPT !.pc = "waitFrame"]
      BY <1>7 DEF SendMessage
    <3> QED BY <3>1, <3>2 DEF WaitThread
  <2>5. BoardTypeOK'
    BY <1>7, CirAbortType DEF SendMessage, BoardTypeOK
  <2> QED BY <1>7, <2>2, <2>3, <2>4, <2>5 DEF SendMessage, DriverTypeOK, Copying
<1>8. CASE GotStopped
  <2>1. params' \in Params
    BY <1>8 DEF GotStopped, DriverTypeOK, Params
  <2> QED BY <1>8, <2>1 DEF GotStopped, boardVars, BoardTypeOK, DriverTypeOK, Copying, WaitThread
<1>9. CASE GotAborted
  <2>1. [params EXCEPT !.ADStatus = "Idle"] \in Params
    BY DEF DriverTypeOK, Params
  <2>2. BoardTypeOK' /\ params' \in Params
    BY <1>9, <2>1, StopCaptureType DEF GotAborted, BoardTypeOK
  <2> QED BY <1>9, <2>2 DEF GotAborted, DriverTypeOK, Copying, WaitThread
<1>10. CASE GotError
  <2>1. params' \in Params
    BY <1>10 DEF GotError, DriverTypeOK, Params
  <2> QED BY <1>10, <2>1 DEF GotError, boardVars, BoardTypeOK, DriverTypeOK, Copying, WaitThread
<1>11. ASSUME NEW t \in Threads, ProcessImage(t) PROVE TypeInv'
  BY <1>11, TypeInvShared, SharedTypeProcess, TypeElsewhere
<1>12. CASE UNCHANGED vars
  BY <1>12 DEF vars, boardVars, driverVars, BoardTypeOK, DriverTypeOK, Copying
<1> QED BY <1>1, <1>2, <1>3, <1>4, <1>5, <1>6, <1>7, <1>8, <1>9, <1>10,
           <1>11, <1>12 DEF Next, WaitImage

\* Every variable always has its type: in particular no array is released that
\* was not allocated, and what a local names is there to be used.
THEOREM TypeCorrect == Spec => []TypeOK
<1>1. Spec => []TypeInv
  BY TypeInit, TypeStep, PTL DEF Spec
<1>2. TypeInv => TypeOK
  BY DEF TypeInv
<1> QED BY <1>1, <1>2, PTL

-----------------------------------------------------------------------------
\* Ownership of the buffers.

LEMMA OwnerInit == Init => OneOwner
BY OwnershipInit DEF Init, OneOwner, ReturnedIntact

\* Nobody but the wait thread touches a buffer that waitDoneFrame has returned.
LEMMA ReturnedKept ==
  ASSUME TypeInv, ReturnedIntact, UNCHANGED w,
         \A b \in Buffers : bufStatus[b] = "RETURNED" =>
           bufStatus'[b] = "RETURNED" /\ content'[b] = content[b]
  PROVE  ReturnedIntact'
BY DEF ReturnedIntact, TypeInv, TypeOK, WaitThread, Handles

LEMMA OwnerWaitDoneFrame == TypeInv /\ OneOwner /\ WaitDoneFrame => OneOwner'
<1> SUFFICES ASSUME TypeInv, OneOwner, WaitDoneFrame PROVE OneOwner'
  OBVIOUS
<1> USE DEF TypeInv, TypeOK
<1>0. Ownership /\ SendType
  BY TypeInvShared DEF OneOwner
<1>1. CASE ReturnFrame /\ w' = [w EXCEPT !.pc = "got", !.status = "OK",
               !.handle = [buf |-> Head(doneQ), frame |-> content[Head(doneQ)]]]
  <2> DEFINE b == Head(doneQ)
  <2>1. b \in Buffers /\ bufStatus[b] = "DONE"
    BY <1>0, <1>1 DEF ReturnFrame, BoardTypeOK, Ownership, BoardQueueDistinct
  <2>2. /\ bufStatus'[b] = "RETURNED" /\ UNCHANGED <<content, msgQ, p>>
        /\ \A c \in Buffers \ {b} : bufStatus'[c] = bufStatus[c]
    BY <1>1, <2>1 DEF ReturnFrame, WaitDoneFrame, BoardTypeOK
  <2>3. SenderPins' /\ ReturnedIntact'
    <3>1. w'.pc = "got" /\ w'.handle.buf = b /\ w'.handle.frame = content[b]
      BY <1>1 DEF WaitThread
    <3> QED BY <2>2, <3>1 DEF SenderPins, ReturnedIntact
  <2>4. QueuePins'
    <3>1. \A i \in 1 .. Len(msgQ) : msgQ[i].buf \in Buffers \ {b}
      BY <1>0, <2>1, QueueElement DEF Ownership, QueuePins, Pinned
    <3> QED BY <1>0, <2>2, <3>1 DEF Ownership, QueuePins, Pinned
  <2>5. ThreadsPin'
    <3>1. \A t \in Threads : p[t].pc # "receive" => p[t].msg.buf \in Buffers \ {b}
      BY <1>0, <2>1, ThreadElement DEF Ownership, ThreadsPin, Pinned
    <3> QED BY <1>0, <2>2, <3>1 DEF Ownership, ThreadsPin, Pinned
  <2>6. BoardQueueDistinct'
    <3>1. /\ Len(doneQ) \in Nat /\ Len(doneQ) > 0 /\ Len(doneQ') = Len(doneQ) - 1
          /\ b = doneQ[1]
          /\ \A i \in 1 .. Len(doneQ') : doneQ'[i] = doneQ[i + 1]
      BY <1>1 DEF ReturnFrame, BoardTypeOK
    <3>2. \A i \in 1 .. Len(doneQ') : i + 1 \in 1 .. Len(doneQ) /\ i + 1 # 1
      BY <3>1
    <3>3. \A i \in 1 .. Len(doneQ') : doneQ'[i] \in Buffers \ {b}
      <4>1. \A i \in 1 .. Len(doneQ) : doneQ[i] \in Buffers /\ (i # 1 => doneQ[i] # doneQ[1])
        BY <1>0, <3>1 DEF Ownership, BoardQueueDistinct, BoardTypeOK
      <4> HIDE DEF b, TypeInv, TypeOK
      <4> QED BY <3>1, <3>2, <4>1
    <3> QED BY <1>0, <2>2, <3>1, <3>2, <3>3 DEF Ownership, BoardQueueDistinct
  <2> QED BY <2>3, <2>4, <2>5, <2>6 DEF OneOwner, Ownership
<1>2. CASE ReturnEvent /\ w' = [w EXCEPT !.pc = "got", !.status = cirEvent]
  <2>1. w'.pc = "got" /\ w'.status # "OK"
    BY <1>2 DEF ReturnEvent, WaitThread, BoardTypeOK
  <2> QED BY <1>0, <1>2, <2>1, OwnershipUnchanged
          DEF WaitDoneFrame, ReturnEvent, OneOwner, ReturnedIntact
<1>3. CASE UNCHANGED boardVars /\ w' = [w EXCEPT !.pc = "got", !.status = "ERROR"]
  <2>1. w'.pc = "got" /\ w'.status # "OK"
    BY <1>3 DEF WaitThread
  <2> QED BY <1>0, <1>3, <2>1, OwnershipUnchanged
          DEF WaitDoneFrame, boardVars, OneOwner, ReturnedIntact
<1> QED BY <1>1, <1>2, <1>3 DEF WaitDoneFrame

LEMMA OwnerHoldFrame == TypeInv /\ OneOwner /\ HoldFrame => OneOwner'
<1> SUFFICES ASSUME TypeInv, OneOwner, HoldFrame PROVE OneOwner'
  OBVIOUS
<1> USE DEF TypeInv, TypeOK
<1> DEFINE b == w.handle.buf
<1>0. Ownership
  BY DEF OneOwner
<1>1. b \in Buffers /\ bufStatus[b] = "RETURNED" /\ content[b] = w.handle.frame
  BY DEF HoldFrame, WaitThread, Handles, OneOwner, ReturnedIntact
<1>2. /\ bufStatus'[b] = "HOLD" /\ UNCHANGED <<content, msgQ, p, doneQ>>
      /\ \A c \in Buffers \ {b} : bufStatus'[c] = bufStatus[c]
  BY <1>1 DEF HoldFrame, BoardTypeOK
<1>3. w'.pc = "send" /\ w'.handle = w.handle
  BY DEF HoldFrame, WaitThread
<1>4. \A i \in 1 .. Len(msgQ) : msgQ[i].buf \in Buffers \ {b}
  BY <1>0, <1>1, QueueElement DEF Ownership, QueuePins, Pinned
<1>5. \A t \in Threads : p[t].pc # "receive" => p[t].msg.buf \in Buffers \ {b}
  BY <1>0, <1>1, ThreadElement DEF Ownership, ThreadsPin, Pinned
<1>6. SenderPins' /\ ReturnedIntact'
  BY <1>1, <1>2, <1>3, <1>4, <1>5 DEF SenderPins, ReturnedIntact, Pinned
<1>7. QueuePins'
  BY <1>0, <1>2, <1>4 DEF Ownership, QueuePins, Pinned
<1>8. ThreadsPin'
  BY <1>0, <1>2, <1>5 DEF Ownership, ThreadsPin, Pinned
<1>9. BoardQueueDistinct'
  <2>1. \A i \in 1 .. Len(doneQ) : doneQ[i] \in Buffers \ {b}
    BY <1>0, <1>1 DEF Ownership, BoardQueueDistinct, BoardTypeOK
  <2> QED BY <1>0, <1>2, <2>1 DEF Ownership, BoardQueueDistinct
<1> QED BY <1>6, <1>7, <1>8, <1>9 DEF OneOwner, Ownership

\* The frame passes from the wait thread to the queue.
LEMMA OwnerSendMessage == TypeInv /\ OneOwner /\ SendMessage => OneOwner'
<1> SUFFICES ASSUME TypeInv, OneOwner, SendMessage PROVE OneOwner'
  OBVIOUS
<1>1. w.pc = "send" /\ w'.pc \in {"idle", "waitFrame"}
  BY DEF SendMessage, TypeInv, TypeOK, WaitThread
<1>2. DriverTypeOK /\ Ownership /\ uniqueId - 1 \in Int
  BY DEF TypeInv, TypeOK, DriverTypeOK, OneOwner
<1>3. Ownership'
  BY <1>1, <1>2, OwnershipSend DEF SendMessage
<1> QED BY <1>1, <1>3 DEF OneOwner, ReturnedIntact

LEMMA OwnerStep == TypeInv /\ OneOwner /\ [Next]_vars => OneOwner'
<1> SUFFICES ASSUME TypeInv, OneOwner, [Next]_vars PROVE OneOwner'
  OBVIOUS
<1>0. BoardTypeOK /\ DriverTypeOK /\ SendType /\ Ownership /\ ReturnedIntact
  BY TypeInvShared DEF TypeInv, TypeOK, OneOwner
<1>1. CASE Board /\ UNCHANGED driverVars
  <2>1. \A b \in Buffers : bufStatus[b] = "RETURNED" =>
          bufStatus'[b] = "RETURNED" /\ content'[b] = content[b]
    BY <1>0, <1>1 DEF Board, FrameDone, Overrun, SpontaneousAbort, BoardTypeOK
  <2>2. ReturnedIntact'
    BY <1>0, <1>1, <2>1, ReturnedKept DEF driverVars
  <2> QED BY <1>0, <1>1, <2>2, OwnershipBoard DEF OneOwner
<1>2. CASE Client
  <2>1. \A b \in Buffers : bufStatus[b] = "RETURNED" =>
          bufStatus'[b] = "RETURNED" /\ content'[b] = content[b]
    BY <1>0, <1>2 DEF Client, WriteStart, WriteStop, WriteParam, StartCapture, CirStart,
                      boardVars, BoardTypeOK
  <2>2. ReturnedIntact'
    BY <1>0, <1>2, <2>1, ReturnedKept DEF Client, WriteStart, WriteStop, WriteParam
  <2> QED BY <1>0, <1>2, <2>2, OwnershipClient DEF OneOwner
<1>3. CASE TakeEvent \/ BeginGrab \/ GotStopped \/ GotAborted \/ GotError
  <2>1. w'.pc \notin {"send", "got"}
    BY <1>3 DEF TakeEvent, BeginGrab, GotStopped, GotAborted, GotError, TypeInv, TypeOK,
                WaitThread
  <2>2. UNCHANGED <<bufStatus, content, doneQ, msgQ, p>>
    BY <1>3 DEF TakeEvent, BeginGrab, GotStopped, GotAborted, GotError, boardVars
  <2> QED BY <1>0, <2>1, <2>2, OwnershipUnchanged DEF OneOwner, ReturnedIntact
<1>4. CASE WaitDoneFrame
  BY <1>4, OwnerWaitDoneFrame
<1>5. CASE HoldFrame
  BY <1>5, OwnerHoldFrame
<1>6. CASE SendMessage
  BY <1>6, OwnerSendMessage
<1>7. ASSUME NEW t \in Threads, ProcessImage(t) PROVE OneOwner'
  <2>1. ASSUME NEW par, p[t].pc # "receive", CompleteFrame(t, par)
        PROVE  ReturnedIntact'
    <3>1. p[t].msg.buf \in Buffers /\ bufStatus[p[t].msg.buf] = "HOLD"
      BY <1>0, <2>1, ThreadElement DEF Ownership, ThreadsPin, Pinned
    <3>2. \A b \in Buffers : bufStatus[b] = "RETURNED" =>
            bufStatus'[b] = "RETURNED" /\ content'[b] = content[b]
      BY <1>0, <2>1, <3>1 DEF CompleteFrame, ReleaseBuffer, BoardTypeOK
    <3> QED BY <1>0, <2>1, <3>2, ReturnedKept DEF CompleteFrame
  <2>2. SkipCopy(t) \/ FinishCopy(t) => ReturnedIntact'
    BY <2>1 DEF SkipCopy, FinishCopy
  <2>3. Receive(t) \/ AllocFails(t) \/ NullData(t) \/ BeginCopy(t) => ReturnedIntact'
    BY <1>0 DEF Receive, AllocFails, NullData, BeginCopy, boardVars, ReturnedIntact
  <2>4. ReturnedIntact'
    BY <1>7, <2>2, <2>3 DEF ProcessImage
  <2> QED BY <1>0, <1>7, <2>4, OwnershipProcess DEF OneOwner
<1>8. CASE UNCHANGED vars
  BY <1>8 DEF vars, boardVars, driverVars, OneOwner, Ownership, BoardQueueDistinct,
              SenderPins, QueuePins, ThreadsPin, Pinned, ReturnedIntact
<1> QED BY <1>1, <1>2, <1>3, <1>4, <1>5, <1>6, <1>7, <1>8 DEF Next, WaitImage

\* No buffer is overwritten, given out twice or given back while somebody works on
\* it, whatever the client, the board and the scheduler do.
THEOREM BuffersHaveOneOwner == Spec => []OneOwner
<1>1. TypeInv /\ OneOwner /\ [Next]_vars => (TypeInv /\ OneOwner)'
  BY TypeStep, OwnerStep
<1> QED BY TypeInit, OwnerInit, <1>1, PTL DEF Spec

-----------------------------------------------------------------------------
\* Consequences of the ownership.

\* If at least as many buffers are asked for as the driver insists on, send() never
\* blocks: the wait thread never keeps the port lock from the others.
THEOREM SendNeverBlocks ==
  ASSUME numBFBuffers >= MinBuffers
  PROVE  Spec => []RoomForEveryBuffer
<1>1. MessageQueueSize = Cardinality(Buffers)
  BY SizesAssumption, PoolsAssumption DEF MessageQueueSize, NumBuffers
<1>2. TypeInv /\ OneOwner => RoomForEveryBuffer
  BY <1>1, TypeInvShared, QueueFits DEF RoomForEveryBuffer, OneOwner, TypeInv, TypeOK
<1>3. TypeInv /\ OneOwner /\ [Next]_vars => (TypeInv /\ OneOwner)'
  BY TypeStep, OwnerStep
<1> QED BY TypeInit, OwnerInit, <1>2, <1>3, PTL DEF Spec

\* A delivered array has the pixels of its frame, because the buffer was owned by
\* the thread that copied it.
LEMMA IntactStep ==
  TypeInv /\ OneOwner /\ DeliveredIntact /\ [Next]_vars => DeliveredIntact'
<1> SUFFICES ASSUME TypeInv, OneOwner, DeliveredIntact, [Next]_vars PROVE DeliveredIntact'
  OBVIOUS
<1>1. ASSUME NEW t \in Threads, NEW par, p[t].pc # "receive", CompleteFrame(t, par)
      PROVE  DeliveredIntact'
  <2>1. content[p[t].msg.buf] = p[t].msg.frame
    BY <1>1 DEF OneOwner, Ownership, ThreadsPin, Pinned
  <2>2. CASE delivered' = delivered
    BY <2>2 DEF DeliveredIntact
  <2>3. CASE delivered' = Append(delivered,
               [uniqueId |-> p[t].msg.uniqueId, frame |-> p[t].msg.frame,
                data |-> content[p[t].msg.buf]])
    <3>1. delivered \in Seq([uniqueId : Nat, frame : Nat, data : Nat])
      BY DEF TypeInv, TypeOK, DriverTypeOK
    <3>2. \A i \in 1 .. Len(delivered') :
            \/ i \in 1 .. Len(delivered) /\ delivered'[i] = delivered[i]
            \/ delivered'[i].data = delivered'[i].frame
      BY <2>1, <2>3, <3>1
    <3> QED BY <3>2 DEF DeliveredIntact
  <2> QED BY <1>1, <2>2, <2>3 DEF CompleteFrame, Deliver
<1>2. ASSUME NEW t \in Threads, ProcessImage(t) PROVE DeliveredIntact'
  <2>1. CASE SkipCopy(t) \/ FinishCopy(t)
    BY <1>1, <2>1 DEF SkipCopy, FinishCopy
  <2>2. CASE Receive(t) \/ AllocFails(t) \/ NullData(t) \/ BeginCopy(t)
    BY <2>2 DEF Receive, AllocFails, NullData, BeginCopy, DeliveredIntact
  <2> QED BY <1>2, <2>1, <2>2 DEF ProcessImage
<1>3. CASE UNCHANGED delivered
  BY <1>3 DEF DeliveredIntact
<1>4. CASE (Board /\ UNCHANGED driverVars) \/ UNCHANGED vars
  BY <1>3, <1>4 DEF vars, driverVars
<1>5. CASE Client
  BY <1>3, <1>5 DEF Client, WriteStart, WriteStop, WriteParam
<1>6. CASE WaitImage
  BY <1>3, <1>6 DEF WaitImage, TakeEvent, BeginGrab, WaitDoneFrame, HoldFrame, SendMessage,
                    GotStopped, GotAborted, GotError
<1> QED BY <1>2, <1>4, <1>5, <1>6 DEF Next

\* The plugins never see a frame whose pixels were overwritten during the copy.
THEOREM ArraysAreIntact == Spec => []DeliveredIntact
<1>1. Init => DeliveredIntact
  BY DEF Init, DriverInit, DeliveredIntact
<1>2. TypeInv /\ OneOwner /\ DeliveredIntact /\ [Next]_vars
        => (TypeInv /\ OneOwner /\ DeliveredIntact)'
  BY TypeStep, OwnerStep, IntactStep
<1> QED BY TypeInit, OwnerInit, <1>1, <1>2, PTL DEF Spec
=============================================================================
