------------------------- MODULE ADBitFlowLinuxProofs -------------------------
(***************************************************************************)
(* Proofs about ADBitFlowLinux: type correctness, the ownership of the     *)
(* buffers, and that an acquisition uses up one buffer per image, because  *)
(* no buffer is given back while it collects.                              *)
(***************************************************************************)
EXTENDS ADBitFlowLinux, ADBitFlowProofs

-----------------------------------------------------------------------------
\* Type correctness.

TypeInv ==
  /\ TypeOK
  /\ w.pc = "send" => uniqueId > 0
  /\ Cardinality(Copying) <= liveArrays

LEMMA TypeInvShared ==
  TypeInv => SharedTypeInv /\ SendType /\ BoardTypeOK /\ DriverTypeOK
BY DEF TypeInv, TypeOK, SharedTypeInv, SendType, WaitThread

\* The initial state is typed.
LEMMA TypeInit == Init => TypeInv
<1> SUFFICES ASSUME Init PROVE TypeInv
  OBVIOUS
<1>1. SharedTypeInv /\ params \in Params
  BY SharedTypeInit DEF Init
<1>2. w \in WaitThread /\ w.pc = "idle" /\ w.handle = None
  BY <1>1 DEF Init, WaitThread, Params
<1> QED BY <1>1, <1>2 DEF TypeInv, TypeOK, SharedTypeInv

\* The board of this build does part of what a board can do.
LEMMA LinuxBoardIsBoard == LinuxBoard => Board
BY DEF LinuxBoard, Board

\* A step of the board, the client or a processing thread leaves the wait thread's
\* part alone.
LEMMA TypeElsewhere ==
  ASSUME TypeInv, SharedTypeInv', UNCHANGED <<w, uniqueId>>
  PROVE  TypeInv'
BY DEF TypeInv, TypeOK, SharedTypeInv

\* Every step keeps the types.
LEMMA TypeStep == TypeInv /\ [Next]_vars => TypeInv'
<1> SUFFICES ASSUME TypeInv, [Next]_vars PROVE TypeInv'
  OBVIOUS
<1>1. CASE LinuxBoard /\ UNCHANGED driverVars
  BY <1>1, TypeInvShared, LinuxBoardIsBoard, SharedTypeBoard, TypeElsewhere DEF driverVars
<1>2. CASE Client
  BY <1>2, TypeInvShared, SharedTypeClient, TypeElsewhere
<1>3. ASSUME NEW t \in Threads, ProcessImage(t) PROVE TypeInv'
  BY <1>3, TypeInvShared, SharedTypeProcess, TypeElsewhere
<1> USE DEF TypeInv, TypeOK
<1>4. CASE TakeEvent
  BY <1>4 DEF TakeEvent, boardVars, BoardTypeOK, DriverTypeOK, Copying, WaitThread
<1>5. CASE BeginGrab
  <2>1. params' \in Params /\ w' \in WaitThread
    BY <1>5 DEF BeginGrab, DriverTypeOK, Params, WaitThread
  <2> QED BY <1>5, <2>1 DEF BeginGrab, boardVars, BoardTypeOK, DriverTypeOK, Copying, WaitThread
<1>6. CASE GetFrame
  <2>1. DriverTypeOK' /\ Copying' = Copying /\ uniqueId' > 0
    BY <1>6 DEF GetFrame, DriverTypeOK, Copying
  <2>2. doneQ' \in Seq(Buffers) /\ bufStatus' \in [Buffers -> BufferStates]
    BY <1>6 DEF GetFrame, BoardTypeOK, BufferStates
  <2>3. BoardTypeOK'
    BY <1>6, <2>2 DEF GetFrame, BoardTypeOK
  <2>4. w'.handle \in Handles /\ w'.pc = "send" /\ w' \in WaitThread
    BY <1>6, HeadOfDoneQ DEF GetFrame, WaitThread
  <2> QED BY <1>6, <2>1, <2>3, <2>4, NoneAssumption DEF GetFrame
<1>7. CASE SendMessage
  <2>1. w.handle \in Handles /\ uniqueId \in Nat /\ uniqueId > 0
    BY <1>7 DEF SendMessage, WaitThread, DriverTypeOK
  <2>2. msgQ' \in Seq(Messages)
    <3>1. [buf |-> w.handle.buf, frame |-> w.handle.frame, uniqueId |-> uniqueId - 1]
            \in Messages
      BY <2>1 DEF Handles, Messages
    <3> QED BY <1>7, <3>1 DEF SendMessage, DriverTypeOK
  <2>3. params' \in Params
    BY <1>7 DEF SendMessage, DriverTypeOK, Params
  <2>4. w' \in WaitThread /\ w'.pc \in {"idle", "poll"} /\ w'.handle = None
    <3> DEFINE counted == [w EXCEPT !.imagesCollected = w.imagesCollected + 1, !.handle = None]
    <3>1. counted \in WaitThread /\ counted.handle = None
      <4>1. w.imagesCollected + 1 \in Nat
        BY DEF WaitThread
      <4> QED BY <4>1 DEF WaitThread
    <3>2. w' = [counted EXCEPT !.pc = "idle"] \/ w' = [counted EXCEPT !.pc = "poll"]
      BY <1>7 DEF SendMessage
    <3> QED BY <3>1, <3>2 DEF WaitThread
  <2>5. BoardTypeOK'
    BY <1>7, CirAbortType DEF SendMessage, BoardTypeOK
  <2> QED BY <1>7, <2>2, <2>3, <2>4, <2>5 DEF SendMessage, DriverTypeOK, Copying
<1>8. CASE NoNewData
  <2>1. params' \in Params
    BY <1>8 DEF NoNewData, DriverTypeOK, Params
  <2>2. w' \in WaitThread /\ w'.pc \in {"poll", "waitNext"} /\ w'.handle = None
    BY <1>8 DEF NoNewData, WaitThread
  <2> QED BY <1>8, <2>1, <2>2 DEF NoNewData, boardVars, BoardTypeOK, DriverTypeOK, Copying
<1>9. CASE GotAborted
  <2>1. [params EXCEPT !.ADStatus = "Idle"] \in Params
    BY DEF DriverTypeOK, Params
  <2>2. BoardTypeOK' /\ params' \in Params
    BY <1>9, <2>1, StopCaptureType DEF GotAborted, BoardTypeOK
  <2> QED BY <1>9, <2>2 DEF GotAborted, DriverTypeOK, Copying, WaitThread
<1>10. CASE UNCHANGED vars
  BY <1>10 DEF vars, boardVars, driverVars, BoardTypeOK, DriverTypeOK, Copying
<1> QED BY <1>1, <1>2, <1>3, <1>4, <1>5, <1>6, <1>7, <1>8, <1>9, <1>10 DEF Next, WaitImage

\* Every variable of the Linux build always has its type: no array is released
\* that was not allocated, and the wait thread has a handle only in send().
THEOREM LinuxTypeCorrect == Spec => []TypeOK
<1>1. Spec => []TypeInv
  BY TypeInit, TypeStep, PTL DEF Spec
<1>2. TypeInv => TypeOK
  BY DEF TypeInv
<1> QED BY <1>1, <1>2, PTL

-----------------------------------------------------------------------------
\* Ownership of the buffers.

LEMMA OwnerInit == Init => OneOwner
BY OwnershipInit DEF Init, OneOwner

\* The frame passes from the board to the wait thread.
LEMMA OwnerGetFrame == TypeInv /\ OneOwner /\ GetFrame => OneOwner'
<1> SUFFICES ASSUME TypeInv, OneOwner, GetFrame PROVE OneOwner'
  OBVIOUS
<1>0. BoardTypeOK /\ DriverTypeOK /\ Ownership /\ w \in WaitThread
  BY DEF TypeInv, TypeOK, OneOwner
<1> DEFINE b == Head(doneQ)
<1>1. b \in Buffers /\ bufStatus[b] = "DONE"
  BY <1>0 DEF GetFrame, BoardTypeOK, Ownership, BoardQueueDistinct
<1>2. /\ bufStatus'[b] = "HOLD" /\ UNCHANGED <<content, msgQ, p>>
      /\ \A c \in Buffers \ {b} : bufStatus'[c] = bufStatus[c]
  BY <1>0, <1>1 DEF GetFrame, BoardTypeOK
<1>3. w'.pc = "send" /\ w'.handle.buf = b /\ w'.handle.frame = content[b]
  BY <1>0 DEF GetFrame, WaitThread
<1>4. \A i \in 1 .. Len(msgQ) : msgQ[i].buf \in Buffers \ {b}
  BY <1>0, <1>1, QueueElement DEF Ownership, QueuePins, Pinned
<1>5. \A t \in Threads : p[t].pc # "receive" => p[t].msg.buf \in Buffers \ {b}
  BY <1>0, <1>1, ThreadElement DEF Ownership, ThreadsPin, Pinned
<1>6. SenderPins'
  BY <1>2, <1>3, <1>4, <1>5 DEF SenderPins, Pinned
<1>7. QueuePins'
  BY <1>0, <1>2, <1>4 DEF Ownership, QueuePins, Pinned
<1>8. ThreadsPin'
  BY <1>0, <1>2, <1>5 DEF Ownership, ThreadsPin, Pinned
<1>9. BoardQueueDistinct'
  <2>1. /\ Len(doneQ) \in Nat /\ Len(doneQ) > 0 /\ Len(doneQ') = Len(doneQ) - 1
        /\ b = doneQ[1]
        /\ \A i \in 1 .. Len(doneQ') : doneQ'[i] = doneQ[i + 1]
    BY <1>0 DEF GetFrame, BoardTypeOK
  <2>2. \A i \in 1 .. Len(doneQ') : i + 1 \in 1 .. Len(doneQ) /\ i + 1 # 1
    BY <2>1
  <2>3. \A i \in 1 .. Len(doneQ') : doneQ'[i] \in Buffers \ {b}
    <3>1. \A i \in 1 .. Len(doneQ) : doneQ[i] \in Buffers /\ (i # 1 => doneQ[i] # doneQ[1])
      BY <1>0, <2>1 DEF Ownership, BoardQueueDistinct, BoardTypeOK
    <3> HIDE DEF b
    <3> QED BY <2>1, <2>2, <3>1
  <2> QED BY <1>0, <1>2, <2>1, <2>2, <2>3 DEF Ownership, BoardQueueDistinct
<1> QED BY <1>6, <1>7, <1>8, <1>9 DEF OneOwner, Ownership

LEMMA OwnerStep == TypeInv /\ OneOwner /\ [Next]_vars => OneOwner'
<1> SUFFICES ASSUME TypeInv, OneOwner, [Next]_vars PROVE OneOwner'
  OBVIOUS
<1>0. BoardTypeOK /\ DriverTypeOK /\ SendType /\ Ownership /\ w \in WaitThread
  BY TypeInvShared DEF TypeInv, TypeOK, OneOwner
<1> USE DEF OneOwner
<1>1. CASE LinuxBoard /\ UNCHANGED driverVars
  BY <1>0, <1>1, LinuxBoardIsBoard, OwnershipBoard
<1>2. CASE Client
  BY <1>0, <1>2, OwnershipClient
<1>3. ASSUME NEW t \in Threads, ProcessImage(t) PROVE OneOwner'
  BY <1>0, <1>3, OwnershipProcess
<1>4. CASE TakeEvent \/ BeginGrab \/ NoNewData \/ GotAborted
  <2>1. w'.pc # "send"
    BY <1>0, <1>4 DEF TakeEvent, BeginGrab, NoNewData, GotAborted, WaitThread
  <2>2. UNCHANGED <<bufStatus, content, doneQ, msgQ, p>>
    BY <1>4 DEF TakeEvent, BeginGrab, NoNewData, GotAborted, boardVars
  <2> QED BY <1>0, <2>1, <2>2, OwnershipUnchanged
<1>5. CASE GetFrame
  BY <1>5, OwnerGetFrame
<1>6. CASE SendMessage
  <2>1. w.pc = "send" /\ w'.pc # "send"
    BY <1>0, <1>6 DEF SendMessage, WaitThread
  <2>2. uniqueId - 1 \in Int
    BY <1>0 DEF DriverTypeOK
  <2> QED BY <1>0, <1>6, <2>1, <2>2, OwnershipSend DEF SendMessage
<1>7. CASE UNCHANGED vars
  BY <1>7 DEF vars, boardVars, driverVars, Ownership, BoardQueueDistinct,
              SenderPins, QueuePins, ThreadsPin, Pinned
<1> QED BY <1>1, <1>2, <1>3, <1>4, <1>5, <1>6, <1>7 DEF Next, WaitImage

\* No buffer is overwritten, given out twice or given back while somebody works on
\* it, although the Linux build never marks one.
THEOREM LinuxBuffersHaveOneOwner == Spec => []OneOwner
<1>1. TypeInv /\ OneOwner /\ [Next]_vars => (TypeInv /\ OneOwner)'
  BY TypeStep, OwnerStep
<1> QED BY TypeInit, OwnerInit, <1>1, PTL DEF Spec
-----------------------------------------------------------------------------
\* What an acquisition costs.

\* In send() the frame in hand is held and not yet counted.
CollectInv ==
  /\ CollectedFramesHoldBuffers
  /\ w.pc = "send" => Cardinality(Held) >= w.imagesCollected + 1

\* While the wait thread has the lock no other thread changes which buffers are
\* held: the board fills free ones only, and the buffers are given back with the
\* lock.
LEMMA LockKeepsHeld ==
  ASSUME TypeInv, ~LockFree,
         \/ LinuxBoard /\ UNCHANGED driverVars
         \/ Client
         \/ \E t \in Threads : ProcessImage(t)
  PROVE  Held' = Held /\ w' = w
<1>0. BoardTypeOK
  BY TypeInvShared
<1>1. CASE LinuxBoard /\ UNCHANGED driverVars
  BY <1>0, <1>1 DEF LinuxBoard, SpontaneousAbort, FrameDone, driverVars, Held, BoardTypeOK
<1>2. ~Client
  BY DEF Client, WriteStart, WriteStop, WriteParam, ClientMay
<1>3. CASE \E t \in Threads : ProcessImage(t)
  BY <1>3 DEF ProcessImage, Receive, AllocFails, NullData, BeginCopy, SkipCopy, FinishCopy,
              boardVars, Held
<1> QED BY <1>1, <1>2, <1>3

LEMMA CollectStep == TypeInv /\ OneOwner /\ CollectInv /\ [Next]_vars => CollectInv'
<1> SUFFICES ASSUME TypeInv, OneOwner, CollectInv, [Next]_vars PROVE CollectInv'
  OBVIOUS
<1> USE DEF CollectInv, CollectedFramesHoldBuffers
<1>0. /\ w \in WaitThread /\ w.imagesCollected \in Nat
      /\ Cardinality(Held) \in Nat /\ Cardinality(Held') \in Nat
  BY HeldFinite, PoolsAssumption, FS_CardinalityType, FS_Subset
     DEF TypeInv, TypeOK, WaitThread, Held
<1>1. CASE \/ LinuxBoard /\ UNCHANGED driverVars
           \/ Client
           \/ \E t \in Threads : ProcessImage(t)
  <2>1. CASE ~LockFree
    BY <1>1, <2>1, LockKeepsHeld
  <2>2. CASE LockFree
    <3>1. w' = w
      BY <1>1 DEF driverVars, Client, WriteStart, WriteStop, WriteParam, ProcessImage, Receive,
                  AllocFails, NullData, BeginCopy, SkipCopy, FinishCopy, CompleteFrame
    <3> QED BY <2>2, <3>1 DEF LockFree, LockedAt
  <2> QED BY <2>1, <2>2
<1>2. CASE TakeEvent \/ GotAborted
  <2>1. w'.pc \in {"idle", "woken"}
    BY <1>0, <1>2 DEF TakeEvent, GotAborted, WaitThread
  <2> QED BY <2>1
<1>3. CASE BeginGrab
  <2>1. w'.imagesCollected = 0 /\ w'.pc = "poll"
    BY <1>0, <1>3 DEF BeginGrab, WaitThread
  <2> QED BY <1>0, <2>1
<1>4. CASE GetFrame
  <2>1. Head(doneQ) \in Buffers /\ bufStatus[Head(doneQ)] = "DONE"
    BY <1>4 DEF GetFrame, TypeInv, TypeOK, BoardTypeOK, OneOwner, Ownership, BoardQueueDistinct
  <2>2. Held' = Held \cup {Head(doneQ)} /\ Head(doneQ) \notin Held
    BY <1>4, <2>1 DEF GetFrame, Held, TypeInv, TypeOK, BoardTypeOK
  <2>3. Cardinality(Held') = Cardinality(Held) + 1
    BY <2>2, HeldFinite, CardinalityAdd
  <2>4. w'.pc = "send" /\ w'.imagesCollected = w.imagesCollected /\ w.pc = "poll"
    BY <1>0, <1>4 DEF GetFrame, WaitThread
  <2> QED BY <1>0, <2>3, <2>4
<1>5. CASE SendMessage
  <2>1. Held' = Held /\ w.pc = "send" /\ w'.pc \in {"idle", "poll"}
    BY <1>0, <1>5 DEF SendMessage, WaitThread, Held
  <2>2. w'.imagesCollected = w.imagesCollected + 1
    BY <1>0, <1>5 DEF SendMessage, WaitThread
  <2> QED BY <1>0, <2>1, <2>2
<1>6. CASE NoNewData
  <2>1. /\ Held' = Held /\ w.pc \in {"poll", "waitNext"} /\ w'.pc \in {"poll", "waitNext"}
        /\ w'.imagesCollected = w.imagesCollected
    BY <1>0, <1>6 DEF NoNewData, WaitThread, Held, boardVars
  <2> QED BY <2>1
<1>7. CASE UNCHANGED vars
  BY <1>7 DEF vars, boardVars, driverVars, Held
<1> QED BY <1>1, <1>2, <1>3, <1>4, <1>5, <1>6, <1>7 DEF Next, WaitImage

LEMMA CollectInit == Init => CollectInv
BY DEF Init, CollectInv, CollectedFramesHoldBuffers

\* Each image an acquisition has collected still occupies a buffer: what is
\* processed meanwhile cannot give one back, for it needs the lock.
THEOREM LinuxImagesCostBuffers == Spec => []CollectedFramesHoldBuffers
<1>1. TypeInv /\ OneOwner /\ CollectInv /\ [Next]_vars
        => (TypeInv /\ OneOwner /\ CollectInv)'
  BY TypeStep, OwnerStep, CollectStep
<1>2. CollectInv => CollectedFramesHoldBuffers
  BY DEF CollectInv
<1> QED BY TypeInit, OwnerInit, CollectInit, <1>1, <1>2, PTL DEF Spec

\* An acquisition never collects more images than there are buffers, so one that
\* is to collect more does not come to its end.
CollectsAtMostTheBuffers == w.pc \in {"poll", "waitNext"} => w.imagesCollected <= NumBuffers

\* However many images an acquisition asks for, it gets no further than the number
\* of buffers.
THEOREM LinuxAcquisitionFitsBuffers == Spec => []CollectsAtMostTheBuffers
<1>1. TypeInv /\ CollectedFramesHoldBuffers => CollectsAtMostTheBuffers
  <2> SUFFICES ASSUME TypeInv, CollectedFramesHoldBuffers, w.pc \in {"poll", "waitNext"}
               PROVE  w.imagesCollected <= NumBuffers
    BY DEF CollectsAtMostTheBuffers
  <2>1. /\ IsFiniteSet(Buffers) /\ Held \in SUBSET Buffers
        /\ Cardinality(Buffers) = NumBuffers /\ Cardinality(Buffers) \in Nat
    BY PoolsAssumption, FS_CardinalityType DEF Held
  <2>2. Cardinality(Held) <= Cardinality(Buffers)
    BY <2>1, FS_Subset
  <2>3. w.imagesCollected \in Nat /\ Cardinality(Held) >= w.imagesCollected
    BY DEF CollectedFramesHoldBuffers, TypeInv, TypeOK, WaitThread
  <2> QED BY <2>1, <2>2, <2>3, HeldFinite
<1>2. Spec => []TypeInv
  BY TypeInit, TypeStep, PTL DEF Spec
<1> QED BY <1>1, <1>2, LinuxImagesCostBuffers, PTL
=============================================================================
