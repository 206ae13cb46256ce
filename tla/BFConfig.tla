------------------------------ MODULE BFConfig ------------------------------
(***************************************************************************)
(* The sizes the constructor of ADBitFlow derives from its arguments.      *)
(* numBFBuffers is the argument as it was passed; the number of buffers    *)
(* the board allocates is clamped, the depth of the message queue is not.  *)
(***************************************************************************)
EXTENDS Integers, FiniteSets

CONSTANTS
  numBFBuffers,     \* constructor argument: BitFlow buffers asked for
  DefaultBuffers,   \* what 0 stands for (100 in the code, scaled down for TLC)
  MinBuffers,       \* the least the driver accepts (10 in the code)
  Buffers,          \* the board's buffers
  Threads           \* the image processing threads (numThreads of them)

\* numBFBuffers_ after the two clamping lines of the constructor.
NumBuffers ==
  LET asked == IF numBFBuffers = 0 THEN DefaultBuffers ELSE numBFBuffers
  IN  IF asked < MinBuffers THEN MinBuffers ELSE asked

\* Faulty variant: one element too few.
MessageQueueSize_Short == numBFBuffers - 1

\* messageQueueSize_ is copied from the argument, not from numBFBuffers_.
MessageQueueSize == numBFBuffers

ASSUME SizesAssumption ==
  /\ numBFBuffers \in Nat
  /\ DefaultBuffers \in Nat \ {0}
  /\ MinBuffers \in Nat \ {0}

\* numThreads <= 0 becomes 2, so there is always a thread.
ASSUME PoolsAssumption ==
  /\ IsFiniteSet(Buffers)
  /\ Cardinality(Buffers) = NumBuffers
  /\ IsFiniteSet(Threads) /\ Threads # {}
=============================================================================
