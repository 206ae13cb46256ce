------------------------------ MODULE BFStartup ------------------------------
(***************************************************************************)
(* ADBitFlowConfig, the constructor and connectCamera, for several drivers *)
(* that the start-up script configures one after the other, with the       *)
(* threads each constructor starts while it is still running.              *)
(***************************************************************************)
EXTENDS Integers, FiniteSets

CONSTANTS
  Ports,            \* the drivers of the IOC
  Boards,           \* board numbers, 0 among them
  Builds,           \* "Windows", "Linux" or both
  NumThreads,       \* the argument numThreads
  NoBoard           \* no board was opened

ASSUME StartupAssumption ==
  /\ 0 \in Boards /\ Builds \subseteq {"Windows", "Linux"} /\ NumThreads \in Nat
  /\ Cardinality(Ports) <= Cardinality(Boards)

\* What a constructor makes, and what the driver's threads and calls rely on.
Objects == {"board", "device", "params", "queue", "event"}

VARIABLES
  build,            \* how the driver was built
  asked,            \* the board number each driver was configured with
  opened,           \* the board each driver opened
  ctor,             \* where each driver's constructor is
  objects,          \* what exists of each driver
  threads,          \* its running threads: 0 waits, the others process images
  used              \* what the threads have used so far, of each driver

startupVars == <<build, asked, opened, ctor, objects, threads, used>>

\* configured: not called yet; then the statement the constructor has come to;
\* done and failed: it returned; thrown: an exception left ADBitFlowConfig.
Stages == {"configured", "connect", "params", "queue", "event", "wait", "process",
           "done", "failed", "thrown"}

\* numThreads <= 0 becomes 2.
ThreadCount == IF NumThreads <= 0 THEN 2 ELSE NumThreads

StartupTypeOK ==
  /\ build \in Builds
  /\ asked \in [Ports -> Boards]
  /\ opened \in [Ports -> Boards \cup {NoBoard}]
  /\ ctor \in [Ports -> Stages]
  /\ objects \in [Ports -> SUBSET Objects]
  /\ threads \in [Ports -> SUBSET (0 .. ThreadCount)]
  /\ used \in [Ports -> SUBSET Objects]

\* Each camera has a board of its own in the start-up script.
StartupInit ==
  /\ build \in Builds
  /\ asked \in [Ports -> Boards]
  /\ \A a, b \in Ports : a # b => asked[a] # asked[b]
  /\ opened = [c \in Ports |-> NoBoard]
  /\ ctor = [c \in Ports |-> "configured"]
  /\ objects = [c \in Ports |-> {}]
  /\ threads = [c \in Ports |-> {}]
  /\ used = [c \in Ports |-> {}]

Goes(c, from, to) == ctor[c] = from /\ ctor' = [ctor EXCEPT ![c] = to]
Makes(c, new) == objects' = [objects EXCEPT ![c] = @ \cup new]

-----------------------------------------------------------------------------
\* ADBitFlowConfig: the script goes on when the call before has returned, also
\* when that driver has no camera (asynSuccess is returned in any case).
Configure(c) ==
  /\ \A b \in Ports \ {c} : ctor[b] \in {"configured", "done", "failed"}
  /\ Goes(c, "configured", "connect")
  /\ UNCHANGED <<build, asked, opened, objects, threads, used>>

\* The board that connectCamera opens: the Linux build always opens board 0.
BoardToOpen(c) == IF build = "Windows" THEN asked[c] ELSE 0

\* connectCamera succeeds.  The GenTL device is opened on Windows, for CoaXPress
\* boards; when that fails, only a message tells.
Connect(c) ==
  /\ Goes(c, "connect", "params")
  /\ opened' = [opened EXCEPT ![c] = BoardToOpen(c)]
  /\ \/ Makes(c, {"board"})
     \/ build = "Windows" /\ Makes(c, {"board", "device"})
  /\ UNCHANGED <<build, asked, threads, used>>

\* CiVFGopen fails, or CircularInterface throws; the test of pBoard_ is never true.
ConnectFails(c) ==
  /\ \/ build = "Linux" /\ Goes(c, "connect", "failed")
     \/ build = "Windows" /\ Goes(c, "connect", "thrown")
  /\ UNCHANGED <<build, asked, opened, objects, threads, used>>

\* The createParam and setIntegerParam calls, then the queue and the event.
CreateParams(c) ==
  /\ Goes(c, "params", "queue")
  /\ Makes(c, {"params"})
  /\ UNCHANGED <<build, asked, opened, threads, used>>

\* Faulty variant: the wait thread is launched before its event is created.
CreateQueue_Launching(c) ==
  /\ Goes(c, "queue", "event")
  /\ Makes(c, {"queue"})
  /\ threads' = [threads EXCEPT ![c] = @ \cup {0}]
  /\ UNCHANGED <<build, asked, opened, used>>

CreateQueue(c) ==
  /\ Goes(c, "queue", "event")
  /\ Makes(c, {"queue"})
  /\ UNCHANGED <<build, asked, opened, threads, used>>

CreateEvent(c) ==
  /\ Goes(c, "event", "wait")
  /\ Makes(c, {"event"})
  /\ UNCHANGED <<build, asked, opened, threads, used>>

LaunchWaitThread(c) ==
  /\ Goes(c, "wait", "process")
  /\ threads' = [threads EXCEPT ![c] = @ \cup {0}]
  /\ UNCHANGED <<build, asked, opened, objects, used>>

\* Faulty variant: the loop runs once too often.
LaunchProcessThread_More(c) ==
  LET n == Cardinality(threads[c] \ {0})
  IN  /\ ctor[c] = "process"
      /\ threads' = [threads EXCEPT ![c] = @ \cup {n + 1}]
      /\ ctor' = IF n = ThreadCount THEN [ctor EXCEPT ![c] = "done"] ELSE ctor
      /\ UNCHANGED <<build, asked, opened, objects, used>>

\* One turn of the loop that launches the processing threads; after the last one
\* the exit handler is registered and the constructor returns.
LaunchProcessThread(c) ==
  LET n == Cardinality(threads[c] \ {0})
  IN  /\ ctor[c] = "process"
      /\ threads' = [threads EXCEPT ![c] = @ \cup {n + 1}]
      /\ ctor' = IF n + 1 = ThreadCount THEN [ctor EXCEPT ![c] = "done"] ELSE ctor
      /\ UNCHANGED <<build, asked, opened, objects, used>>

-----------------------------------------------------------------------------
\* What the launched threads use first, while the constructor may still run: the
\* wait thread the parameters and the event, a processing thread the queue.
RunThread(c) ==
  /\ \/ 0 \in threads[c]
        /\ used' = [used EXCEPT ![c] = @ \cup {"params", "event"}]
     \/ threads[c] \ {0} # {}
        /\ used' = [used EXCEPT ![c] = @ \cup {"queue"}]
  /\ UNCHANGED <<build, asked, opened, ctor, objects, threads>>

\* An image or a client's Acquire=1 needs everything but the GenTL device, and
\* records are processed only when the script is over.
WriteAcquire(c) ==
  /\ \A b \in Ports : ctor[b] \in {"done", "failed"}
  /\ used' = [used EXCEPT ![c] = @ \cup {"board", "params", "event"}]
  /\ UNCHANGED <<build, asked, opened, ctor, objects, threads>>

StartupNext ==
  \E c \in Ports :
    \/ Configure(c)
    \/ Connect(c)
    \/ ConnectFails(c)
    \/ CreateParams(c)
    \/ CreateQueue(c)
    \/ CreateEvent(c)
    \/ LaunchWaitThread(c)
    \/ LaunchProcessThread(c)
    \/ RunThread(c)
    \/ WriteAcquire(c)

-----------------------------------------------------------------------------
\* The order in which the constructor makes things and launches threads is such
\* that no thread uses what is not there yet, and a driver that has a camera is
\* complete when records are processed.  (A driver whose connection failed is not:
\* its constructor returns before there is a parameter of its own, queue or event.)
UsedExists ==
  \A c \in Ports : ctor[c] # "failed" => used[c] \subseteq objects[c]
=============================================================================
