------------------------------ MODULE GenTLView ------------------------------
(***************************************************************************)
(* exampleSrc/GenTLView.cpp: an acquisition from a GenTL producer, with    *)
(* three threads: the one that constructs, initialises and destroys the    *)
(* GenTLView (main), the acquisition thread that waits for EVENT_NEW_BUFFER*)
(* and the command thread that obeys the user.                             *)
(*                                                                         *)
(* The producer follows the GenTL standard: it fills queued buffers in     *)
(* order while the host acquires and the camera sends, and an EventKill    *)
(* ends one EventGetData, the next one if none is waiting.                 *)
(***************************************************************************)
EXTENDS Naturals, Sequences, SequencesExt, FiniteSets

CONSTANTS
  BufferHandles,    \* the buffers the user asks for
  NoBuffer,
  GvModes,          \* [adv: interactive?, viewer: with an ImageView window?]
  GvFaults,         \* which calls may fail: "setup", "queue", "start", "stop", "event",
                    \* "kill", "node"
  GvMaxFrames,      \* bound of the frames that arrive
  GvMaxErrors,      \* bound of the errors that EventGetData reports
  GvMaxCommands     \* bound of the lines and commands the user enters

ASSUME BufferAssumption == IsFiniteSet(BufferHandles) /\ NoBuffer \notin BufferHandles
ASSUME ModeAssumption == GvModes \subseteq [adv : BOOLEAN, viewer : BOOLEAN]

VARIABLES
  mode,             \* which exec function runs
  mainPc,           \* where main is in setup, init, waiting and ~GenTLView
  keepGoing,        \* m_keepGoing
  autoRequeue,      \* m_autoRequeue
  acq,              \* the acquisition thread, the event it got, and its errors so far
  cmd,              \* the command thread, weQuit, and the lines and commands so far
  poolMutex,        \* does the command thread hold m_poolMutex between commands?
  dequeued,         \* m_dequeued
  lost,             \* buffers that are nowhere: queueing them again failed
  stream,           \* m_hDS and m_eventNewBuffer: handles, and what is behind them; refused:
                    \* the destructor's EventKill has failed
  input, output,    \* the producer's queues: empty buffers, filled ones
  host,             \* is the host acquiring, and how many frames are to come
  camera,           \* the camera sends
  frames            \* frames that arrived

gvVars == <<mode, mainPc, keepGoing, autoRequeue, acq, cmd, poolMutex, dequeued, lost,
            stream, input, output, host, camera, frames>>

\* What only main, what only a thread and what only the producer changes.
GvThreads == <<acq, cmd, poolMutex>>
GvProducer == <<input, output, host, frames>>

\* The number of frames to come without an end.
Infinite == GvMaxFrames + 1

GvInit ==
  /\ mode \in GvModes
  /\ mainPc = "open" /\ keepGoing = TRUE /\ autoRequeue = TRUE
  /\ acq = [pc |-> "none", event |-> "none", buf |-> NoBuffer, errors |-> 0]
  /\ cmd = [pc |-> "none", quit |-> FALSE, promise |-> FALSE, exit |-> FALSE, n |-> 0]
  /\ poolMutex = FALSE /\ dequeued = <<>> /\ lost = {}
  /\ stream = [handle |-> FALSE, open |-> FALSE, event |-> FALSE, kills |-> 0,
               refused |-> FALSE]
  /\ input = <<>> /\ output = <<>>
  /\ host = [on |-> FALSE, left |-> 0]
  /\ camera = FALSE /\ frames = 0

MainGoes(from, to) == mainPc = from /\ mainPc' = to

-----------------------------------------------------------------------------
\* setup(), called by init and init_adv.  A failure leaves m_hDS and the event as
\* they are, closed or not, and the destructor follows.

\* DevGetNumDataStreams .. DevOpenDataStream.
OpenDataStream ==
  /\ \/ MainGoes("open", "register")
        /\ stream' = [stream EXCEPT !.handle = TRUE, !.open = TRUE]
     \/ "setup" \in GvFaults /\ MainGoes("open", "stop") /\ UNCHANGED stream
  /\ UNCHANGED <<mode, keepGoing, autoRequeue, GvThreads, dequeued, lost, GvProducer, camera>>

\* GCRegisterEvent; on failure DSClose.
RegisterEvent ==
  /\ \/ MainGoes("register", "announce") /\ stream' = [stream EXCEPT !.event = TRUE]
     \/ /\ "setup" \in GvFaults /\ MainGoes("register", "stop")
        /\ stream' = [stream EXCEPT !.open = FALSE]
  /\ UNCHANGED <<mode, keepGoing, autoRequeue, GvThreads, dequeued, lost, GvProducer, camera>>

\* The minimum number of buffers and their size, then DSAllocAndAnnounceBuffer for
\* each; a failure revokes those that were announced and closes the stream.
AnnounceBuffers ==
  /\ \/ MainGoes("announce", "launch") /\ UNCHANGED stream
     \/ /\ "setup" \in GvFaults /\ MainGoes("announce", "stop")
        /\ stream' = [stream EXCEPT !.open = FALSE]
  /\ UNCHANGED <<mode, keepGoing, autoRequeue, GvThreads, dequeued, lost, GvProducer, camera>>

\* m_dequeued.assign(...); the acquisition thread.
LaunchAcqThread ==
  /\ MainGoes("launch", IF mode.adv THEN "command" ELSE "queue")
  /\ dequeued' = SetToSeq(BufferHandles)
  /\ acq' = [acq EXCEPT !.pc = "check"]
  /\ UNCHANGED <<mode, keepGoing, autoRequeue, cmd, poolMutex, lost, stream, GvProducer, camera>>

\* init(): each buffer is queued, or stays in m_dequeued when that fails.  In which
\* order the handles come is left open, as it is when they are announced.
QueueAll ==
  /\ MainGoes("queue", "start")
  /\ autoRequeue' = TRUE
  /\ \E failed \in IF "queue" \in GvFaults THEN SUBSET BufferHandles ELSE {{}} :
       /\ dequeued' = SetToSeq(failed)
       /\ input' = SetToSeq(BufferHandles \ failed)
  /\ UNCHANGED <<mode, keepGoing, GvThreads, lost, stream, output, host, frames, camera>>

\* init(): DSStartAcquisition; a failure closes the stream the acquisition thread
\* waits on.
StartHost ==
  /\ \/ /\ MainGoes("start", "command")
        /\ host' = [on |-> TRUE, left |-> Infinite]
        /\ UNCHANGED <<stream, input, output>>
     \/ /\ "start" \in GvFaults /\ MainGoes("start", "stop")
        /\ stream' = [stream EXCEPT !.open = FALSE]
        /\ input' = <<>> /\ output' = <<>> /\ UNCHANGED host
  /\ UNCHANGED <<mode, keepGoing, autoRequeue, GvThreads, dequeued, lost, frames, camera>>

\* safeNodeExec: the camera obeys, or a warning is printed.
SafeNodeExec(on) ==
  \/ camera' = on
  \/ "node" \in GvFaults /\ UNCHANGED camera

\* init() stops and starts the camera, init_adv() stops it; then the command thread.
LaunchCommandThread ==
  /\ MainGoes("command", IF mode.viewer THEN "show" ELSE "wait")
  /\ SafeNodeExec(~mode.adv)
  /\ cmd' = [cmd EXCEPT !.pc = "line"]
  /\ UNCHANGED <<mode, keepGoing, autoRequeue, acq, poolMutex, dequeued, lost, stream, GvProducer>>

\* window.show(), and the start of app.exec().
EnterExec ==
  /\ MainGoes("show", "wait")
  /\ UNCHANGED <<mode, keepGoing, autoRequeue, GvThreads, dequeued, lost, stream, GvProducer, camera>>

\* wait_done() or, with a window, app.exec(), which exit() ends.
WaitDone ==
  /\ MainGoes("wait", "stop")
  /\ IF mode.viewer THEN cmd.exit ELSE ~keepGoing \/ cmd.promise
  /\ UNCHANGED <<mode, keepGoing, autoRequeue, GvThreads, dequeued, lost, stream, GvProducer, camera>>

-----------------------------------------------------------------------------
\* ~GenTLView()

\* DSStopAcquisition, which may fail.
StopHost ==
  \/ host' = [on |-> FALSE, left |-> 0]
  \/ "stop" \in GvFaults /\ UNCHANGED host

\* The flag, the camera, and the host's acquisition, if there is a stream.
StopAcquisition ==
  /\ MainGoes("stop", "kill")
  /\ keepGoing' = FALSE
  /\ SafeNodeExec(FALSE)
  /\ IF stream.handle THEN StopHost ELSE UNCHANGED host
  /\ UNCHANGED <<mode, autoRequeue, GvThreads, dequeued, lost, stream, input, output, frames>>

\* Faulty variant: the thread is left to see the flag.
KillEvent_Not ==
  /\ MainGoes("kill", "joinAcq")
  /\ UNCHANGED <<mode, keepGoing, autoRequeue, GvThreads, dequeued, lost, stream, GvProducer,
                 camera>>

\* EventKill, if the event was registered.  When it fails the user is told that he may
\* have to force the application to quit, and the destructor goes on.
KillEvent ==
  /\ MainGoes("kill", "joinAcq")
  /\ \/ stream.event /\ stream' = [stream EXCEPT !.kills = @ + 1]
     \/ stream.event /\ "kill" \in GvFaults /\ stream' = [stream EXCEPT !.refused = TRUE]
     \/ ~stream.event /\ UNCHANGED stream
  /\ UNCHANGED <<mode, keepGoing, autoRequeue, GvThreads, dequeued, lost, GvProducer, camera>>

\* Faulty variant: the acquisition thread is not waited for.
JoinThreads_One ==
  /\ \/ MainGoes("joinAcq", "joinCmd")
     \/ MainGoes("joinCmd", "close") /\ cmd.pc \in {"none", "done"}
  /\ UNCHANGED <<mode, keepGoing, autoRequeue, GvThreads, dequeued, lost, stream, GvProducer,
                 camera>>

\* Both threads are waited for if they were launched.
JoinThreads ==
  /\ \/ MainGoes("joinAcq", "joinCmd") /\ acq.pc \in {"none", "done"}
     \/ MainGoes("joinCmd", "close") /\ cmd.pc \in {"none", "done"}
  /\ UNCHANGED <<mode, keepGoing, autoRequeue, GvThreads, dequeued, lost, stream, GvProducer,
                 camera>>

\* DSFlushQueue, DSRevokeBuffer, DSClose (also of a stream that setup had closed).
CloseStream ==
  /\ MainGoes("close", "gone")
  /\ stream' = [stream EXCEPT !.open = FALSE]
  /\ input' = <<>> /\ output' = <<>>
  /\ UNCHANGED <<mode, keepGoing, autoRequeue, GvThreads, dequeued, lost, host, frames, camera>>

-----------------------------------------------------------------------------
\* genTLViewAcqThread()

\* while (m_keepGoing.load())
AcqCheck ==
  /\ acq.pc = "check"
  /\ acq' = [acq EXCEPT !.pc = IF keepGoing THEN "wait" ELSE "done"]
  /\ UNCHANGED <<mode, mainPc, keepGoing, autoRequeue, cmd, poolMutex, dequeued, lost, stream,
                 GvProducer, camera>>

\* EventGetData returns: a kill, a filled buffer, or an error, for one when the
\* stream was closed.
EventGetData ==
  /\ acq.pc = "wait"
  /\ \/ /\ stream.kills > 0
        /\ stream' = [stream EXCEPT !.kills = @ - 1]
        /\ acq' = [acq EXCEPT !.pc = "got", !.event = "abort"]
        /\ UNCHANGED output
     \/ /\ output # <<>>
        /\ acq' = [acq EXCEPT !.pc = "got", !.event = "buffer", !.buf = Head(output)]
        /\ output' = Tail(output) /\ UNCHANGED stream
     \/ /\ "event" \in GvFaults /\ acq.errors < GvMaxErrors
        /\ acq' = [acq EXCEPT !.pc = "got", !.event = "error", !.errors = @ + 1]
        /\ UNCHANGED <<stream, output>>
     \/ /\ ~stream.open
        /\ acq' = [acq EXCEPT !.pc = "got", !.event = "error"]
        /\ UNCHANGED <<stream, output>>
  /\ UNCHANGED <<mode, mainPc, keepGoing, autoRequeue, cmd, poolMutex, dequeued, lost, input,
                 host, frames, camera>>

\* Faulty variant: an abort ends the thread.
NoBufferGot_Break ==
  /\ acq.pc = "got" /\ acq.event # "buffer" /\ ~poolMutex
  /\ acq' = [acq EXCEPT !.pc = IF acq.event = "abort" THEN "done" ELSE "check"]
  /\ UNCHANGED <<mode, mainPc, keepGoing, autoRequeue, cmd, poolMutex, dequeued, lost, stream,
                 GvProducer, camera>>

\* A timeout (there is none), an abort or an error: back to the loop's condition.
NoBufferGot ==
  /\ acq.pc = "got" /\ acq.event # "buffer" /\ ~poolMutex
  /\ acq' = [acq EXCEPT !.pc = "check"]
  /\ UNCHANGED <<mode, mainPc, keepGoing, autoRequeue, cmd, poolMutex, dequeued, lost, stream,
                 GvProducer, camera>>

\* The frame is shown (setNextFrame), and its buffer is queued again or put into
\* m_dequeued.  If queueing it fails it is in neither.
BufferGot ==
  /\ acq.pc = "got" /\ acq.event = "buffer" /\ ~poolMutex
  /\ acq' = [acq EXCEPT !.pc = "check", !.event = "none", !.buf = NoBuffer]
  /\ \/ /\ autoRequeue
        /\ input' = Append(input, acq.buf)
        /\ UNCHANGED <<dequeued, lost>>
     \/ /\ autoRequeue /\ "queue" \in GvFaults
        /\ lost' = lost \cup {acq.buf}
        /\ UNCHANGED <<input, dequeued>>
     \/ /\ ~autoRequeue
        /\ dequeued' = Append(dequeued, acq.buf)
        /\ UNCHANGED <<input, lost>>
  /\ UNCHANGED <<mode, mainPc, keepGoing, autoRequeue, cmd, poolMutex, stream, output, host,
                 frames, camera>>

-----------------------------------------------------------------------------
\* commandThread(): return was hit.
CommandThread ==
  /\ cmd.pc = "line" /\ ~mode.adv
  /\ cmd' = [cmd EXCEPT !.pc = "exit", !.promise = TRUE]
  /\ keepGoing' = FALSE
  /\ UNCHANGED <<mode, mainPc, autoRequeue, acq, poolMutex, dequeued, lost, stream, GvProducer,
                 camera>>

\* Application::exit(), with a window; both command threads end so.  Whether an exec()
\* that starts only later knows of it is the library's affair: both are possible.
ExitApplication ==
  /\ cmd.pc = "exit"
  /\ \E heard \in BOOLEAN :
       /\ mainPc # "show" => heard
       /\ cmd' = [cmd EXCEPT !.pc = "done", !.exit = mode.viewer /\ heard]
  /\ UNCHANGED <<mode, mainPc, keepGoing, autoRequeue, acq, poolMutex, dequeued, lost, stream,
                 GvProducer, camera>>

\* commandThreadAdv(): a line was entered; its commands are obeyed with the lock held.
EnterLine ==
  /\ cmd.pc = "line" /\ mode.adv /\ cmd.n < GvMaxCommands
  /\ cmd' = [cmd EXCEPT !.pc = "obey", !.n = @ + 1]
  /\ poolMutex' = TRUE
  /\ UNCHANGED <<mode, mainPc, keepGoing, autoRequeue, acq, dequeued, lost, stream, GvProducer,
                 camera>>

\* The end of the line: the lock is released, and the loop ends when told to.
EndLine ==
  /\ cmd.pc = "obey"
  /\ poolMutex' = FALSE
  /\ cmd' = IF keepGoing THEN [cmd EXCEPT !.pc = "line"]
                          ELSE [cmd EXCEPT !.pc = "exit", !.promise = TRUE]
  /\ UNCHANGED <<mode, mainPc, keepGoing, autoRequeue, acq, dequeued, lost, stream, GvProducer,
                 camera>>

\* The next command of the line is obeyed, and the next one follows.
Obey == /\ cmd.pc = "obey" /\ cmd.n < GvMaxCommands
        /\ UNCHANGED <<mode, mainPc, acq, lost, output, frames>>

Obeyed == cmd' = [cmd EXCEPT !.n = @ + 1] /\ UNCHANGED poolMutex

\* DSStartAcquisition for n frames, which fails at least while the host acquires.
StartHostFor(n) ==
  \/ ~host.on /\ host' = [on |-> TRUE, left |-> n]
  \/ (host.on \/ "start" \in GvFaults) /\ UNCHANGED host

\* A starts the host; D and F stop it.
HostCommand ==
  /\ Obey /\ Obeyed
  /\ StartHostFor(Infinite) \/ StopHost
  /\ UNCHANGED <<keepGoing, autoRequeue, dequeued, stream, input, camera>>

\* S asks for a number, with the lock held.
AskCount ==
  /\ Obey
  /\ cmd' = [cmd EXCEPT !.pc = "count", !.n = @ + 1]
  /\ UNCHANGED <<poolMutex, keepGoing, autoRequeue, dequeued, stream, input, host, camera>>

\* It asks again while the answer is 0.  An answer that is no number makes it 0 and
\* std::cin fail from then on: the loop never ends, and never gives the lock back.
AnswerCount ==
  /\ cmd.pc = "count"
  /\ \/ cmd' = [cmd EXCEPT !.pc = "obey"] /\ StartHostFor(1)
     \/ cmd' = [cmd EXCEPT !.pc = "garbled"] /\ UNCHANGED host
  /\ UNCHANGED <<mode, mainPc, keepGoing, autoRequeue, acq, poolMutex, dequeued, lost, stream,
                 input, output, camera, frames>>

\* Z and X.
CameraCommand ==
  /\ Obey /\ Obeyed
  /\ \E on \in BOOLEAN : SafeNodeExec(on)
  /\ UNCHANGED <<keepGoing, autoRequeue, dequeued, stream, input, host>>

\* L, B, H and what it does not know change nothing here; Q does.
RequeueCommand ==
  /\ Obey /\ Obeyed
  /\ autoRequeue' \in BOOLEAN
  /\ UNCHANGED <<keepGoing, dequeued, stream, input, host, camera>>

\* Faulty variant: the buffer stays at the head of m_dequeued.
QueueCommand_Keep ==
  /\ Obey /\ Obeyed
  /\ dequeued # <<>>
  /\ input' = Append(input, Head(dequeued))
  /\ UNCHANGED <<keepGoing, autoRequeue, dequeued, stream, host, camera>>

\* W: the first buffer of m_dequeued is queued, and stays there if that fails.
QueueCommand ==
  /\ Obey /\ Obeyed
  /\ IF dequeued # <<>>
     THEN \/ input' = Append(input, Head(dequeued)) /\ dequeued' = Tail(dequeued)
          \/ "queue" \in GvFaults /\ UNCHANGED <<input, dequeued>>
     ELSE UNCHANGED <<input, dequeued>>
  /\ UNCHANGED <<keepGoing, autoRequeue, stream, host, camera>>

\* K: EventKill.
KillCommand ==
  /\ Obey /\ Obeyed
  /\ \/ stream' = [stream EXCEPT !.kills = @ + 1]
     \/ "kill" \in GvFaults /\ UNCHANGED stream
  /\ UNCHANGED <<keepGoing, autoRequeue, dequeued, input, host, camera>>

\* '.': the rest of the line is obeyed.  A second one clears weQuit again.
ExitCommand ==
  /\ Obey
  /\ keepGoing' = FALSE
  /\ cmd' = [cmd EXCEPT !.n = @ + 1, !.quit = keepGoing]
  /\ UNCHANGED <<poolMutex, autoRequeue, dequeued, stream, input, host, camera>>

\* '?', '=' and ' ' release the lock while they ask, or sleep, and take it again.
AskCommand ==
  /\ \/ Obey /\ poolMutex' = FALSE /\ cmd' = [cmd EXCEPT !.pc = "ask", !.n = @ + 1]
     \/ /\ cmd.pc = "ask" /\ poolMutex' = TRUE /\ cmd' = [cmd EXCEPT !.pc = "obey"]
        /\ UNCHANGED <<mode, mainPc, acq, lost, output, frames>>
  /\ UNCHANGED <<keepGoing, autoRequeue, dequeued, stream, input, host, camera>>

-----------------------------------------------------------------------------
\* The producer fills the buffer that was queued first.
FrameArrives ==
  /\ stream.open /\ host.on /\ host.left > 0 /\ camera /\ input # <<>>
  /\ frames < GvMaxFrames
  /\ output' = Append(output, Head(input)) /\ input' = Tail(input)
  /\ host' = [host EXCEPT !.left = IF @ = Infinite THEN @ ELSE @ - 1]
  /\ frames' = frames + 1
  /\ UNCHANGED <<mode, mainPc, keepGoing, autoRequeue, GvThreads, dequeued, lost, stream, camera>>

GvMain ==
  OpenDataStream \/ RegisterEvent \/ AnnounceBuffers \/ LaunchAcqThread \/ QueueAll
  \/ StartHost \/ LaunchCommandThread \/ EnterExec \/ WaitDone \/ StopAcquisition \/ KillEvent
  \/ JoinThreads \/ CloseStream

GvAcq == AcqCheck \/ EventGetData \/ NoBufferGot \/ BufferGot

GvUser == CommandThread \/ EnterLine

GvCmd ==
  ExitApplication \/ EndLine \/ HostCommand \/ AskCount \/ AnswerCount \/ CameraCommand
  \/ RequeueCommand \/ QueueCommand \/ KillCommand \/ ExitCommand \/ AskCommand

GvNext == GvMain \/ GvAcq \/ GvUser \/ GvCmd \/ FrameArrives

\* The three threads run; the user need not enter anything, nor a frame arrive, but a
\* line that was entered has an end, and questions about it are answered.
GvSpec ==
  /\ GvInit /\ [][GvNext]_gvVars
  /\ WF_gvVars(GvMain) /\ WF_gvVars(GvAcq) /\ WF_gvVars(GvCmd)

-----------------------------------------------------------------------------
\* Every buffer is at one place: empty or filled at the producer, with the acquisition
\* thread, or in m_dequeued, whatever the user does with Q and W while frames arrive.  One
\* that the acquisition thread failed to queue again is lost: it is nowhere, for good.
GvOneHolder ==
  LET all == input \o output \o dequeued
             \o (IF acq.buf = NoBuffer THEN <<>> ELSE <<acq.buf>>)
      places(b) == Cardinality({i \in DOMAIN all : all[i] = b})
  IN  stream.open /\ acq.pc # "none" =>
        \A b \in BufferHandles : places(b) = IF b \in lost THEN 0 ELSE 1

\* init() has closed the stream because DSStartAcquisition failed, and the destructor has
\* not yet waited for the acquisition thread, which still uses it.
StartFailed == cmd.pc = "none" /\ mainPc \in {"stop", "kill", "joinAcq"}

\* The stream is closed when neither thread uses it, or no longer, with that exception.
GvStreamOutlivesThreads ==
  ~stream.open => \/ acq.pc \in {"none", "done"} /\ cmd.pc \in {"none", "done"}
                  \/ StartFailed

\* What the code does not end from: the command thread asks for ever for a number, the
\* EventKill of the destructor failed, or exit() came before exec() and was not heard.
NoEndPromised ==
  \/ cmd.pc = "garbled"
  \/ stream.refused
  \/ mode.viewer /\ cmd.pc = "done" /\ ~cmd.exit

\* Return, '.' or a failed init ends the program, but for these cases: the acquisition
\* thread, which may wait for a frame for ever, is woken, and both threads are joined.
GvEnds == ~keepGoing ~> (mainPc = "gone" \/ NoEndPromised)

\* Every filled buffer gets to the acquisition thread, whatever events are killed or fail
\* before it, unless the program ends first (DSFlushQueue discards what is left) or the
\* command thread never gives the lock back.
GvFramesHandled ==
  \A b \in BufferHandles :
    Contains(output, b) ~> (acq.buf = b \/ ~keepGoing \/ cmd.pc = "garbled")
=============================================================================
