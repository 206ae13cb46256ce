------------------------------ MODULE CIsimple ------------------------------
(***************************************************************************)
(* exampleSrc/CIsimple_Linux.c: open a board, show the first line of       *)
(* frames until the countdown or a newline ends it, and clean up on every  *)
(* path.  The board fills a free buffer while it still owes frames; what   *)
(* the program took last is its own until it takes the next one.           *)
(***************************************************************************)
EXTENDS Naturals

CONSTANTS
  CiFrames,         \* values of -m; 0 stands for no limit
  CiSkips,          \* values of -s
  CiBuffers         \* frames the board can have undelivered (the program asks for 4)

VARIABLES
  ciPc,             \* the call the program has come to
  ciArgs,           \* sMaxFrames as given, sSkipFrames, sBGok
  ciHeld,           \* what it must give back: the open board, the mapped buffers
  ciLeft,           \* sMaxFrames, counting down
  ciShow,           \* sDidFrames modulo the period of the display
  ciBoard,          \* frames owed and frames undelivered; was it aborted?
  ciNewline,        \* a line waits at stdin
  ciExit            \* sExitAns

ciVars == <<ciPc, ciArgs, ciHeld, ciLeft, ciShow, ciBoard, ciNewline, ciExit>>

CiOff == ciPc = "off"

CiInit ==
  /\ ciPc = "off" /\ ciHeld = {} /\ ciLeft = 0 /\ ciShow = 0
  /\ ciArgs = [max |-> 0, skip |-> 0, bg |-> FALSE]
  /\ ciBoard = [owed |-> 0, ready |-> 0, limited |-> FALSE, state |-> "idle"]
  /\ ciNewline = FALSE /\ ciExit = 0

\* DecodeArgs: -h and an argument it does not know end the program.
CiDecodeArgs ==
  /\ ciPc = "off"
  /\ \/ /\ \E m \in CiFrames, s \in CiSkips, b \in BOOLEAN :
             /\ ciArgs' = [max |-> m, skip |-> s, bg |-> b]
             /\ ciLeft' = m
        /\ ciPc' = "open" /\ UNCHANGED ciExit
     \/ /\ ciPc' = "exit" /\ ciExit' \in {0, 1}
        /\ UNCHANGED <<ciArgs, ciLeft>>
  /\ UNCHANGED <<ciHeld, ciShow, ciBoard, ciNewline>>

CiOpen ==
  /\ ciPc = "open"
  /\ \/ ciPc' = "init" /\ ciHeld' = {"board"} /\ UNCHANGED ciExit
     \/ ciPc' = "exit" /\ ciExit' = 1 /\ UNCHANGED ciHeld
  /\ UNCHANGED <<ciArgs, ciLeft, ciShow, ciBoard, ciNewline>>

\* goto andOut, with or without an error.
CiGiveUp(error) ==
  /\ ciPc' = "unmap"
  /\ ciExit' = IF error THEN 1 ELSE ciExit

\* The calls between opening and starting, in their order.
CiNextCall == [init |-> "configure", configure |-> "interrogate", interrogate |-> "map",
               map |-> "depth", depth |-> "reset", reset |-> "start"]

\* Faulty variant: the bit depth is found out to be unknown by a plain return.
CiSetup_Return ==
  /\ ciPc \in DOMAIN CiNextCall
  /\ \/ /\ ciPc' = CiNextCall[ciPc]
        /\ ciHeld' = IF ciPc = "map" THEN ciHeld \cup {"buffers"} ELSE ciHeld
        /\ UNCHANGED ciExit
     \/ /\ IF ciPc = "depth" THEN ciPc' = "exit" /\ ciExit' = 1 ELSE CiGiveUp(TRUE)
        /\ UNCHANGED ciHeld
  /\ UNCHANGED <<ciArgs, ciLeft, ciShow, ciBoard, ciNewline>>

\* CiVFGinitialize .. CiAqSWreset; each may fail, and the bit depth be unknown.
CiSetup ==
  /\ ciPc \in DOMAIN CiNextCall
  /\ \/ /\ ciPc' = CiNextCall[ciPc]
        /\ ciHeld' = IF ciPc = "map" THEN ciHeld \cup {"buffers"} ELSE ciHeld
        /\ UNCHANGED ciExit
     \/ CiGiveUp(TRUE) /\ UNCHANGED ciHeld
  /\ UNCHANGED <<ciArgs, ciLeft, ciShow, ciBoard, ciNewline>>

\* CiAqStart: the board owes sMaxFrames frames, or frames without end.
CiStart ==
  /\ ciPc = "start"
  /\ \/ /\ ciPc' = "next" /\ UNCHANGED ciExit
        /\ ciBoard' = [ciBoard EXCEPT !.owed = ciArgs.max, !.limited = ciArgs.max # 0,
                                      !.state = "acquiring"]
     \/ CiGiveUp(TRUE) /\ UNCHANGED ciBoard
  /\ UNCHANGED <<ciArgs, ciHeld, ciLeft, ciShow, ciNewline>>

\* CiGetOldestNotDeliveredFrame: a frame, or nothing new, which leads to
\* CiWaitNextUndeliveredFrame(-1) and back here when there is one.
CiNextFrame ==
  /\ ciPc = "next" /\ ciBoard.state = "acquiring" /\ ciBoard.ready > 0
  /\ ciBoard' = [ciBoard EXCEPT !.ready = @ - 1]
  /\ ciPc' = "show"
  /\ UNCHANGED <<ciArgs, ciHeld, ciLeft, ciShow, ciNewline, ciExit>>

\* Either call reports an abort, which is no error, or anything else.
CiNoFrame ==
  /\ ciPc = "next"
  /\ \/ ciBoard.state = "aborted" /\ CiGiveUp(FALSE)
     \/ CiGiveUp(TRUE)
  /\ UNCHANGED <<ciArgs, ciHeld, ciLeft, ciShow, ciBoard, ciNewline>>

\* Faulty variant: the countdown is read before it is decremented.
CiCountdown_Late(left) == left = 0

\* --sMaxFrames == 0, for the value after the decrement.
CiCountdown(left) == left = 1

\* A frame is shown or skipped, its line is cleared, and the loop may end.
CiShowFrame ==
  /\ ciPc = "show"
  /\ ciShow' = (ciShow + 1) % (ciArgs.skip + 1)
  /\ IF ~ciArgs.bg /\ ciNewline
     THEN ciPc' = "unmap" /\ ciNewline' = FALSE /\ UNCHANGED ciLeft
     ELSE /\ ciPc' = IF ciArgs.max # 0 /\ CiCountdown(ciLeft) THEN "unmap" ELSE "next"
          /\ ciLeft' = IF ciLeft > 0 THEN ciLeft - 1 ELSE 0
          /\ UNCHANGED ciNewline
  /\ UNCHANGED <<ciArgs, ciHeld, ciBoard, ciExit>>

\* andOut: unmap what was mapped and close what was opened; failures are printed.
CiCleanUp ==
  /\ \/ ciPc = "unmap" /\ ciPc' = "close" /\ ciHeld' = ciHeld \ {"buffers"}
     \/ ciPc = "close" /\ ciPc' = "exit" /\ ciHeld' = ciHeld \ {"board"}
  /\ UNCHANGED <<ciArgs, ciLeft, ciShow, ciBoard, ciNewline, ciExit>>

-----------------------------------------------------------------------------
\* The board: DMA into a free buffer.
CiFrameArrives ==
  /\ ciBoard.state = "acquiring" /\ ciPc # "exit"
  /\ ciBoard.ready < CiBuffers - 1
  /\ ciBoard.limited => ciBoard.owed > 0
  /\ ciBoard' = [ciBoard EXCEPT !.ready = @ + 1, !.owed = IF @ > 0 THEN @ - 1 ELSE 0]
  /\ UNCHANGED <<ciPc, ciArgs, ciHeld, ciLeft, ciShow, ciNewline, ciExit>>

CiAborted ==
  /\ ciBoard.state = "acquiring" /\ ciPc # "exit"
  /\ ciBoard' = [ciBoard EXCEPT !.state = "aborted"]
  /\ UNCHANGED <<ciPc, ciArgs, ciHeld, ciLeft, ciShow, ciNewline, ciExit>>

\* The user hits return.
CiTypeNewline ==
  /\ ciPc \notin {"off", "exit"} /\ ~ciNewline
  /\ ciNewline' = TRUE
  /\ UNCHANGED <<ciPc, ciArgs, ciHeld, ciLeft, ciShow, ciBoard, ciExit>>

CiRun == CiOpen \/ CiSetup \/ CiStart \/ CiNextFrame \/ CiShowFrame \/ CiCleanUp
         \/ (ciBoard.state = "aborted" /\ CiNoFrame)

CiNext ==
  \/ CiDecodeArgs
  \/ CiRun
  \/ CiNoFrame
  \/ CiFrameArrives
  \/ CiAborted
  \/ CiTypeNewline

\* The program runs, and a camera that has frames to send sends them.
CiFairness == WF_ciVars(CiRun) /\ WF_ciVars(CiFrameArrives)

-----------------------------------------------------------------------------
\* On every path out of the program that opened a board the buffers are
\* unmapped while the board is still open, and the board is closed.
CiCleansUp ==
  /\ "buffers" \in ciHeld => "board" \in ciHeld
  /\ ciPc = "exit" => ciHeld = {}

\* The program's countdown and the number of frames the board was asked for agree:
\* with -m the program ends and never waits for a frame that was not asked for;
\* without it a newline ends it as long as frames come ("display ends with newline").
CiEnds ==
  (ciPc = "next" /\ (ciArgs.max # 0 \/ (ciNewline /\ ~ciArgs.bg))) ~> (ciPc = "exit")
=============================================================================
