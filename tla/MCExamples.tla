----------------------------- MODULE MCExamples -----------------------------
\* The smaller programs of exampleSrc have nothing to do with each other: a
\* behaviour is a behaviour of one of them, the others not being started.
EXTENDS CIsimple, CiSimpleWin, CiSimpleCallBack, LapAverager, NodeConsole, EventViewer,
        SubFileIterator

Init == CiInit /\ CsInit /\ CbInit /\ LapInit /\ NcInit /\ EvInit /\ SiInit

LapOff == lapNow = 1 /\ mLaps = 0

\* Only the program p runs.
Only(p) ==
  /\ IF p = "Ci" THEN TRUE ELSE CiOff /\ UNCHANGED ciVars
  /\ IF p = "Cs" THEN TRUE ELSE CsOff /\ UNCHANGED csVars
  /\ IF p = "Cb" THEN TRUE ELSE CbOff /\ UNCHANGED cbVars
  /\ IF p = "Lap" THEN TRUE ELSE LapOff /\ UNCHANGED lapVars
  /\ IF p = "Nc" THEN TRUE ELSE NcOff /\ UNCHANGED ncVars
  /\ IF p = "Ev" THEN TRUE ELSE EvOff /\ UNCHANGED evVars
  /\ IF p = "Si" THEN TRUE ELSE SiOff /\ UNCHANGED siVars

Next ==
  \/ Only("Ci") /\ CiNext
  \/ Only("Cs") /\ CsNext
  \/ Only("Cb") /\ CbNext
  \/ Only("Lap") /\ LapNext
  \/ Only("Nc") /\ NcNextStep
  \/ Only("Ev") /\ EvNext
  \/ Only("Si") /\ SiNext

Spec ==
  /\ Init /\ [][Next]_<<ciVars, csVars, cbVars, lapVars, ncVars, evVars, siVars>>
  /\ CiFairness /\ CsFairness /\ EvFairness
=============================================================================
