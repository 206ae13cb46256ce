----------------------------- MODULE LapAverager ----------------------------
(***************************************************************************)
(* LapAverager of exampleSrc/GenTLView.cpp: a ring of the times of the     *)
(* last laps (frames), and the average rate over the recent ones.          *)
(***************************************************************************)
EXTENDS Integers, Sequences, FiniteSetsExt

CONSTANTS
  LapPeriods,       \* periodCnt; the ring has a place more
  LapRecent,        \* a period counts if its end is younger than this (5 s)
  LapMaxTime,       \* bound of the clock
  LapMaxLaps        \* bound of the laps

ASSUME LapAssumption == LapPeriods \in Nat /\ LapRecent \in Nat

VARIABLES
  mTimes,           \* m_times, indexed from 0
  mLaps,            \* m_laps
  lapNow,           \* Clock::now()
  lapLog            \* all laps so far

lapVars == <<mTimes, mLaps, lapNow, lapLog>>

RingSize == 1 + LapPeriods

\* resize(), called by the constructor.
LapInit ==
  /\ mTimes = [i \in 0 .. RingSize - 1 |-> 0]
  /\ mLaps = 0 /\ lapNow = 1 /\ lapLog = <<>>

\* lap()
Lap ==
  /\ mLaps < LapMaxLaps
  /\ mTimes' = [mTimes EXCEPT ![mLaps % RingSize] = lapNow]
  /\ mLaps' = mLaps + 1
  /\ lapLog' = Append(lapLog, lapNow)
  /\ UNCHANGED lapNow

Tick ==
  /\ lapNow < LapMaxTime
  /\ lapNow' = lapNow + 1
  /\ UNCHANGED <<mTimes, mLaps, lapLog>>

LapNext == Lap \/ Tick

TimesCnt == IF RingSize < mLaps THEN RingSize ELSE mLaps

\* Faulty variant: the ring is read from its first place.
OldestIndex_First == 0

OldestIndex == mLaps % TimesCnt

\* The time of the i-th of the laps in the ring, from the oldest on.
RingLap(i) == mTimes[(OldestIndex + i) % TimesCnt]

\* rate_average(), as the number of periods and their sum, after each turn of its loop:
\* a period counts if its end is recent.
RatesAfter[i \in 0 .. TimesCnt - 1] ==
  IF i = 0 THEN [cnt |-> 0, sum |-> 0]
  ELSE IF lapNow - RingLap(i) < LapRecent
  THEN [cnt |-> RatesAfter[i - 1].cnt + 1,
        sum |-> RatesAfter[i - 1].sum + (RingLap(i) - RingLap(i - 1))]
  ELSE RatesAfter[i - 1]

RateAverage ==
  IF mLaps <= 1 THEN [cnt |-> 0, sum |-> 0] ELSE RatesAfter[TimesCnt - 1]

-----------------------------------------------------------------------------
\* The rate is that of the last laps, also after the ring wrapped: so many periods as
\* recent laps have another one before them within the ring, and their sum is the
\* time from the first of those laps to the last one.
LapRateIsOfLastLaps ==
  LET first == IF mLaps > RingSize THEN mLaps - RingSize + 1 ELSE 1
      ends == {k \in first + 1 .. mLaps : lapNow - lapLog[k] < LapRecent}
  IN  /\ RateAverage.cnt = Cardinality(ends)
      /\ ends # {} => RateAverage.sum = lapLog[mLaps] - lapLog[Min(ends) - 1]
=============================================================================
