------------------------------ MODULE FrameFlow ------------------------------
(***************************************************************************)
(* What the driver promises about the frames it takes from the board,      *)
(* whatever the threads, the queue and the client do: a frame is given     *)
(* out once or not at all, and never more frames are under way than there  *)
(* are buffers.                                                            *)
(***************************************************************************)
EXTENDS Integers

CONSTANT Capacity         \* how many frames can be under way at a time

VARIABLES
  taken,                  \* frames taken, numbered from 0
  underWay,               \* how many of them are neither given out nor dropped
  out                     \* the numbers of the frames given out

Init == taken = 0 /\ underWay = 0 /\ out = {}

Take ==
  /\ underWay < Capacity
  /\ taken' = taken + 1
  /\ underWay' = underWay + 1
  /\ UNCHANGED out

GiveOut(n) ==
  /\ underWay > 0
  /\ n < taken /\ n \notin out
  /\ out' = out \cup {n}
  /\ underWay' = underWay - 1
  /\ UNCHANGED taken

Drop ==
  /\ underWay > 0
  /\ underWay' = underWay - 1
  /\ UNCHANGED <<taken, out>>

Next == Take \/ (\E n \in 0 .. taken - 1 : GiveOut(n)) \/ Drop

Spec == Init /\ [][Next]_<<taken, underWay, out>>
=============================================================================
