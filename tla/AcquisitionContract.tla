-------------------------- MODULE AcquisitionContract --------------------------
(***************************************************************************)
(* What a client that starts one Single or Multiple acquisition at a time  *)
(* is promised: after a start the images are counted one by one from 0 to  *)
(* the number asked for, and with the last of them, and only then, the     *)
(* acquisition is over.                                                    *)
(***************************************************************************)
EXTENDS Integers

VARIABLES
  busy,                   \* an acquisition is going on
  target,                 \* the number of images it is to have
  count                   \* images counted so far

vars == <<busy, target, count>>

Init == ~busy /\ target \in Nat \ {0} /\ count = 0

Configure ==
  /\ ~busy
  /\ target' \in Nat \ {0}
  /\ UNCHANGED <<busy, count>>

Start ==
  /\ ~busy
  /\ busy' = TRUE
  /\ count' = 0
  /\ UNCHANGED target

\* The board has no buffers: the start is accepted and nothing will come.
StartInVain ==
  /\ ~busy
  /\ count' = 0
  /\ UNCHANGED <<busy, target>>

Image ==
  /\ busy
  /\ count < target
  /\ count' = count + 1
  /\ busy' = (count' < target)
  /\ UNCHANGED target

Next == Configure \/ Start \/ StartInVain \/ Image

\* What never happens.
Safety == Init /\ [][Next]_vars

\* And an acquisition that was started goes on to its end.
Spec == Safety /\ WF_vars(Image)
=============================================================================
