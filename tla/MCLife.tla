-------------------------------- MODULE MCLife --------------------------------
\* Instances of ADBitFlowLife for TLC.
EXTENDS ADBitFlowLife, TLC

Symmetry == Permutations(Buffers) \cup Permutations(Threads)
=============================================================================
