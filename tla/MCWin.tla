-------------------------------- MODULE MCWin --------------------------------
\* Instances of ADBitFlowWin for TLC.
EXTENDS ADBitFlowWin, TLC

\* Buffers are alike, and so are threads.
Symmetry == Permutations(Buffers) \cup Permutations(Threads)
=============================================================================
