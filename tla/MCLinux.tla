------------------------------- MODULE MCLinux -------------------------------
\* Instances of the Linux build for TLC.  Its runs check liveness as well, so
\* there is no symmetry.
EXTENDS ADBitFlowLinux
=============================================================================
