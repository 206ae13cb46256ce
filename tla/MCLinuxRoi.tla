------------------------------ MODULE MCLinuxRoi ------------------------------
\* Instances of the Linux build with setROI for TLC.
EXTENDS ADBitFlowLinuxRoi
=============================================================================
