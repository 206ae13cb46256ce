------------------------------- MODULE MCGenTL -------------------------------
\* GenTLView with every exec function: with and without window, basic and
\* interactive.
EXTENDS GenTLView

MCModes == [adv : BOOLEAN, viewer : BOOLEAN]
=============================================================================
