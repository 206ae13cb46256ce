------------------------------- MODULE MCSetup -------------------------------
\* The start of the drivers and the access to a camera node do not depend on
\* each other: a behaviour is one of the one or one of the other.
EXTENDS BFStartup, BFFeature

\* In halves: -1/2, 0 and 1.
MCNumbers == {-1, 0, 2}

Init == StartupInit /\ FeatureInit

Next ==
  \/ ~feature.made /\ StartupNext /\ UNCHANGED featureVars
  \/ (\A c \in Ports : ctor[c] = "configured") /\ FeatureNext /\ UNCHANGED startupVars

Spec == Init /\ [][Next]_<<startupVars, featureVars>>
=============================================================================
