------------------------ MODULE MCAndroidEventQueue ------------------------
(* Small instance of AndroidEventQueue for TLC.                            *)
EXTENDS AndroidEventQueue

\* An INT16 of three values, so that merged deltas saturate at once.
SmallMin == -1
=============================================================================
