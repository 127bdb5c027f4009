---------------------------- MODULE MCVideoStream ----------------------------
(***************************************************************************)
(* Small instances of VideoStream for TLC. Thresholds are the code's; the  *)
(* sets and bounds of each run are in its configuration file.              *)
(***************************************************************************)
EXTENDS VideoStream, TLC

BothModes == {"H264", "Progressive"}
OnlyH264  == {"H264"}

\* Sizes are only compared: exchanging two of them changes nothing.
SizeSymmetry == Permutations(Sizes)
=============================================================================
