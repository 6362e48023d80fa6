----------------------------- MODULE MCPipeline -----------------------------
(***************************************************************************)
(* The motions and overrides the runs of the pipeline send.  A motion's    *)
(* nominal speed, squared, is 1 or 4 at full rate and 4 or 16 at twice     *)
(* that.                                                                   *)
(***************************************************************************)
EXTENDS Pipeline

Sharp == [gain |-> 2, junction |-> 1, rate |-> 2]   \* after a sharp corner
Brief == [gain |-> 1, junction |-> 3, rate |-> 2]   \* too short to brake in
Slow  == [gain |-> 2, junction |-> 9, rate |-> 1]   \* straight on, slowly

\* Junctions limited by the corner, by the rate and by the length ahead.
MixedLines == {Sharp, Brief, Slow}

TwoSpeeds == {1, 2}
=============================================================================
