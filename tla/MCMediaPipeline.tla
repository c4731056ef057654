--------------------------- MODULE MCMediaPipeline ---------------------------
(* Three pipelines: the selected one, and two more for restarts and a      *)
(* second selection.  The video buffer of 50 is cut to 1, so that it fills. *)
EXTENDS MediaPipeline

MCCapacity == [k \in Kinds |-> IF k = "video" THEN 1 ELSE 0]
MCBursts == {0, 2}
=============================================================================
