-------------------------- MODULE MCFmp4Segmenter --------------------------
(* Two parameter sets of one resolution and one of another; audio units    *)
(* that carry their duration and, as None, units that do not.              *)
EXTENDS Fmp4Segmenter

MCConfig == {"hd", "hd2", "sd"}
MCResolution == [c \in MCConfig |-> IF c = "sd" THEN 360 ELSE 720]

=============================================================================
