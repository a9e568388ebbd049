------------------------- MODULE MCFmp4Publication -------------------------
(* Two segmenters and two configurations.  "a" is configured again after   *)
(* "b", so a failed change of initialization can be undone by the source.  *)
EXTENDS Fmp4Publication

OneTask == [s \in Segmenter |-> "bridge"]
TwoTasks == [s \in Segmenter |-> s]
BothLanes == <<"slot", "relay">>
RelayOnly == <<"relay">>

=============================================================================
