-------------------------- MODULE MCPublishIngress --------------------------
(* Three requests, two capabilities and two coordinates.  Capability "c1"  *)
(* expires first, so a request of "c2" purges its entries while requests   *)
(* of "c1" are still in flight.                                            *)
EXTENDS PublishIngress, TLC

MCKey == {"k1", "k2"}
MCIdentity == {"i1", "i2"}
MCStream == {"s1", "s2"}
MCCapability == {"c1", "c2"}
MCExpiresAt == [c \in MCCapability |-> IF c = "c1" THEN 1 ELSE 2]
MCScope == [c \in MCCapability |-> MCIdentity]

MCFrame(c, k, n, s) == [capability |-> c, key |-> k, sequence |-> n, stream |-> s]
\* A replayed frame, a frame a window ahead of it, the same capability on
\* other coordinates, and the capability whose requests purge.
ReplayOffered ==
  {MCFrame("c1", "k1", 0, "s1"), MCFrame("c1", "k1", 2, "s1"),
   MCFrame("c1", "k2", 0, "s1"), MCFrame("c2", "k2", 0, "s1")}

MCBinding(k, i, s) == [key |-> k, identity |-> i, stream |-> s]
ReplayCandidate == {MCBinding("k1", "i1", "s1"), MCBinding("k2", "i1", "s1")}

\* Reconfigurations of one stream: the same identity under new coordinates,
\* another identity on the same stream, and the same identity elsewhere.
ControlOffered ==
  {MCFrame("c1", "k1", 0, "s1"), MCFrame("c2", "k2", 0, "s1"),
   MCFrame("c2", "k2", 1, "s2")}
ControlCandidate ==
  {MCBinding("k1", "i1", "s1"), MCBinding("k2", "i1", "s1"),
   MCBinding("k2", "i2", "s1"), MCBinding("k2", "i2", "s2")}

\* Requests are interchangeable: no action or invariant names one.
RequestSymmetry == Permutations(Request)

=============================================================================
