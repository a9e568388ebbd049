---------------------------- MODULE MCAudioEpoch ----------------------------
(* Four instances in one run, chosen by the initial state:                 *)
(*  - "continuity": the worker alone, offered three groups with a gap,     *)
(*    faults, a format change or a flag in one rendition;                  *)
(*  - "retirement": the worker alone, two renditions whose tasks fall idle *)
(*    and start again at any moment;                                       *)
(*  - "shutdown": the whole plane from receipt to the return of main, with *)
(*    one group of a datagram that UDP brought, and a shutdown at any moment; *)
(*  - "streams": the plane with two requests besides UDP, whose datagrams    *)
(*    complete no group, and a shutdown at any moment.                       *)
EXTENDS AudioEpochPlane

VARIABLE scope
mcVars == <<planeVars, scope>>

G(k, pts, format, flag, fault) ==
  [key |-> k, pts |-> pts, format |-> format, flag |-> flag, fault |-> fault]

MCOffered ==
  {G("a", 0, "f", FALSE, "none"), G("a", 1, "f", FALSE, "none"),
   G("a", 2, "f", FALSE, "none"), G("b", 0, "f", FALSE, "none"),
   G("a", 1, "f", FALSE, "erasure"), G("a", 1, "f", FALSE, "conversion"),
   G("a", 1, "g", FALSE, "none"), G("a", 1, "f", TRUE, "none"),
   G("c", 0, "f", FALSE, "none")}

MCCompletions ==
  {<<>>, <<G("a", 0, "f", FALSE, "none"), G("b", 0, "f", FALSE, "none")>>}
    \cup {<<g>> : g \in MCOffered}

MCInit ==
  /\ PlaneInit
  /\ scope \in {"continuity", "retirement", "shutdown", "streams"}
  /\ scope # "continuity" => packaging = "opaque"

Of(K, groups) == \A g \in ToSet(groups) : g.what.key \in K
First(groups) == \A g \in ToSet(groups) : g.what.pts = 0
Once(groups) == \A g \in ToSet(groups) : g.id = 1

WorkerAlone ==
  /\ Offer("udp") \/ Shutdown \/ DispatcherStep \/ \E w \in Worker : TaskStep(w)
  /\ UNCHANGED <<ingress, owed>>

MCNext ==
  /\ UNCHANGED scope
  /\ \/ scope = "continuity" /\ WorkerAlone /\ Of({"a"}, todo')
     \/ /\ scope = "retirement"
        /\ WorkerAlone \/ (Elapse /\ UNCHANGED <<ingress, owed>>)
        /\ First(todo')
     \/ /\ scope = "shutdown"
        /\ PlaneStep
        /\ Of({"a"}, todo') /\ First(todo') /\ Once(todo')
        /\ \A r \in Request : request'[r] = "idle"
     \/ /\ scope = "streams"
        /\ PlaneStep
        /\ todo' = <<>>

MCSpec == MCInit /\ [][MCNext]_mcVars /\ Fairness

\* ShutdownCompletes (AC 7043-7071), where the plane is whole.
PlaneShutdownCompletes == scope \in {"shutdown", "streams"} => ShutdownCompletes

=============================================================================
