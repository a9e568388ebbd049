-------------------------- MODULE AudioEpochPlane --------------------------
(***************************************************************************)
(* The audio epoch plane of the contributor: `AudioEpochIngress` fills the *)
(* queue that `AudioEpochHls` empties, under one shutdown signal.  The     *)
(* queue and the signal are the only state the two share.                  *)
(***************************************************************************)
EXTENDS AudioEpochHls

CONSTANTS UdpPeer, LocalPeer, Request, MeshCapacity

ASSUME PeerAssumption == UdpPeer \cup {LocalPeer} \subseteq Peer
ASSUME MeshCapacityAssumption == MeshCapacity \in Nat \ {0}

VARIABLES meshQueue, udp, request, active, mesh, main,
          owed   \* history: how much of what was queued at the shutdown is left

Ingress == INSTANCE AudioEpochIngress
             WITH HlsCapacity <- QueueCapacity, hlsOpen <- pc # "stopped"

ingress == <<meshQueue, udp, request, active, mesh, main>>
worker == <<packaging, dispatcher, task, output>>
planeVars == <<vars, ingress, owed>>

PlaneInit ==
  /\ Init
  /\ Ingress!IngressInit
  /\ owed = [hls |-> 0, mesh |-> 0]

\* Queues are first in, first out: what leaves is what was there longest.
Left(before, now, n) ==
  IF ~shutdown /\ shutdown' THEN Len(now)
  ELSE IF Len(now) < Len(before) /\ n > 0 THEN n - 1
  ELSE n

Remember ==
  owed' = [hls |-> Left(hlsQueue, hlsQueue', owed.hls),
           mesh |-> Left(meshQueue, meshQueue', owed.mesh)]

IngressStep == Ingress!IngressNext /\ UNCHANGED worker /\ Remember
WorkerStep ==
  /\ DispatcherStep \/ \E w \in Worker : TaskStep(w)
  /\ UNCHANGED ingress /\ Remember

PlaneStep == IngressStep \/ WorkerStep
PlaneNext == PlaneStep \/ (Elapse /\ UNCHANGED <<ingress, owed>>)

-----------------------------------------------------------------------------
\* Fairness.  Every task that can run is run, and what it awaits of the
\* network and of the file system ends.  tokio's select! takes its branches at
\* random, so the UDP task does not overlook a shutdown forever while datagrams
\* keep coming (SF).  The HTTP server ends its requests once it is shut down.

Alone(A) == A /\ UNCHANGED worker /\ Remember
Dispatches == DispatcherStep /\ UNCHANGED ingress /\ Remember
Packages == (\E w \in Worker : TaskStep(w)) /\ UNCHANGED ingress /\ Remember

Fairness ==
  /\ WF_planeVars(Dispatches)
  /\ WF_planeVars(Packages)
  /\ WF_planeVars(Alone(Ingress!UdpForwards))
  /\ SF_planeVars(Alone(Ingress!UdpStop))
  /\ WF_planeVars(Alone(\E r \in Request : Ingress!FrameForwards(r)))
  /\ SF_planeVars(Alone(shutdown /\ \E r \in Request : Ingress!Leave(r)))
  /\ WF_planeVars(Alone(Ingress!MeshStep))
  /\ WF_planeVars(Alone(Ingress!MainAwaits))

PlaneSpec == PlaneInit /\ [][PlaneNext]_planeVars /\ Fairness

-----------------------------------------------------------------------------
\* Types of the whole plane.
PlaneTypeOK == TypeOK /\ Ingress!IngressTypeOK

\* See `AudioEpochIngress`.
OneStreamAtATime == Ingress!OneStreamAtATime

\* A shutdown loses nothing it found queued: each worker takes all of it before
\* it returns (AE 388-425, AC 1866-1884), and every group that came of it is in
\* a part or refused, with no packager left unflushed (AE 523-554).
ShutdownLosesNothing ==
  /\ NothingLeftBehind
  /\ pc = "stopped" => owed.hls = 0
  /\ mesh = "stopped" => owed.mesh = 0

\* A shutdown completes: however the queues stand, whatever is retired or
\* fails and whoever still sends, no task waits for another for ever, and main
\* returns (AC 7043-7071).
ShutdownCompletes == shutdown ~> main = "done"

=============================================================================
