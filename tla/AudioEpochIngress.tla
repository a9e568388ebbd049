------------------------- MODULE AudioEpochIngress -------------------------
(***************************************************************************)
(* How AEP1 datagrams reach the contributor's two audio queues, and what   *)
(* empties the second: the UDP ingest task, the requests of                *)
(* POST /v1/ingest/aep1, the mesh forward worker, and main, which sends    *)
(* the shutdown and awaits every task in turn (av-contrib.rs).             *)
(*                                                                         *)
(* A datagram is handed to the packaging queue, then to the mesh queue,    *)
(* with no await in between but with other threads running; a full or      *)
(* closed queue drops it and only counts.  The packaging queue's consumer  *)
(* is `AudioEpochHls`, of which this module sees `hlsOpen`: the end of the *)
(* queue it holds is still there.                                          *)
(*                                                                         *)
(* Abstracted: datagrams are their peer; byte framing, the session service *)
(* that authorises a request (external) and everything that only answers   *)
(* a client.  Datagrams of media access units go to the byte forwarder.    *)
(***************************************************************************)
EXTENDS Naturals, Sequences, FiniteSets

CONSTANTS
  UdpPeer,       \* the peers of the UDP socket
  LocalPeer,     \* 127.0.0.1:0, the peer of everything that requests carry
  Request,       \* requests of the ingest path
  HlsCapacity, MeshCapacity

VARIABLES
  shutdown,      \* main sent the shutdown signal
  hlsQueue,      \* the packaging queue
  hlsOpen,       \* its consumer has not returned
  meshQueue,     \* the mesh queue
  udp,           \* run_daw_media_udp_ingest
  request,       \* each request's handler
  active,        \* needletail_ingest_active
  mesh,          \* run_audio_epoch_mesh_forward_worker
  main           \* the task main awaits

local == <<meshQueue, udp, request, active, mesh, main>>

IngressInit ==
  /\ shutdown = FALSE
  /\ hlsQueue = <<>>
  /\ meshQueue = <<>>
  /\ udp = "listen"
  /\ request = [r \in Request |-> "idle"]
  /\ active = FALSE
  /\ mesh = "select"
  /\ main = "run"

-----------------------------------------------------------------------------
\* handoff_audio_epoch_hls_datagram, handoff_audio_epoch_mesh_datagram.

\* Mutant of HandHls: one more than there is room for.
HandHlsPastFull(p) ==
  hlsQueue' = IF hlsOpen /\ Len(hlsQueue) <= HlsCapacity
              THEN Append(hlsQueue, p) ELSE hlsQueue

HandHls(p) ==
  hlsQueue' = IF hlsOpen /\ Len(hlsQueue) < HlsCapacity
              THEN Append(hlsQueue, p) ELSE hlsQueue

HandMesh(p) ==
  meshQueue' = IF mesh # "stopped" /\ Len(meshQueue) < MeshCapacity
               THEN Append(meshQueue, p) ELSE meshQueue

-----------------------------------------------------------------------------
\* The UDP task.  It sees the shutdown only where it waits for a datagram.

UdpReceive(p) ==
  /\ udp = "listen"
  /\ HandHls(p)
  /\ udp' = p
  /\ UNCHANGED <<shutdown, meshQueue, request, active, mesh, main>>

UdpForwards ==
  /\ udp \in UdpPeer
  /\ HandMesh(udp)
  /\ udp' = "listen"
  /\ UNCHANGED <<shutdown, hlsQueue, request, active, mesh, main>>

UdpStop ==
  /\ udp = "listen" /\ shutdown
  /\ udp' = "ended"
  /\ UNCHANGED <<shutdown, hlsQueue, meshQueue, request, active, mesh, main>>

\* A receive error ends the task for good; main looks at it only when it stops.
UdpFail ==
  /\ udp = "listen" /\ ~shutdown
  /\ udp' = "ended"
  /\ UNCHANGED <<shutdown, hlsQueue, meshQueue, request, active, mesh, main>>

-----------------------------------------------------------------------------
\* Mutant of Arrive: the guard is made before the exchange, and dropped on
\* CONFLICT.
ArriveGuardsFirst(r) ==
  /\ request[r] = "idle" /\ ~shutdown
  /\ request' = [request EXCEPT ![r] = IF active THEN "idle" ELSE "body"]
  /\ active' = ~active
  /\ UNCHANGED <<shutdown, hlsQueue, meshQueue, udp, mesh, main>>

\* The requests.  An authorised one takes the active flag or is answered
\* CONFLICT; the guard it then holds gives it back on every way out, the
\* cancellation of the handler included.

Arrive(r) ==
  /\ request[r] = "idle" /\ ~shutdown
  /\ request' = [request EXCEPT ![r] = IF active THEN "idle" ELSE "body"]
  /\ active' = TRUE
  /\ UNCHANGED <<shutdown, hlsQueue, meshQueue, udp, mesh, main>>

FrameReceived(r) ==
  /\ request[r] = "body"
  /\ HandHls(LocalPeer)
  /\ request' = [request EXCEPT ![r] = "frame"]
  /\ UNCHANGED <<shutdown, meshQueue, udp, active, mesh, main>>

FrameForwards(r) ==
  /\ request[r] = "frame"
  /\ HandMesh(LocalPeer)
  /\ request' = [request EXCEPT ![r] = "body"]
  /\ UNCHANGED <<shutdown, hlsQueue, udp, active, mesh, main>>

Leave(r) ==
  /\ request[r] = "body"
  /\ request' = [request EXCEPT ![r] = "idle"]
  /\ active' = FALSE
  /\ UNCHANGED <<shutdown, hlsQueue, meshQueue, udp, mesh, main>>

-----------------------------------------------------------------------------
\* The mesh worker: a datagram is sent to every target, whatever fails, before
\* the next one is looked at.

MeshTake ==
  /\ mesh \in {"select", "drain"} /\ meshQueue # <<>>
  /\ meshQueue' = Tail(meshQueue)
  /\ mesh' = IF mesh = "select" THEN "send" ELSE "drainSend"
  /\ UNCHANGED <<shutdown, hlsQueue, udp, request, active, main>>

MeshSent ==
  /\ mesh \in {"send", "drainSend"}
  /\ mesh' = IF mesh = "send" THEN "select" ELSE "drain"
  /\ UNCHANGED <<shutdown, hlsQueue, meshQueue, udp, request, active, main>>

MeshSeesShutdown ==
  /\ mesh = "select" /\ shutdown
  /\ mesh' = "drain"
  /\ UNCHANGED <<shutdown, hlsQueue, meshQueue, udp, request, active, main>>

\* Mutant of MeshStop: the worker returns as soon as it sees the shutdown.
MeshStopAtOnce ==
  /\ mesh = "drain"
  /\ mesh' = "stopped"
  /\ UNCHANGED <<shutdown, hlsQueue, meshQueue, udp, request, active, main>>

MeshStop ==
  /\ mesh = "drain" /\ meshQueue = <<>>
  /\ mesh' = "stopped"
  /\ UNCHANGED <<shutdown, hlsQueue, meshQueue, udp, request, active, main>>

-----------------------------------------------------------------------------
\* main, from ctrl_c on.

CtrlC ==
  /\ main = "run"
  /\ shutdown' = TRUE
  /\ main' = "server"
  /\ UNCHANGED <<hlsQueue, meshQueue, udp, request, active, mesh>>

\* What it waits for is over.  The HTTP server (external) has finished when
\* its requests have.
Ended ==
  CASE main = "server" -> \A r \in Request : request[r] = "idle"
    [] main = "daw" -> udp = "ended"
    [] main = "hls" -> ~hlsOpen
    [] main = "mesh" -> mesh = "stopped"
    [] OTHER -> FALSE

Following == [server |-> "daw", daw |-> "hls", hls |-> "mesh", mesh |-> "done"]

MainAwaits ==
  /\ Ended
  /\ main' = Following[main]
  /\ UNCHANGED <<shutdown, hlsQueue, meshQueue, udp, request, active, mesh>>

-----------------------------------------------------------------------------
UdpStep ==
  UdpForwards \/ UdpStop \/ UdpFail \/ \E p \in UdpPeer : UdpReceive(p)

RequestStep(r) ==
  Arrive(r) \/ FrameReceived(r) \/ FrameForwards(r) \/ Leave(r)

MeshStep == MeshTake \/ MeshSent \/ MeshSeesShutdown \/ MeshStop

IngressNext ==
  UdpStep \/ (\E r \in Request : RequestStep(r)) \/ MeshStep \/ CtrlC \/ MainAwaits

-----------------------------------------------------------------------------
\* Types.
IngressTypeOK ==
  /\ Len(meshQueue) <= MeshCapacity
  /\ udp \in {"listen", "ended"} \cup UdpPeer
  /\ request \in [Request -> {"idle", "body", "frame"}]
  /\ active \in BOOLEAN
  /\ mesh \in {"select", "send", "drain", "drainSend", "stopped"}
  /\ main \in {"run", "server", "daw", "hls", "mesh", "done"}

\* One stream at a time, and the flag is taken exactly while one is: neither
\* two streams mix in one queue nor does an answered request leave the path
\* closed (lines 6377-6384, 6207-6213).
OneStreamAtATime ==
  /\ \A r, s \in Request : request[r] # "idle" /\ request[s] # "idle" => r = s
  /\ active <=> \E r \in Request : request[r] # "idle"

=============================================================================
