------------------------------ MODULE MCBridges ------------------------------
(* UploadBridge in two instances, chosen by the initial state:             *)
(*  - "overlap": two upload requests that overlap on one output;           *)
(*  - "table": one upload request, two RTMP streams and the shutdown, over *)
(*    a table of sessions that is full.                                    *)
EXTENDS UploadBridge

VARIABLE part
mcVars == <<bridgeVars, part>>

MCInit ==
  /\ BridgeInit
  /\ part \in {"overlap", "table"}
  /\ part = "table" => policy = "FixedConfigured"

\* The upload service moves between polls: a poll sees only the snapshot it
\* starts from.
BetweenPolls == poll.at = "tick" \/ request' = request

OverlapNext == stopping' = stopping /\ segmenters' = segmenters /\ rtmp' = rtmp

TableNext ==
  /\ Cardinality({r \in UploadRequest : request'[r].life # "none"}) <= 1
  /\ \A r \in UploadRequest : Len(request'[r].slots) <= 2

MCNext ==
  /\ part' = part
  /\ BridgeNext
  /\ BetweenPolls
  /\ \/ part = "overlap" /\ OverlapNext
     \/ part = "table" /\ TableNext

MCSpec == MCInit /\ [][MCNext]_mcVars /\ WF_bridgeVars(UploadTaskStep /\ MCNext)
=============================================================================
