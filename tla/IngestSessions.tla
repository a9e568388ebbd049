--------------------------- MODULE IngestSessions ---------------------------
(***************************************************************************)
(* The table of ingest sessions (IngestTelemetry, av-contrib.rs), which    *)
(* every ingest task updates under one lock: `Ensure` finds or starts the  *)
(* active session of a stream, `End` ends it, and both prune the table.    *)
(*                                                                         *)
(* The table is a sequence in the order of last_seen_unix_ms, the session  *)
(* seen last at its end; what a session counts is left out.                *)
(***************************************************************************)
EXTENDS Naturals, Sequences, FiniteSets, SequencesExt

CONSTANTS
  SessionLimit,  \* 2 * CONTRIB_INGEST_SESSION_LIMIT
  NoOutput       \* no output stream is known yet

ASSUME SessionLimitAssumption == SessionLimit \in Nat

VARIABLES sessions, sessionsStarted, sessionsEnded

sessionVars == <<sessions, sessionsStarted, sessionsEnded>>

SessionsInit == sessions = <<>> /\ sessionsStarted = 0 /\ sessionsEnded = 0

Matching(table, protocol, stream) ==
  {i \in DOMAIN table : /\ table[i].protocol = protocol
                        /\ table[i].stream = stream
                        /\ table[i].active}

\* Mutant of Prune: the oldest go, active or not.
PruneOldest(table) ==
  IF Len(table) <= SessionLimit THEN table
  ELSE SubSeq(table, Len(table) - SessionLimit + 1, Len(table))

\* prune_ingest_sessions: the sessions seen longest ago go, active ones stay.
Prune(table) ==
  LET excess == Len(table) - SessionLimit
      Inactive(n) == {i \in 1 .. n : ~table[i].active}
      kept == {i \in DOMAIN table : table[i].active \/ Cardinality(Inactive(i)) > excess}
      order == SetToSortSeq(kept, LAMBDA i, j : i < j)
  IN  IF Len(table) <= SessionLimit THEN table
      ELSE [i \in DOMAIN order |-> table[order[i]]]

\* ensure_ingest_session.
Ensure(protocol, stream, output) ==
  LET found == Matching(sessions, protocol, stream)
      i == CHOOSE j \in found : TRUE
      seen == [sessions[i] EXCEPT !.output = IF output = NoOutput THEN @ ELSE output]
      fresh == [protocol |-> protocol, stream |-> stream, output |-> output,
                active |-> TRUE]
  IN  IF found # {}
      THEN /\ sessions' = Prune(Append(RemoveAt(sessions, i), seen))
           /\ UNCHANGED <<sessionsStarted, sessionsEnded>>
      ELSE /\ sessions' = Prune(Append(sessions, fresh))
           /\ sessionsStarted' = sessionsStarted + 1
           /\ UNCHANGED sessionsEnded

\* end_ingest_session for a set of streams, which the caller ends in turn.
EndAll(protocol, streams) ==
  LET Ends(s) == s.active /\ s.protocol = protocol /\ s.stream \in streams
      Ended(s) == [s EXCEPT !.active = FALSE]
      ending == SelectSeq(sessions, Ends)
  IN  /\ sessions' = Prune(SelectSeq(sessions, LAMBDA s : ~Ends(s))
                            \o [i \in DOMAIN ending |-> Ended(ending[i])])
      /\ sessionsEnded' = sessionsEnded + Len(ending)
      /\ UNCHANGED sessionsStarted

End(protocol, stream) == EndAll(protocol, {stream})

-----------------------------------------------------------------------------
\* The streams of a protocol that are shown as active.
ActiveStreams(protocol) ==
  {sessions[i].stream : i \in {j \in DOMAIN sessions :
                                 sessions[j].active /\ sessions[j].protocol = protocol}}

\* Types: beyond its limit the table holds active sessions only.
SessionsTypeOK ==
  /\ sessionsEnded <= sessionsStarted
  /\ Len(sessions) > SessionLimit => \A i \in DOMAIN sessions : sessions[i].active

\* Whatever is pruned and however streams come back, a stream has one active
\* session at most, and the sessions shown as active are those that started
\* and have not ended (lines 3575-3710, 4105-4137).
ActiveSessionsKept ==
  LET active == {i \in DOMAIN sessions : sessions[i].active}
  IN  /\ sessionsStarted = sessionsEnded + Cardinality(active)
      /\ \A i \in active :
           Matching(sessions, sessions[i].protocol, sessions[i].stream) = {i}

=============================================================================
