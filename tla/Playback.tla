------------------------------ MODULE Playback ------------------------------
(***************************************************************************)
(* Four ways out of the server: a WHEP session, the DASH server, the       *)
(* WebSocket relay and the recorder.  The last two read the same origin    *)
(* without changing it and otherwise nothing is shared, so each is         *)
(* explored while the others have nothing to do.                           *)
(***************************************************************************)
EXTENDS WhepEgress, DashServer, WsSessions

VARIABLE by    \* who takes the broadcast

playback == <<whep, dash, ws, by>>

PlaybackInit == WhepInit /\ DashInit /\ WsInit /\ by \in {"whep", "dash", "ws", "record"}

PlaybackNext ==
  /\ \/ by = "whep" /\ WhepNext /\ UNCHANGED <<dash, ws>>
     \/ by = "dash" /\ DashNext /\ UNCHANGED <<whep, ws>>
     \/ by \in {"ws", "record"} /\ WsIngest /\ UNCHANGED <<whep, dash>>
     \/ by = "ws" /\ Watching /\ UNCHANGED <<whep, dash>>
     \/ by = "record" /\ Recording /\ UNCHANGED <<whep, dash>>
  /\ UNCHANGED by

\* The poll loop of a session, the relay session and its track task are tokio
\* tasks, each run while it has something to do.
PlaybackSpec ==
  /\ PlaybackInit /\ [][PlaybackNext]_playback
  /\ \A v \in Viewers : WF_playback(PollLoop(v) /\ UNCHANGED <<factory, dash, ws, by>>)
  /\ WF_playback(Relaying /\ UNCHANGED <<whep, dash, by>>)
  /\ WF_playback(RelayTask /\ UNCHANGED <<whep, dash, by>>)

\* A session that is deleted, or whose client has left, ends with all of its
\* tasks.
SessionsEnd == DeletedSessionEnds /\ RelayEnds
=============================================================================
