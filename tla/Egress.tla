------------------------------- MODULE Egress -------------------------------
(***************************************************************************)
(* The live and the stored copy of a broadcast: a server with LL-HLS       *)
(* (--hls-port) or with the DVR archive (--archive-dir).  The two share no *)
(* state, so each is explored while the other has nothing to do.           *)
(***************************************************************************)
EXTENDS HlsPlaylist, Archive

VARIABLE serves    \* what the server was started with

egress == <<vars, archive, serves>>

EgressInit == Init /\ ArchiveInit /\ serves \in {"hls", "archive"}

EgressNext ==
  /\ \/ serves = "hls" /\ Next /\ UNCHANGED archive
     \/ serves = "archive" /\ ArchiveNext /\ UNCHANGED vars
  /\ UNCHANGED serves

EgressSpec ==
  /\ EgressInit /\ [][EgressNext]_egress
  /\ \A c \in Clients : WF_egress(Serve(c) /\ UNCHANGED <<archive, serves>>)
=============================================================================
