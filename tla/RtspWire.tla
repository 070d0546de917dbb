------------------------------ MODULE RtspWire ------------------------------
(***************************************************************************)
(* RTSP, its connections and the bytes on one of them.  The framing is     *)
(* looked at on a connection that records, the sessions with frames that   *)
(* arrive whole: each is explored while the other has nothing to do.       *)
(***************************************************************************)
EXTENDS RtspServer, RtpFraming

VARIABLE layer    \* "sessions" or "bytes"

wirevars == <<vars, rtp, layer>>

WireInit == Init /\ RtpInit /\ layer \in {"sessions", "bytes"} /\ (layer = "sessions" => hdr = 1)

WireNext ==
  /\ \/ layer = "sessions" /\ Next /\ UNCHANGED rtp
     \/ layer = "bytes" /\ RtpNext /\ UNCHANGED vars
  /\ UNCHANGED layer

\* The fairness of the server's tasks; the publisher may stop at any byte.
WireSpec ==
  /\ WireInit /\ [][WireNext]_wirevars
  /\ \A c \in Conns :
       /\ SF_wirevars(Shutdown(c) /\ UNCHANGED <<rtp, layer>>)
       /\ \A k \in 1..(MaxTasks - 1) :
            WF_wirevars(k \in DOMAIN drains[c] /\ DrainStep(c, k) /\ UNCHANGED <<rtp, layer>>)

\* The inventory, the registry and the bus agree about every name, through
\* set-ups, records, tear-downs and drains of several sessions on one
\* connection; and what a publisher sends on it arrives unharmed.
ConnectionsInv ==
  /\ TypeOK /\ RowsAreOpen /\ MediaHasInit /\ StopIsLast
  /\ RtpTypeOK /\ MediaIntact
=============================================================================
