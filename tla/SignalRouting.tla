---------------------------- MODULE SignalRouting ----------------------------
(***************************************************************************)
(* The two services that keep a table of live peer sessions: the           *)
(* signalling server, which routes messages between the peers that         *)
(* registered (crates/lvqr-signal/src/signaling.rs), and the relay's       *)
(* accept loop with its gauge and its connection callback                  *)
(* (crates/lvqr-relay/src/server.rs).  MeshCoordinator has what the        *)
(* callbacks do to the tree.                                               *)
(***************************************************************************)
EXTENDS Naturals, FiniteSets, SequencesExt

CONSTANTS
  Sockets,        \* signalling connections
  PeerIds,        \* ids that clients register
  Unlisted,       \* no session
  MaxMail,        \* bound: messages sent
  Links,          \* relay connections
  MaxLinks        \* bound: relay connections accepted

ASSUME RoutingAssumption == Unlisted \notin Sockets /\ MaxMail \in Nat /\ MaxLinks \in Nat

VARIABLES
  session,        \* each handle_ws_connection
  directory,      \* SignalServer.peers: the session an id's sender belongs to
  mailed,         \* messages sent so far
  heard,          \* history: the ids each client has been told have left
  farewells       \* history: [by, to]: a session that ended, and who was listed then

signals == <<session, directory, mailed, heard, farewells>>

\* `left`: the ids the farewell has still to visit.
NewSession == [at |-> "new", id |-> Unlisted, wire |-> "open", mail |-> <<>>, left |-> {}]

SignalInit ==
  /\ session = [s \in Sockets |-> NewSession]
  /\ directory = [i \in PeerIds |-> Unlisted]
  /\ mailed = 0 /\ heard = [s \in Sockets |-> {}] /\ farewells = {}

\* A session's receiver is open while the table has its sender.
Deaf(s) == \A i \in PeerIds : directory[i] # s

Listed == {directory[i] : i \in PeerIds} \ {Unlisted}

Letter(kind, from, to) ==
  [kind |-> kind, from |-> from, to |-> to, no |-> IF kind = "signal" THEN mailed ELSE 0]

\* send_to_peer and forward_to_peer: to whoever holds the id now; without one
\* the message is dropped.
SendToPeer(sessions, to, letter) ==
  IF directory[to] = Unlisted THEN sessions
  ELSE [sessions EXCEPT ![directory[to]].mail = Append(@, letter)]

\* wait_for_register and register_peer: the insert replaces the sender of an
\* older session with the id.
RegisterPeer(s, i) ==
  /\ session[s].at = "new"
  /\ directory' = [directory EXCEPT ![i] = s]
  /\ session' = [session EXCEPT ![s].at = "joining", ![s].id = i]
  /\ UNCHANGED <<mailed, heard, farewells>>

\* The callback's answer goes to the id as well: a session that has replaced
\* this one gets it.
AnswerRegister(s) ==
  /\ session[s].at = "joining"
  /\ session' = SendToPeer([session EXCEPT ![s].at = "on"], session[s].id, Letter("assign", session[s].id, session[s].id))
  /\ UNCHANGED <<directory, mailed, heard, farewells>>

\* The first message is no valid Register: an error and the end.
RegisterRefused(s) ==
  /\ session[s].at = "new" /\ session' = [session EXCEPT ![s].at = "gone"]
  /\ UNCHANGED <<directory, mailed, heard, farewells>>

\* mutant: the sender's own id is where the message goes
ForwardAs(s, to) ==
  /\ session[s].at = "on" /\ session[s].wire = "open" /\ mailed < MaxMail
  /\ mailed' = mailed + 1
  /\ session' = SendToPeer(session, session[s].id, Letter("signal", session[s].id, to))
  /\ UNCHANGED <<directory, heard, farewells>>
\* handle_signal_message: an offer, an answer or a candidate.
Forward(s, to) ==
  /\ session[s].at = "on" /\ session[s].wire = "open" /\ mailed < MaxMail
  /\ mailed' = mailed + 1
  /\ session' = SendToPeer(session, to, Letter("signal", session[s].id, to))
  /\ UNCHANGED <<directory, heard, farewells>>

\* The other branch of the loop: a message goes out, also one sent before the
\* session was replaced; on a dead connection the send fails and the session
\* ends.
SendOut(s) ==
  /\ session[s].at = "on" /\ session[s].mail # <<>>
  /\ IF session[s].wire = "dead" THEN session' = [session EXCEPT ![s].at = "leaving"] /\ UNCHANGED heard
     ELSE /\ session' = [session EXCEPT ![s].mail = Tail(@)]
          /\ heard' = [heard EXCEPT ![s] = @ \cup {l.from : l \in {k \in {Head(session[s].mail)} : k.kind = "left"}}]
  /\ UNCHANGED <<directory, mailed, farewells>>

\* The client's Close only turns the receiving branch off; what is sent after
\* it fails.
ClientCloses(s) ==
  /\ session[s].at = "on" /\ session[s].wire = "open"
  /\ session' = [session EXCEPT ![s].wire = "dead"]
  /\ UNCHANGED <<directory, mailed, heard, farewells>>

\* A second Register, invalid JSON or an error ends the session; so does a
\* closed connection whose sender has been replaced and whose mail is out.
SessionBreaks(s) ==
  /\ session[s].at = "on"
  /\ session[s].wire = "open" \/ (Deaf(s) /\ session[s].mail = <<>>)
  /\ session' = [session EXCEPT ![s].at = "leaving"]
  /\ UNCHANGED <<directory, mailed, heard, farewells>>

\* mutant: the entry stays when the session ends
RemovePeerLate(s) ==
  /\ session[s].at = "leaving"
  /\ session' = [session EXCEPT ![s].at = "telling", ![s].left = PeerIds]
  /\ farewells' = farewells \cup {[by |-> s, to |-> o] : o \in Listed}
  /\ UNCHANGED <<directory, mailed, heard>>
\* remove_peer: by id, whoever holds it.
RemovePeer(s) ==
  /\ session[s].at = "leaving"
  /\ session' = [session EXCEPT ![s].at = "telling", ![s].left = PeerIds]
  /\ directory' = [directory EXCEPT ![session[s].id] = Unlisted]
  /\ farewells' = farewells \cup {[by |-> s, to |-> o] : o \in Listed \ {directory[session[s].id]}}
  /\ UNCHANGED <<mailed, heard>>

\* mutant: only the first peer is told
TellPeerOne(s, i) ==
  /\ session[s].at = "telling" /\ i \in session[s].left
  /\ session' = SendToPeer([session EXCEPT ![s].left = {}, ![s].at = "gone"], i, Letter("left", session[s].id, i))
  /\ UNCHANGED <<directory, mailed, heard, farewells>>
\* PeerLeft to one entry of the table after the other, in no particular order.
TellPeer(s, i) ==
  /\ session[s].at = "telling" /\ i \in session[s].left
  /\ session' = SendToPeer([session EXCEPT ![s].left = @ \ {i}, ![s].at = IF session[s].left = {i} THEN "gone" ELSE @],
                           i, Letter("left", session[s].id, i))
  /\ UNCHANGED <<directory, mailed, heard, farewells>>

\* Nothing is left to do: a session whose client has closed waits for a message
\* to send.
AllOver ==
  \A s \in Sockets :
    \/ session[s].at = "gone"
    \/ session[s].at = "on" /\ session[s].wire = "dead" /\ session[s].mail = <<>> /\ ~Deaf(s)

SignalNext ==
  \/ \E s \in Sockets :
       \/ RegisterRefused(s) \/ AnswerRegister(s) \/ SendOut(s) \/ ClientCloses(s)
       \/ SessionBreaks(s) \/ RemovePeer(s)
       \/ \E i \in PeerIds : RegisterPeer(s, i) \/ Forward(s, i) \/ TellPeer(s, i)
  \/ AllOver /\ UNCHANGED signals

-----------------------------------------------------------------------------
(* The relay's accept loop.                                                *)

VARIABLES
  link,           \* each connection's id, 0 for none
  accepts,        \* conn_id
  gauge,          \* connections_active
  callbacks       \* history: the calls of the connection callback

relayed == <<link, accepts, gauge, callbacks>>

RelayInit ==
  /\ link = [c \in Links |-> 0] /\ accepts = 0 /\ gauge = 0 /\ callbacks = <<>>

\* A bad name or a denied token ends the request before it counts.
LinkRefused(c) ==
  /\ link[c] = 0 /\ accepts < MaxLinks
  /\ accepts' = accepts + 1
  /\ UNCHANGED <<link, gauge, callbacks>>

\* The gauge and the callback come before the task of the connection.
LinkAccepted(c) ==
  /\ link[c] = 0 /\ accepts < MaxLinks
  /\ accepts' = accepts + 1 /\ gauge' = gauge + 1
  /\ callbacks' = Append(callbacks, [id |-> accepts + 1, up |-> TRUE])
  /\ link' = [link EXCEPT ![c] = accepts + 1]

\* mutant: a handshake that fails ends the task at once
LinkEndsQuietly(c) ==
  /\ link[c] # 0 /\ link' = [link EXCEPT ![c] = 0]
  /\ UNCHANGED <<accepts, gauge, callbacks>>
\* The handshake fails, or the session closes with or without an error: all of
\* them come to the same end.
LinkEnds(c) ==
  /\ link[c] # 0 /\ link' = [link EXCEPT ![c] = 0]
  /\ gauge' = gauge - 1 /\ callbacks' = Append(callbacks, [id |-> link[c], up |-> FALSE])
  /\ UNCHANGED accepts

RelayNext ==
  \/ \E c \in Links : LinkRefused(c) \/ LinkAccepted(c) \/ LinkEnds(c)
  \/ accepts = MaxLinks /\ UNCHANGED relayed

-----------------------------------------------------------------------------
(* Properties.                                                             *)

\* The table never leads to a session that has ended, although sessions share
\* ids and each removes by id (signaling.rs:271).
NoDeadEntry ==
  \A i \in PeerIds : directory[i] # Unlisted =>
    session[directory[i]].id = i /\ session[directory[i]].at \in {"joining", "on", "leaving"}

\* Whatever waits for a client is addressed to the id it registered, and signals
\* are in the order the server took them (signaling.rs:286).
MailAddressed ==
  \A s \in Sockets :
    LET mail == session[s].mail
    IN  /\ \A k \in DOMAIN mail : mail[k].to = session[s].id
        /\ \A j, k \in DOMAIN mail :
             j < k /\ mail[j].kind = "signal" /\ mail[k].kind = "signal" => mail[j].no < mail[k].no

\* Whoever was in the table when a session left, and still is when it is gone,
\* has been told or will be with the mail it has (signaling.rs:388).
FarewellsTold ==
  \A f \in farewells :
    session[f.by].at = "gone" /\ ~Deaf(f.to) =>
      \/ session[f.by].id \in heard[f.to]
      \/ \E k \in DOMAIN session[f.to].mail :
           session[f.to].mail[k].kind = "left" /\ session[f.to].mail[k].from = session[f.by].id

\* The gauge is the number of connections, and the mesh hears of each exactly
\* once that it came and at most once, later, that it went.
LinksCounted ==
  /\ gauge = Cardinality({c \in Links : link[c] # 0})
  /\ \A j \in DOMAIN callbacks :
       /\ \A k \in DOMAIN callbacks : callbacks[j] = callbacks[k] => j = k
       /\ ~callbacks[j].up => \E k \in 1..(j - 1) : callbacks[k].id = callbacks[j].id /\ callbacks[k].up

RoutingInv == NoDeadEntry /\ MailAddressed /\ FarewellsTold /\ LinksCounted
=============================================================================
