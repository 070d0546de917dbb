----------------------------- MODULE RtspServer -----------------------------
(***************************************************************************)
(* The RTSP server, crates/lvqr-rtsp/src/server.rs, session.rs, play.rs    *)
(* and rtcp.rs: the loop of each TCP connection, the ingest and playback   *)
(* sessions a client sets up on it, and the drain tasks PLAY spawns, each  *)
(* with its sender-report task.                                            *)
(*                                                                         *)
(* Answers and media all go through one bounded channel per connection.    *)
(* The loop is the channel's only reader, and also one of its writers: it  *)
(* puts the answer of a request into the channel, waiting when it is full. *)
(* What it takes out it writes to the socket, and until the client takes   *)
(* the bytes it looks neither at the channel nor at its token.             *)
(*                                                                         *)
(* A request's URI and headers are client input, so every session the      *)
(* connection has may be named.  Codecs are abstracted: which packetizer a *)
(* drain uses does not change what it does here.                           *)
(***************************************************************************)
EXTENDS LiveSessions, Integers, Sequences, SequencesExt

CONSTANTS
  Conns,       \* TCP connections
  Others,      \* broadcasts that another protocol publishes all along
  Played,      \* broadcasts that clients ask to play
  QueueCap,    \* capacity of the writer channel (256 in the code)
  MaxSessions, \* bound: sessions one connection opens
  MaxTasks     \* bound: sessions and drains of one connection together

ASSUME RtspAssumption ==
  /\ {QueueCap, MaxSessions, MaxTasks} \subseteq Nat \ {0}
  /\ Others \subseteq Broadcasts /\ Played \subseteq Broadcasts
  /\ None \notin Conns \cup Broadcasts

VARIABLES
  conn,      \* connection -> ConnectionState and where its loop is
  drains,    \* connection -> the drain tasks it spawned, in order
  forgotten, \* history: names a session recorded and that its connection will not stop
  second     \* history: names recorded on a connection beside or after another

history == <<forgotten, second>>
vars == <<conn, drains, history, shared>>

NoConn == [at |-> "idle", sess |-> <<>>, queue |-> 0, cancelled |-> FALSE,
           names |-> {}, init |-> {}]

Init ==
  /\ SharedInit({"rtsp"}, Others \X Tracks)
  /\ conn = [c \in Conns |-> NoConn]
  /\ drains = [c \in Conns |-> <<>>]
  /\ forgotten = {} /\ second = {}

Session == [state : {"Init", "Ready", "Playing", "Recording", "removed"},
            mode : {"Ingest", "Playback"}, name : Broadcasts, setup : SUBSET Tracks]
DrainTask == [track : Tracks, name : Broadcasts \cup {None},
              at : {"start", "wait", "send", "join", "done"},
              report : {"off", "early", "wait", "send", "done"}]

TypeOK ==
  /\ SharedTypeOK(Conns, {"rtsp"})
  /\ \A c \in Conns :
       /\ conn[c].at \in {"idle", "select", "writing", "blocked", "gone", "lost"}
       /\ Len(conn[c].sess) <= MaxSessions /\ \A s \in ToSet(conn[c].sess) : s \in Session
       /\ conn[c].queue \in 0..QueueCap
       /\ conn[c].cancelled \in BOOLEAN
       /\ conn[c].names \subseteq Broadcasts /\ conn[c].init \subseteq Tracks
       /\ Len(drains[c]) <= MaxTasks /\ \A d \in ToSet(drains[c]) : d \in DrainTask
  /\ forgotten \subseteq Broadcasts /\ second \subseteq Broadcasts

Running(c) == conn[c].at \in {"select", "writing", "blocked"}
\* conn_cancel is cancelled with its parent, the connection's own token.
Cancelled(c) == conn[c].cancelled \/ c \in killed
NamesIn(c, states) == {s.name : s \in {t \in ToSet(conn[c].sess) : t.state \in states}}
-----------------------------------------------------------------------------
(* The connection loop. *)

Accept(c) ==
  /\ "rtsp" \in listening /\ conn[c].at = "idle"
  /\ conn' = [conn EXCEPT ![c].at = "select"]
  /\ UNCHANGED <<drains, history, shared>>

\* The select arm of the channel: socket.write_all(..).await of one message.
Write(c) ==
  /\ conn[c].at = "select" /\ conn[c].queue > 0
  /\ conn' = [conn EXCEPT ![c].at = "writing", ![c].queue = @ - 1]
  /\ UNCHANGED <<drains, history, shared>>

\* The client's side has taken the bytes.
Written(c) ==
  /\ conn[c].at = "writing"
  /\ conn' = [conn EXCEPT ![c].at = "select"]
  /\ UNCHANGED <<drains, history, shared>>

\* A read error leaves the function at once: none of the exit code runs,
\* and only the receiver is dropped.
ReadFailed(c) ==
  /\ conn[c].at = "select"
  /\ conn' = [conn EXCEPT ![c] = [NoConn EXCEPT !.at = "lost", !.cancelled = Cancelled(c)]]
  /\ forgotten' = forgotten \cup NamesIn(c, {"Recording"})
  /\ DropToken(c)
  /\ UNCHANGED <<drains, second, rows, listening, registry, live>>

\* mutant: only playback sessions are stopped
ExitPlayers(c) ==
  /\ conn' = [conn EXCEPT ![c] = [NoConn EXCEPT !.at = "gone", !.cancelled = TRUE]]
  /\ BroadcastStopped(NamesIn(c, {"Playing"}))
  /\ deregister(conn[c].names)
  /\ DropToken(c)
  /\ UNCHANGED <<drains, history, listening, registry>>

\* mutant: the drains are left to find out from the channel
ExitNoCancel(c) ==
  /\ conn' = [conn EXCEPT ![c] = [NoConn EXCEPT !.at = "gone", !.cancelled = Cancelled(c)]]
  /\ BroadcastStopped(NamesIn(c, {"Playing", "Recording"}))
  /\ deregister(conn[c].names)
  /\ DropToken(c)
  /\ UNCHANGED <<drains, history, listening, registry>>

\* Every other way out of the loop: the drains are cancelled, the stop of
\* each session that plays or records is announced, the rows are removed.
Exit(c) ==
  /\ conn' = [conn EXCEPT ![c] = [NoConn EXCEPT !.at = "gone", !.cancelled = TRUE]]
  /\ BroadcastStopped(NamesIn(c, {"Playing", "Recording"}))
  /\ deregister(conn[c].names)
  /\ DropToken(c)
  /\ UNCHANGED <<drains, history, listening, registry>>

\* End of file, or a failed write.
Closed(c) == conn[c].at \in {"select", "writing"} /\ Exit(c)

\* mutant: the loop watches the child token
ShutdownOfChild(c) == conn[c].at = "select" /\ conn[c].cancelled /\ Exit(c)

\* The select arm of the token.
Shutdown(c) == conn[c].at = "select" /\ c \in killed /\ Exit(c)
-----------------------------------------------------------------------------
(* Requests, the select arm of the socket.  Several messages of one read   *)
(* are as many steps without another arm in between.  The answer goes      *)
(* into the channel; when that is full the loop waits for room that nobody *)
(* but itself could make, hence for ever.                                  *)

\* mutant: an unbounded channel
AnsweredUnbounded(c, new) == conn' = [conn EXCEPT ![c] = [new EXCEPT !.queue = @ + 1]]

Answered(c, new) ==
  conn' = [conn EXCEPT ![c] =
             IF new.queue < QueueCap THEN [new EXCEPT !.queue = @ + 1]
                                     ELSE [new EXCEPT !.at = "blocked"]]

\* OPTIONS, DESCRIBE, GET_PARAMETER, a redirect to the owning node, and
\* every request that is refused: no change but the answer.
Reply(c) ==
  /\ conn[c].at = "select"
  /\ Answered(c, conn[c])
  /\ UNCHANGED <<drains, history, shared>>

\* The bounds on how many sessions a client opens.
MayOpen(c) == Len(conn[c].sess) < MaxSessions /\ Len(conn[c].sess) + Len(drains[c]) < MaxTasks

NewSession(mode, b) == [state |-> "Init", mode |-> mode, name |-> b, setup |-> {}]

\* mutant: the connection remembers only the last name it registered
AnnounceLast(c, b) ==
  /\ conn[c].at = "select" /\ MayOpen(c)
  /\ register(b, c)
  /\ Answered(c, [conn[c] EXCEPT !.sess = Append(@, NewSession("Ingest", b)), !.names = {b}])
  /\ UNCHANGED <<drains, history, killed, listening, registry, live>>

\* ANNOUNCE that the auth provider admits.
Announce(c, b) ==
  /\ conn[c].at = "select" /\ MayOpen(c)
  /\ register(b, c)
  /\ Answered(c, [conn[c] EXCEPT !.sess = Append(@, NewSession("Ingest", b)),
                                 !.names = @ \cup {b}])
  /\ UNCHANGED <<drains, history, killed, listening, registry, live>>

Alive(c, i) == i \in DOMAIN conn[c].sess /\ conn[c].sess[i].state # "removed"

\* Which channels an ingest session uses makes no difference here.
SetUp(s, t) ==
  [s EXCEPT !.setup = IF s.mode = "Playback" THEN @ \cup {t} ELSE {}, !.state = "Ready"]

\* SETUP, with the id of a session or on whichever session comes first.  A
\* session that records falls back to Ready.
Setup(c, i, t) ==
  /\ conn[c].at = "select" /\ Alive(c, i)
  /\ Answered(c, [conn[c] EXCEPT !.sess[i] = SetUp(@, t)])
  /\ forgotten' = IF conn[c].sess[i].state = "Recording"
                    THEN forgotten \cup {conn[c].sess[i].name} ELSE forgotten
  /\ UNCHANGED <<drains, second, shared>>

\* SETUP on a connection without sessions opens a playback session.
SetupFirst(c, b, t) ==
  /\ conn[c].at = "select" /\ MayOpen(c)
  /\ \A i \in DOMAIN conn[c].sess : ~ Alive(c, i)
  /\ Answered(c, [conn[c] EXCEPT !.sess = Append(@, SetUp(NewSession("Playback", b), t))])
  /\ UNCHANGED <<drains, history, shared>>

CanPlay(c, i) ==
  Alive(c, i) /\ conn[c].sess[i].state = "Ready" /\ conn[c].sess[i].mode = "Playback"

SpawnedFor(s) ==
  [k \in 1..Cardinality(s.setup) |->
     [track |-> IF k = 1 /\ Video \in s.setup THEN Video ELSE Audio,
      name |-> s.name, at |-> "start", report |-> "off"]]

\* PLAY: a drain for each track that was set up.
Play(c, i) ==
  /\ conn[c].at = "select" /\ CanPlay(c, i)
  /\ Len(conn[c].sess) + Len(drains[c]) + Cardinality(conn[c].sess[i].setup) <= MaxTasks
  /\ drains' = [drains EXCEPT ![c] = @ \o SpawnedFor(conn[c].sess[i])]
  /\ Answered(c, [conn[c] EXCEPT !.sess[i].state = "Playing"])
  /\ UNCHANGED <<history, shared>>

\* PLAY of a codec that cannot be packetized: refused with the session
\* already in its playing state.
PlayUnsupported(c, i) ==
  /\ conn[c].at = "select" /\ CanPlay(c, i)
  /\ \E t \in conn[c].sess[i].setup : <<conn[c].sess[i].name, t>> \in ready
  /\ Answered(c, [conn[c] EXCEPT !.sess[i].state = "Playing"])
  /\ UNCHANGED <<drains, history, shared>>

Record(c, i) ==
  /\ conn[c].at = "select" /\ Alive(c, i)
  /\ conn[c].sess[i].state = "Ready" /\ conn[c].sess[i].mode = "Ingest"
  /\ Answered(c, [conn[c] EXCEPT !.sess[i].state = "Recording"])
  /\ LET names == NamesIn(c, {"Recording"}) \cup {conn[c].sess[i].name} IN
     second' = IF Cardinality(names) > 1 \/ conn[c].init # {} THEN second \cup names ELSE second
  /\ UNCHANGED <<drains, forgotten, shared>>

\* TEARDOWN forgets the session and leaves its drains and its row alone.
Teardown(c, i) ==
  /\ conn[c].at = "select" /\ Alive(c, i)
  /\ Answered(c, [conn[c] EXCEPT !.sess[i].state = "removed", !.sess[i].setup = {}])
  /\ forgotten' = IF conn[c].sess[i].state = "Recording"
                    THEN forgotten \cup {conn[c].sess[i].name} ELSE forgotten
  /\ UNCHANGED <<drains, second, shared>>
-----------------------------------------------------------------------------
(* Media from a publisher: the frame goes to the first session found       *)
(* recording.  Parameter sets and the init flags belong to the connection. *)

\* mutant: an init segment without parameter sets
FrameNoWait(c, i, t, sets, slices) ==
  /\ conn[c].at = "select" /\ Alive(c, i) /\ conn[c].sess[i].state = "Recording"
  /\ conn' = [conn EXCEPT ![c].init = @ \cup {t}]
  /\ IF sets THEN publish_init(conn[c].sess[i].name, t) ELSE UNCHANGED ready
  /\ IF slices THEN publish_fragment(conn[c].sess[i].name, t) ELSE UNCHANGED <<fed, live>>
  /\ UNCHANGED <<drains, history, inventory>>

\* An RTP packet that completes an access unit.  Video waits for parameter
\* sets in the stream, audio has its configuration from the ANNOUNCE.
Frame(c, i, t, sets, slices) ==
  /\ conn[c].at = "select" /\ Alive(c, i) /\ conn[c].sess[i].state = "Recording"
  /\ t = Audio => slices /\ ~ sets
  /\ LET b == conn[c].sess[i].name
         known == t = Audio \/ sets \/ Video \in conn[c].init IN
     /\ conn' = [conn EXCEPT ![c].init = IF known THEN @ \cup {t} ELSE @]
     /\ IF known /\ t \notin conn[c].init THEN publish_init(b, t) ELSE UNCHANGED ready
     /\ IF known /\ slices THEN publish_fragment(b, t) ELSE UNCHANGED <<fed, live>>
  /\ UNCHANGED <<drains, history, inventory>>
-----------------------------------------------------------------------------
(* The drain tasks of play.rs and the sender reports of rtcp.rs. *)

Ended == [track |-> Video, name |-> None, at |-> "done", report |-> "off"]
Drain(c, k) == drains[c][k]
Put(c, k, d) == drains' = [drains EXCEPT ![c][k] = d]
Room(c) == Running(c) /\ conn[c].queue < QueueCap
Enqueue(c) == conn' = [conn EXCEPT ![c].queue = @ + 1]

\* Without a broadcaster, or with an init segment that is no longer of the
\* codec PLAY saw, the task returns.
DrainAbsent(c, k) ==
  LET d == Drain(c, k) IN
  /\ d.at = "start"
  /\ <<d.name, d.track>> \notin ready \cup fed \/ d.track = Video
  /\ Put(c, k, Ended)
  /\ UNCHANGED <<conn, history, shared>>

\* Subscribe, start the report task; video sends its parameter sets first.
DrainStart(c, k) ==
  LET d == Drain(c, k) IN
  /\ d.at = "start" /\ <<d.name, d.track>> \in ready \cup fed
  /\ Put(c, k, [d EXCEPT !.report = "early",
                         !.at = IF d.track = Video /\ <<d.name, Video>> \in ready
                                  THEN "send" ELSE "wait"])
  /\ UNCHANGED <<conn, history, shared>>

DrainFragment(c, k) ==
  LET d == Drain(c, k) IN
  /\ d.at = "wait" /\ <<d.name, d.track>> \in fed
  /\ Put(c, k, [d EXCEPT !.at = "send"])
  /\ UNCHANGED <<conn, history, shared>>

\* send().await on the channel: the token is not looked at meanwhile.
DrainSend(c, k) ==
  LET d == Drain(c, k) IN
  /\ d.at = "send" /\ Room(c)
  /\ Enqueue(c)
  /\ Put(c, k, [d EXCEPT !.at = "wait", !.report = IF @ = "early" THEN "wait" ELSE @])
  /\ UNCHANGED <<history, shared>>

\* The token or a closed channel ends the task.  The token it cancels, so
\* that its report task ends, is the connection's.  (The broadcaster is held
\* by the task itself and never closes under it.)
DrainEnd(c, k) ==
  LET d == Drain(c, k) IN
  /\ \/ d.at = "wait" /\ Cancelled(c)
     \/ d.at = "send" /\ ~ Running(c)
  /\ Put(c, k, [d EXCEPT !.at = "join"])
  /\ conn' = [conn EXCEPT ![c].cancelled = TRUE]
  /\ UNCHANGED <<history, shared>>

DrainJoin(c, k) ==
  LET d == Drain(c, k) IN
  /\ d.at = "join" /\ d.report = "done"
  /\ Put(c, k, Ended)
  /\ UNCHANGED <<conn, history, shared>>

\* The timer fires; before the first packet that has no effect.
ReportTick(c, k) ==
  LET d == Drain(c, k) IN
  /\ d.report = "wait"
  /\ Put(c, k, [d EXCEPT !.report = "send"])
  /\ UNCHANGED <<conn, history, shared>>

ReportSend(c, k) ==
  LET d == Drain(c, k) IN
  /\ d.report = "send" /\ Room(c)
  /\ Enqueue(c)
  /\ Put(c, k, [d EXCEPT !.report = "wait"])
  /\ UNCHANGED <<history, shared>>

ReportEnd(c, k) ==
  LET d == Drain(c, k) IN
  /\ \/ d.report \in {"early", "wait"} /\ Cancelled(c)
     \/ d.report = "send" /\ ~ Running(c)
  /\ Put(c, k, [d EXCEPT !.report = "done"])
  /\ UNCHANGED <<conn, history, shared>>
-----------------------------------------------------------------------------
Loop(c) == Accept(c) \/ Write(c) \/ Written(c) \/ ReadFailed(c) \/ Closed(c) \/ Shutdown(c)

Request(c) ==
  \/ Reply(c)
  \/ \E b \in Broadcasts : Announce(c, b)
  \/ \E b \in Played, t \in Tracks : SetupFirst(c, b, t)
  \/ \E i \in DOMAIN conn[c].sess :
       \/ Play(c, i) \/ PlayUnsupported(c, i) \/ Record(c, i) \/ Teardown(c, i)
       \/ \E t \in Tracks : Setup(c, i, t) \/ \E sets, slices \in BOOLEAN : Frame(c, i, t, sets, slices)

\* What a drain and its report task do on their own.
DrainStep(c, k) ==
  \/ DrainStart(c, k) \/ DrainAbsent(c, k) \/ DrainSend(c, k) \/ DrainEnd(c, k) \/ DrainJoin(c, k)
  \/ ReportSend(c, k) \/ ReportEnd(c, k)

Tasks(c) == \E k \in DOMAIN drains[c] : DrainStep(c, k) \/ DrainFragment(c, k) \/ ReportTick(c, k)

Admin ==
  /\ \/ \E b \in Broadcasts : StopBroadcast(b)
     \/ StopListener("rtsp", {c \in Conns : Running(c)})
  /\ UNCHANGED <<conn, drains, history>>

Next ==
  \/ \E c \in Conns : Loop(c) \/ Request(c) \/ Tasks(c)
  \/ Admin

\* The runtime polls every task that can run, and the select chooses among
\* its ready arms at random, so a token that is cancelled is not passed over for
\* ever by a loop that keeps coming back to it.  No client has to read: a
\* write may take for ever.
Fairness ==
  \A c \in Conns :
    /\ SF_vars(Shutdown(c))
    /\ \A k \in 1..(MaxTasks - 1) : WF_vars(k \in DOMAIN drains[c] /\ DrainStep(c, k))

Spec == Init /\ [][Next]_vars /\ Fairness
-----------------------------------------------------------------------------
\* The inventory never shows a connection that has closed, however many
\* names it announced and whatever became of their sessions.  (A connection
\* that left on a read error keeps its rows.)
RowsAreOpen ==
  \A b \in Broadcasts : rows[b] # None => Running(rows[b]) \/ conn[rows[b]].at = "lost"

\* A fragment finds an init segment on its track.  The exception is a name
\* recorded beside or after another one on the same connection: the init
\* flags belong to the connection, and it may get fragments only.
MediaHasInit == \A m \in fed : m \in ready \/ m[1] \in second

\* A broadcast that was fed and not stopped has a session recording it,
\* unless the session was torn down, set up again or lost by a read error,
\* after which nobody announces the stop.
StopIsLast ==
  \A b \in live : b \in forgotten \/ \E c \in Conns : Running(c) /\ b \in NamesIn(c, {"Recording"})

\* A connection the operator stops ends, unless its loop stays away from its
\* select for ever: in a write to a client that does not read, or waiting for
\* room in the channel that it alone empties.  (One that had left on a read
\* error before is only told so through the row it left behind.)
KickHonoured == <>[](\A c \in killed : conn[c].at \in {"lost", "blocked", "writing"})

\* When a connection has closed, all of its drains and report tasks end,
\* parked or sending, and none is left waiting for the other.  After a read
\* error, which skips conn_cancel.cancel(), those end that have something to
\* send; a drain parked on a source that is silent lingers.
DrainsEnd ==
  \A c \in Conns :
    /\ conn[c].at = "gone" ~> \A d \in ToSet(drains[c]) : d.at = "done"
    /\ conn[c].at = "lost" ~> \A d \in ToSet(drains[c]) : d.at \in {"wait", "done"}
=============================================================================
