-------------------------- MODULE RtmpIngestProofs ---------------------------
(***************************************************************************)
(* Proofs about RtmpIngest: what the bridge's map, the registry and the    *)
(* bus say of a name agree, for any number of connections and names.       *)
(*                                                                         *)
(* The invariant counts, for every name, the callbacks that have announced *)
(* a stream and not yet put it in the map, and those that have taken one   *)
(* out and not yet announced it.  Where sessions of one name do not        *)
(* overlap, it says who holds the name.                                    *)
(***************************************************************************)
EXTENDS RtmpIngest, FiniteSetTheorems, TLAPS

Publishing == {"accept", "on_publish", "insert", "register"}
Dropping == {"stop", "drop_video", "drop_audio"}

\* A connection publishes a name, has it as its current key, or is tearing it
\* down.
Holds(c, n) ==
  pc[c] # "closed" /\ (n \in pubs[c] \/ key[c] = n \/ (pc[c] \in Unpublishing /\ name[c] = n))
OneHolder == exclusive => \A n \in Names, c, d \in Conns : Holds(c, n) /\ Holds(d, n) => c = d

\* While a publish is in progress it is of the current key.
KeyNamed == \A c \in Conns : pc[c] \in Publishing => key[c] = name[c]

\* The callbacks between an event and its change of the map.
Pending(n) == {c \in Conns : pc[c] \in {"insert", "stop"} /\ name[c] = n}
Counted ==
  \A n \in Names :
    /\ IsFiniteSet(Pending(n))
    /\ stopped[n] + Cardinality(Pending(n)) + (IF Live(n) THEN 1 ELSE 0) <= started[n]

\* A stream that is being torn down is not in the map, a known configuration
\* is that of the broadcaster, and the last event is that of the map.
NotLiveEmpty == \A n \in Names : ~Live(n) => streams[n].init = {}
TornDown == exclusive => \A c \in Conns : pc[c] \in Dropping => ~Live(name[c])
Headed == exclusive => \A n \in Names, t \in Media : t \in streams[n].init => reg[n][t] = "init"
Told == exclusive => \A n \in Names : lastEvent[n] = "started" <=> (Live(n) \/ Pending(n) # {})

IInv ==
  /\ TypeOK /\ NoLeakedBroadcaster /\ InitBeforeMedia
  /\ OneHolder /\ KeyNamed /\ Counted /\ NotLiveEmpty /\ TornDown /\ Headed /\ Told

LEMMA IInvImplies == IInv => BridgeInv
<1> SUFFICES ASSUME IInv PROVE BridgeInv
  OBVIOUS
<1>1. StopsMatchStarts
  <2> SUFFICES ASSUME NEW n \in Names PROVE stopped[n] + (IF Live(n) THEN 1 ELSE 0) <= started[n]
    BY DEF StopsMatchStarts
  <2>1. IsFiniteSet(Pending(n)) /\ stopped[n] + Cardinality(Pending(n)) + (IF Live(n) THEN 1 ELSE 0) <= started[n]
    BY DEF IInv, Counted
  <2>2. Cardinality(Pending(n)) \in Nat /\ stopped[n] \in Nat /\ started[n] \in Nat
    BY <2>1, FS_CardinalityType DEF IInv, TypeOK
  <2> QED BY <2>1, <2>2
<1>2. BusAgreesWithBridge
  <2> SUFFICES ASSUME exclusive, \A c \in Conns : pc[c] \in {"new", "loop", "exit", "closed"} \cup Writing, NEW n \in Names
               PROVE  lastEvent[n] = "started" <=> Live(n)
    BY DEF BusAgreesWithBridge, Writing
  <2>1. Pending(n) = {}
    BY DEF Pending, Writing
  <2> QED BY <2>1 DEF IInv, Told
<1> QED BY <1>1, <1>2 DEF IInv, BridgeInv

LEMMA InitIInv == Init => IInv
<1> SUFFICES ASSUME Init PROVE IInv
  OBVIOUS
<1>1. NoStream \in [owner : Conns \cup {None}, init : SUBSET Media] /\ NoStream.owner = None /\ NoStream.init = {}
  BY DEF NoStream
<1>2. 0 \in 0..MaxPublish
  BY RtmpAssumption
<1>3. \A c \in Conns : pc[c] = "new" /\ key[c] = None /\ pubs[c] = {}
  BY DEF Init
<1>4. \A n \in Names : ~Live(n) /\ streams[n].init = {} /\ Pending(n) = {} /\ n # None
  BY <1>1, <1>3, RtmpAssumption DEF Init, Live, Pending
<1>5. TypeOK
  BY <1>1, <1>2 DEF Init, TypeOK, Unpublishing, Places, Writing
<1>6. \A n \in Names, t \in Media : reg[n][t] = "none"
  BY DEF Init, Media, Tracks
<1>7. NoLeakedBroadcaster /\ InitBeforeMedia /\ NotLiveEmpty /\ TornDown /\ Headed
  BY <1>3, <1>4, <1>6 DEF NoLeakedBroadcaster, InitBeforeMedia, NotLiveEmpty, TornDown, Headed, Dropping, Init
<1>8. OneHolder /\ KeyNamed
  BY <1>3, <1>4 DEF OneHolder, Holds, KeyNamed, Publishing, Unpublishing, Places, Writing
<1>9. Counted
  <2> SUFFICES ASSUME NEW n \in Names
               PROVE  IsFiniteSet(Pending(n)) /\ stopped[n] + Cardinality(Pending(n)) + 0 <= started[n]
    BY <1>4 DEF Counted
  <2>1. Pending(n) = {} /\ stopped[n] = 0 /\ started[n] = 0
    BY <1>4 DEF Init
  <2> QED BY <2>1, FS_EmptySet
<1>10. Told
  BY <1>4 DEF Told, Init
<1> QED BY <1>5, <1>7, <1>8, <1>9, <1>10 DEF IInv

-----------------------------------------------------------------------------
(* Types.                                                                  *)

LEMMA TypeStep == ASSUME TypeOK, [Next]_vars PROVE TypeOK'
<1>0. MaxPublish \in Nat /\ \A n \in Names : n # None
  BY RtmpAssumption
<1>1. CASE UNCHANGED vars
  BY <1>1 DEF vars, conn, bus, TypeOK
<1>2. CASE \E n \in Names : StopSession(n)
  <2>1. PICK n \in Names : StopSession(n)
    BY <1>2
  <2> QED BY <2>1 DEF StopSession, conn, bus, TypeOK
<1>3. ASSUME NEW c \in Conns, Teardown(c), pc[c] \in {"loop", "reject"} PROVE TypeOK'
  <2>1. CASE app[c] /\ key[c] # None
    <3>1. /\ name' = [name EXCEPT ![c] = key[c]] /\ after' = [after EXCEPT ![c] = "exit"]
          /\ pc' = [pc EXCEPT ![c] = "unpublish"]
          /\ UNCHANGED <<exclusive, app, key, pubs, asked, guard, cancelled, streams, reg,
                         started, stopped, lastEvent, sessions, bare>>
      BY <1>3, <2>1 DEF Teardown, Goto, bus
    <3>2. pc' \in [Conns -> Places]
      BY <3>1 DEF TypeOK, Unpublishing, Places, Writing
    <3>3. name' \in [Conns -> Names \cup {None}] /\ after' \in [Conns -> {"loop", "exit"}]
      BY <3>1 DEF TypeOK
    <3>4. \A d \in Conns :
            pc'[d] \in {"accept", "on_publish", "insert", "register"} \cup Unpublishing => name'[d] # None
      BY <2>1, <3>1 DEF TypeOK, Unpublishing, Places, Writing
    <3> QED BY <3>1, <3>2, <3>3, <3>4 DEF TypeOK
  <2>2. CASE ~ (app[c] /\ key[c] # None)
    BY <1>3, <2>2 DEF Teardown, Goto, bus, TypeOK, Unpublishing, Places, Writing
  <2> QED BY <2>1, <2>2
<1>4. ASSUME NEW c \in Conns,
             Accept(c) \/ LeaveAtOnce(c) \/ Respond(c) \/ Written(c) \/ UnsupportedCodec(c)
             \/ OnPublishDeclined(c) \/ Register(c) \/ Deregister(c)
      PROVE TypeOK'
  <2>1. CASE Accept(c) \/ LeaveAtOnce(c) \/ Respond(c) \/ Written(c) \/ UnsupportedCodec(c)
    <3>1. PICK w \in {"loop", "exit", "reply", "reject", "on_publish"} :
             pc' = [pc EXCEPT ![c] = w] /\ (w = "on_publish" => pc[c] = "accept")
      BY <2>1 DEF Accept, LeaveAtOnce, Respond, Written, UnsupportedCodec, Goto
    <3>2. UNCHANGED <<conn, cancelled, streams, reg, bus, sessions, bare>>
      BY <2>1 DEF Accept, LeaveAtOnce, Respond, Written, UnsupportedCodec
    <3>3. /\ pc' \in [Conns -> Places]
          /\ \A d \in Conns : pc'[d] \in {"accept", "on_publish", "insert", "register"} \cup Unpublishing =>
                               pc[d] \in {"accept", "on_publish", "insert", "register"} \cup Unpublishing
      BY <3>1 DEF TypeOK, Unpublishing, Places, Writing
    <3> QED BY <3>2, <3>3 DEF conn, bus, TypeOK
  <2>2. CASE OnPublishDeclined(c)
    BY <2>2 DEF OnPublishDeclined, Goto, conn, bus, TypeOK, Unpublishing, Places, Writing
  <2>4. CASE Register(c)
    <3>1. name[c] \in Names
      BY <2>4 DEF Register, TypeOK
    <3> QED BY <2>4, <3>1 DEF Register, Goto, conn, bus, TypeOK, Unpublishing, Places, Writing
  <2>3. CASE Deregister(c)
    BY <2>3 DEF Deregister, Goto, conn, bus, TypeOK, Unpublishing, Places, Writing
  <2> QED BY <1>4, <2>1, <2>2, <2>3, <2>4
<1>5. ASSUME NEW c \in Conns, ConnectionRequested(c) PROVE TypeOK'
  BY <1>5 DEF ConnectionRequested, Goto, bus, TypeOK, Places, Unpublishing, Writing
<1>6. ASSUME NEW c \in Conns, NEW n \in Names, PublishStreamRequested(c, n) PROVE TypeOK'
  BY <1>0, <1>6 DEF PublishStreamRequested, Goto, bus, TypeOK, Unpublishing, Places, Writing
<1>7. ASSUME NEW c \in Conns, NEW n \in Names, PublishStreamFinished(c, n) PROVE TypeOK'
  BY <1>0, <1>7 DEF PublishStreamFinished, Goto, bus, TypeOK, Unpublishing, Places, Writing
<1>8. ASSUME NEW c \in Conns, NEW n \in Names, CuePoint(c, n) PROVE TypeOK'
  BY <1>8 DEF CuePoint, conn, bus, TypeOK, Tracks, Media
<1>9. ASSUME NEW c \in Conns, NEW n \in Names, NEW t \in Media, SequenceHeader(c, n, t) PROVE TypeOK'
  BY <1>9, ZenonT(60) DEF SequenceHeader, conn, bus, TypeOK, Tracks
<1>10. ASSUME NEW c \in Conns, NEW n \in Names, NEW t \in Media, Frame(c, n, t) PROVE TypeOK'
  <2>1. reg' = [reg EXCEPT ![n][t] = IF reg[n][t] = "none" THEN "noinit" ELSE reg[n][t]]
        /\ bare' = (bare \/ reg[n][t] # "init") /\ UNCHANGED <<pc, conn, cancelled, streams, bus, sessions>>
    BY <1>10 DEF Frame
  <2>2. reg' \in [Names -> [Tracks -> {"none", "noinit", "init"}]]
    <3>1. reg[n] \in [Tracks -> {"none", "noinit", "init"}] /\ t \in Tracks
      BY DEF TypeOK, Tracks
    <3>2. (IF reg[n][t] = "none" THEN "noinit" ELSE reg[n][t]) \in {"none", "noinit", "init"}
      BY <3>1
    <3> QED BY <2>1, <3>1, <3>2 DEF TypeOK
  <2>3. bare' \in BOOLEAN
    BY <2>1 DEF TypeOK
  <2> QED BY <2>1, <2>2, <2>3 DEF conn, bus, TypeOK
<1>11. ASSUME NEW c \in Conns,
              OnPublishStarted(c) \/ OnPublishInsert(c) \/ UnpublishRemove(c) \/ UnpublishStop(c)
              \/ UnpublishDropVideo(c) \/ UnpublishDropAudio(c)
       PROVE TypeOK'
  <2>1. /\ UNCHANGED <<exclusive, name, after, app, key, pubs, asked, guard, cancelled, sessions, bare>>
        /\ pc[c] \in {"on_publish", "insert"} \cup Unpublishing
    BY <1>11 DEF OnPublishStarted, OnPublishInsert, UnpublishRemove, UnpublishStop, UnpublishDropVideo,
                 UnpublishDropAudio, conn, Unpublishing
  <2>2. name[c] \in Names /\ after[c] \in {"loop", "exit"}
    BY <2>1 DEF TypeOK
  <2>3. PICK w \in {"insert", "register", "loop", "exit"} \cup Unpublishing : pc' = [pc EXCEPT ![c] = w]
    BY <1>11, <2>2 DEF OnPublishStarted, OnPublishInsert, UnpublishRemove, UnpublishStop, UnpublishDropVideo,
                       UnpublishDropAudio, Goto, Unpublishing
  <2>4. /\ pc' \in [Conns -> Places]
        /\ \A d \in Conns : pc'[d] \in Publishing \cup Unpublishing => name[d] # None
    <3>1. pc \in [Conns -> Places]
      BY DEF TypeOK
    <3>2. \A d \in Conns : pc[d] \in Publishing \cup Unpublishing => name[d] # None
      BY DEF TypeOK, Publishing
    <3> QED BY <1>0, <2>2, <2>3, <3>1, <3>2 DEF Places, Publishing, Unpublishing
  <2>5. streams' \in [Names -> [owner : Conns \cup {None}, init : SUBSET Media]]
    <3>1. streams' = streams \/ \E d \in Conns \cup {None} : streams' = [streams EXCEPT ![name[c]] = [owner |-> d, init |-> {}]]
      BY <1>11 DEF OnPublishStarted, OnPublishInsert, UnpublishRemove, UnpublishStop, UnpublishDropVideo,
                         UnpublishDropAudio, NoStream
    <3>2. \A d \in Conns \cup {None} : [owner |-> d, init |-> {}] \in [owner : Conns \cup {None}, init : SUBSET Media]
      OBVIOUS
    <3>3. streams \in [Names -> [owner : Conns \cup {None}, init : SUBSET Media]]
      BY DEF TypeOK
    <3>4. ASSUME NEW d \in Conns \cup {None}, streams' = [streams EXCEPT ![name[c]] = [owner |-> d, init |-> {}]]
          PROVE  streams' \in [Names -> [owner : Conns \cup {None}, init : SUBSET Media]]
      <4> DEFINE x == [owner |-> d, init |-> {}]
      <4>1. x \in [owner : Conns \cup {None}, init : SUBSET Media] /\ streams' = [streams EXCEPT ![name[c]] = x]
        BY <3>2, <3>4
      <4> HIDE DEF x
      <4> QED BY <3>3, <4>1
    <3> QED BY <3>1, <3>3, <3>4
  <2>6. reg' \in [Names -> [Tracks -> {"none", "noinit", "init"}]]
    <3>1. reg' = reg \/ \E t \in Tracks : reg' = [reg EXCEPT ![name[c]][t] = "none"]
      BY <1>11 DEF OnPublishStarted, OnPublishInsert, UnpublishRemove, UnpublishStop, UnpublishDropVideo,
                         UnpublishDropAudio, Tracks, Media
    <3>2. reg \in [Names -> [Tracks -> {"none", "noinit", "init"}]]
      BY DEF TypeOK
    <3>3. ASSUME NEW t \in Tracks, reg' = [reg EXCEPT ![name[c]][t] = "none"]
          PROVE  reg' \in [Names -> [Tracks -> {"none", "noinit", "init"}]]
      <4>1. reg[name[c]] \in [Tracks -> {"none", "noinit", "init"}]
        BY <2>2, <3>2
      <4>2. [reg[name[c]] EXCEPT ![t] = "none"] \in [Tracks -> {"none", "noinit", "init"}]
        BY <4>1
      <4> QED BY <3>2, <3>3, <4>2
    <3> QED BY <3>1, <3>2, <3>3
  <2>7. /\ started' \in [Names -> Nat] /\ stopped' \in [Names -> Nat]
        /\ lastEvent' \in [Names -> {"none", "started", "stopped"}]
    <3>1. \/ started' = started /\ stopped' = stopped /\ lastEvent' = lastEvent
          \/ /\ started' = [started EXCEPT ![name[c]] = @ + 1] /\ stopped' = stopped
             /\ lastEvent' = [lastEvent EXCEPT ![name[c]] = "started"]
          \/ /\ stopped' = [stopped EXCEPT ![name[c]] = @ + 1] /\ started' = started
             /\ lastEvent' = [lastEvent EXCEPT ![name[c]] = "stopped"]
      BY <1>11 DEF OnPublishStarted, OnPublishInsert, UnpublishRemove, UnpublishStop, UnpublishDropVideo,
                         UnpublishDropAudio, bus
    <3>2. /\ started \in [Names -> Nat] /\ stopped \in [Names -> Nat]
          /\ lastEvent \in [Names -> {"none", "started", "stopped"}]
      BY DEF TypeOK
    <3>3. started[name[c]] + 1 \in Nat /\ stopped[name[c]] + 1 \in Nat
      BY <2>2, <3>2
    <3> QED BY <3>1, <3>2, <3>3
  <2> QED BY <2>1, <2>4, <2>5, <2>6, <2>7 DEF TypeOK, Publishing
<1> QED BY <1>1, <1>2, <1>3, <1>4, <1>5, <1>6, <1>7, <1>8, <1>9, <1>10, <1>11
        DEF Next, Event, Callback, ConnectionClosed, Rejected, Cancelled

-----------------------------------------------------------------------------
(* Steps of a session that touch neither the map nor the broadcasters.     *)

\* The session was not in the middle of a callback's effects and is not now,
\* and holds at most one name more, which nobody else holds if names are
\* exclusive.
Aside == Writing \cup {"new", "loop", "on_publish", "register", "unpublish", "exit", "closed"}
SessionMoves(c) ==
  /\ UNCHANGED <<exclusive, streams, reg, started, stopped, lastEvent, bare>>
  /\ pc[c] \in Aside /\ pc'[c] \in Aside
  /\ \A d \in Conns : d # c => pc'[d] = pc[d] /\ name'[d] = name[d] /\ key'[d] = key[d] /\ pubs'[d] = pubs[d]
  /\ \/ \A n \in Names : Holds(c, n)' => Holds(c, n)
     \/ \E n \in Names : /\ exclusive => ~TakenByOther(c, n)
                         /\ \A m \in Names : Holds(c, m)' => Holds(c, m) \/ m = n
  /\ pc'[c] \in Publishing => key'[c] = name'[c]

LEMMA TeardownMoves == ASSUME TypeOK, NEW c \in Conns, pc[c] \in {"loop", "reject"}, Teardown(c) PROVE SessionMoves(c)
<1>1. /\ pc \in [Conns -> Places]
      /\ name \in [Conns -> Names \cup {None}] /\ UNCHANGED <<exclusive, key, pubs, streams, reg, bus, bare>>
  BY DEF TypeOK, Teardown
<1>2. CASE app[c] /\ key[c] # None
  <2>1. pc' = [pc EXCEPT ![c] = "unpublish"] /\ name' = [name EXCEPT ![c] = key[c]]
    BY <1>2 DEF Teardown, Goto
  <2>2. /\ pc'[c] = "unpublish" /\ name'[c] = key[c]
        /\ \A d \in Conns : d # c => pc'[d] = pc[d] /\ name'[d] = name[d]
    BY <1>1, <2>1
  <2>3. \A n \in Names : Holds(c, n)' => Holds(c, n)
    BY <1>1, <2>2 DEF Holds
  <2> QED BY <1>1, <2>2, <2>3 DEF SessionMoves, Aside, Writing, Publishing, bus
<1>3. CASE ~ (app[c] /\ key[c] # None)
  <2>1. pc' = [pc EXCEPT ![c] = "exit"] /\ UNCHANGED name
    BY <1>3 DEF Teardown, Goto
  <2>2. pc'[c] = "exit" /\ \A d \in Conns : d # c => pc'[d] = pc[d]
    BY <1>1, <2>1
  <2>3. \A n \in Names : Holds(c, n)' => Holds(c, n)
    BY <1>1, <2>1, <2>2 DEF Holds, Unpublishing, Places, Writing
  <2> QED BY <1>1, <2>1, <2>2, <2>3 DEF SessionMoves, Aside, Writing, Publishing, bus
<1> QED BY <1>2, <1>3

LEMMA PublishMoves ==
  ASSUME TypeOK, NEW c \in Conns, NEW n \in Names, PublishStreamRequested(c, n) \/ PublishStreamFinished(c, n)
  PROVE  SessionMoves(c)
<1>1. /\ pc \in [Conns -> Places]
      /\ name \in [Conns -> Names \cup {None}] /\ key \in [Conns -> Names \cup {None}]
      /\ pubs \in [Conns -> SUBSET Names]
  BY DEF TypeOK
<1>2. CASE PublishStreamRequested(c, n)
  <2>1. /\ pc' = [pc EXCEPT ![c] = "accept"] /\ name' = [name EXCEPT ![c] = n]
        /\ key' = [key EXCEPT ![c] = n] /\ pubs' = [pubs EXCEPT ![c] = @ \cup {n}] /\ pc[c] = "loop"
        /\ exclusive => ~TakenByOther(c, n)
        /\ UNCHANGED <<exclusive, streams, reg, started, stopped, lastEvent, bare>>
    BY <1>2 DEF PublishStreamRequested, Goto, bus
  <2>2. /\ pc'[c] = "accept" /\ name'[c] = n /\ key'[c] = n /\ pubs'[c] = pubs[c] \cup {n}
        /\ \A d \in Conns : d # c => pc'[d] = pc[d] /\ name'[d] = name[d] /\ key'[d] = key[d] /\ pubs'[d] = pubs[d]
    BY <1>1, <2>1
  <2>3. \A m \in Names : Holds(c, m)' => Holds(c, m) \/ m = n
    BY <2>1, <2>2 DEF Holds, Unpublishing, Places, Writing
  <2> QED BY <2>1, <2>2, <2>3 DEF SessionMoves, Aside, Writing
<1>3. CASE PublishStreamFinished(c, n)
  <2>1. /\ pc' = [pc EXCEPT ![c] = "unpublish"] /\ name' = [name EXCEPT ![c] = n]
        /\ key' = [key EXCEPT ![c] = None] /\ pubs' = [pubs EXCEPT ![c] = @ \ {n}] /\ pc[c] = "loop"
        /\ n \in pubs[c]
        /\ UNCHANGED <<exclusive, streams, reg, started, stopped, lastEvent, bare>>
    BY <1>3 DEF PublishStreamFinished, Goto, bus
  <2>2. /\ pc'[c] = "unpublish" /\ name'[c] = n /\ key'[c] = None /\ pubs'[c] = pubs[c] \ {n}
        /\ \A d \in Conns : d # c => pc'[d] = pc[d] /\ name'[d] = name[d] /\ key'[d] = key[d] /\ pubs'[d] = pubs[d]
    BY <1>1, <2>1
  <2>3. \A m \in Names : Holds(c, m)' => Holds(c, m)
    BY <2>1, <2>2, RtmpAssumption DEF Holds
  <2> QED BY <2>1, <2>2, <2>3 DEF SessionMoves, Aside, Writing, Publishing
<1> QED BY <1>2, <1>3

LEMMA OtherMoves ==
  ASSUME TypeOK, KeyNamed, NEW c \in Conns,
         Accept(c) \/ ConnectionRequested(c) \/ LeaveAtOnce(c) \/ Respond(c) \/ Written(c)
         \/ UnsupportedCodec(c) \/ OnPublishDeclined(c) \/ Register(c) \/ Deregister(c)
  PROVE  SessionMoves(c)
<1>1. UNCHANGED <<exclusive, name, key, pubs, streams, reg, started, stopped, lastEvent, bare>>
  BY DEF Accept, ConnectionRequested, LeaveAtOnce, Respond, Written, UnsupportedCodec, OnPublishDeclined, Register, Deregister, conn, bus
<1>2. pc \in [Conns -> Places]
  BY DEF TypeOK
<1>3. /\ pc[c] \in {"new", "loop", "reply", "accept", "on_publish", "register", "exit"}
      /\ \E w \in {"loop", "reply", "reject", "on_publish", "exit", "register", "closed"} :
           /\ pc' = [pc EXCEPT ![c] = w]
           /\ (w = "register" => pc[c] = "on_publish") /\ (w = "on_publish" => pc[c] = "accept")
  <2>1. CASE Accept(c) \/ LeaveAtOnce(c) \/ Respond(c) \/ UnsupportedCodec(c)
    BY <2>1 DEF Accept, LeaveAtOnce, Respond, UnsupportedCodec, Goto
  <2>5. CASE Written(c)
    BY <2>5 DEF Written, Goto
  <2>2. CASE ConnectionRequested(c)
    BY <2>2 DEF ConnectionRequested, Goto
  <2>3. CASE OnPublishDeclined(c)
    BY <2>3 DEF OnPublishDeclined, Goto
  <2>4. CASE Register(c) \/ Deregister(c)
    BY <2>4 DEF Register, Deregister, Goto
  <2> QED BY <2>1, <2>2, <2>3, <2>4, <2>5
<1>4. PICK w \in {"loop", "reply", "reject", "on_publish", "exit", "register", "closed"} :
         /\ pc' = [pc EXCEPT ![c] = w]
         /\ (w = "register" => pc[c] = "on_publish") /\ (w = "on_publish" => pc[c] = "accept")
  BY <1>3
<1>5. pc'[c] = w /\ \A d \in Conns : d # c => pc'[d] = pc[d]
  BY <1>2, <1>4
<1>6. \A n \in Names : Holds(c, n)' => Holds(c, n)
  BY <1>1, <1>3, <1>5 DEF Holds, Unpublishing, Places, Writing
<1>7. pc'[c] \in Publishing => key'[c] = name'[c]
  BY <1>1, <1>3, <1>4, <1>5 DEF KeyNamed, Publishing
<1> QED BY <1>1, <1>3, <1>5, <1>6, <1>7 DEF SessionMoves, Aside, Writing

\* Such a step keeps the invariant.
LEMMA SessionStep ==
  ASSUME IInv, NEW c \in Conns, SessionMoves(c), TypeOK'
  PROVE  IInv'
<1>1. /\ UNCHANGED <<exclusive, streams, reg, started, stopped, lastEvent, bare>>
      /\ pc[c] \in Aside /\ pc'[c] \in Aside
      /\ \A d \in Conns : d # c => pc'[d] = pc[d] /\ name'[d] = name[d] /\ key'[d] = key[d] /\ pubs'[d] = pubs[d]
      /\ pc'[c] \in Publishing => key'[c] = name'[c]
  BY DEF SessionMoves
<1>2. \A n \in Names : Pending(n)' = Pending(n)
  BY <1>1 DEF Pending, Aside, Writing
<1>3. \A n \in Names : Live(n)' <=> Live(n)
  BY <1>1 DEF Live
<1>4. NoLeakedBroadcaster'
  <2> SUFFICES ASSUME NEW n \in Names, NEW t \in Media, reg[n][t] # "none", ~Live(n)
               PROVE  \E d \in Conns :
                        /\ name'[d] = n
                        /\ pc'[d] \in {"stop", "drop_video"} \cup (IF t = "1.mp4" THEN {"drop_audio"} ELSE {})
    BY <1>1, <1>3 DEF NoLeakedBroadcaster
  <2>1. PICK d \in Conns :
          /\ name[d] = n
          /\ pc[d] \in {"stop", "drop_video"} \cup (IF t = "1.mp4" THEN {"drop_audio"} ELSE {})
    BY DEF IInv, NoLeakedBroadcaster
  <2>2. d # c
    BY <1>1, <2>1 DEF Aside, Writing
  <2> QED BY <1>1, <2>1, <2>2
<1>5. InitBeforeMedia' /\ NotLiveEmpty' /\ Headed'
  BY <1>1, <1>3 DEF IInv, InitBeforeMedia, NotLiveEmpty, Headed
<1>6. Counted' /\ Told'
  BY <1>1, <1>2, <1>3 DEF IInv, Counted, Told
<1>7. KeyNamed'
  BY <1>1 DEF IInv, KeyNamed
<1>8. TornDown'
  <2> SUFFICES ASSUME exclusive, NEW d \in Conns, pc'[d] \in Dropping PROVE ~Live(name[d])'
    BY <1>1 DEF TornDown
  <2>1. d # c
    BY <1>1 DEF Aside, Writing, Dropping
  <2>2. ~Live(name[d])
    BY <1>1, <2>1 DEF IInv, TornDown
  <2> QED BY <1>1, <2>1, <2>2 DEF Live
<1>9. OneHolder'
  <2> SUFFICES ASSUME exclusive, NEW n \in Names, NEW d \in Conns, NEW e \in Conns, Holds(d, n)', Holds(e, n)', d # e
               PROVE  FALSE
    BY <1>1 DEF OneHolder
  <2>1. \A f \in Conns : f # c => (Holds(f, n)' <=> Holds(f, n))
    BY <1>1 DEF Holds
  <2>2. \A f, g \in Conns : Holds(f, n) /\ Holds(g, n) => f = g
    BY DEF IInv, OneHolder
  <2>3. \A f \in Conns : f # c /\ Holds(f, n) => TakenByOther(c, n)
    BY DEF Holds, TakenByOther
  <2>4. Holds(c, n)' => Holds(c, n) \/ ~TakenByOther(c, n)
    BY DEF SessionMoves
  <2>5. CASE d = c
    BY <2>1, <2>2, <2>3, <2>4, <2>5
  <2>6. CASE e = c
    BY <2>1, <2>2, <2>3, <2>4, <2>6
  <2>7. CASE d # c /\ e # c
    BY <2>1, <2>2, <2>7
  <2> QED BY <2>5, <2>6, <2>7
<1> QED BY <1>4, <1>5, <1>6, <1>7, <1>8, <1>9 DEF IInv

-----------------------------------------------------------------------------
(* Media, and the steps of the callbacks.                                  *)

LEMMA MediaStep ==
  ASSUME IInv, NEW c \in Conns, NEW n \in Names, TypeOK',
         CuePoint(c, n) \/ \E t \in Media : SequenceHeader(c, n, t) \/ Frame(c, n, t)
  PROVE  IInv'
<1>1. /\ UNCHANGED <<exclusive, pc, name, key, pubs, started, stopped, lastEvent>> /\ TypeOK
      /\ pc[c] = "loop" /\ n \in pubs[c]
  BY DEF IInv, CuePoint, SequenceHeader, Frame, conn, bus
<1>2. OneHolder' /\ KeyNamed'
  BY <1>1 DEF IInv, OneHolder, KeyNamed, Holds
<1>3. \A m \in Names : Pending(m)' = Pending(m)
  BY <1>1 DEF Pending
<1>4. /\ reg \in [Names -> [Tracks -> {"none", "noinit", "init"}]]
      /\ streams \in [Names -> [owner : Conns \cup {None}, init : SUBSET Media]]
  BY <1>1 DEF TypeOK
\* Every kind of media leaves the owners alone; what it adds is of a stream
\* that is in the map.
<1>5. /\ \A m \in Names : Live(m)' <=> Live(m)
      /\ \A m \in Names, t \in Media : reg'[m][t] = reg[m][t] \/ (Live(m) /\ reg'[m][t] # "none")
      /\ \A m \in Names : ~Live(m) => streams'[m].init = streams[m].init
      /\ exclusive => bare' = bare
      /\ exclusive => \A m \in Names, t \in Media : t \in streams'[m].init => reg'[m][t] = "init"
  <2>1. CASE CuePoint(c, n)
    <3>1. reg' = [reg EXCEPT ![n]["scte35"] = "init"] /\ UNCHANGED <<streams, bare>>
      BY <2>1 DEF CuePoint
    <3>2. \A m \in Names, t \in Media : reg'[m][t] = reg[m][t]
      BY <1>4, <3>1 DEF Media, Tracks
    <3>3. exclusive => \A m \in Names, t \in Media : t \in streams[m].init => reg[m][t] = "init"
      BY DEF IInv, Headed
    <3> QED BY <3>1, <3>2, <3>3 DEF Live
  <2>2. ASSUME NEW t \in Media, SequenceHeader(c, n, t) PROVE <1>5!1 /\ <1>5!2 /\ <1>5!3 /\ <1>5!4 /\ <1>5!5
    <3>1. reg' = [reg EXCEPT ![n][t] = "init"] /\ streams' = [streams EXCEPT ![n].init = @ \cup {t}]
          /\ bare' = bare /\ Live(n)
      BY <2>2 DEF SequenceHeader
    <3>2. /\ reg'[n][t] = "init"
          /\ \A m \in Names, u \in Media : (m # n \/ u # t) => reg'[m][u] = reg[m][u]
      BY <1>4, <3>1 DEF Tracks
    <3>3. /\ streams'[n].init = streams[n].init \cup {t} /\ streams'[n].owner = streams[n].owner
          /\ \A m \in Names : m # n => streams'[m] = streams[m]
      BY <1>4, <3>1
    <3>4. exclusive => \A m \in Names, u \in Media : u \in streams[m].init => reg[m][u] = "init"
      BY DEF IInv, Headed
    <3>5. \A m \in Names : Live(m)' <=> Live(m)
      BY <3>3 DEF Live
    <3>6. exclusive => \A m \in Names, u \in Media : u \in streams'[m].init => reg'[m][u] = "init"
      <4> SUFFICES ASSUME exclusive, NEW m \in Names, NEW u \in Media, u \in streams'[m].init
                   PROVE  reg'[m][u] = "init"
        OBVIOUS
      <4>1. CASE m = n /\ u = t
        BY <3>2, <4>1
      <4>2. CASE m # n \/ u # t
        BY <3>2, <3>3, <3>4, <4>2
      <4> QED BY <4>1, <4>2
    <3>7. \A m \in Names, u \in Media : reg'[m][u] = reg[m][u] \/ (Live(m) /\ reg'[m][u] # "none")
      BY <3>1, <3>2
    <3>8. \A m \in Names : ~Live(m) => streams'[m].init = streams[m].init
      BY <3>1, <3>3
    <3> QED BY <3>1, <3>5, <3>6, <3>7, <3>8
  <2>3. ASSUME NEW t \in Media, Frame(c, n, t) PROVE <1>5!1 /\ <1>5!2 /\ <1>5!3 /\ <1>5!4 /\ <1>5!5
    <3>1. reg' = [reg EXCEPT ![n][t] = IF reg[n][t] = "none" THEN "noinit" ELSE reg[n][t]]
          /\ bare' = (bare \/ reg[n][t] # "init") /\ UNCHANGED streams /\ Live(n) /\ t \in streams[n].init
      BY <2>3 DEF Frame
    <3>2. /\ reg'[n][t] = (IF reg[n][t] = "none" THEN "noinit" ELSE reg[n][t])
          /\ \A m \in Names, u \in Media : (m # n \/ u # t) => reg'[m][u] = reg[m][u]
      BY <1>4, <3>1 DEF Tracks
    <3>3. exclusive => \A m \in Names, u \in Media : u \in streams[m].init => reg[m][u] = "init"
      BY DEF IInv, Headed
    <3>4. exclusive => reg[n][t] = "init"
      BY <3>1, <3>3
    <3>5. exclusive => bare' = bare
      BY <1>1, <3>1, <3>4 DEF TypeOK
    <3>6. exclusive => \A m \in Names, u \in Media : u \in streams'[m].init => reg'[m][u] = "init"
      BY <3>1, <3>2, <3>3, <3>4
    <3>7. \A m \in Names, u \in Media : reg'[m][u] = reg[m][u] \/ (Live(m) /\ reg'[m][u] # "none")
      BY <3>1, <3>2
    <3> QED BY <3>1, <3>5, <3>6, <3>7 DEF Live
  <2> QED BY <2>1, <2>2, <2>3
<1>6. NoLeakedBroadcaster'
  BY <1>1, <1>5 DEF IInv, NoLeakedBroadcaster
<1>7. InitBeforeMedia' /\ NotLiveEmpty' /\ Headed'
  BY <1>1, <1>5 DEF IInv, InitBeforeMedia, NotLiveEmpty, Headed
<1>8. Counted' /\ Told'
  BY <1>1, <1>3, <1>5 DEF IInv, Counted, Told
<1>9. TornDown'
  <2> SUFFICES ASSUME exclusive, NEW d \in Conns, pc[d] \in Dropping PROVE ~Live(name[d])'
    BY <1>1 DEF TornDown
  <2>1. ~Live(name[d]) /\ name[d] \in Names
    BY <1>1 DEF IInv, TornDown, TypeOK, Dropping, Unpublishing
  <2> QED BY <1>1, <1>5, <2>1 DEF Live
<1> QED BY <1>2, <1>6, <1>7, <1>8, <1>9 DEF IInv

\* What every callback keeps: it changes the place of one connection only.
LEMMA CallbackFrame ==
  ASSUME IInv, NEW c \in Conns, NEW w, UNCHANGED conn, pc' = [pc EXCEPT ![c] = w],
         w \in Unpublishing => pc[c] \in Unpublishing, w \in Publishing => pc[c] \in Publishing, pc[c] # "closed"
  PROVE  /\ pc'[c] = w /\ \A d \in Conns : d # c => pc'[d] = pc[d]
         /\ UNCHANGED <<exclusive, name, key, pubs>>
         /\ OneHolder' /\ KeyNamed'
         /\ \A m \in Names : m # name[c] => Pending(m)' = Pending(m)
         /\ w \in {"insert", "stop"} => Pending(name[c])' = Pending(name[c]) \cup {c}
         /\ w \notin {"insert", "stop"} => Pending(name[c])' = Pending(name[c]) \ {c}
<1>1. pc'[c] = w /\ (\A d \in Conns : d # c => pc'[d] = pc[d]) /\ UNCHANGED <<exclusive, name, key, pubs>>
  BY DEF IInv, TypeOK, conn
<1>2. \A d \in Conns, m \in Names : Holds(d, m)' => Holds(d, m)
  BY <1>1 DEF Holds
<1>3. OneHolder'
  BY <1>1, <1>2 DEF IInv, OneHolder
<1>4. KeyNamed'
  BY <1>1 DEF IInv, KeyNamed
<1>5. \A m \in Names : m # name[c] => Pending(m)' = Pending(m)
  BY <1>1 DEF Pending
<1>6. w \in {"insert", "stop"} => Pending(name[c])' = Pending(name[c]) \cup {c}
  BY <1>1 DEF Pending
<1>7. w \notin {"insert", "stop"} => Pending(name[c])' = Pending(name[c]) \ {c}
  BY <1>1 DEF Pending
<1> QED BY <1>1, <1>3, <1>4, <1>5, <1>6, <1>7

\* No two sessions are in callbacks of one name, if names are exclusive.
LEMMA Alone ==
  ASSUME IInv, exclusive, NEW c \in Conns, NEW d \in Conns, name[c] = name[d],
         pc[c] \in Publishing \cup Unpublishing, pc[d] \in Publishing \cup Unpublishing
  PROVE  c = d
<1>1. name[c] \in Names
  BY DEF IInv, TypeOK, Publishing
<1>2. Holds(c, name[c]) /\ Holds(d, name[c])
  BY DEF IInv, KeyNamed, Holds, Publishing, Unpublishing
<1> QED BY <1>1, <1>2 DEF IInv, OneHolder

LEMMA CountedType ==
  ASSUME IInv, NEW m \in Names
  PROVE  /\ IsFiniteSet(Pending(m)) /\ Cardinality(Pending(m)) \in Nat
         /\ started[m] \in Nat /\ stopped[m] \in Nat
         /\ stopped[m] + Cardinality(Pending(m)) + (IF Live(m) THEN 1 ELSE 0) <= started[m]
BY FS_CardinalityType DEF IInv, Counted, TypeOK

\* A callback of the name n by one connection: what is to be shown of n is
\* shown at the callback, the other names follow.
Dropper(c, n, t) ==
  name[c] = n /\ pc[c] \in {"stop", "drop_video"} \cup (IF t = "1.mp4" THEN {"drop_audio"} ELSE {})
CallbackOf(c, n, w) ==
  /\ name[c] = n /\ pc[c] \in Publishing \cup Unpublishing /\ pc' = [pc EXCEPT ![c] = w]
  /\ w \in Unpublishing => pc[c] \in Unpublishing
  /\ w \in Publishing => pc[c] \in Publishing
  /\ UNCHANGED <<conn, bare>>
  /\ \A m \in Names : m # n =>
       /\ streams'[m] = streams[m] /\ reg'[m] = reg[m]
       /\ started'[m] = started[m] /\ stopped'[m] = stopped[m] /\ lastEvent'[m] = lastEvent[m]

LEMMA CallbackMoves ==
  ASSUME IInv, NEW c \in Conns, NEW n \in Names, NEW w, CallbackOf(c, n, w)
  PROVE  /\ pc'[c] = w /\ \A d \in Conns : d # c => pc'[d] = pc[d]
         /\ UNCHANGED <<exclusive, name, bare>>
         /\ OneHolder' /\ KeyNamed'
         /\ \A m \in Names : m # n => Pending(m)' = Pending(m)
         /\ w \in {"insert", "stop"} => Pending(n)' = Pending(n) \cup {c}
         /\ w \notin {"insert", "stop"} => Pending(n)' = Pending(n) \ {c}
<1>1. pc[c] # "closed"
  BY DEF CallbackOf, Publishing, Unpublishing
<1> QED BY <1>1, CallbackFrame, ZenonT(60) DEF CallbackOf

LEMMA CallbackStep ==
  ASSUME IInv, TypeOK', NEW c \in Conns, NEW n \in Names, NEW w, CallbackOf(c, n, w),
         \A t \in Media : reg'[n][t] # "none" => Live(n)' \/ \E d \in Conns : Dropper(d, n, t)',
         IsFiniteSet(Pending(n))',
         (stopped[n] + Cardinality(Pending(n)) + (IF Live(n) THEN 1 ELSE 0) <= started[n])',
         ~Live(n)' => streams'[n].init = {},
         exclusive /\ w \in Dropping => ~Live(n)',
         exclusive => \A t \in Media : t \in streams'[n].init => reg'[n][t] = "init",
         exclusive => (lastEvent'[n] = "started" <=> (Live(n)' \/ Pending(n)' # {}))
  PROVE  IInv'
<1>1. /\ pc'[c] = w /\ \A d \in Conns : d # c => pc'[d] = pc[d]
      /\ UNCHANGED <<exclusive, name, bare>> /\ OneHolder' /\ KeyNamed'
      /\ \A m \in Names : m # n => Pending(m)' = Pending(m)
  BY CallbackMoves
<1>2. /\ name[c] = n /\ pc[c] \in Publishing \cup Unpublishing
      /\ \A m \in Names : m # n =>
           /\ streams'[m] = streams[m] /\ reg'[m] = reg[m]
           /\ started'[m] = started[m] /\ stopped'[m] = stopped[m] /\ lastEvent'[m] = lastEvent[m]
  BY DEF CallbackOf
<1>3. \A m \in Names : m # n => (Live(m)' <=> Live(m))
  BY <1>2 DEF Live
<1>4. NoLeakedBroadcaster'
  <2> SUFFICES ASSUME NEW m \in Names, NEW t \in Media, reg'[m][t] # "none", ~Live(m)'
               PROVE  \E d \in Conns : Dropper(d, m, t)'
    BY DEF NoLeakedBroadcaster, Dropper
  <2>1. CASE m = n
    BY <2>1
  <2>2. CASE m # n
    <3>1. PICK d \in Conns : Dropper(d, m, t)
      BY <1>2, <1>3, <2>2 DEF IInv, NoLeakedBroadcaster, Dropper
    <3>2. d # c
      BY <1>2, <2>2, <3>1 DEF Dropper
    <3> QED BY <1>1, <3>1, <3>2 DEF Dropper
  <2> QED BY <2>1, <2>2
<1>5. InitBeforeMedia'
  BY <1>1 DEF IInv, InitBeforeMedia
<1>6. NotLiveEmpty'
  <2> SUFFICES ASSUME NEW m \in Names, ~Live(m)' PROVE streams'[m].init = {}
    BY DEF NotLiveEmpty
  <2>1. CASE m # n
    BY <1>2, <1>3, <2>1 DEF IInv, NotLiveEmpty
  <2> QED BY <2>1
<1>7. Headed'
  <2> SUFFICES ASSUME exclusive, NEW m \in Names, NEW t \in Media, t \in streams'[m].init
               PROVE  reg'[m][t] = "init"
    BY <1>1 DEF Headed
  <2>1. CASE m # n
    BY <1>2, <2>1 DEF IInv, Headed
  <2> QED BY <2>1
<1>8. TornDown'
  <2> SUFFICES ASSUME exclusive, NEW d \in Conns, pc'[d] \in Dropping PROVE ~Live(name[d])'
    BY <1>1 DEF TornDown
  <2>1. CASE d = c
    BY <1>1, <1>2, <2>1 DEF Live
  <2>2. CASE d # c
    <3>1. pc[d] \in Dropping
      BY <1>1, <2>2
    <3>2. PICK m \in Names : name[d] = m
      BY <3>1 DEF IInv, TypeOK, Dropping, Unpublishing
    <3>3. m # n
      BY <1>2, <2>2, <3>1, <3>2, Alone DEF Dropping, Unpublishing
    <3>4. ~Live(m)
      BY <3>1, <3>2 DEF IInv, TornDown
    <3> QED BY <1>1, <1>3, <3>2, <3>3, <3>4 DEF Live
  <2> QED BY <2>1, <2>2
<1>9. Counted'
  <2> SUFFICES ASSUME NEW m \in Names
               PROVE  /\ IsFiniteSet(Pending(m))'
                      /\ (stopped[m] + Cardinality(Pending(m)) + (IF Live(m) THEN 1 ELSE 0) <= started[m])'
    BY DEF Counted
  <2>1. CASE m # n
    <3>1. IsFiniteSet(Pending(m)) /\ stopped[m] + Cardinality(Pending(m)) + (IF Live(m) THEN 1 ELSE 0) <= started[m]
      BY CountedType
    <3> QED BY <1>1, <1>2, <1>3, <2>1, <3>1
  <2> QED BY <2>1
<1>10. Told'
  <2> SUFFICES ASSUME exclusive, NEW m \in Names
               PROVE  lastEvent'[m] = "started" <=> (Live(m)' \/ Pending(m)' # {})
    BY <1>1 DEF Told
  <2>1. CASE m # n
    <3>1. lastEvent[m] = "started" <=> (Live(m) \/ Pending(m) # {})
      BY DEF IInv, Told
    <3> QED BY <1>1, <1>2, <1>3, <2>1, <3>1
  <2> QED BY <2>1
<1> QED BY <1>1, <1>4, <1>5, <1>6, <1>7, <1>8, <1>9, <1>10 DEF IInv

\* What holds of the name of a callback before it.
LEMMA CallbackCounts ==
  ASSUME IInv, NEW c \in Conns, NEW n \in Names
  PROVE  /\ IsFiniteSet(Pending(n)) /\ IsFiniteSet(Pending(n) \cup {c}) /\ IsFiniteSet(Pending(n) \ {c})
         /\ stopped[n] + Cardinality(Pending(n)) + (IF Live(n) THEN 1 ELSE 0) <= started[n]
         /\ Cardinality(Pending(n)) \in Nat /\ started[n] \in Nat /\ stopped[n] \in Nat
         /\ c \notin Pending(n) => Cardinality(Pending(n) \cup {c}) = Cardinality(Pending(n)) + 1
         /\ c \in Pending(n) => Cardinality(Pending(n) \ {c}) = Cardinality(Pending(n)) - 1
<1>1. /\ IsFiniteSet(Pending(n)) /\ Cardinality(Pending(n)) \in Nat /\ started[n] \in Nat /\ stopped[n] \in Nat
      /\ stopped[n] + Cardinality(Pending(n)) + (IF Live(n) THEN 1 ELSE 0) <= started[n]
  BY CountedType
<1>2. IsFiniteSet(Pending(n) \cup {c}) /\ IsFiniteSet(Pending(n) \ {c})
  BY <1>1, FS_AddElement, FS_RemoveElement
<1>3. c \notin Pending(n) => Cardinality(Pending(n) \cup {c}) = Cardinality(Pending(n)) + 1
  BY <1>1, FS_AddElement
<1>4. c \in Pending(n) => Cardinality(Pending(n) \ {c}) = Cardinality(Pending(n)) - 1
  BY <1>1, FS_RemoveElement
<1> QED BY <1>1, <1>2, <1>3, <1>4

LEMMA CallbackHas ==
  ASSUME IInv, NEW c \in Conns, NEW n \in Names, name[c] = n, pc[c] \in Publishing \cup Unpublishing
  PROVE  /\ ~Live(n) => streams[n].init = {}
         /\ exclusive => Pending(n) \subseteq {c}
         /\ exclusive /\ pc[c] \in Dropping => ~Live(n)
         /\ exclusive => \A t \in Media : t \in streams[n].init => reg[n][t] = "init"
         /\ exclusive => (lastEvent[n] = "started" <=> (Live(n) \/ Pending(n) # {}))
         /\ \A t \in Media : reg[n][t] # "none" => Live(n) \/ \E d \in Conns : Dropper(d, n, t)
<1>1. exclusive => Pending(n) \subseteq {c}
  BY Alone DEF Pending, Publishing, Unpublishing
<1>2. ~Live(n) => streams[n].init = {}
  BY DEF IInv, NotLiveEmpty
<1>3. exclusive /\ pc[c] \in Dropping => ~Live(n)
  BY DEF IInv, TornDown
<1>4. exclusive => \A t \in Media : t \in streams[n].init => reg[n][t] = "init"
  BY DEF IInv, Headed
<1>5. exclusive => (lastEvent[n] = "started" <=> (Live(n) \/ Pending(n) # {}))
  BY DEF IInv, Told
<1>6. \A t \in Media : reg[n][t] # "none" => Live(n) \/ \E d \in Conns : Dropper(d, n, t)
  BY DEF IInv, NoLeakedBroadcaster, Dropper
<1> QED BY <1>1, <1>2, <1>3, <1>4, <1>5, <1>6

LEMMA StartedStep == ASSUME IInv, NEW c \in Conns, OnPublishStarted(c), TypeOK' PROVE IInv'
<1>1. PICK n \in Names : name[c] = n
  BY DEF OnPublishStarted, IInv, TypeOK
<1>2. /\ pc[c] = "on_publish" /\ pc' = [pc EXCEPT ![c] = "insert"] /\ UNCHANGED <<conn, bare, streams, reg, stopped>>
      /\ started' = [started EXCEPT ![n] = @ + 1] /\ lastEvent' = [lastEvent EXCEPT ![n] = "started"]
  BY <1>1 DEF OnPublishStarted, Goto
<1>3. /\ started'[n] = started[n] + 1 /\ lastEvent'[n] = "started"
      /\ \A m \in Names : m # n => started'[m] = started[m] /\ lastEvent'[m] = lastEvent[m]
  BY <1>2 DEF IInv, TypeOK
<1>4. CallbackOf(c, n, "insert")
  BY <1>1, <1>2, <1>3 DEF CallbackOf, Publishing, Unpublishing
<1>5. Pending(n)' = Pending(n) \cup {c} /\ (Live(n)' <=> Live(n)) /\ UNCHANGED <<exclusive, name>>
      /\ \A d \in Conns : d # c => pc'[d] = pc[d]
  BY <1>2, <1>4, CallbackMoves DEF Live
<1>6. pc[c] \in Publishing \cup Unpublishing /\ c \notin Pending(n)
  BY <1>2 DEF Publishing, Pending
<1>7. IsFiniteSet(Pending(n))' /\ Cardinality(Pending(n))' = Cardinality(Pending(n)) + 1
  <2>1. IsFiniteSet(Pending(n) \cup {c}) /\ Cardinality(Pending(n) \cup {c}) = Cardinality(Pending(n)) + 1
    BY <1>6, CallbackCounts
  <2> QED BY <1>5, <2>1, Zenon
<1>8. (stopped[n] + Cardinality(Pending(n)) + (IF Live(n) THEN 1 ELSE 0) <= started[n])'
  <2>1. /\ stopped[n] + Cardinality(Pending(n)) + (IF Live(n) THEN 1 ELSE 0) <= started[n]
        /\ Cardinality(Pending(n)) \in Nat /\ started[n] \in Nat /\ stopped[n] \in Nat
    BY CallbackCounts
  <2>2. (Live(n)' <=> Live(n)) /\ UNCHANGED stopped /\ started'[n] = started[n] + 1
    BY <1>2, <1>3, <1>5
  <2> QED BY <2>1, <2>2, <1>7
<1>9. ASSUME NEW t \in Media, reg'[n][t] # "none" PROVE Live(n)' \/ \E d \in Conns : Dropper(d, n, t)'
  <2>1. CASE Live(n)
    BY <1>5, <2>1
  <2>2. CASE ~Live(n)
    <3>1. PICK d \in Conns : Dropper(d, n, t)
      BY <1>1, <1>2, <1>6, <1>9, <2>2, CallbackHas
    <3>2. d # c
      BY <1>2, <3>1 DEF Dropper
    <3> QED BY <1>5, <3>1, <3>2 DEF Dropper
  <2> QED BY <2>1, <2>2
<1>10. /\ ~Live(n)' => streams'[n].init = {}
       /\ exclusive => \A t \in Media : t \in streams'[n].init => reg'[n][t] = "init"
  BY <1>1, <1>2, <1>5, <1>6, CallbackHas
<1>11. exclusive => (lastEvent'[n] = "started" <=> (Live(n)' \/ Pending(n)' # {}))
  BY <1>3, <1>5
<1>12. "insert" \notin Dropping
  BY DEF Dropping
<1> QED BY <1>4, <1>7, <1>8, <1>9, <1>10, <1>11, <1>12, CallbackStep

LEMMA InsertStep == ASSUME IInv, NEW c \in Conns, OnPublishInsert(c), TypeOK' PROVE IInv'
<1>1. PICK n \in Names : name[c] = n
  BY DEF OnPublishInsert, IInv, TypeOK
<1>2. /\ pc[c] = "insert" /\ pc' = [pc EXCEPT ![c] = "register"]
      /\ UNCHANGED <<conn, bare, reg, started, stopped, lastEvent>>
      /\ streams' = [streams EXCEPT ![n] = [owner |-> c, init |-> {}]]
  BY <1>1 DEF OnPublishInsert, Goto, bus
<1>3. /\ streams'[n].owner = c /\ streams'[n].init = {}
      /\ \A m \in Names : m # n => streams'[m] = streams[m]
  BY <1>2 DEF IInv, TypeOK
<1>4. CallbackOf(c, n, "register")
  BY <1>1, <1>2, <1>3 DEF CallbackOf, Publishing, Unpublishing
<1>5. Pending(n)' = Pending(n) \ {c} /\ Live(n)'
  BY <1>3, <1>4, CallbackMoves, RtmpAssumption DEF Live
<1>6. pc[c] \in Publishing \cup Unpublishing /\ c \in Pending(n)
  BY <1>1, <1>2 DEF Publishing, Pending
<1>7. IsFiniteSet(Pending(n))' /\ Cardinality(Pending(n))' = Cardinality(Pending(n)) - 1
  <2>1. IsFiniteSet(Pending(n) \ {c}) /\ Cardinality(Pending(n) \ {c}) = Cardinality(Pending(n)) - 1
    BY <1>6, CallbackCounts
  <2> QED BY <1>5, <2>1, Zenon
<1>8. (stopped[n] + Cardinality(Pending(n)) + (IF Live(n) THEN 1 ELSE 0) <= started[n])'
  <2>1. /\ stopped[n] + Cardinality(Pending(n)) + (IF Live(n) THEN 1 ELSE 0) <= started[n]
        /\ Cardinality(Pending(n)) \in Nat /\ started[n] \in Nat /\ stopped[n] \in Nat
    BY CallbackCounts
  <2>2. Live(n)' /\ UNCHANGED <<started, stopped>>
    BY <1>2, <1>5
  <2> QED BY <2>1, <2>2, <1>7
<1>9. exclusive => (lastEvent'[n] = "started" <=> (Live(n)' \/ Pending(n)' # {}))
  <2>1. exclusive => lastEvent[n] = "started"
    BY <1>1, <1>6, CallbackHas
  <2> QED BY <1>2, <1>5, <2>1
<1>10. "register" \notin Dropping
  BY DEF Dropping
<1> QED BY <1>3, <1>4, <1>5, <1>7, <1>8, <1>9, <1>10, CallbackStep

LEMMA RemoveStep == ASSUME IInv, NEW c \in Conns, UnpublishRemove(c), TypeOK' PROVE IInv'
<1>1. PICK n \in Names : name[c] = n
  BY DEF UnpublishRemove, IInv, TypeOK, Unpublishing
<1>2. pc[c] = "unpublish" /\ UNCHANGED <<conn, bare, reg, started, stopped, lastEvent>>
  BY DEF UnpublishRemove, bus
<1>3. pc[c] \in Publishing \cup Unpublishing /\ c \notin Pending(n)
  BY <1>2 DEF Unpublishing, Pending
<1>4. CASE Live(n)
  <2>1. pc' = [pc EXCEPT ![c] = "stop"] /\ streams' = [streams EXCEPT ![n] = NoStream]
    BY <1>1, <1>4 DEF UnpublishRemove, Goto
  <2>2. /\ streams'[n].owner = None /\ streams'[n].init = {}
        /\ \A m \in Names : m # n => streams'[m] = streams[m]
    BY <2>1 DEF IInv, TypeOK, NoStream
  <2>3. CallbackOf(c, n, "stop")
    BY <1>1, <1>2, <2>1, <2>2 DEF CallbackOf, Publishing, Unpublishing
  <2>4. Pending(n)' = Pending(n) \cup {c} /\ ~Live(n)' /\ UNCHANGED name /\ pc'[c] = "stop"
    BY <2>2, <2>3, CallbackMoves DEF Live
  <2>5. IsFiniteSet(Pending(n))' /\ Cardinality(Pending(n))' = Cardinality(Pending(n)) + 1
    <3>1. IsFiniteSet(Pending(n) \cup {c}) /\ Cardinality(Pending(n) \cup {c}) = Cardinality(Pending(n)) + 1
      BY <1>3, CallbackCounts
    <3> QED BY <2>4, <3>1, Zenon
  <2>6. (stopped[n] + Cardinality(Pending(n)) + (IF Live(n) THEN 1 ELSE 0) <= started[n])'
    <3>1. /\ stopped[n] + Cardinality(Pending(n)) + (IF Live(n) THEN 1 ELSE 0) <= started[n]
          /\ Cardinality(Pending(n)) \in Nat /\ started[n] \in Nat /\ stopped[n] \in Nat
      BY CallbackCounts
    <3>2. ~Live(n)' /\ UNCHANGED <<started, stopped>>
      BY <1>2, <2>4
    <3> QED BY <3>1, <3>2, <1>4, <2>5
  <2>7. exclusive => (lastEvent'[n] = "started" <=> (Live(n)' \/ Pending(n)' # {}))
    BY <1>1, <1>2, <1>3, <1>4, <2>4, CallbackHas
  <2>8. \A t \in Media : Dropper(c, n, t)'
    BY <1>1, <2>4 DEF Dropper
  <2> QED BY <2>2, <2>3, <2>4, <2>5, <2>6, <2>7, <2>8, CallbackStep
<1>5. CASE ~Live(n)
  <2>1. pc' = [pc EXCEPT ![c] = after[c]] /\ UNCHANGED streams
    BY <1>1, <1>5 DEF UnpublishRemove, Goto
  <2>2. PICK w \in {"loop", "exit"} : after[c] = w
    BY DEF IInv, TypeOK
  <2>3. CallbackOf(c, n, w)
    BY <1>1, <1>2, <1>3, <2>1, <2>2 DEF CallbackOf, Publishing, Unpublishing
  <2>4. /\ Pending(n)' = Pending(n) /\ ~Live(n)' /\ UNCHANGED <<name, exclusive>>
        /\ \A d \in Conns : d # c => pc'[d] = pc[d]
    BY <1>3, <1>5, <2>1, <2>2, <2>3, CallbackMoves DEF Live
  <2>5. /\ IsFiniteSet(Pending(n))'
        /\ (stopped[n] + Cardinality(Pending(n)) + (IF Live(n) THEN 1 ELSE 0) <= started[n])'
    BY <1>1, <1>2, <1>3, <1>5, <2>4, CallbackCounts
  <2>6. /\ ~Live(n)' => streams'[n].init = {}
        /\ exclusive => \A t \in Media : t \in streams'[n].init => reg'[n][t] = "init"
        /\ exclusive => (lastEvent'[n] = "started" <=> (Live(n)' \/ Pending(n)' # {}))
    BY <1>1, <1>2, <1>3, <1>5, <2>1, <2>4, CallbackHas
  <2>7. ASSUME NEW t \in Media, reg'[n][t] # "none" PROVE \E d \in Conns : Dropper(d, n, t)'
    <3>1. PICK d \in Conns : Dropper(d, n, t)
      BY <1>1, <1>2, <1>3, <1>5, <2>7, CallbackHas
    <3>2. d # c
      BY <1>2, <3>1 DEF Dropper
    <3> QED BY <2>4, <3>1, <3>2 DEF Dropper
  <2> QED BY <2>3, <2>4, <2>5, <2>6, <2>7, CallbackStep
<1> QED BY <1>4, <1>5

LEMMA StopStep == ASSUME IInv, NEW c \in Conns, UnpublishStop(c), TypeOK' PROVE IInv'
<1>1. PICK n \in Names : name[c] = n
  BY DEF UnpublishStop, IInv, TypeOK, Unpublishing
<1>2. /\ pc[c] = "stop" /\ pc' = [pc EXCEPT ![c] = "drop_video"] /\ UNCHANGED <<conn, bare, streams, reg, started>>
      /\ stopped' = [stopped EXCEPT ![n] = @ + 1] /\ lastEvent' = [lastEvent EXCEPT ![n] = "stopped"]
  BY <1>1 DEF UnpublishStop, Goto
<1>3. /\ stopped'[n] = stopped[n] + 1 /\ lastEvent'[n] = "stopped"
      /\ \A m \in Names : m # n => stopped'[m] = stopped[m] /\ lastEvent'[m] = lastEvent[m]
  BY <1>2 DEF IInv, TypeOK
<1>4. CallbackOf(c, n, "drop_video")
  BY <1>1, <1>2, <1>3 DEF CallbackOf, Publishing, Unpublishing
<1>5. Pending(n)' = Pending(n) \ {c} /\ (Live(n)' <=> Live(n)) /\ UNCHANGED <<name, exclusive>>
      /\ pc'[c] = "drop_video"
  BY <1>2, <1>4, CallbackMoves DEF Live
<1>6. /\ pc[c] \in Publishing \cup Unpublishing /\ c \in Pending(n) /\ pc[c] \in Dropping
  BY <1>1, <1>2 DEF Unpublishing, Pending, Dropping
<1>7. IsFiniteSet(Pending(n))' /\ Cardinality(Pending(n))' = Cardinality(Pending(n)) - 1
  <2>1. IsFiniteSet(Pending(n) \ {c}) /\ Cardinality(Pending(n) \ {c}) = Cardinality(Pending(n)) - 1
    BY <1>6, CallbackCounts
  <2> QED BY <1>5, <2>1, Zenon
<1>8. (stopped[n] + Cardinality(Pending(n)) + (IF Live(n) THEN 1 ELSE 0) <= started[n])'
  <2>1. /\ stopped[n] + Cardinality(Pending(n)) + (IF Live(n) THEN 1 ELSE 0) <= started[n]
        /\ Cardinality(Pending(n)) \in Nat /\ started[n] \in Nat /\ stopped[n] \in Nat
    BY CallbackCounts
  <2>2. (Live(n)' <=> Live(n)) /\ UNCHANGED started /\ stopped'[n] = stopped[n] + 1
    BY <1>2, <1>3, <1>5
  <2> QED BY <2>1, <2>2, <1>7
<1>9. \A t \in Media : Dropper(c, n, t)'
  BY <1>1, <1>5 DEF Dropper
<1>10. /\ ~Live(n)' => streams'[n].init = {}
       /\ exclusive => ~Live(n)' /\ Pending(n)' = {}
       /\ exclusive => \A t \in Media : t \in streams'[n].init => reg'[n][t] = "init"
  BY <1>1, <1>2, <1>5, <1>6, CallbackHas
<1>11. exclusive => (lastEvent'[n] = "started" <=> (Live(n)' \/ Pending(n)' # {}))
  BY <1>3, <1>10
<1> QED BY <1>4, <1>7, <1>8, <1>9, <1>10, <1>11, CallbackStep

\* Dropping a broadcaster leaves the stream, the events and the callbacks that
\* are still to come alone.
LEMMA DropStep ==
  ASSUME IInv, TypeOK', NEW c \in Conns, UnpublishDropVideo(c) \/ UnpublishDropAudio(c) PROVE IInv'
<1>1. PICK n \in Names : name[c] = n
  BY DEF UnpublishDropVideo, UnpublishDropAudio, IInv, TypeOK, Unpublishing
<1>2. PICK w \in {"drop_audio", "loop", "exit"}, u \in Media :
        /\ pc' = [pc EXCEPT ![c] = w] /\ reg' = [reg EXCEPT ![n][u] = "none"]
        /\ \/ pc[c] = "drop_video" /\ w = "drop_audio" /\ u = "0.mp4"
           \/ pc[c] = "drop_audio" /\ w # "drop_audio" /\ u = "1.mp4"
  <2>1. CASE UnpublishDropVideo(c)
    BY <1>1, <2>1 DEF UnpublishDropVideo, Goto, Media
  <2>2. CASE UnpublishDropAudio(c)
    <3>1. after[c] \in {"loop", "exit"}
      BY DEF IInv, TypeOK
    <3> QED BY <1>1, <2>2, <3>1 DEF UnpublishDropAudio, Goto, Media
  <2> QED BY <2>1, <2>2
<1>3. UNCHANGED <<conn, bare, streams, started, stopped, lastEvent>>
  BY DEF UnpublishDropVideo, UnpublishDropAudio, bus
<1>4. /\ reg'[n][u] = "none"
      /\ \A t \in Media : t # u => reg'[n][t] = reg[n][t]
      /\ \A m \in Names : m # n => reg'[m] = reg[m]
  <2>1. reg \in [Names -> [Tracks -> {"none", "noinit", "init"}]] /\ u \in Tracks /\ Media \subseteq Tracks
    BY DEF IInv, TypeOK, Tracks
  <2> QED BY <1>2, <2>1
<1>5. CallbackOf(c, n, w)
  BY <1>1, <1>2, <1>3, <1>4 DEF CallbackOf, Publishing, Unpublishing
<1>6. pc[c] \in Publishing \cup Unpublishing /\ c \notin Pending(n) /\ pc[c] \in Dropping
  BY <1>2 DEF Unpublishing, Pending, Dropping
<1>7. /\ Pending(n)' = Pending(n) /\ (Live(n)' <=> Live(n)) /\ UNCHANGED <<name, exclusive>>
      /\ pc'[c] = w /\ \A d \in Conns : d # c => pc'[d] = pc[d]
  BY <1>2, <1>3, <1>5, <1>6, CallbackMoves, SMTT(30) DEF Live
<1>8. /\ IsFiniteSet(Pending(n))'
      /\ (stopped[n] + Cardinality(Pending(n)) + (IF Live(n) THEN 1 ELSE 0) <= started[n])'
  BY <1>3, <1>7, CallbackCounts
<1>9. ASSUME NEW t \in Media, reg'[n][t] # "none" PROVE Live(n)' \/ \E d \in Conns : Dropper(d, n, t)'
  <2>1. t # u /\ reg[n][t] # "none"
    BY <1>4, <1>9
  <2>2. CASE Live(n)
    BY <1>7, <2>2
  <2>3. CASE ~Live(n)
    <3>1. PICK d \in Conns : Dropper(d, n, t)
      BY <1>1, <1>6, <2>1, <2>3, CallbackHas
    <3>2. CASE d # c
      BY <1>7, <3>1, <3>2 DEF Dropper
    <3>3. CASE d = c
      BY <1>2, <1>7, <2>1, <3>1, <3>3 DEF Dropper, Media
    <3> QED BY <3>2, <3>3
  <2> QED BY <2>2, <2>3
<1>10. /\ ~Live(n)' => streams'[n].init = {}
       /\ exclusive => ~Live(n)'
       /\ exclusive => \A t \in Media : t \in streams'[n].init => reg'[n][t] = "init"
  BY <1>1, <1>3, <1>6, <1>7, CallbackHas
<1>11. exclusive => (lastEvent'[n] = "started" <=> (Live(n)' \/ Pending(n)' # {}))
  BY <1>1, <1>3, <1>6, <1>7, CallbackHas
<1> QED BY <1>5, <1>8, <1>9, <1>10, <1>11, CallbackStep

-----------------------------------------------------------------------------
LEMMA StepIInv == ASSUME IInv, [Next]_vars PROVE IInv'
<1>1. TypeOK /\ TypeOK'
  BY TypeStep DEF IInv
<1>2. CASE UNCHANGED vars \/ \E n \in Names : StopSession(n)
  <2>1. UNCHANGED <<exclusive, pc, name, key, pubs, streams, reg, started, stopped, lastEvent, bare>>
    BY <1>2 DEF StopSession, vars, conn, bus
  <2>2. \A n \in Names : Pending(n)' = Pending(n) /\ (Live(n)' <=> Live(n))
    BY <2>1 DEF Pending, Live
  <2>3. Counted' /\ Told'
    BY <2>1, <2>2 DEF IInv, Counted, Told
  <2>4. NoLeakedBroadcaster' /\ InitBeforeMedia' /\ OneHolder' /\ KeyNamed' /\ NotLiveEmpty' /\ Headed' /\ TornDown'
    BY <2>1 DEF IInv, NoLeakedBroadcaster, InitBeforeMedia, OneHolder, Holds, KeyNamed, NotLiveEmpty, Headed,
                TornDown, Live
  <2> QED BY <1>1, <2>3, <2>4 DEF IInv
<1>3. ASSUME NEW c \in Conns, ConnectionClosed(c) \/ Rejected(c) \/ Cancelled(c) PROVE IInv'
  BY <1>1, <1>3, TeardownMoves, SessionStep DEF ConnectionClosed, Rejected, Cancelled
<1>4. ASSUME NEW c \in Conns, NEW n \in Names, PublishStreamRequested(c, n) \/ PublishStreamFinished(c, n) PROVE IInv'
  BY <1>1, <1>4, PublishMoves, SessionStep
<1>5. ASSUME NEW c \in Conns,
             Accept(c) \/ ConnectionRequested(c) \/ LeaveAtOnce(c) \/ Respond(c) \/ Written(c)
         \/ UnsupportedCodec(c) \/ OnPublishDeclined(c) \/ Register(c) \/ Deregister(c)
      PROVE  IInv'
  BY <1>1, <1>5, OtherMoves, SessionStep DEF IInv
<1>6. ASSUME NEW c \in Conns, NEW n \in Names, CuePoint(c, n) \/ \E t \in Media : SequenceHeader(c, n, t) \/ Frame(c, n, t)
      PROVE  IInv'
  BY <1>1, <1>6, MediaStep
<1>7. ASSUME NEW c \in Conns, 
             OnPublishStarted(c) \/ OnPublishInsert(c) \/ UnpublishRemove(c) \/ UnpublishStop(c)
             \/ UnpublishDropVideo(c) \/ UnpublishDropAudio(c)
      PROVE  IInv'
  BY <1>1, <1>7, StartedStep, InsertStep, RemoveStep, StopStep, DropStep
<1> QED BY <1>2, <1>3, <1>4, <1>5, <1>6, <1>7 DEF Next, Event, Callback

\* The bridge's map, the registry and the bus agree about every name, for any
\* number of connections and names: broadcasters are dropped with their
\* stream, stops follow starts, media follows the init segment, and at rest a
\* bus subscriber knows the streams of the map (on_publish, on_video, on_audio,
\* on_unpublish).
THEOREM BridgeAgrees == Spec => []BridgeInv
<1>1. Spec => []IInv
  BY InitIInv, StepIInv, PTL DEF Spec
<1> QED BY <1>1, IInvImplies, PTL
=============================================================================
