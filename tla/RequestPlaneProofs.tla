------------------------- MODULE RequestPlaneProofs --------------------------
(***************************************************************************)
(* Proofs about RequestPlane: who is let in, for any number of keys,       *)
(* checks, reloads, callers and visits; and the life of a server process   *)
(* and of the services in it, for any flags, connections, peers, tracks,   *)
(* fragments and frames (the invariants of the services are in             *)
(* ServicesProofs).                                                        *)
(***************************************************************************)
EXTENDS RequestPlane, ServicesProofs, FiniteSetTheorems, TLAPS

-----------------------------------------------------------------------------
(* ServerLifecycle.                                                        *)

Consumes(i) == Steps[i].kind = "consumer" /\ Applies(Steps[i], flags)
Binds(i) == Steps[i].kind = "bind" /\ Applies(Steps[i], flags)

LifeTyped ==
  /\ phase \in {"args", "refused", "start", "failed", "up"}
  /\ step \in Nat /\ bound \subseteq Listeners
  /\ serving \in [Listeners -> {"no", "yes", "ended", "failed"}]
  /\ token \in BOOLEAN /\ stopped \subseteq Ingest
  /\ open \in [live : SUBSET Http, accepted : SUBSET Listeners]
  /\ handle \in {"none", "held", "closing", "closed", "dropped"}

\* Until start has returned nothing serves, and nobody has connected.
NotYet ==
  phase # "up" =>
    /\ serving = NoneServing /\ open = NoneOpen /\ stopped = {} /\ why = {} /\ handle = "none"
    /\ phase # "failed" => ~token

\* What start has done so far: the consumers and the sockets of its first steps.
Booting ==
  /\ phase \in {"args", "start"} => step \in 1..24
  /\ phase = "args" => step = 1 /\ bound = {}
  /\ phase = "start" =>
       /\ \A i \in 1..(step - 1) : Consumes(i) => Steps[i].name \in installed
       /\ \A l \in Listeners : l \in bound <=> \E i \in 1..(step - 1) : Binds(i) /\ Steps[i].name = l
  /\ phase = "up" => \A i \in 1..24 : Consumes(i) => Steps[i].name \in installed

\* A listener is bound while it serves; those that were wanted have served,
\* and one stops without the token only when the operator names it.
Serving ==
  phase = "up" =>
    /\ \A l \in Listeners : (l \in bound <=> serving[l] = "yes") /\ (serving[l] # "no" => l \in Wanted(flags))
    /\ ~token => \A l \in Wanted(flags) \ stopped : serving[l] = "yes"

\* The handle cancels the token when it closes or is dropped.
TokenHasReason ==
  /\ why \subseteq {"handle", "failure"}
  /\ handle \in {"closing", "closed", "dropped"} => token
  /\ token /\ phase = "up" => why # {}

\* A listener that stops in order waits for its connections, and shutdown for
\* the listeners.
StopsWait ==
  /\ handle # "dropped" => \A l \in open.live : serving[l] \in {"yes", "failed"}
  /\ handle = "closed" => AllEnded
  /\ phase = "failed" => bound = {} /\ tasks \subseteq {"reload"}

\* Flags that were accepted name one provider of tokens at most.
FlagsAgree == phase \notin {"args", "refused"} => ~Clash(flags)

\* The inductive invariant.
LifeInv ==
  /\ LifeTyped /\ NotYet /\ Booting /\ Serving
  /\ TokenHasReason /\ StopsWait /\ FlagsAgree

\* The provider in force is what the flags ask for, with the file's section
\* over them once the file has been applied.
AuthFits ==
  phase \notin {"args", "refused"} =>
    \/ auth.section = {} /\ auth.provider = Provider(flags)
    \/ "config" \in flags /\ auth.provider = Provider(Merged(flags, auth.section))

-----------------------------------------------------------------------------
(* The steps of start. *)

LEMMA StepsAre ==
  /\ Len(Steps) = 24 /\ DOMAIN Steps = 1..24
  /\ Steps[1] = InstallMetrics /\ Steps[2] = WatchReload /\ Steps[3] = BindRelay
  /\ Steps[4] = JoinCluster /\ Steps[5] = LoadFilter /\ Steps[6] = OpenArchive
  /\ Steps[7] = BridgeHls /\ Steps[8] = RunAgents /\ Steps[9] = BridgeDash
  /\ Steps[10] = RunTranscoders /\ Steps[11] = Federate /\ Steps[12] = BindSrt
  /\ Steps[13] = BindRtsp /\ Steps[14] = BindRtmp /\ Steps[15] = BindAdmin
  /\ Steps[16] = BindHls /\ Steps[17] = BindWhep /\ Steps[18] = BindDash
  /\ Steps[19] = BindWhip /\ Steps[20] = RecordAll /\ Steps[21] = EndPlaylists
  /\ Steps[22] = EndManifests /\ Steps[23] = ReapPeers /\ Steps[24] = Serve
BY DEF Steps

\* Each listener is bound by one step before the last.
LEMMA BindingSteps ==
  /\ \A l \in Listeners : \E i \in 1..23 : Steps[i] = Binding(l)
  /\ \A i \in 1..24 : Steps[i].kind = "bind" => Steps[i].name \in Listeners /\ Steps[i].flag = Steps[i].name
  /\ Steps[24].kind = "serve" /\ (\A i \in 1..23 : Steps[i].kind # "serve")
<1>1. \A l \in Listeners : \E i \in 1..23 : Steps[i] = Binding(l)
  <2>1. SUFFICES ASSUME NEW l \in Listeners PROVE \E i \in 1..23 : Steps[i] = Binding(l)
    OBVIOUS
  <2>2. CASE l = "relay"
    BY <2>2, StepsAre DEF BindRelay
  <2>3. CASE l = "srt"
    BY <2>3, StepsAre DEF BindSrt
  <2>4. CASE l = "rtsp"
    BY <2>4, StepsAre DEF BindRtsp
  <2>5. CASE l = "rtmp"
    BY <2>5, StepsAre DEF BindRtmp
  <2>6. CASE l = "admin"
    BY <2>6, StepsAre DEF BindAdmin
  <2>7. CASE l = "hls"
    BY <2>7, StepsAre DEF BindHls
  <2>8. CASE l = "whep"
    BY <2>8, StepsAre DEF BindWhep
  <2>9. CASE l = "dash"
    BY <2>9, StepsAre DEF BindDash
  <2>10. CASE l = "whip"
    BY <2>10, StepsAre DEF BindWhip
  <2> QED
    BY <2>2, <2>3, <2>4, <2>5, <2>6, <2>7, <2>8, <2>9, <2>10 DEF Listeners, Ingest, Http
<1>2. /\ InstallMetrics.kind = "none" /\ Serve.kind = "serve"
      /\ \A s \in {WatchReload, Federate, RecordAll, EndPlaylists, EndManifests, ReapPeers} : s.kind = "task"
      /\ \A s \in {JoinCluster, LoadFilter, OpenArchive, BridgeHls, RunAgents, BridgeDash, RunTranscoders} :
           s.kind = "consumer"
  BY DEF InstallMetrics, Serve, WatchReload, Federate, RecordAll, EndPlaylists, EndManifests, ReapPeers,
         JoinCluster, LoadFilter, OpenArchive, BridgeHls, RunAgents, BridgeDash, RunTranscoders,
         Step, Task, Consumer
<1>3. \A s \in {BindRelay, BindSrt, BindRtsp, BindRtmp, BindAdmin, BindHls, BindWhep, BindDash, BindWhip} :
        s.kind = "bind" /\ s.name \in Listeners /\ s.flag = s.name
  BY DEF BindRelay, BindSrt, BindRtsp, BindRtmp, BindAdmin, BindHls, BindWhep, BindDash, BindWhip,
         Binding, Step, Listeners, Ingest, Http
<1>4. \A i \in 1..24 : i \in {1, 2, 3, 4, 5, 6, 7, 8, 9, 10, 11, 12, 13, 14, 15, 16, 17, 18, 19, 20, 21, 22, 23, 24}
  OBVIOUS
<1>5. \A i \in 1..23 : Steps[i] = InstallMetrics
        \/ Steps[i] \in {WatchReload, Federate, RecordAll, EndPlaylists, EndManifests, ReapPeers}
        \/ Steps[i] \in {JoinCluster, LoadFilter, OpenArchive, BridgeHls, RunAgents, BridgeDash, RunTranscoders}
        \/ Steps[i] \in {BindRelay, BindSrt, BindRtsp, BindRtmp, BindAdmin, BindHls, BindWhep, BindDash, BindWhip}
  BY <1>4, StepsAre
<1>6. \A i \in 1..24 : i \in 1..23 \/ i = 24
  OBVIOUS
<1> QED BY <1>1, <1>2, <1>3, <1>5, <1>6, StepsAre

\* When the last step is next, the sockets that were wanted are bound.
LEMMA AllBound ==
  ASSUME NEW l \in Listeners
  PROVE  l \in Wanted(flags) <=> \E i \in 1..23 : Binds(i) /\ Steps[i].name = l
<1>1. \A i \in 1..23 : i \in 1..24
  OBVIOUS
<1>2. Applies(Binding(l), flags) <=> l \in Wanted(flags)
  BY DEF Applies, Binding, Step, Wanted, Listeners, Ingest, Http
<1>3. Binding(l).kind = "bind" /\ Binding(l).name = l
  BY DEF Binding, Step
<1>4. ASSUME NEW i \in 1..23, Binds(i), Steps[i].name = l PROVE Applies(Binding(l), flags)
  <2>1. Steps[i].flag = l
    BY <1>1, <1>4, BindingSteps DEF Binds
  <2> QED BY <2>1, <1>4 DEF Binds, Applies, Binding, Step
<1> QED BY <1>2, <1>3, <1>4, BindingSteps DEF Binds

-----------------------------------------------------------------------------
(* The command line and start. *)

LEMMA LifeBegins == LifeInit => LifeInv
<1> SUFFICES ASSUME LifeInit PROVE LifeInv
  OBVIOUS
<1> USE DEF LifeInit
<1>1. LifeTyped
  BY DEF LifeTyped, NoneServing, NoneOpen
<1>2. NotYet /\ Booting /\ Serving
  BY DEF NotYet, Booting, Serving
<1>3. TokenHasReason /\ StopsWait /\ FlagsAgree
  BY DEF TokenHasReason, StopsWait, FlagsAgree, NoneOpen
<1> QED BY <1>1, <1>2, <1>3 DEF LifeInv

LEMMA ParseArgsStep == LifeInv /\ ParseArgs => LifeInv'
<1> SUFFICES ASSUME LifeInv, ParseArgs PROVE LifeInv'
  OBVIOUS
<1> USE DEF ParseArgs
<1>1. phase' \in {"start", "refused"} /\ (phase' = "start" => ~Clash(flags))
  OBVIOUS
<1>2. LifeTyped' /\ NotYet'
  BY <1>1 DEF LifeInv, LifeTyped, NotYet
<1>3. Booting' /\ Serving'
  <2>1. step = 1 /\ bound = {} /\ 1..(step - 1) = {}
    BY DEF LifeInv, Booting
  <2> QED BY <1>1, <2>1 DEF Booting, Serving
<1>4. TokenHasReason' /\ StopsWait' /\ FlagsAgree'
  BY <1>1 DEF LifeInv, TokenHasReason, StopsWait, AllEnded, FlagsAgree
<1> QED BY <1>2, <1>3, <1>4 DEF LifeInv

LEMMA BootStepStep == LifeInv /\ BootStep => LifeInv'
<1> SUFFICES ASSUME LifeInv, BootStep PROVE LifeInv'
  OBVIOUS
<1>0. /\ phase = "start" /\ step \in 1..24 /\ step' = step + 1
      /\ phase' = (IF step = 24 THEN "up" ELSE "start")
      /\ handle' = (IF step = 24 THEN "held" ELSE handle)
      /\ UNCHANGED <<flags, token, stopped, open, why>>
  BY StepsAre DEF BootStep, LifeInv, Booting
<1>1. /\ handle = "none" /\ serving = NoneServing /\ open = NoneOpen
      /\ stopped = {} /\ why = {} /\ ~token
  BY <1>0 DEF LifeInv, NotYet
<1>2. /\ installed' = IF Consumes(step) THEN installed \cup {Steps[step].name} ELSE installed
      /\ bound' = IF Binds(step) THEN bound \cup {Steps[step].name} ELSE bound
      /\ serving' = IF step = 24 THEN [l \in Listeners |-> IF l \in bound THEN "yes" ELSE "no"] ELSE serving
  <2>1. Steps[step].kind = "serve" <=> step = 24
    BY <1>0, BindingSteps
  <2> QED BY <1>0, <2>1 DEF BootStep, Consumes, Binds
<1>3. \A i \in 1..step : i \in 1..(step - 1) \/ i = step
  BY <1>0
<1>4. \A i \in 1..24 : Consumes(i)' = Consumes(i) /\ Binds(i)' = Binds(i)
  BY <1>0 DEF Consumes, Binds
<1>5. \A i \in 1..step : Consumes(i) => Steps[i].name \in installed'
  BY <1>0, <1>2, <1>3 DEF LifeInv, Booting
<1>6. \A l \in Listeners : l \in bound' <=> \E i \in 1..step : Binds(i) /\ Steps[i].name = l
  <2>1. \A l \in Listeners : l \in bound <=> \E i \in 1..(step - 1) : Binds(i) /\ Steps[i].name = l
    BY <1>0 DEF LifeInv, Booting
  <2> QED BY <2>1, <1>0, <1>2, <1>3
<1>7. bound' \subseteq Listeners
  BY <1>0, <1>2, BindingSteps DEF LifeInv, LifeTyped, Binds
<1>8. LifeTyped'
  BY <1>0, <1>2, <1>7 DEF LifeInv, LifeTyped
<1>9. NotYet'
  BY <1>0, <1>1, <1>2 DEF NotYet
<1>10. Booting'
  <2>1. CASE step = 24
    BY <2>1, <1>0, <1>4, <1>5 DEF Booting
  <2>2. CASE step # 24
    <3>1. phase' = "start" /\ step' \in 1..24 /\ step' - 1 = step
      BY <2>2, <1>0
    <3>2. \A i \in 1..step : i \in 1..24
      BY <1>0
    <3> QED BY <3>1, <3>2, <1>4, <1>5, <1>6 DEF Booting
  <2> QED BY <2>1, <2>2
<1>11. Serving'
  <2> SUFFICES ASSUME step = 24 PROVE Serving'
    BY <1>0 DEF Serving
  <2>1. \A l \in Listeners : l \in bound <=> l \in Wanted(flags)
    BY <1>0, AllBound DEF LifeInv, Booting
  <2>2. bound' = bound
    BY <1>2, BindingSteps DEF Binds
  <2>3. Wanted(flags) \subseteq Listeners
    BY DEF Wanted, Listeners, Ingest, Http
  <2>4. \A l \in Listeners : serving'[l] = IF l \in bound THEN "yes" ELSE "no"
    BY <1>2
  <2> QED BY <2>1, <2>2, <2>3, <2>4, <1>0 DEF Serving
<1>12. TokenHasReason' /\ StopsWait' /\ FlagsAgree'
  <2>1. handle' \in {"none", "held"} /\ phase' \in {"start", "up"}
    BY <1>0, <1>1
  <2> QED BY <2>1, <1>0, <1>1 DEF LifeInv, TokenHasReason, StopsWait, FlagsAgree, NoneOpen
<1> QED BY <1>8, <1>9, <1>10, <1>11, <1>12 DEF LifeInv

LEMMA BootFailsStep == LifeInv /\ BootFails => LifeInv'
<1> SUFFICES ASSUME LifeInv, BootFails PROVE LifeInv'
  OBVIOUS
<1> USE DEF BootFails
<1>1. LifeTyped' /\ NotYet' /\ Booting' /\ Serving'
  BY DEF LifeInv, LifeTyped, NotYet, Booting, Serving
<1>2. TokenHasReason'
  BY DEF LifeInv, NotYet, TokenHasReason
<1>3. StopsWait' /\ FlagsAgree'
  BY DEF LifeInv, NotYet, StopsWait, FlagsAgree, NoneOpen
<1> QED BY <1>1, <1>2, <1>3 DEF LifeInv

LEMMA RestartStep == LifeInv /\ Restart => LifeInv'
<1> SUFFICES ASSUME LifeInv, Restart PROVE LifeInv'
  OBVIOUS
<1> USE DEF Restart
<1>1. LifeTyped' /\ NotYet' /\ Booting' /\ Serving'
  <2>1. LifeTyped'
    BY DEF LifeTyped, NoneServing, NoneOpen
  <2>2. NotYet'
    BY DEF NotYet, NoneServing, NoneOpen
  <2>3. Booting' /\ Serving'
    BY DEF Booting, Serving
  <2> QED BY <2>1, <2>2, <2>3
<1>2. TokenHasReason' /\ StopsWait' /\ FlagsAgree'
  BY DEF TokenHasReason, StopsWait, FlagsAgree, NoneOpen
<1> QED BY <1>1, <1>2 DEF LifeInv
-----------------------------------------------------------------------------
(* Running. *)

\* Something serves, or the handle is there: start has returned.
LEMMA Running ==
  ASSUME LifeInv, (\E l \in Listeners : serving[l] = "yes") \/ handle # "none" \/ open.live # {} \/ open.accepted # {}
  PROVE  phase = "up"
BY DEF LifeInv, NotYet, NoneServing, NoneOpen

\* Once the server is up the boot is history.
LEMMA BootIsHistory ==
  ASSUME LifeInv, phase = "up", UNCHANGED <<flags, phase, step, installed>>
  PROVE  Booting' /\ NotYet' /\ FlagsAgree' /\ phase' = "up" /\ step' \in Nat /\ Wanted(flags') = Wanted(flags)
<1>1. \A i \in 1..24 : Consumes(i)' = Consumes(i)
  BY DEF Consumes
<1> QED BY <1>1 DEF LifeInv, LifeTyped, Booting, NotYet, FlagsAgree

LEMMA AcceptStep == ASSUME LifeInv, NEW l \in Listeners, Accept(l) PROVE LifeInv'
<1> USE DEF Accept
<1>0. phase = "up"
  BY Running
<1>1. Booting' /\ NotYet' /\ FlagsAgree' /\ phase' = "up"
  BY <1>0, BootIsHistory
<1>2. open'.live \subseteq open.live \cup {l} /\ open'.live \subseteq Http /\ open'.accepted \subseteq Listeners
  BY DEF LifeInv, LifeTyped
<1>3. LifeTyped'
  BY <1>2 DEF LifeInv, LifeTyped
<1>4. Serving' /\ TokenHasReason'
  BY DEF LifeInv, Serving, TokenHasReason
<1>5. StopsWait'
  BY <1>1, <1>2 DEF LifeInv, StopsWait, AllEnded
<1> QED BY <1>1, <1>3, <1>4, <1>5 DEF LifeInv

LEMMA ConnectionEndsStep == ASSUME LifeInv, NEW l \in Listeners, ConnectionEnds(l) PROVE LifeInv'
<1> USE DEF ConnectionEnds
<1>0. phase = "up"
  BY Running
<1>1. Booting' /\ NotYet' /\ FlagsAgree' /\ phase' = "up"
  BY <1>0, BootIsHistory
<1>2. open' \in [live : SUBSET Http, accepted : SUBSET Listeners] /\ open'.live \subseteq open.live
  BY DEF LifeInv, LifeTyped
<1>3. LifeTyped' /\ Serving' /\ TokenHasReason'
  BY <1>2 DEF LifeInv, LifeTyped, Serving, TokenHasReason
<1>4. StopsWait'
  BY <1>1, <1>2 DEF LifeInv, StopsWait, AllEnded
<1> QED BY <1>1, <1>3, <1>4 DEF LifeInv

LEMMA OperatorStopsStep == ASSUME LifeInv, NEW l \in Listeners, OperatorStops(l) PROVE LifeInv'
<1> USE DEF OperatorStops
<1>0. phase = "up"
  BY Running DEF Listeners, Http
<1>1. Booting' /\ NotYet' /\ FlagsAgree' /\ phase' = "up"
  BY <1>0, BootIsHistory
<1>2. LifeTyped' /\ Serving' /\ TokenHasReason' /\ StopsWait'
  BY DEF LifeInv, LifeTyped, Serving, TokenHasReason, StopsWait, AllEnded
<1> QED BY <1>1, <1>2 DEF LifeInv

\* A listener ends, by itself or because it was told to.
LEMMA EndsStep ==
  ASSUME LifeInv, NEW l \in Listeners, NEW how \in {"ended", "failed"}, NEW cause \in {"failure", "stop"},
         serving[l] = "yes", Ends(l, how, cause),
         cause = "stop" => l \in stopped \/ token,
         how = "ended" => l \notin open.live
  PROVE  LifeInv'
<1> USE DEF Ends
<1>0. phase = "up"
  BY Running
<1>1. Booting' /\ NotYet' /\ FlagsAgree' /\ phase' = "up" /\ step' \in Nat /\ Wanted(flags') = Wanted(flags)
  BY <1>0, BootIsHistory
<1>2. /\ serving' \in [Listeners -> {"no", "yes", "ended", "failed"}] /\ serving'[l] = how
      /\ \A k \in Listeners \ {l} : serving'[k] = serving[k]
  BY DEF LifeInv, LifeTyped
<1>3. l \in stopped => l \in Ingest
  BY DEF LifeInv, LifeTyped
<1>4. LifeTyped'
  BY <1>1, <1>2 DEF LifeInv, LifeTyped, Cascades
<1>5. Serving'
  <2>1. ~token' => ~token /\ l \in stopped
    BY DEF Cascades, LifeInv, LifeTyped
  <2>2. \A k \in Listeners : (k \in bound' <=> serving'[k] = "yes") /\ (serving'[k] # "no" => k \in Wanted(flags))
    BY <1>0, <1>2 DEF LifeInv, Serving
  <2>3. Wanted(flags) \subseteq Listeners
    BY DEF Wanted, Listeners, Ingest, Http
  <2>4. ~token' => \A k \in Wanted(flags) \ stopped : serving'[k] = "yes"
    BY <2>1, <2>3, <1>0, <1>2 DEF LifeInv, Serving
  <2> QED BY <2>2, <2>4, <1>1 DEF Serving
<1>6. TokenHasReason'
  <2>1. Cascades(l) /\ ~token => cause = "failure"
    BY <1>3 DEF Cascades
  <2>2. why' \subseteq {"handle", "failure"}
    BY <2>1 DEF LifeInv, TokenHasReason
  <2>3. token' => why' # {}
    BY <1>0 DEF LifeInv, TokenHasReason
  <2> QED BY <2>2, <2>3 DEF LifeInv, TokenHasReason
<1>7. StopsWait'
  <2>1. handle # "closed"
    BY DEF LifeInv, StopsWait, AllEnded
  <2>2. open.live \subseteq Listeners
    BY DEF LifeInv, LifeTyped, Listeners
  <2> QED BY <2>1, <2>2, <1>1, <1>2 DEF LifeInv, StopsWait
<1> QED BY <1>1, <1>4, <1>5, <1>6, <1>7 DEF LifeInv

LEMMA ListenerSteps ==
  ASSUME LifeInv, NEW l \in Listeners, ListenerFails(l) \/ ListenerStops(l)
  PROVE  LifeInv'
<1>1. CASE ListenerFails(l)
  BY <1>1, EndsStep DEF ListenerFails
<1>2. CASE ListenerStops(l)
  <2>1. l \notin open.live
    BY <1>2 DEF ListenerStops, LifeInv, LifeTyped
  <2> QED BY <1>2, <2>1, EndsStep DEF ListenerStops
<1> QED BY <1>1, <1>2

\* Shutdown and the drop of the handle cancel the token.
LEMMA HandleSteps == LifeInv /\ (Shutdown \/ DropHandle) => LifeInv'
<1> SUFFICES ASSUME LifeInv, Shutdown \/ DropHandle PROVE LifeInv'
  OBVIOUS
<1>0. /\ handle = "held" /\ handle' \in {"closing", "dropped"} /\ token' = TRUE /\ why' = why \cup {"handle"}
      /\ UNCHANGED <<flags, phase, step, bound, installed, tasks, serving, stopped, open>>
  BY DEF Shutdown, DropHandle
<1>1. Booting' /\ NotYet' /\ FlagsAgree' /\ phase' = "up"
  BY <1>0, Running, BootIsHistory
<1>2. LifeTyped' /\ Serving' /\ TokenHasReason'
  BY <1>0 DEF LifeInv, LifeTyped, Serving, TokenHasReason
<1>3. StopsWait'
  BY <1>0, <1>1 DEF LifeInv, StopsWait
<1> QED BY <1>1, <1>2, <1>3 DEF LifeInv

LEMMA ShutdownReturnsStep == LifeInv /\ ShutdownReturns => LifeInv'
<1> SUFFICES ASSUME LifeInv, ShutdownReturns PROVE LifeInv'
  OBVIOUS
<1> USE DEF ShutdownReturns
<1>1. Booting' /\ NotYet' /\ FlagsAgree' /\ phase' = "up"
  BY Running, BootIsHistory
<1>2. LifeTyped' /\ Serving' /\ TokenHasReason'
  BY DEF LifeInv, LifeTyped, Serving, TokenHasReason
<1>3. StopsWait'
  BY <1>1 DEF LifeInv, StopsWait, AllEnded
<1> QED BY <1>1, <1>2, <1>3 DEF LifeInv

LEMMA AbortedStep == LifeInv /\ Aborted => LifeInv'
<1> SUFFICES ASSUME LifeInv, Aborted PROVE LifeInv'
  OBVIOUS
<1> USE DEF Aborted
<1>1. /\ Booting' /\ NotYet' /\ FlagsAgree' /\ phase' = "up" /\ phase = "up"
      /\ Wanted(flags') = Wanted(flags)
  BY Running, BootIsHistory
<1>2. serving' \in [Listeners -> {"no", "yes", "ended", "failed"}]
  BY DEF LifeInv, LifeTyped
<1>3. token /\ token'
  BY DEF LifeInv, TokenHasReason
<1>4. \A l \in Listeners : serving'[l] # "yes" /\ (serving'[l] # "no" => serving[l] # "no")
  OBVIOUS
<1>5. LifeTyped' /\ Serving' /\ TokenHasReason'
  BY <1>1, <1>2, <1>3, <1>4 DEF LifeInv, LifeTyped, Serving, TokenHasReason
<1>6. StopsWait'
  BY <1>1 DEF StopsWait
<1> QED BY <1>1, <1>5, <1>6 DEF LifeInv

\* A task on the side ends, or nothing of the server's life changes.
LEMMA TasksStep ==
  ASSUME LifeInv, tasks' \subseteq tasks,
         UNCHANGED <<flags, phase, step, bound, installed, serving, token, stopped, open, handle, why>>
  PROVE  LifeInv'
<1>1. LifeTyped' /\ NotYet' /\ Serving' /\ TokenHasReason' /\ FlagsAgree'
  BY DEF LifeInv, LifeTyped, NotYet, Serving, TokenHasReason, FlagsAgree
<1>2. \A i \in Nat : Consumes(i)' = Consumes(i) /\ Binds(i)' = Binds(i)
  BY DEF Consumes, Binds
<1>3. Booting'
  <2>1. step \in Nat
    BY DEF LifeInv, LifeTyped
  <2> QED BY <2>1, <1>2 DEF LifeInv, Booting
<1>4. StopsWait'
  BY DEF LifeInv, StopsWait, AllEnded
<1> QED BY <1>1, <1>3, <1>4 DEF LifeInv

LEMMA LifeStep == LifeInv /\ (LifeNext \/ UNCHANGED life) => LifeInv'
<1> SUFFICES ASSUME LifeInv, LifeNext \/ UNCHANGED life PROVE LifeInv'
  OBVIOUS
<1>1. CASE ParseArgs \/ BootStep \/ BootFails \/ Restart
  BY <1>1, ParseArgsStep, BootStepStep, BootFailsStep, RestartStep
<1>0. CASE \E section \in AuthSections : ReloadConfig(section)
  BY <1>0, TasksStep DEF ReloadConfig
<1>2. CASE Shutdown \/ DropHandle \/ ShutdownReturns \/ Aborted
  BY <1>2, HandleSteps, ShutdownReturnsStep, AbortedStep
<1>3. CASE \E l \in Listeners : Accept(l) \/ ConnectionEnds(l) \/ OperatorStops(l)
  BY <1>3, AcceptStep, ConnectionEndsStep, OperatorStopsStep
<1>4. CASE \E l \in Listeners : ListenerFails(l) \/ ListenerStops(l)
  BY <1>4, ListenerSteps
<1>5. CASE \E t \in tasks : TaskEnds(t)
  BY <1>5, TasksStep DEF TaskEnds
<1>6. CASE UNCHANGED life
  BY <1>6, TasksStep DEF life
<1> QED BY <1>0, <1>1, <1>2, <1>3, <1>4, <1>5, <1>6 DEF LifeNext

\* Every reload builds from the flags of the invocation.
LEMMA AuthStep == AuthFits /\ (LifeNext \/ UNCHANGED life) => AuthFits'
<1> SUFFICES ASSUME AuthFits, LifeNext \/ UNCHANGED life PROVE AuthFits'
  OBVIOUS
<1>1. ASSUME NEW section \in AuthSections, ApplyFile(section), "config" \in flags, UNCHANGED flags
      PROVE  AuthFits'
  BY <1>1 DEF ApplyFile, AuthFits
<1>2. CASE ParseArgs
  <2>1. UNCHANGED flags /\ (phase' = "refused" \/ auth' = [NoAuth EXCEPT !.provider = Provider(flags)])
    BY <1>2 DEF ParseArgs
  <2>2. CASE phase' = "refused"
    BY <2>2 DEF AuthFits
  <2>3. CASE auth' = [NoAuth EXCEPT !.provider = Provider(flags)]
    <3>1. auth'.section = {} /\ auth'.provider = Provider(flags')
      BY <2>1, <2>3 DEF NoAuth
    <3> QED BY <3>1 DEF AuthFits
  <2> QED BY <2>1, <2>2, <2>3
<1>3. CASE BootStep
  <2>1. UNCHANGED flags /\ phase = "start"
    BY <1>3 DEF BootStep
  <2>2. \/ UNCHANGED auth
        \/ /\ Applies(WatchReload, flags)
           /\ \E section \in AuthSections : ApplyFile(section)
    BY <1>3 DEF BootStep
  <2>3. CASE UNCHANGED auth
    BY <2>1, <2>3 DEF AuthFits
  <2>4. ASSUME Applies(WatchReload, flags) PROVE "config" \in flags
    BY <2>4 DEF Applies, WatchReload, Task, Step
  <2> QED BY <1>1, <2>1, <2>2, <2>3, <2>4
<1>4. CASE Restart
  BY <1>4 DEF Restart, AuthFits
<1>5. CASE \E section \in AuthSections : ReloadConfig(section)
  BY <1>1, <1>5 DEF ReloadConfig
<1>6. ASSUME UNCHANGED <<auth, flags>>, phase' = phase \/ phase = "start" PROVE AuthFits'
  BY <1>6 DEF AuthFits
<1>7. CASE BootFails \/ Shutdown \/ ShutdownReturns \/ DropHandle \/ Aborted
  <2>1. CASE UNCHANGED auth
    BY <1>6, <1>7, <2>1 DEF BootFails, Shutdown, ShutdownReturns, DropHandle, Aborted
  <2>2. CASE ~ UNCHANGED auth
    BY <1>2, <1>3, <1>4, <1>5, <2>2 DEF LifeNext, life
  <2> QED BY <2>1, <2>2
<1>8. CASE \E l \in Listeners :
             Accept(l) \/ ConnectionEnds(l) \/ OperatorStops(l) \/ ListenerFails(l) \/ ListenerStops(l)
  <2>1. UNCHANGED <<flags, phase>>
    BY <1>8 DEF Accept, ConnectionEnds, OperatorStops, ListenerFails, ListenerStops, Ends
  <2>2. CASE UNCHANGED auth
    BY <1>6, <2>1, <2>2
  <2>3. CASE ~ UNCHANGED auth
    BY <1>2, <1>3, <1>4, <1>5, <2>3 DEF LifeNext, life
  <2> QED BY <2>2, <2>3
<1>9. CASE (\E t \in tasks : TaskEnds(t)) /\ UNCHANGED auth
  BY <1>6, <1>9 DEF TaskEnds
<1>10. CASE UNCHANGED life
  BY <1>6, <1>10 DEF life
<1> QED BY <1>2, <1>3, <1>4, <1>5, <1>7, <1>8, <1>9, <1>10 DEF LifeNext

-----------------------------------------------------------------------------
\* Two of the strategies that exclude one another are a clash.
LEMMA OneStrategy ==
  ASSUME NEW fs, NEW x \in {"jwks", "webhook", "jwt"}, NEW y \in {"jwks", "webhook", "jwt"},
         x \in fs, y \in fs, ~Clash(fs)
  PROVE  x = y
<1> DEFINE both == fs \cap {"jwks", "webhook", "jwt"}
<1>1. IsFiniteSet({"jwks", "webhook", "jwt"})
  <2>1. IsFiniteSet({}) /\ IsFiniteSet({} \cup {"jwks"})
    BY FS_EmptySet, FS_AddElement
  <2>2. IsFiniteSet({"jwks"} \cup {"webhook"})
    BY <2>1, FS_AddElement
  <2>3. IsFiniteSet({"jwks", "webhook"} \cup {"jwt"})
    BY <2>2, FS_AddElement
  <2> QED BY <2>3
<1>2. IsFiniteSet(both) /\ {x, y} \subseteq both
  BY <1>1, FS_Subset
<1>3. Cardinality({x, y}) <= Cardinality(both)
  BY <1>2, FS_Subset
<1>4. Cardinality(both) \in Nat /\ Cardinality(both) <= 1
  BY <1>2, FS_CardinalityType DEF Clash
<1> SUFFICES ASSUME x # y PROVE FALSE
  OBVIOUS
<1>5. IsFiniteSet({x}) /\ Cardinality({x}) = 1
  BY FS_Singleton
<1>6. Cardinality({x} \cup {y}) = 2
  BY <1>5, FS_AddElement
<1>7. {x} \cup {y} = {x, y}
  OBVIOUS
<1> QED BY <1>3, <1>4, <1>6, <1>7

LEMMA ModesAgree == ASSUME NEW fs, ~Clash(fs) PROVE AuthMode(fs) = Provider(fs)
BY OneStrategy DEF AuthMode, Provider

LEMMA LifeInvIsEnough == LifeInv /\ AuthFits => LifecycleInv
<1> SUFFICES ASSUME LifeInv, AuthFits PROVE LifecycleInv
  OBVIOUS
<1>1. ConsumersFirst
  <2>1. ASSUME open.accepted # {} \/ phase = "up"
        PROVE  \A i \in DOMAIN Steps :
                 Steps[i].kind = "consumer" /\ Applies(Steps[i], flags) => Steps[i].name \in installed
    BY <2>1, Running, StepsAre DEF LifeInv, Booting, Consumes
  <2>2. ASSUME phase = "up", ~token, stopped = {}
        PROVE  bound = Wanted(flags) /\ \A l \in bound : serving[l] = "yes"
    <3>1. \A l \in Wanted(flags) : serving[l] = "yes"
      BY <2>2 DEF LifeInv, Serving
    <3>2. \A l \in Listeners : (l \in bound <=> serving[l] = "yes") /\ (serving[l] # "no" => l \in Wanted(flags))
      BY <2>2 DEF LifeInv, Serving
    <3>3. bound \subseteq Listeners /\ Wanted(flags) \subseteq Listeners
      BY DEF LifeInv, LifeTyped, Wanted, Listeners, Ingest, Http
    <3> QED BY <3>1, <3>2, <3>3
  <2> QED BY <2>1, <2>2 DEF ConsumersFirst
<1>2. StopIsLocal
  BY DEF LifeInv, TokenHasReason, Serving, StopIsLocal
<1>3. StopIsComplete
  <2>1. ASSUME handle = "closed"
        PROVE  AllEnded /\ bound = {} /\ \A l \in open.live : serving[l] = "failed"
    <3>1. phase = "up" /\ AllEnded
      BY <2>1, Running DEF LifeInv, StopsWait
    <3>2. bound \subseteq Listeners /\ open.live \subseteq Listeners
      BY DEF LifeInv, LifeTyped, Listeners
    <3>3. bound = {}
      BY <3>1, <3>2 DEF LifeInv, Serving, AllEnded
    <3>4. \A l \in open.live : serving[l] = "failed"
      BY <2>1, <3>1, <3>2 DEF LifeInv, StopsWait, AllEnded
    <3> QED BY <3>1, <3>3, <3>4
  <2> QED BY <2>1 DEF LifeInv, StopsWait, StopIsComplete
<1>4. ModeHonest
  <2> SUFFICES ASSUME phase \notin {"args", "refused"}, ~({"supplied", "config"} \subseteq flags)
               PROVE  /\ auth.section \subseteq flags => AuthMode(flags) = auth.provider
                      /\ auth.provider = "noop" => AuthMode(flags) = "noop"
    BY DEF ModeHonest
  <2>1. AuthMode(flags) = Provider(flags)
    BY ModesAgree DEF LifeInv, FlagsAgree
  <2>2. CASE auth.section = {} /\ auth.provider = Provider(flags)
    BY <2>1, <2>2
  <2>3. CASE "config" \in flags /\ auth.provider = Provider(Merged(flags, auth.section))
    <3>1. "supplied" \notin flags
      BY <2>3
    <3>2. Merged(flags, auth.section) = flags \cup auth.section
      BY <3>1 DEF Merged
    <3>3. auth.section \subseteq flags => Merged(flags, auth.section) = flags
      BY <3>2
    <3>4. auth.provider = "noop" => AuthMode(flags) = "noop"
      BY <2>3, <3>1, <3>2 DEF Provider, AuthMode
    <3> QED BY <2>1, <2>3, <3>3, <3>4
  <2> QED BY <2>2, <2>3 DEF AuthFits
<1> QED BY <1>1, <1>2, <1>3, <1>4 DEF LifecycleInv

-----------------------------------------------------------------------------
(* PlaybackGate.                                                           *)

GateTyped ==
  /\ visit \in [at : {"none", "open", "secret", "sig", "token", "served", "denied"},
                ask : Visits \cup {NoVisit.ask}, secret : Secrets \cup {NoSecret},
                by : {"none", "signature", "token"}]
  /\ refresher \in {"wait", "fetch", "store"} /\ permit \in BOOLEAN
  /\ hmac \in Secrets \cup {NoSecret} /\ inForce \subseteq Secrets \cup {NoSecret}

\* What a fetch brings is a set the issuer has published, or nothing.
FetchedIsASnapshot == Usable(issuer) \in snapshots /\ fetched \in snapshots \cup {{}}

\* The history starts with the request, and the secret it loaded is part of it.
SecretsKnown ==
  /\ visit.at # "none" => hmac \in inForce
  /\ visit.at = "sig" => visit.secret \in inForce

\* A signature is passed over only when there was no secret.
TokenIsSecond == visit.at = "token" /\ visit.ask.sig.exp # 0 => NoSecret \in inForce

GateInd ==
  GateTyped /\ KeysAreASnapshot /\ FetchedIsASnapshot /\ MissIsAsked /\ SecretsKnown /\ TokenIsSecond
    /\ SignatureDecides

-----------------------------------------------------------------------------
(* AdminApi.                                                               *)

Creates == topic \in {"ladder", "agents"}
Creating == {c \in Callers : calls[c].at = "second" /\ calls[c].op = "post"}
Forgetting == {c \in Callers : calls[c].at = "third"}

\* The part that is added first and removed first.
FirstPart == IF ({"video", "runner"} \cap resource) = {} THEN 0 ELSE 1

ApiTyped ==
  /\ AdminTypeOK
  /\ calls \in [Callers -> [at : {"idle", "handle", "second", "third"},
                            op : {"none", "get", "post", "delete"}, token : {"none", "admin"}]]
  /\ account \in [sent : Nat, made : Nat, gone : Nat, by : SUBSET {"admin"}, overlap : BOOLEAN,
                  last : [op : {"none", "get", "post", "delete"}, status : Nat]]
  /\ topic = "broadcasts" => ("streams" \in resource => "row" \in resource)

\* Only admins wait, and only renditions and agents are created.
CallsAllowed ==
  /\ \A c \in Callers : calls[c].at # "idle" => calls[c].token = "admin"
  /\ \A c \in Callers : calls[c].at \in {"second", "third"} => Creates /\ calls[c].op \in {"post", "delete"}
  /\ \A c \in Callers : calls[c].at = "third" => topic = "agents" /\ calls[c].op = "delete"
  /\ ~ Creates => account.made = 0 /\ account.last.op # "post" /\ \A c \in Callers : calls[c].op # "post"

\* Every creation that was let through, finished or not, has its removal before
\* it, except for the one that is there.
CreationsCounted ==
  Creates => account.made + Cardinality(Creating) + 1
               <= account.gone + Cardinality(Forgetting) + FirstPart

\* Without overlap one caller waits at most, and the resource is as far as its
\* request is.
Alone ==
  ~ account.overlap =>
    /\ \A c, d \in Waiting : c = d
    /\ Creates => \A c \in Callers :
         /\ calls[c].at = "second" /\ calls[c].op = "post" =>
              resource = IF topic = "ladder" THEN {"video"} ELSE {"runner"}
         /\ calls[c].at = "second" /\ calls[c].op = "delete" => resource = Parts[topic]
         /\ calls[c].at = "third" => resource = {"described"}
    /\ Creates /\ (\A c \in Callers : calls[c].at \in {"idle", "handle"}) => resource \in {{}, Parts[topic]}

AdminInd == ApiTyped /\ CallsAllowed /\ CreationsCounted /\ Alone /\ AnswersTrue

LEMMA GateBegins == GateInit => GateInd
<1> SUFFICES ASSUME GateInit PROVE GateInd
  OBVIOUS
<1>1. GateTyped
  BY DEF GateInit, GateTyped, NoVisit
<1>2. KeysAreASnapshot /\ FetchedIsASnapshot /\ MissIsAsked
  BY DEF GateInit, KeysAreASnapshot, FetchedIsASnapshot, MissIsAsked
<1>3. SecretsKnown /\ TokenIsSecond /\ SignatureDecides
  BY DEF GateInit, NoVisit, SecretsKnown, TokenIsSecond, SignatureDecides
<1> QED BY <1>1, <1>2, <1>3 DEF GateInd

\* What the refresh task and the issuer do leaves every request as it is.
VisitKept == UNCHANGED <<visit, hmac, now, inForce>>

LEMMA VisitsKept == ASSUME GateInd, VisitKept
                    PROVE  SecretsKnown' /\ TokenIsSecond' /\ SignatureDecides'
<1>1. visit' = visit /\ hmac' = hmac /\ inForce' = inForce
  BY DEF VisitKept
<1>2. SecretsKnown /\ TokenIsSecond /\ SignatureDecides
  BY DEF GateInd
<1> QED BY <1>1, <1>2 DEF SecretsKnown, TokenIsSecond, SignatureDecides

\* What a request does leaves the keys as they are.
KeysKept == UNCHANGED <<issuer, cachedKeys, refresher, fetched, snapshots>>

LEMMA SnapshotsKept == ASSUME GateInd, KeysKept PROVE KeysAreASnapshot' /\ FetchedIsASnapshot'
BY DEF GateInd, KeysKept, KeysAreASnapshot, FetchedIsASnapshot

LEMMA RefreshKeeps ==
  ASSUME GateInd,
         (\E ks \in KeySets : RotateKeys(ks)) \/ RefreshWakes \/ FetchAsks \/ FetchStores
  PROVE  GateInd'
<1> USE DEF GateInd
<1>1. VisitKept
  BY DEF RotateKeys, RefreshWakes, FetchAsks, FetchStores, VisitKept
<1>2. SecretsKnown' /\ TokenIsSecond' /\ SignatureDecides'
  BY <1>1, VisitsKept
<1>3. GateTyped'
  BY DEF GateTyped, RotateKeys, RefreshWakes, FetchAsks, FetchStores
<1>4. KeysAreASnapshot' /\ FetchedIsASnapshot' /\ MissIsAsked'
  <2>1. ASSUME NEW ks \in KeySets, RotateKeys(ks) PROVE KeysAreASnapshot' /\ FetchedIsASnapshot' /\ MissIsAsked'
    BY <2>1 DEF RotateKeys, KeysAreASnapshot, FetchedIsASnapshot, MissIsAsked, Usable
  <2>2. ASSUME RefreshWakes PROVE KeysAreASnapshot' /\ FetchedIsASnapshot' /\ MissIsAsked'
    BY <2>2 DEF RefreshWakes, KeysAreASnapshot, FetchedIsASnapshot, MissIsAsked, Usable
  <2>3. ASSUME FetchAsks PROVE KeysAreASnapshot' /\ FetchedIsASnapshot' /\ MissIsAsked'
    BY <2>3 DEF FetchAsks, KeysAreASnapshot, FetchedIsASnapshot, MissIsAsked, Usable
  <2>4. ASSUME FetchStores PROVE KeysAreASnapshot' /\ FetchedIsASnapshot' /\ MissIsAsked'
    BY <2>4 DEF FetchStores, KeysAreASnapshot, FetchedIsASnapshot, MissIsAsked, Usable
  <2> QED BY <2>1, <2>2, <2>3, <2>4
<1> QED BY <1>2, <1>3, <1>4

LEMMA RequestsKeep ==
  ASSUME GateInd,
         \/ \E s \in Secrets \cup {NoSecret} : SwapSecret(s)
         \/ TimePasses \/ LoadSecret \/ VerifySignedUrl \/ CheckBearer \/ VisitEnds
         \/ \E v \in Visits : Visit(v)
  PROVE  GateInd'
<1> USE DEF GateInd
<1> DEFINE Holds == GateTyped' /\ MissIsAsked' /\ SecretsKnown' /\ TokenIsSecond' /\ SignatureDecides'
<1>1. KeysKept
  BY DEF SwapSecret, TimePasses, LoadSecret, VerifySignedUrl, CheckBearer, VisitEnds, Visit, KeysKept
<1>2. KeysAreASnapshot' /\ FetchedIsASnapshot'
  BY <1>1, SnapshotsKept
<1>3. ASSUME NEW s \in Secrets \cup {NoSecret}, SwapSecret(s) PROVE Holds
  <2> USE <1>3 DEF SwapSecret
  <2>1. GateTyped'
    BY DEF GateTyped
  <2>2. MissIsAsked'
    BY DEF MissIsAsked
  <2>3. inForce \subseteq inForce'
    OBVIOUS
  <2>4. SecretsKnown' /\ TokenIsSecond'
    BY <2>3 DEF SecretsKnown, TokenIsSecond
  <2>5. SignatureDecides'
    BY <2>3 DEF SignatureDecides
  <2> QED BY <2>1, <2>2, <2>4, <2>5
<1>4. ASSUME TimePasses PROVE Holds
  BY <1>4 DEF TimePasses, GateTyped, MissIsAsked, SecretsKnown, TokenIsSecond, SignatureDecides
<1>5. ASSUME LoadSecret PROVE Holds
  BY <1>5 DEF LoadSecret, GateTyped, MissIsAsked, SecretsKnown, TokenIsSecond, SignatureDecides
<1>6. ASSUME VerifySignedUrl PROVE Holds
  <2> USE <1>6 DEF VerifySignedUrl
  <2>1. GateTyped' /\ MissIsAsked'
    BY DEF GateTyped, MissIsAsked, Goes
  <2>2. SecretsKnown'
    BY DEF SecretsKnown, Goes, GateTyped
  <2>3. TokenIsSecond'
    BY DEF TokenIsSecond, SecretsKnown, Goes, GateTyped
  <2>4. SignatureDecides'
    BY DEF SignatureDecides, SecretsKnown, Goes, GateTyped, Signed
  <2> QED BY <2>1, <2>2, <2>3, <2>4
<1>7. ASSUME CheckBearer PROVE Holds
  <2> USE <1>7 DEF CheckBearer
  <2>1. GateTyped'
    BY DEF GateTyped, Goes, Misses
  <2>2. MissIsAsked'
    BY DEF MissIsAsked, GateTyped, Misses
  <2>3. SecretsKnown' /\ TokenIsSecond' /\ SignatureDecides'
    BY DEF SecretsKnown, TokenIsSecond, SignatureDecides, Goes, GateTyped
  <2> QED BY <2>1, <2>2, <2>3
<1>8. ASSUME VisitEnds PROVE Holds
  BY <1>8 DEF VisitEnds, NoVisit, GateTyped, MissIsAsked, SecretsKnown, TokenIsSecond, SignatureDecides
<1>9. ASSUME NEW v \in Visits, Visit(v) PROVE Holds
  BY <1>9 DEF Visit, NoVisit, GateTyped, MissIsAsked, SecretsKnown, TokenIsSecond, SignatureDecides
<1> QED BY <1>2, <1>3, <1>4, <1>5, <1>6, <1>7, <1>8, <1>9

LEMMA GateStep == GateInd /\ (GateNext \/ UNCHANGED gate) => GateInd'
<1> SUFFICES ASSUME GateInd, GateNext \/ UNCHANGED gate PROVE GateInd'
  OBVIOUS
<1>1. CASE GateNext
  BY <1>1, RefreshKeeps, RequestsKeep DEF GateNext
<1>2. CASE UNCHANGED gate
  BY <1>2 DEF gate, GateInd, GateTyped, KeysAreASnapshot, FetchedIsASnapshot, MissIsAsked, SecretsKnown,
              TokenIsSecond, SignatureDecides
<1> QED BY <1>1, <1>2

-----------------------------------------------------------------------------
(* AdminApi: every step.                                                   *)

LEMMA PartsAre ==
  /\ DOMAIN Parts = {"ladder", "agents", "ingest", "broadcasts"}
  /\ Parts["ladder"] = {"video", "audio"} /\ Parts["agents"] = {"runner", "described"}
  /\ Parts["ingest"] = {"accepts"} /\ Parts["broadcasts"] = {"streams", "row"}
BY DEF Parts

LEMMA OpsAre == ASSUME topic \in DOMAIN Parts
                PROVE  Ops[topic] \subseteq {"get", "post", "delete"} /\ (~ Creates => "post" \notin Ops[topic])
BY PartsAre DEF Ops, Creates

\* What an answer of this status to this operation says.
Claim(op, status, r) ==
  /\ op = "post" /\ status \in {201, 409} => r = Parts[topic]
  /\ op = "delete" /\ status \in {200, 404} => r \subseteq {"row"}
  /\ Creates => r \in {{}, Parts[topic]}
  /\ "streams" \in r => "row" \in r

LEMMA RespondIs ==
  ASSUME ApiTyped, NEW c \in Callers, NEW status \in Nat, Respond(c, status)
  PROVE  /\ calls' = [calls EXCEPT ![c] = Idle] /\ calls'[c] = Idle
         /\ \A d \in Callers \ {c} : calls'[d] = calls[d]
         /\ account'.last.op = calls[c].op /\ account'.last.status = status
         /\ account'.overlap = account.overlap
         /\ account'.made = IF status = 201 THEN account.made + 1 ELSE account.made
         /\ account'.gone = IF status = 200 /\ calls[c].op = "delete" THEN account.gone + 1 ELSE account.gone
<1> USE DEF ApiTyped, Respond
<1>1. calls' = [calls EXCEPT ![c] = Idle] /\ calls'[c] = Idle /\ \A d \in Callers \ {c} : calls'[d] = calls[d]
  OBVIOUS
<1>2. account'.last = [op |-> calls[c].op, status |-> status]
  OBVIOUS
<1> QED BY <1>1, <1>2

LEMMA GoOnIs ==
  ASSUME ApiTyped, NEW c \in Callers, NEW at, GoOn(c, at)
  PROVE  /\ calls'[c] = [calls[c] EXCEPT !.at = at] /\ calls'[c].at = at /\ calls'[c].op = calls[c].op
         /\ calls'[c].token = calls[c].token
         /\ \A d \in Callers \ {c} : calls'[d] = calls[d]
         /\ account'.last = account.last /\ account'.overlap = account.overlap
         /\ account'.made = account.made /\ account'.gone = account.gone
BY DEF ApiTyped, GoOn

\* The type, for a step that answers or goes on.
ResourceKeepsType ==
  /\ topic' = topic /\ wired' = wired /\ resource' \subseteq Parts[topic]
  /\ topic = "broadcasts" => ("streams" \in resource' => "row" \in resource')

LEMMA RespondTyped ==
  ASSUME ApiTyped, CallsAllowed, ResourceKeepsType, NEW c \in Callers, NEW status \in Nat,
         calls[c].at # "idle", Respond(c, status)
  PROVE  ApiTyped' /\ calls'[c].at = "idle" /\ (status # 201 \/ Creates => CallsAllowed')
<1>1. calls[c].token = "admin"
  BY DEF CallsAllowed
<1>2. calls' \in [Callers -> [at : {"idle", "handle", "second", "third"},
                            op : {"none", "get", "post", "delete"}, token : {"none", "admin"}]]
  BY DEF ApiTyped, Respond, Idle
<1>3. account' \in [sent : Nat, made : Nat, gone : Nat, by : SUBSET {"admin"}, overlap : BOOLEAN,
                  last : [op : {"none", "get", "post", "delete"}, status : Nat]]
  <2> DEFINE made == IF status = 201 THEN account.made + 1 ELSE account.made
             gone == IF status = 200 /\ calls[c].op = "delete" THEN account.gone + 1 ELSE account.gone
             by == account.by \cup IF resource' # resource THEN {calls[c].token} ELSE {}
             last == [op |-> calls[c].op, status |-> status]
  <2>1. made \in Nat /\ gone \in Nat
    BY DEF ApiTyped
  <2>2. by \in SUBSET {"admin"}
    BY <1>1 DEF ApiTyped
  <2>3. last \in [op : {"none", "get", "post", "delete"}, status : Nat]
    BY DEF ApiTyped
  <2>4. account' = [account EXCEPT !.last = last, !.made = made, !.gone = gone, !.by = by]
    BY DEF Respond
  <2> HIDE DEF made, gone, by, last
  <2> QED BY <2>1, <2>2, <2>3, <2>4 DEF ApiTyped
<1>4. AdminTypeOK'
  BY <1>2 DEF ApiTyped, AdminTypeOK, ResourceKeepsType
<1>5. ApiTyped'
  BY <1>2, <1>3, <1>4 DEF ApiTyped, ResourceKeepsType
<1>6. calls'[c].at = "idle" /\ calls'[c].op = "none"
  BY RespondIs DEF Idle
<1>7. ASSUME status # 201 \/ Creates PROVE CallsAllowed'
  <2>1. topic' = topic /\ Creates' = Creates
    BY DEF ResourceKeepsType, Creates
  <2>2. \A d \in Callers : d # c => calls'[d] = calls[d]
    BY RespondIs
  <2>3. ~ Creates => account'.made = 0 /\ account'.last.op # "post"
    BY <1>7, RespondIs DEF CallsAllowed
  <2> QED BY <1>6, <2>1, <2>2, <2>3 DEF CallsAllowed
<1> QED BY <1>5, <1>6, <1>7

LEMMA GoOnTyped ==
  ASSUME ApiTyped, CallsAllowed, ResourceKeepsType, NEW c \in Callers, NEW at \in {"second", "third"},
         calls[c].at # "idle", calls[c].op \in {"post", "delete"}, Creates, GoOn(c, at),
         at = "third" => topic = "agents" /\ calls[c].op = "delete"
  PROVE  ApiTyped' /\ CallsAllowed' /\ AnswersTrue'
<1>1. calls[c].token = "admin"
  BY DEF CallsAllowed
<1>2. calls' \in [Callers -> [at : {"idle", "handle", "second", "third"},
                            op : {"none", "get", "post", "delete"}, token : {"none", "admin"}]]
  BY DEF ApiTyped, GoOn
<1>3. account' \in [sent : Nat, made : Nat, gone : Nat, by : SUBSET {"admin"}, overlap : BOOLEAN,
                  last : [op : {"none", "get", "post", "delete"}, status : Nat]]
  BY <1>1 DEF ApiTyped, GoOn
<1>4. AdminTypeOK'
  BY <1>2 DEF ApiTyped, AdminTypeOK, ResourceKeepsType
<1>5. ApiTyped'
  BY <1>2, <1>3, <1>4 DEF ApiTyped, ResourceKeepsType
<1>6. CallsAllowed'
  <2>1. topic' = topic /\ Creates' = Creates
    BY DEF ResourceKeepsType, Creates
  <2>2. \A d \in Callers : d # c => calls'[d] = calls[d]
    BY GoOnIs
  <2>3. calls'[c].at = at /\ calls'[c].op = calls[c].op /\ calls'[c].token = "admin"
    BY <1>1, GoOnIs
  <2> QED BY <2>1, <2>2, <2>3 DEF CallsAllowed
<1>7. c \in Waiting'
  BY GoOnIs DEF Waiting
<1>8. AnswersTrue'
  BY <1>7 DEF AnswersTrue
<1> QED BY <1>5, <1>6, <1>8

\* Whoever waits alone and is answered truly leaves all answers true.
LEMMA TrueAnswer ==
  ASSUME ApiTyped, ResourceKeepsType, NEW c \in Callers, NEW status \in Nat, Respond(c, status),
         ~ account.overlap => Claim(calls[c].op, status, resource')
  PROVE  AnswersTrue'
<1>1. topic' = topic /\ Creates' = Creates
  BY DEF ResourceKeepsType, Creates
<1>2. account'.last.op = calls[c].op /\ account'.last.status = status /\ account'.overlap = account.overlap
  BY RespondIs
<1> QED BY <1>1, <1>2 DEF AnswersTrue, Claim, Creates

LEMMA CallersCounted == IsFiniteSet(Creating) /\ IsFiniteSet(Forgetting)
BY FS_Subset, AdminAssumption DEF Creating, Forgetting

LEMMA AnswerCounts ==
  ASSUME ApiTyped, NEW c \in Callers, NEW status \in Nat, Respond(c, status)
  PROVE  /\ Cardinality(Creating') = IF c \in Creating THEN Cardinality(Creating) - 1 ELSE Cardinality(Creating)
         /\ Cardinality(Forgetting') = IF c \in Forgetting THEN Cardinality(Forgetting) - 1 ELSE Cardinality(Forgetting)
<1>1. calls'[c] = Idle /\ \A d \in Callers \ {c} : calls'[d] = calls[d]
  BY RespondIs
<1>2. Creating' = Creating \ {c} /\ Forgetting' = Forgetting \ {c}
  BY <1>1 DEF Creating, Forgetting, Idle
<1> QED BY <1>2, CallersCounted, FS_RemoveElement

LEMMA GoOnCounts ==
  ASSUME ApiTyped, NEW c \in Callers, NEW at \in {"second", "third"}, GoOn(c, at), c \notin Creating, c \notin Forgetting
  PROVE  /\ Cardinality(Creating') = IF at = "second" /\ calls[c].op = "post" THEN Cardinality(Creating) + 1
                                                                              ELSE Cardinality(Creating)
         /\ Cardinality(Forgetting') = IF at = "third" THEN Cardinality(Forgetting) + 1 ELSE Cardinality(Forgetting)
<1>1. calls'[c].at = at /\ calls'[c].op = calls[c].op /\ \A d \in Callers \ {c} : calls'[d] = calls[d]
  BY GoOnIs
<1>2. Creating' = IF at = "second" /\ calls[c].op = "post" THEN Creating \cup {c} ELSE Creating
  BY <1>1 DEF Creating
<1>3. Forgetting' = IF at = "third" THEN Forgetting \cup {c} ELSE Forgetting
  BY <1>1 DEF Forgetting
<1>4. Cardinality(Creating \cup {c}) = Cardinality(Creating) + 1 /\ Cardinality(Forgetting \cup {c}) = Cardinality(Forgetting) + 1
  BY CallersCounted, FS_AddElement
<1> QED BY <1>2, <1>3, <1>4

\* Without overlap the one who is answered or goes on was the only one.
LEMMA OnlyOne ==
  ASSUME ApiTyped, Alone, ~ account.overlap, NEW c \in Callers, calls[c].at # "idle"
  PROVE  \A d \in Callers \ {c} : calls[d].at = "idle"
BY DEF Alone, Waiting

LEMMA AloneAnswered ==
  ASSUME ApiTyped, Alone, NEW c \in Callers, NEW status \in Nat, Respond(c, status), calls[c].at # "idle",
         topic' = topic, ~ account.overlap /\ Creates => resource' \in {{}, Parts[topic]}
  PROVE  Alone'
<1>1. account'.overlap = account.overlap /\ Creates' = Creates
  BY RespondIs DEF Creates
<1>2. CASE ~ account.overlap
  <2>1. \A d \in Callers : calls'[d].at = "idle"
    BY <1>2, RespondIs, OnlyOne DEF Idle
  <2> QED BY <1>1, <1>2, <2>1 DEF Alone, Waiting
<1> QED BY <1>1, <1>2 DEF Alone

LEMMA AloneGoesOn ==
  ASSUME ApiTyped, Alone, NEW c \in Callers, NEW at \in {"second", "third"}, GoOn(c, at), calls[c].at # "idle", topic' = topic,
         ~ account.overlap =>
           /\ at = "second" /\ calls[c].op = "post" =>
                resource' = IF topic = "ladder" THEN {"video"} ELSE {"runner"}
           /\ at = "second" /\ calls[c].op = "delete" => resource' = Parts[topic]
           /\ at = "third" => resource' = {"described"}
  PROVE  Alone'
<1>1. account'.overlap = account.overlap /\ Creates' = Creates
  BY GoOnIs DEF Creates
<1>2. CASE ~ account.overlap
  <2>1. \A d \in Callers \ {c} : calls'[d].at = "idle"
    BY <1>2, GoOnIs, OnlyOne
  <2>2. calls'[c].at = at /\ calls'[c].op = calls[c].op
    BY GoOnIs
  <2> QED BY <1>1, <1>2, <2>1, <2>2 DEF Alone, Waiting
<1> QED BY <1>1, <1>2 DEF Alone

\* What a request that has not got its first lock yet finds when it is alone.
LEMMA WholeOrNothing ==
  ASSUME ApiTyped, Alone, ~ account.overlap, NEW c \in Callers, calls[c].at = "handle", Creates
  PROVE  resource \in {{}, Parts[topic]}
BY OnlyOne DEF Alone

\* A refusal, and any other answer that leaves the resource alone.
LEMMA RefuseKeeps ==
  ASSUME AdminInd, NEW c \in Callers, NEW status \in Nat, calls[c].at = "handle", topic' = topic, wired' = wired,
         Refuse(c, status), status # 201, status = 200 => calls[c].op = "get",
         calls[c].op = "post" /\ status = 409 /\ ~ account.overlap => resource = Parts[topic],
         calls[c].op = "delete" /\ status = 404 /\ ~ account.overlap => resource \subseteq {"row"}
  PROVE  AdminInd'
<1> USE DEF AdminInd
<1>1. resource' = resource /\ Respond(c, status) /\ topic' = topic
  BY DEF Refuse
<1>2. ResourceKeepsType
  BY <1>1 DEF ResourceKeepsType, ApiTyped, AdminTypeOK
<1>3. ApiTyped' /\ CallsAllowed'
  BY <1>1, <1>2, RespondTyped
<1>4. ~ account.overlap /\ Creates => resource' \in {{}, Parts[topic]}
  BY <1>1, WholeOrNothing
<1>5. Alone'
  BY <1>1, <1>4, AloneAnswered
<1>6. ~ account.overlap => Claim(calls[c].op, status, resource')
  <2>1. "streams" \in resource => "row" \in resource
    BY PartsAre DEF ApiTyped, AdminTypeOK
  <2> QED BY <1>1, <1>4, <2>1 DEF Claim
<1>7. AnswersTrue'
  BY <1>1, <1>2, <1>6, TrueAnswer
<1>8. CreationsCounted'
  <2>1. c \notin Creating /\ c \notin Forgetting
    BY DEF Creating, Forgetting
  <2>2. account'.made = account.made /\ account'.gone = account.gone /\ Creates' = Creates /\ FirstPart' = FirstPart
    BY <1>1, RespondIs DEF Creates, FirstPart
  <2> QED BY <1>1, <2>1, <2>2, AnswerCounts DEF CreationsCounted
<1> QED BY <1>3, <1>5, <1>7, <1>8

\* A first lock that lets the request through.
LEMMA GoesOnKeeps ==
  ASSUME AdminInd, NEW c \in Callers, calls[c].at = "handle", topic' = topic, wired' = wired, Creates, GoOn(c, "second"),
         \/ /\ calls[c].op = "post" /\ FirstPart = 0
            /\ resource' = resource \cup IF topic = "ladder" THEN {"video"} ELSE {"runner"}
         \/ calls[c].op = "delete" /\ resource' = resource /\ resource # {}
  PROVE  AdminInd'
<1> USE DEF AdminInd
<1>0. resource \subseteq Parts[topic] /\ topic \in {"ladder", "agents"}
  BY DEF ApiTyped, AdminTypeOK, Creates
<1>1. ResourceKeepsType
  BY <1>0, PartsAre DEF ResourceKeepsType, ApiTyped
<1>2. ApiTyped' /\ CallsAllowed' /\ AnswersTrue'
  BY <1>1, GoOnTyped
<1>3. Alone'
  <2>1. ASSUME ~ account.overlap PROVE resource \in {{}, Parts[topic]}
    BY <2>1, WholeOrNothing
  <2>2. ASSUME ~ account.overlap, calls[c].op = "post"
        PROVE  resource' = IF topic = "ladder" THEN {"video"} ELSE {"runner"}
    BY <1>0, <2>1, <2>2, PartsAre DEF FirstPart
  <2>3. ASSUME ~ account.overlap, calls[c].op = "delete" PROVE resource' = Parts[topic]
    BY <2>1, <2>3
  <2> QED BY <2>2, <2>3, AloneGoesOn
<1>4. CreationsCounted'
  <2>1. c \notin Creating /\ c \notin Forgetting
    BY DEF Creating, Forgetting
  <2>2. account'.made = account.made /\ account'.gone = account.gone /\ Creates' = Creates
    BY GoOnIs DEF Creates
  <2>3. FirstPart' = IF calls[c].op = "post" THEN FirstPart + 1 ELSE FirstPart
    BY DEF FirstPart
  <2>4. /\ Cardinality(Creating') = IF calls[c].op = "post" THEN Cardinality(Creating) + 1 ELSE Cardinality(Creating)
        /\ Cardinality(Forgetting') = Cardinality(Forgetting)
    BY <2>1, GoOnCounts
  <2>5. Cardinality(Creating) \in Nat /\ Cardinality(Forgetting) \in Nat /\ account.made \in Nat /\ account.gone \in Nat
        /\ FirstPart \in Nat
    BY CallersCounted, FS_CardinalityType DEF ApiTyped, FirstPart
  <2> QED BY <2>2, <2>3, <2>4, <2>5 DEF CreationsCounted
<1> QED BY <1>2, <1>3, <1>4

\* A listener or a publisher is stopped.
LEMMA StopKeeps ==
  ASSUME AdminInd, NEW c \in Callers, calls[c].at = "handle", calls[c].op = "delete",
         topic' = topic, wired' = wired, ~ Creates, Respond(c, 200), resource' \subseteq resource \cap {"row"}
  PROVE  AdminInd'
<1> USE DEF AdminInd
<1>1. ResourceKeepsType
  BY DEF ResourceKeepsType, ApiTyped, AdminTypeOK
<1>2. ApiTyped' /\ CallsAllowed'
  BY <1>1, RespondTyped
<1>3. Alone'
  BY AloneAnswered
<1>4. Claim(calls[c].op, 200, resource')
  BY DEF Claim
<1>5. AnswersTrue'
  BY <1>1, <1>4, TrueAnswer
<1>6. CreationsCounted'
  BY DEF CreationsCounted, Creates
<1> QED BY <1>2, <1>3, <1>5, <1>6

\* The second half of a creation: the name is there in whole.
LEMMA CreatedKeeps ==
  ASSUME AdminInd, NEW c \in Callers, calls[c].at = "second", calls[c].op = "post",
         topic' = topic, wired' = wired, Respond(c, 201),
         resource' = resource \cup IF topic = "ladder" THEN {"audio"} ELSE {"described"}
  PROVE  AdminInd'
<1> USE DEF AdminInd
<1>0. Creates /\ topic \in {"ladder", "agents"} /\ resource \subseteq Parts[topic]
  BY DEF CallsAllowed, Creates, ApiTyped, AdminTypeOK
<1>1. ResourceKeepsType
  BY <1>0, PartsAre DEF ResourceKeepsType, ApiTyped
<1>2. ApiTyped' /\ CallsAllowed'
  BY <1>0, <1>1, RespondTyped
<1>3. ASSUME ~ account.overlap PROVE resource' = Parts[topic]
  BY <1>0, <1>3, PartsAre DEF Alone
<1>4. Alone'
  BY <1>3, AloneAnswered
<1>5. ~ account.overlap => Claim(calls[c].op, 201, resource')
  BY <1>0, <1>3, PartsAre DEF Claim
<1>6. AnswersTrue'
  BY <1>1, <1>5, TrueAnswer
<1>7. CreationsCounted'
  <2>1. c \in Creating /\ c \notin Forgetting
    BY DEF Creating, Forgetting
  <2>2. account'.made = account.made + 1 /\ account'.gone = account.gone /\ Creates' = Creates
    BY RespondIs DEF Creates
  <2>3. FirstPart' = FirstPart
    BY <1>0 DEF FirstPart
  <2>4. Cardinality(Creating') = Cardinality(Creating) - 1 /\ Cardinality(Forgetting') = Cardinality(Forgetting)
    BY <2>1, AnswerCounts
  <2>5. Cardinality(Creating) \in Nat /\ Cardinality(Forgetting) \in Nat /\ account.made \in Nat /\ account.gone \in Nat
        /\ FirstPart \in Nat
    BY CallersCounted, FS_CardinalityType DEF ApiTyped, FirstPart
  <2> QED BY <2>2, <2>3, <2>4, <2>5 DEF CreationsCounted
<1> QED BY <1>2, <1>4, <1>6, <1>7

\* The end of a removal: of all factories of a rendition at once, or of an
\* agent's description after its factory.
LEMMA RemovedKeeps ==
  ASSUME AdminInd, NEW c \in Callers, topic' = topic, wired' = wired, calls[c].op = "delete", Respond(c, 200),
         \/ topic = "ladder" /\ calls[c].at = "second" /\ resource' = {}
         \/ topic = "agents" /\ calls[c].at = "third" /\ resource' = resource \ {"described"}
  PROVE  AdminInd'
<1> USE DEF AdminInd
<1>0. Creates /\ topic \in {"ladder", "agents"} /\ resource \subseteq Parts[topic]
  BY DEF CallsAllowed, Creates, ApiTyped, AdminTypeOK
<1>1. ResourceKeepsType
  BY <1>0, PartsAre DEF ResourceKeepsType, ApiTyped
<1>2. ApiTyped' /\ CallsAllowed'
  BY <1>0, <1>1, RespondTyped
<1>3. ASSUME ~ account.overlap PROVE resource' = {}
  BY <1>0, <1>3 DEF Alone
<1>4. Alone'
  BY <1>3, AloneAnswered
<1>5. ~ account.overlap => Claim(calls[c].op, 200, resource')
  BY <1>0, <1>3 DEF Claim
<1>6. AnswersTrue'
  BY <1>1, <1>5, TrueAnswer
<1>7. CreationsCounted'
  <2>1. c \notin Creating /\ (c \in Forgetting <=> topic = "agents")
    BY DEF Creating, Forgetting
  <2>2. account'.made = account.made /\ account'.gone = account.gone + 1 /\ Creates' = Creates
    BY RespondIs DEF Creates
  <2>3. topic = "agents" => FirstPart' = FirstPart
    BY DEF FirstPart
  <2>4. Cardinality(Creating') = Cardinality(Creating)
        /\ Cardinality(Forgetting') = IF topic = "agents" THEN Cardinality(Forgetting) - 1 ELSE Cardinality(Forgetting)
    BY <2>1, AnswerCounts
  <2>5. Cardinality(Creating) \in Nat /\ Cardinality(Forgetting) \in Nat /\ account.made \in Nat /\ account.gone \in Nat
        /\ FirstPart \in 0..1 /\ FirstPart' \in 0..1
    BY CallersCounted, FS_CardinalityType DEF ApiTyped, FirstPart
  <2> QED BY <2>2, <2>3, <2>4, <2>5 DEF CreationsCounted
<1> QED BY <1>2, <1>4, <1>6, <1>7

LEMMA RemoveAgentKeeps ==
  ASSUME AdminInd, NEW c \in Callers, topic' = topic, wired' = wired, RemoveAgent(c)
  PROVE  AdminInd'
<1> USE DEF AdminInd, RemoveAgent
<1>0. Creates /\ topic = "agents" /\ resource \subseteq Parts[topic]
  BY DEF Creates, ApiTyped, AdminTypeOK
<1>1. ResourceKeepsType
  BY <1>0 DEF ResourceKeepsType, ApiTyped
<1>2. ApiTyped' /\ CallsAllowed' /\ AnswersTrue'
  BY <1>0, <1>1, GoOnTyped
<1>3. ASSUME ~ account.overlap PROVE resource' = {"described"}
  BY <1>0, <1>3, PartsAre DEF Alone
<1>4. Alone'
  BY <1>3, AloneGoesOn
<1>5. CreationsCounted'
  <2>1. c \notin Creating /\ c \notin Forgetting
    BY DEF Creating, Forgetting
  <2>2. account'.made = account.made /\ account'.gone = account.gone /\ Creates' = Creates
    BY GoOnIs DEF Creates
  <2>4. Cardinality(Creating') = Cardinality(Creating) /\ Cardinality(Forgetting') = Cardinality(Forgetting) + 1
    BY <2>1, GoOnCounts
  <2>5. Cardinality(Creating) \in Nat /\ Cardinality(Forgetting) \in Nat /\ account.made \in Nat /\ account.gone \in Nat
        /\ FirstPart \in 0..1 /\ FirstPart' \in 0..1
    BY CallersCounted, FS_CardinalityType DEF ApiTyped, FirstPart
  <2> QED BY <2>2, <2>4, <2>5 DEF CreationsCounted
<1> QED BY <1>2, <1>4, <1>5

LEMMA RequestKeeps ==
  ASSUME AdminInd, NEW c \in Callers, NEW op \in Ops[topic], NEW t \in {"admin", "subscriber", "none"}, Request(c, op, t)
  PROVE  AdminInd'
<1> USE DEF AdminInd
<1>0. topic' = topic /\ wired' = wired /\ resource' = resource /\ Creates' = Creates /\ FirstPart' = FirstPart
  BY DEF Request, Creates, FirstPart
<1>1. topic \in DOMAIN Parts /\ op \in {"get", "post", "delete"} /\ (~ Creates => op # "post")
  BY OpsAre DEF ApiTyped, AdminTypeOK
<1>2. CASE AdminToken(t)
  <2>1. /\ calls' = [calls EXCEPT ![c] = [at |-> "handle", op |-> op, token |-> t]] /\ t = "admin"
        /\ account' = [account EXCEPT !.sent = IF op = "get" THEN @ ELSE @ + 1, !.overlap = @ \/ Waiting # {}]
        /\ calls[c].at = "idle"
    BY <1>2 DEF Request, AdminToken
  <2>2. calls'[c] = [at |-> "handle", op |-> op, token |-> "admin"] /\ \A d \in Callers \ {c} : calls'[d] = calls[d]
    BY <2>1 DEF ApiTyped
  <2>3. account'.made = account.made /\ account'.gone = account.gone /\ account'.last = account.last
        /\ account'.overlap = (account.overlap \/ Waiting # {})
    BY <2>1 DEF ApiTyped
  <2>4. ApiTyped'
    <3> DEFINE asksMade == IF op = "get" THEN account.sent ELSE account.sent + 1
               crossed == account.overlap \/ Waiting # {}
    <3>1. account' = [account EXCEPT !.sent = asksMade, !.overlap = crossed]
      BY <2>1
    <3>2. asksMade \in Nat /\ crossed \in BOOLEAN
      BY DEF ApiTyped
    <3> HIDE DEF asksMade, crossed
    <3>3. account' \in [sent : Nat, made : Nat, gone : Nat, by : SUBSET {"admin"}, overlap : BOOLEAN,
                        last : [op : {"none", "get", "post", "delete"}, status : Nat]]
      BY <3>1, <3>2 DEF ApiTyped
    <3>4. calls' \in [Callers -> [at : {"idle", "handle", "second", "third"},
                              op : {"none", "get", "post", "delete"}, token : {"none", "admin"}]]
      BY <1>1, <2>1 DEF ApiTyped
    <3> QED BY <1>0, <3>3, <3>4 DEF ApiTyped, AdminTypeOK
  <2>5. CallsAllowed'
    BY <1>0, <1>1, <2>2, <2>3 DEF CallsAllowed
  <2>6. CreationsCounted'
    <3>1. Creating' = Creating /\ Forgetting' = Forgetting
      BY <2>1, <2>2 DEF Creating, Forgetting
    <3> QED BY <1>0, <2>3, <3>1 DEF CreationsCounted
  <2>7. Alone'
    <3>1. CASE ~ account.overlap /\ Waiting = {}
      <4>1. \A d \in Callers : calls[d].at = "idle"
        BY <3>1 DEF Waiting
      <4>2. resource \in {{}, Parts[topic]} \/ ~ Creates
        BY <3>1, <4>1 DEF Alone
      <4> QED BY <1>0, <2>2, <4>1, <4>2 DEF Alone, Waiting
    <3>2. CASE account.overlap \/ Waiting # {}
      BY <2>3, <3>2 DEF Alone
    <3> QED BY <3>1, <3>2
  <2>8. AnswersTrue'
    <3>1. c \in Waiting'
      BY <2>2 DEF Waiting
    <3> QED BY <3>1 DEF AnswersTrue
  <2> QED BY <2>4, <2>5, <2>6, <2>7, <2>8
<1>3. CASE ~ AdminToken(t)
  <2>1. calls' = calls
        /\ account' = [account EXCEPT !.sent = IF op = "get" THEN @ ELSE @ + 1, !.last = [op |-> op, status |-> 401]]
    BY <1>3 DEF Request
  <2>2. account'.made = account.made /\ account'.gone = account.gone /\ account'.last.op = op /\ account'.last.status = 401
        /\ account'.overlap = account.overlap
    BY <2>1 DEF ApiTyped
  <2>3. ApiTyped'
    <3> DEFINE asksMade == IF op = "get" THEN account.sent ELSE account.sent + 1
               last == [op |-> op, status |-> 401]
    <3>1. account' = [account EXCEPT !.sent = asksMade, !.last = last]
      BY <2>1
    <3>2. asksMade \in Nat /\ last \in [op : {"none", "get", "post", "delete"}, status : Nat]
      BY <1>1 DEF ApiTyped
    <3> HIDE DEF asksMade, last
    <3>3. account' \in [sent : Nat, made : Nat, gone : Nat, by : SUBSET {"admin"}, overlap : BOOLEAN,
                        last : [op : {"none", "get", "post", "delete"}, status : Nat]]
      BY <3>1, <3>2 DEF ApiTyped
    <3> QED BY <1>0, <2>1, <3>3 DEF ApiTyped, AdminTypeOK
  <2>4. CallsAllowed'
    BY <1>0, <1>1, <2>1, <2>2 DEF CallsAllowed
  <2>5. CreationsCounted'
    BY <1>0, <2>1, <2>2 DEF CreationsCounted, Creating, Forgetting
  <2>6. Alone'
    BY <1>0, <2>1, <2>2 DEF Alone, Waiting
  <2>7. AnswersTrue'
    <3>1. Waiting' = Waiting
      BY <2>1 DEF Waiting
    <3> QED BY <1>0, <2>2, <3>1 DEF AnswersTrue
  <2> QED BY <2>3, <2>4, <2>5, <2>6, <2>7
<1> QED BY <1>2, <1>3

LEMMA SessionGoneKeeps == ASSUME AdminInd, SessionGone PROVE AdminInd'
<1> USE DEF AdminInd
<1>1. topic = "broadcasts" /\ topic' = topic /\ wired' = wired /\ calls' = calls /\ account' = account /\ resource' = {}
      /\ ~ Creates /\ ~ Creates'
  BY DEF SessionGone, Creates
<1>2. ApiTyped'
  BY <1>1 DEF ApiTyped, AdminTypeOK
<1>3. CallsAllowed' /\ CreationsCounted'
  BY <1>1 DEF CallsAllowed, CreationsCounted
<1>4. Alone'
  BY <1>1 DEF Alone, Waiting
<1>5. AnswersTrue'
  BY <1>1 DEF AnswersTrue, Waiting, CallsAllowed
<1> QED BY <1>2, <1>3, <1>4, <1>5

LEMMA AdminBegins == AdminInit => AdminInd
<1> SUFFICES ASSUME AdminInit PROVE AdminInd
  OBVIOUS
<1> USE DEF AdminInit
<1>1. ApiTyped
  BY PartsAre DEF ApiTyped, AdminTypeOK, Idle
<1>2. CallsAllowed
  BY DEF CallsAllowed, Idle
<1>3. CreationsCounted
  <2>1. Creating = {} /\ Forgetting = {}
    BY DEF Creating, Forgetting, Idle
  <2>2. Creates => FirstPart = IF resource = {} THEN 0 ELSE 1
    BY PartsAre DEF FirstPart, Creates
  <2> QED BY <2>1, <2>2, FS_EmptySet DEF CreationsCounted
<1>4. Alone
  BY DEF Alone, Waiting, Idle
<1>5. AnswersTrue
  BY PartsAre DEF AnswersTrue, Waiting, Idle
<1> QED BY <1>1, <1>2, <1>3, <1>4, <1>5 DEF AdminInd

\* Every step of a handler is one of the above.
Handler(c) ==
  \/ AddVideo(c) \/ AddAudio(c) \/ FindRendition(c) \/ RemoveFactories(c)
  \/ AddAgent(c) \/ DescribeAgent(c) \/ FindAgent(c) \/ RemoveAgent(c) \/ ForgetAgent(c)
  \/ StopIngest(c) \/ StopBroadcast(c) \/ Listing(c)

LEMMA HandlerKeeps ==
  ASSUME AdminInd, NEW c \in Callers, topic' = topic, wired' = wired, Handler(c)
  PROVE  AdminInd'
<1>0. AdminInd /\ resource \subseteq Parts[topic]
  BY DEF AdminInd, ApiTyped, AdminTypeOK
<1>1. ASSUME NEW status \in {400, 503}, calls[c].at = "handle", Refuse(c, status) PROVE AdminInd'
  BY <1>1, RefuseKeeps
<1>2. ASSUME ~ account.overlap, calls[c].at = "handle", Creates PROVE resource \in {{}, Parts[topic]}
  BY <1>2, WholeOrNothing DEF AdminInd
<1>3. CASE AddVideo(c)
  <2>1. calls[c].at = "handle" /\ calls[c].op = "post" /\ topic = "ladder" /\ Creates
    BY <1>3 DEF AddVideo, Handles, Creates
  <2>2. CASE "video" \in resource /\ Refuse(c, 409)
    BY <1>2, <2>1, <2>2, RefuseKeeps
  <2>3. CASE "video" \notin resource /\ resource' = resource \cup {"video"} /\ GoOn(c, "second")
    <3>1. FirstPart = 0
      BY <1>0, <2>1, <2>3, PartsAre DEF FirstPart
    <3> QED BY <2>1, <2>3, <3>1, GoesOnKeeps
  <2> QED BY <1>1, <1>3, <2>1, <2>2, <2>3 DEF AddVideo, Unwired
<1>4. CASE AddAudio(c)
  BY <1>4, CreatedKeeps DEF AddAudio
<1>5. CASE FindRendition(c)
  <2>1. calls[c].at = "handle" /\ calls[c].op = "delete" /\ topic = "ladder" /\ Creates
    BY <1>5 DEF FindRendition, Handles, Creates
  <2>2. CASE resource = {} /\ Refuse(c, 404)
    BY <2>1, <2>2, RefuseKeeps
  <2>3. CASE resource # {} /\ UNCHANGED resource /\ GoOn(c, "second")
    BY <2>1, <2>3, GoesOnKeeps
  <2> QED BY <1>1, <1>5, <2>1, <2>2, <2>3 DEF FindRendition, Unwired
<1>6. CASE RemoveFactories(c)
  BY <1>6, RemovedKeeps DEF RemoveFactories
<1>7. CASE AddAgent(c)
  <2>1. calls[c].at = "handle" /\ calls[c].op = "post" /\ topic = "agents" /\ Creates
    BY <1>7 DEF AddAgent, Handles, Creates
  <2>2. CASE "runner" \in resource /\ Refuse(c, 409)
    BY <1>2, <2>1, <2>2, RefuseKeeps
  <2>3. CASE "runner" \notin resource /\ resource' = resource \cup {"runner"} /\ GoOn(c, "second")
    <3>1. FirstPart = 0
      BY <1>0, <2>1, <2>3, PartsAre DEF FirstPart
    <3> QED BY <2>1, <2>3, <3>1, GoesOnKeeps
  <2> QED BY <1>1, <1>7, <2>1, <2>2, <2>3 DEF AddAgent, Unwired
<1>8. CASE DescribeAgent(c)
  BY <1>8, CreatedKeeps DEF DescribeAgent
<1>9. CASE FindAgent(c)
  <2>1. calls[c].at = "handle" /\ calls[c].op = "delete" /\ topic = "agents" /\ Creates
    BY <1>9 DEF FindAgent, Handles, Creates
  <2>2. CASE "runner" \notin resource /\ Refuse(c, 404)
    <3>1. ASSUME ~ account.overlap PROVE resource = {}
      BY <1>2, <2>1, <2>2, <3>1, PartsAre
    <3> QED BY <2>1, <2>2, <3>1, RefuseKeeps
  <2>3. CASE "runner" \in resource /\ UNCHANGED resource /\ GoOn(c, "second")
    BY <2>1, <2>3, GoesOnKeeps
  <2> QED BY <1>1, <1>9, <2>1, <2>2, <2>3 DEF FindAgent, Unwired
<1>10. CASE RemoveAgent(c)
  BY <1>10, RemoveAgentKeeps
<1>11. CASE ForgetAgent(c)
  BY <1>11, RemovedKeeps DEF ForgetAgent
<1>12. CASE StopIngest(c)
  <2>1. calls[c].at = "handle" /\ calls[c].op = "delete" /\ topic = "ingest" /\ ~ Creates
    BY <1>12 DEF StopIngest, Handles, Creates
  <2>2. CASE resource = {} /\ Refuse(c, 404)
    BY <2>1, <2>2, RefuseKeeps
  <2>3. CASE resource' = {} /\ Respond(c, 200)
    BY <2>1, <2>3, StopKeeps
  <2> QED BY <1>1, <1>12, <2>1, <2>2, <2>3 DEF StopIngest, Unwired
<1>13. CASE StopBroadcast(c)
  <2>1. calls[c].at = "handle" /\ calls[c].op = "delete" /\ topic = "broadcasts" /\ ~ Creates
    BY <1>13 DEF StopBroadcast, Handles, Creates
  <2>2. CASE "row" \notin resource /\ Refuse(c, 404)
    <3>1. resource = {}
      BY <1>0, <2>1, <2>2, PartsAre DEF AdminInd, ApiTyped
    <3> QED BY <2>1, <2>2, <3>1, RefuseKeeps
  <2>3. CASE "row" \in resource /\ resource' = resource \ {"streams"} /\ Respond(c, 200)
    <3>1. resource' \subseteq resource \cap {"row"}
      BY <1>0, <2>1, <2>3, PartsAre
    <3> QED BY <2>1, <2>3, <3>1, StopKeeps
  <2> QED BY <1>1, <1>13, <2>1, <2>2, <2>3 DEF StopBroadcast, Unwired
<1>14. CASE Listing(c)
  BY <1>14, RefuseKeeps DEF Listing
<1> QED BY <1>3, <1>4, <1>5, <1>6, <1>7, <1>8, <1>9, <1>10, <1>11, <1>12, <1>13, <1>14 DEF Handler

LEMMA AdminStep == AdminInd /\ (AdminNext \/ UNCHANGED api) => AdminInd'
<1> SUFFICES ASSUME AdminInd, AdminNext \/ UNCHANGED api PROVE AdminInd'
  OBVIOUS
<1>1. ASSUME NEW c \in Callers, NEW op \in Ops[topic], NEW t \in {"admin", "subscriber", "none"}, Request(c, op, t)
      PROVE  AdminInd'
  BY <1>1, RequestKeeps
<1>2. ASSUME NEW c \in Callers, Handler(c), UNCHANGED <<topic, wired>> PROVE AdminInd'
  BY <1>2, HandlerKeeps
<1>3. CASE SessionGone
  BY <1>3, SessionGoneKeeps
<1>4. CASE UNCHANGED api
  BY <1>4 DEF api, AdminInd, ApiTyped, AdminTypeOK, CallsAllowed, Creates, CreationsCounted, Creating, Forgetting,
              FirstPart, Alone, Waiting, AnswersTrue
<1>5. CASE AdminNext
  BY <1>1, <1>2, <1>3, <1>5 DEF AdminNext, Handler
<1> QED BY <1>4, <1>5

LEMMA AdminIndIsEnough == AdminInd => AdminInv
<1> SUFFICES ASSUME AdminInd PROVE AdminInv
  OBVIOUS
<1>1. AdminTypeOK /\ AnswersTrue /\ AdminOnly
  BY DEF AdminInd, ApiTyped, AdminOnly
<1>2. OneCreated
  <2>1. Cardinality(Creating) \in Nat /\ Cardinality(Forgetting) \in Nat /\ account.made \in Nat /\ account.gone \in Nat
        /\ FirstPart \in 0..1
    BY CallersCounted, FS_CardinalityType DEF AdminInd, ApiTyped, FirstPart
  <2>2. CASE Creates
    BY <2>1, <2>2 DEF AdminInd, CreationsCounted, OneCreated, Forgetting
  <2>3. CASE ~ Creates
    BY <2>1, <2>3 DEF AdminInd, CallsAllowed, OneCreated, Forgetting
  <2> QED BY <2>2, <2>3
<1> QED BY <1>1, <1>2 DEF AdminInv

-----------------------------------------------------------------------------
(* AuthChain: the store of stream keys.                                    *)

Current(i) == by_id[i].token
Adding(a) == admin[a].at \in {"minted", "rotated", "removed"}
Removing(a) == admin[a].at \in {"revoked", "rotated"}
Rotating(a) == admin[a].at \in {"rotated", "removed"}

\* What is in the maps and in the requests has been handed out.
HandedOut ==
  /\ StoreTypeOK
  /\ \A i \in Ids : Known(i) <=> Current(i) # None
  /\ \A i \in Ids : Current(i) # None => i \in issued /\ Current(i) \in issued
  /\ \A t \in Tokens : by_token[t] # None => t \in issued /\ by_token[t] \in issued
  /\ \A a \in Admins :
       /\ admin[a].at = "idle" => admin[a] = NoRequest
       /\ admin[a].at # "idle" => admin[a].id \in Ids \cap issued
       /\ Adding(a) => admin[a].new \in Tokens \cap issued
       /\ Removing(a) => admin[a].old \in Tokens \cap issued

\* A token is that of one key, from one request, and one that a request is to
\* remove is no key's any more.
TokensApart ==
  /\ \A i, j \in Ids : Current(i) # None /\ Current(i) = Current(j) => i = j
  /\ \A a, c \in Admins : Adding(a) /\ Adding(c) /\ admin[a].new = admin[c].new => a = c
  /\ \A a \in Admins, i \in Ids :
       /\ Removing(a) => Current(i) # admin[a].old
       /\ Rotating(a) /\ Current(i) = admin[a].new => i = admin[a].id

\* The id of a key that is being minted is nobody else's, and its one token
\* stands in the index.
MintsAlone ==
  \A a \in Admins : admin[a].at = "minted" =>
    /\ Current(admin[a].id) = None /\ admin[a].id \notin revoked
    /\ \A t \in Tokens : by_token[t] = admin[a].id <=> t = admin[a].new
    /\ \A i \in Ids : Current(i) # admin[a].new
    /\ \A c \in Admins \ {a} :
         admin[c].id # admin[a].id /\ (Removing(c) => admin[c].old # admin[a].new)

\* The index has the token of each key, or a rotation is about to write it.
CurrentStands ==
  \A i \in Ids : Current(i) # None =>
    \/ by_token[Current(i)] = i
    \/ \E a \in Admins : Rotating(a) /\ admin[a].id = i /\ admin[a].new = Current(i)

\* Where no two requests met on a key: any other token of it in the index is
\* about to be removed, and a rotation brings the token of the key.
OldOnesLeave ==
  /\ \A t \in Tokens, i \in Ids \ crowded : by_token[t] = i /\ Current(i) # None =>
       \/ Current(i) = t
       \/ \E a \in Admins : admin[a].at = "rotated" /\ admin[a].id = i /\ admin[a].old = t
  /\ \A a \in Admins : Rotating(a) /\ admin[a].id \notin crowded /\ Current(admin[a].id) # None =>
       admin[a].new = Current(admin[a].id)

RevokedForGood == \A i \in revoked : i \in issued /\ Current(i) = None

StoreInd == HandedOut /\ TokensApart /\ MintsAlone /\ CurrentStands /\ OldOnesLeave /\ RevokedForGood

-----------------------------------------------------------------------------
(* AuthChain: checks, provider instances and reloads.                      *)

CheckStates ==
  [at : {"idle", "token", "key", "fallback", "queue", "kick", "done"}, req : Requests \cup {None},
   slot : Slots \cup {None}, id : Ids \cup {None}, allow : BOOLEAN, before : SUBSET Ids]

ChecksTyped ==
  /\ check \in [Checkers -> CheckStates]
  /\ \A k \in Checkers :
       /\ check[k].at = "idle" => check[k] = NoCheck
       /\ check[k].at # "idle" => check[k].req \in Requests /\ check[k].slot \in Slots
       /\ check[k].at = "key" => check[k].id \in Ids
       /\ check[k].at \notin {"key", "done"} => check[k].id = None

\* A check remembers the revocations before it, and a key admits it only if it
\* was there then.
RevocationsSeen ==
  \A k \in Checkers :
    /\ check[k].before \subseteq revoked
    /\ check[k].allow => check[k].at = "done" /\ check[k].id \notin check[k].before

Caches == [Requests -> [allow : BOOLEAN, left : -1..(AllowTtl + DenyTtl)]]
HookStates ==
  [at : {"free", "idle", "awake", "post"}, cache : Caches,
   pending : SUBSET Requests, permit : BOOLEAN, batch : SUBSET Requests]

\* A cache has its capacity, and no entry outlives its kind.
Fits(c) ==
  /\ Cardinality(Stored(c)) <= Capacity
  /\ \A r \in Stored(c) : c[r].left <= (IF c[r].allow THEN AllowTtl ELSE DenyTtl)

HooksTyped == hook \in [Slots -> HookStates] /\ \A p \in Slots : Fits(hook[p].cache)

ReloadStates ==
  [at : {"idle", "build", "auth", "ice", "hmac", "status"}, file : Files \cup {None}, slot : Slots \cup {None}]

ReloadsTyped ==
  /\ reload \in [Reloaders -> ReloadStates]
  /\ \A r \in Reloaders :
       /\ reload[r].at = "idle" => reload[r] = NoReload
       /\ reload[r].at # "idle" => reload[r].file \in Files
       /\ reload[r].at = "auth" <=> reload[r].slot # None
  /\ cells \in [Cells -> Files] /\ file \in Files /\ settled \in Files \cup {None}
  /\ alone \in Reloaders \cup {None} /\ hot \in Slots

\* An instance exists as long as somebody has a reference to it, and what a
\* reload has built is its own until it is in the cell.
InstancesHeld ==
  /\ Alive(hot)
  /\ \A k \in Checkers : check[k].slot # None => Alive(check[k].slot)
  /\ \A r \in Reloaders : reload[r].slot # None =>
       /\ Alive(reload[r].slot) /\ reload[r].slot # hot
       /\ \A k \in Checkers : check[k].slot # reload[r].slot
       /\ \A q \in Reloaders \ {r} : reload[q].slot # reload[r].slot
  /\ \A p \in Slots : Alive(p) =>
       \/ p = hot
       \/ \E k \in Checkers : check[k].slot = p
       \/ \E r \in Reloaders : reload[r].slot = p

\* The reload that runs alone is the only one, and has set the cells it has
\* passed; while none has set any, all are as the last one left them.
ReloadsApart ==
  /\ alone # None => \A r \in Reloaders : reload[r].at # "idle" => r = alone
  /\ alone # None =>
       /\ reload[alone].at \in {"ice", "hmac", "status"} => cells["auth"] = reload[alone].file
       /\ reload[alone].at \in {"hmac", "status"} => cells["ice"] = reload[alone].file
       /\ reload[alone].at = "status" => cells["hmac"] = reload[alone].file
  /\ settled # None /\ (\A r \in Reloaders : reload[r].at \in {"idle", "build", "auth"}) =>
       \A c \in Cells : cells[c] = settled

HooksInd == ChecksTyped /\ HooksTyped /\ ReloadsTyped /\ InstancesHeld /\ ReloadsApart /\ KickNotLost

ChainInd == StoreInd /\ RevocationsSeen /\ HooksInd

LEMMA MintTokenKeeps ==
  ASSUME StoreInd, NEW a \in Admins, NEW i \in Ids, NEW t \in Tokens, NEW s \in Scopes, MintToken(a, i, t, s)
  PROVE  StoreInd'
<1> USE StoreAssumption
<1>1. StoreTypeOK'
  BY DEF StoreInd, HandedOut, StoreTypeOK, MintToken, NoRequest, NoKey, Scopes, Known
<1>2. /\ admin'[a].at = "minted" /\ admin'[a].id = i /\ admin'[a].new = t /\ admin'[a].old = None
      /\ admin[a].at = "idle" /\ i \notin issued /\ t \notin issued /\ issued' = issued \cup {i, t}
      /\ by_token'[t] = i /\ \A u \in Tokens \ {t} : by_token'[u] = by_token[u]
      /\ by_id' = by_id /\ revoked' = revoked /\ crowded' = crowded
      /\ \A c \in Admins \ {a} : admin'[c] = admin[c]
  BY DEF StoreInd, HandedOut, StoreTypeOK, MintToken, Known, Current, NoKey, NoRequest, Adding, Removing, Rotating
<1>3. StoreTypeOK /\ HandedOut /\ TokensApart /\ MintsAlone /\ CurrentStands /\ OldOnesLeave /\ RevokedForGood
  BY DEF StoreInd, HandedOut
<1> USE DEF Current, Adding, Removing, Rotating, NoRequest, NoKey, Known
<1>4. HandedOut'
  BY <1>1, <1>2, <1>3 DEF HandedOut, StoreTypeOK
<1>5. TokensApart'
  BY <1>2, <1>3 DEF TokensApart, HandedOut
<1>6. MintsAlone'
  <2>1. \A c \in Admins \ {a} : admin'[c] = admin[c] /\ (admin[c].at # "idle" => admin[c].id # i)
    BY <1>2, <1>3 DEF HandedOut
  <2>2. \A c \in Admins : (Adding(c) => admin[c].new # t) /\ (Removing(c) => admin[c].old # t)
    BY <1>2, <1>3 DEF HandedOut
  <2>3. \A j \in Ids : Current(j)' = Current(j) /\ Current(j) # t
    BY <1>2, <1>3 DEF HandedOut
  <2>4. Current(i) = None /\ i \notin revoked /\ revoked' = revoked
    BY <1>2, <1>3 DEF HandedOut, RevokedForGood
  <2>5. \A u \in Tokens : by_token[u] # i
    BY <1>2, <1>3 DEF HandedOut
  <2>6. \A u \in Tokens : by_token'[u] = IF u = t THEN i ELSE by_token[u]
    BY <1>2
  <2>7. admin'[a].at = "minted" /\ admin'[a].id = i /\ admin'[a].new = t /\ admin[a].at = "idle"
    BY <1>2
  <2>8. \A c \in Admins \ {a} : admin[c].id = i => admin[c].at = "idle" /\ admin[c].id = None
    BY <1>3, <2>1 DEF HandedOut
  <2> DEFINE Sound(c) ==
               /\ by_id'[admin'[c].id].token = None /\ admin'[c].id \notin revoked'
               /\ \A u \in Tokens : by_token'[u] = admin'[c].id <=> u = admin'[c].new
               /\ \A j \in Ids : Current(j)' # admin'[c].new
               /\ \A d \in Admins \ {c} :
                    admin'[d].id # admin'[c].id /\ (Removing(d)' => admin'[d].old # admin'[c].new)
  <2>9. Sound(a)
    BY <2>1, <2>2, <2>3, <2>4, <2>5, <2>6, <2>7, <2>8
  <2>10. ASSUME NEW c \in Admins \ {a}, admin[c].at = "minted" PROVE Sound(c)
    <3>1. admin'[c] = admin[c] /\ admin[c].id \in Ids /\ admin[c].id # i /\ admin[c].new # t
      BY <1>3, <2>1, <2>2, <2>10 DEF HandedOut
    <3>2. /\ Current(admin[c].id) = None /\ admin[c].id \notin revoked
          /\ \A u \in Tokens : by_token[u] = admin[c].id <=> u = admin[c].new
          /\ \A j \in Ids : Current(j) # admin[c].new
          /\ \A d \in Admins \ {c} :
                    admin[d].id # admin[c].id /\ (Removing(d) => admin[d].old # admin[c].new)
      BY <1>3, <2>10 DEF MintsAlone
    <3>3. by_id'[admin'[c].id].token = None /\ admin'[c].id \notin revoked'
      BY <2>3, <2>4, <3>1, <3>2
    <3>4. \A u \in Tokens : by_token'[u] = admin[c].id <=> u = admin[c].new
      BY <2>6, <3>1, <3>2
    <3>5. \A d \in Admins \ {c} : admin'[d].id # admin[c].id /\ (Removing(d)' => admin'[d].old # admin[c].new)
      BY <2>1, <2>7, <3>1, <3>2
    <3> QED BY <2>3, <3>1, <3>2, <3>3, <3>4, <3>5
  <2> HIDE DEF Sound
  <2>11. \A c \in Admins : admin'[c].at = "minted" => Sound(c)
    BY <2>1, <2>9, <2>10
  <2> QED BY <2>11 DEF MintsAlone, Sound
<1>7. CurrentStands'
  <2> SUFFICES ASSUME NEW j \in Ids, Current(j)' # None
               PROVE  \/ by_token'[Current(j)'] = j
                      \/ \E c \in Admins : Rotating(c)' /\ admin'[c].id = j /\ admin'[c].new = Current(j)'
    BY DEF CurrentStands
  <2>1. Current(j)' = Current(j) /\ Current(j) \in Tokens /\ Current(j) # None
    BY <1>2, <1>3 DEF HandedOut, StoreTypeOK
  <2>2. Current(j) # t
    BY <1>2, <1>3, <2>1 DEF HandedOut
  <2>3. CASE by_token[Current(j)] = j
    BY <1>2, <2>1, <2>2, <2>3
  <2>4. CASE \E c \in Admins : Rotating(c) /\ admin[c].id = j /\ admin[c].new = Current(j)
    <3>1. PICK c \in Admins : Rotating(c) /\ admin[c].id = j /\ admin[c].new = Current(j)
      BY <2>4
    <3>2. CASE c # a
      BY <1>2, <2>1, <3>1, <3>2
    <3>3. CASE c = a
      BY <1>2, <2>1, <3>1, <3>3
    <3> QED BY <3>2, <3>3
  <2> QED BY <1>3, <2>1, <2>3, <2>4 DEF CurrentStands
<1>8. OldOnesLeave'
  BY <1>2, <1>3 DEF OldOnesLeave, MintsAlone, HandedOut
<1>9. RevokedForGood'
  BY <1>2, <1>3 DEF RevokedForGood, MintsAlone, HandedOut, StoreTypeOK
<1> QED BY <1>4, <1>5, <1>6, <1>7, <1>8, <1>9 DEF StoreInd

LEMMA MintKeyKeeps ==
  ASSUME StoreInd, NEW a \in Admins, MintKey(a)
  PROVE  StoreInd'
<1> USE StoreAssumption
<1>1. StoreTypeOK'
  BY DEF StoreInd, HandedOut, StoreTypeOK, MintKey, NoRequest, NoKey, Scopes, Known
<1>2. /\ admin[a].at = "minted" /\ admin'[a] = NoRequest /\ issued' = issued
      /\ by_id'[admin[a].id] = [token |-> admin[a].new, scope |-> admin[a].scope, expired |-> FALSE]
      /\ \A j \in Ids \ {admin[a].id} : by_id'[j] = by_id[j]
      /\ by_token' = by_token /\ revoked' = revoked /\ crowded' = crowded
      /\ \A c \in Admins \ {a} : admin'[c] = admin[c]
  BY DEF StoreInd, HandedOut, StoreTypeOK, MintKey, Known, Current, NoKey, NoRequest, Adding, Removing, Rotating
<1>3. StoreTypeOK /\ HandedOut /\ TokensApart /\ MintsAlone /\ CurrentStands /\ OldOnesLeave /\ RevokedForGood
  BY DEF StoreInd, HandedOut
<1> USE DEF Current, Adding, Removing, Rotating, NoRequest, NoKey, Known
<1>4. HandedOut'
  <2>1. \A j \in Ids : Known(j)' <=> Current(j)' # None
    <3> SUFFICES ASSUME NEW j \in Ids PROVE by_id'[j] # NoKey <=> by_id'[j].token # None
      OBVIOUS
    <3>1. CASE j # admin[a].id
      <4>1. by_id'[j] = by_id[j] /\ (by_id[j] # NoKey <=> by_id[j].token # None)
        BY <1>2, <1>3, <3>1 DEF HandedOut
      <4> QED BY <4>1
    <3>2. CASE j = admin[a].id
      <4>1. NoKey.token = None
        OBVIOUS
      <4>2. by_id'[j].token # None
        BY <1>2, <1>3, <3>2 DEF HandedOut
      <4> QED BY <4>1, <4>2
    <3> QED BY <3>1, <3>2
  <2>2. \A j \in Ids : Current(j)' # None => j \in issued' /\ Current(j)' \in issued'
    BY <1>2, <1>3 DEF HandedOut, StoreTypeOK
  <2>3. \A u \in Tokens : by_token'[u] # None => u \in issued' /\ by_token'[u] \in issued'
    BY <1>2, <1>3 DEF HandedOut, StoreTypeOK
  <2>4. \A c \in Admins :
          /\ admin'[c].at = "idle" => admin'[c] = NoRequest
          /\ admin'[c].at # "idle" => admin'[c].id \in Ids \cap issued'
          /\ Adding(c)' => admin'[c].new \in Tokens \cap issued'
          /\ Removing(c)' => admin'[c].old \in Tokens \cap issued'
    BY <1>2, <1>3 DEF HandedOut, StoreTypeOK
  <2> QED BY <1>1, <2>1, <2>2, <2>3, <2>4 DEF HandedOut
<1>5. TokensApart'
  <2>1. \A j \in Ids : Current(j)' = IF j = admin[a].id THEN admin[a].new ELSE Current(j)
    BY <1>2
  <2>2. \A j \in Ids : Current(j) # admin[a].new
    BY <1>2, <1>3 DEF MintsAlone
  <2>3. \A i, j \in Ids : Current(i)' # None /\ Current(i)' = Current(j)' => i = j
    BY <1>3, <2>1, <2>2 DEF TokensApart
  <2>4. \A c \in Admins : c # a => admin'[c] = admin[c]
    BY <1>2
  <2>5. \A c, d \in Admins : Adding(c)' /\ Adding(d)' /\ admin'[c].new = admin'[d].new => c = d
    BY <1>2, <1>3, <2>4 DEF TokensApart
  <2>6. \A c \in Admins, i \in Ids : Removing(c)' => Current(i)' # admin'[c].old
    BY <1>2, <1>3, <2>1, <2>4 DEF TokensApart, MintsAlone
  <2>7. \A c \in Admins, i \in Ids : Rotating(c)' /\ Current(i)' = admin'[c].new => i = admin'[c].id
    BY <1>2, <1>3, <2>1, <2>4 DEF TokensApart
  <2> QED BY <2>3, <2>5, <2>6, <2>7 DEF TokensApart
<1>6. MintsAlone'
  BY <1>2, <1>3 DEF MintsAlone, TokensApart, HandedOut
<1>7. CurrentStands'
  BY <1>2, <1>3 DEF CurrentStands, TokensApart, MintsAlone, HandedOut
<1>8. OldOnesLeave'
  BY <1>2, <1>3 DEF OldOnesLeave, MintsAlone, HandedOut
<1>9. RevokedForGood'
  BY <1>2, <1>3 DEF RevokedForGood, MintsAlone, HandedOut, StoreTypeOK
<1> QED BY <1>4, <1>5, <1>6, <1>7, <1>8, <1>9 DEF StoreInd

LEMMA RevokeKeyKeeps ==
  ASSUME StoreInd, NEW a \in Admins, NEW i \in Ids, RevokeKey(a, i)
  PROVE  StoreInd'
<1> USE StoreAssumption
<1>1. StoreTypeOK'
  BY DEF StoreInd, HandedOut, StoreTypeOK, RevokeKey, NoRequest, NoKey, Scopes, Known
<1>2. /\ admin[a].at = "idle" /\ admin'[a].at = "revoked" /\ admin'[a].id = i /\ admin'[a].old = by_id[i].token
      /\ Current(i) # None /\ by_id'[i] = NoKey /\ \A j \in Ids \ {i} : by_id'[j] = by_id[j]
      /\ by_token' = by_token /\ issued' = issued /\ revoked' = revoked \cup {i} /\ crowded' = crowded
      /\ \A c \in Admins \ {a} : admin'[c] = admin[c]
  BY DEF StoreInd, HandedOut, StoreTypeOK, RevokeKey, Known, Current, NoKey, NoRequest, Adding, Removing, Rotating
<1>3. StoreTypeOK /\ HandedOut /\ TokensApart /\ MintsAlone /\ CurrentStands /\ OldOnesLeave /\ RevokedForGood
  BY DEF StoreInd, HandedOut
<1> USE DEF Current, Adding, Removing, Rotating, NoRequest, NoKey, Known
<1>4. HandedOut'
  <2>1. \A j \in Ids : Known(j)' <=> Current(j)' # None
    <3> SUFFICES ASSUME NEW j \in Ids PROVE by_id'[j] # NoKey <=> by_id'[j].token # None
      OBVIOUS
    <3>1. CASE j # i
      <4>1. by_id'[j] = by_id[j] /\ (by_id[j] # NoKey <=> by_id[j].token # None)
        BY <1>2, <1>3, <3>1 DEF HandedOut
      <4> QED BY <4>1
    <3>2. CASE j = i
      <4>1. NoKey.token = None
        OBVIOUS
      <4>2. by_id'[j] = NoKey
        BY <1>2, <1>3, <3>2 DEF HandedOut
      <4> QED BY <4>1, <4>2
    <3> QED BY <3>1, <3>2
  <2>2. \A j \in Ids : Current(j)' # None => j \in issued' /\ Current(j)' \in issued'
    BY <1>2, <1>3 DEF HandedOut, StoreTypeOK
  <2>3. \A u \in Tokens : by_token'[u] # None => u \in issued' /\ by_token'[u] \in issued'
    BY <1>2, <1>3 DEF HandedOut, StoreTypeOK
  <2>4. \A c \in Admins :
          /\ admin'[c].at = "idle" => admin'[c] = NoRequest
          /\ admin'[c].at # "idle" => admin'[c].id \in Ids \cap issued'
          /\ Adding(c)' => admin'[c].new \in Tokens \cap issued'
          /\ Removing(c)' => admin'[c].old \in Tokens \cap issued'
    BY <1>2, <1>3 DEF HandedOut, StoreTypeOK
  <2> QED BY <1>1, <2>1, <2>2, <2>3, <2>4 DEF HandedOut
<1>5. TokensApart'
  BY <1>2, <1>3 DEF TokensApart, HandedOut
<1>6. MintsAlone'
  BY <1>2, <1>3 DEF MintsAlone, TokensApart, HandedOut
<1>7. CurrentStands'
  BY <1>2, <1>3 DEF CurrentStands, TokensApart, MintsAlone, HandedOut
<1>8. OldOnesLeave'
  BY <1>2, <1>3 DEF OldOnesLeave, MintsAlone, HandedOut
<1>9. RevokedForGood'
  BY <1>2, <1>3 DEF RevokedForGood, MintsAlone, HandedOut, StoreTypeOK
<1> QED BY <1>4, <1>5, <1>6, <1>7, <1>8, <1>9 DEF StoreInd

LEMMA RevokeTokenKeeps ==
  ASSUME StoreInd, NEW a \in Admins, RevokeToken(a)
  PROVE  StoreInd'
<1> USE StoreAssumption
<1>1. StoreTypeOK'
  BY DEF StoreInd, HandedOut, StoreTypeOK, RevokeToken, NoRequest, NoKey, Scopes, Known
<1>2. /\ admin[a].at = "revoked" /\ admin'[a] = NoRequest /\ admin[a].old \in Tokens
      /\ by_token'[admin[a].old] = None /\ \A u \in Tokens \ {admin[a].old} : by_token'[u] = by_token[u]
      /\ by_id' = by_id /\ issued' = issued /\ revoked' = revoked /\ crowded' = crowded
      /\ \A c \in Admins \ {a} : admin'[c] = admin[c]
  BY DEF StoreInd, HandedOut, StoreTypeOK, RevokeToken, Known, Current, NoKey, NoRequest, Adding, Removing, Rotating
<1>3. StoreTypeOK /\ HandedOut /\ TokensApart /\ MintsAlone /\ CurrentStands /\ OldOnesLeave /\ RevokedForGood
  BY DEF StoreInd, HandedOut
<1> USE DEF Current, Adding, Removing, Rotating, NoRequest, NoKey, Known
<1>4. HandedOut'
  BY <1>1, <1>2, <1>3 DEF HandedOut, StoreTypeOK
<1>5. TokensApart'
  BY <1>2, <1>3 DEF TokensApart, HandedOut
<1>6. MintsAlone'
  BY <1>2, <1>3 DEF MintsAlone, TokensApart, HandedOut
<1>7. CurrentStands'
  <2> SUFFICES ASSUME NEW j \in Ids, Current(j)' # None
               PROVE  \/ by_token'[Current(j)'] = j
                      \/ \E c \in Admins : Rotating(c)' /\ admin'[c].id = j /\ admin'[c].new = Current(j)'
    BY DEF CurrentStands
  <2>1. Current(j)' = Current(j) /\ Current(j) \in Tokens /\ Current(j) # None
    BY <1>2, <1>3 DEF HandedOut, StoreTypeOK
  <2>2. Current(j) # admin[a].old
    BY <1>2, <1>3, <2>1 DEF TokensApart
  <2>3. CASE by_token[Current(j)] = j
    BY <1>2, <2>1, <2>2, <2>3
  <2>4. CASE \E c \in Admins : Rotating(c) /\ admin[c].id = j /\ admin[c].new = Current(j)
    <3>1. PICK c \in Admins : Rotating(c) /\ admin[c].id = j /\ admin[c].new = Current(j)
      BY <2>4
    <3>2. CASE c # a
      BY <1>2, <2>1, <3>1, <3>2
    <3>3. CASE c = a
      BY <1>2, <2>1, <3>1, <3>3
    <3> QED BY <3>2, <3>3
  <2> QED BY <1>3, <2>1, <2>3, <2>4 DEF CurrentStands
<1>8. OldOnesLeave'
  BY <1>2, <1>3 DEF OldOnesLeave, MintsAlone, HandedOut
<1>9. RevokedForGood'
  BY <1>2, <1>3 DEF RevokedForGood, MintsAlone, HandedOut, StoreTypeOK
<1> QED BY <1>4, <1>5, <1>6, <1>7, <1>8, <1>9 DEF StoreInd

LEMMA RotateKeyKeeps ==
  ASSUME StoreInd, NEW a \in Admins, NEW i \in Ids, NEW t \in Tokens, NEW body \in BOOLEAN, NEW s \in Scopes, RotateKey(a, i, t, body, s)
  PROVE  StoreInd'
<1> USE StoreAssumption
<1>1. StoreTypeOK'
  BY DEF StoreInd, HandedOut, StoreTypeOK, RotateKey, NoRequest, NoKey, Scopes, Known
<1>2. /\ admin[a].at = "idle" /\ admin'[a].at = "rotated" /\ admin'[a].id = i
      /\ admin'[a].old = by_id[i].token /\ admin'[a].new = t /\ t \notin issued /\ issued' = issued \cup {t}
      /\ Current(i) # None /\ by_id'[i].token = t /\ \A j \in Ids \ {i} : by_id'[j] = by_id[j]
      /\ crowded' = (IF Busy(i) THEN crowded \cup {i} ELSE crowded)
      /\ by_token' = by_token /\ revoked' = revoked
      /\ \A c \in Admins \ {a} : admin'[c] = admin[c]
  BY DEF StoreInd, HandedOut, StoreTypeOK, RotateKey, Known, Current, NoKey, NoRequest, Adding, Removing, Rotating
<1>3. StoreTypeOK /\ HandedOut /\ TokensApart /\ MintsAlone /\ CurrentStands /\ OldOnesLeave /\ RevokedForGood
  BY DEF StoreInd, HandedOut
<1> USE DEF Current, Adding, Removing, Rotating, NoRequest, NoKey, Known
<1>4. HandedOut'
  <2>1. \A j \in Ids : Known(j)' <=> Current(j)' # None
    <3> SUFFICES ASSUME NEW j \in Ids PROVE by_id'[j] # NoKey <=> by_id'[j].token # None
      OBVIOUS
    <3>1. CASE j # i
      <4>1. by_id'[j] = by_id[j] /\ (by_id[j] # NoKey <=> by_id[j].token # None)
        BY <1>2, <1>3, <3>1 DEF HandedOut
      <4> QED BY <4>1
    <3>2. CASE j = i
      <4>1. NoKey.token = None
        OBVIOUS
      <4>2. by_id'[j].token # None
        BY <1>2, <1>3, <3>2 DEF HandedOut
      <4> QED BY <4>1, <4>2
    <3> QED BY <3>1, <3>2
  <2>2. \A j \in Ids : Current(j)' # None => j \in issued' /\ Current(j)' \in issued'
    BY <1>2, <1>3 DEF HandedOut, StoreTypeOK
  <2>3. \A u \in Tokens : by_token'[u] # None => u \in issued' /\ by_token'[u] \in issued'
    BY <1>2, <1>3 DEF HandedOut, StoreTypeOK
  <2>4. \A c \in Admins :
          /\ admin'[c].at = "idle" => admin'[c] = NoRequest
          /\ admin'[c].at # "idle" => admin'[c].id \in Ids \cap issued'
          /\ Adding(c)' => admin'[c].new \in Tokens \cap issued'
          /\ Removing(c)' => admin'[c].old \in Tokens \cap issued'
    BY <1>2, <1>3 DEF HandedOut, StoreTypeOK
  <2> QED BY <1>1, <2>1, <2>2, <2>3, <2>4 DEF HandedOut
<1>5. TokensApart'
  BY <1>2, <1>3 DEF TokensApart, HandedOut
<1>6. MintsAlone'
  BY <1>2, <1>3 DEF MintsAlone, TokensApart, HandedOut
<1>7. CurrentStands'
  BY <1>2, <1>3 DEF CurrentStands, TokensApart, MintsAlone, HandedOut
<1>8. OldOnesLeave'
  BY <1>2, <1>3 DEF OldOnesLeave, MintsAlone, HandedOut, Busy
<1>9. RevokedForGood'
  BY <1>2, <1>3 DEF RevokedForGood, MintsAlone, HandedOut, StoreTypeOK
<1> QED BY <1>4, <1>5, <1>6, <1>7, <1>8, <1>9 DEF StoreInd

LEMMA RotateRemoveKeeps ==
  ASSUME StoreInd, NEW a \in Admins, RotateRemove(a)
  PROVE  StoreInd'
<1> USE StoreAssumption
<1>1. StoreTypeOK'
  <2>1. StoreTypeOK
    BY DEF StoreInd, HandedOut
  <2>2. /\ by_token' \in [Tokens -> Ids \cup {None}]
        /\ admin' \in [Admins -> [at : {"idle", "minted", "revoked", "rotated", "removed"},
                                   id : Ids \cup {None}, old : Tokens \cup {None},
                                   new : Tokens \cup {None}, scope : Scopes]]
    <3>1. admin' = [admin EXCEPT ![a] = [admin[a] EXCEPT !.at = "removed", !.old = None]]
          /\ by_token' = [by_token EXCEPT ![admin[a].old] = None]
      BY <2>1 DEF RotateRemove, StoreTypeOK
    <3>2. [admin[a] EXCEPT !.at = "removed", !.old = None]
            \in [at : {"idle", "minted", "revoked", "rotated", "removed"}, id : Ids \cup {None},
                old : Tokens \cup {None}, new : Tokens \cup {None}, scope : Scopes]
      BY <2>1 DEF StoreTypeOK
    <3> QED BY <2>1, <3>1, <3>2 DEF StoreTypeOK
  <2> QED BY <2>1, <2>2 DEF StoreTypeOK, RotateRemove
<1>2. /\ admin[a].at = "rotated" /\ admin'[a].at = "removed" /\ admin[a].old \in Tokens
      /\ admin'[a].id = admin[a].id /\ admin'[a].new = admin[a].new
      /\ by_token'[admin[a].old] = None /\ \A u \in Tokens \ {admin[a].old} : by_token'[u] = by_token[u]
      /\ by_id' = by_id /\ issued' = issued /\ revoked' = revoked /\ crowded' = crowded
      /\ \A c \in Admins \ {a} : admin'[c] = admin[c]
  BY DEF StoreInd, HandedOut, StoreTypeOK, RotateRemove, Known, Current, NoKey, NoRequest, Adding, Removing, Rotating
<1>3. StoreTypeOK /\ HandedOut /\ TokensApart /\ MintsAlone /\ CurrentStands /\ OldOnesLeave /\ RevokedForGood
  BY DEF StoreInd, HandedOut
<1> USE DEF Current, Adding, Removing, Rotating, NoRequest, NoKey, Known
<1>4. HandedOut'
  BY <1>1, <1>2, <1>3 DEF HandedOut, StoreTypeOK
<1>5. TokensApart'
  BY <1>2, <1>3 DEF TokensApart, HandedOut
<1>6. MintsAlone'
  BY <1>2, <1>3 DEF MintsAlone, TokensApart, HandedOut
<1>7. CurrentStands'
  <2> SUFFICES ASSUME NEW j \in Ids, Current(j)' # None
               PROVE  \/ by_token'[Current(j)'] = j
                      \/ \E c \in Admins : Rotating(c)' /\ admin'[c].id = j /\ admin'[c].new = Current(j)'
    BY DEF CurrentStands
  <2>1. Current(j)' = Current(j) /\ Current(j) \in Tokens /\ Current(j) # None
    BY <1>2, <1>3 DEF HandedOut, StoreTypeOK
  <2>2. Current(j) # admin[a].old
    BY <1>2, <1>3, <2>1 DEF TokensApart
  <2>3. CASE by_token[Current(j)] = j
    BY <1>2, <2>1, <2>2, <2>3
  <2>4. CASE \E c \in Admins : Rotating(c) /\ admin[c].id = j /\ admin[c].new = Current(j)
    <3>1. PICK c \in Admins : Rotating(c) /\ admin[c].id = j /\ admin[c].new = Current(j)
      BY <2>4
    <3>2. CASE c # a
      BY <1>2, <2>1, <3>1, <3>2
    <3>3. CASE c = a
      BY <1>2, <2>1, <3>1, <3>3
    <3> QED BY <3>2, <3>3
  <2> QED BY <1>3, <2>1, <2>3, <2>4 DEF CurrentStands
<1>8. OldOnesLeave'
  BY <1>2, <1>3 DEF OldOnesLeave, MintsAlone, HandedOut
<1>9. RevokedForGood'
  BY <1>2, <1>3 DEF RevokedForGood, MintsAlone, HandedOut, StoreTypeOK
<1> QED BY <1>4, <1>5, <1>6, <1>7, <1>8, <1>9 DEF StoreInd

LEMMA RotateInsertKeeps ==
  ASSUME StoreInd, NEW a \in Admins, RotateInsert(a)
  PROVE  StoreInd'
<1> USE StoreAssumption
<1>1. StoreTypeOK'
  BY DEF StoreInd, HandedOut, StoreTypeOK, RotateInsert, NoRequest, NoKey, Scopes, Known
<1>2. /\ admin[a].at = "removed" /\ admin'[a] = NoRequest /\ admin[a].new \in Tokens /\ admin[a].id \in Ids
      /\ by_token'[admin[a].new] = admin[a].id /\ \A u \in Tokens \ {admin[a].new} : by_token'[u] = by_token[u]
      /\ by_id' = by_id /\ issued' = issued /\ revoked' = revoked /\ crowded' = crowded
      /\ \A c \in Admins \ {a} : admin'[c] = admin[c]
  BY DEF StoreInd, HandedOut, StoreTypeOK, RotateInsert, Known, Current, NoKey, NoRequest, Adding, Removing, Rotating
<1>3. StoreTypeOK /\ HandedOut /\ TokensApart /\ MintsAlone /\ CurrentStands /\ OldOnesLeave /\ RevokedForGood
  BY DEF StoreInd, HandedOut
<1> USE DEF Current, Adding, Removing, Rotating, NoRequest, NoKey, Known
<1>4. HandedOut'
  BY <1>1, <1>2, <1>3 DEF HandedOut, StoreTypeOK
<1>5. TokensApart'
  BY <1>2, <1>3 DEF TokensApart, HandedOut
<1>6. MintsAlone'
  BY <1>2, <1>3 DEF MintsAlone, TokensApart, HandedOut
<1>7. CurrentStands'
  <2> SUFFICES ASSUME NEW j \in Ids, Current(j)' # None
               PROVE  \/ by_token'[Current(j)'] = j
                      \/ \E c \in Admins : Rotating(c)' /\ admin'[c].id = j /\ admin'[c].new = Current(j)'
    BY DEF CurrentStands
  <2>1. Current(j)' = Current(j) /\ Current(j) \in Tokens /\ Current(j) # None
    BY <1>2, <1>3 DEF HandedOut, StoreTypeOK
  <2>2. Current(j) = admin[a].new => admin[a].id = j
    BY <1>2, <1>3, <2>1 DEF TokensApart
  <2>3. CASE by_token[Current(j)] = j
    BY <1>2, <2>1, <2>2, <2>3
  <2>4. CASE \E c \in Admins : Rotating(c) /\ admin[c].id = j /\ admin[c].new = Current(j)
    <3>1. PICK c \in Admins : Rotating(c) /\ admin[c].id = j /\ admin[c].new = Current(j)
      BY <2>4
    <3>2. CASE c # a
      BY <1>2, <2>1, <3>1, <3>2
    <3>3. CASE c = a
      BY <1>2, <2>1, <3>1, <3>3
    <3> QED BY <3>2, <3>3
  <2> QED BY <1>3, <2>1, <2>3, <2>4 DEF CurrentStands
<1>8. OldOnesLeave'
  BY <1>2, <1>3 DEF OldOnesLeave, MintsAlone, HandedOut
<1>9. RevokedForGood'
  BY <1>2, <1>3 DEF RevokedForGood, MintsAlone, HandedOut, StoreTypeOK
<1> QED BY <1>4, <1>5, <1>6, <1>7, <1>8, <1>9 DEF StoreInd

LEMMA ExpiredKey ==
  ASSUME NEW T, NEW S, NEW key \in [token : T, scope : S, expired : BOOLEAN]
  PROVE  [key EXCEPT !.expired = TRUE] \in [token : T, scope : S, expired : BOOLEAN]
OBVIOUS

LEMMA ExpireKeeps ==
  ASSUME StoreInd, NEW i \in Ids, Expire(i)
  PROVE  StoreInd'
<1> USE StoreAssumption
<1>1. StoreTypeOK'
  <2>1. StoreTypeOK
    BY DEF StoreInd, HandedOut
  <2>2. by_id' \in [Ids -> [token : Tokens \cup {None}, scope : Scopes, expired : BOOLEAN]]
    <3>1. by_id' = [by_id EXCEPT ![i] = [by_id[i] EXCEPT !.expired = TRUE]]
      BY <2>1 DEF Expire, StoreTypeOK
    <3>2. [by_id[i] EXCEPT !.expired = TRUE] \in [token : Tokens \cup {None}, scope : Scopes, expired : BOOLEAN]
      <4> DEFINE key == by_id[i]
                 T == Tokens \cup {None}
      <4>1. key \in [token : T, scope : Scopes, expired : BOOLEAN]
        BY <2>1 DEF StoreTypeOK
      <4> HIDE DEF key, T
      <4>2. [key EXCEPT !.expired = TRUE] \in [token : T, scope : Scopes, expired : BOOLEAN]
        BY <4>1, ExpiredKey
      <4> QED BY <4>2 DEF key, T
    <3> QED BY <2>1, <3>1, <3>2 DEF StoreTypeOK
  <2> QED BY <2>1, <2>2 DEF StoreTypeOK, Expire
<1>2. /\ Current(i) # None /\ by_id'[i].token = by_id[i].token /\ \A j \in Ids \ {i} : by_id'[j] = by_id[j]
      /\ by_token' = by_token /\ admin' = admin /\ issued' = issued /\ revoked' = revoked /\ crowded' = crowded
  BY DEF StoreInd, HandedOut, StoreTypeOK, Expire, Known, Current, NoKey, NoRequest, Adding, Removing, Rotating
<1>3. StoreTypeOK /\ HandedOut /\ TokensApart /\ MintsAlone /\ CurrentStands /\ OldOnesLeave /\ RevokedForGood
  BY DEF StoreInd, HandedOut
<1> USE DEF Current, Adding, Removing, Rotating, NoRequest, NoKey, Known
<1>4. HandedOut'
  BY <1>1, <1>2, <1>3 DEF HandedOut, StoreTypeOK
<1>5. TokensApart'
  BY <1>2, <1>3 DEF TokensApart, HandedOut
<1>6. MintsAlone'
  BY <1>2, <1>3 DEF MintsAlone, TokensApart, HandedOut
<1>7. CurrentStands'
  BY <1>2, <1>3 DEF CurrentStands, TokensApart, MintsAlone, HandedOut
<1>8. OldOnesLeave'
  BY <1>2, <1>3 DEF OldOnesLeave, MintsAlone, HandedOut
<1>9. RevokedForGood'
  BY <1>2, <1>3 DEF RevokedForGood, MintsAlone, HandedOut, StoreTypeOK
<1> QED BY <1>4, <1>5, <1>6, <1>7, <1>8, <1>9 DEF StoreInd

LEMMA StoreBegins == StoreInit => StoreInd
<1> SUFFICES ASSUME StoreInit PROVE StoreInd
  OBVIOUS
<1> USE DEF StoreInit, NoKey, NoRequest, Current, Adding, Removing, Rotating
<1>1. HandedOut
  BY DEF HandedOut, StoreTypeOK, Scopes, Known
<1>2. TokensApart /\ MintsAlone /\ CurrentStands /\ OldOnesLeave /\ RevokedForGood
  BY DEF TokensApart, MintsAlone, CurrentStands, OldOnesLeave, RevokedForGood
<1> QED BY <1>1, <1>2 DEF StoreInd

LEMMA StoreKept == ASSUME StoreInd, UNCHANGED store PROVE StoreInd'
BY DEF store, StoreInd, HandedOut, StoreTypeOK, TokensApart, MintsAlone, CurrentStands, OldOnesLeave, RevokedForGood,
       Known, Current, Adding, Removing, Rotating

LEMMA StoreStep == ASSUME StoreInd, StoreNext PROVE StoreInd' /\ revoked \subseteq revoked'
<1>1. StoreInd'
  <2>1. ASSUME NEW a \in Admins, NEW i \in Ids, NEW t \in Tokens, NEW s \in Scopes, MintToken(a, i, t, s) PROVE StoreInd'
    BY <2>1, MintTokenKeeps
  <2>2. ASSUME NEW a \in Admins, MintKey(a) PROVE StoreInd'
    BY <2>2, MintKeyKeeps
  <2>3. ASSUME NEW a \in Admins, NEW i \in Ids, RevokeKey(a, i) PROVE StoreInd'
    BY <2>3, RevokeKeyKeeps
  <2>4. ASSUME NEW a \in Admins, RevokeToken(a) PROVE StoreInd'
    BY <2>4, RevokeTokenKeeps
  <2>5. ASSUME NEW a \in Admins, NEW i \in Ids, NEW t \in Tokens, NEW body \in BOOLEAN, NEW s \in Scopes,
               RotateKey(a, i, t, body, s)
        PROVE  StoreInd'
    BY <2>5, RotateKeyKeeps
  <2>6. ASSUME NEW a \in Admins, RotateRemove(a) PROVE StoreInd'
    BY <2>6, RotateRemoveKeeps
  <2>7. ASSUME NEW a \in Admins, RotateInsert(a) PROVE StoreInd'
    BY <2>7, RotateInsertKeeps
  <2>8. ASSUME NEW i \in Ids, Expire(i) PROVE StoreInd'
    BY <2>8, ExpireKeeps
  <2> QED BY <2>1, <2>2, <2>3, <2>4, <2>5, <2>6, <2>7, <2>8 DEF StoreNext
<1>2. revoked \subseteq revoked'
  BY DEF StoreNext, MintToken, MintKey, RevokeKey, RevokeToken, RotateKey, RotateRemove, RotateInsert, Expire
<1> QED BY <1>1, <1>2

-----------------------------------------------------------------------------
(* AuthChain: the webhook provider.                                        *)

\* Who has a reference to an instance, and which instances there are, is as
\* it was.
HoldersKept ==
  /\ \A p \in Slots : Alive(p)' <=> Alive(p)
  /\ \A k \in Checkers : check'[k].slot = check[k].slot
  /\ hot' = hot /\ reload' = reload

LEMMA InstancesKept == ASSUME ReloadsTyped, ChecksTyped, InstancesHeld, HoldersKept PROVE InstancesHeld'
<1>1. hot \in Slots /\ (\A k \in Checkers : check[k].slot \in Slots \cup {None})
      /\ (\A r \in Reloaders : reload[r].slot \in Slots \cup {None})
  BY DEF ReloadsTyped, ReloadStates, ChecksTyped, CheckStates
<1> QED BY <1>1 DEF InstancesHeld, HoldersKept

LEMMA ReloadsKept == ASSUME ReloadsTyped, ReloadsApart, UNCHANGED <<reload, cells, file, settled, alone, hot>>
                     PROVE  ReloadsTyped' /\ ReloadsApart'
BY DEF ReloadsTyped, ReloadsApart

LEMMA HookChanged ==
  ASSUME HooksTyped, NEW p \in Slots, NEW h \in HookStates, Fits(h.cache), hook' = [hook EXCEPT ![p] = h]
  PROVE  HooksTyped' /\ hook'[p] = h /\ \A q \in Slots \ {p} : hook'[q] = hook[q]
BY DEF HooksTyped

LEMMA EmptyFits == NoHook \in HookStates /\ NewHook \in HookStates /\ Fits(NoHook.cache) /\ Fits(NewHook.cache)
<1>1. Absent \in [allow : BOOLEAN, left : -1..(AllowTtl + DenyTtl)]
  BY WebhookAssumption DEF Absent
<1>2. NoHook.cache \in Caches /\ NewHook.cache = NoHook.cache /\ \A r \in Requests : NoHook.cache[r] = Absent
  BY <1>1 DEF NoHook, NewHook, Caches
<1>3. Stored(NoHook.cache) = {}
  BY <1>2 DEF Stored
<1>4. Fits(NoHook.cache)
  BY <1>3, FS_EmptySet, WebhookAssumption DEF Fits
<1>5. NoHook \in HookStates /\ NewHook \in HookStates
  BY <1>2 DEF NoHook, NewHook, HookStates
<1> QED BY <1>2, <1>4, <1>5

LEMMA EvictedFits ==
  ASSUME NEW c \in Caches, Fits(c), NEW d \in Evicted(c)
  PROVE  d \in Caches /\ Cardinality(Stored(d)) < Capacity /\ \A r \in Stored(d) : r \in Stored(c) /\ d[r] = c[r]
<1>1. IsFiniteSet(Stored(c)) /\ Cardinality(Stored(c)) \in Nat /\ Capacity \in Nat
  BY ChainAssumption, WebhookAssumption, FS_Subset, FS_CardinalityType DEF Stored
<1>2. CASE d = c /\ Cardinality(Stored(c)) < Capacity
  BY <1>2
<1>3. ASSUME NEW v \in Stored(c), d = [r \in Requests |-> IF r = v THEN Absent ELSE c[r]]
      PROVE  d \in Caches /\ Cardinality(Stored(d)) < Capacity /\ \A r \in Stored(d) : r \in Stored(c) /\ d[r] = c[r]
  <2>1. Absent \in [allow : BOOLEAN, left : -1..(AllowTtl + DenyTtl)]
    BY WebhookAssumption DEF Absent
  <2>2. d \in Caches
    BY <1>3, <2>1 DEF Caches
  <2>3. Stored(d) = Stored(c) \ {v} /\ \A r \in Stored(d) : d[r] = c[r]
    BY <1>3 DEF Stored
  <2>4. Cardinality(Stored(d)) = Cardinality(Stored(c)) - 1
    BY <1>1, <2>3, FS_RemoveElement
  <2> QED BY <1>1, <2>2, <2>3, <2>4 DEF Fits
<1>4. \/ d = c /\ Cardinality(Stored(c)) < Capacity
      \/ \E v \in Stored(c) : d = [r \in Requests |-> IF r = v THEN Absent ELSE c[r]]
  BY DEF Evicted, Stored
<1> QED BY <1>2, <1>3, <1>4

LEMMA AnswerFits ==
  ASSUME NEW c \in Caches, Fits(c), NEW d \in Evicted(c), NEW r \in Requests, NEW allow \in BOOLEAN
  PROVE  LET n == [d EXCEPT ![r] = [allow |-> allow, left |-> IF allow THEN AllowTtl ELSE DenyTtl]]
         IN  n \in Caches /\ Fits(n)
<1> DEFINE e == [allow |-> allow, left |-> IF allow THEN AllowTtl ELSE DenyTtl]
           n == [d EXCEPT ![r] = e]
<1>1. d \in Caches /\ Cardinality(Stored(d)) < Capacity /\ \A q \in Stored(d) : q \in Stored(c) /\ d[q] = c[q]
  BY EvictedFits
<1>2. e \in [allow : BOOLEAN, left : -1..(AllowTtl + DenyTtl)]
  BY WebhookAssumption
<1>3. n \in Caches /\ n[r] = e /\ \A q \in Requests \ {r} : n[q] = d[q]
  BY <1>1, <1>2 DEF Caches
<1>4. Stored(n) \subseteq Stored(d) \cup {r}
  BY <1>3 DEF Stored
<1>5. IsFiniteSet(Stored(d)) /\ Cardinality(Stored(d)) \in Nat /\ Capacity \in Nat
  BY ChainAssumption, WebhookAssumption, FS_Subset, FS_CardinalityType DEF Stored
<1>6. IsFiniteSet(Stored(d) \cup {r}) /\ Cardinality(Stored(d) \cup {r}) <= Cardinality(Stored(d)) + 1
  <2>1. IsFiniteSet(Stored(d) \cup {r})
        /\ Cardinality(Stored(d) \cup {r}) = IF r \in Stored(d) THEN Cardinality(Stored(d)) ELSE Cardinality(Stored(d)) + 1
    BY <1>5, FS_AddElement
  <2> QED BY <1>5, <2>1
<1>7. Cardinality(Stored(n)) <= Capacity
  <2>1. Cardinality(Stored(n)) <= Cardinality(Stored(d) \cup {r})
    BY <1>4, <1>6, FS_Subset
  <2>2. Cardinality(Stored(n)) \in Nat /\ Cardinality(Stored(d) \cup {r}) \in Nat
    BY <1>4, <1>6, FS_Subset, FS_CardinalityType
  <2> QED BY <1>1, <1>5, <1>6, <2>1, <2>2
<1>8. \A q \in Stored(n) : n[q].left <= (IF n[q].allow THEN AllowTtl ELSE DenyTtl)
  <2>1. e.left <= (IF e.allow THEN AllowTtl ELSE DenyTtl)
    BY WebhookAssumption
  <2>2. \A q \in Stored(n) \ {r} : q \in Stored(d) /\ n[q] = c[q] /\ q \in Stored(c)
    <3>1. ASSUME NEW q \in Stored(n) \ {r} PROVE q \in Stored(d) /\ n[q] = c[q] /\ q \in Stored(c)
      <4>1. q \in Requests /\ q # r /\ q \in Stored(d)
        BY <1>4 DEF Stored
      <4> HIDE DEF n
      <4> QED BY <1>1, <1>3, <4>1
    <3> HIDE DEF n
    <3> QED BY <3>1
  <2> HIDE DEF e, n
  <2> QED BY <1>3, <2>1, <2>2 DEF Fits
<1> QED BY <1>3, <1>7, <1>8 DEF Fits

\* What the fetchers do keeps every instance and every wake-up.
LEMMA FetchKeeps ==
  ASSUME HooksInd, NEW p \in Slots, Fetch(p), check' = check
  PROVE  HooksTyped' /\ (\A q \in Slots : Alive(q)' <=> Alive(q)) /\ KickNotLost'
<1> DEFINE h == hook[p]
<1>1. h \in HookStates /\ Fits(h.cache) /\ HooksTyped /\ KickNotLost
  BY DEF HooksInd, HooksTyped
<1>2. CASE FetchWake(p)
  <2> DEFINE g == [h EXCEPT !.at = "awake", !.permit = FALSE]
  <2>1. hook' = [hook EXCEPT ![p] = g] /\ h.at = "idle"
    BY <1>2 DEF FetchWake, HooksInd, HooksTyped
  <2>2. g \in HookStates /\ g.cache = h.cache /\ g.at = "awake" /\ g.pending = h.pending
    BY <1>1 DEF HookStates
  <2> HIDE DEF g
  <2>3. HooksTyped' /\ hook'[p] = g /\ \A q \in Slots \ {p} : hook'[q] = hook[q]
    BY <1>1, <2>1, <2>2, HookChanged
  <2> QED BY <1>1, <2>1, <2>2, <2>3 DEF Alive, KickNotLost
<1>3. CASE FetchTake(p)
  <2> DEFINE g == [h EXCEPT !.pending = {}, !.batch = h.pending, !.at = IF h.pending = {} THEN "idle" ELSE "post"]
  <2>1. hook' = [hook EXCEPT ![p] = g] /\ h.at = "awake"
    BY <1>3 DEF FetchTake, HooksInd, HooksTyped
  <2>2. g \in HookStates /\ g.cache = h.cache /\ g.at # "free" /\ g.pending = {}
    BY <1>1 DEF HookStates
  <2> HIDE DEF g
  <2>3. HooksTyped' /\ hook'[p] = g /\ \A q \in Slots \ {p} : hook'[q] = hook[q]
    BY <1>1, <2>1, <2>2, HookChanged
  <2> QED BY <1>1, <2>1, <2>2, <2>3 DEF Alive, KickNotLost
<1>4. ASSUME NEW r \in Requests, NEW allow \in BOOLEAN, FetchPost(p, r, allow)
      PROVE  HooksTyped' /\ (\A q \in Slots : Alive(q)' <=> Alive(q)) /\ KickNotLost'
  <2>1. PICK c \in Evicted(h.cache) :
          hook' = [hook EXCEPT
            ![p].cache = [c EXCEPT ![r] = [allow |-> allow, left |-> IF allow THEN AllowTtl ELSE DenyTtl]],
            ![p].batch = @ \ {r},
            ![p].at = IF hook[p].batch = {r} THEN "idle" ELSE "post"]
    BY <1>4 DEF FetchPost
  <2> DEFINE n == [c EXCEPT ![r] = [allow |-> allow, left |-> IF allow THEN AllowTtl ELSE DenyTtl]]
             g == [h EXCEPT !.cache = n, !.batch = h.batch \ {r}, !.at = IF h.batch = {r} THEN "idle" ELSE "post"]
  <2>2. n \in Caches /\ Fits(n)
    BY <1>1, AnswerFits DEF HookStates
  <2>3. hook' = [hook EXCEPT ![p] = g] /\ h.at = "post"
    BY <1>4, <2>1 DEF FetchPost, HooksInd, HooksTyped
  <2> HIDE DEF n
  <2>4. g \in HookStates /\ g.cache = n /\ g.at # "free" /\ g.pending = h.pending /\ g.permit = h.permit
    BY <1>1, <2>2 DEF HookStates
  <2> HIDE DEF g
  <2>5. HooksTyped' /\ hook'[p] = g /\ \A q \in Slots \ {p} : hook'[q] = hook[q]
    BY <1>1, <2>2, <2>3, <2>4, HookChanged
  <2> QED BY <1>1, <2>3, <2>4, <2>5 DEF Alive, KickNotLost
<1> QED BY <1>2, <1>3, <1>4 DEF Fetch

\* A second passes over one cache.
Aged(c) == [r \in Requests |-> IF Live(c[r]) THEN [allow |-> c[r].allow, left |-> c[r].left - 1] ELSE c[r]]

LEMMA AgedFits == ASSUME NEW c \in Caches, Fits(c) PROVE Aged(c) \in Caches /\ Fits(Aged(c))
<1>1. ASSUME NEW r \in Requests
      PROVE  /\ Aged(c)[r] \in [allow : BOOLEAN, left : -1..(AllowTtl + DenyTtl)]
             /\ Aged(c)[r].allow = c[r].allow /\ Aged(c)[r].left <= c[r].left
             /\ Aged(c)[r] # Absent <=> c[r] # Absent
  <2>1. c[r] \in [allow : BOOLEAN, left : -1..(AllowTtl + DenyTtl)]
    BY DEF Caches
  <2>2. CASE Live(c[r])
    <3> DEFINE e == c[r]
    <3>1. Aged(c)[r] = [allow |-> e.allow, left |-> e.left - 1] /\ e.left > 0
      BY <2>2 DEF Aged, Live
    <3>2. e.left \in -1..(AllowTtl + DenyTtl) /\ AllowTtl + DenyTtl \in Nat
      BY <2>1, WebhookAssumption
    <3> HIDE DEF e
    <3>3. e \in [allow : BOOLEAN, left : -1..(AllowTtl + DenyTtl)]
      BY <2>1 DEF e
    <3>4. Absent.left = -1
      BY DEF Absent
    <3>5. Aged(c)[r].left = e.left - 1 /\ Aged(c)[r].allow = e.allow
      BY <3>1
    <3>6. Aged(c)[r].left # Absent.left /\ e.left # Absent.left
      BY <3>1, <3>2, <3>4, <3>5
    <3>7. Aged(c)[r] # Absent /\ e # Absent
      BY <3>6
    <3>8. Aged(c)[r] \in [allow : BOOLEAN, left : -1..(AllowTtl + DenyTtl)]
      BY <3>1, <3>2, <3>3
    <3>9. e.left - 1 <= e.left
      BY <3>2
    <3> QED BY <3>5, <3>7, <3>8, <3>9 DEF e
  <2>3. CASE ~ Live(c[r])
    <3>1. Aged(c)[r] = c[r]
      BY <2>3 DEF Aged
    <3>2. c[r].left <= c[r].left
      BY <2>1, WebhookAssumption
    <3> QED BY <2>1, <3>1, <3>2
  <2> QED BY <2>2, <2>3
<1>2. Aged(c) \in Caches
  BY <1>1 DEF Aged, Caches
<1>3. Stored(Aged(c)) = Stored(c)
  BY <1>1 DEF Stored
<1>4. ASSUME NEW r \in Stored(c)
      PROVE  Aged(c)[r].left <= (IF Aged(c)[r].allow THEN AllowTtl ELSE DenyTtl)
  <2>1. r \in Requests /\ c[r].left <= (IF c[r].allow THEN AllowTtl ELSE DenyTtl)
    BY DEF Fits, Stored
  <2>2. Aged(c)[r].allow = c[r].allow /\ Aged(c)[r].left <= c[r].left
    BY <1>1, <2>1
  <2>3. c[r].left \in Int /\ Aged(c)[r].left \in Int /\ AllowTtl \in Int /\ DenyTtl \in Int
    BY <1>1, <2>1, WebhookAssumption DEF Caches
  <2> QED BY <2>1, <2>2, <2>3
<1> QED BY <1>2, <1>3, <1>4 DEF Fits

LEMMA TickKeeps ==
  ASSUME HooksInd, Tick, check' = check
  PROVE  HooksTyped' /\ (\A q \in Slots : Alive(q)' <=> Alive(q)) /\ KickNotLost'
<1>1. hook' = [p \in Slots |-> [hook[p] EXCEPT !.cache = Aged(hook[p].cache)]]
  BY DEF Tick, Aged
<1>2. ASSUME NEW p \in Slots
      PROVE  /\ hook'[p] \in HookStates /\ Fits(hook'[p].cache) /\ hook'[p].at = hook[p].at
             /\ hook'[p].pending = hook[p].pending /\ hook'[p].permit = hook[p].permit
  <2> DEFINE h == hook[p]
             n == Aged(h.cache)
  <2>1. h \in HookStates /\ Fits(h.cache)
    BY DEF HooksInd, HooksTyped
  <2>2. n \in Caches /\ Fits(n)
    BY <2>1, AgedFits DEF HookStates
  <2>3. hook'[p] = [h EXCEPT !.cache = n]
    BY <1>1
  <2> HIDE DEF h, n
  <2>4. [h EXCEPT !.cache = n] \in HookStates /\ [h EXCEPT !.cache = n].cache = n
        /\ [h EXCEPT !.cache = n].at = h.at /\ [h EXCEPT !.cache = n].pending = h.pending
        /\ [h EXCEPT !.cache = n].permit = h.permit
    BY <2>1, <2>2 DEF HookStates
  <2> QED BY <2>2, <2>3, <2>4 DEF h
<1>3. HooksTyped'
  BY <1>1, <1>2 DEF HooksTyped
<1> QED BY <1>2, <1>3 DEF Alive, KickNotLost, HooksInd

-----------------------------------------------------------------------------
(* AuthChain: checks.                                                      *)

CheckSound(c) ==
  /\ c \in CheckStates /\ c.at # "idle" /\ c.req \in Requests /\ c.slot \in Slots
  /\ c.at = "key" => c.id \in Ids
  /\ c.at \notin {"key", "done"} => c.id = None

LEMMA CheckIsSet ==
  ASSUME ChecksTyped, NEW k \in Checkers, NEW c, CheckSound(c) \/ c = NoCheck, Set(k, c)
  PROVE  ChecksTyped' /\ check'[k] = c /\ \A j \in Checkers \ {k} : check'[j] = check[j]
<1>1. NoCheck \in CheckStates
  BY DEF NoCheck, CheckStates
<1>2. c \in CheckStates /\ check' = [check EXCEPT ![k] = c]
  BY <1>1 DEF CheckSound, Set
<1>3. check'[k] = c /\ (\A j \in Checkers \ {k} : check'[j] = check[j]) /\ check' \in [Checkers -> CheckStates]
  BY <1>2 DEF ChecksTyped
<1>4. /\ c.at = "idle" => c = NoCheck
      /\ c.at # "idle" => c.req \in Requests /\ c.slot \in Slots
      /\ c.at = "key" => c.id \in Ids
      /\ c.at \notin {"key", "done"} => c.id = None
  BY DEF CheckSound, NoCheck
<1> QED BY <1>3, <1>4 DEF ChecksTyped

\* The next state of a check that goes on with what it has loaded.
Follows(c, d) == c.at # "idle" /\ d.at # "idle" /\ d.req = c.req /\ d.slot = c.slot /\ d.before = c.before

\* A step of a check that only reads.
LEMMA ReadingKeeps ==
  ASSUME StoreInd, RevocationsSeen, HooksInd, NEW k \in Checkers, NEW c, Set(k, c), Follows(check[k], c), CheckSound(c),
         check[k].at # "kick", c.allow => c.at = "done" /\ c.id \notin c.before,
         UNCHANGED <<store, hook, hot, reloading>>
  PROVE  ChainInd'
<1>1. revoked' = revoked /\ hook' = hook /\ hot' = hot /\ cells' = cells /\ file' = file /\ reload' = reload
      /\ alone' = alone /\ settled' = settled
  BY DEF store, reloading
<1>2. StoreInd'
  BY StoreKept
<1>3. ChecksTyped' /\ check'[k] = c /\ \A j \in Checkers \ {k} : check'[j] = check[j]
  BY CheckIsSet DEF HooksInd
<1>4. RevocationsSeen'
  BY <1>1, <1>3 DEF RevocationsSeen, Follows
<1>5. HooksTyped'
  BY <1>1 DEF HooksInd, HooksTyped
<1>6. ReloadsTyped' /\ ReloadsApart'
  BY <1>1, ReloadsKept DEF HooksInd
<1>7. InstancesHeld'
  <2>1. HoldersKept
    BY <1>1, <1>3 DEF HoldersKept, Alive, Follows
  <2> QED BY <2>1, InstancesKept DEF HooksInd
<1>8. KickNotLost'
  BY <1>1, <1>3 DEF HooksInd, KickNotLost
<1> QED BY <1>2, <1>3, <1>4, <1>5, <1>6, <1>7, <1>8 DEF ChainInd, HooksInd

LEMMA CheckIs ==
  ASSUME HooksInd, RevocationsSeen, NEW k \in Checkers, check[k].at # "idle"
  PROVE  CheckSound(check[k]) /\ (check[k].at # "done" => check[k].allow = FALSE)
<1>1. check[k] \in CheckStates
  BY DEF HooksInd, ChecksTyped
<1>2. CheckSound(check[k])
  BY <1>1 DEF HooksInd, ChecksTyped, CheckSound
<1>3. check[k].allow \in BOOLEAN
  BY <1>1 DEF CheckStates
<1> QED BY <1>2, <1>3 DEF RevocationsSeen

LEMMA CheckTokenKeeps ==
  ASSUME ChainInd, NEW k \in Checkers, CheckToken(k)
  PROVE  ChainInd'
<1> DEFINE c == check[k]
           i == TokenLookup(Token(c.req))
           d == [c EXCEPT !.at = IF i = None THEN "fallback" ELSE "key", !.id = i]
<1>1. CheckSound(c) /\ c.allow = FALSE /\ c.at = "token"
  BY CheckIs DEF CheckToken, ChainInd
<1>2. i \in Ids \cup {None}
  <2>1. Token(c.req) \in Tokens
    BY <1>1, ChainAssumption DEF Token, CheckSound
  <2> QED BY <2>1 DEF ChainInd, StoreInd, HandedOut, StoreTypeOK, TokenLookup
<1>3. Set(k, d) /\ UNCHANGED <<store, hook, hot, reloading>>
  BY DEF CheckToken
<1> HIDE DEF i
<1>4. CheckSound(d) /\ Follows(c, d) /\ d.allow = FALSE
  BY <1>1, <1>2, StoreAssumption DEF CheckSound, CheckStates, Follows
<1> QED BY <1>1, <1>3, <1>4, ReadingKeeps DEF ChainInd

LEMMA CheckKeyKeeps ==
  ASSUME ChainInd, NEW k \in Checkers, CheckKey(k)
  PROVE  ChainInd'
<1> DEFINE c == check[k]
           key == KeyLookup(c.id)
<1>1. CheckSound(c) /\ c.allow = FALSE /\ c.at = "key" /\ c.id \in Ids
  BY CheckIs DEF CheckKey, ChainInd, CheckSound
<1>2. CASE key = NoKey
  <2> DEFINE d == [c EXCEPT !.at = "fallback", !.id = None]
  <2>1. Set(k, d) /\ UNCHANGED <<store, hook, hot, reloading>>
    BY <1>2 DEF CheckKey
  <2>2. CheckSound(d) /\ Follows(c, d) /\ d.allow = FALSE
    BY <1>1, StoreAssumption DEF CheckSound, CheckStates, Follows
  <2> QED BY <1>1, <2>1, <2>2, ReadingKeeps DEF ChainInd
<1>3. CASE key # NoKey
  <2> DEFINE allow == key.scope \in {None, Scope(c.req)}
             d == [c EXCEPT !.at = "done", !.allow = allow]
  <2>1. Set(k, d) /\ UNCHANGED <<store, hook, hot, reloading>>
    BY <1>3 DEF CheckKey
  <2>2. c.id \notin c.before
    <3>1. by_id[c.id] # NoKey
      BY <1>3 DEF KeyLookup
    <3>2. c.id \notin revoked
      BY <1>1, <3>1 DEF ChainInd, StoreInd, HandedOut, RevokedForGood, Known
    <3> QED BY <3>2 DEF ChainInd, RevocationsSeen
  <2>3. allow \in BOOLEAN
    OBVIOUS
  <2> HIDE DEF allow
  <2>4. CheckSound(d) /\ Follows(c, d) /\ d.at = "done" /\ d.id = c.id /\ d.before = c.before
    BY <1>1, <2>3 DEF CheckSound, CheckStates, Follows
  <2> QED BY <1>1, <2>1, <2>2, <2>4, ReadingKeeps DEF ChainInd
<1> QED BY <1>2, <1>3

\* Who is admitted by another provider is admitted by no key.
LEMMA FallbackKeeps ==
  ASSUME ChainInd, NEW k \in Checkers, NEW allow \in BOOLEAN, check[k].at = "fallback",
         \/ Set(k, [check[k] EXCEPT !.at = "done", !.allow = allow])
         \/ Set(k, [check[k] EXCEPT !.at = "queue"]),
         UNCHANGED <<store, hook, hot, reloading>>
  PROVE  ChainInd'
<1> DEFINE c == check[k]
<1>1. CheckSound(c) /\ c.allow = FALSE /\ c.at = "fallback" /\ c.id = None
  BY CheckIs DEF ChainInd, CheckSound
<1>2. None \notin c.before
  BY <1>1, StoreAssumption DEF CheckSound, CheckStates
<1>3. CASE Set(k, [c EXCEPT !.at = "done", !.allow = allow])
  <2> DEFINE d == [c EXCEPT !.at = "done", !.allow = allow]
  <2>1. CheckSound(d) /\ Follows(c, d) /\ d.at = "done" /\ d.id = None /\ d.before = c.before
    BY <1>1 DEF CheckSound, CheckStates, Follows
  <2> QED BY <1>1, <1>2, <1>3, <2>1, ReadingKeeps DEF ChainInd
<1>4. CASE Set(k, [c EXCEPT !.at = "queue"])
  <2> DEFINE d == [c EXCEPT !.at = "queue"]
  <2>1. CheckSound(d) /\ Follows(c, d) /\ d.allow = FALSE
    BY <1>1 DEF CheckSound, CheckStates, Follows
  <2> QED BY <1>1, <1>4, <2>1, ReadingKeeps DEF ChainInd
<1> QED BY <1>3, <1>4

LEMMA CheckCacheKeeps ==
  ASSUME ChainInd, NEW k \in Checkers, CheckCache(k)
  PROVE  ChainInd'
<1> DEFINE e == Cached(check[k].slot, check[k].req)
<1>1. check[k].at = "fallback" /\ CheckSound(check[k])
  BY CheckIs DEF CheckCache, ChainInd
<1>2. e.allow \in BOOLEAN
  BY <1>1 DEF CheckSound, Cached, ChainInd, HooksInd, HooksTyped, HookStates, Caches
<1>3. \/ Set(k, [check[k] EXCEPT !.at = "done", !.allow = e.allow])
      \/ Set(k, [check[k] EXCEPT !.at = "queue"])
  BY DEF CheckCache
<1>4. UNCHANGED <<store, hook, hot, reloading>>
  BY DEF CheckCache
<1> HIDE DEF e
<1> QED BY <1>1, <1>2, <1>3, <1>4, FallbackKeeps

LEMMA CheckQueueKeeps ==
  ASSUME ChainInd, NEW k \in Checkers, CheckQueue(k)
  PROVE  ChainInd'
<1> DEFINE c == check[k]
           d == [c EXCEPT !.at = "kick"]
           p == c.slot
           h == hook[p]
           g == [h EXCEPT !.pending = h.pending \cup {c.req}]
<1> USE DEF ChainInd, HooksInd
<1>1. CheckSound(c) /\ c.at = "queue" /\ c.allow = FALSE /\ c.id = None /\ p \in Slots /\ c.req \in Requests
  BY CheckIs DEF CheckQueue, CheckSound
<1>2. CheckSound(d) /\ d.slot = p /\ d.at = "kick" /\ d.allow = FALSE /\ d.before = c.before
  BY <1>1 DEF CheckSound, CheckStates
<1>3. Set(k, d) /\ UNCHANGED <<store, hot, reloading>>
  BY DEF CheckQueue
<1>4. hook' = [hook EXCEPT ![p] = g]
  BY DEF CheckQueue, Enqueue
<1>5. h \in HookStates /\ Fits(h.cache)
  BY <1>1 DEF HooksTyped
<1> HIDE DEF c, d, p
<1>6. g \in HookStates /\ g.cache = h.cache /\ g.at = h.at
  BY <1>1, <1>5 DEF HookStates
<1> HIDE DEF g
<1>7. HooksTyped' /\ hook'[p] = g /\ \A q \in Slots \ {p} : hook'[q] = hook[q]
  BY <1>1, <1>4, <1>5, <1>6, HookChanged
<1>8. ChecksTyped' /\ check'[k] = d /\ \A j \in Checkers \ {k} : check'[j] = check[j]
  BY <1>2, <1>3, CheckIsSet
<1>9. StoreInd' /\ revoked' = revoked
  BY <1>3, StoreKept DEF store
<1>10. RevocationsSeen'
  BY <1>2, <1>8, <1>9 DEF RevocationsSeen, c
<1>11. ReloadsTyped' /\ ReloadsApart'
  BY <1>3, ReloadsKept DEF reloading
<1>12. InstancesHeld'
  <2>1. HoldersKept
    BY <1>2, <1>3, <1>6, <1>7, <1>8 DEF HoldersKept, Alive, reloading, c, p
  <2> QED BY <2>1, InstancesKept
<1>13. KickNotLost'
  BY <1>1, <1>2, <1>7, <1>8 DEF KickNotLost, c, p
<1> QED BY <1>7, <1>8, <1>9, <1>10, <1>11, <1>12, <1>13

LEMMA CheckKickKeeps ==
  ASSUME ChainInd, NEW k \in Checkers, CheckKick(k)
  PROVE  ChainInd'
<1> DEFINE c == check[k]
           d == [c EXCEPT !.at = "done"]
           p == c.slot
           h == hook[p]
           g == [h EXCEPT !.permit = TRUE]
<1> USE DEF ChainInd, HooksInd
<1>1. CheckSound(c) /\ c.at = "kick" /\ c.allow = FALSE /\ c.id = None /\ p \in Slots
  BY CheckIs DEF CheckKick, CheckSound
<1>2. CheckSound(d) /\ d.slot = p /\ d.at = "done" /\ d.allow = FALSE /\ d.before = c.before
  BY <1>1 DEF CheckSound, CheckStates
<1>3. Set(k, d) /\ UNCHANGED <<store, hot, reloading>>
  BY DEF CheckKick
<1>4. hook' = [hook EXCEPT ![p] = g]
  BY <1>1 DEF CheckKick, Kick, HooksTyped
<1>5. h \in HookStates /\ Fits(h.cache)
  BY <1>1 DEF HooksTyped
<1> HIDE DEF c, d, p
<1>6. g \in HookStates /\ g.cache = h.cache /\ g.at = h.at /\ g.permit = TRUE
  BY <1>1, <1>5 DEF HookStates
<1> HIDE DEF g
<1>7. HooksTyped' /\ hook'[p] = g /\ \A q \in Slots \ {p} : hook'[q] = hook[q]
  BY <1>1, <1>4, <1>5, <1>6, HookChanged
<1>8. ChecksTyped' /\ check'[k] = d /\ \A j \in Checkers \ {k} : check'[j] = check[j]
  BY <1>2, <1>3, CheckIsSet
<1>9. StoreInd' /\ revoked' = revoked
  BY <1>3, StoreKept DEF store
<1>10. RevocationsSeen'
  BY <1>2, <1>8, <1>9 DEF RevocationsSeen, c
<1>11. ReloadsTyped' /\ ReloadsApart'
  BY <1>3, ReloadsKept DEF reloading
<1>12. InstancesHeld'
  <2>1. HoldersKept
    BY <1>2, <1>3, <1>6, <1>7, <1>8 DEF HoldersKept, Alive, reloading, c, p
  <2> QED BY <2>1, InstancesKept
<1>13. KickNotLost'
  BY <1>1, <1>2, <1>6, <1>7, <1>8 DEF KickNotLost, c, p
<1> QED BY <1>7, <1>8, <1>9, <1>10, <1>11, <1>12, <1>13

\* The last holder of a reference takes the instance with it.
LEMMA ReturnKeeps ==
  ASSUME ChainInd, NEW k \in Checkers, Return(k)
  PROVE  ChainInd'
<1> DEFINE p == check[k].slot
           Held == p = hot \/ \E j \in Checkers : check'[j].slot = p
<1> USE DEF ChainInd, HooksInd
<1>1. p \in Slots /\ check[k].at = "done"
  BY CheckIs DEF Return, CheckSound
<1>2. Set(k, NoCheck) /\ UNCHANGED <<store, hot, reloading>>
  BY DEF Return
<1>3. ChecksTyped' /\ check'[k] = NoCheck /\ \A j \in Checkers \ {k} : check'[j] = check[j]
  BY <1>2, CheckIsSet
<1>4. hook' = IF Held THEN hook ELSE [hook EXCEPT ![p] = NoHook]
  BY DEF Return, Dropped
<1>5. /\ HooksTyped' /\ \A q \in Slots \ {p} : hook'[q] = hook[q]
      /\ hook'[p] = IF Held THEN hook[p] ELSE NoHook
  <2>1. CASE Held
    BY <1>4, <2>1 DEF HooksTyped
  <2>2. CASE ~ Held
    <3>1. hook' = [hook EXCEPT ![p] = NoHook] /\ p \in Slots /\ HooksTyped
      BY <1>1, <1>4, <2>2
    <3> HIDE DEF p, Held
    <3>2. HooksTyped' /\ hook'[p] = NoHook /\ \A q \in Slots \ {p} : hook'[q] = hook[q]
      BY <3>1, EmptyFits, HookChanged
    <3> QED BY <2>2, <3>2
  <2> QED BY <2>1, <2>2
<1>6. StoreInd' /\ revoked' = revoked
  BY <1>2, StoreKept DEF store
<1>7. RevocationsSeen'
  BY <1>3, <1>6 DEF RevocationsSeen, NoCheck
<1>8. ReloadsTyped' /\ ReloadsApart' /\ reload' = reload /\ hot' = hot /\ hot \in Slots
  BY <1>2, ReloadsKept DEF reloading, ReloadsTyped
<1>9. NoHook.at = "free" /\ NoHook.pending = {} /\ NoCheck.slot = None /\ None \notin Slots
  BY ChainAssumption DEF NoHook, NoCheck
<1>10. InstancesHeld'
  <2>1. Alive(hot)'
    BY <1>5, <1>8 DEF InstancesHeld, Alive
  <2>2. \A j \in Checkers : check'[j].slot # None => hook'[check'[j].slot].at # "free"
    <3> SUFFICES ASSUME NEW j \in Checkers, check'[j].slot # None PROVE hook'[check'[j].slot].at # "free"
      OBVIOUS
    <3>1. j # k /\ check'[j] = check[j] /\ check[j].slot \in Slots /\ Alive(check[j].slot)
      BY <1>3, <1>9 DEF ChecksTyped, CheckStates, InstancesHeld
    <3> QED BY <1>5, <3>1 DEF Alive
  <2>3. \A r \in Reloaders : reload[r].slot # None =>
          /\ hook'[reload[r].slot].at # "free" /\ reload[r].slot # hot
          /\ \A j \in Checkers : check'[j].slot # reload[r].slot
          /\ \A q \in Reloaders \ {r} : reload[q].slot # reload[r].slot
    <3> SUFFICES ASSUME NEW r \in Reloaders, reload[r].slot # None
                 PROVE  /\ hook'[reload[r].slot].at # "free" /\ reload[r].slot # hot
                        /\ \A j \in Checkers : check'[j].slot # reload[r].slot
                        /\ \A q \in Reloaders \ {r} : reload[q].slot # reload[r].slot
      OBVIOUS
    <3>1. reload[r].slot \in Slots /\ reload[r].slot # p /\ Alive(reload[r].slot)
      BY DEF InstancesHeld, ReloadsTyped, ReloadStates
    <3> QED BY <1>3, <1>5, <1>9, <3>1 DEF InstancesHeld, Alive
  <2>4. \A q \in Slots : hook'[q].at # "free" =>
          \/ q = hot
          \/ \E j \in Checkers : check'[j].slot = q
          \/ \E r \in Reloaders : reload[r].slot = q
    <3> SUFFICES ASSUME NEW q \in Slots, hook'[q].at # "free"
                 PROVE  q = hot \/ (\E j \in Checkers : check'[j].slot = q) \/ \E r \in Reloaders : reload[r].slot = q
      OBVIOUS
    <3>1. CASE q = p
      BY <1>5, <1>9, <3>1
    <3>2. CASE q # p
      <4>1. Alive(q)
        BY <1>5, <3>2 DEF Alive
      <4> QED BY <1>3, <3>2, <4>1 DEF InstancesHeld
    <3> QED BY <3>1, <3>2
  <2> QED BY <1>8, <2>1, <2>2, <2>3, <2>4 DEF InstancesHeld, Alive
<1>11. KickNotLost'
  <2> SUFFICES ASSUME NEW q \in Slots, hook'[q].pending # {}
               PROVE  hook'[q].at = "awake" \/ hook'[q].permit
                      \/ \E j \in Checkers : check'[j].at = "kick" /\ check'[j].slot = q
    BY DEF KickNotLost
  <2>1. hook'[q] = hook[q]
    BY <1>5, <1>9
  <2> QED BY <1>1, <1>3, <2>1 DEF KickNotLost
<1> QED BY <1>3, <1>5, <1>6, <1>7, <1>8, <1>10, <1>11

LEMMA BeginKeeps ==
  ASSUME ChainInd, NEW k \in Checkers, NEW req \in Requests, Begin(k, req)
  PROVE  ChainInd'
<1> USE DEF ChainInd, HooksInd
<1> DEFINE d == [NoCheck EXCEPT !.at = IF "keys" \in uses THEN "token" ELSE "fallback",
                                !.req = req, !.slot = hot, !.before = revoked]
<1>1. Set(k, d) /\ check[k] = NoCheck
  BY DEF Begin
<1>2. revoked' = revoked /\ hook' = hook /\ hot' = hot /\ cells' = cells /\ file' = file /\ reload' = reload
      /\ alone' = alone /\ settled' = settled /\ UNCHANGED store
  BY DEF Begin, store, reloading
<1>3. CheckSound(d) /\ d.slot = hot /\ d.at \in {"token", "fallback"} /\ d.allow = FALSE /\ d.before = revoked
  BY DEF CheckSound, CheckStates, NoCheck, ReloadsTyped, StoreInd, HandedOut, StoreTypeOK
<1> HIDE DEF d
<1>4. ChecksTyped' /\ check'[k] = d /\ \A j \in Checkers \ {k} : check'[j] = check[j]
  BY <1>1, <1>3, CheckIsSet
<1>5. StoreInd'
  BY <1>2, StoreKept
<1>6. RevocationsSeen'
  BY <1>2, <1>3, <1>4 DEF RevocationsSeen
<1>7. HooksTyped' /\ ReloadsTyped' /\ ReloadsApart'
  BY <1>2, ReloadsKept DEF HooksTyped
<1>8. InstancesHeld'
  <2>1. hot \in Slots /\ None \notin Slots /\ NoCheck.slot = None
    BY ChainAssumption DEF ReloadsTyped, NoCheck
  <2>2. \A r \in Reloaders : reload[r].slot # None => reload[r].slot # hot
    BY DEF InstancesHeld
  <2> QED BY <1>1, <1>2, <1>3, <1>4, <2>1, <2>2 DEF InstancesHeld, Alive
<1>9. KickNotLost'
  <2>1. check[k].at = "idle"
    BY <1>1 DEF NoCheck
  <2> QED BY <1>2, <1>4, <2>1 DEF KickNotLost
<1> QED BY <1>4, <1>5, <1>6, <1>7, <1>8, <1>9

-----------------------------------------------------------------------------
(* AuthChain: reloads.                                                     *)

\* What a reload does leaves the keys and the checks as they are.
LEMMA ReloadLeaves ==
  ASSUME ChainInd, UNCHANGED <<store, check>>
  PROVE  StoreInd' /\ RevocationsSeen' /\ ChecksTyped'
<1>1. revoked' = revoked /\ check' = check /\ StoreInd'
  BY StoreKept DEF ChainInd, store
<1> QED BY <1>1 DEF ChainInd, HooksInd, RevocationsSeen, ChecksTyped

\* As long as instances are the same and have the same owners.
LEMMA OwnersKeep ==
  ASSUME ChainInd, hook' = hook, check' = check, hot' = hot, \A r \in Reloaders : reload'[r].slot = reload[r].slot
  PROVE  HooksTyped' /\ InstancesHeld' /\ KickNotLost'
<1> USE DEF ChainInd, HooksInd
<1>1. \A r \in Reloaders : reload[r].slot \in Slots \cup {None}
  BY DEF ReloadsTyped, ReloadStates
<1>2. InstancesHeld'
  BY <1>1 DEF InstancesHeld, Alive
<1> QED BY <1>2 DEF HooksTyped, KickNotLost

ReloadSound(m) ==
  /\ m \in ReloadStates
  /\ m.at = "idle" => m = NoReload
  /\ m.at # "idle" => m.file \in Files
  /\ m.at = "auth" <=> m.slot # None

LEMMA ReloadIsSet ==
  ASSUME ReloadsTyped, NEW r \in Reloaders, NEW m, ReloadSound(m), reload' = [reload EXCEPT ![r] = m]
  PROVE  /\ reload' \in [Reloaders -> ReloadStates] /\ \A q \in Reloaders : ReloadSound(reload'[q])
         /\ reload'[r] = m /\ \A q \in Reloaders \ {r} : reload'[q] = reload[q]
<1>1. reload'[r] = m /\ (\A q \in Reloaders \ {r} : reload'[q] = reload[q]) /\ reload' \in [Reloaders -> ReloadStates]
  BY DEF ReloadsTyped, ReloadSound
<1>2. \A q \in Reloaders \ {r} : ReloadSound(reload[q])
  BY DEF ReloadsTyped, ReloadSound
<1> QED BY <1>1, <1>2

LEMMA ReloadIs == ASSUME ReloadsTyped, NEW r \in Reloaders PROVE ReloadSound(reload[r])
BY DEF ReloadsTyped, ReloadSound

LEMMA EditFileKeeps == ASSUME ChainInd, NEW f \in Files, EditFile(f) PROVE ChainInd'
<1>1. StoreInd' /\ RevocationsSeen' /\ ChecksTyped'
  BY ReloadLeaves DEF EditFile
<1>2. HooksTyped' /\ InstancesHeld' /\ KickNotLost'
  BY OwnersKeep DEF EditFile
<1>3. ReloadsTyped' /\ ReloadsApart'
  BY DEF EditFile, ChainInd, HooksInd, ReloadsTyped, ReloadsApart
<1> QED BY <1>1, <1>2, <1>3 DEF ChainInd, HooksInd

LEMMA ReadFileKeeps == ASSUME ChainInd, NEW r \in Reloaders, ReadFile(r) PROVE ChainInd'
<1> USE DEF ChainInd, HooksInd
<1> DEFINE m == [NoReload EXCEPT !.at = "build", !.file = file]
<1>1. reload' = [reload EXCEPT ![r] = m] /\ reload[r] = NoReload
      /\ hook' = hook /\ hot' = hot /\ cells' = cells /\ file' = file /\ check' = check /\ settled' = settled
      /\ alone' = IF \A q \in Reloaders : reload[q] = NoReload THEN r ELSE None
  BY DEF ReadFile
<1>2. ReloadSound(m) /\ m.at = "build" /\ m.slot = None /\ NoReload.slot = None /\ NoReload.at = "idle"
  BY DEF ReloadSound, ReloadStates, NoReload, ReloadsTyped
<1> HIDE DEF m
<1>3. /\ reload' \in [Reloaders -> ReloadStates] /\ \A q \in Reloaders : ReloadSound(reload'[q])
      /\ reload'[r] = m /\ \A q \in Reloaders \ {r} : reload'[q] = reload[q]
  BY <1>1, <1>2, ReloadIsSet
<1>4. StoreInd' /\ RevocationsSeen' /\ ChecksTyped'
  BY ReloadLeaves DEF ReadFile
<1>5. HooksTyped' /\ InstancesHeld' /\ KickNotLost'
  BY <1>1, <1>2, <1>3, OwnersKeep
<1>6. ReloadsTyped'
  BY <1>1, <1>3 DEF ReloadsTyped, ReloadSound
<1>7. ReloadsApart'
  <2>1. CASE \A q \in Reloaders : reload[q] = NoReload
    BY <1>1, <1>2, <1>3, <2>1 DEF ReloadsApart
  <2>2. CASE ~ \A q \in Reloaders : reload[q] = NoReload
    BY <1>1, <1>2, <1>3, <2>2 DEF ReloadsApart
  <2> QED BY <2>1, <2>2
<1> QED BY <1>4, <1>5, <1>6, <1>7

LEMMA BuildFailedKeeps == ASSUME ChainInd, NEW r \in Reloaders, BuildFailed(r) PROVE ChainInd'
<1> USE DEF ChainInd, HooksInd
<1>1. reload' = [reload EXCEPT ![r] = NoReload] /\ reload[r].at = "build"
      /\ hook' = hook /\ hot' = hot /\ cells' = cells /\ file' = file /\ check' = check /\ settled' = settled
      /\ alone' = alone
  BY DEF BuildFailed
<1>2. ReloadSound(NoReload) /\ NoReload.slot = None /\ NoReload.at = "idle" /\ reload[r].slot = None
  BY <1>1 DEF ReloadSound, ReloadStates, NoReload, ReloadsTyped
<1>3. /\ reload' \in [Reloaders -> ReloadStates] /\ \A q \in Reloaders : ReloadSound(reload'[q])
      /\ reload'[r] = NoReload /\ \A q \in Reloaders \ {r} : reload'[q] = reload[q]
  BY <1>1, <1>2, ReloadIsSet
<1>4. StoreInd' /\ RevocationsSeen' /\ ChecksTyped'
  BY ReloadLeaves DEF BuildFailed
<1>5. HooksTyped' /\ InstancesHeld' /\ KickNotLost'
  BY <1>1, <1>2, <1>3, OwnersKeep
<1>6. ReloadsTyped'
  BY <1>1, <1>3 DEF ReloadsTyped, ReloadSound
<1>7. ReloadsApart'
  BY <1>1, <1>2, <1>3 DEF ReloadsApart, ReloadsTyped
<1> QED BY <1>4, <1>5, <1>6, <1>7

\* A new instance belongs to the reload that built it.
LEMMA BuildKeeps == ASSUME ChainInd, NEW r \in Reloaders, Build(r) PROVE ChainInd'
<1> USE DEF ChainInd, HooksInd
<1>1. PICK p \in Slots : ~ Alive(p) /\ hook' = [hook EXCEPT ![p] = NewHook]
                         /\ reload' = [reload EXCEPT ![r].at = "auth", ![r].slot = p]
  <2> DEFINE p == CHOOSE q \in Slots : ~ Alive(q)
  <2>1. p \in Slots /\ ~ Alive(p)
    BY DEF Build
  <2> QED BY <2>1 DEF Build
<1> DEFINE m == [reload[r] EXCEPT !.at = "auth", !.slot = p]
<1>2. reload[r].at = "build" /\ ReloadSound(reload[r]) /\ None \notin Slots
  BY ReloadIs, ChainAssumption DEF Build
<1>3. reload' = [reload EXCEPT ![r] = m]
  BY <1>1 DEF ReloadsTyped
<1>4. ReloadSound(m) /\ m.at = "auth" /\ m.slot = p /\ m.file = reload[r].file /\ reload[r].slot = None
  BY <1>2 DEF ReloadSound, ReloadStates
<1> HIDE DEF m
<1>5. /\ reload' \in [Reloaders -> ReloadStates] /\ \A q \in Reloaders : ReloadSound(reload'[q])
      /\ reload'[r] = m /\ \A q \in Reloaders \ {r} : reload'[q] = reload[q]
  BY <1>3, <1>4, ReloadIsSet
<1>6. hot' = hot /\ cells' = cells /\ file' = file /\ check' = check /\ settled' = settled /\ alone' = alone
  BY DEF Build
<1>7. StoreInd' /\ RevocationsSeen' /\ ChecksTyped'
  BY ReloadLeaves DEF Build
<1>8. HooksTyped' /\ hook'[p] = NewHook /\ \A q \in Slots \ {p} : hook'[q] = hook[q]
  BY <1>1, EmptyFits, HookChanged
<1>9. NewHook.at = "idle" /\ NewHook.pending = {}
  BY DEF NewHook, NoHook
<1>10. ReloadsTyped'
  BY <1>5, <1>6 DEF ReloadsTyped, ReloadSound
<1>11. ReloadsApart'
  BY <1>2, <1>4, <1>5, <1>6 DEF ReloadsApart, ReloadsTyped
<1>12. InstancesHeld'
  <2>1. hot \in Slots /\ hot # p /\ Alive(hot)
    BY <1>1 DEF ReloadsTyped, InstancesHeld
  <2>2. \A k \in Checkers : check[k].slot # None => check[k].slot \in Slots \ {p} /\ Alive(check[k].slot)
    BY <1>1 DEF InstancesHeld, ChecksTyped, CheckStates
  <2>3. \A q \in Reloaders : reload[q].slot # None => reload[q].slot \in Slots \ {p} /\ Alive(reload[q].slot)
    BY <1>1 DEF InstancesHeld, ReloadsTyped, ReloadStates
  <2>4. Alive(hot)'
    BY <1>6, <1>8, <2>1 DEF Alive
  <2>5. \A k \in Checkers : check[k].slot # None => hook'[check[k].slot].at # "free"
    BY <1>8, <2>2 DEF Alive
  <2>6. \A q \in Reloaders : reload'[q].slot # None =>
          /\ hook'[reload'[q].slot].at # "free" /\ reload'[q].slot # hot
          /\ \A k \in Checkers : check[k].slot # reload'[q].slot
          /\ \A s \in Reloaders \ {q} : reload'[s].slot # reload'[q].slot
    <3> SUFFICES ASSUME NEW q \in Reloaders, reload'[q].slot # None
                 PROVE  /\ hook'[reload'[q].slot].at # "free" /\ reload'[q].slot # hot
                        /\ \A k \in Checkers : check[k].slot # reload'[q].slot
                        /\ \A s \in Reloaders \ {q} : reload'[s].slot # reload'[q].slot
      OBVIOUS
    <3>1. CASE q = r
      BY <1>2, <1>4, <1>5, <1>8, <1>9, <2>1, <2>2, <2>3, <3>1
    <3>2. CASE q # r
      BY <1>4, <1>5, <1>8, <2>3, <3>2 DEF InstancesHeld, Alive
    <3> QED BY <3>1, <3>2
  <2>7. \A q \in Slots : hook'[q].at # "free" =>
          \/ q = hot
          \/ \E k \in Checkers : check[k].slot = q
          \/ \E s \in Reloaders : reload'[s].slot = q
    <3> SUFFICES ASSUME NEW q \in Slots \ {p}, hook'[q].at # "free"
                 PROVE  q = hot \/ (\E k \in Checkers : check[k].slot = q) \/ \E s \in Reloaders : reload'[s].slot = q
      BY <1>4, <1>5
    <3>1. q = hot \/ (\E k \in Checkers : check[k].slot = q) \/ \E s \in Reloaders : reload[s].slot = q
      BY <1>8 DEF InstancesHeld, Alive
    <3>2. \A s \in Reloaders : reload[s].slot = q => s # r
      BY <1>2, <1>4
    <3> QED BY <1>5, <3>1, <3>2
  <2> QED BY <1>6, <2>4, <2>5, <2>6, <2>7 DEF InstancesHeld, Alive
<1>13. KickNotLost'
  BY <1>6, <1>8, <1>9 DEF KickNotLost
<1> QED BY <1>7, <1>8, <1>10, <1>11, <1>12, <1>13

\* The instance in the cell is dropped unless a check holds it.
LEMMA SwapAuthKeeps == ASSUME ChainInd, NEW r \in Reloaders, SwapAuth(r) PROVE ChainInd'
<1> USE DEF ChainInd, HooksInd
<1> DEFINE m == [reload[r] EXCEPT !.at = "ice", !.slot = None]
           Held == \E k \in Checkers : check[k].slot = hot
<1>1. reload[r].at = "auth" /\ ReloadSound(reload[r]) /\ None \notin Slots /\ hot \in Slots
  BY ReloadIs, ChainAssumption DEF SwapAuth, ReloadsTyped
<1>2. reload[r].slot \in Slots /\ reload[r].slot # hot /\ Alive(reload[r].slot)
  BY <1>1 DEF ReloadSound, ReloadStates, InstancesHeld
<1>3. reload' = [reload EXCEPT ![r] = m]
  BY DEF SwapAuth, ReloadsTyped
<1>4. ReloadSound(m) /\ m.at = "ice" /\ m.slot = None /\ m.file = reload[r].file /\ reload[r].file \in Files
  BY <1>1 DEF ReloadSound, ReloadStates
<1> HIDE DEF m
<1>5. /\ reload' \in [Reloaders -> ReloadStates] /\ \A q \in Reloaders : ReloadSound(reload'[q])
      /\ reload'[r] = m /\ \A q \in Reloaders \ {r} : reload'[q] = reload[q]
  BY <1>3, <1>4, ReloadIsSet
<1>6. hot' = reload[r].slot /\ cells' = [cells EXCEPT !["auth"] = reload[r].file] /\ file' = file /\ check' = check
      /\ settled' = settled /\ alone' = alone
  BY DEF SwapAuth
<1>7. hook' = IF Held THEN hook ELSE [hook EXCEPT ![hot] = NoHook]
  BY <1>2, <1>6 DEF SwapAuth, Dropped
<1>8. /\ HooksTyped' /\ \A q \in Slots \ {hot} : hook'[q] = hook[q]
      /\ hook'[hot] = IF Held THEN hook[hot] ELSE NoHook
  <2>1. CASE Held
    BY <1>7, <2>1 DEF HooksTyped
  <2>2. CASE ~ Held
    <3>1. hook' = [hook EXCEPT ![hot] = NoHook] /\ hot \in Slots /\ HooksTyped
      BY <1>1, <1>7, <2>2
    <3> HIDE DEF Held
    <3>2. HooksTyped' /\ hook'[hot] = NoHook /\ \A q \in Slots \ {hot} : hook'[q] = hook[q]
      BY <3>1, EmptyFits, HookChanged
    <3> QED BY <2>2, <3>2
  <2> QED BY <2>1, <2>2
<1>9. NoHook.at = "free" /\ NoHook.pending = {}
  BY DEF NoHook
<1>10. StoreInd' /\ RevocationsSeen' /\ ChecksTyped'
  BY ReloadLeaves DEF SwapAuth
<1>11. ReloadsTyped'
  BY <1>2, <1>4, <1>5, <1>6 DEF ReloadsTyped, ReloadSound
<1>12. ReloadsApart'
  <2>1. cells'["auth"] = reload[r].file /\ cells'["ice"] = cells["ice"] /\ cells'["hmac"] = cells["hmac"]
    BY <1>6 DEF ReloadsTyped, Cells
  <2>2. alone # None => r = alone
    BY <1>1 DEF ReloadsApart
  <2>3. alone # None => \A q \in Reloaders : reload'[q].at # "idle" => q = alone
    BY <1>5, <2>2 DEF ReloadsApart
  <2>4. ~ \A q \in Reloaders : reload'[q].at \in {"idle", "build", "auth"}
    BY <1>4, <1>5
  <2> QED BY <1>4, <1>5, <1>6, <2>1, <2>2, <2>3, <2>4 DEF ReloadsApart
<1>13. InstancesHeld'
  <2>1. \A k \in Checkers : check[k].slot # None => check[k].slot \in Slots /\ Alive(check[k].slot)
    BY DEF InstancesHeld, ChecksTyped, CheckStates
  <2>2. \A q \in Reloaders : reload[q].slot # None => reload[q].slot \in Slots \ {hot} /\ Alive(reload[q].slot)
    BY DEF InstancesHeld, ReloadsTyped, ReloadStates
  <2>3. Alive(hot)'
    BY <1>2, <1>6, <1>8 DEF Alive
  <2>4. \A k \in Checkers : check[k].slot # None => hook'[check[k].slot].at # "free"
    BY <1>8, <2>1 DEF Alive
  <2>5. \A q \in Reloaders : reload'[q].slot # None =>
          /\ hook'[reload'[q].slot].at # "free" /\ reload'[q].slot # hot'
          /\ \A k \in Checkers : check[k].slot # reload'[q].slot
          /\ \A s \in Reloaders \ {q} : reload'[s].slot # reload'[q].slot
    <3> SUFFICES ASSUME NEW q \in Reloaders, reload'[q].slot # None
                 PROVE  /\ hook'[reload'[q].slot].at # "free" /\ reload'[q].slot # hot'
                        /\ \A k \in Checkers : check[k].slot # reload'[q].slot
                        /\ \A s \in Reloaders \ {q} : reload'[s].slot # reload'[q].slot
      OBVIOUS
    <3>1. q # r /\ reload'[q] = reload[q]
      BY <1>4, <1>5
    <3> QED BY <1>4, <1>5, <1>6, <1>8, <2>2, <3>1 DEF InstancesHeld, Alive
  <2>6. \A q \in Slots : hook'[q].at # "free" =>
          \/ q = hot'
          \/ \E k \in Checkers : check[k].slot = q
          \/ \E s \in Reloaders : reload'[s].slot = q
    <3> SUFFICES ASSUME NEW q \in Slots, hook'[q].at # "free"
                 PROVE  q = hot' \/ (\E k \in Checkers : check[k].slot = q) \/ \E s \in Reloaders : reload'[s].slot = q
      OBVIOUS
    <3>1. CASE q = hot
      BY <1>8, <1>9, <3>1
    <3>2. CASE q # hot
      <4>1. (\E k \in Checkers : check[k].slot = q) \/ \E s \in Reloaders : reload[s].slot = q
        BY <1>8, <3>2 DEF InstancesHeld, Alive
      <4>2. reload[r].slot = q => q = hot'
        BY <1>6
      <4> QED BY <1>5, <4>1, <4>2
    <3> QED BY <3>1, <3>2
  <2> QED BY <1>6, <2>3, <2>4, <2>5, <2>6 DEF InstancesHeld, Alive
<1>14. KickNotLost'
  <2> SUFFICES ASSUME NEW q \in Slots, hook'[q].pending # {}
               PROVE  hook'[q].at = "awake" \/ hook'[q].permit
                      \/ \E k \in Checkers : check'[k].at = "kick" /\ check'[k].slot = q
    BY DEF KickNotLost
  <2>1. hook'[q] = hook[q]
    BY <1>8, <1>9
  <2> QED BY <1>6, <2>1 DEF KickNotLost
<1> QED BY <1>8, <1>10, <1>11, <1>12, <1>13, <1>14

\* One of the other cells, or the status, is set.
LEMMA CellKeeps ==
  ASSUME ChainInd, NEW r \in Reloaders, NEW c \in Cells, NEW m, ReloadSound(m), m.slot = None,
         reload' = [reload EXCEPT ![r] = m], cells' = [cells EXCEPT ![c] = reload[r].file],
         \/ reload[r].at = "ice" /\ c = "ice" /\ m.at = "hmac" /\ m.file = reload[r].file /\ settled' = settled
         \/ reload[r].at = "hmac" /\ c = "hmac" /\ m.at = "status" /\ m.file = reload[r].file /\ settled' = settled
         \/ reload[r].at = "status" /\ c = "status" /\ m.at = "idle"
            /\ settled' = IF alone = r THEN reload[r].file ELSE None,
         UNCHANGED <<store, hook, hot, file, check, alone>>
  PROVE  ChainInd'
<1> USE DEF ChainInd, HooksInd
<1>1. ReloadSound(reload[r]) /\ reload[r].at # "idle" /\ reload[r].file \in Files /\ reload[r].slot = None
  BY ReloadIs DEF ReloadSound
<1>2. /\ reload' \in [Reloaders -> ReloadStates] /\ \A q \in Reloaders : ReloadSound(reload'[q])
      /\ reload'[r] = m /\ \A q \in Reloaders \ {r} : reload'[q] = reload[q]
  BY ReloadIsSet
<1>3. StoreInd' /\ RevocationsSeen' /\ ChecksTyped'
  BY ReloadLeaves
<1>4. HooksTyped' /\ InstancesHeld' /\ KickNotLost'
  BY <1>1, <1>2, OwnersKeep
<1>5. ReloadsTyped'
  BY <1>1, <1>2 DEF ReloadsTyped, ReloadSound
<1>6. cells'[c] = reload[r].file /\ \A d \in Cells \ {c} : cells'[d] = cells[d]
  BY DEF ReloadsTyped
<1>7. Cells = {"auth", "ice", "hmac", "status"}
  BY DEF Cells
<1>8. alone # None => r = alone /\ \A q \in Reloaders : q # r => reload[q].at = "idle"
  BY <1>1 DEF ReloadsApart
<1>9. alone # None => \A q \in Reloaders : reload'[q].at # "idle" => q = alone
  BY <1>2, <1>8
<1>10. alone # None =>
         /\ reload'[alone].at \in {"ice", "hmac", "status"} => cells'["auth"] = reload'[alone].file
         /\ reload'[alone].at \in {"hmac", "status"} => cells'["ice"] = reload'[alone].file
         /\ reload'[alone].at = "status" => cells'["hmac"] = reload'[alone].file
  BY <1>2, <1>6, <1>7, <1>8 DEF ReloadsApart
<1>11. settled' # None /\ (\A q \in Reloaders : reload'[q].at \in {"idle", "build", "auth"}) =>
         \A d \in Cells : cells'[d] = settled'
  <2>1. CASE c = "status"
    <3>1. ASSUME settled' # None PROVE \A d \in Cells : cells'[d] = settled'
      <4>1. alone = r /\ settled' = reload[r].file /\ reload[r].at = "status"
        BY <2>1, <3>1
      <4>2. alone # None
        BY <4>1, ChainAssumption
      <4> QED BY <1>6, <1>7, <2>1, <4>1, <4>2 DEF ReloadsApart
    <3> QED BY <3>1
  <2>2. CASE c # "status"
    BY <1>2, <2>2
  <2> QED BY <2>1, <2>2
<1>12. ReloadsApart'
  BY <1>9, <1>10, <1>11 DEF ReloadsApart
<1> QED BY <1>3, <1>4, <1>5, <1>12

LEMMA SettingKeeps ==
  ASSUME ChainInd, NEW r \in Reloaders, SwapIce(r) \/ SwapHmac(r) \/ Record(r)
  PROVE  ChainInd'
<1>1. ReloadSound(reload[r]) /\ reload \in [Reloaders -> ReloadStates]
  BY ReloadIs DEF ChainInd, HooksInd, ReloadsTyped
<1>2. CASE SwapIce(r)
  <2> DEFINE m == [reload[r] EXCEPT !.at = "hmac"]
  <2>1. reload' = [reload EXCEPT ![r] = m] /\ reload[r].at = "ice" /\ UNCHANGED <<store, hook, hot, file, check, alone>>
        /\ cells' = [cells EXCEPT !["ice"] = reload[r].file] /\ settled' = settled
    BY <1>1, <1>2 DEF SwapIce
  <2>2. ReloadSound(m) /\ m.slot = None /\ m.at = "hmac" /\ m.file = reload[r].file
    BY <1>1, <2>1 DEF ReloadSound, ReloadStates
  <2> HIDE DEF m
  <2>3. "ice" \in Cells
    BY DEF Cells
  <2> QED BY <2>1, <2>2, <2>3, CellKeeps
<1>3. CASE SwapHmac(r)
  <2> DEFINE m == [reload[r] EXCEPT !.at = "status"]
  <2>1. reload' = [reload EXCEPT ![r] = m] /\ reload[r].at = "hmac" /\ UNCHANGED <<store, hook, hot, file, check, alone>>
        /\ cells' = [cells EXCEPT !["hmac"] = reload[r].file] /\ settled' = settled
    BY <1>1, <1>3 DEF SwapHmac
  <2>2. ReloadSound(m) /\ m.slot = None /\ m.at = "status" /\ m.file = reload[r].file
    BY <1>1, <2>1 DEF ReloadSound, ReloadStates
  <2> HIDE DEF m
  <2>3. "hmac" \in Cells
    BY DEF Cells
  <2> QED BY <2>1, <2>2, <2>3, CellKeeps
<1>4. CASE Record(r)
  <2>1. reload' = [reload EXCEPT ![r] = NoReload] /\ reload[r].at = "status"
        /\ UNCHANGED <<store, hook, hot, file, check, alone>>
        /\ cells' = [cells EXCEPT !["status"] = reload[r].file]
        /\ settled' = IF alone = r THEN reload[r].file ELSE None
    BY <1>4 DEF Record
  <2>2. ReloadSound(NoReload) /\ NoReload.slot = None /\ NoReload.at = "idle"
    BY DEF ReloadSound, ReloadStates, NoReload
  <2>3. "status" \in Cells
    BY DEF Cells
  <2> QED BY <2>1, <2>2, <2>3, CellKeeps
<1> QED BY <1>2, <1>3, <1>4

-----------------------------------------------------------------------------
(* AuthChain: every step.                                                  *)

LEMMA KeysKeep == ASSUME ChainInd, Keys PROVE ChainInd'
<1>1. StoreInd' /\ revoked \subseteq revoked'
  BY StoreStep DEF Keys, ChainInd
<1>2. hook' = hook /\ hot' = hot /\ check' = check /\ UNCHANGED <<reload, cells, file, settled, alone>>
  BY DEF Keys, reloading
<1>3. RevocationsSeen'
  BY <1>1, <1>2 DEF ChainInd, RevocationsSeen
<1>4. ChecksTyped'
  BY <1>2 DEF ChainInd, HooksInd, ChecksTyped
<1>5. HooksTyped' /\ InstancesHeld' /\ KickNotLost'
  BY <1>2, OwnersKeep
<1>6. ReloadsTyped' /\ ReloadsApart'
  BY <1>2, ReloadsKept DEF ChainInd, HooksInd
<1> QED BY <1>1, <1>3, <1>4, <1>5, <1>6 DEF ChainInd, HooksInd

LEMMA HooksKeep == ASSUME ChainInd, Hooks PROVE ChainInd'
<1>1. hot' = hot /\ check' = check /\ reload' = reload /\ UNCHANGED <<reload, cells, file, settled, alone, hot>>
      /\ UNCHANGED <<store, check>>
  BY DEF Hooks, reloading
<1>2. HooksTyped' /\ (\A q \in Slots : Alive(q)' <=> Alive(q)) /\ KickNotLost'
  BY <1>1, FetchKeeps, TickKeeps DEF Hooks, ChainInd
<1>3. StoreInd' /\ RevocationsSeen' /\ ChecksTyped'
  BY <1>1, ReloadLeaves
<1>4. HoldersKept
  BY <1>1, <1>2 DEF HoldersKept
<1>5. InstancesHeld'
  BY <1>4, InstancesKept DEF ChainInd, HooksInd
<1>6. ReloadsTyped' /\ ReloadsApart'
  BY <1>1, ReloadsKept DEF ChainInd, HooksInd
<1> QED BY <1>2, <1>3, <1>5, <1>6 DEF ChainInd, HooksInd

LEMMA ChainStep == ChainInd /\ (ChainNext \/ UNCHANGED chain) => ChainInd'
<1> SUFFICES ASSUME ChainInd, ChainNext \/ UNCHANGED chain PROVE ChainInd'
  OBVIOUS
<1>1. ASSUME NEW k \in Checkers, Check(k) PROVE ChainInd'
  <2>1. ASSUME NEW allow \in BOOLEAN, CheckStatic(k, allow) PROVE ChainInd'
    BY <2>1, FallbackKeeps DEF CheckStatic
  <2> QED BY <1>1, <2>1, CheckTokenKeeps, CheckKeyKeeps, CheckCacheKeeps, CheckQueueKeeps, CheckKickKeeps, ReturnKeeps DEF Check
<1>2. ASSUME NEW k \in Checkers, NEW req \in Requests, Begin(k, req) PROVE ChainInd'
  BY <1>2, BeginKeeps
<1>3. ASSUME NEW r \in Reloaders, Reload(r) PROVE ChainInd'
  BY <1>3, ReadFileKeeps, BuildFailedKeeps, BuildKeeps, SwapAuthKeeps, SettingKeeps DEF Reload
<1>4. ASSUME NEW f \in Files, EditFile(f) PROVE ChainInd'
  BY <1>4, EditFileKeeps
<1>5. CASE UNCHANGED chain
  <2>1. UNCHANGED <<store, check>> /\ hook' = hook /\ hot' = hot /\ reload' = reload
        /\ UNCHANGED <<reload, cells, file, settled, alone, hot>>
    BY <1>5 DEF chain, reloading
  <2>2. StoreInd' /\ RevocationsSeen' /\ ChecksTyped'
    BY <2>1, ReloadLeaves
  <2>3. HooksTyped' /\ InstancesHeld' /\ KickNotLost'
    BY <2>1, OwnersKeep
  <2>4. ReloadsTyped' /\ ReloadsApart'
    BY <2>1, ReloadsKept DEF ChainInd, HooksInd
  <2> QED BY <2>2, <2>3, <2>4 DEF ChainInd, HooksInd
<1>6. CASE ChainNext
  BY <1>1, <1>2, <1>3, <1>4, <1>6, KeysKeep, HooksKeep DEF ChainNext
<1> QED BY <1>5, <1>6

LEMMA ChainBegins == ChainInit => ChainInd
<1> SUFFICES ASSUME ChainInit PROVE ChainInd
  OBVIOUS
<1>1. StoreInd
  BY StoreBegins DEF ChainInit
<1>2. hot \in Slots /\ file \in Files /\ None \notin Slots
  BY ChainAssumption DEF ChainInit
<1>3. check = [k \in Checkers |-> NoCheck] /\ NoCheck \in CheckStates /\ NoCheck.at = "idle" /\ NoCheck.slot = None
      /\ NoCheck.id = None /\ NoCheck.before = {} /\ NoCheck.allow = FALSE
  BY DEF ChainInit, NoCheck, CheckStates
<1>4. RevocationsSeen /\ ChecksTyped
  BY <1>3 DEF RevocationsSeen, ChecksTyped
<1>5. reload = [r \in Reloaders |-> NoReload] /\ NoReload \in ReloadStates /\ NoReload.at = "idle" /\ NoReload.slot = None
  BY DEF ChainInit, NoReload, ReloadStates
<1>6. cells = [c \in Cells |-> file] /\ alone = None /\ settled = file
  BY DEF ChainInit
<1>7. ReloadsTyped /\ ReloadsApart
  BY <1>2, <1>5, <1>6 DEF ReloadsTyped, ReloadsApart
<1>8. \A p \in Slots : hook[p] = IF p = hot THEN NewHook ELSE NoHook
  BY DEF ChainInit
<1>9. NewHook.at = "idle" /\ NoHook.at = "free" /\ NewHook.pending = {} /\ NoHook.pending = {}
  BY DEF NewHook, NoHook
<1>10. HooksTyped
  <2>1. hook = [p \in Slots |-> IF p = hot THEN NewHook ELSE NoHook]
    BY DEF ChainInit
  <2> QED BY <1>8, <2>1, EmptyFits DEF HooksTyped
<1>11. InstancesHeld /\ KickNotLost
  BY <1>2, <1>3, <1>5, <1>8, <1>9 DEF InstancesHeld, KickNotLost, Alive
<1> QED BY <1>1, <1>4, <1>7, <1>10, <1>11 DEF ChainInd, HooksInd

LEMMA ChainIndIsEnough == ChainInd => KeysInv /\ LoneReloadSettles /\ WebhookInv
<1> SUFFICES ASSUME ChainInd PROVE KeysInv /\ LoneReloadSettles /\ WebhookInv
  OBVIOUS
<1> USE DEF ChainInd, HooksInd
<1>1. CurrentTokenWorks
  BY DEF CurrentTokenWorks, StoreInd, HandedOut, CurrentStands, Current, Busy
<1>2. OldTokensEnd
  <2> SUFFICES ASSUME NEW t \in Tokens, NEW i \in Ids, by_token[t] = i, Known(i), ~ Busy(i), i \notin crowded
               PROVE  by_id[i].token = t
    BY DEF OldTokensEnd, StoreInd, HandedOut, StoreTypeOK
  <2> QED BY DEF StoreInd, HandedOut, OldOnesLeave, Current, Busy
<1>3. RevokeIsFinal
  BY DEF RevokeIsFinal, RevocationsSeen
<1>4. LoneReloadSettles
  <2>1. NoReload.at = "idle"
    BY DEF NoReload
  <2> QED BY <2>1 DEF LoneReloadSettles, ReloadsApart
<1>5. OneInstance
  <2>1. NoCheck.slot = None /\ None \notin Slots
    BY ChainAssumption DEF NoCheck
  <2> QED BY <2>1 DEF OneInstance, InstancesHeld, ReloadsTyped
<1>6. HookTypeOK
  <2> SUFFICES ASSUME NEW p \in Slots
               PROVE  /\ hook[p].at \in {"free", "idle", "awake", "post"}
                      /\ hook[p].cache \in [Requests -> [allow : BOOLEAN, left : -1..(AllowTtl + DenyTtl)]]
                      /\ Cardinality(Stored(hook[p].cache)) <= Capacity
                      /\ \A r \in Stored(hook[p].cache) :
                           hook[p].cache[r].left <= (IF hook[p].cache[r].allow THEN AllowTtl ELSE DenyTtl)
                      /\ hook[p].pending \subseteq Requests /\ hook[p].batch \subseteq Requests /\ hook[p].permit \in BOOLEAN
    BY DEF HookTypeOK, Stored
  <2>1. hook[p] \in HookStates /\ Fits(hook[p].cache)
    BY DEF HooksTyped
  <2> QED BY <2>1 DEF HookStates, Caches, Fits
<1>7. ChainTypeOK
  <2>1. \A k \in Checkers : check[k].at \in {"idle", "token", "key", "fallback", "queue", "kick", "done"}
    BY DEF ChecksTyped, CheckStates
  <2>2. \A r \in Reloaders : reload[r].at \in {"idle", "build", "auth", "ice", "hmac", "status"}
    BY DEF ReloadsTyped, ReloadStates
  <2> QED BY <1>6, <2>1, <2>2 DEF ChainTypeOK, ReloadsTyped, InstancesHeld, StoreInd, HandedOut
<1> QED BY <1>1, <1>2, <1>3, <1>4, <1>5, <1>7 DEF KeysInv, WebhookInv

-----------------------------------------------------------------------------
(* Who is let in.                                                          *)

AccessInd == ChainInd /\ AdminInd /\ GateInd

LEMMA AccessOfThePlane == AccessInd /\ [PlaneNext]_plane => AccessInd'
<1> SUFFICES ASSUME AccessInd, [PlaneNext]_plane PROVE AccessInd'
  OBVIOUS
<1>1. ChainNext \/ UNCHANGED chain
  BY DEF PlaneNext, plane
<1>2. AdminNext \/ UNCHANGED api
  BY DEF PlaneNext, plane
<1>3. GateNext \/ UNCHANGED gate
  BY DEF PlaneNext, plane
<1> QED BY <1>1, <1>2, <1>3, ChainStep, AdminStep, GateStep DEF AccessInd

\* However key requests, checks, reloads, fetches and admin requests overlap: a
\* key opens by the token it shows, and by no other unless two rotations of it
\* have overlapped, a revoked one admits nobody who asks later, the webhook's cache keeps its bounds and every request it has
\* queued, instances that were replaced end with their last user, a reload that
\* runs alone settles every cell, a signature decides alone, the key cache is
\* one the issuer published, and the admin API changes things for admins only
\* and answers truly (lvqr-auth, config_reload.rs, auth_middleware.rs, routes.rs).
THEOREM AccessIsRight == PlaneSpec => []AccessInv
<1>1. PlaneInit => AccessInd
  BY ChainBegins, AdminBegins, GateBegins DEF PlaneInit, AccessInd
<1>2. PlaneSpec => []AccessInd
  BY <1>1, AccessOfThePlane, PTL DEF PlaneSpec
<1>3. AccessInd => AccessInv
  BY ChainIndIsEnough, AdminIndIsEnough DEF AccessInd, AccessInv, GateInd, GateInv
<1> QED BY <1>2, <1>3, PTL
-----------------------------------------------------------------------------
(* The services of a server.                                               *)

ServicesInd == LifeInv /\ AuthFits /\ SignalInd /\ RelayInd /\ FilterInd /\ SpeechInd

LEMMA ServicesOfThePlane == ServicesInd /\ [PlaneNext]_plane => ServicesInd'
<1> SUFFICES ASSUME ServicesInd, [PlaneNext]_plane PROVE ServicesInd'
  OBVIOUS
<1>1. LifeInv' /\ AuthFits'
  <2>1. [LifeNext]_life
    BY DEF PlaneNext, plane
  <2> QED BY <2>1, LifeStep, AuthStep DEF ServicesInd
<1>2. [SignalNext]_signals /\ [RelayNext]_relayed
  BY DEF PlaneNext, plane
<1>3. [FilterNext]_filter /\ [SpeechNext]_speech
  BY DEF PlaneNext, plane
<1> QED BY <1>1, <1>2, <1>3, SignalProceeds, RelayProceeds, FilterProceeds, SpeechProceeds DEF ServicesInd

\* For any flags and any number of connections, through every failure of a boot
\* step, of a listener or of the whole, and every restart: nobody is let in before
\* the consumers, the operator's stop of a listener stops that one, shutdown and a
\* failed start leave nothing behind, and server-info reports the mode of the
\* provider in force unless the configuration file sets a strategy of its own or
\* replaces a supplied provider, neither of which it looks at.  The table of the signalling server leads to no session
\* that has ended, what waits for a client is for its id and in order, whoever
\* stays is told who left, and the relay's gauge and its calls to the mesh count
\* each connection once.  The chain of filters runs the file as it is once its
\* reloader has nothing to do, the reloader's thread ends when it is dropped, and
\* the counters of slots and taps tell one story.  The captions agent ends with
\* every frame it accepted spent, and its captions are in order and on a track
\* that is listed (lib.rs, lvqr-signal, lvqr-relay, lvqr-wasm, lvqr-agent-whisper).
THEOREM ServicesSound == PlaneSpec => []ServicesInv
<1>0. LifeInit => AuthFits
  BY DEF LifeInit, AuthFits
<1>1. PlaneInit => ServicesInd
  BY <1>0, LifeBegins, SignalBegins, RelayBegins, FilterBegins, SpeechBegins DEF PlaneInit, ServicesInd
<1>2. PlaneSpec => []ServicesInd
  BY <1>1, ServicesOfThePlane, PTL DEF PlaneSpec
<1>3. ServicesInd => ServicesInv
  BY LifeInvIsEnough, RoutingIsRight, FilterIsRight, SpeechIndIsEnough DEF ServicesInd, ServicesInv
<1> QED BY <1>2, <1>3, PTL
=============================================================================
