---------------------------- MODULE DashManifest ----------------------------
(***************************************************************************)
(* The calendar of the manifests of LVQR, and the manifest over DASH.      *)
(***************************************************************************)
EXTENDS Naturals, FiniteSets, Sequences, SequencesExt
-----------------------------------------------------------------------------
(***************************************************************************)
(* Calendar dates from day numbers, as the manifests of LVQR print them:   *)
(* the algorithm of crates/lvqr-hls/src/subtitles.rs, of which manifest.rs *)
(* and crates/lvqr-dash/src/mpd.rs hold copies, and the calendar it is     *)
(* meant to compute.  A moment is a day since 1970-01-01 and a millisecond *)
(* of that day.                                                            *)
(***************************************************************************)

\* mutant: January and February stay in the year that began in March
CivilNoCarry(days) ==
  LET z == days + 719468
      era == z \div 146097
      doe == z % 146097
      yoe == (doe - doe \div 1460 + doe \div 36524 - doe \div 146096) \div 365
      doy == doe - (365 * yoe + yoe \div 4 - yoe \div 100)
      mp == (5 * doy + 2) \div 153
  IN [year |-> yoe + era * 400, month |-> IF mp < 10 THEN mp + 3 ELSE mp - 9,
      day |-> doy - (153 * mp + 2) \div 5 + 1]
\* days_since_epoch_to_ymd: years are counted from March, so that the leap
\* day is the last of its year.
Civil(days) ==
  LET z == days + 719468
      era == z \div 146097
      doe == z % 146097
      yoe == (doe - doe \div 1460 + doe \div 36524 - doe \div 146096) \div 365
      doy == doe - (365 * yoe + yoe \div 4 - yoe \div 100)
      mp == (5 * doy + 2) \div 153
      m == IF mp < 10 THEN mp + 3 ELSE mp - 9
  IN [year |-> yoe + era * 400 + (IF m <= 2 THEN 1 ELSE 0), month |-> m,
      day |-> doy - (153 * mp + 2) \div 5 + 1]

\* format_iso8601_utc, as the fields it prints.
Iso8601(moment) ==
  LET s == moment[2] \div 1000 IN
    [date |-> Civil(moment[1]), hour |-> s \div 3600, minute |-> (s % 3600) \div 60,
     second |-> s % 60, milli |-> moment[2] % 1000]

-----------------------------------------------------------------------------
(* The calendar.                                                           *)

Leap(y) == y % 4 = 0 /\ (y % 100 # 0 \/ y % 400 = 0)
MonthDays(y) == <<31, IF Leap(y) THEN 29 ELSE 28, 31, 30, 31, 30, 31, 31, 30, 31, 30, 31>>
Leaps(y) == y \div 4 - y \div 100 + y \div 400

\* Days from 1970-01-01 to the date.
DayNumber(date) ==
  365 * (date.year - 1970) + (Leaps(date.year - 1) - Leaps(1969))
    + FoldLeft(+, 0, SubSeq(MonthDays(date.year), 1, date.month - 1)) + date.day - 1

\* The text names the moment, and no other could print it.
Names(text, moment) ==
  /\ text.date.month \in 1..12 /\ text.date.day \in 1..MonthDays(text.date.year)[text.date.month]
  /\ DayNumber(text.date) = moment[1]
  /\ 3600000 * text.hour + 60000 * text.minute + 1000 * text.second + text.milli = moment[2]
-----------------------------------------------------------------------------
(***************************************************************************)
(* The manifest of one broadcast over DASH (crates/lvqr-dash/src/server.rs *)
(* and mpd.rs): what the drains of its two tracks and the splice bridge    *)
(* (crates/lvqr-cli/src/scte35_bridge.rs) leave in the server, and what a  *)
(* request reads of it, one lock after the other.  The bridge also feeds   *)
(* the date ranges of the HLS playlist, which are here beside it.          *)
(*                                                                         *)
(* DashServer models the numbered segments; here a track has some or none. *)
(* A URI is a tuple, a splice section its event id (0 for none) and time.  *)
(***************************************************************************)

CONSTANTS
  Days, DayMillis,   \* the moments the clock can show
  MaxInits,          \* bound: init segments a track is given
  EventIds,          \* event ids of splice sections, 0 for none
  MaxSections        \* bound: sections decoded

ASSUME ManifestAssumption ==
  /\ Days \subseteq Nat /\ DayMillis \subseteq 0..86399999 /\ EventIds \subseteq Nat
  /\ {MaxInits, MaxSections} \subseteq Nat \ {0}

VARIABLES
  clock,      \* the wall clock
  server,     \* the entry of the broadcast in MultiDashState.broadcasts, or NoServer
  pusher,     \* track -> its drain inside a push: at, the clock it read, what it pushes, inits so far
  splices,    \* the bridge: sections decoded, the one not yet forwarded to DASH
  dates,      \* the date ranges of the HLS playlist
  page,       \* a request: at, what it has read
  answers     \* history: anchors of the dynamic manifests answered

manifest == <<clock, server, pusher, splices, dates, page, answers>>

Tracks == {"video", "audio"}
Moments == Days \X DayMillis
Before(a, b) == a[1] < b[1] \/ (a[1] = b[1] /\ a[2] < b[2])
Unset == <<>>

NoServer == [none |-> TRUE]
TrackState == [init |-> FALSE, codec |-> "none", any |-> FALSE]
NewDashServer == [video |-> TrackState, audio |-> TrackState, events |-> <<>>,
                  finalized |-> FALSE, start |-> Unset]
IdlePusher == [at |-> "none", read |-> Unset, what |-> "init", inits |-> 0]
NoPage == [at |-> "idle", video |-> TrackState, audio |-> TrackState]

ManifestInit ==
  /\ clock \in {m \in Moments : \A o \in Moments : ~Before(o, m)}
  /\ server = NoServer /\ dates = <<>> /\ page = NoPage
  /\ pusher = [t \in Tracks |-> IdlePusher]
  /\ splices = [done |-> <<>>, hand |-> <<>>]
  /\ answers = {}

ClockTick ==
  /\ \E m \in Moments : Before(clock, m) /\ clock' = m
  /\ UNCHANGED <<server, pusher, splices, dates, page, answers>>

-----------------------------------------------------------------------------
(* The drains of the two tracks.                                           *)

Ensured == IF server = NoServer THEN NewDashServer ELSE server

\* The registry's callback: ensure, and a drain.
SpawnDrain(t) ==
  /\ pusher[t].at = "none"
  /\ server' = Ensured
  /\ pusher' = [pusher EXCEPT ![t].at = "idle"]
  /\ UNCHANGED <<clock, splices, dates, page, answers>>

\* ensure_started, the load: the clock is read when no anchor is seen.  A
\* drain pushes an init segment before its first fragment.
ensure_started(t) ==
  /\ pusher[t].at = "idle"
  /\ \E w \in {"init", "strange", "segment"} :
       /\ w = "segment" => pusher[t].inits > 0
       /\ w # "segment" => pusher[t].inits < MaxInits
       /\ pusher' = [pusher EXCEPT ![t] =
            [at |-> IF server.start = Unset THEN "anchor" ELSE "store",
             read |-> IF server.start = Unset THEN clock ELSE Unset,
             what |-> w, inits |-> @.inits + (IF w = "segment" THEN 0 ELSE 1)]]
  /\ UNCHANGED <<clock, server, splices, dates, page, answers>>

\* mutant: the anchor is stored, not exchanged
AnchorStore(t) ==
  /\ pusher[t].at = "anchor"
  /\ server' = [server EXCEPT !.start = pusher[t].read]
  /\ pusher' = [pusher EXCEPT ![t].at = "store", ![t].read = Unset]
  /\ UNCHANGED <<clock, splices, dates, page, answers>>
\* ensure_started, compare_exchange: the first caller wins.
Anchor(t) ==
  /\ pusher[t].at = "anchor"
  /\ server' = [server EXCEPT !.start = IF @ = Unset THEN pusher[t].read ELSE @]
  /\ pusher' = [pusher EXCEPT ![t].at = "store", ![t].read = Unset]
  /\ UNCHANGED <<clock, splices, dates, page, answers>>

\* push_video_init: the codec of an init segment may not be recognised.
InitPushed(s, w) == [s EXCEPT !.init = TRUE, !.codec = IF w = "init" THEN "detected" ELSE "none"]

\* push_video_segment.
SegmentPushed(s) == [s EXCEPT !.any = TRUE]

\* The track's lock.
StorePushed(t) ==
  /\ pusher[t].at = "store"
  /\ server' = [server EXCEPT ![t] = IF pusher[t].what = "segment" THEN SegmentPushed(@)
                                     ELSE InitPushed(@, pusher[t].what)]
  /\ pusher' = [pusher EXCEPT ![t].at = "idle", ![t].what = "init"]
  /\ UNCHANGED <<clock, splices, dates, page, answers>>

\* finalize_broadcast.
FinalizeDash ==
  /\ server # NoServer
  /\ server' = [server EXCEPT !.finalized = TRUE]
  /\ UNCHANGED <<clock, pusher, splices, dates, page, answers>>

-----------------------------------------------------------------------------
(* The splice bridge.                                                      *)

Sections == [id : EventIds, pts : 1..MaxSections, out : BOOLEAN]

\* A date range is known by the event id, or without one by its time, and
\* by the attribute it is printed as.
DateRange(s) == [id |-> IF s.id # 0 THEN <<"splice", s.id>> ELSE <<"pts", s.pts>>,
                 kind |-> IF s.out THEN "SCTE35-OUT" ELSE "SCTE35-IN"]
HasDate(d) == \E i \in 1..Len(dates) : dates[i].id = d.id /\ dates[i].kind = d.kind

\* drain: a section that parses becomes a date range, unless that is listed;
\* one that does not is counted and dropped.
PushDateRange ==
  /\ splices.hand = <<>> /\ Len(splices.done) < MaxSections
  /\ \E s \in {x \in Sections : x.pts = Len(splices.done) + 1} :
       /\ splices' = [done |-> Append(splices.done, s), hand |-> <<s>>]
       /\ dates' = IF HasDate(DateRange(s)) THEN dates ELSE Append(dates, DateRange(s))
  /\ UNCHANGED <<clock, server, pusher, page, answers>>

DashEvent(s) == [id |-> s.id, at |-> s.pts, out |-> s.out]

\* mutant: an event is appended also when its id is listed
PushEventTwice ==
  /\ splices.hand # <<>>
  /\ server' = [Ensured EXCEPT !.events = Append(@, DashEvent(splices.hand[1]))]
  /\ splices' = [splices EXCEPT !.hand = <<>>]
  /\ UNCHANGED <<clock, pusher, dates, page, answers>>
\* push_event: the newest section with an id takes the place of the others.
PushEvent ==
  /\ splices.hand # <<>>
  /\ LET e == DashEvent(splices.hand[1]) IN
       server' = [Ensured EXCEPT !.events =
         IF \E i \in 1..Len(@) : @[i].id = e.id
         THEN [i \in 1..Len(@) |-> IF @[i].id = e.id THEN e ELSE @[i]]
         ELSE Append(@, e)]
  /\ splices' = [splices EXCEPT !.hand = <<>>]
  /\ UNCHANGED <<clock, pusher, dates, page, answers>>

-----------------------------------------------------------------------------
(* The manifest, and the requests.                                         *)

SegmentTemplate(t) == [initialization |-> <<"init", t>>, media |-> <<"seg", t>>, startNumber |-> 1]
Representation(t, s) ==
  [id |-> t, codecs |-> IF s.codec = "none" THEN <<"fallback", t>> ELSE <<s.codec, t>>,
   sized |-> t = "video", sampled |-> t = "audio"]
AdaptationSet(t, s) ==
  [id |-> IF t = "video" THEN 0 ELSE 1, contentType |-> t,
   representations |-> <<Representation(t, s)>>, template |-> SegmentTemplate(t)]
EventStreams(events) ==
  IF events = <<>> THEN <<>>
  ELSE <<[scheme |-> "urn:scte:scte35:2014:xml+bin", timescale |-> 90000, events |-> events]>>
Period(streams, sets) == [start |-> 0, eventStreams |-> streams, adaptationSets |-> sets]

\* Mpd::render fails when something that must not be empty is.
render(m) ==
  IF m.periods # <<>> /\ \A i \in 1..Len(m.periods) :
       /\ m.periods[i].adaptationSets # <<>>
       /\ \A j \in 1..Len(m.periods[i].adaptationSets) :
            m.periods[i].adaptationSets[j].representations # <<>>
  THEN m ELSE NoServer

HasState(s) == s.init \/ s.any

\* The Mpd of what was read; a static one carries no times.
Mpd(video, audio) ==
  [type |-> IF server.finalized THEN "static" ELSE "dynamic",
   updates |-> ~server.finalized,
   start |-> IF server.finalized THEN Unset ELSE server.start,
   published |-> IF server.finalized THEN Unset ELSE <<Iso8601(clock)>>,
   periods |-> <<Period(EventStreams(server.events),
                   <<AdaptationSet("video", video)>>
                     \o (IF HasState(audio) THEN <<AdaptationSet("audio", audio)>> ELSE <<>>))>>]

\* render_manifest, the video lock: nothing is listed before there is video.
AskManifest ==
  /\ page.at = "idle" /\ server # NoServer
  /\ page' = IF HasState(server.video) THEN [page EXCEPT !.at = "audio", !.video = server.video] ELSE NoPage
  /\ UNCHANGED <<clock, server, pusher, splices, dates, answers>>

\* render_manifest, the audio lock.
ReadAudio ==
  /\ page.at = "audio"
  /\ page' = [page EXCEPT !.at = "render", !.audio = server.audio]
  /\ UNCHANGED <<clock, server, pusher, splices, dates, answers>>

Made == render(Mpd(page.video, page.audio))

\* render_manifest, the flags, the anchor, the clock and the events.
Answer ==
  /\ page.at = "render"
  /\ answers' = answers \cup (IF Made.type = "dynamic" THEN {Made.start} ELSE {})
  /\ page' = NoPage
  /\ UNCHANGED <<clock, server, pusher, splices, dates>>

\* What the router answers for a URI of a manifest.  A name that is not in
\* the map is redirected when a peer is known to own it.
handle_init(t) == IF server[t].init THEN 200 ELSE 404
serve_segment(t) == IF server[t].any THEN 200 ELSE 404
handle_multi_get(uri, owner) ==
  IF server = NoServer THEN (IF owner THEN 302 ELSE 404)
  ELSE IF uri[1] = "init" THEN handle_init(uri[2]) ELSE serve_segment(uri[2])

ManifestNext ==
  \/ ClockTick \/ FinalizeDash \/ PushDateRange \/ PushEvent
  \/ AskManifest \/ ReadAudio \/ Answer
  \/ \E t \in Tracks : SpawnDrain(t) \/ ensure_started(t) \/ Anchor(t) \/ StorePushed(t)

-----------------------------------------------------------------------------
(* Properties.                                                             *)

\* All dynamic manifests of a broadcast carry one availabilityStartTime,
\* although two drains race to set it and requests read while they do.
AnchorFixed == Cardinality(answers) <= 1 /\ Unset \notin answers

\* A manifest is complete when it is answered: the init segment of every track
\* it lists is served, and its clock names the moment it was made.
ManifestSound ==
  page.at = "render" =>
    /\ Made # NoServer
    /\ \A i \in 1..Len(Made.periods[1].adaptationSets), owner \in BOOLEAN :
         LET t == Made.periods[1].adaptationSets[i].template IN
           /\ handle_multi_get(t.initialization, owner) = 200
           /\ server[t.media[2]].any => handle_multi_get(t.media, owner) = 200
    /\ Made.type = "dynamic" => Names(Made.published[1], clock)

\* A section with an event id is on both outputs once, in the manifest as it
\* was last sent; one without is in the playlist by its time, while the
\* manifest keeps the last of them only.
SplicesListed ==
  LET seen == {splices.done[i] : i \in 1..(Len(splices.done) - Len(splices.hand))}
      Newest(id) == CHOOSE s \in seen : s.id = id /\ \A o \in seen : o.id = id => o.pts <= s.pts
  IN /\ \A s \in seen : HasDate(DateRange(s))
     /\ \A i, j \in 1..Len(dates) : dates[i].id = dates[j].id /\ dates[i].kind = dates[j].kind => i = j
     /\ seen # {} =>
          /\ {server.events[i] : i \in 1..Len(server.events)} = {DashEvent(Newest(s.id)) : s \in seen}
          /\ Len(server.events) = Cardinality({s.id : s \in seen})

\* The manifests of a broadcast agree on their time origin, list what is
\* served, and carry the splice events that were sent.
MpdInv == AnchorFixed /\ ManifestSound /\ SplicesListed
=============================================================================
