----------------------------- MODULE AdminFeeds -----------------------------
(***************************************************************************)
(* What the admin API reports: two feeds, then the listings.               *)
(***************************************************************************)
EXTENDS Integers, FiniteSets, FiniteSetsExt, SequencesExt
-----------------------------------------------------------------------------
(***************************************************************************)
(* Two feeds of the admin API.  The latency tracker                        *)
(* (crates/lvqr-admin/src/slo.rs) keeps the newest samples that egress     *)
(* drains and viewers report, and answers percentiles.  The log tail       *)
(* (crates/lvqr-observability/src/log_capture.rs, get_logs in routes.rs)   *)
(* gives a client the newest lines and then the live ones, from a ring and *)
(* a broadcast channel that threads fill while the client attaches.        *)
(***************************************************************************)

CONSTANTS
  SampleCap,     \* MAX_SAMPLES_PER_KEY (1024)
  Latencies,     \* latencies of the samples, the last one above the accepted cap
  MaxLatency,    \* MAX_ACCEPTED_LATENCY_MS
  MaxSamples,    \* bound: samples recorded
  RingCap,       \* ring_capacity of the log
  ChanCap,       \* capacity of the log's broadcast channel
  Writers,       \* threads that log
  MaxLines       \* bound: lines of each thread

ASSUME FeedsAssumption ==
  /\ {SampleCap, RingCap, ChanCap} \subseteq Nat \ {0}
  /\ Latencies \subseteq Nat /\ {MaxLatency, MaxSamples, MaxLines} \subseteq Nat

-----------------------------------------------------------------------------
(* The latency tracker, for one broadcast and transport.                   *)

VARIABLES
  samples,       \* SampleBuffer: samples, next_index, total
  reported       \* history: every sample that was recorded, in order, and who sent it

slo == <<samples, reported>>

SloInit ==
  /\ samples = [kept |-> <<>>, next |-> 0, total |-> 0]
  /\ reported = <<>>

\* mutant: the index does not move on when the ring is full
PushStuck(buffer, ms) ==
  [kept |-> IF Len(buffer.kept) < SampleCap THEN Append(buffer.kept, ms)
            ELSE [buffer.kept EXCEPT ![buffer.next + 1] = ms],
   next |-> buffer.next, total |-> buffer.total + 1]
\* SampleBuffer::push.
PushSample(buffer, ms) ==
  [kept |-> IF Len(buffer.kept) < SampleCap THEN Append(buffer.kept, ms)
            ELSE [buffer.kept EXCEPT ![buffer.next + 1] = ms],
   next |-> IF Len(buffer.kept) < SampleCap THEN buffer.next ELSE (buffer.next + 1) % SampleCap,
   total |-> buffer.total + 1]

\* mutant: a subscriber's token is not checked against the sample's broadcast
AnySubscriber(token) == token # "none"
\* post_client_sample: an admin token, or one that may view this broadcast.
MaySend(token) == token \in {"admin", "subscriber"}

\* mutant: the clock skew is not looked at
AcceptSkewed(ms) == TRUE
\* A latency is refused when the render time lies before the ingest time, or
\* too far after it.
Acceptable(ms) == 0 <= ms /\ ms <= MaxLatency

PostClientSample(token, ms) ==
  /\ samples.total < MaxSamples /\ Acceptable(ms) /\ MaySend(token)
  /\ samples' = PushSample(samples, ms)
  /\ reported' = Append(reported, [ms |-> ms, token |-> token])

\* 400 or 401: nothing is recorded.
SampleRefused(token, ms) == ~(Acceptable(ms) /\ MaySend(token)) /\ UNCHANGED slo

\* LatencyTracker::record by a drain of the server's own.
RecordDelivery(ms) ==
  /\ samples.total < MaxSamples
  /\ samples' = PushSample(samples, ms)
  /\ reported' = Append(reported, [ms |-> ms, token |-> "drain"])

\* mutant: ranks are counted from one
PercentileLate(buffer, q) ==
  LET sorted == SortSeq(buffer.kept, <)
  IN  sorted[(IF (Len(sorted) * q) \div 100 + 2 > Len(sorted) THEN Len(sorted)
              ELSE (Len(sorted) * q) \div 100 + 2)]
\* percentiles: the samples are sorted, and one is picked by its rank.
Percentile(buffer, q) ==
  LET sorted == SortSeq(buffer.kept, <)
      at == (Len(sorted) * q) \div 100
  IN  sorted[(IF at > Len(sorted) - 1 THEN Len(sorted) - 1 ELSE at) + 1]

SloNext ==
  \/ \E t \in {"admin", "subscriber", "other", "none"}, ms \in Latencies \cup {-1} :
       PostClientSample(t, ms) \/ SampleRefused(t, ms)
  \/ \E ms \in Latencies : ms <= MaxLatency /\ RecordDelivery(ms)

\* The tracker holds exactly the newest samples, whichever slot each has:
\* percentiles are over the last SampleCap deliveries and no others.
NewestKept ==
  LET n == Len(reported)
      from == IF n > SampleCap THEN n - SampleCap + 1 ELSE 1
      count(s, ms) == Cardinality({i \in DOMAIN s : s[i] = ms})
      newest == [i \in 1..(n - from + 1) |-> reported[from + i - 1].ms]
  IN  /\ samples.total = n
      /\ \A ms \in Latencies : count(samples.kept, ms) = count(newest, ms)

\* A percentile is a sample that at least its share of the samples do not
\* exceed and more than the rest reach, and percentiles do not cross.
PercentilesRanked ==
  samples.kept # <<>> =>
    /\ \A q \in {50, 95, 99} :
         LET p == Percentile(samples, q)
             n == Len(samples.kept)
         IN  /\ Cardinality({i \in 1..n : samples.kept[i] <= p}) * 100 >= q * n
             /\ Cardinality({i \in 1..n : samples.kept[i] < p}) * 100 <= q * n
    /\ Percentile(samples, 50) <= Percentile(samples, 95)
    /\ Percentile(samples, 95) <= Percentile(samples, 99)

\* Nobody without the admin token or a token for this broadcast adds a sample,
\* and no sample claims a negative latency or one beyond the cap.
SamplesTrusted ==
  \A i \in DOMAIN reported :
    /\ reported[i].token \in {"admin", "subscriber", "drain"}
    /\ reported[i].ms \in 0..MaxLatency

-----------------------------------------------------------------------------
(* The log tail.                                                           *)

VARIABLES
  ring,          \* the newest lines
  sent,          \* lines sent on the channel, in order
  writing,       \* each thread: lines written, and is one in the ring and not yet sent
  tail           \* the client: what it was given, and its place in the channel

logs == <<ring, sent, writing, tail>>

NewTail == [at |-> "none", backlog |-> <<>>, pos |-> 0, live |-> <<>>, lagged |-> 0, before |-> <<>>]

LogsInit ==
  /\ ring = <<>> /\ sent = <<>> /\ tail = NewTail
  /\ writing = [w \in Writers |-> [n |-> 0, sending |-> FALSE]]

\* mutant: the ring keeps its oldest lines
PushFrontKept(w) ==
  /\ ~writing[w].sending /\ writing[w].n < MaxLines
  /\ ring' = IF Len(ring) >= RingCap THEN ring ELSE Append(ring, <<w, writing[w].n + 1>>)
  /\ writing' = [writing EXCEPT ![w] = [n |-> @.n + 1, sending |-> TRUE]]
  /\ UNCHANGED <<sent, tail>>
\* on_event, push: under the ring's lock.
PushRing(w) ==
  /\ ~writing[w].sending /\ writing[w].n < MaxLines
  /\ ring' = Append(IF Len(ring) >= RingCap THEN Tail(ring) ELSE ring, <<w, writing[w].n + 1>>)
  /\ writing' = [writing EXCEPT ![w] = [n |-> @.n + 1, sending |-> TRUE]]
  /\ UNCHANGED <<sent, tail>>

\* push, after the lock: send to the live subscribers.
SendLine(w) ==
  /\ writing[w].sending
  /\ sent' = Append(sent, <<w, writing[w].n>>)
  /\ writing' = [writing EXCEPT ![w].sending = FALSE]
  /\ UNCHANGED <<ring, tail>>

\* get_logs: snapshot.
Snapshot ==
  /\ tail.at = "none"
  /\ tail' = [tail EXCEPT !.at = "read", !.backlog = ring, !.before = sent]
  /\ UNCHANGED <<ring, sent, writing>>

\* mutant: the channel is replayed from where the client never was
SubscribeEarly ==
  /\ tail.at = "read"
  /\ tail' = [tail EXCEPT !.at = "live", !.pos = IF sent = <<>> THEN 0 ELSE Len(sent) - 1]
  /\ UNCHANGED <<ring, sent, writing>>
\* get_logs: subscribe, from this point of the channel on.
Subscribe ==
  /\ tail.at = "read"
  /\ tail' = [tail EXCEPT !.at = "live", !.pos = Len(sent)]
  /\ UNCHANGED <<ring, sent, writing>>

\* The next live line, or the oldest one the channel still has.
NextLine ==
  /\ tail.at = "live" /\ tail.pos < Len(sent)
  /\ LET at == IF Len(sent) - tail.pos > ChanCap THEN Len(sent) - ChanCap + 1 ELSE tail.pos + 1
     IN  tail' = [tail EXCEPT !.live = Append(@, sent[at]), !.pos = at,
                              !.lagged = @ + (at - tail.pos - 1)]
  /\ UNCHANGED <<ring, sent, writing>>

\* The client goes away, and may come back.
Detach == tail.at = "live" /\ tail' = NewTail /\ UNCHANGED <<ring, sent, writing>>

LogsNext ==
  \/ \E w \in Writers : PushRing(w) \/ SendLine(w)
  \/ Snapshot \/ Subscribe \/ NextLine \/ Detach

\* The backlog is the newest lines: one that had been sent before the client
\* came and is missing is older than all the lines of its thread there.
BacklogIsNewest ==
  tail.at # "none" =>
    /\ Len(tail.backlog) <= RingCap
    /\ \A i \in DOMAIN tail.before :
         \/ \E j \in DOMAIN tail.backlog : tail.backlog[j] = tail.before[i]
         \/ /\ Len(tail.backlog) = RingCap
            /\ \A j \in DOMAIN tail.backlog :
                 tail.backlog[j][1] = tail.before[i][1] => tail.backlog[j][2] > tail.before[i][2]

\* A client sees each thread's lines in the order they were written, first in
\* the backlog and then live.  The only line that can come twice is one whose
\* thread was between the ring and the channel when the client attached.
TailInOrder ==
  LET all == tail.backlog \o tail.live
  IN  \A i, j \in DOMAIN all :
        i < j /\ all[i][1] = all[j][1] =>
          \/ all[i][2] < all[j][2]
          \/ i <= Len(tail.backlog) /\ j > Len(tail.backlog)
             /\ ~\E k \in DOMAIN tail.before : tail.before[k] = all[j]

\* A client that is never lagged misses no line sent after it subscribed.
LiveComplete ==
  tail.at = "live" /\ tail.pos = Len(sent) /\ tail.lagged = 0 =>
    \A w \in Writers : \A i \in DOMAIN tail.live :
      \A n \in (tail.live[i][2] + 1)..writing[w].n :
        tail.live[i][1] = w =>
          \/ \E j \in DOMAIN tail.live : tail.live[j] = <<w, n>>
          \/ n = writing[w].n /\ writing[w].sending

\* The latency tracker and the log tail give what their comments promise.
FeedsInv ==
  /\ NewestKept /\ PercentilesRanked /\ SamplesTrusted
  /\ BacklogIsNewest /\ TailInOrder /\ LiveComplete
-----------------------------------------------------------------------------
(***************************************************************************)
(* The listings of the admin API: streams and their tracks, read from the  *)
(* registry in several accesses while publishers come and go               *)
(* (crates/lvqr-cli/src/lib.rs over FragmentBroadcasterRegistry), and the  *)
(* recordings, summed up from the rows of the archive's index.             *)
(***************************************************************************)

CONSTANTS
  Casts,        \* names of broadcasts
  TrackNames,   \* names of tracks
  MaxEmitted,   \* bound: fragments of a track
  MaxRows       \* bound: rows of the archive

ASSUME ViewsAssumption == MaxEmitted \in Nat /\ MaxRows \in Nat

VARIABLES
  entries,      \* the registry: the tracks that are there, with their counters
  detail,       \* the request for one broadcast's detail
  throughout,   \* history: tracks that were there from the request's start on
  rows          \* the archive's index: broadcast, track, start and end of each fragment

views == <<entries, detail, throughout>>

NoDetail == [at |-> "idle", of |-> "none", keys |-> {}, tracks |-> <<>>]

ViewsInit == entries = <<>> /\ detail = NoDetail /\ throughout = {}

RowsInit == rows = {}

-----------------------------------------------------------------------------
(* The registry, as the listings see it.                                   *)

Publish(k) ==
  /\ k \notin DOMAIN entries
  /\ entries' = [x \in DOMAIN entries \cup {k} |-> IF x = k THEN 0 ELSE entries[x]]
  /\ UNCHANGED <<detail, throughout>>

EmitOn(k) ==
  /\ k \in DOMAIN entries /\ entries[k] < MaxEmitted
  /\ entries' = [entries EXCEPT ![k] = @ + 1]
  /\ UNCHANGED <<detail, throughout>>

Unpublish(k) ==
  /\ k \in DOMAIN entries
  /\ entries' = [x \in DOMAIN entries \ {k} |-> entries[x]]
  /\ throughout' = throughout \ {k}
  /\ UNCHANGED detail

\* GET /api/v1/streams: the names, each once.
Streams(keys) == {k[1] : k \in keys}

\* mutant: tracks are counted as publishers
StatsTracks(keys) == [publishers |-> Cardinality(keys), tracks |-> Cardinality(keys)]
\* GET /api/v1/stats.
Stats(keys) == [publishers |-> Cardinality(Streams(keys)), tracks |-> Cardinality(keys)]

\* GET /api/v1/streams/{name}: the keys are listed, and then each is looked up.
AskDetail(b) ==
  /\ detail.at = "idle"
  /\ LET keys == {k \in DOMAIN entries : k[1] = b}
     IN  /\ detail' = [at |-> "look", of |-> b, keys |-> keys, tracks |-> <<>>]
         /\ throughout' = keys
  /\ UNCHANGED entries

\* mutant: a track that is gone ends the listing
LookUpOrStop(k) ==
  /\ detail.at = "look" /\ k \in detail.keys
  /\ detail' = IF k \in DOMAIN entries
               THEN [detail EXCEPT !.keys = @ \ {k},
                                   !.tracks = [x \in DOMAIN @ \cup {k} |-> IF x = k THEN entries[k] ELSE @[x]]]
               ELSE [detail EXCEPT !.keys = {}]
  /\ UNCHANGED <<entries, throughout>>
\* A track that is gone by now is left out.
LookUp(k) ==
  /\ detail.at = "look" /\ k \in detail.keys
  /\ detail' = IF k \in DOMAIN entries
               THEN [detail EXCEPT !.keys = @ \ {k},
                                   !.tracks = [x \in DOMAIN @ \cup {k} |-> IF x = k THEN entries[k] ELSE @[x]]]
               ELSE [detail EXCEPT !.keys = @ \ {k}]
  /\ UNCHANGED <<entries, throughout>>

\* 404 when no track is left.
AnswerDetail ==
  /\ detail.at = "look" /\ detail.keys = {}
  /\ detail' = [detail EXCEPT !.at = IF @ = "look" /\ detail.tracks = <<>> THEN "missing" ELSE "found"]
  /\ UNCHANGED <<entries, throughout>>

EndDetail ==
  /\ detail.at \in {"missing", "found"}
  /\ detail' = NoDetail /\ throughout' = {} /\ UNCHANGED entries

-----------------------------------------------------------------------------
(* The archive.                                                            *)

RecordRow(b, t, start, end) ==
  /\ Cardinality(rows) < MaxRows
  /\ rows' = {r \in rows : ~(r.b = b /\ r.t = t /\ r.start = start)}
             \cup {[b |-> b, t |-> t, start |-> start, end |-> end]}

\* list_summaries: one scan, rows of one track folded into its summary.
Summaries ==
  LET of(b, t) == {r \in rows : r.b = b /\ r.t = t}
  IN  {[b |-> k[1], t |-> k[2], count |-> Cardinality(of(k[1], k[2])),
        first |-> Min({r.start : r \in of(k[1], k[2])}),
        last |-> Max({r.end : r \in of(k[1], k[2])})] : k \in {<<r.b, r.t>> : r \in rows}}

\* mutant: the durations of the tracks are added up
RecordingsAdded ==
  LET of(b) == {s \in Summaries : s.b = b}
  IN  {[b |-> b, count |-> MapThenSumSet(LAMBDA s : s.count, of(b)),
        duration |-> MapThenSumSet(LAMBDA s : s.last - s.first, of(b))] : b \in {s.b : s \in Summaries}}
\* GET /api/v1/archive: the tracks of a broadcast play side by side.
Recordings ==
  LET of(b) == {s \in Summaries : s.b = b}
  IN  {[b |-> b, count |-> MapThenSumSet(LAMBDA s : s.count, of(b)),
        duration |-> Max({s.last - s.first : s \in of(b)})] : b \in {s.b : s \in Summaries}}

ViewsNext ==
  \/ \E k \in Casts \X TrackNames : Publish(k) \/ EmitOn(k) \/ Unpublish(k) \/ LookUp(k)
  \/ \E b \in Casts : AskDetail(b)
  \/ AnswerDetail \/ EndDetail

RowsNext ==
  \/ \E b \in Casts, t \in TrackNames, s \in 0..2 : RecordRow(b, t, s, s + 1)
  \/ Cardinality(rows) = MaxRows /\ rows' = {}    \* another archive

-----------------------------------------------------------------------------
\* A detail lists every track that was there throughout the request and only
\* tracks of its broadcast, with a count between the first and the last; it is
\* refused as unknown only when no track of it stayed.
DetailSound ==
  /\ detail.at = "found" => throughout \subseteq DOMAIN detail.tracks
  /\ detail.at = "missing" => throughout = {}
  /\ \A k \in DOMAIN detail.tracks :
       k[1] = detail.of /\ (k \in throughout => detail.tracks[k] <= entries[k])

\* Statistics and stream list, taken at one moment, agree.
StatsAgree ==
  LET keys == DOMAIN entries
  IN  /\ Stats(keys).publishers = Cardinality({b \in Casts : \E t \in TrackNames : <<b, t>> \in keys})
      /\ Stats(keys).publishers <= Stats(keys).tracks

\* A recording counts every row of its broadcast, and no fragment of it lies
\* outside a track that is at most as long as the recording.
RecordingsSound ==
  /\ MapThenSumSet(LAMBDA r : r.count, Recordings) = Cardinality(rows)
  /\ \A r \in Recordings, x, y \in rows :
       x.b = r.b /\ y.b = r.b /\ x.t = y.t => y.end <= x.start + r.duration
  /\ \A r \in Recordings : \E s \in Summaries : s.b = r.b /\ s.last - s.first = r.duration

\* The listings of the admin API tell what is there.
ViewsInv == DetailSound /\ StatsAgree /\ RecordingsSound
=============================================================================
