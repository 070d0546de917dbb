---------------------------- MODULE HlsPlaylist ----------------------------
(***************************************************************************)
(* One LL-HLS rendition: the playlist builder of                           *)
(* crates/lvqr-hls/src/manifest.rs, the byte cache and blocking reloads    *)
(* that crates/lvqr-hls/src/server.rs keeps around it, the drain tasks of  *)
(* crates/lvqr-cli/src/hls.rs that feed it and the bus subscriber of       *)
(* crates/lvqr-cli/src/lib.rs that finalises it.                           *)
(*                                                                         *)
(* MultiHlsServer keeps the rendition of a name for ever, so a publisher   *)
(* that comes back writes into the playlist its predecessor left, and may  *)
(* do so while the predecessor's drain still has fragments to deliver.     *)
(* Every operation changes the builder under its lock, releases it, and    *)
(* only then updates the cache, in steps other tasks come between.         *)
(*                                                                         *)
(* A part is named <<s, i>> (part-s-i.m4s), a segment <<s>> (seg-s.m4s),   *)
(* and the bytes of either by the chunks they are made of.  Chunk n of a   *)
(* publication has the decode time n: timestamps restart with every        *)
(* publication, as those of the RTMP bridge do.                            *)
(***************************************************************************)
EXTENDS Integers, Sequences, SequencesExt, FiniteSets

CONSTANTS
  Pubs,         \* publications of the name, 1..n in the order they start
  Chunks,       \* bound: chunks of one publication
  Total,        \* bound: chunks of all publications together
  Durations,    \* durations a chunk may have
  MaxInits,     \* bound: init segments of one publication
  SegmentTicks, \* CmafPolicy.segment_duration
  MaxSegments,  \* PlaylistBuilderConfig.max_segments
  Clients,      \* players that reload the playlist, each once
  Bus           \* the task that finalises

ASSUME HlsAssumption ==
  /\ {Chunks, Total, MaxInits, SegmentTicks} \subseteq Nat \ {0}
  /\ MaxSegments \in Nat \ {0}   \* a DVR window of at least one segment
  /\ Durations \subseteq Nat
  /\ Pubs \subseteq Nat /\ IsFiniteSet(Pubs) /\ Bus \notin Pubs

VARIABLES
  segs,     \* manifest.segments
  pend,     \* pending_parts, also manifest.preliminary_parts
  next,     \* next_sequence
  index,    \* part_index
  last,     \* last_dts, -1 for None
  mark,     \* pending_discontinuity
  ended,    \* manifest.ended
  cache,    \* URI -> chunks of the body
  init,     \* init_segment: <<publication, version>>, <<>> for None
  phase,    \* publication -> "new", "live" or "over"
  drain,    \* publication -> state of its drain task
  stops,    \* BroadcastStopped events the bus task has not taken yet
  job,      \* task -> what its operation still has to do
  reload    \* client -> state of its request

builder == <<segs, pend, next, index, last, mark, ended>>
source == <<phase, drain, stops>>
vars == <<builder, cache, init, source, job, reload>>

Tasks == Pubs \cup {Bus}
Idle == [at |-> "idle", part |-> <<>>, work |-> {}, evicted |-> {}]
NoRequest == [at |-> "idle", msn |-> 0, part |-> -1]

Init ==
  /\ segs = <<>> /\ pend = <<>> /\ next = 0 /\ index = 0
  /\ last = -1 /\ mark = FALSE /\ ended = FALSE
  /\ cache = <<>> /\ init = <<>>
  /\ phase = [p \in Pubs |-> "new"]
  /\ drain = [p \in Pubs |-> [init |-> 0, read |-> 0, start |-> -1]]
  /\ stops = 0
  /\ job = [t \in Tasks |-> Idle]
  /\ reload = [c \in Clients |-> NoRequest]
-----------------------------------------------------------------------------
(* The builder, under its write lock. *)

SegUri(s) == <<s>>
UrisOf(seg) == {SegUri(seg.seq)} \cup {q.uri : q \in ToSet(seg.parts)}

\* mutant: one segment too many
EvictedOffByOne(all, over) == UNION {UrisOf(all[k]) : k \in 1..(over + 1)}

\* the URIs of the overflow that is drained from the front
Evicted(all, over) == UNION {UrisOf(all[k]) : k \in 1..over}

\* close_pending_segment
Closed(b) ==
  LET all == Append(b.segs, [seq |-> b.next, parts |-> b.pend, disc |-> b.mark])
      over == IF Len(all) > MaxSegments THEN Len(all) - MaxSegments ELSE 0
  IN IF b.pend = <<>> THEN b
     ELSE [segs |-> SubSeq(all, over + 1, Len(all)), pend |-> <<>>,
           next |-> b.next + 1, index |-> 0, mark |-> FALSE,
           evicted |-> Evicted(all, over)]

Now == [segs |-> segs, pend |-> pend, next |-> next, index |-> index,
        mark |-> mark, evicted |-> {}]

Become(b) ==
  /\ segs' = b.segs /\ pend' = b.pend /\ next' = b.next
  /\ index' = b.index /\ mark' = b.mark

\* collect_coalesce_work: the segments with a sequence past the old tail, of
\* which an operation makes at most one
CoalesceWork(old, new) == {g \in ToSet(new) : old = <<>> \/ g.seq > old[Len(old)].seq}

\* CmafPolicyState::step, whether the chunk starts a segment
StartsSegment(p, key) ==
  \/ drain[p].start = -1
  \/ key /\ drain[p].read - drain[p].start >= SegmentTicks
-----------------------------------------------------------------------------
(* The publisher and the drain it feeds. *)

Publish(p) ==
  /\ phase[p] = "new"
  /\ \A o \in Pubs : o < p => phase[o] = "over"
  /\ phase' = [phase EXCEPT ![p] = "live"]
  /\ UNCHANGED <<builder, cache, init, drain, stops, job, reload>>

\* mutant: a second disconnect is announced again
UnpublishAgain(p) ==
  /\ phase[p] # "new"
  /\ phase' = [phase EXCEPT ![p] = "over"]
  /\ stops' = stops + 1
  /\ UNCHANGED <<builder, cache, init, drain, job, reload>>

Unpublish(p) ==
  /\ phase[p] = "live"
  /\ phase' = [phase EXCEPT ![p] = "over"]
  /\ stops' = stops + 1
  /\ UNCHANGED <<builder, cache, init, drain, job, reload>>

\* a fragment is at hand; the old drain may have a backlog after Unpublish
HasFragment(p) ==
  /\ phase[p] # "new" /\ job[p].at = "idle"
  /\ drain[p].read < Chunks /\ FoldFunction(LAMBDA d, n : d.read + n, 0, drain) < Total

At(t, where) == job' = [job EXCEPT ![t].at = where]

\* refresh_meta shows an init the drain has not seen: the publication's first,
\* or another one.  push_init has three lock sections: was there one, store
\* it, mark.
InitRead(p) ==
  /\ HasFragment(p) /\ drain[p].init < MaxInits
  /\ drain' = [drain EXCEPT ![p].init = @ + 1, ![p].start = -1]
  /\ At(p, IF init = <<>> THEN "first" ELSE "again")
  /\ UNCHANGED <<builder, cache, init, phase, stops, reload>>

Woken(c) == IF reload[c].at = "asleep" THEN [reload[c] EXCEPT !.at = "check"]
            ELSE reload[c]
NotifyWaiters == reload' = [c \in Clients |-> Woken(c)]

InitWrite(p) ==
  /\ job[p].at \in {"first", "again"}
  /\ init' = <<p, drain[p].init>>
  /\ IF job[p].at = "first" THEN At(p, "push") /\ NotifyWaiters
                            ELSE At(p, "mark") /\ UNCHANGED reload
  /\ UNCHANGED <<builder, cache, source>>

InitMark(p) ==
  /\ job[p].at = "mark"
  /\ mark' = TRUE
  /\ At(p, "push")
  /\ NotifyWaiters
  /\ UNCHANGED <<segs, pend, next, index, last, ended, cache, init, source>>

\* A fragment is pushed whether or not an init segment was seen before it.
Ready(p) == HasFragment(p) \/ job[p].at = "push"

\* step of the policy, before the push that may refuse the chunk
Read(p, key) ==
  drain' = [drain EXCEPT ![p].read = @ + 1,
              ![p].start = IF StartsSegment(p, key) THEN drain[p].read ELSE @]

\* push: a zero duration or a decode time behind the last one
Refuse(p, key, dur) ==
  /\ Ready(p)
  /\ dur = 0 \/ drain[p].read < last
  /\ Read(p, key)
  /\ At(p, "idle")
  /\ UNCHANGED <<builder, cache, init, phase, stops, reload>>

\* the part is named, then the previous segment closed, then the part added
Accept(p, key, named) ==
  /\ LET part == [uri |-> <<next, index>>, dts |-> drain[p].read,
                  from |-> <<p, drain[p].init>>]
         b == IF StartsSegment(p, key) THEN Closed(named) ELSE named
     IN /\ Become([b EXCEPT !.pend = Append(@, part)])
        /\ job' = [job EXCEPT ![p] = [at |-> "insert", part |-> part,
                      work |-> CoalesceWork(segs, b.segs), evicted |-> b.evicted]]
  /\ last' = drain[p].read
  /\ Read(p, key)
  /\ UNCHANGED <<ended, cache, init, phase, stops, reload>>

\* mutant: part_index is not advanced
PushSameIndex(p, key, dur) ==
  Ready(p) /\ dur > 0 /\ drain[p].read >= last /\ Accept(p, key, Now)

\* mutant: the decode time is not compared with the last one
PushAnyOrder(p, key, dur) ==
  Ready(p) /\ dur > 0 /\ Accept(p, key, [Now EXCEPT !.index = @ + 1])

\* push_chunk_bytes up to the release of the lock; push does not look at ended
Push(p, key, dur) ==
  /\ Ready(p)
  /\ dur > 0 /\ drain[p].read >= last
  /\ Accept(p, key, [Now EXCEPT !.index = @ + 1])

\* The operation goes on with its job, or is over and wakes the reloads; an
\* empty list of work or of evicted URIs takes no lock.
GoOn(t, j) ==
  LET at == IF j.at = "coalesce" /\ j.work = {} THEN "purge" ELSE j.at
      over == at = "purge" /\ j.evicted = {}
  IN /\ job' = [job EXCEPT ![t] = IF over THEN Idle ELSE [j EXCEPT !.at = at]]
     /\ IF over THEN NotifyWaiters ELSE UNCHANGED reload

\* finalize, from the bus task's arm for BroadcastStopped
Finalize ==
  /\ stops > 0 /\ job[Bus].at = "idle"
  /\ stops' = stops - 1
  /\ LET b == Closed(Now)
     IN /\ Become(b)
        /\ GoOn(Bus, [at |-> "coalesce", part |-> <<>>,
                      work |-> CoalesceWork(segs, b.segs), evicted |-> b.evicted])
  /\ ended' = TRUE
  /\ UNCHANGED <<last, cache, init, phase, drain>>
-----------------------------------------------------------------------------
(* The cache, after the builder's lock is released. *)

Put(f, u, body) == [x \in DOMAIN f \cup {u} |-> IF x = u THEN body ELSE f[x]]

Insert(p) ==
  /\ job[p].at = "insert"
  /\ cache' = Put(cache, job[p].part.uri, <<<<job[p].part.from, job[p].part.dts>>>>)
  /\ GoOn(p, [job[p] EXCEPT !.at = "coalesce", !.part = <<>>])
  /\ UNCHANGED <<builder, init, source>>

\* the bytes of a closed segment: its cached parts, the missing ones skipped
Body(f, seg) ==
  LET buf[k \in 0..Len(seg.parts)] ==
        IF k = 0 THEN <<>>
        ELSE IF seg.parts[k].uri \in DOMAIN f THEN buf[k - 1] \o f[seg.parts[k].uri]
        ELSE buf[k - 1]
  IN buf[Len(seg.parts)]

Coalesced(f, seg) ==
  IF SegUri(seg.seq) \in DOMAIN f \/ Body(f, seg) = <<>>
  THEN f ELSE Put(f, SegUri(seg.seq), Body(f, seg))

Coalesce(t) ==
  /\ job[t].at = "coalesce"
  /\ \E g \in job[t].work : cache' = Coalesced(cache, g)
  /\ GoOn(t, [job[t] EXCEPT !.at = "purge", !.work = {}])
  /\ UNCHANGED <<builder, init, source>>

Purge(t) ==
  /\ job[t].at = "purge"
  /\ cache' = [u \in DOMAIN cache \ job[t].evicted |-> cache[u]]
  /\ GoOn(t, [job[t] EXCEPT !.evicted = {}])
  /\ UNCHANGED <<builder, init, source>>
-----------------------------------------------------------------------------
(* Blocking reload: render_playlist. *)

OpenSeq == IF segs = <<>> THEN 0 ELSE segs[Len(segs)].seq + 1
\* mutant: the part before the one asked for is enough
HasAskedOffByOne(c) ==
  \/ \E k \in DOMAIN segs : segs[k].seq >= reload[c].msn
  \/ reload[c].part # -1 /\ OpenSeq = reload[c].msn /\ Len(pend) >= reload[c].part

HasAsked(c) ==
  \/ \E k \in DOMAIN segs : segs[k].seq >= reload[c].msn
  \/ reload[c].part # -1 /\ OpenSeq = reload[c].msn /\ Len(pend) > reload[c].part

Step(c, where) == reload' = [reload EXCEPT ![c].at = where]
quiet == <<builder, cache, init, source, job>>

\* a player asks for what comes next: a part (_HLS_part) or a whole segment
Ask(c, part) ==
  /\ reload[c].at = "idle"
  /\ reload' = [reload EXCEPT ![c] = [@ EXCEPT !.at = "check", !.msn = OpenSeq,
                   !.part = IF part THEN Len(pend) ELSE -1]]
  /\ UNCHANGED quiet

Check(c) ==
  /\ reload[c].at = "check"
  /\ Step(c, IF HasAsked(c) THEN "render" ELSE "checked")
  /\ UNCHANGED quiet

\* notified() is created after the check: a push in between wakes nobody
Sleep(c) ==
  /\ reload[c].at = "checked"
  /\ Step(c, "asleep")
  /\ UNCHANGED quiet

\* past the deadline the playlist is sent as it is, ready or not
Deadline(c) ==
  /\ reload[c].at = "asleep"
  /\ reload' = [reload EXCEPT ![c] = [NoRequest EXCEPT !.at = "expired"]]
  /\ UNCHANGED quiet

\* the playlist is rendered under a second read lock, and sent
Render(c) ==
  /\ reload[c].at \in {"render", "expired"}
  /\ reload' = [reload EXCEPT ![c] = NoRequest]
  /\ UNCHANGED quiet
-----------------------------------------------------------------------------
Drain(p) ==
  \/ InitRead(p) \/ InitWrite(p) \/ InitMark(p)
  \/ \E key \in BOOLEAN, dur \in Durations : Refuse(p, key, dur) \/ Push(p, key, dur)

\* what an operation does after it released the builder
Cache(t) == (t \in Pubs /\ Insert(t)) \/ Coalesce(t) \/ Purge(t)

Serve(c) == Check(c) \/ Sleep(c) \/ Deadline(c) \/ Render(c)

Next ==
  \/ \E p \in Pubs : Publish(p) \/ Unpublish(p) \/ Drain(p)
  \/ Finalize
  \/ \E t \in Tasks : Cache(t)
  \/ \E c \in Clients : (\E part \in BOOLEAN : Ask(c, part)) \/ Serve(c)

Spec == Init /\ [][Next]_vars
FairSpec ==
  Spec /\ \A c \in Clients : WF_vars(Serve(c))
-----------------------------------------------------------------------------
(* Properties *)

Rows == Append([k \in DOMAIN segs |-> segs[k].parts], pend)
Parts == UNION {ToSet(Rows[k]) : k \in DOMAIN Rows}
PartUris == {q.uri : q \in Parts}
SegUris == {SegUri(g.seq) : g \in ToSet(segs)}
Busy(p) == job[p].at = "insert"

\* The builder, the cache, the tasks and the requests are well-typed.  A chunk
\* that came before any init segment is of version 0.
Inits == Pubs \X (0..MaxInits)
PartType == [uri : Nat \X Nat, dts : 0..Chunks, from : Inits]
SegType == [seq : Nat, parts : Seq(PartType), disc : BOOLEAN]
JobType == [at : {"idle", "first", "again", "mark", "push", "insert", "coalesce", "purge"},
            part : PartType \cup {<<>>}, work : SUBSET SegType, evicted : SUBSET Seq(Nat)]
TypeOK ==
  /\ segs \in Seq(SegType) /\ pend \in Seq(PartType)
  /\ next \in Nat /\ index \in Nat /\ last \in -1..Chunks
  /\ mark \in BOOLEAN /\ ended \in BOOLEAN
  /\ \A u \in DOMAIN cache : u \in Seq(Nat) /\ cache[u] \in Seq(Inits \X (0..Chunks))
  /\ init \in Inits \cup {<<>>}
  /\ phase \in [Pubs -> {"new", "live", "over"}]
  /\ drain \in [Pubs -> [init : 0..MaxInits, read : 0..Chunks, start : -1..Chunks]]
  /\ stops \in 0..Cardinality(Pubs)
  /\ job \in [Tasks -> JobType]
  /\ reload \in [Clients -> [at : {"idle", "check", "checked", "asleep", "render", "expired"},
                             msn : Nat, part : Nat \cup {-1}]]

\* However the two drains and the finaliser interleave, the playlist lists
\* consecutive media sequence numbers up to the one before next_sequence, no
\* more than the window holds, with all its parts in decode order
\* (push refuses what is behind last_dts; close_pending_segment evicts).
WindowInOrder ==
  /\ Len(segs) <= MaxSegments
  /\ \A k \in DOMAIN segs : segs[k].seq = next - Len(segs) + k - 1
  /\ \A j, k \in DOMAIN Rows : j <= k =>
       \A a \in DOMAIN Rows[j], b \in DOMAIN Rows[k] :
         (j < k \/ a <= b) => Rows[j][a].dts <= Rows[k][b].dts

\* The URI the playlist hints at for the next part, and the one the open
\* segment will get, are not in use: not cached, not listed, not in the hands
\* of a task between its lock sections.  A part that opens a segment is named
\* before close_pending_segment resets the index, so this is about the order
\* of the two in push.
NextUriUnused ==
  LET used == DOMAIN cache \cup PartUris \cup SegUris
                \cup {job[p].part.uri : p \in {q \in Pubs : Busy(q)}}
  IN {<<next, index>>, SegUri(next)} \cap used = {}

\* A part the playlist lists can be fetched, and is the chunk that was pushed
\* under that name, or the push that listed it is on its way to the cache:
\* an eviction never takes a listed part, and a finalisation never loses one.
ListedPartServed ==
  \A q \in Parts :
    \/ q.uri \in DOMAIN cache /\ cache[q.uri] = <<<<q.from, q.dts>>>>
    \/ \E p \in Pubs : Busy(p) /\ job[p].part = q

\* What a URI names never changes: its bytes are removed at most, not replaced
\* (a player or a proxy may have fetched them).
BodiesFixed ==
  [][\A u \in DOMAIN cache \cap DOMAIN cache' : cache'[u] = cache[u]]_vars

\* A blocking reload that is answered before its deadline contains the part or
\* the segment it asked for, although the playlist is rendered under another
\* lock than the one it was found ready under and both finalisation and
\* eviction come between.
ReloadNotEarly ==
  [][\A c \in Clients : reload[c].at = "render" /\ reload'[c].at = "idle" =>
       LET msn == reload[c].msn part == reload[c].part
       IN \/ \E g \in ToSet(segs) : g.seq >= msn
          \/ part # -1 /\ next = msn /\ part + 1 \in DOMAIN pend]_vars

\* A parked reload is answered, by a push or at the latest by its deadline:
\* waking before the deadline and finding nothing does not lose the deadline.
ReloadAnswered ==
  \A c \in Clients : reload[c].at = "check" ~> reload[c].at = "idle"

\* Playlist and cache agree: consecutive segments in decode order, every
\* listed part served, no URI given out twice (push, close_pending_segment,
\* push_chunk_bytes, finalize).
PlaylistInv == TypeOK /\ WindowInOrder /\ NextUriUnused /\ ListedPartServed

\* A blocking reload is answered, and not before what it asked for is there
\* or its deadline has passed.
ReloadsServed == ReloadNotEarly /\ ReloadAnswered
=============================================================================
