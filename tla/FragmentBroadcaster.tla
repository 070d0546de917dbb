------------------------ MODULE FragmentBroadcaster -------------------------
(***************************************************************************)
(* One FragmentBroadcaster: the single-track, many-subscriber fan-out that *)
(* every ingest protocol emits into and every egress drains                *)
(* (crates/lvqr-fragment/src/broadcaster.rs).                              *)
(*                                                                         *)
(* The tokio broadcast channel behind it is external and modelled from how *)
(* the code uses it: a send with no receiver is refused, a receiver starts *)
(* at the current tail, a receiver more than Capacity behind is told       *)
(* Lagged(n) and moved to the oldest retained fragment, and Closed is      *)
(* reported once every Sender is gone and the receiver has caught up.      *)
(***************************************************************************)
EXTENDS Integers, FiniteSets

CONSTANTS
  Producers,  \* holders of a producer-side clone of the broadcaster
  Subs,       \* subscriber identities; each subscribes at most once
  Capacity,   \* ring capacity after `capacity.max(1)`
  MaxEmit,    \* bound: calls to emit
  MaxMeta     \* bound: metadata updates

ASSUME ConstAssumption ==
  /\ Producers # {}
  /\ Capacity \in Nat \ {0}
  /\ MaxEmit \in Nat
  /\ MaxMeta \in Nat

VARIABLES
  handles,       \* live producer-side clones; each owns a Sender
  emitting,      \* producers between the emitted count and the send
  emitted,       \* Shared.emitted
  lagged_skips,  \* Shared.lagged_skips
  meta,          \* Shared.meta, as the number of updates applied to it
  tail,          \* fragments the channel accepted
  st,            \* subscriber: off, rx (receiver made), on, done, gone
  next,          \* Receiver.next: channel position the subscriber is at
  snap,          \* BroadcasterStream.meta, the local metadata snapshot
  joined,        \* history: tail when the receiver was made
  base,          \* history: metadata in force when the receiver was made
  delivered,     \* history: fragments next_fragment returned
  skipped        \* history: fragments this subscriber was told it lost

chan == <<handles, emitting, emitted, meta, tail>>
subv == <<st, next, snap, joined, base, delivered, skipped>>
vars == <<chan, lagged_skips, subv>>

-----------------------------------------------------------------------------
Init ==
  /\ \E p \in Producers : handles = {p}
  /\ emitting = {}
  /\ emitted = 0
  /\ lagged_skips = 0
  /\ meta = 0
  /\ tail = 0
  /\ st = [s \in Subs |-> "off"]
  /\ next = [s \in Subs |-> 0]
  /\ snap = [s \in Subs |-> 0]
  /\ joined = [s \in Subs |-> 0]
  /\ base = [s \in Subs |-> 0]
  /\ delivered = [s \in Subs |-> 0]
  /\ skipped = [s \in Subs |-> 0]

\* Receivers the channel counts: made and not dropped.
receivers == {s \in Subs : st[s] \in {"rx", "on", "done"}}

-----------------------------------------------------------------------------
(* Producer side.                                                          *)

\* emit, first half: the relaxed fetch_add on the emitted counter.
EmitCount(p) ==
  /\ p \in handles \ emitting
  /\ emitted < MaxEmit
  /\ emitted' = emitted + 1
  /\ emitting' = emitting \cup {p}
  /\ UNCHANGED <<handles, meta, tail, lagged_skips, subv>>

\* emit, second half: send; with no receiver the fragment is discarded.
EmitSend(p) ==
  /\ p \in emitting
  /\ emitting' = emitting \ {p}
  /\ tail' = IF receivers = {} THEN tail ELSE tail + 1
  /\ UNCHANGED <<handles, emitted, meta, lagged_skips, subv>>

\* set_init_segment and replace_meta: one write under the metadata lock.
UpdateMeta(p) ==
  /\ p \in handles \ emitting
  /\ meta < MaxMeta
  /\ meta' = meta + 1
  /\ UNCHANGED <<handles, emitting, emitted, tail, lagged_skips, subv>>

CloneHandle(p, q) ==
  /\ p \in handles /\ q \notin handles
  /\ handles' = handles \cup {q}
  /\ UNCHANGED <<emitting, emitted, meta, tail, lagged_skips, subv>>

\* Mutant: the handle may go away in the middle of its own emit.
DropHandleMidEmit(p) ==
  /\ p \in handles
  /\ handles' = handles \ {p}
  /\ UNCHANGED <<emitting, emitted, meta, tail, lagged_skips, subv>>

DropHandle(p) ==
  /\ p \in handles \ emitting
  /\ handles' = handles \ {p}
  /\ UNCHANGED <<emitting, emitted, meta, tail, lagged_skips, subv>>

-----------------------------------------------------------------------------
(* Subscriber side.                                                        *)

\* Mutant: a new receiver replays what the ring still retains.
SubscribeRxReplay(s) ==
  /\ handles # {} /\ st[s] = "off"
  /\ LET oldest == IF tail > Capacity THEN tail - Capacity ELSE 0 IN
       /\ next' = [next EXCEPT ![s] = oldest]
       /\ joined' = [joined EXCEPT ![s] = oldest]
  /\ st' = [st EXCEPT ![s] = "rx"]
  /\ base' = [base EXCEPT ![s] = meta]
  /\ UNCHANGED <<chan, lagged_skips, snap, delivered, skipped>>

\* subscribe, first half: tx.subscribe() through a live handle.
SubscribeRx(s) ==
  /\ handles # {} /\ st[s] = "off"
  /\ st' = [st EXCEPT ![s] = "rx"]
  /\ next' = [next EXCEPT ![s] = tail]
  /\ joined' = [joined EXCEPT ![s] = tail]
  /\ base' = [base EXCEPT ![s] = meta]
  /\ UNCHANGED <<chan, lagged_skips, snap, delivered, skipped>>

\* Mutant: the stream starts with empty metadata instead of a snapshot.
SubscribeMetaNone(s) ==
  /\ st[s] = "rx"
  /\ st' = [st EXCEPT ![s] = "on"]
  /\ UNCHANGED <<chan, lagged_skips, next, snap, joined, base, delivered, skipped>>

\* subscribe, second half: read_meta after the receiver exists.
SubscribeMeta(s) ==
  /\ st[s] = "rx"
  /\ st' = [st EXCEPT ![s] = "on"]
  /\ snap' = [snap EXCEPT ![s] = meta]
  /\ UNCHANGED <<chan, lagged_skips, next, joined, base, delivered, skipped>>

refresh_meta(s) ==
  /\ st[s] = "on"
  /\ snap' = [snap EXCEPT ![s] = meta]
  /\ UNCHANGED <<chan, lagged_skips, st, next, joined, base, delivered, skipped>>

\* next_fragment: the receiver's slot is still retained.
RecvOk(s) ==
  /\ st[s] = "on"
  /\ next[s] < tail /\ tail - next[s] <= Capacity
  /\ next' = [next EXCEPT ![s] = @ + 1]
  /\ delivered' = [delivered EXCEPT ![s] = @ + 1]
  /\ UNCHANGED <<chan, lagged_skips, st, snap, joined, base, skipped>>

\* Mutant: the reported loss is one too many.
RecvLaggedOverCount(s) ==
  /\ st[s] = "on"
  /\ tail - next[s] > Capacity
  /\ LET lost == (tail - Capacity) - next[s] + 1 IN
       /\ next' = [next EXCEPT ![s] = tail - Capacity]
       /\ skipped' = [skipped EXCEPT ![s] = @ + lost]
       /\ lagged_skips' = lagged_skips + lost
  /\ UNCHANGED <<chan, st, snap, joined, base, delivered>>

\* Mutant: lagged_skips counts Lagged events, not the fragments they report.
RecvLaggedCountEvents(s) ==
  /\ st[s] = "on"
  /\ tail - next[s] > Capacity
  /\ LET lost == (tail - Capacity) - next[s] IN
       /\ next' = [next EXCEPT ![s] = tail - Capacity]
       /\ skipped' = [skipped EXCEPT ![s] = @ + lost]
       /\ lagged_skips' = lagged_skips + 1
  /\ UNCHANGED <<chan, st, snap, joined, base, delivered>>

\* Mutant: a lagged receiver is moved one past the oldest retained fragment.
RecvLaggedTooFar(s) ==
  /\ st[s] = "on"
  /\ tail - next[s] > Capacity
  /\ LET lost == (tail - Capacity + 1) - next[s] IN
       /\ next' = [next EXCEPT ![s] = tail - Capacity + 1]
       /\ skipped' = [skipped EXCEPT ![s] = @ + lost]
       /\ lagged_skips' = lagged_skips + lost
  /\ UNCHANGED <<chan, st, snap, joined, base, delivered>>

\* next_fragment: Lagged(skipped) counts the loss and goes round the loop.
RecvLagged(s) ==
  /\ st[s] = "on"
  /\ tail - next[s] > Capacity
  /\ LET lost == (tail - Capacity) - next[s] IN
       /\ next' = [next EXCEPT ![s] = tail - Capacity]
       /\ skipped' = [skipped EXCEPT ![s] = @ + lost]
       /\ lagged_skips' = lagged_skips + lost
  /\ UNCHANGED <<chan, st, snap, joined, base, delivered>>

\* Mutant: the end is reported as soon as the producers are gone.
RecvClosedEarly(s) ==
  /\ st[s] = "on"
  /\ handles = {}
  /\ st' = [st EXCEPT ![s] = "done"]
  /\ UNCHANGED <<chan, lagged_skips, next, snap, joined, base, delivered, skipped>>

\* Mutant: each stream keeps the Sender alive through its shared state.
RecvClosedLeak(s) ==
  /\ st[s] = "on"
  /\ next[s] = tail /\ handles = {} /\ receivers = {}
  /\ st' = [st EXCEPT ![s] = "done"]
  /\ UNCHANGED <<chan, lagged_skips, next, snap, joined, base, delivered, skipped>>

\* next_fragment: Closed, only when caught up and every Sender is gone.
RecvClosed(s) ==
  /\ st[s] = "on"
  /\ next[s] = tail /\ handles = {}
  /\ st' = [st EXCEPT ![s] = "done"]
  /\ UNCHANGED <<chan, lagged_skips, next, snap, joined, base, delivered, skipped>>

DropStream(s) ==
  /\ st[s] \in {"on", "done"}
  /\ st' = [st EXCEPT ![s] = "gone"]
  /\ UNCHANGED <<chan, lagged_skips, next, snap, joined, base, delivered, skipped>>

next_fragment(s) == RecvOk(s) \/ RecvLagged(s) \/ RecvClosed(s)

Next ==
  \/ \E p \in Producers :
       \/ EmitCount(p) \/ EmitSend(p) \/ UpdateMeta(p) \/ DropHandle(p)
       \/ \E q \in Producers : CloneHandle(p, q)
  \/ \E s \in Subs :
       SubscribeRx(s) \/ SubscribeMeta(s) \/ refresh_meta(s)
         \/ next_fragment(s) \/ DropStream(s)

Spec == Init /\ [][Next]_vars

\* A drain loop keeps polling its stream, and a constructor runs to its end;
\* nothing obliges a publisher to emit or to disconnect.
Fairness ==
  \A s \in Subs : WF_vars(next_fragment(s)) /\ WF_vars(SubscribeMeta(s))

FairSpec == Spec /\ Fairness

-----------------------------------------------------------------------------
(* Properties.                                                             *)

\* Type invariant of the broadcaster and its streams.
TypeOK ==
  /\ handles \subseteq Producers
  /\ emitting \subseteq handles
  /\ emitted \in Nat /\ lagged_skips \in Nat /\ meta \in Nat /\ tail \in Nat
  /\ st \in [Subs -> {"off", "rx", "on", "done", "gone"}]
  /\ next \in [Subs -> Nat] /\ snap \in [Subs -> Nat]
  /\ joined \in [Subs -> Nat] /\ base \in [Subs -> Nat]
  /\ delivered \in [Subs -> Nat] /\ skipped \in [Subs -> Nat]

\* Every fragment accepted since a subscriber joined is delivered to it,
\* counted as skipped by it, or still ahead of it (module doc: "will deliver
\* every fragment emitted from this call forward", minus counted lag skips).
EveryFragmentAccounted ==
  \A s \in Subs :
    /\ next[s] = joined[s] + delivered[s] + skipped[s]
    /\ next[s] <= tail

\* No loss goes uncounted: the shared lagged_skips counter holds at least what
\* each subscriber has lost, in fragments and not in events (lagged_skips():
\* "Total lag-skips observed across all live subscribers").
LossCounted == \A s \in Subs : skipped[s] <= lagged_skips

\* A subscriber loses fragments only when it really is a whole ring behind:
\* one that has lost something has had, or still can have, at least Capacity
\* fragments of the ring.
LossLeavesAFullRing ==
  \A s \in Subs :
    st[s] = "on" /\ skipped[s] > 0 => delivered[s] + (tail - next[s]) >= Capacity

\* End of stream is never early: a stream that returned None had read up to
\* the last accepted fragment, and no producer handle exists any more.
EndIsComplete ==
  \A s \in Subs : st[s] = "done" => next[s] = tail /\ handles = {}

\* What a subscriber may rely on, whoever else lags, joins or leaves: every
\* fragment is accounted for, loss is counted and never larger than the ring
\* forces, and the end of the stream comes last (next_fragment).
Delivery == EveryFragmentAccounted /\ LossCounted /\ LossLeavesAFullRing /\ EndIsComplete

\* The snapshot taken by subscribe is at least as new as the metadata in
\* force when the receiver was made: the receiver is created first and the
\* metadata read second, so an init segment bound before is never missed.
SnapshotCoversJoin ==
  \A s \in Subs : st[s] \in {"on", "done"} => snap[s] >= base[s]

\* Once every producer-side clone is dropped, every open stream ends.
StreamsEnd ==
  \A s \in Subs : (handles = {} /\ st[s] = "on") ~> st[s] # "on"

\* The broadcaster implements its contract: ring, counters and reference
\* counts collapse to positions and an open flag.
phaseBar == [s \in Subs |-> IF st[s] \in {"rx", "on"} THEN "on"
                            ELSE IF st[s] = "done" THEN "ended" ELSE st[s]]
openBar == handles # {}

Contract == INSTANCE FanoutContract WITH
  open <- openBar, sent <- tail, phase <- phaseBar, pos <- next, lost <- skipped

ContractSpec == Contract!CSpec
=============================================================================
