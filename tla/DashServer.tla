----------------------------- MODULE DashServer -----------------------------
(***************************************************************************)
(* DASH output of one track of one broadcast: the drain task that each     *)
(* publication gets (crates/lvqr-dash/src/bridge.rs), which numbers the    *)
(* fragments from 1 after every new init segment, and the per-broadcast    *)
(* server they all write to (server.rs), which outlives them.              *)
(*                                                                         *)
(* A fragment is known by its publication and its place in it; an init     *)
(* segment by its publication and version.  The broadcaster is the one of  *)
(* FragmentBroadcaster, reduced to its newest init and a bounded ring.     *)
(***************************************************************************)
EXTENDS Naturals

CONSTANTS
  Runs,         \* publications, a range 1..n
  MaxInit,      \* bound: init segments of a publication
  MaxEmitted,   \* bound: fragments of a publication
  Ring          \* capacity of the broadcaster

ASSUME DashAssumption == Runs \subseteq Nat \ {0} /\ {MaxInit, MaxEmitted, Ring} \subseteq Nat \ {0}

VARIABLES
  caster,      \* publication -> its broadcaster: open, version of its init, fragments emitted
  feeder,      \* publication -> its drain: at, position read, counter, last init pushed, init in hand
  shown,       \* TrackState: init, segments by number, latest_seq
  stopped,     \* BroadcastStopped events the finalize task has not received
  finalized,   \* is the manifest static
  overtaken    \* history: a drain pushed after a later publication's had

dash == <<caster, feeder, shown, stopped, finalized, overtaken>>

NoInit == <<0, 0>>
Inits == {NoInit} \cup (Runs \X (1..MaxInit))
NoFeeder == [at |-> "none", pos |-> 0, seq |-> 0, last |-> NoInit, hand |-> NoInit]
NoCaster == [open |-> FALSE, init |-> 0, emitted |-> 0]

DashInit ==
  /\ caster = [p \in Runs |-> NoCaster] /\ feeder = [p \in Runs |-> NoFeeder]
  /\ shown = [init |-> NoInit, segments |-> <<>>, latest |-> 0]
  /\ stopped = 0 /\ finalized = FALSE /\ overtaken = FALSE

-----------------------------------------------------------------------------
(* The publisher, and the registry's callback that spawns the drain.       *)

DashPublish(p) ==
  /\ caster[p] = NoCaster /\ feeder[p] = NoFeeder
  /\ \A o \in Runs : o < p => ~caster[o].open /\ feeder[o] # NoFeeder
  /\ caster' = [caster EXCEPT ![p].open = TRUE]
  /\ feeder' = [feeder EXCEPT ![p].at = "wait"]
  /\ UNCHANGED <<shown, stopped, finalized, overtaken>>

SetInit(p) ==
  /\ caster[p].open /\ caster[p].init < MaxInit
  /\ caster' = [caster EXCEPT ![p].init = @ + 1]
  /\ UNCHANGED <<feeder, shown, stopped, finalized, overtaken>>

DashEmit(p) ==
  /\ caster[p].open /\ caster[p].init > 0 /\ caster[p].emitted < MaxEmitted
  /\ caster' = [caster EXCEPT ![p].emitted = @ + 1]
  /\ UNCHANGED <<feeder, shown, stopped, finalized, overtaken>>

DashUnpublish(p) ==
  /\ caster[p].open
  /\ caster' = [caster EXCEPT ![p].open = FALSE]
  /\ stopped' = stopped + 1
  /\ UNCHANGED <<feeder, shown, finalized, overtaken>>

-----------------------------------------------------------------------------
(* drain.                                                                  *)

\* The next fragment the ring still holds.
NextIn(p) == LET c == caster[p].emitted - feeder[p].pos
             IN feeder[p].pos + 1 + (IF c > Ring THEN c - Ring ELSE 0)

\* One fragment is received; then the newest init is read.
TakeFragment(p) ==
  /\ feeder[p].at = "wait" /\ feeder[p].pos < caster[p].emitted
  /\ feeder' = [feeder EXCEPT ![p].pos = NextIn(p), ![p].hand = <<p, caster[p].init>>,
                  ![p].at = IF feeder[p].last = <<p, caster[p].init>> THEN "segment" ELSE "init"]
  /\ UNCHANGED <<caster, shown, stopped, finalized, overtaken>>

Late(p) == \E o \in Runs : o > p /\ feeder[o].last # NoInit

\* mutant: the counter goes on
PushInitCounting(p) ==
  /\ feeder[p].at = "init"
  /\ shown' = [shown EXCEPT !.init = feeder[p].hand]
  /\ feeder' = [feeder EXCEPT ![p].last = feeder[p].hand, ![p].at = "segment"]
  /\ overtaken' = (overtaken \/ Late(p))
  /\ UNCHANGED <<caster, stopped, finalized>>
\* push_video_init, and the counter starts again.
PushInit(p) ==
  /\ feeder[p].at = "init"
  /\ shown' = [shown EXCEPT !.init = feeder[p].hand]
  /\ feeder' = [feeder EXCEPT ![p].last = feeder[p].hand, ![p].seq = 0, ![p].at = "segment"]
  /\ overtaken' = (overtaken \/ Late(p))
  /\ UNCHANGED <<caster, stopped, finalized>>

Segment(p) == [run |-> p, frag |-> feeder[p].pos, init |-> feeder[p].last]
Insert(n, s) == [m \in (DOMAIN shown.segments) \cup {n} |-> IF m = n THEN s ELSE shown.segments[m]]

\* mutant: the newest number is the last one pushed
PushSegmentLast(p) ==
  /\ feeder[p].at = "segment"
  /\ LET n == feeder[p].seq + 1 IN
       /\ shown' = [shown EXCEPT !.segments = Insert(n, Segment(p)), !.latest = n]
       /\ feeder' = [feeder EXCEPT ![p].seq = n, ![p].at = "wait"]
  /\ overtaken' = (overtaken \/ Late(p))
  /\ UNCHANGED <<caster, stopped, finalized>>
\* push_video_segment under the next number.
PushSegment(p) ==
  /\ feeder[p].at = "segment"
  /\ LET n == feeder[p].seq + 1 IN
       /\ shown' = [shown EXCEPT !.segments = Insert(n, Segment(p)), !.latest = IF n > @ THEN n ELSE @]
       /\ feeder' = [feeder EXCEPT ![p].seq = n, ![p].at = "wait"]
  /\ overtaken' = (overtaken \/ Late(p))
  /\ UNCHANGED <<caster, stopped, finalized>>

\* The producers are gone and the ring is empty.
DrainCloses(p) ==
  /\ feeder[p].at = "wait" /\ ~caster[p].open /\ feeder[p].pos = caster[p].emitted
  /\ feeder' = [feeder EXCEPT ![p].at = "ended"]
  /\ UNCHANGED <<caster, shown, stopped, finalized, overtaken>>

\* finalize_broadcast: for good, also if the name is live again.
Finalize ==
  /\ stopped > 0
  /\ stopped' = stopped - 1 /\ finalized' = TRUE
  /\ UNCHANGED <<caster, feeder, shown, overtaken>>

DashNext ==
  \/ Finalize
  \/ \E p \in Runs :
       \/ DashPublish(p) \/ SetInit(p) \/ DashEmit(p) \/ DashUnpublish(p)
       \/ TakeFragment(p) \/ PushInit(p) \/ PushSegment(p) \/ DrainCloses(p)

-----------------------------------------------------------------------------
(* Properties.                                                             *)

DashTypeOK ==
  /\ caster \in [Runs -> [open : BOOLEAN, init : 0..MaxInit, emitted : 0..MaxEmitted]]
  /\ feeder \in [Runs -> [at : {"none", "wait", "init", "segment", "ended"}, pos : 0..MaxEmitted,
                          seq : 0..MaxEmitted, last : Inits, hand : Inits \cup (Runs \X {0})]]
  /\ shown.init \in Inits /\ shown.latest \in 0..MaxEmitted
  /\ finalized \in BOOLEAN

\* The segments are numbered 1..latest_seq without a gap ($Number$ in the
\* manifest's SegmentTemplate), through lag, new init segments, and drains of
\* two publications at once.
NumbersContiguous == DOMAIN shown.segments = 1..shown.latest

\* What the newest publication has pushed since its last init segment is what
\* is served under that init, from number 1 on and in order ("a client polling
\* the MPD sees $Number$ restart from 1 off the fresh init segment"), unless a
\* drain of an earlier publication pushed after it had begun.
NewestRunServed ==
  \A p \in Runs :
    feeder[p].at = "wait" /\ feeder[p].last # NoInit /\ ~overtaken /\ ~Late(p) =>
      /\ shown.init = feeder[p].last
      /\ \A n \in 1..feeder[p].seq :
           /\ shown.segments[n].init = feeder[p].last
           /\ n > 1 => shown.segments[n].frag > shown.segments[n - 1].frag

\* The numbered segments have no gap and are those of the newest publication,
\* although drains of two publications write one server.
DashInv == DashTypeOK /\ NumbersContiguous /\ NewestRunServed
=============================================================================
