-------------------------- MODULE TranscodeLadder ---------------------------
(***************************************************************************)
(* TranscodeRunner (crates/lvqr-transcode/src/runner.rs): a drain task per *)
(* rendition and broadcast, whose output is a broadcast of the same        *)
(* registry, so that its creation calls the runner back.  Renditions are   *)
(* added and removed at run time by one operator.                          *)
(*                                                                         *)
(* A broadcast is a path of rendition names below the one source <<>>; an  *)
(* output extends the path it is made from.  A rendition is one factory    *)
(* here: its video and its audio factory have keys of their own.           *)
(***************************************************************************)
EXTENDS Naturals, Sequences

CONSTANTS
  Renditions,    \* rendition names
  Conventional,  \* those of the form 720p, which every factory takes for an output
  NoRendition,
  MaxPubs,       \* bound: publications of the source
  MaxEdits,      \* bound: renditions added and removed
  MaxDepth       \* bound: renditions of renditions; what is deeper is not registered

ASSUME LadderAssumption ==
  Conventional \subseteq Renditions /\ NoRendition \notin Renditions /\ {MaxPubs, MaxEdits, MaxDepth} \subseteq Nat

VARIABLES
  ladder,       \* RunnerInner.factories
  skip,         \* rendition -> skip_source_suffixes of its factory
  registered,   \* path -> publication registered under it, 0 if none
  pubs,         \* publications of the source so far
  call,         \* path -> the creation callback: where it is, factories left, factory in hand
  slots,        \* RunnerInner.tasks: pairs of rendition and path
  running,      \* drains: rendition, path, publication, has on_start returned,
                \* and was it aborted in the middle of that
  request,      \* the operator's request
  edits,        \* requests so far
  gone          \* history: renditions ever removed

transcode == <<ladder, skip, registered, pubs, call, slots, running, request, edits, gone>>

Paths == UNION {[1..n -> Renditions] : n \in 0..MaxDepth}
Source == <<>>
NoCall == [at |-> "none", todo |-> {}, cur |-> NoRendition]
NoRequest == [at |-> "idle", of |-> NoRendition, paths |-> {}, path |-> Source, pub |-> 0]
Drain(r, p, i, started) ==
  [of |-> r, path |-> p, pub |-> i, started |-> started, aborted |-> FALSE]

LadderInit ==
  /\ ladder \in SUBSET Renditions
  /\ skip = [r \in Renditions |-> ladder]
  /\ registered = [p \in Paths |-> 0] /\ pubs = 0
  /\ call = [p \in Paths |-> NoCall]
  /\ slots = {} /\ running = {}
  /\ request = NoRequest /\ edits = 0 /\ gone = {}

-----------------------------------------------------------------------------
(* The registry: get_or_create with its callback, and remove.              *)

\* A path is registered, and its callback is about to run in the caller.
Register(p, i) ==
  /\ registered' = [registered EXCEPT ![p] = i]
  /\ call' = [call EXCEPT ![p] = [NoCall EXCEPT !.at = "created"]]

PublishSource ==
  /\ registered[Source] = 0 /\ call[Source] = NoCall /\ pubs < MaxPubs
  /\ pubs' = pubs + 1
  /\ Register(Source, pubs + 1)
  /\ UNCHANGED <<ladder, skip, slots, running, request, edits, gone>>

\* Only the publisher of the source removes an entry: outputs stay.
RemoveSource ==
  /\ registered[Source] # 0 /\ call[Source] = NoCall
  /\ registered' = [registered EXCEPT ![Source] = 0]
  /\ UNCHANGED <<ladder, skip, pubs, call, slots, running, request, edits, gone>>

-----------------------------------------------------------------------------
(* spawn_for and the callback.                                             *)

\* mutant: the ladder of the time the factory was made decides
IsOutputFrozen(r, p) == p # Source /\ p[Len(p)] \in Conventional \cup skip[r]

\* The last segment of the path names a rendition of the live ladder, or one
\* that the factory declines.
IsOutput(r, p) == p # Source /\ p[Len(p)] \in ladder \cup Conventional \cup skip[r]

Spawns(r, p) == <<r, p>> \notin slots /\ ~IsOutput(r, p)

\* tasks.entry: spawn only if the slot is still vacant.
Occupy(r, p, i) ==
  IF <<r, p>> \in slots THEN UNCHANGED <<slots, running>>
  ELSE /\ slots' = slots \cup {<<r, p>>}
       /\ running' = running \cup {Drain(r, p, i, FALSE)}

SnapshotLadder(p) ==
  /\ call[p].at = "created"
  /\ call' = [call EXCEPT ![p] = [NoCall EXCEPT !.at = "spawn", !.todo = ladder]]
  /\ UNCHANGED <<ladder, skip, registered, pubs, slots, running, request, edits, gone>>

CallbackTry(p, r) ==
  /\ call[p].at = "spawn" /\ call[p].cur = NoRendition /\ r \in call[p].todo
  /\ call' = [call EXCEPT ![p].todo = @ \ {r},
                          ![p].cur = IF Spawns(r, p) THEN r ELSE NoRendition]
  /\ UNCHANGED <<ladder, skip, registered, pubs, slots, running, request, edits, gone>>

CallbackSpawn(p) ==
  /\ call[p].cur # NoRendition
  /\ Occupy(call[p].cur, p, registered[p])
  /\ call' = [call EXCEPT ![p].cur = NoRendition]
  /\ UNCHANGED <<ladder, skip, registered, pubs, request, edits, gone>>

CallbackReturn(p) ==
  /\ call[p].at = "spawn" /\ call[p].todo = {} /\ call[p].cur = NoRendition
  /\ call' = [call EXCEPT ![p] = NoCall]
  /\ UNCHANGED <<ladder, skip, registered, pubs, slots, running, request, edits, gone>>

-----------------------------------------------------------------------------
(* drive: on_start registers the output, and the drain then runs until its *)
(* source is closed.  Its slot outlives it.                                *)

\* A task aborted meanwhile ends with it.
OnStart(d) ==
  /\ d \in running /\ ~d.started
  /\ running' = (running \ {d}) \cup (IF d.aborted THEN {} ELSE {[d EXCEPT !.started = TRUE]})
  /\ LET out == Append(d.path, d.of) IN
       IF Len(out) <= MaxDepth /\ registered[out] = 0 THEN Register(out, 1) ELSE UNCHANGED <<registered, call>>
  /\ UNCHANGED <<ladder, skip, pubs, slots, request, edits, gone>>

OnStartPanics(d) ==
  /\ d \in running /\ ~d.started
  /\ running' = running \ {d}
  /\ UNCHANGED <<ladder, skip, registered, pubs, call, slots, request, edits, gone>>

\* The registry has let go of the source, and so has add_rendition.
DriveEnds(d) ==
  /\ d \in running /\ d.started /\ registered[d.path] # d.pub
  /\ ~(request.at = "insert" /\ request.path = d.path /\ request.pub = d.pub)
  /\ running' = running \ {d}
  /\ UNCHANGED <<ladder, skip, registered, pubs, call, slots, request, edits, gone>>

-----------------------------------------------------------------------------
(* add_rendition and remove_rendition.                                     *)

\* A rendition of the ladder is refused with 409; a new one is pushed.
AddRendition(r) ==
  /\ request = NoRequest /\ r \notin ladder /\ edits < MaxEdits /\ edits' = edits + 1
  /\ skip' = [skip EXCEPT ![r] = ladder]
  /\ ladder' = ladder \cup {r}
  /\ request' = [NoRequest EXCEPT !.at = "keys", !.of = r]
  /\ UNCHANGED <<registered, pubs, call, slots, running, gone>>

\* mutant: only broadcasts published from now on get the rendition
AddRenditionKeysNone ==
  /\ request.at = "keys"
  /\ request' = [request EXCEPT !.at = "each"]
  /\ UNCHANGED <<ladder, skip, registered, pubs, call, slots, running, edits, gone>>
AddRenditionKeys ==
  /\ request.at = "keys"
  /\ request' = [request EXCEPT !.at = "each", !.paths = {p \in Paths : registered[p] # 0}]
  /\ UNCHANGED <<ladder, skip, registered, pubs, call, slots, running, edits, gone>>

AddRenditionTry(p) ==
  /\ request.at = "each" /\ p \in request.paths
  /\ request' = IF registered[p] # 0 /\ Spawns(request.of, p)
                  THEN [request EXCEPT !.at = "insert", !.paths = @ \ {p}, !.path = p, !.pub = registered[p]]
                  ELSE [request EXCEPT !.paths = @ \ {p}]
  /\ UNCHANGED <<ladder, skip, registered, pubs, call, slots, running, edits, gone>>

AddRenditionSpawn ==
  /\ request.at = "insert"
  /\ Occupy(request.of, request.path, request.pub)
  /\ request' = [request EXCEPT !.at = "each", !.path = Source, !.pub = 0]
  /\ UNCHANGED <<ladder, skip, registered, pubs, call, edits, gone>>

RequestDone ==
  /\ request.at \in {"each", "retain"} /\ request.paths = {}
  /\ request' = NoRequest
  /\ UNCHANGED <<ladder, skip, registered, pubs, call, slots, running, edits, gone>>

RemoveRendition(r) ==
  /\ request = NoRequest /\ r \in ladder /\ edits < MaxEdits /\ edits' = edits + 1
  /\ ladder' = ladder \ {r} /\ gone' = gone \cup {r}
  /\ request' = [NoRequest EXCEPT !.at = "retain", !.of = r, !.paths = Paths]
  /\ UNCHANGED <<skip, registered, pubs, call, slots, running>>

\* The task of one path is aborted and its slot freed.  The abort takes
\* effect at the task's next await: one in the middle of on_start goes on to
\* the end of it; what a drain does to its next await shows nowhere here.
RemoveRenditionTask ==
  /\ request.at = "retain" /\ request.paths # {}
  /\ \E p \in request.paths, starting \in BOOLEAN :
       LET hit == {d \in running : d.of = request.of /\ d.path = p /\ ~d.aborted /\ <<d.of, p>> \in slots}
           goesOn == {d \in hit : starting /\ ~d.started} IN
       /\ request' = [request EXCEPT !.paths = @ \ {p}]
       /\ slots' = slots \ {<<request.of, p>>}
       /\ running' = (running \ hit) \cup {[d EXCEPT !.aborted = TRUE] : d \in goesOn}
  /\ UNCHANGED <<ladder, skip, registered, pubs, call, edits, gone>>

LadderNext ==
  \/ PublishSource \/ RemoveSource
  \/ \E p \in Paths :
       \/ SnapshotLadder(p) \/ CallbackSpawn(p) \/ CallbackReturn(p) \/ AddRenditionTry(p)
       \/ \E r \in Renditions : CallbackTry(p, r)
  \/ \E d \in running : OnStart(d) \/ OnStartPanics(d) \/ DriveEnds(d)
  \/ \E r \in Renditions : AddRendition(r) \/ RemoveRendition(r)
  \/ AddRenditionKeys \/ AddRenditionSpawn \/ RequestDone \/ RemoveRenditionTask

-----------------------------------------------------------------------------
(* Properties.                                                             *)

LadderTypeOK ==
  /\ ladder \subseteq Renditions /\ gone \subseteq Renditions
  /\ skip \in [Renditions -> SUBSET Renditions]
  /\ registered \in [Paths -> 0..MaxPubs] /\ pubs \in 0..MaxPubs /\ edits \in 0..MaxEdits
  /\ call \in [Paths -> [at : {"none", "created", "spawn"}, todo : SUBSET Renditions,
                         cur : Renditions \cup {NoRendition}]]
  /\ slots \subseteq Renditions \X Paths
  /\ running \subseteq [of : Renditions, path : Paths, pub : 1..MaxPubs, started : BOOLEAN,
                aborted : BOOLEAN]
  /\ request.at \in {"idle", "keys", "each", "insert", "retain"}

\* No rendition transcodes the output of another ("Never transcode a transcode
\* OUTPUT"), however requests and callbacks interleave, as long as the other
\* one was never taken off the ladder: then its outputs, which nobody removes,
\* count as sources.
NoSelfFeeding ==
  \A d \in running : d.path = Source \/ d.path[Len(d.path)] \in gone

\* No live source falls between the callback and add_rendition: at rest every
\* rendition of the ladder has its slot on it, be it one that an earlier
\* publication left there.
LadderComplete ==
  request = NoRequest /\ call[Source] = NoCall /\ registered[Source] # 0 =>
    \A r \in ladder : <<r, Source>> \in slots

\* The ladder is well-typed, complete on its source, and never fed with its
\* own outputs (install, add_rendition, remove_rendition).
LadderInv == LadderTypeOK /\ NoSelfFeeding /\ LadderComplete
=============================================================================
