-------------------------- MODULE MeshCoordinator --------------------------
(***************************************************************************)
(* The relay tree planner of crates/lvqr-mesh/src/coordinator.rs and the   *)
(* three callers of it in crates/lvqr-cli: the WebSocket relay session     *)
(* (ws.rs; the MoQ connection callback has the same shape), the signalling *)
(* session (lvqr-signal/src/signaling.rs with the callback of lib.rs) and  *)
(* the dead-peer reaper.  Each caller is a process; the tree is a          *)
(* concurrent map that it locks one entry at a time, so every access to    *)
(* the map is a step of its own.  An iteration over the whole map is one   *)
(* step.                                                                   *)
(***************************************************************************)
EXTENDS Integers, FiniteSets, Sequences

CONSTANTS
  WsSessions,     \* WebSocket relay sessions; each has its own peer id
  SigSessions,    \* signalling sessions; the client chooses the peer id
  ClientIds,      \* peer ids clients make up for themselves
  Reaper,         \* the dead-peer reaper
  Nil,
  MaxChildren, RootPeerCount, MaxDepth,   \* MeshConfig
  Reported,       \* the capacities a client may report
  MaxConnects,    \* bound: connections, when operations do not overlap
  MaxRacing       \* bound: connections, when two operations may overlap

ASSUME MeshAssumption ==
  /\ {MaxChildren, RootPeerCount, MaxDepth, MaxConnects, MaxRacing} \subseteq Nat
  /\ Reported \subseteq Nat \cup {Nil} /\ Nil \notin Nat

\* The id of a relay session is its own: a client may take up one it has been
\* told, but does not make up one that a session will have.
ASSUME MeshNames ==
  /\ WsSessions \cap SigSessions = {} /\ WsSessions \cap ClientIds = {}
  /\ Reaper \notin WsSessions \cup SigSessions
  /\ Nil \notin WsSessions \cup ClientIds

Sessions == WsSessions \cup SigSessions
Procs == Sessions \cup {Reaper}
Peers == WsSessions \cup ClientIds

VARIABLES
  tree,        \* MeshCoordinator.peers: a PeerInfo, or Nil
  stale,       \* peers whose last_heartbeat is older than the timeout
  registered,  \* SignalServer.peers
  proc,        \* what each process is doing, with its locals
  connected,   \* the relay sessions that have been opened
  connects,    \* connections made so far
  limit        \* operations that may overlap in this behaviour: 1 or 2

meshVars == <<tree, stale, registered, proc, connected, connects, limit>>

PeerInfo(role, parent, depth, capacity) ==
  [role |-> role, parent |-> parent, children |-> <<>>, depth |-> depth,
   capacity |-> capacity]

Off == [pc |-> "off", id |-> Nil, cap |-> Nil, parent |-> Nil, depth |-> 0,
        left |-> <<>>, todo |-> <<>>, dead |-> {}]

MeshInit ==
  /\ tree = [p \in Peers |-> Nil]
  /\ stale = {} /\ registered = {}
  /\ proc = [s \in Procs |-> Off]
  /\ connected = {} /\ connects = 0
  /\ limit \in {1, 2}

Present(p) == p # Nil /\ tree[p] # Nil
Busy(s) == proc[s].pc \notin {"off", "open"}
MayStart == Cardinality({s \in Procs : Busy(s)}) < limit
MayConnect == MayStart /\ connects < (IF limit = 1 THEN MaxConnects ELSE MaxRacing)

\* Vec::retain and Vec::push on the children of an entry, if it is there.
Without(children, id) ==
  LET kept[n \in 0..Len(children)] ==
        IF n = 0 THEN <<>>
        ELSE IF children[n] = id THEN kept[n - 1] ELSE Append(kept[n - 1], children[n])
  IN  kept[Len(children)]
Retain(t, q, id) ==
  IF q # Nil /\ t[q] # Nil THEN [t EXCEPT ![q].children = Without(@, id)] ELSE t
Push(t, q, id) ==
  IF t[q] # Nil THEN [t EXCEPT ![q].children = Append(@, id)] ELSE t

-----------------------------------------------------------------------------
(* find_best_parent and the capacity rules of tree.rs.                     *)

EffectiveCapacity(p) ==
  IF tree[p].capacity = Nil \/ tree[p].capacity > MaxChildren
    THEN MaxChildren ELSE tree[p].capacity

\* Mutant: one child too many.
CanAcceptChildLoose(p) == Len(tree[p].children) <= EffectiveCapacity(p)

CanAcceptChild(p) == Len(tree[p].children) < EffectiveCapacity(p)

Candidates ==
  {p \in Peers : Present(p) /\ CanAcceptChild(p) /\ tree[p].depth < MaxDepth}

\* q is shallower, or as deep with fewer children.
Better(q, p) ==
  \/ tree[q].depth < tree[p].depth
  \/ tree[q].depth = tree[p].depth /\ Len(tree[q].children) < Len(tree[p].children)

\* The choice among equals is the map's iteration order.
BestParents == {p \in Candidates : \A q \in Candidates : ~Better(q, p)}

-----------------------------------------------------------------------------
(* add_peer.                                                               *)

\* A relay session whose add_peer failed goes on without a peer id; a
\* signalling session keeps the id it registered.
Unplaced(s) == [Off EXCEPT !.pc = "open",
                           !.id = IF s \in WsSessions THEN Nil ELSE proc[s].id]
Placed(s) == [Off EXCEPT !.pc = "open", !.id = proc[s].id]

AddCount(s) ==
  /\ proc[s].pc = "count"
  /\ LET roots == {p \in Peers : Present(p) /\ tree[p].role = "root"} IN
       proc' = [proc EXCEPT ![s].pc =
                  IF Cardinality(roots) < RootPeerCount THEN "root" ELSE "find"]
  /\ UNCHANGED <<tree, stale, registered, connected, connects, limit>>

AddRoot(s) ==
  /\ proc[s].pc = "root"
  /\ tree' = [tree EXCEPT ![proc[s].id] = PeerInfo("root", Nil, 0, proc[s].cap)]
  /\ stale' = stale \ {proc[s].id}
  /\ proc' = [proc EXCEPT ![s] = Placed(s)]
  /\ UNCHANGED <<registered, connected, connects, limit>>

AddFind(s) ==
  /\ proc[s].pc = "find"
  /\ \/ /\ BestParents = {}
        /\ proc' = [proc EXCEPT ![s] = Unplaced(s)]
     \/ \E q \in BestParents :
          proc' = [proc EXCEPT ![s].pc = "depth", ![s].parent = q]
  /\ UNCHANGED <<tree, stale, registered, connected, connects, limit>>

AddDepth(s) ==
  /\ proc[s].pc = "depth"
  /\ LET q == proc[s].parent
         d == IF Present(q) THEN tree[q].depth + 1 ELSE 1 IN
       proc' = [proc EXCEPT ![s] = IF d > MaxDepth THEN Unplaced(s)
                                   ELSE [@ EXCEPT !.pc = "insert", !.depth = d]]
  /\ UNCHANGED <<tree, stale, registered, connected, connects, limit>>

AddInsert(s) ==
  /\ proc[s].pc = "insert"
  /\ LET l == proc[s] IN
       /\ tree' = [tree EXCEPT ![l.id] = PeerInfo("relay", l.parent, l.depth, l.cap)]
       /\ stale' = stale \ {l.id}
  /\ proc' = [proc EXCEPT ![s].pc = "push"]
  /\ UNCHANGED <<registered, connected, connects, limit>>

AddPush(s) ==
  /\ proc[s].pc = "push"
  /\ tree' = Push(tree, proc[s].parent, proc[s].id)
  /\ proc' = [proc EXCEPT ![s] = Placed(s)]
  /\ UNCHANGED <<stale, registered, connected, connects, limit>>

-----------------------------------------------------------------------------
(* remove_peer, and the reassignment of the orphans that every caller does *)
(* right after it.                                                         *)

\* What follows the last orphan: the session is over, the reaper goes on
\* with the next dead peer.
Finished(s) == IF s = Reaper THEN [Off EXCEPT !.pc = "next", !.dead = proc[s].dead]
               ELSE Off

Remove(s) ==
  /\ proc[s].pc = "remove"
  /\ LET p == proc[s].id IN
       IF Present(p)
         THEN /\ tree' = [tree EXCEPT ![p] = Nil]
              /\ proc' = [proc EXCEPT ![s].pc = "unlink",
                                      ![s].parent = tree[p].parent,
                                      ![s].left = tree[p].children,
                                      ![s].todo = tree[p].children]
         ELSE proc' = [proc EXCEPT ![s] = Finished(s)] /\ UNCHANGED tree
  /\ UNCHANGED <<stale, registered, connected, connects, limit>>

\* Mutant: the removed peer stays in its parent's children.
UnlinkNothing(s) ==
  /\ proc[s].pc = "unlink"
  /\ proc' = [proc EXCEPT ![s].pc = "orphan"]
  /\ UNCHANGED <<tree, stale, registered, connected, connects, limit>>

Unlink(s) ==
  /\ proc[s].pc = "unlink"
  /\ tree' = Retain(tree, proc[s].parent, proc[s].id)
  /\ proc' = [proc EXCEPT ![s].pc = "orphan"]
  /\ UNCHANGED <<stale, registered, connected, connects, limit>>

\* Clear the parent of one orphan.
Orphan(s) ==
  /\ proc[s].pc = "orphan"
  /\ IF proc[s].left = <<>>
       THEN proc' = [proc EXCEPT ![s].pc = "reassign"] /\ UNCHANGED tree
       ELSE /\ proc' = [proc EXCEPT ![s].left = Tail(@)]
            /\ LET o == Head(proc[s].left) IN
                 tree' = IF Present(o) THEN [tree EXCEPT ![o].parent = Nil] ELSE tree
  /\ UNCHANGED <<stale, registered, connected, connects, limit>>

NextOrphan(l) == [l EXCEPT !.pc = "reassign", !.todo = Tail(@)]

\* reassign_peer of the next orphan.  An error is ignored by the callers:
\* the orphan stays where it is, without a parent.
ReassignFind(s) ==
  /\ proc[s].pc = "reassign"
  /\ \/ /\ proc[s].todo = <<>>
        /\ proc' = [proc EXCEPT ![s] = Finished(s)]
     \/ /\ proc[s].todo # <<>>
        /\ ~Present(Head(proc[s].todo)) \/ BestParents = {}
        /\ proc' = [proc EXCEPT ![s] = NextOrphan(@)]
     \/ /\ proc[s].todo # <<>>
        /\ Present(Head(proc[s].todo))
        /\ \E q \in BestParents :
             proc' = [proc EXCEPT ![s].pc = "re-depth", ![s].parent = q]
  /\ UNCHANGED <<tree, stale, registered, connected, connects, limit>>

ReassignDepth(s) ==
  /\ proc[s].pc = "re-depth"
  /\ LET q == proc[s].parent IN
       proc' = [proc EXCEPT ![s].pc = "re-set",
                            ![s].depth = IF Present(q) THEN tree[q].depth ELSE 0]
  /\ UNCHANGED <<tree, stale, registered, connected, connects, limit>>

\* Write the orphan's new parent and depth; the old parent is kept in left.
ReassignSet(s) ==
  /\ proc[s].pc = "re-set"
  /\ LET o == Head(proc[s].todo)
         l == proc[s] IN
       IF Present(o)
         THEN /\ tree' = [tree EXCEPT ![o].parent = l.parent, ![o].depth = l.depth + 1]
              /\ proc' = [proc EXCEPT ![s].pc = "re-unlink", ![s].left = <<tree[o].parent>>]
         ELSE proc' = [proc EXCEPT ![s] = NextOrphan(@)] /\ UNCHANGED tree
  /\ UNCHANGED <<stale, registered, connected, connects, limit>>

ReassignUnlink(s) ==
  /\ proc[s].pc = "re-unlink"
  /\ LET old == Head(proc[s].left) IN
       tree' = IF old # proc[s].parent
                 THEN Retain(tree, old, Head(proc[s].todo)) ELSE tree
  /\ proc' = [proc EXCEPT ![s].pc = "re-push", ![s].left = <<>>]
  /\ UNCHANGED <<stale, registered, connected, connects, limit>>

ReassignPush(s) ==
  /\ proc[s].pc = "re-push"
  /\ tree' = Push(tree, proc[s].parent, Head(proc[s].todo))
  /\ proc' = [proc EXCEPT ![s] = NextOrphan(@)]
  /\ UNCHANGED <<stale, registered, connected, connects, limit>>

-----------------------------------------------------------------------------
(* The callers.                                                            *)

\* ws_relay_session: a fresh id, no capacity.
WsConnect(s) ==
  /\ s \in WsSessions \ connected /\ MayConnect
  /\ connected' = connected \cup {s} /\ connects' = connects + 1
  /\ proc' = [proc EXCEPT ![s].pc = "count", ![s].id = s]
  /\ UNCHANGED <<tree, stale, registered, limit>>

\* A client learns the id of its relay session once that is through with
\* add_peer, and may go on using it after the session has ended.
Announced ==
  {w \in connected : proc[w].pc \notin {"count", "root", "find", "depth", "insert", "push"}}

\* register_peer: overwrites the signalling entry of the id.
SigRegister(s, p, c) ==
  /\ s \in SigSessions /\ proc[s].pc = "off" /\ MayConnect
  /\ p \in ClientIds \cup Announced
  /\ connects' = connects + 1
  /\ registered' = registered \cup {p}
  /\ proc' = [proc EXCEPT ![s].pc = "lookup", ![s].id = p, ![s].cap = c]
  /\ UNCHANGED <<tree, stale, connected, limit>>

\* Mutant: the reported capacity is stored as it came.
SigLookupUnclamped(s) ==
  /\ proc[s].pc = "lookup"
  /\ proc' = [proc EXCEPT ![s] = IF Present(@.id) THEN Placed(s) ELSE [@ EXCEPT !.pc = "count"]]
  /\ UNCHANGED <<tree, stale, registered, connected, connects, limit>>

\* The peer callback: an id that is in the tree keeps its entry.
SigLookup(s) ==
  /\ proc[s].pc = "lookup"
  /\ LET c == proc[s].cap
         clamped == IF c # Nil /\ c > MaxChildren THEN MaxChildren ELSE c IN
       proc' = [proc EXCEPT ![s] = IF Present(@.id) THEN Placed(s)
                                   ELSE [@ EXCEPT !.pc = "count", !.cap = clamped]]
  /\ UNCHANGED <<tree, stale, registered, connected, connects, limit>>

\* A relay session ends; without a peer id there is nothing to release.
WsClose(s) ==
  /\ s \in WsSessions /\ proc[s].pc = "open" /\ MayStart
  /\ proc' = [proc EXCEPT ![s] = IF @.id = Nil THEN Off ELSE [@ EXCEPT !.pc = "remove"]]
  /\ UNCHANGED <<tree, stale, registered, connected, connects, limit>>

\* A signalling session ends.  The callback runs only if the id is still in
\* the signalling map: another session with the id may have taken it out.
SigClose(s) ==
  /\ s \in SigSessions /\ proc[s].pc = "open" /\ MayStart
  /\ registered' = registered \ {proc[s].id}
  /\ proc' = [proc EXCEPT ![s] =
       IF @.id \in registered THEN [@ EXCEPT !.pc = "remove"] ELSE Off]
  /\ UNCHANGED <<tree, stale, connected, connects, limit>>

\* The heartbeat timeout of an entry passes.  heartbeat() would reset it;
\* nothing outside the tests calls it.
Age(p) ==
  /\ Present(p) /\ p \notin stale
  /\ stale' = stale \cup {p}
  /\ UNCHANGED <<tree, registered, proc, connected, connects, limit>>

\* Mutant: the reaper visits only ids with a signalling session.
ReaperTickRegistered ==
  /\ proc[Reaper].pc = "off" /\ MayStart
  /\ LET dead == {p \in stale : Present(p)} \cap registered IN
       dead # {} /\ proc' = [proc EXCEPT ![Reaper] = [Off EXCEPT !.pc = "next", !.dead = dead]]
  /\ UNCHANGED <<tree, stale, registered, connected, connects, limit>>

\* find_dead_peers.
ReaperTick ==
  /\ proc[Reaper].pc = "off" /\ MayStart
  /\ LET dead == {p \in stale : Present(p)} IN
       dead # {} /\ proc' = [proc EXCEPT ![Reaper] = [Off EXCEPT !.pc = "next", !.dead = dead]]
  /\ UNCHANGED <<tree, stale, registered, connected, connects, limit>>

ReapNext ==
  /\ proc[Reaper].pc = "next"
  /\ \/ /\ proc[Reaper].dead = {}
        /\ proc' = [proc EXCEPT ![Reaper] = Off]
     \/ \E p \in proc[Reaper].dead :
          proc' = [proc EXCEPT ![Reaper] =
                     [Off EXCEPT !.pc = "remove", !.id = p, !.dead = proc[Reaper].dead \ {p}]]
  /\ UNCHANGED <<tree, stale, registered, connected, connects, limit>>

AddPeer(s) ==
  AddCount(s) \/ AddRoot(s) \/ AddFind(s) \/ AddDepth(s) \/ AddInsert(s) \/ AddPush(s)
RemovePeer(s) == Remove(s) \/ Unlink(s) \/ Orphan(s)
ReassignPeer(s) ==
  \/ ReassignFind(s) \/ ReassignDepth(s) \/ ReassignSet(s)
  \/ ReassignUnlink(s) \/ ReassignPush(s)

Step(s) == AddPeer(s) \/ RemovePeer(s) \/ ReassignPeer(s) \/ SigLookup(s)

MeshNext ==
  \/ \E s \in Sessions : Step(s) \/ WsConnect(s) \/ WsClose(s) \/ SigClose(s)
  \/ \E s \in SigSessions, p \in Peers, c \in Reported : SigRegister(s, p, c)
  \/ RemovePeer(Reaper) \/ ReassignPeer(Reaper) \/ ReaperTick \/ ReapNext
  \/ \E p \in Peers : Age(p)

MeshSpec == MeshInit /\ [][MeshNext]_meshVars

\* Tasks run, the reaper's interval fires and time passes; nobody has to
\* connect or to leave.
MeshFairSpec ==
  /\ MeshSpec
  /\ \A s \in Sessions : WF_meshVars(Step(s))
  /\ WF_meshVars(RemovePeer(Reaper) \/ ReassignPeer(Reaper) \/ ReapNext)
  /\ WF_meshVars(ReaperTick)
  /\ \A p \in Peers : WF_meshVars(Age(p))

-----------------------------------------------------------------------------
(* Properties.                                                             *)

Capacities == 0..MaxChildren \cup {Nil}
Infos == [role : {"root", "relay"}, parent : Peers \cup {Nil}, children : Seq(Peers),
          depth : Nat, capacity : Capacities]
ASSUME MeshEntries == Nil \notin Infos
Pcs == {"off", "open", "lookup", "count", "root", "find", "depth", "insert", "push",
        "remove", "unlink", "orphan", "reassign", "re-depth", "re-set", "re-unlink",
        "re-push", "next"}

\* Type invariant; a stored capacity is within the operator's ceiling.
MeshTypeOK ==
  /\ \A p \in Peers : tree[p] = Nil \/ tree[p] \in Infos
  /\ stale \subseteq Peers /\ registered \subseteq Peers
  /\ \A s \in Procs : /\ proc[s].pc \in Pcs
                      /\ proc[s].id \in Peers \cup {Nil}
                      /\ proc[s].parent \in Peers \cup {Nil}
                      /\ proc[s].todo \in Seq(Peers)
                      /\ proc[s].dead \subseteq Peers
  /\ connected \subseteq WsSessions /\ connects \in Nat /\ limit \in {1, 2}

TreeSettled == \A s \in Procs : ~Busy(s)

\* With one operation at a time, however peers come, go, share ids and are
\* reaped, parent pointers and children lists describe one and the same
\* relation: every child is listed once, by its parent and by nobody else.
ParentChildAgree ==
  limit = 1 /\ TreeSettled =>
    \A p, q \in Peers : Present(q) =>
      Cardinality({i \in DOMAIN tree[q].children : tree[q].children[i] = p})
        = IF Present(p) /\ tree[p].parent = q THEN 1 ELSE 0

\* With one operation at a time, no peer relays to more children than its
\* capacity, no recorded depth passes max_depth, and no more than
\* root_peer_count peers are served directly.
LoadWithinLimits ==
  limit = 1 =>
    /\ \A p \in Peers : Present(p) => /\ Len(tree[p].children) <= EffectiveCapacity(p)
                                      /\ tree[p].depth <= MaxDepth
    /\ Cardinality({p \in Peers : Present(p) /\ tree[p].role = "root"}) <= RootPeerCount

HeldPeer(p) == \E s \in Sessions : proc[s].id = p

\* An entry that no session holds any more leaves the tree, although a
\* signalling session that finds its id gone from the signalling map never
\* removes it: the reaper does.
UnheldEntryGoes == \A p \in Peers : (Present(p) /\ ~HeldPeer(p)) ~> (~Present(p) \/ HeldPeer(p))

\* The tree is well-typed, its two representations agree and it is within its
\* limits, after every sequence of joins, departures, reassignments and reaps
\* done one at a time.
TreeInv == MeshTypeOK /\ ParentChildAgree /\ LoadWithinLimits
=============================================================================
