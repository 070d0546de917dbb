---------------------------- MODULE ClusterGossip ---------------------------
(***************************************************************************)
(* What a cluster node gossips about itself and answers about the others   *)
(* (crates/lvqr-cluster/src/lib.rs, config.rs, capacity.rs): configuration *)
(* entries, of which the latest wins, and the capacity that a task         *)
(* advertises.  Chitchat replicates each node's entries; ClusterClaim has  *)
(* the broadcasts' leases.                                                 *)
(***************************************************************************)
EXTENDS Naturals, FiniteSets, SequencesExt

CONSTANTS
  Members,        \* node ids
  Stamped,        \* <<time, value>>: what is set, by clocks that nobody keeps in step
  Boots,          \* bound: how often each node starts
  MaxSets         \* bound: config_set calls

ASSUME GossipAssumption ==
  Stamped \subseteq Nat \X Nat /\ Boots \in [Members -> Nat] /\ MaxSets \in Nat

VARIABLES
  node,           \* each node's process: generation, handle, advertiser
  copies,         \* each node's copy of the config entry of each incarnation, its own included
  alive,          \* what each node's failure detector takes for live
  sets            \* config_set calls so far

gossip == <<node, copies, alive, sets>>

\* A ChitchatId: the node's id and its generation, the time it started.
Incarnations == UNION {{n} \X (1..Boots[n]) : n \in Members}
NoSetting == <<>>

Self(n) == <<n, node[n].boot>>

GossipInit ==
  /\ node = [n \in Members |-> [boot |-> 1, handle |-> "up", ad |-> "tick"]]
  /\ copies = [n \in Members |-> [i \in {<<n, 1>>} |-> NoSetting]]
  /\ alive = [n \in Members |-> {}] /\ sets = 0

\* config::set stamps the value with the node's clock and puts it into the
\* node's own state.
ConfigSet(n, e) ==
  /\ node[n].handle = "up" /\ sets < MaxSets /\ sets' = sets + 1
  /\ copies' = [copies EXCEPT ![n] = [@ EXCEPT ![Self(n)] = e]]
  /\ UNCHANGED <<node, alive>>

-----------------------------------------------------------------------------
(* The advertiser.  Nothing in the server feeds the gauge, so the entry it *)
(* writes is always the same; what matters is when it writes.              *)

\* A tick: the snapshot is taken, and then the lock is awaited.
AdvertiserTicks(n) ==
  /\ node[n].ad = "tick" /\ node[n].handle = "up"
  /\ node' = [node EXCEPT ![n].ad = "lock"]
  /\ UNCHANGED <<copies, alive, sets>>

PublishSnapshot(n) ==
  /\ node[n].ad = "lock" /\ node' = [node EXCEPT ![n].ad = "tick"]
  /\ UNCHANGED <<copies, alive, sets>>

\* The cancelled token is seen between ticks.
AdvertiserEnds(n) ==
  /\ node[n].ad = "tick" /\ node[n].handle = "closing"
  /\ node' = [node EXCEPT ![n].ad = "gone"]
  /\ UNCHANGED <<copies, alive, sets>>

-----------------------------------------------------------------------------
(* Shutdown, crash and restart.                                            *)

ShutdownNode(n) ==
  /\ node[n].handle = "up" /\ node' = [node EXCEPT ![n].handle = "closing"]
  /\ UNCHANGED <<copies, alive, sets>>

\* mutant: the handle is shut down without the advertiser
LeaveClusterNow(n) ==
  /\ node[n].handle = "closing" /\ node' = [node EXCEPT ![n].handle = "gone"]
  /\ UNCHANGED <<copies, alive, sets>>
\* shutdown awaits the advertiser before it shuts the handle down.
LeaveCluster(n) ==
  /\ node[n].handle = "closing" /\ node[n].ad = "gone"
  /\ node' = [node EXCEPT ![n].handle = "gone"]
  /\ UNCHANGED <<copies, alive, sets>>

\* The process ends, or the cluster is dropped, which aborts the advertiser.
CrashNode(n) ==
  /\ node[n].handle \in {"up", "closing"}
  /\ node' = [node EXCEPT ![n].handle = "gone", ![n].ad = "gone"]
  /\ UNCHANGED <<copies, alive, sets>>

\* bootstrap with the id it had: a new generation, an empty state.
Bootstrap(n) ==
  /\ node[n].handle = "gone" /\ node[n].boot < Boots[n]
  /\ LET boot == node[n].boot + 1
     IN  /\ node' = [node EXCEPT ![n] = [boot |-> boot, handle |-> "up", ad |-> "tick"]]
         /\ copies' = [copies EXCEPT ![n] = [i \in {<<n, boot>>} |-> NoSetting]]
  /\ alive' = [alive EXCEPT ![n] = {}]
  /\ UNCHANGED <<sets>>

\* Gossip: the receiver's copy of an incarnation becomes the sender's, if that
\* is newer; the receiver hears that it lives.
Hear(n, from, i) ==
  /\ n # from /\ i # Self(n) /\ i \in DOMAIN copies[from] /\ node[n].handle = "up" /\ node[from].handle = "up"
  /\ i = Self(from) \/ i \notin DOMAIN copies[n]
  /\ copies' = [copies EXCEPT ![n] = [j \in DOMAIN @ \cup {i} |-> IF j = i THEN copies[from][i] ELSE @[j]]]
  /\ alive' = [alive EXCEPT ![n] = @ \cup {i}]
  /\ UNCHANGED <<node, sets>>

\* The failure detector gives a node up, rightly or not.
Suspect(n, i) ==
  /\ i \in alive[n] /\ alive' = [alive EXCEPT ![n] = @ \ {i}]
  /\ UNCHANGED <<node, copies, sets>>

-----------------------------------------------------------------------------
(* The answers.  The states are visited in an order that is not ours.      *)

\* mutant: of two entries of one moment the first that is seen stays
LaterOnly(e, best) == e[1] > best[1]
Later(e, best) == e[1] > best[1] \/ (e[1] = best[1] /\ e[2] > best[2])

\* select_winner, and list's pass over the same states.
SelectWinner(entries) ==
  FoldLeft(LAMBDA best, e : IF best = <<>> \/ Later(e, best) THEN e ELSE best, <<>>, entries)

Candidates(n, order) ==
  SelectSeq([k \in 1..Len(order) |-> copies[n][order[k]]], LAMBDA e : e # <<>>)

ConfigGet(n, order) == SelectWinner(Candidates(n, order))

\* members: live nodes, the own one first, with the generation they are seen in.
\* mutant: neighbours are compared without a sort
ListMembersUnsorted(seen) ==
  SelectSeq([k \in 1..Len(seen) |-> [id |-> seen[k], dup |-> k > 1 /\ seen[k - 1][1] = seen[k][1]]], LAMBDA r : ~r.dup)
\* A stable sort by id, then neighbours with one id become the first of them.
ListMembers(seen) ==
  SelectSeq([k \in 1..Len(seen) |-> [id |-> seen[k], dup |-> \E j \in 1..(k - 1) : seen[j][1] = seen[k][1]]],
            LAMBDA r : ~r.dup)

AllStopped == \A n \in Members : node[n].handle = "gone"

GossipNext ==
  \/ \E n \in Members :
       \/ \E e \in Stamped : ConfigSet(n, e)
       \/ AdvertiserTicks(n) \/ PublishSnapshot(n) \/ AdvertiserEnds(n)
       \/ ShutdownNode(n) \/ LeaveCluster(n) \/ CrashNode(n) \/ Bootstrap(n)
       \/ \E from \in Members, i \in Incarnations : Hear(n, from, i) \/ Suspect(n, i)
  \/ AllStopped /\ UNCHANGED gossip

-----------------------------------------------------------------------------
(* Properties.                                                             *)

\* Nodes that have heard the same agree on a configuration key, whatever order
\* they look in, and no entry they know of is later than the one they answer
\* (config.rs:142, 185).
ConfigAgrees ==
  \A n \in Members :
    LET known == {copies[n][i] : i \in DOMAIN copies[n]} \ {<<>>}
        last == IF known = {} THEN <<>>
                ELSE CHOOSE e \in known : \A o \in known : e[1] > o[1] \/ (e[1] = o[1] /\ e[2] >= o[2])
    IN  \A order \in SetToSeqs(DOMAIN copies[n]) : ConfigGet(n, order) = last

\* The members a node answers are its own id and the live ones, each once, also
\* when two generations of one are taken for live (lib.rs:490).
MembersOnce ==
  \A n \in Members : \A order \in SetToSeqs(alive[n]) :
    LET rows == ListMembers(<<Self(n)>> \o order)
    IN  /\ \A j, k \in DOMAIN rows : rows[j].id[1] = rows[k].id[1] => j = k
        /\ {rows[k].id[1] : k \in DOMAIN rows} = {n} \cup {i[1] : i \in alive[n]}

\* Nothing is written for a node after its handle is shut down (lib.rs:506).
QuietAfterShutdown == \A n \in Members : node[n].handle = "gone" => node[n].ad = "gone"

GossipInv == ConfigAgrees /\ MembersOnce /\ QuietAfterShutdown
=============================================================================
