---------------------------- MODULE AgentRunner -----------------------------
(***************************************************************************)
(* AgentRunner: one drain task per (agent, broadcast, track), spawned from *)
(* the registry's creation callback or retroactively when an agent is      *)
(* added at run time, aborted when the agent is removed                    *)
(* (crates/lvqr-agent/src/runner.rs).                                      *)
(*                                                                         *)
(* The registry is reduced to what the runner reads of it: which           *)
(* incarnation of a (broadcast, track) is registered.  A key has one       *)
(* publisher, which creates the entry, runs the callback, and later        *)
(* removes it.                                                             *)
(***************************************************************************)
EXTENDS Integers, FiniteSets

CONSTANTS
  Agents,    \* factory names
  Keys,      \* (broadcast, track) pairs
  Accepted,  \* the keys the factories build an agent for; they decline others
  Admins,    \* concurrent admin requests
  None,
  MaxInc     \* bound: times a key is published

ASSUME RunnerAssumption ==
  /\ Accepted \subseteq Keys
  /\ MaxInc \in Nat
  /\ None \notin Agents

VARIABLES
  entry,      \* registry: incarnation registered under a key, 0 if none
  inc,        \* incarnations of a key so far
  factories,  \* RunnerInner.factories
  tasks,      \* RunnerInner.tasks: incarnation of the drain stored, 0 if none
  drains,     \* tasks spawned per <<agent, key, incarnation>> and phase
  pub,        \* publisher of a key: where it is
  todo,       \* publisher: factories of its snapshot still to be tried
  cur,        \* publisher: factory between spawn_for's check and its insert
  adm         \* admin request: where it is, its agent, keys left, key in hand

vars == <<entry, inc, factories, tasks, drains, pub, todo, cur, adm>>

\* A task is about to run or in on_start, in its drain loop, ended because
\* on_start panicked, or aborted in the middle of a poll.
Phases == {"starting", "draining", "failed", "aborting"}
Incs == 1..MaxInc
Request(pc, a, ks, k, i) == [pc |-> pc, agent |-> a, keys |-> ks, key |-> k, inc |-> i]
Idle == Request("idle", None, {}, None, 0)

Init ==
  /\ entry = [k \in Keys |-> 0]
  /\ inc = [k \in Keys |-> 0]
  /\ factories \in SUBSET Agents
  /\ tasks = [a \in Agents |-> [k \in Keys |-> 0]]
  /\ drains = [d \in Agents \X Keys \X Incs |-> [p \in Phases |-> 0]]
  /\ pub = [k \in Keys |-> "off"]
  /\ todo = [k \in Keys |-> {}]
  /\ cur = [k \in Keys |-> None]
  /\ adm = [d \in Admins |-> Idle]

\* An incarnation is closed once the registry and add_agent let go of it.
Closed(k, i) ==
  /\ entry[k] # i
  /\ \A d \in Admins : ~(adm[d].pc = "insert" /\ adm[d].key = k /\ adm[d].inc = i)

\* Drains that nobody aborted.
Running(a, k, i) == drains[<<a, k, i>>]["starting"] + drains[<<a, k, i>>]["draining"]
Failed(a, k, i) == drains[<<a, k, i>>]["failed"] > 0
Aborting(a, k, i) == drains[<<a, k, i>>]["aborting"] > 0

-----------------------------------------------------------------------------
(* spawn_for: a cheap check, build, then an insert under the entry lock.   *)

\* tasks.contains_key fails and the factory builds: go on to the insert.
CheckPasses(a, k) == tasks[a][k] = 0 /\ k \in Accepted

\* Mutant: the insert trusts the earlier check and spawns regardless.
InsertBlind(a, k, i) ==
  /\ tasks' = [tasks EXCEPT ![a][k] = i]
  /\ drains' = [drains EXCEPT ![<<a, k, i>>]["starting"] = @ + 1]

\* tasks.entry: spawn only if it is still vacant.
InsertIfVacant(a, k, i) ==
  IF tasks[a][k] # 0 THEN UNCHANGED <<tasks, drains>>
  ELSE /\ tasks' = [tasks EXCEPT ![a][k] = i]
       /\ drains' = [drains EXCEPT ![<<a, k, i>>]["starting"] = @ + 1]

-----------------------------------------------------------------------------
(* The publisher of a key: get_or_create with the callback, then remove.   *)

Publish(k) ==
  /\ pub[k] = "off" /\ inc[k] < MaxInc
  /\ inc' = [inc EXCEPT ![k] = @ + 1]
  /\ entry' = [entry EXCEPT ![k] = inc[k] + 1]
  /\ pub' = [pub EXCEPT ![k] = "snapshot"]
  /\ UNCHANGED <<factories, tasks, drains, todo, cur, adm>>

\* The callback copies the factory list and releases its lock.
SnapshotFactories(k) ==
  /\ pub[k] = "snapshot"
  /\ todo' = [todo EXCEPT ![k] = factories]
  /\ pub' = [pub EXCEPT ![k] = "spawning"]
  /\ UNCHANGED <<entry, inc, factories, tasks, drains, cur, adm>>

\* spawn_for of one snapshot factory, up to and including build.
CallbackCheck(k, a) ==
  /\ pub[k] = "spawning" /\ cur[k] = None /\ a \in todo[k]
  /\ todo' = [todo EXCEPT ![k] = @ \ {a}]
  /\ cur' = [cur EXCEPT ![k] = IF CheckPasses(a, k) THEN a ELSE None]
  /\ UNCHANGED <<entry, inc, factories, tasks, drains, pub, adm>>

CallbackInsert(k) ==
  /\ cur[k] # None
  /\ InsertIfVacant(cur[k], k, entry[k])
  /\ cur' = [cur EXCEPT ![k] = None]
  /\ UNCHANGED <<entry, inc, factories, pub, todo, adm>>

\* Mutant: the callback returns while a spawn is still under way.
CallbackDoneEarly(k) ==
  /\ pub[k] = "spawning" /\ todo[k] = {}
  /\ pub' = [pub EXCEPT ![k] = "live"]
  /\ UNCHANGED <<entry, inc, factories, tasks, drains, todo, cur, adm>>

CallbackDone(k) ==
  /\ pub[k] = "spawning" /\ cur[k] = None /\ todo[k] = {}
  /\ pub' = [pub EXCEPT ![k] = "live"]
  /\ UNCHANGED <<entry, inc, factories, tasks, drains, todo, cur, adm>>

Unpublish(k) ==
  /\ pub[k] = "live"
  /\ entry' = [entry EXCEPT ![k] = 0]
  /\ pub' = [pub EXCEPT ![k] = "off"]
  /\ UNCHANGED <<inc, factories, tasks, drains, todo, cur, adm>>

-----------------------------------------------------------------------------
(* AgentRunnerHandle::add_agent.                                           *)

AddRefused(d, a) ==
  /\ adm[d].pc = "idle" /\ a \in factories
  /\ UNCHANGED vars

AddPush(d, a) ==
  /\ adm[d].pc = "idle" /\ a \notin factories
  /\ factories' = factories \cup {a}
  /\ adm' = [adm EXCEPT ![d] = Request("keys", a, {}, None, 0)]
  /\ UNCHANGED <<entry, inc, tasks, drains, pub, todo, cur>>

\* Mutant: only broadcasts published from now on get the new agent.
AddNoRetroactive(d) ==
  /\ adm[d].pc = "keys"
  /\ adm' = [adm EXCEPT ![d].pc = "each"]
  /\ UNCHANGED <<entry, inc, factories, tasks, drains, pub, todo, cur>>

\* registry.keys(): a snapshot of the registered keys.
AddKeys(d) ==
  /\ adm[d].pc = "keys"
  /\ adm' = [adm EXCEPT ![d] =
       Request("each", @.agent, {k \in Keys : entry[k] # 0}, None, 0)]
  /\ UNCHANGED <<entry, inc, factories, tasks, drains, pub, todo, cur>>

\* registry.get of one key of the snapshot, and spawn_for up to build.
AddGet(d, k) ==
  /\ adm[d].pc = "each" /\ k \in adm[d].keys
  /\ adm' = [adm EXCEPT ![d] =
       IF entry[k] # 0 /\ CheckPasses(@.agent, k)
         THEN Request("insert", @.agent, @.keys \ {k}, k, entry[k])
         ELSE Request("each", @.agent, @.keys \ {k}, None, 0)]
  /\ UNCHANGED <<entry, inc, factories, tasks, drains, pub, todo, cur>>

AddInsert(d) ==
  /\ adm[d].pc = "insert"
  /\ InsertIfVacant(adm[d].agent, adm[d].key, adm[d].inc)
  /\ adm' = [adm EXCEPT ![d] = Request("each", @.agent, @.keys, None, 0)]
  /\ UNCHANGED <<entry, inc, factories, pub, todo, cur>>

AddDone(d) ==
  /\ adm[d].pc = "each" /\ adm[d].keys = {}
  /\ adm' = [adm EXCEPT ![d] = Idle]
  /\ UNCHANGED <<entry, inc, factories, tasks, drains, pub, todo, cur>>

-----------------------------------------------------------------------------
(* AgentRunnerHandle::remove_agent: forget the factory, then visit the     *)
(* task map; retain locks one shard at a time.                             *)

RemoveFactory(d, a) ==
  /\ adm[d].pc = "idle"
  /\ factories' = factories \ {a}
  /\ adm' = [adm EXCEPT ![d] = Request("retain", a, Keys, None, 0)]
  /\ UNCHANGED <<entry, inc, tasks, drains, pub, todo, cur>>

\* Abort the task stored for one key and drop its entry.  The abort takes
\* effect at the task's next await: a task in the middle of a poll goes on to
\* it.  Bound: of the aborted tasks of one source at most one is still going.
RemoveTask(d, k) ==
  /\ adm[d].pc = "retain" /\ k \in adm[d].keys
  /\ adm' = [adm EXCEPT ![d].keys = @ \ {k}]
  /\ LET a == adm[d].agent
         i == tasks[a][k] IN
       /\ tasks' = [tasks EXCEPT ![a][k] = 0]
       /\ \/ i = 0 /\ drains' = drains
          \/ /\ i # 0
             /\ \E polled \in BOOLEAN :
                  /\ polled => Running(a, k, i) > 0
                  /\ drains' = [drains EXCEPT ![<<a, k, i>>] =
                       [p \in Phases |-> IF p = "aborting" /\ (polled \/ @[p] > 0) THEN 1 ELSE 0]]
  /\ UNCHANGED <<entry, inc, factories, pub, todo, cur>>

RemoveDone(d) ==
  /\ adm[d].pc = "retain" /\ adm[d].keys = {}
  /\ adm' = [adm EXCEPT ![d] = Idle]
  /\ UNCHANGED <<entry, inc, factories, tasks, drains, pub, todo, cur>>

-----------------------------------------------------------------------------
(* drive.  The entry in tasks outlives the drain.                          *)

StartOk(a, k, i) ==
  /\ drains[<<a, k, i>>]["starting"] > 0
  /\ drains' = [drains EXCEPT ![<<a, k, i>>]["starting"] = @ - 1,
                              ![<<a, k, i>>]["draining"] = @ + 1]
  /\ UNCHANGED <<entry, inc, factories, tasks, pub, todo, cur, adm>>

\* Agent::on_start panicked: the drain loop is skipped.
StartPanic(a, k, i) ==
  /\ drains[<<a, k, i>>]["starting"] > 0
  /\ drains' = [drains EXCEPT ![<<a, k, i>>]["starting"] = @ - 1,
                              ![<<a, k, i>>]["failed"] = @ + 1]
  /\ UNCHANGED <<entry, inc, factories, tasks, pub, todo, cur, adm>>

\* Mutant: the task waits for a broadcaster it keeps open itself.
DrainEndNever(a, k, i) ==
  /\ drains[<<a, k, i>>]["draining"] > 1 /\ Closed(k, i)
  /\ drains' = [drains EXCEPT ![<<a, k, i>>]["draining"] = @ - 1]
  /\ UNCHANGED <<entry, inc, factories, tasks, pub, todo, cur, adm>>

\* next_fragment returned None: the broadcaster closed.
DrainEnd(a, k, i) ==
  /\ drains[<<a, k, i>>]["draining"] > 0 /\ Closed(k, i)
  /\ drains' = [drains EXCEPT ![<<a, k, i>>]["draining"] = @ - 1]
  /\ UNCHANGED <<entry, inc, factories, tasks, pub, todo, cur, adm>>

\* The aborted task reaches its next await, or its end, and is dropped.
AbortTakesEffect(a, k, i) ==
  /\ Aborting(a, k, i)
  /\ drains' = [drains EXCEPT ![<<a, k, i>>]["aborting"] = @ - 1]
  /\ UNCHANGED <<entry, inc, factories, tasks, pub, todo, cur, adm>>

Drive(a, k, i) ==
  StartOk(a, k, i) \/ StartPanic(a, k, i) \/ DrainEnd(a, k, i)

Callback(k) ==
  \/ SnapshotFactories(k) \/ CallbackInsert(k) \/ CallbackDone(k)
  \/ \E a \in Agents : CallbackCheck(k, a)

Admin(d) ==
  \/ AddKeys(d) \/ AddInsert(d) \/ AddDone(d) \/ RemoveDone(d)
  \/ \E k \in Keys : AddGet(d, k) \/ RemoveTask(d, k)

Next ==
  \/ \E k \in Keys : Publish(k) \/ Callback(k) \/ Unpublish(k)
  \/ \E d \in Admins :
       \/ Admin(d)
       \/ \E a \in Agents : AddRefused(d, a) \/ AddPush(d, a) \/ RemoveFactory(d, a)
  \/ \E a \in Agents, k \in Keys, i \in Incs : Drive(a, k, i) \/ AbortTakesEffect(a, k, i)

Spec == Init /\ [][Next]_vars

\* Spawned tasks and requests in progress run; nobody has to publish,
\* unpublish or send an admin request.
FairSpec ==
  /\ Spec
  /\ \A d \in Admins : WF_vars(Admin(d))
  /\ \A a \in Agents, k \in Keys, i \in Incs :
       WF_vars(Drive(a, k, i)) /\ WF_vars(AbortTakesEffect(a, k, i))

-----------------------------------------------------------------------------
(* Properties.                                                             *)

Requests ==
  [pc : {"idle", "keys", "each", "insert", "retain"}, agent : Agents \cup {None},
   keys : SUBSET Keys, key : Keys \cup {None}, inc : 0..MaxInc]

\* Type invariant of the runner, its callbacks and its admin requests; a
\* spawn is under way only inside the callback.
TypeOK ==
  /\ entry \in [Keys -> 0..MaxInc] /\ inc \in [Keys -> 0..MaxInc]
  /\ factories \subseteq Agents
  /\ tasks \in [Agents -> [Keys -> 0..MaxInc]]
  /\ drains \in [Agents \X Keys \X Incs -> [Phases -> Nat]]
  /\ pub \in [Keys -> {"off", "snapshot", "spawning", "live"}]
  /\ todo \in [Keys -> SUBSET Agents]
  /\ cur \in [Keys -> Agents \cup {None}]
  /\ \A k \in Keys : cur[k] # None => pub[k] = "spawning"
  /\ adm \in [Admins -> Requests]

\* However the callback, add_agent and remove_agent interleave, an agent has
\* at most one drain on a key, and it is the one stored in tasks, so that
\* remove_agent can abort it ("cannot race ... into a duplicate drain").  A
\* drain that was aborted and is still in its last poll does not count.
OneTrackedDrain ==
  \A a \in Agents, k \in Keys, i \in Incs :
    Running(a, k, i) > 0 => Running(a, k, i) = 1 /\ tasks[a][k] = i

\* The drain on the live source of a key runs, unless its on_start panicked.
Reached(a, k) ==
  /\ tasks[a][k] = entry[k]
  /\ Running(a, k, entry[k]) = 1 \/ Failed(a, k, entry[k])

\* The slot still holds the drain of an earlier publication of the key:
\* nothing takes it out when that drain ends.
StaleSlot(a, k) == tasks[a][k] \in 1..(entry[k] - 1)

\* No live source falls between the callback and add_agent: when nobody is
\* in the middle of a step, every registered agent drains every live key it
\* accepts ("already-live sources get a drain task spawned retroactively").
\* The exception is a key published again while the agent's slot of an earlier
\* publication is there: contains_key then skips the new source, although
\* "every new (broadcast, track) pair gets one drain task per agent".
Settled == /\ \A k \in Keys : pub[k] \in {"off", "live"}
           /\ \A d \in Admins : adm[d].pc = "idle"
NoSourceBetweenTheCracks ==
  Settled => \A a \in factories, k \in Accepted :
               entry[k] # 0 => Reached(a, k) \/ StaleSlot(a, k)

\* A drain whose source is gone ends, and so does one that was aborted.
DrainsEnd ==
  \A a \in Agents, k \in Keys, i \in Incs :
    /\ (Running(a, k, i) > 0 /\ entry[k] # i) ~> (Running(a, k, i) = 0 \/ entry[k] = i)
    /\ Aborting(a, k, i) ~> ~Aborting(a, k, i)
=============================================================================
