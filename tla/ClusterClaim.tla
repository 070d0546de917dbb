--------------------------- MODULE ClusterClaim ---------------------------
(***************************************************************************)
(* Who owns a broadcast: the claim bridge of crates/lvqr-cli/src/          *)
(* cluster_claim.rs on every node, the leases and renewers of              *)
(* crates/lvqr-cluster/src/broadcast.rs, and the gossip that copies each   *)
(* node's lease to its peers.  All of it is keyed by the broadcast's name, *)
(* so the module follows one name.                                         *)
(*                                                                         *)
(* A lease is kept as the time it has left: expires_at_ms minus now, in    *)
(* units of which the code's lease has Lease and its renewal interval      *)
(* Renew.  0 stands for an expired or deleted lease; readers do not tell   *)
(* them apart.  Nodes share a clock, as docs/cluster.md asks for.          *)
(***************************************************************************)
EXTENDS Integers, FiniteSets

CONSTANTS
  N,          \* number of nodes
  Origins,    \* the nodes its publishers may connect to
  Tracks,     \* tracks of the broadcast
  None,       \* no track
  Lease,      \* lease duration
  Renew,      \* renewal interval
  Slack,      \* how late a renewal may run
  MaxCrash    \* bound: node crashes

ASSUME ClaimAssumption ==
  /\ {N, Lease, Renew, Slack, MaxCrash} \subseteq Nat
  /\ Renew + Slack < Lease
  /\ None \notin Tracks /\ Origins \subseteq 1..N

Nodes == 1..N     \* ordered as the owner strings are

VARIABLES
  live,      \* node -> tracks with a broadcaster in its registry
  claimed,   \* node -> the name is in the bridge's dedup set
  task,      \* node -> where the bridge's task is
  follows,   \* node -> the track whose broadcaster the task drains, if open
  due,       \* node -> time until the renewer's next tick
  dying,     \* node -> an old renewer that has not stopped yet
  lease,     \* node -> what is left of the lease in its own state
  view,      \* view[m][n]: what m has been told of n's lease
  ghost,     \* ghost[m][n]: the same, of n's lease before n crashed
  gone,      \* node -> time since it last held a claim, up to Lease
  struck,    \* node -> an old tombstone hit the lease since it was written
  crashes

vars == <<live, claimed, task, follows, due, dying, lease, view, ghost, gone,
          struck, crashes>>

bridge == <<live, claimed, task, follows>>

Held(n) == task[n] = "held"

Init ==
  /\ live = [n \in Nodes |-> {}]
  /\ claimed = [n \in Nodes |-> FALSE]
  /\ task = [n \in Nodes |-> "none"]
  /\ follows = [n \in Nodes |-> None]
  /\ due = [n \in Nodes |-> Renew]
  /\ dying = [n \in Nodes |-> "no"]
  /\ lease = [n \in Nodes |-> 0]
  /\ view = [m \in Nodes |-> [n \in Nodes |-> 0]]
  /\ ghost = [m \in Nodes |-> [n \in Nodes |-> 0]]
  /\ gone = [n \in Nodes |-> Lease]
  /\ struck = [n \in Nodes |-> FALSE]
  /\ crashes = 0

-----------------------------------------------------------------------------
(* The bridge: the creation callback, and the task it spawns.              *)

\* A track is published: its creation callback takes the name and spawns a
\* task that drains this track's broadcaster, unless the name is taken.
Publish(n, t) ==
  /\ n \in Origins /\ t \notin live[n]
  /\ live' = [live EXCEPT ![n] = @ \cup {t}]
  /\ IF claimed[n] THEN UNCHANGED <<claimed, task, follows>>
     ELSE /\ claimed' = [claimed EXCEPT ![n] = TRUE]
          /\ task' = [task EXCEPT ![n] = "claim"]
          /\ follows' = [follows EXCEPT ![n] = t]
  /\ UNCHANGED <<due, dying, lease, view, ghost, gone, struck, crashes>>

\* A track's last producer goes: the broadcaster closes.
Unpublish(n, t) ==
  /\ t \in live[n]
  /\ live' = [live EXCEPT ![n] = @ \ {t}]
  /\ follows' = [follows EXCEPT ![n] = IF @ = t THEN None ELSE @]
  /\ UNCHANGED <<claimed, task, due, dying, lease, view, ghost, gone, struck, crashes>>

\* claim: write the lease, start the renewer.  The error path of the caller
\* needs a lease that does not serialize and cannot happen.
ClaimBroadcast(n) ==
  /\ task[n] = "claim"
  /\ task' = [task EXCEPT ![n] = "held"]
  /\ lease' = [lease EXCEPT ![n] = Lease]
  /\ due' = [due EXCEPT ![n] = Renew]
  /\ gone' = [gone EXCEPT ![n] = 0]
  /\ struck' = [struck EXCEPT ![n] = FALSE]
  /\ UNCHANGED <<live, claimed, follows, dying, view, ghost, crashes>>

\* Mutant: the task waits for a broadcaster that it keeps open itself.
DropClaimNever(n) ==
  /\ Held(n) /\ follows[n] = None /\ live[n] # {} /\ dying[n] = "no"
  /\ task' = [task EXCEPT ![n] = "dropped"]
  /\ dying' = [dying EXCEPT ![n] = "stopping"]
  /\ UNCHANGED <<live, claimed, follows, due, lease, view, ghost, gone, struck, crashes>>

\* The drain has ended and the claim is dropped: stop is sent, then the
\* renewer is aborted.  A renewer waiting for its tick may see the stop
\* first; one whose tick is due may be about to write.
DropClaim(n) ==
  /\ Held(n) /\ follows[n] = None /\ dying[n] = "no"
  /\ task' = [task EXCEPT ![n] = "dropped"]
  /\ \E how \in {"stopping"} \cup (IF due[n] <= 0 THEN {"writing"} ELSE {}) :
       dying' = [dying EXCEPT ![n] = how]
  /\ UNCHANGED <<live, claimed, follows, due, lease, view, ghost, gone, struck, crashes>>

\* Mutant: the name stays in the set.
ForgetNot(n) ==
  /\ task[n] = "dropped"
  /\ task' = [task EXCEPT ![n] = "none"]
  /\ UNCHANGED <<live, claimed, follows, due, dying, lease, view, ghost, gone, struck, crashes>>

\* Then the name leaves the dedup set.
Forget(n) ==
  /\ task[n] = "dropped"
  /\ task' = [task EXCEPT ![n] = "none"]
  /\ claimed' = [claimed EXCEPT ![n] = FALSE]
  /\ UNCHANGED <<live, follows, due, dying, lease, view, ghost, gone, struck, crashes>>

-----------------------------------------------------------------------------
(* Renewers.                                                               *)

\* Mutant: the lease is not extended, only rewritten.
RenewStale(n) ==
  /\ Held(n) /\ due[n] <= 0
  /\ due' = [due EXCEPT ![n] = Renew]
  /\ struck' = [struck EXCEPT ![n] = FALSE]
  /\ UNCHANGED <<bridge, dying, lease, view, ghost, gone, crashes>>

\* Mutant: a deleted key is not written again.
RenewIfPresent(n) ==
  /\ Held(n) /\ due[n] <= 0
  /\ lease' = [lease EXCEPT ![n] = IF @ > 0 THEN Lease ELSE 0]
  /\ due' = [due EXCEPT ![n] = Renew]
  /\ UNCHANGED <<bridge, dying, view, ghost, gone, struck, crashes>>

\* MissedTickBehavior::Delay: the next tick counts from this one.
RenewLease(n) ==
  /\ Held(n) /\ due[n] <= 0
  /\ lease' = [lease EXCEPT ![n] = Lease]
  /\ due' = [due EXCEPT ![n] = Renew]
  /\ struck' = [struck EXCEPT ![n] = FALSE]
  /\ UNCHANGED <<bridge, dying, view, ghost, gone, crashes>>

\* The old renewer was in its tick: it writes, and then sees the stop.
LateRenew(n) ==
  /\ dying[n] = "writing"
  /\ lease' = [lease EXCEPT ![n] = Lease]
  /\ dying' = [dying EXCEPT ![n] = "stopping"]
  /\ struck' = [struck EXCEPT ![n] = FALSE]
  /\ UNCHANGED <<bridge, due, view, ghost, gone, crashes>>

\* The old renewer saw the stop before the abort: it deletes the key, which
\* by then may carry the lease of a newer claim.
Tombstone(n) ==
  /\ dying[n] = "stopping"
  /\ lease' = [lease EXCEPT ![n] = 0]
  /\ struck' = [struck EXCEPT ![n] = Held(n)]
  /\ dying' = [dying EXCEPT ![n] = "no"]
  /\ UNCHANGED <<bridge, due, view, ghost, gone, crashes>>

\* The abort came first: no tombstone.
Aborted(n) ==
  /\ dying[n] # "no"
  /\ dying' = [dying EXCEPT ![n] = "no"]
  /\ UNCHANGED <<bridge, due, lease, view, ghost, gone, struck, crashes>>

-----------------------------------------------------------------------------
(* Gossip, crashes and time.                                               *)

\* Mutant: the receiver counts the lease from the moment it hears of it.
GossipRestamped(m, n) ==
  /\ m # n /\ view[m][n] # lease[n]
  /\ view' = [view EXCEPT ![m][n] = IF lease[n] > 0 THEN Lease ELSE 0]
  /\ UNCHANGED <<bridge, due, dying, lease, ghost, gone, struck, crashes>>

\* m receives the current state of n.  Rounds may be lost or late.
Gossip(m, n) ==
  /\ m # n /\ view[m][n] # lease[n]
  /\ view' = [view EXCEPT ![m][n] = lease[n]]
  /\ UNCHANGED <<bridge, due, dying, lease, ghost, gone, struck, crashes>>

\* n crashes and comes back empty, under a new generation.  Its peers keep
\* what they knew of the old generation beside what they hear of the new.
Crash(n) ==
  /\ crashes < MaxCrash
  /\ crashes' = crashes + 1
  /\ live' = [live EXCEPT ![n] = {}]
  /\ claimed' = [claimed EXCEPT ![n] = FALSE]
  /\ task' = [task EXCEPT ![n] = "none"]
  /\ follows' = [follows EXCEPT ![n] = None]
  /\ dying' = [dying EXCEPT ![n] = "no"]
  /\ lease' = [lease EXCEPT ![n] = 0]
  /\ struck' = [struck EXCEPT ![n] = FALSE]
  /\ ghost' = [m \in Nodes |-> [k \in Nodes |->
                 IF m = n THEN 0
                 ELSE IF k = n /\ view[m][k] > ghost[m][k] THEN view[m][k]
                 ELSE ghost[m][k]]]
  /\ view' = [m \in Nodes |-> [k \in Nodes |->
                 IF m = n \/ k = n THEN 0 ELSE view[m][k]]]
  /\ UNCHANGED <<due, gone>>

Down(x) == IF x > 0 THEN x - 1 ELSE 0

\* Time passes.  Renewals run at most Slack late, and an old renewer's last
\* poll takes no time on this scale.
Tick ==
  /\ \A n \in Nodes : dying[n] = "no" /\ (Held(n) => due[n] > 0 - Slack)
  /\ lease' = [n \in Nodes |-> Down(lease[n])]
  /\ view' = [m \in Nodes |-> [n \in Nodes |-> Down(view[m][n])]]
  /\ ghost' = [m \in Nodes |-> [n \in Nodes |-> Down(ghost[m][n])]]
  /\ due' = [n \in Nodes |-> IF Held(n) THEN due[n] - 1 ELSE due[n]]
  /\ gone' = [n \in Nodes |-> IF ~Held(n) /\ gone[n] < Lease THEN gone[n] + 1 ELSE gone[n]]
  /\ UNCHANGED <<bridge, dying, struck, crashes>>

Bridge(n) == ClaimBroadcast(n) \/ DropClaim(n) \/ Forget(n)
LastPoll(n) == LateRenew(n) \/ Tombstone(n) \/ Aborted(n)

Next ==
  \/ \E n \in Nodes, t \in Tracks : Publish(n, t) \/ Unpublish(n, t)
  \/ \E n \in Nodes : Bridge(n) \/ RenewLease(n) \/ LastPoll(n) \/ Crash(n)
  \/ \E m, n \in Nodes : Gossip(m, n)
  \/ Tick

Spec == Init /\ [][Next]_vars

\* Tasks run, and time passes however busy the publishers are; nothing is
\* assumed of gossip or publishers.
FairSpec ==
  /\ Spec
  /\ \A n \in Nodes : WF_vars(Bridge(n)) /\ WF_vars(RenewLease(n)) /\ WF_vars(LastPoll(n))
  /\ SF_vars(Tick)

-----------------------------------------------------------------------------
(* find_owner at node m: select_winner over everything m has been told.    *)

Seen(m, n) ==
  LET told == IF n = m THEN lease[n] ELSE view[m][n] IN
    IF ghost[m][n] > told THEN ghost[m][n] ELSE told

\* A later expiry wins, then the larger owner string.
Beats(m, n, k) == Seen(m, n) > Seen(m, k) \/ (Seen(m, n) = Seen(m, k) /\ n > k)

IsOwner(m, n) == Seen(m, n) > 0 /\ \A k \in Nodes \ {n} : Beats(m, n, k)

-----------------------------------------------------------------------------
(* Properties.                                                             *)

\* Type invariant; the name is in the dedup set as long as its task lives.
TypeOK ==
  /\ live \in [Nodes -> SUBSET Tracks]
  /\ claimed \in [Nodes -> BOOLEAN]
  /\ task \in [Nodes -> {"none", "claim", "held", "dropped"}]
  /\ \A n \in Nodes : claimed[n] <=> task[n] # "none"
  /\ follows \in [Nodes -> Tracks \cup {None}]
  /\ due \in [Nodes -> (0 - Slack)..Renew]
  /\ dying \in [Nodes -> {"no", "stopping", "writing"}]
  /\ lease \in [Nodes -> 0..Lease]
  /\ view \in [Nodes -> [Nodes -> 0..Lease]]
  /\ ghost \in [Nodes -> [Nodes -> 0..Lease]]
  /\ gone \in [Nodes -> 0..Lease]
  /\ struck \in [Nodes -> BOOLEAN]
  /\ crashes \in 0..MaxCrash

\* The lease of a held claim never lapses, although renewals may run late,
\* unless the tombstone of the claim before it has just deleted it.
HeldLeaseLives == \A n \in Nodes : Held(n) /\ ~struck[n] => lease[n] > 0

\* A node is named as the owner, by anyone, for less than one lease after
\* it dropped its claim or crashed ("the lease expires naturally", "Peers
\* converge on 'no owner' after the expiry passes"), whatever became of the
\* tombstone and of gossip.
StaleOwnerExpires ==
  \A m, n \in Nodes : IsOwner(m, n) /\ ~Held(n) => gone[n] < Lease

\* A held claim is published, or published again after an old tombstone hit
\* it, or dropped.
HeldIsPublished == \A n \in Nodes : Held(n) ~> (lease[n] > 0 \/ ~Held(n))

\* A claim is released once no track of the broadcast is published: the
\* task that holds it keeps no handle on the broadcaster it drains.
ClaimReleased ==
  \A n \in Nodes : (Held(n) /\ live[n] = {}) ~> (~Held(n) \/ live[n] # {})

\* Claims follow the tracks: a claim that is held gets published, and one that
\* is no longer needed gets dropped.
ClaimsSettle == HeldIsPublished /\ ClaimReleased
=============================================================================
