--------------------------- MODULE ClusterProofs ---------------------------
(***************************************************************************)
(* Proofs about the crates that join nodes and viewers.  ClusterClaim: for *)
(* any number of nodes and tracks and any lease, renewal interval and      *)
(* lateness with Renew + Slack < Lease, a held claim's lease does not      *)
(* lapse and a former owner is named for less than one lease.              *)
(* FederationLink: for any number of links and any delays, shift cap and   *)
(* counter limit that fit together, the status of a link is honest, no     *)
(* task survives the runner, and the wait grows to its largest value while *)
(* passes keep failing.  MeshCoordinator: for any number of sessions and   *)
(* peer ids and any limits of the tree, as long as operations do not       *)
(* overlap, parents and children lists agree, no peer relays to more       *)
(* children than it may, none is deeper, and no more are roots than the    *)
(* operator allows.                                                        *)
(***************************************************************************)
EXTENDS ClusterClaim, FederationLink, MeshCoordinator, TLAPS, FiniteSetTheorems, SequenceTheorems
-----------------------------------------------------------------------------
(* ClusterClaim. *)

\* What a lease is worth is tied to the renewer's next tick.
Renewed == \A n \in Nodes : Held(n) /\ ~struck[n] => lease[n] >= Lease - Renew + due[n]

\* Only a node that holds a claim, or whose last renewer still runs, can
\* write a lease; it has not been gone at all.
WriterPresent == \A n \in Nodes : Held(n) \/ dying[n] # "no" => gone[n] = 0

\* No copy of a lease outlives the node's last claim by more than a lease.
Aged ==
  /\ \A n \in Nodes : lease[n] + gone[n] <= Lease
  /\ \A m, n \in Nodes : view[m][n] + gone[n] <= Lease
  /\ \A m, n \in Nodes : ghost[m][n] + gone[n] <= Lease

\* The inductive invariant.
CInv == TypeOK /\ Renewed /\ WriterPresent /\ Aged

LEMMA InitCInv == Init => CInv
BY ClaimAssumption DEF Init, CInv, TypeOK, Renewed, WriterPresent, Aged, Held, Nodes

LEMMA BridgeStep ==
  ASSUME CInv, NEW n \in Nodes, Bridge(n)
  PROVE  CInv'
<1>1. CASE ClaimBroadcast(n)
  BY <1>1, ClaimAssumption
     DEF ClaimBroadcast, CInv, TypeOK, Renewed, WriterPresent, Aged, Held
<1>2. CASE DropClaim(n)
  BY <1>2, ClaimAssumption
     DEF DropClaim, CInv, TypeOK, Renewed, WriterPresent, Aged, Held
<1>3. CASE Forget(n)
  BY <1>3, ClaimAssumption
     DEF Forget, CInv, TypeOK, Renewed, WriterPresent, Aged, Held
<1> QED BY <1>1, <1>2, <1>3 DEF Bridge

LEMMA PublisherStep ==
  ASSUME CInv, NEW n \in Nodes, NEW t \in Tracks, Publish(n, t) \/ Unpublish(n, t)
  PROVE  CInv'
<1>1. CASE Publish(n, t)
  <2>1. live' \in [Nodes -> SUBSET Tracks]
    BY <1>1 DEF Publish, CInv, TypeOK
  <2>2. UNCHANGED <<due, dying, lease, view, ghost, gone, struck, crashes>>
    BY <1>1 DEF Publish
  <2>3. /\ claimed' \in [Nodes -> BOOLEAN]
        /\ task' \in [Nodes -> {"none", "claim", "held", "dropped"}]
        /\ follows' \in [Nodes -> Tracks \cup {None}]
        /\ \A k \in Nodes : claimed'[k] <=> task'[k] # "none"
    <3>1. CASE claimed[n]
      BY <1>1, <3>1 DEF Publish, CInv, TypeOK
    <3>2. CASE ~claimed[n]
      <4>1. /\ claimed' = [claimed EXCEPT ![n] = TRUE]
            /\ task' = [task EXCEPT ![n] = "claim"]
            /\ follows' = [follows EXCEPT ![n] = t]
        BY <1>1, <3>2 DEF Publish
      <4>2. claimed' \in [Nodes -> BOOLEAN]
        BY <4>1 DEF CInv, TypeOK
      <4>3. \A k \in Nodes : claimed'[k] <=> task'[k] # "none"
        <5> SUFFICES ASSUME NEW k \in Nodes PROVE claimed'[k] <=> task'[k] # "none"
          OBVIOUS
        <5>1. CASE k = n
          BY <4>1, <5>1 DEF CInv, TypeOK
        <5>2. CASE k # n
          BY <4>1, <5>2 DEF CInv, TypeOK
        <5> QED BY <5>1, <5>2
      <4> QED BY <4>1, <4>2, <4>3 DEF CInv, TypeOK
    <3> QED BY <3>1, <3>2
  <2>4. \A k \in Nodes : task'[k] = "held" <=> task[k] = "held"
    BY <1>1 DEF Publish, CInv, TypeOK
  <2> QED BY <2>1, <2>2, <2>3, <2>4 DEF CInv, TypeOK, Renewed, WriterPresent, Aged, Held
<1>2. CASE Unpublish(n, t)
  BY <1>2, ClaimAssumption
     DEF Unpublish, CInv, TypeOK, Renewed, WriterPresent, Aged, Held
<1> QED BY <1>1, <1>2

LEMMA RenewerStep ==
  ASSUME CInv, NEW n \in Nodes, RenewLease(n) \/ LastPoll(n)
  PROVE  CInv'
<1>1. CASE RenewLease(n)
  BY <1>1, ClaimAssumption
     DEF RenewLease, bridge, CInv, TypeOK, Renewed, WriterPresent, Aged, Held
<1>2. CASE LateRenew(n)
  BY <1>2, ClaimAssumption
     DEF LateRenew, bridge, CInv, TypeOK, Renewed, WriterPresent, Aged, Held
<1>3. CASE Tombstone(n)
  BY <1>3, ClaimAssumption
     DEF Tombstone, bridge, CInv, TypeOK, Renewed, WriterPresent, Aged, Held
<1>4. CASE Aborted(n)
  BY <1>4, ClaimAssumption
     DEF Aborted, bridge, CInv, TypeOK, Renewed, WriterPresent, Aged, Held
<1> QED BY <1>1, <1>2, <1>3, <1>4 DEF LastPoll

LEMMA GossipStep ==
  ASSUME CInv, NEW m \in Nodes, NEW n \in Nodes, Gossip(m, n)
  PROVE  CInv'
<1>1. lease[n] \in 0..Lease /\ lease[n] + gone[n] <= Lease
  BY DEF CInv, TypeOK, Aged
<1>2. view' \in [Nodes -> [Nodes -> 0..Lease]]
  BY <1>1 DEF Gossip, CInv, TypeOK
<1>3. \A k, l \in Nodes : view'[k][l] = view[k][l] \/ (l = n /\ view'[k][l] = lease[n])
  BY DEF Gossip, CInv, TypeOK
<1>4. TypeOK' /\ Renewed' /\ WriterPresent'
  BY <1>2 DEF Gossip, bridge, CInv, TypeOK, Renewed, WriterPresent, Held
<1>5. Aged'
  BY <1>1, <1>3 DEF Gossip, bridge, CInv, Aged
<1> QED BY <1>4, <1>5 DEF CInv

LEMMA CrashStep ==
  ASSUME CInv, NEW n \in Nodes, Crash(n)
  PROVE  CInv'
<1>1. view' \in [Nodes -> [Nodes -> 0..Lease]] /\ ghost' \in [Nodes -> [Nodes -> 0..Lease]]
  BY ClaimAssumption DEF Crash, CInv, TypeOK
<1>2. TypeOK'
  BY <1>1, ClaimAssumption DEF Crash, CInv, TypeOK
<1>3. Renewed' /\ WriterPresent'
  BY ClaimAssumption DEF Crash, CInv, TypeOK, Renewed, WriterPresent, Held
<1>4. \A k \in Nodes : lease'[k] = 0 \/ lease'[k] = lease[k]
  BY DEF Crash, CInv, TypeOK
<1>5. \A k, l \in Nodes : view'[k][l] \in {0, view[k][l]}
  BY DEF Crash
<1>6. \A k, l \in Nodes : ghost'[k][l] \in {0, view[k][l], ghost[k][l]}
  BY DEF Crash
<1>7. Aged'
  <2>1. \A k \in Nodes : gone'[k] = gone[k] /\ gone[k] \in 0..Lease
    BY DEF Crash, CInv, TypeOK
  <2> QED BY <1>4, <1>5, <1>6, <2>1, ClaimAssumption DEF CInv, Aged
<1> QED BY <1>2, <1>3, <1>7 DEF CInv

LEMMA DownFact ==
  ASSUME NEW x \in 0..Lease
  PROVE  /\ Down(x) \in 0..Lease
         /\ x > 0 => Down(x) = x - 1
         /\ x = 0 => Down(x) = 0
BY ClaimAssumption DEF Down

LEMMA TickStep ==
  ASSUME CInv, Tick
  PROVE  CInv'
<1> USE ClaimAssumption
<1>1. \A n \in Nodes : /\ lease[n] \in 0..Lease /\ gone[n] \in 0..Lease
                       /\ due[n] \in (0 - Slack)..Renew
  BY DEF CInv, TypeOK
<1>2. \A m, n \in Nodes : view[m][n] \in 0..Lease /\ ghost[m][n] \in 0..Lease
  BY DEF CInv, TypeOK
<1>3. \A n \in Nodes : lease'[n] = Down(lease[n])
  BY DEF Tick
<1>4. \A m, n \in Nodes : view'[m][n] = Down(view[m][n]) /\ ghost'[m][n] = Down(ghost[m][n])
  BY DEF Tick
<1>5. \A n \in Nodes : gone'[n] = IF ~Held(n) /\ gone[n] < Lease THEN gone[n] + 1 ELSE gone[n]
  BY DEF Tick
<1>6. \A n \in Nodes : due'[n] = IF Held(n) THEN due[n] - 1 ELSE due[n]
  BY DEF Tick
<1>7. \A n \in Nodes : /\ Held(n)' <=> Held(n)
                       /\ dying'[n] = "no" /\ struck'[n] = struck[n]
                       /\ Held(n) => due[n] > 0 - Slack
  BY DEF Tick, bridge, Held
<1>8. TypeOK'
  <2>1. lease' \in [Nodes -> 0..Lease]
    BY <1>1, DownFact DEF Tick
  <2>2. view' \in [Nodes -> [Nodes -> 0..Lease]]
    BY <1>2, DownFact DEF Tick
  <2>3. ghost' \in [Nodes -> [Nodes -> 0..Lease]]
    BY <1>2, DownFact DEF Tick
  <2>4. gone' \in [Nodes -> 0..Lease]
    BY <1>1 DEF Tick
  <2>5. due' \in [Nodes -> (0 - Slack)..Renew]
    BY <1>1, <1>7 DEF Tick
  <2> QED BY <2>1, <2>2, <2>3, <2>4, <2>5 DEF Tick, bridge, CInv, TypeOK
<1>9. Renewed'
  <2> SUFFICES ASSUME NEW n \in Nodes, Held(n), ~struck[n]
               PROVE  lease'[n] >= Lease - Renew + due'[n]
    BY <1>7 DEF Renewed
  <2>1. lease[n] >= Lease - Renew + due[n] /\ due[n] > 0 - Slack
    BY <1>7 DEF CInv, Renewed
  <2>2. lease[n] > 0
    BY <1>1, <2>1
  <2> QED BY <1>1, <1>3, <1>6, <2>1, <2>2, DownFact
<1>10. WriterPresent'
  BY <1>1, <1>5, <1>7 DEF CInv, WriterPresent
<1>11. Aged'
  <2>1. \A n \in Nodes : lease'[n] + gone'[n] <= Lease
    <3> SUFFICES ASSUME NEW n \in Nodes PROVE lease'[n] + gone'[n] <= Lease
      OBVIOUS
    <3>1. lease[n] + gone[n] <= Lease
      BY DEF CInv, Aged
    <3> QED BY <3>1, <1>1, <1>3, <1>5, DownFact
  <2>2. \A m, n \in Nodes : view'[m][n] + gone'[n] <= Lease
    <3> SUFFICES ASSUME NEW m \in Nodes, NEW n \in Nodes
                 PROVE  view'[m][n] + gone'[n] <= Lease
      OBVIOUS
    <3>1. view[m][n] + gone[n] <= Lease
      BY DEF CInv, Aged
    <3> QED BY <3>1, <1>1, <1>2, <1>4, <1>5, DownFact
  <2>3. \A m, n \in Nodes : ghost'[m][n] + gone'[n] <= Lease
    <3> SUFFICES ASSUME NEW m \in Nodes, NEW n \in Nodes
                 PROVE  ghost'[m][n] + gone'[n] <= Lease
      OBVIOUS
    <3>1. ghost[m][n] + gone[n] <= Lease
      BY DEF CInv, Aged
    <3> QED BY <3>1, <1>1, <1>2, <1>4, <1>5, DownFact
  <2> QED BY <2>1, <2>2, <2>3 DEF Aged
<1> QED BY <1>8, <1>9, <1>10, <1>11 DEF CInv

LEMMA NextCInv == CInv /\ [Next]_vars => CInv'
<1> SUFFICES ASSUME CInv, [Next]_vars PROVE CInv'
  OBVIOUS
<1>1. CASE UNCHANGED vars
  BY <1>1 DEF vars, CInv, TypeOK, Renewed, WriterPresent, Aged, Held
<1>2. ASSUME NEW n \in Nodes, NEW t \in Tracks, Publish(n, t) \/ Unpublish(n, t)
      PROVE  CInv'
  BY <1>2, PublisherStep
<1>3. ASSUME NEW n \in Nodes, Bridge(n) PROVE CInv'
  BY <1>3, BridgeStep
<1>4. ASSUME NEW n \in Nodes, RenewLease(n) \/ LastPoll(n) PROVE CInv'
  BY <1>4, RenewerStep
<1>5. ASSUME NEW n \in Nodes, Crash(n) PROVE CInv'
  BY <1>5, CrashStep
<1>6. ASSUME NEW m \in Nodes, NEW n \in Nodes, Gossip(m, n) PROVE CInv'
  BY <1>6, GossipStep
<1>7. CASE Tick
  BY <1>7, TickStep
<1> QED BY <1>1, <1>2, <1>3, <1>4, <1>5, <1>6, <1>7 DEF Next

\* The bridge, its leases and every copy of them are always well-typed; the
\* name is in the dedup set exactly while its task lives.
THEOREM ClaimTypeCorrect == Spec => []TypeOK
<1>1. CInv => TypeOK
  BY DEF CInv
<1> QED BY <1>1, InitCInv, NextCInv, PTL DEF Spec

\* The lease of a held claim does not lapse, however late the renewals run
\* within Slack, except after an old renewer's tombstone.
THEOREM HeldLeaseNeverLapses == Spec => []HeldLeaseLives
<1>1. CInv => HeldLeaseLives
  <2> SUFFICES ASSUME CInv, NEW n \in Nodes, Held(n), ~struck[n]
               PROVE  lease[n] > 0
    BY DEF HeldLeaseLives
  <2>1. lease[n] >= Lease - Renew + due[n]
    BY DEF CInv, Renewed
  <2>2. lease[n] \in 0..Lease /\ due[n] \in (0 - Slack)..Renew
    BY DEF CInv, TypeOK
  <2> QED BY <2>1, <2>2, ClaimAssumption
<1> QED BY <1>1, InitCInv, NextCInv, PTL DEF Spec

\* No node is named as the owner a lease or more after it last held a claim,
\* although tombstones and gossip may be lost and the node may have crashed.
THEOREM FormerOwnersExpire == Spec => []StaleOwnerExpires
<1>1. CInv => StaleOwnerExpires
  <2> SUFFICES ASSUME CInv, NEW m \in Nodes, NEW n \in Nodes, Seen(m, n) > 0
               PROVE  gone[n] < Lease
    BY DEF StaleOwnerExpires, IsOwner
  <2>1. /\ lease[n] \in 0..Lease /\ view[m][n] \in 0..Lease
        /\ ghost[m][n] \in 0..Lease /\ gone[n] \in 0..Lease
    BY DEF CInv, TypeOK
  <2>2. /\ lease[n] + gone[n] <= Lease /\ view[m][n] + gone[n] <= Lease
        /\ ghost[m][n] + gone[n] <= Lease
    BY DEF CInv, Aged
  <2>3. Seen(m, n) \in {lease[n], view[m][n], ghost[m][n]}
    BY DEF Seen
  <2> QED BY <2>1, <2>2, <2>3, ClaimAssumption
<1> QED BY <1>1, InitCInv, NextCInv, PTL DEF Spec
-----------------------------------------------------------------------------
(* FederationLink. *)

\* A link's last delay is one of those next_delay gives for its attempts.
DelayFits ==
  \A l \in Links :
    \/ link[l].attempt = 0 /\ link[l].delay = 0
    \/ link[l].delay \in next_delay(link[l].attempt)

\* The runner goes through the links in order, and none that it has passed is
\* left; a task is aborted only when the token is cancelled.
RunnerInOrder ==
  /\ runner.at = "up" => runner.next = 1
  /\ runner.at # "up" => shut
  /\ aborted # {} => shut
  /\ runner.at = "closing" => \A l \in Links : l < runner.next => At(l, "gone") \/ l \in aborted

\* The inductive invariant.
FInv == FederationTypeOK /\ StatusHonest /\ NoTaskSurvives /\ DelayFits /\ RunnerInOrder

-----------------------------------------------------------------------------
(* The delays. *)

\* Every attempt's delay is a number between the two bounds.
LEMMA DoubledBounds ==
  ASSUME NEW k \in Nat
  PROVE  Doubled(k) \in Nat /\ BackoffInitial <= Doubled(k) /\ Doubled(k) <= BackoffMax
<1> DEFINE s == Least(k, ShiftCap)
<1>1. s \in 0..ShiftCap
  BY FederationAssumption DEF Least
<1>2. 2^s \in Nat \ {0}
  BY <1>1, ShiftAssumption
<1> DEFINE p == 2^s
<1>3. p \in Nat \ {0}
  BY <1>2
<1> HIDE DEF p
<1>4. BackoffInitial * p \in Nat /\ BackoffInitial * p >= BackoffInitial
  BY <1>3, FederationAssumption
<1>5. Doubled(k) = Least(BackoffInitial * p, BackoffMax)
  BY DEF Doubled, p
<1> QED BY <1>4, <1>5, FederationAssumption DEF Least

\* At the cap and beyond, the delay is the largest.
LEMMA DoubledCapped ==
  ASSUME NEW k \in Nat, k >= ShiftCap
  PROVE  Doubled(k) = BackoffMax
<1>1. Least(k, ShiftCap) = ShiftCap
  BY FederationAssumption DEF Least
<1>2. ShiftCap \in 0..ShiftCap
  BY FederationAssumption
<1>3. 2^ShiftCap \in Nat \ {0}
  BY <1>2, ShiftAssumption
<1> DEFINE p == 2^ShiftCap
<1>4. p \in Nat \ {0} /\ BackoffMax <= BackoffInitial * p
  BY <1>3, FederationAssumption
<1>5. Doubled(k) = Least(BackoffInitial * p, BackoffMax)
  BY <1>1 DEF Doubled
<1> HIDE DEF p
<1>6. BackoffInitial * p \in Nat
  BY <1>4, FederationAssumption
<1> QED BY <1>4, <1>5, <1>6, FederationAssumption DEF Least

\* Below the cap, one more attempt doubles the delay or makes it the largest.
LEMMA DoubledDoubles ==
  ASSUME NEW k \in Nat
  PROVE  Doubled(k + 1) = BackoffMax \/ Doubled(k + 1) = 2 * Doubled(k)
<1>1. CASE k + 1 > ShiftCap
  BY <1>1, DoubledCapped, k + 1 \in Nat, FederationAssumption
<1>2. CASE k + 1 <= ShiftCap
  <2>1. k \in 0..ShiftCap /\ k < ShiftCap /\ k + 1 \in 0..ShiftCap
    BY <1>2, FederationAssumption
  <2>2. 2^k \in Nat \ {0} /\ 2^(k + 1) = 2 * 2^k
    BY <2>1, ShiftAssumption
  <2>3. Least(k, ShiftCap) = k /\ Least(k + 1, ShiftCap) = k + 1
    BY <1>2, FederationAssumption DEF Least
  <2> DEFINE p == 2^k
             b == BackoffInitial * p
  <2>4. Doubled(k) = Least(b, BackoffMax) /\ Doubled(k + 1) = Least(BackoffInitial * (2 * p), BackoffMax)
    BY <2>2, <2>3 DEF Doubled
  <2>5. p \in Nat
    BY <2>2
  <2> HIDE DEF p
  <2>6. b \in Nat /\ BackoffInitial * (2 * p) = 2 * b
    BY <2>5, FederationAssumption
  <2> HIDE DEF b
  <2> QED BY <2>4, <2>6, FederationAssumption DEF Least
<1> QED BY <1>1, <1>2, FederationAssumption

\* A delay is within its bounds, and is never zero.
LEMMA DelayBounds ==
  ASSUME NEW k \in Nat, NEW d \in next_delay(k)
  PROVE  d \in Delays /\ d # 0 /\ d \in Nat
         /\ 10 * d >= 9 * Doubled(k) /\ 10 * d <= 11 * Doubled(k)
<1> DEFINE b == Doubled(k)
<1>1. b \in Nat /\ BackoffInitial <= b /\ b <= BackoffMax
  BY DoubledBounds
<1>2. d = b - b \div 10 \/ d = b + b \div 10
  BY DEF next_delay
<1>3. b \div 10 \in Nat /\ 10 * (b \div 10) <= b
  BY <1>1
<1> HIDE DEF b
<1>4. d \in Nat /\ 10 * d >= 9 * b /\ 10 * d <= 11 * b
  BY <1>1, <1>2, <1>3
<1>5. d >= (9 * BackoffInitial) \div 10 /\ d <= (11 * BackoffMax) \div 10
  BY <1>1, <1>4, FederationAssumption
<1>6. d # 0
  BY <1>1, <1>4, FederationAssumption
<1>7. d \in Delays
  BY <1>4, <1>5, FederationAssumption DEF Delays
<1> QED BY <1>4, <1>6, <1>7 DEF b
-----------------------------------------------------------------------------
(* The invariant. *)

LEMMA NewLinkFits ==
  /\ NewLink \in LinkStates /\ NewLink.at = "top" /\ NewLink.attempt = 0 /\ NewLink.delay = 0
  /\ Gone \in LinkStates /\ Gone.at = "gone" /\ Gone.attempt = 0 /\ Gone.delay = 0
<1>1. NewLink \in LinkStates
  BY FederationAssumption DEF NewLink, LinkStates
<1>2. NewLink.at = "top" /\ NewLink.attempt = 0 /\ NewLink.delay = 0
  BY DEF NewLink
<1>3. Gone \in LinkStates
  BY <1>1 DEF Gone, LinkStates
<1>4. Gone.at = "gone" /\ Gone.attempt = 0 /\ Gone.delay = 0
  BY <1>1, <1>2 DEF Gone, LinkStates
<1> QED BY <1>1, <1>2, <1>3, <1>4

LEMMA InitFInv == FederationInit => FInv
<1> SUFFICES ASSUME FederationInit PROVE FInv
  OBVIOUS
<1>0. NewLink \in LinkStates
  BY NewLinkFits
<1>1. FederationTypeOK
  <2>1. 0 \in 0..MaxShadows /\ 1 \in 1..NumLinks + 1
    BY FederationAssumption
  <2>2. NewLink.at = "top"
    BY DEF NewLink
  <2> QED BY <1>0, <2>1, <2>2 DEF FederationInit, FederationTypeOK
<1>2. \A l \in Links : link[l] = NewLink /\ status[l] = "Connecting"
  BY DEF FederationInit
<1>3. NewLink.at = "top" /\ NewLink.attempt = 0 /\ NewLink.delay = 0
  BY DEF NewLink
<1>4. StatusHonest
  BY <1>2, <1>3 DEF StatusHonest
<1>5. DelayFits
  BY <1>2, <1>3 DEF DelayFits
<1>6. NoTaskSurvives /\ RunnerInOrder
  BY DEF FederationInit, NoTaskSurvives, RunnerInOrder
<1> QED BY <1>1, <1>4, <1>5, <1>6 DEF FInv

\* A step of one task that leaves the others, the token and the runner alone
\* keeps the invariant if the link it moves is as it should be afterwards.
LEMMA LinkMoves ==
  ASSUME FInv, NEW l \in Links, NEW r, NEW st,
         link' = [link EXCEPT ![l] = r], status' = [status EXCEPT ![l] = st],
         UNCHANGED <<shadows, shut, aborted, runner>>,
         r \in LinkStates,
         st \in {"Connecting", "Connected", "Failed"},
         r.at = "sleep" => r.delay # 0,
         st = "Connected" => r.at \in {"session", "settle"} \/ (shut /\ r.at = "gone"),
         r.at \in {"session", "settle"} => st = "Connected",
         (r.attempt = 0 /\ r.delay = 0) \/ r.delay \in next_delay(r.attempt),
         At(l, "gone") => r.at = "gone"
  PROVE  FInv'
<1>1. /\ link \in [Links -> LinkStates]
      /\ status \in [Links -> {"Connecting", "Connected", "Failed"}]
  BY DEF FInv, FederationTypeOK
<1>2. /\ link'[l] = r /\ \A k \in Links : k # l => link'[k] = link[k]
      /\ status'[l] = st /\ \A k \in Links : k # l => status'[k] = status[k]
  BY <1>1
<1>3. FederationTypeOK'
  BY <1>1, <1>2 DEF FInv, FederationTypeOK
<1>4. StatusHonest'
  BY <1>2 DEF FInv, StatusHonest, At
<1>5. \A k \in Links : At(k, "gone") => At(k, "gone")'
  BY <1>2 DEF At
<1>6. NoTaskSurvives'
  BY <1>5 DEF FInv, NoTaskSurvives
<1>7. DelayFits'
  BY <1>2 DEF FInv, DelayFits
<1>8. RunnerInOrder'
  BY <1>5 DEF FInv, RunnerInOrder
<1> QED BY <1>3, <1>4, <1>6, <1>7, <1>8 DEF FInv

\* A place where the task goes on, with the status that is honest there.
MayShow(where, st) ==
  /\ where \in {"top", "connect", "stuck", "session", "settle"}
  /\ st \in {"Connecting", "Connected", "Failed"}
  /\ st = "Connected" <=> where \in {"session", "settle"}

\* Where the task goes on with its attempts and its delay as they are.
LEMMA MoveStep ==
  ASSUME FInv, NEW l \in Links, NEW where, NEW st, MayShow(where, st),
         ~ At(l, "gone"), Move(l, where), status' = [status EXCEPT ![l] = st], Rest
  PROVE  FInv'
<1> DEFINE r == [link[l] EXCEPT !.at = where, !.lost = FALSE]
<1>1. link[l] \in LinkStates
  BY DEF FInv, FederationTypeOK
<1>2. r \in LinkStates
      /\ r.at = where /\ r.attempt = link[l].attempt /\ r.delay = link[l].delay
  BY <1>1 DEF LinkStates, MayShow
<1>3. link' = [link EXCEPT ![l] = r]
  BY <1>1 DEF Move, FInv, FederationTypeOK
<1>4. (r.attempt = 0 /\ r.delay = 0) \/ r.delay \in next_delay(r.attempt)
  BY <1>2 DEF FInv, DelayFits
<1> HIDE DEF r
<1> QED BY <1>2, <1>3, <1>4, LinkMoves DEF Rest, MayShow

\* Where it ends: the status stays, and may only do so when the token is
\* cancelled or no session is shown.
LEMMA ExitStep ==
  ASSUME FInv, NEW l \in Links, Exit(l), Rest, shut
  PROVE  FInv'
<1>1. status[l] \in {"Connecting", "Connected", "Failed"} /\ status' = [status EXCEPT ![l] = status[l]]
  BY DEF Exit, FInv, FederationTypeOK
<1>2. link' = [link EXCEPT ![l] = Gone]
  BY DEF Exit
<1>4. Gone \in LinkStates
      /\ Gone.at = "gone" /\ Gone.attempt = 0 /\ Gone.delay = 0
  BY NewLinkFits
<1> DEFINE r == Gone
           st == status[l]
<1>5. /\ r.at = "sleep" => r.delay # 0
      /\ st = "Connected" => r.at \in {"session", "settle"} \/ (shut /\ r.at = "gone")
      /\ r.at \in {"session", "settle"} => st = "Connected"
      /\ (r.attempt = 0 /\ r.delay = 0) \/ r.delay \in next_delay(r.attempt)
      /\ At(l, "gone") => r.at = "gone"
  BY <1>4
<1>6. /\ link' = [link EXCEPT ![l] = r] /\ status' = [status EXCEPT ![l] = st]
      /\ st \in {"Connecting", "Connected", "Failed"}
  BY <1>1, <1>2
<1>7. r \in LinkStates
  BY <1>4
<1> HIDE DEF r, st
<1> QED BY <1>5, <1>6, <1>7, LinkMoves DEF Rest

\* Where a pass failed.
LEMMA FailedStep ==
  ASSUME FInv, NEW l \in Links, NEW a \in 0..MaxAttempt, ~ At(l, "gone"), Failed(l, a), Rest
  PROVE  FInv'
<1>1. PICK d \in next_delay(a) :
        link' = [link EXCEPT ![l] = [at |-> "sleep", attempt |-> a, delay |-> d, lost |-> FALSE]]
  BY DEF Failed
<1>2. d \in Delays /\ d # 0
  BY DelayBounds, FederationAssumption
<1>3. status' = [status EXCEPT ![l] = "Failed"]
  BY DEF Failed, Report
<1> DEFINE r == [at |-> "sleep", attempt |-> a, delay |-> d, lost |-> FALSE]
<1>4. r \in LinkStates
      /\ r.at = "sleep" /\ r.delay = d /\ r.attempt = a /\ link' = [link EXCEPT ![l] = r]
  BY <1>1, <1>2 DEF LinkStates
<1> HIDE DEF r
<1> QED BY <1>2, <1>3, <1>4, LinkMoves DEF Rest

-----------------------------------------------------------------------------
(* The steps of a link's task. *)

\* A move that leaves the status as it is.
LEMMA QuietMove ==
  ASSUME FInv, NEW l \in Links, NEW where,
         where \in {"top", "connect", "stuck", "session", "settle"},
         ~ At(l, "gone"), Move(l, where), UNCHANGED status, Rest,
         status[l] = "Connected" <=> where \in {"session", "settle"}
  PROVE  FInv'
<1>1. status' = [status EXCEPT ![l] = status[l]] /\ status[l] \in {"Connecting", "Connected", "Failed"}
  BY DEF FInv, FederationTypeOK
<1> DEFINE st == status[l]
<1>2. status' = [status EXCEPT ![l] = st] /\ MayShow(where, st)
  BY <1>1 DEF MayShow
<1> HIDE DEF st
<1> QED BY <1>2, MoveStep

\* The attempt that failed was a number, and so is the next one.
LEMMA AttemptRange ==
  ASSUME FInv, NEW l \in Links
  PROVE  link[l].attempt \in 0..MaxAttempt /\ Least(link[l].attempt + 1, MaxAttempt) \in 0..MaxAttempt
<1>1. link[l].attempt \in 0..MaxAttempt
  BY DEF FInv, FederationTypeOK, LinkStates
<1> QED BY <1>1, FederationAssumption DEF Least

LEMMA FailedOnceMoreStep ==
  ASSUME FInv, NEW l \in Links, ~ At(l, "gone"), FailedOnceMore(l), Rest
  PROVE  FInv'
<1> DEFINE a == Least(link[l].attempt + 1, MaxAttempt)
<1>1. a \in 0..MaxAttempt /\ Failed(l, a)
  BY AttemptRange DEF FailedOnceMore
<1> HIDE DEF a
<1> QED BY <1>1, FailedStep

LEMMA TopStep == ASSUME FInv, NEW l \in Links, Top(l) PROVE FInv'
<1>1. CASE shut
  BY <1>1, ExitStep DEF Top
<1>2. CASE ~ shut
  <2>1. ~ At(l, "gone") /\ Move(l, "connect") /\ status' = [status EXCEPT ![l] = "Connecting"] /\ Rest
    BY <1>2 DEF Top, At, Report
  <2>2. MayShow("connect", "Connecting")
    BY DEF MayShow
  <2> QED BY <2>1, <2>2, MoveStep
<1> QED BY <1>1, <1>2

LEMMA ConnectOkStep == ASSUME FInv, NEW l \in Links, ConnectOk(l) PROVE FInv'
<1>1. ~ At(l, "gone") /\ Move(l, "session") /\ status' = [status EXCEPT ![l] = "Connected"] /\ Rest
  BY DEF ConnectOk, At, Report
<1>2. MayShow("session", "Connected")
  BY DEF MayShow
<1> QED BY <1>1, <1>2, MoveStep

LEMMA ConnectFailedStep == ASSUME FInv, NEW l \in Links, ConnectFailed(l) PROVE FInv'
<1>1. ~ At(l, "gone")
  BY DEF ConnectFailed, At
<1> QED BY <1>1, FailedOnceMoreStep DEF ConnectFailed

LEMMA SessionClosedStep == ASSUME FInv, NEW l \in Links, SessionClosed(l) PROVE FInv'
<1>1. ~ At(l, "gone")
  BY DEF SessionClosed, At
<1> QED BY <1>1, FailedOnceMoreStep DEF SessionClosed

LEMMA SettledStep == ASSUME FInv, NEW l \in Links, Settled(l) PROVE FInv'
<1>1. CASE shut
  BY <1>1, ExitStep DEF Settled
<1>2. CASE ~ shut
  <2>1. ~ At(l, "gone") /\ 0 \in 0..MaxAttempt
    BY FederationAssumption DEF Settled, At
  <2> QED BY <1>2, <2>1, FailedStep DEF Settled
<1> QED BY <1>1, <1>2

\* The moves between the attempts: no session is shown before the first
\* announcement, and none is hidden before the pass has ended.
LEMMA QuietSteps ==
  ASSUME FInv, NEW l \in Links,
         Hang(l) \/ Unhang(l) \/ StreamEnded(l) \/ SessionCancelled(l) \/ Wake(l)
  PROVE  FInv'
<1>1. /\ status[l] = "Connected" => link[l].at \in {"session", "settle", "gone"}
      /\ link[l].at \in {"session", "settle"} => status[l] = "Connected"
  BY DEF FInv, StatusHonest, At
<1>2. CASE Hang(l)
  <2>1. link[l].at = "connect"
    BY <1>2 DEF Hang, At
  <2>2. ~ At(l, "gone") /\ status[l] # "Connected"
    BY <1>1, <2>1 DEF At
  <2> QED BY <1>2, <2>2, QuietMove DEF Hang
<1>3. CASE Unhang(l)
  <2>1. link[l].at = "stuck"
    BY <1>3 DEF Unhang, At
  <2>2. ~ At(l, "gone") /\ status[l] # "Connected"
    BY <1>1, <2>1 DEF At
  <2> QED BY <1>3, <2>2, QuietMove DEF Unhang
<1>4. CASE StreamEnded(l) \/ SessionCancelled(l)
  <2>1. link[l].at = "session" /\ Move(l, "settle") /\ UNCHANGED status /\ Rest
    BY <1>4 DEF StreamEnded, SessionCancelled, At
  <2>2. ~ At(l, "gone") /\ status[l] = "Connected"
    BY <1>1, <2>1 DEF At
  <2> QED BY <2>1, <2>2, QuietMove
<1>5. CASE Wake(l)
  <2>1. link[l].at = "sleep"
    BY <1>5 DEF Wake, At
  <2>2. ~ At(l, "gone") /\ status[l] # "Connected"
    BY <1>1, <2>1 DEF At
  <2> QED BY <1>5, <2>2, QuietMove DEF Wake
<1> QED BY <1>2, <1>3, <1>4, <1>5

\* A task that is aborted finds the token cancelled.
LEMMA ExitSteps ==
  ASSUME FInv, NEW l \in Links, ConnectCancelled(l) \/ SleepCancelled(l) \/ LinkAborted(l)
  PROVE  FInv'
<1>1. shut /\ Exit(l) /\ Rest
  BY DEF ConnectCancelled, SleepCancelled, LinkAborted, FInv, RunnerInOrder
<1> QED BY <1>1, ExitStep

LEMMA PeerLostStep == ASSUME FInv, NEW l \in Links, PeerLost(l) PROVE FInv'
<1> DEFINE r == [link[l] EXCEPT !.lost = TRUE]
           st == status[l]
<1>1. link[l] \in LinkStates /\ link \in [Links -> LinkStates]
      /\ status \in [Links -> {"Connecting", "Connected", "Failed"}]
  BY DEF FInv, FederationTypeOK
<1>2. r \in LinkStates /\ r.at = link[l].at /\ r.attempt = link[l].attempt /\ r.delay = link[l].delay
  BY <1>1 DEF LinkStates
<1>3. link[l].at = "session" /\ Rest
  BY DEF PeerLost, At
<1>4. link' = [link EXCEPT ![l] = r] /\ status' = [status EXCEPT ![l] = st] /\ st \in {"Connecting", "Connected", "Failed"}
  BY <1>1 DEF PeerLost
<1>5. st = "Connected"
  BY <1>3 DEF FInv, StatusHonest
<1>6. (r.attempt = 0 /\ r.delay = 0) \/ r.delay \in next_delay(r.attempt)
  BY <1>2 DEF FInv, DelayFits
<1>7. r.at = "session" /\ ~ At(l, "gone")
  BY <1>2, <1>3 DEF At
<1> HIDE DEF r, st
<1> QED BY <1>2, <1>3, <1>4, <1>5, <1>6, <1>7, LinkMoves DEF Rest
-----------------------------------------------------------------------------
(* The forwarders and the runner. *)

LEMMA ForwarderSteps ==
  ASSUME FInv, NEW l \in Links, Announce(l) \/ ForwarderRefused(l) \/ ForwarderEnd(l)
  PROVE  FInv'
<1>1. shadows \in [Links -> 0..MaxShadows] /\ UNCHANGED <<link, status, shut, aborted, runner>>
  BY DEF FInv, FederationTypeOK, Announce, ForwarderRefused, ForwarderEnd
<1>2. shadows' \in [Links -> 0..MaxShadows]
  <2>1. CASE Announce(l)
    <3>1. shadows[l] \in 0..MaxShadows /\ shadows[l] < MaxShadows
      BY <1>1, <2>1 DEF Announce
    <3>2. shadows[l] + 1 \in 0..MaxShadows
      BY <3>1, FederationAssumption
    <3> QED BY <1>1, <2>1, <3>2 DEF Announce
  <2>2. CASE ForwarderRefused(l) \/ ForwarderEnd(l)
    <3>1. shadows[l] \in 0..MaxShadows /\ shadows[l] > 0 /\ shadows' = [shadows EXCEPT ![l] = @ - 1]
      BY <1>1, <2>2 DEF ForwarderRefused, ForwarderEnd
    <3>2. shadows[l] - 1 \in 0..MaxShadows
      BY <3>1, FederationAssumption
    <3> QED BY <1>1, <3>1, <3>2
  <2> QED BY <2>1, <2>2
<1> QED BY <1>1, <1>2 DEF FInv, FederationTypeOK, StatusHonest, NoTaskSurvives, DelayFits, RunnerInOrder, At

\* Nothing of the tasks changes and the token stays cancelled once it is: what
\* is left to show is the order in which the runner goes.
LEMMA RunnerMoves ==
  ASSUME FInv, Tasks, shut => shut', shut' \in BOOLEAN, aborted' \subseteq Links,
         runner' \in [at : {"up", "closing", "closed"}, next : 1..NumLinks + 1],
         NoTaskSurvives', RunnerInOrder'
  PROVE  FInv'
<1>1. FederationTypeOK'
  BY DEF FInv, FederationTypeOK, Tasks
<1>2. StatusHonest' /\ DelayFits'
  BY DEF FInv, StatusHonest, DelayFits, Tasks, At
<1> QED BY <1>1, <1>2 DEF FInv

\* The runner as the invariant has it.
LEMMA RunnerType ==
  ASSUME FInv
  PROVE  /\ runner \in [at : {"up", "closing", "closed"}, next : 1..NumLinks + 1]
         /\ shut \in BOOLEAN /\ aborted \subseteq Links
BY DEF FInv, FederationTypeOK

LEMMA TokenSteps ==
  ASSUME FInv, ServerShutdown \/ Drop \/ Shutdown
  PROVE  FInv'
<1>1. shut' = TRUE /\ Tasks
  BY DEF ServerShutdown, Drop, Shutdown
<1>2. CASE ServerShutdown
  <2>1. UNCHANGED <<aborted, runner>>
    BY <1>2 DEF ServerShutdown
  <2>2. NoTaskSurvives' /\ RunnerInOrder'
    BY <1>1, <2>1 DEF FInv, NoTaskSurvives, RunnerInOrder, Tasks, At
  <2> QED BY <1>1, <2>1, <2>2, RunnerType, RunnerMoves
<1>3. CASE Drop
  <2>1. aborted' = Links /\ runner' = [runner EXCEPT !.at = "closed"]
    BY <1>3 DEF Drop
  <2>2. runner' \in [at : {"up", "closing", "closed"}, next : 1..NumLinks + 1] /\ runner'.at = "closed"
    BY <2>1, RunnerType
  <2>3. NoTaskSurvives' /\ RunnerInOrder'
    BY <1>1, <2>1, <2>2 DEF NoTaskSurvives, RunnerInOrder
  <2> QED BY <1>1, <2>1, <2>2, <2>3, RunnerMoves
<1>4. CASE Shutdown
  <2>1. UNCHANGED aborted /\ runner' = [runner EXCEPT !.at = "closing"] /\ runner.at = "up"
    BY <1>4 DEF Shutdown
  <2>2. /\ runner' \in [at : {"up", "closing", "closed"}, next : 1..NumLinks + 1]
        /\ runner'.at = "closing" /\ runner'.next = runner.next
    BY <2>1, RunnerType
  <2>3. runner.next = 1
    BY <2>1 DEF FInv, RunnerInOrder
  <2>4. \A l \in Links : ~ (l < runner'.next)
    BY <2>2, <2>3, FederationAssumption DEF Links
  <2>5. NoTaskSurvives' /\ RunnerInOrder'
    BY <1>1, <2>2, <2>4 DEF NoTaskSurvives, RunnerInOrder
  <2> QED BY <1>1, <2>1, <2>2, <2>5, RunnerType, RunnerMoves
<1> QED BY <1>2, <1>3, <1>4

LEMMA ClosingSteps == ASSUME FInv, closing PROVE FInv'
<1>1. /\ runner.at = "closing" /\ shut
      /\ \A l \in Links : l < runner.next => At(l, "gone") \/ l \in aborted
  BY DEF closing, Awaited, GraceOver, Closed, FInv, RunnerInOrder
<1>2. Tasks /\ UNCHANGED shut
  BY DEF closing, Awaited, GraceOver, Closed
<1>3. CASE Awaited \/ GraceOver
  <2>1. /\ runner.next \in Links /\ runner' = [runner EXCEPT !.next = @ + 1]
        /\ aborted \subseteq aborted' /\ aborted' \subseteq aborted \cup {runner.next}
        /\ At(runner.next, "gone") \/ runner.next \in aborted'
    BY <1>3 DEF Awaited, GraceOver
  <2>2. /\ runner' \in [at : {"up", "closing", "closed"}, next : 1..NumLinks + 1]
        /\ runner'.at = "closing" /\ runner'.next = runner.next + 1
    BY <1>1, <2>1, RunnerType, FederationAssumption DEF Links
  <2>3. \A l \in Links : l < runner'.next => l < runner.next \/ l = runner.next
    BY <2>1, <2>2, FederationAssumption DEF Links
  <2>4. \A l \in Links : l < runner'.next => At(l, "gone")' \/ l \in aborted'
    BY <1>1, <1>2, <2>1, <2>3 DEF Tasks, At
  <2>5. aborted' \subseteq Links
    BY <2>1, RunnerType
  <2>6. NoTaskSurvives' /\ RunnerInOrder'
    BY <1>1, <1>2, <2>2, <2>4 DEF NoTaskSurvives, RunnerInOrder
  <2> QED BY <1>1, <1>2, <2>2, <2>5, <2>6, RunnerMoves
<1>4. CASE Closed
  <2>1. runner.next \notin Links /\ runner' = [runner EXCEPT !.at = "closed"] /\ UNCHANGED aborted
    BY <1>4 DEF Closed
  <2>2. /\ runner' \in [at : {"up", "closing", "closed"}, next : 1..NumLinks + 1]
        /\ runner'.at = "closed"
    BY <2>1, RunnerType
  <2>3. \A l \in Links : l < runner.next
    BY <2>1, RunnerType, FederationAssumption DEF Links
  <2>4. NoTaskSurvives' /\ RunnerInOrder'
    BY <1>1, <1>2, <2>1, <2>2, <2>3 DEF NoTaskSurvives, RunnerInOrder, Tasks, At
  <2> QED BY <1>1, <1>2, <2>1, <2>2, <2>4, RunnerType, RunnerMoves
<1> QED BY <1>3, <1>4 DEF closing
-----------------------------------------------------------------------------
(* The theorems. *)

LEMMA NextFInv == ASSUME FInv, [FederationNext]_federationVars PROVE FInv'
<1>1. CASE UNCHANGED federationVars \/ Ended
  <2>1. UNCHANGED federationVars
    BY <1>1 DEF Ended
  <2> QED BY <2>1 DEF federationVars, FInv, FederationTypeOK, StatusHonest, NoTaskSurvives, DelayFits, RunnerInOrder, At
<1>2. CASE ServerShutdown \/ Drop \/ Shutdown
  BY <1>2, TokenSteps
<1>3. CASE closing
  BY <1>3, ClosingSteps
<1>4. ASSUME NEW l \in Links,
             \/ run_link(l) \/ Hang(l) \/ Unhang(l) \/ Announce(l) \/ PeerLost(l) \/ StreamEnded(l)
             \/ ForwarderRefused(l) \/ ForwarderEnd(l)
      PROVE  FInv'
  <2>1. CASE Announce(l) \/ ForwarderRefused(l) \/ ForwarderEnd(l)
    BY <2>1, ForwarderSteps
  <2>2. CASE Hang(l) \/ Unhang(l) \/ StreamEnded(l) \/ SessionCancelled(l) \/ Wake(l)
    BY <2>2, QuietSteps
  <2>3. CASE ConnectCancelled(l) \/ SleepCancelled(l) \/ LinkAborted(l)
    BY <2>3, ExitSteps
  <2> QED BY <1>4, <2>1, <2>2, <2>3, TopStep, ConnectOkStep, ConnectFailedStep, SessionClosedStep,
            SettledStep, PeerLostStep DEF run_link
<1> QED BY <1>1, <1>2, <1>3, <1>4 DEF FederationNext

LEMMA FInvAlways == FederationSpec => []FInv
<1>1. FInv /\ [FederationNext]_federationVars => FInv'
  BY NextFInv
<1> QED BY InitFInv, <1>1, PTL DEF FederationSpec

\* run_link and FederationRunner: whatever the number of links and however
\* their passes, the token and the runner's two ways to end interleave, the
\* admin route shows a session exactly while there is one (or the last state
\* of a task that the token ended), a retry's wait is within its bounds, and
\* when the runner is gone every task has ended or is aborted.
THEOREM LinksHonest == FederationSpec => []LinksInv
<1>1. FInv => LinksInv
  BY DEF FInv, LinksInv
<1> QED BY <1>1, FInvAlways, PTL

\* One more failure: the wait grows, or is within its jitter of the largest.
LEMMA FailureGrows ==
  ASSUME FInv, NEW l \in Links, FailedOnceMore(l)
  PROVE  link'[l].delay > link[l].delay \/ 10 * link'[l].delay >= 9 * BackoffMax
<1> DEFINE a == link[l].attempt
           b == Least(a + 1, MaxAttempt)
<1>1. a \in 0..MaxAttempt /\ b \in 0..MaxAttempt
  BY AttemptRange
<1>2. PICK d \in next_delay(b) :
        link' = [link EXCEPT ![l] = [at |-> "sleep", attempt |-> b, delay |-> d, lost |-> FALSE]]
  BY DEF FailedOnceMore, Failed
<1>3. link'[l].delay = d
  BY <1>2 DEF FInv, FederationTypeOK
<1>4. (a = 0 /\ link[l].delay = 0) \/ link[l].delay \in next_delay(a)
  BY DEF FInv, DelayFits
<1> HIDE DEF a
<1>5. a \in Nat /\ b \in Nat
  BY <1>1, FederationAssumption
<1>6. d \in Nat /\ d # 0 /\ 10 * d >= 9 * Doubled(b)
  BY <1>5, DelayBounds
<1>7. CASE b = MaxAttempt
  <2>1. Doubled(b) = BackoffMax
    BY <1>5, <1>7, DoubledCapped, FederationAssumption
  <2> QED BY <1>3, <1>6, <2>1
<1>8. CASE b = a + 1
  <2>1. CASE Doubled(a + 1) = BackoffMax
    BY <1>3, <1>6, <1>8, <2>1
  <2>2. CASE Doubled(a + 1) = 2 * Doubled(a)
    <3>1. Doubled(a) \in Nat /\ Doubled(a) > 0
      BY <1>5, DoubledBounds, FederationAssumption
    <3>2. 10 * d >= 18 * Doubled(a)
      BY <1>6, <1>8, <2>2, <3>1
    <3>3. CASE link[l].delay \in next_delay(a)
      <4>1. link[l].delay \in Nat /\ 10 * link[l].delay <= 11 * Doubled(a)
        BY <1>5, <3>3, DelayBounds
      <4> QED BY <1>3, <1>6, <3>1, <3>2, <4>1
    <3> QED BY <1>3, <1>4, <1>6, <3>3
  <2> QED BY <1>5, <2>1, <2>2, DoubledDoubles
<1> QED BY <1>5, <1>7, <1>8, FederationAssumption DEF Least

\* next_delay and run_link's counter: while passes keep failing the wait
\* grows until it is within its jitter of BACKOFF_MAX, for every initial and
\* largest delay, every cap of the shift and every limit of the counter that
\* FederationAssumption admits.
THEOREM WaitGrows == FederationSpec => BackoffGrows
<1> DEFINE Grows == \A l \in Links :
             link[l].at \in {"connect", "session"} /\ link'[l].at = "sleep"
               => \/ link'[l].delay > link[l].delay
                  \/ 10 * link'[l].delay >= 9 * BackoffMax
<1>1. ASSUME FInv, FederationNext PROVE Grows
  <2> SUFFICES ASSUME NEW l \in Links, link[l].at \in {"connect", "session"}, link'[l].at = "sleep"
               PROVE  link'[l].delay > link[l].delay \/ 10 * link'[l].delay >= 9 * BackoffMax
    OBVIOUS
  <2>1. link \in [Links -> LinkStates]
    BY <1>1 DEF FInv, FederationTypeOK
  <2>2. CASE UNCHANGED link
    BY <2>2
  <2>3. ASSUME NEW k \in Links, run_link(k) \/ Hang(k) \/ Unhang(k) \/ PeerLost(k) \/ StreamEnded(k)
        PROVE  k = l
    <3> SUFFICES ASSUME k # l PROVE FALSE
      OBVIOUS
    <3>1. link'[l] = link[l]
      BY <2>1, <2>3 DEF run_link, Hang, Unhang, PeerLost, StreamEnded, Top, ConnectOk, ConnectFailed,
         ConnectCancelled, SessionClosed, SessionCancelled, Settled, Wake, SleepCancelled, LinkAborted,
         Move, Exit, FailedOnceMore, Failed
    <3> QED BY <3>1
  <2>4. CASE Top(l) \/ ConnectOk(l) \/ ConnectCancelled(l) \/ SessionCancelled(l) \/ Wake(l)
             \/ SleepCancelled(l) \/ LinkAborted(l) \/ Hang(l) \/ Unhang(l) \/ PeerLost(l) \/ StreamEnded(l)
    <3>1. link'[l].at # "sleep" \/ link'[l].at = link[l].at
      <4>1. link[l] \in LinkStates
        BY <2>1
      <4> QED BY <2>1, <2>4, <4>1, NewLinkFits DEF Top, ConnectOk, ConnectCancelled, SessionCancelled, Wake,
               SleepCancelled, LinkAborted, Hang, Unhang, PeerLost, StreamEnded, Move, Exit, LinkStates
    <3> QED BY <3>1
  <2>5. CASE ConnectFailed(l) \/ SessionClosed(l)
    BY <1>1, <2>5, FailureGrows DEF ConnectFailed, SessionClosed
  <2>6. ~ Settled(l)
    BY DEF Settled, At
  <2>7. \/ UNCHANGED link
        \/ \E k \in Links : run_link(k) \/ Hang(k) \/ Unhang(k) \/ PeerLost(k) \/ StreamEnded(k)
    BY <1>1 DEF FederationNext, Announce, ForwarderRefused, ForwarderEnd, ServerShutdown, Drop, Shutdown, closing,
       Awaited, GraceOver, Closed, Ended, Tasks, federationVars
  <2> QED BY <2>2, <2>3, <2>4, <2>5, <2>6, <2>7 DEF run_link
<1>2. FInv /\ [FederationNext]_federationVars => [Grows]_federationVars
  BY <1>1
<1>3. []FInv /\ [][FederationNext]_federationVars => [][Grows]_federationVars
  BY <1>2, PTL
<1> QED BY <1>3, FInvAlways, PTL DEF FederationSpec, BackoffGrows

-----------------------------------------------------------------------------
(* MeshCoordinator.  The tree and the operation in progress are parameters *)
(* of what follows: t is a tree, l the locals of a process.                *)

Trees == [Peers -> Infos \cup {Nil}]
There(t, p) == p # Nil /\ t[p] # Nil
Lists(t, q, p) == \E i \in DOMAIN t[q].children : t[q].children[i] = p
PointsTo(t, p, q) == There(t, p) /\ t[p].parent = q
Among(c, p) == \E i \in DOMAIN c : c[i] = p
Distinct(c) == \A i, j \in DOMAIN c : c[i] = c[j] => i = j
Ceiling(t, p) ==
  IF t[p].capacity = Nil \/ t[p].capacity > MaxChildren THEN MaxChildren ELSE t[p].capacity
HasRoom(t, p) == There(t, p) /\ Len(t[p].children) < Ceiling(t, p)
Roots(t) == {p \in Peers : There(t, p) /\ t[p].role = "root"}

Locals == [pc : Pcs, id : Peers \cup {Nil}, cap : Nat \cup {Nil}, parent : Peers \cup {Nil}, depth : Nat,
           left : Seq(Peers \cup {Nil}), todo : Seq(Peers), dead : SUBSET Peers]

\* What an operation has in hand fits the step it is at.
InHand(l) ==
  /\ l.pc \notin {"off", "open", "next"} => l.id \in Peers
  /\ l.pc \in {"count", "root", "find", "depth", "insert", "push"} => l.cap \in Capacities
  /\ l.pc \in {"depth", "insert", "push", "re-depth", "re-set", "re-unlink", "re-push"} => l.parent \in Peers
  /\ l.pc \in {"re-depth", "re-set", "re-unlink", "re-push"} => l.todo # <<>>
  /\ l.pc = "re-unlink" => l.left # <<>>

\* What is linked upwards only, downwards only, or to a peer that is gone,
\* while an operation is between two of its writes.
Unlisted(l, p) == \/ l.pc = "push" /\ l.id = p
                  \/ l.pc \in {"re-unlink", "re-push"} /\ Head(l.todo) = p
Departing(l, q, p) == l.pc = "unlink" /\ l.id = p /\ l.parent = q
Orphaned(l, q, p) == l.pc \in {"unlink", "orphan"} /\ l.id = q /\ Among(l.left, p)

\* Parents and children agree, but for what is half linked.  A peer may be its
\* own parent: an orphan is among the candidates for its new parent.
Paired(t, l) ==
  /\ \A q \in Peers : There(t, q) => Distinct(t[q].children)
  /\ \A p, q \in Peers : There(t, q) =>
       (Lists(t, q, p) <=> (PointsTo(t, p, q) /\ ~Unlisted(l, p)) \/ Departing(l, q, p))
  /\ \A p, q \in Peers : PointsTo(t, p, q) /\ ~There(t, q) => Orphaned(l, q, p)

Loads(t) ==
  /\ \A p \in Peers : There(t, p) => Len(t[p].children) <= Ceiling(t, p) /\ t[p].depth <= MaxDepth
  /\ Cardinality(Roots(t)) <= RootPeerCount

\* What an operation that is alone knows of the tree at each of its steps.
Knows(t, l) ==
  /\ l.pc \in {"count", "root", "find", "depth", "insert", "unlink", "orphan"} => ~There(t, l.id)
  /\ l.pc = "root" => Cardinality(Roots(t)) < RootPeerCount
  /\ l.pc \in {"depth", "insert", "push", "re-depth", "re-set", "re-unlink", "re-push"} => HasRoom(t, l.parent)
  /\ l.pc = "insert" => l.depth <= MaxDepth
  /\ l.pc = "push" => PointsTo(t, l.id, l.parent)
  /\ l.pc = "re-depth" => t[l.parent].depth < MaxDepth
  /\ l.pc = "re-set" => l.depth < MaxDepth
  /\ l.pc = "re-unlink" => l.left = <<Nil>>
  /\ l.pc \in {"re-unlink", "re-push"} => PointsTo(t, Head(l.todo), l.parent)

\* The orphans of the peer that was removed: each once; those left to be
\* freed point to it, the others to nobody until their turn has come.
Waits(t, l) ==
  /\ l.pc \in {"unlink", "orphan", "reassign", "re-depth", "re-set", "re-unlink", "re-push"} => Distinct(l.todo)
  /\ l.pc \in {"unlink", "orphan"} =>
       /\ Distinct(l.left)
       /\ \A p \in Peers : Among(l.left, p) => Among(l.todo, p)
       /\ \A p \in Peers : Among(l.todo, p) /\ There(t, p) =>
            t[p].parent = IF Among(l.left, p) THEN l.id ELSE Nil
  /\ l.pc \in {"reassign", "re-depth", "re-set"} =>
       \A p \in Peers : Among(l.todo, p) /\ There(t, p) => t[p].parent = Nil
  /\ l.pc \in {"re-unlink", "re-push"} =>
       \A p \in Peers : Among(l.todo, p) /\ There(t, p) /\ p # Head(l.todo) => t[p].parent = Nil

Sound(t, l) == Paired(t, l) /\ Loads(t) /\ Knows(t, l) /\ Waits(t, l)

MeshTyped ==
  /\ tree \in Trees /\ proc \in [Procs -> Locals]
  /\ stale \subseteq Peers /\ registered \subseteq Peers
  /\ connected \subseteq WsSessions /\ connects \in Nat /\ limit \in {1, 2}
  /\ \A s \in Procs : InHand(proc[s])

\* Before a relay session is opened it has done nothing, and its id is nowhere.
Unheard ==
  \A w \in WsSessions \ connected :
    tree[w] = Nil /\ proc[w] = Off /\ \A s \in Procs : proc[s].id # w /\ w \notin proc[s].dead

\* What is going on is finite, and so is what has been inserted.
FinitelyMany ==
  IsFiniteSet({s \in Procs : Busy(s)}) /\ IsFiniteSet({p \in Peers : There(tree, p)})

\* With one operation at a time the tree is sound for that operation, and
\* for none between operations.
OneAtATime ==
  limit = 1 =>
    /\ \A s, u \in Procs : Busy(s) /\ Busy(u) => s = u
    /\ \A s \in Procs : Busy(s) => Sound(tree, proc[s])
    /\ TreeSettled => Sound(tree, Off)

MeshInd == MeshTyped /\ Unheard /\ FinitelyMany /\ OneAtATime

-----------------------------------------------------------------------------
(* Lists of children.                                                      *)

LEMMA CountUp ==
  ASSUME NEW S, 0 \in S, \A n \in Nat : n \in S => n + 1 \in S
  PROVE  \A n \in Nat : n \in S
<1> SUFFICES ASSUME NEW n \in Nat, n \notin S PROVE FALSE
  OBVIOUS
<1> DEFINE B == {k \in 0..n : k \notin S}
           pred == [k \in B |-> k - 1]
<1>1. \A k \in B : k - 1 \in B
  <2> SUFFICES ASSUME NEW k \in B PROVE k - 1 \in B
    OBVIOUS
  <2>1. k \in Nat /\ k # 0 /\ k <= n /\ k \notin S
    OBVIOUS
  <2>2. k - 1 \in 0..n /\ (k - 1) + 1 = k
    BY <2>1
  <2> QED BY <2>1, <2>2
<1>2. IsFiniteSet(B)
  <2>1. IsFiniteSet(0..n)
    BY FS_Interval
  <2>2. B \in SUBSET (0..n)
    OBVIOUS
  <2> QED BY <2>1, <2>2, FS_Subset
<1>3. n \in B /\ \A k \in B : k \in Int /\ k - 1 # n
  OBVIOUS
<1> HIDE DEF B
<1>4. pred \in Injection(B, B)
  BY <1>1, <1>3 DEF Injection, IsInjective
<1>5. pred \in Surjection(B, B)
  BY <1>2, <1>4, FS_Injection
<1> QED BY <1>3, <1>5 DEF Surjection

LEMMA ListEntries ==
  ASSUME NEW S, NEW c \in Seq(S)
  PROVE  /\ Len(c) \in Nat /\ DOMAIN c = 1..Len(c) /\ \A i \in DOMAIN c : c[i] \in S
         /\ c = <<>> <=> Len(c) = 0
BY LenProperties, ElementOfSeq, EmptySeq

LEMMA OneMore ==
  ASSUME NEW S, NEW c \in Seq(S), NEW x \in S
  PROVE  /\ Append(c, x) \in Seq(S) /\ Len(Append(c, x)) = Len(c) + 1
         /\ \A p : Among(Append(c, x), p) <=> Among(c, p) \/ p = x
         /\ Distinct(c) /\ ~ Among(c, x) => Distinct(Append(c, x))
<1> DEFINE r == Append(c, x)
           n == Len(c)
<1>1. n \in Nat /\ DOMAIN c = 1..n
  BY ListEntries
<1>2. r \in Seq(S) /\ Len(r) = n + 1 /\ r[n + 1] = x /\ \A i \in 1..n : r[i] = c[i]
  BY AppendProperties
<1>3. DOMAIN r = 1..(n + 1)
  BY <1>2, ListEntries
<1> HIDE DEF r, n
<1>4. \A i \in 1..(n + 1) : i \in 1..n \/ i = n + 1
  BY <1>1
<1>5. 1..n \subseteq 1..(n + 1) /\ n + 1 \in 1..(n + 1) /\ n + 1 \notin 1..n
  BY <1>1
<1>6. \A p : Among(r, p) <=> Among(c, p) \/ p = x
  BY <1>1, <1>2, <1>3, <1>4, <1>5 DEF Among
<1>7. Distinct(c) /\ ~ Among(c, x) => Distinct(r)
  BY <1>1, <1>2, <1>3, <1>4, <1>5 DEF Among, Distinct
<1> QED BY <1>2, <1>6, <1>7 DEF r, n

LEMMA OneLess ==
  ASSUME NEW S, NEW c \in Seq(S), c # <<>>
  PROVE  /\ Head(c) \in S /\ Among(c, Head(c)) /\ Tail(c) \in Seq(S)
         /\ \A p : Among(c, p) <=> Among(Tail(c), p) \/ p = Head(c)
         /\ Distinct(c) => Distinct(Tail(c)) /\ ~ Among(Tail(c), Head(c))
<1> DEFINE r == Tail(c)
           n == Len(c)
<1>1. n \in Nat /\ DOMAIN c = 1..n /\ n # 0
  BY ListEntries
<1>2. r \in Seq(S) /\ Len(r) = n - 1 /\ \A i \in 1..(n - 1) : r[i] = c[i + 1]
  BY HeadTailProperties
<1>3. DOMAIN r = 1..(n - 1)
  BY <1>1, <1>2, ListEntries
<1>4. Head(c) = c[1] /\ Head(c) \in S
  BY HeadTailProperties
<1> HIDE DEF r, n
<1>5. \A i \in 1..n : i = 1 \/ (i - 1 \in 1..(n - 1) /\ (i - 1) + 1 = i)
  BY <1>1
<1>6. 1 \in 1..n /\ \A i \in 1..(n - 1) : i + 1 \in 1..n /\ i + 1 # 1
  BY <1>1
<1>7. \A p : Among(c, p) <=> Among(r, p) \/ p = c[1]
  <2> TAKE p
  <2>1. ASSUME Among(c, p) PROVE Among(r, p) \/ p = c[1]
    <3>1. PICK i \in 1..n : c[i] = p
      BY <1>1, <2>1 DEF Among
    <3>2. i # 1 => i - 1 \in 1..(n - 1) /\ r[i - 1] = c[i]
      <4>1. i # 1 => i - 1 \in 1..(n - 1) /\ (i - 1) + 1 = i
        BY <1>5
      <4> QED BY <1>2, <4>1
    <3> QED BY <1>3, <3>1, <3>2 DEF Among
  <2>2. ASSUME Among(r, p) PROVE Among(c, p)
    <3>1. PICK i \in 1..(n - 1) : r[i] = p
      BY <1>3, <2>2 DEF Among
    <3> QED BY <1>1, <1>2, <1>6, <3>1 DEF Among
  <2>3. p = c[1] => Among(c, p)
    BY <1>1, <1>6 DEF Among
  <2> QED BY <2>1, <2>2, <2>3
<1>8. Distinct(c) => Distinct(r) /\ ~ Among(r, c[1])
  <2>1. \A i, j \in 1..(n - 1) : i + 1 = j + 1 => i = j
    BY <1>1
  <2>2. ASSUME Distinct(c) PROVE Distinct(r)
    <3> SUFFICES ASSUME NEW i \in 1..(n - 1), NEW j \in 1..(n - 1), r[i] = r[j] PROVE i = j
      BY <1>3 DEF Distinct
    <3>1. c[i + 1] = c[j + 1] /\ i + 1 \in 1..n /\ j + 1 \in 1..n
      BY <1>2, <1>6
    <3>2. i + 1 = j + 1
      BY <1>1, <2>2, <3>1 DEF Distinct
    <3> QED BY <2>1, <3>2
  <2>3. ASSUME Distinct(c), Among(r, c[1]) PROVE FALSE
    <3>1. PICK i \in 1..(n - 1) : r[i] = c[1]
      BY <1>3, <2>3 DEF Among
    <3>2. c[i + 1] = c[1] /\ i + 1 \in 1..n /\ i + 1 # 1
      BY <1>2, <1>6, <3>1
    <3> QED BY <1>1, <1>6, <2>3, <3>2 DEF Distinct
  <2> QED BY <2>2, <2>3
<1> QED BY <1>1, <1>2, <1>4, <1>6, <1>7, <1>8 DEF r, Among

LEMMA WithoutKeepsTheRest ==
  ASSUME NEW c \in Seq(Peers), NEW id
  PROVE  /\ Without(c, id) \in Seq(Peers) /\ Len(Without(c, id)) <= Len(c)
         /\ \A p : Among(Without(c, id), p) <=> Among(c, p) /\ p # id
         /\ Distinct(c) => Distinct(Without(c, id))
<1> DEFINE top == Len(c)
           step(h, n) == IF n = 0 THEN <<>>
                         ELSE IF c[n] = id THEN h[n - 1] ELSE Append(h[n - 1], c[n])
           Kept(r, n) == /\ r \in Seq(Peers) /\ Len(r) <= n
                         /\ \A p : Among(r, p) <=> p # id /\ \E i \in 1..n : c[i] = p
                         /\ Distinct(c) => Distinct(r)
           Good(h, k) == /\ h = [n \in 0..k |-> h[n]] /\ DOMAIN h = 0..k
                         /\ \A n \in 0..k : h[n] = step(h, n) /\ Kept(h[n], n)
           S == {k \in Nat : k <= top => \E h : Good(h, k)}
<1>0. top \in Nat /\ DOMAIN c = 1..top /\ \A i \in 1..top : c[i] \in Peers
  BY ListEntries
<1> HIDE DEF top
<1>1. 0 \in S
  <2>1. Kept(<<>>, 0)
    <3>1. <<>> \in Seq(Peers) /\ Len(<<>>) = 0 /\ DOMAIN <<>> = {}
      BY EmptySeq
    <3>2. \A p : ~ Among(<<>>, p)
      BY <3>1 DEF Among
    <3>3. Distinct(<<>>)
      BY <3>1 DEF Distinct
    <3> QED BY <3>1, <3>2, <3>3
  <2> DEFINE h == [n \in 0..0 |-> <<>>]
  <2>2. h = [n \in 0..0 |-> h[n]] /\ DOMAIN h = 0..0 /\ \A n \in 0..0 : n = 0 /\ h[n] = <<>>
    OBVIOUS
  <2> HIDE DEF h, Kept
  <2>3. Good(h, 0)
    BY <2>1, <2>2
  <2> QED BY <2>3
<1>2. ASSUME NEW k \in Nat, k \in S PROVE k + 1 \in S
  <2> SUFFICES ASSUME k + 1 <= top PROVE \E h : Good(h, k + 1)
    OBVIOUS
  <2>0. k <= top /\ k + 1 \in 1..top
    BY <1>0
  <2>1. PICK h : Good(h, k)
    BY <1>2, <2>0
  <2> DEFINE e == [n \in 0..k+1 |-> IF n = k + 1 THEN step(h, k + 1) ELSE h[n]]
             x == c[k + 1]
             r == h[k]
  <2>2. k + 1 \in Nat /\ (k + 1) - 1 = k /\ k + 1 # 0 /\ k \in 0..k
    OBVIOUS
  <2>3. Kept(step(h, k + 1), k + 1)
    <3>1. Kept(r, k)
      BY <2>1, <2>2
    <3>2. step(h, k + 1) = IF x = id THEN r ELSE Append(r, x)
      BY <2>2
    <3> HIDE DEF step, r
    <3>3. \A p : (\E i \in 1..(k + 1) : c[i] = p) <=> (\E i \in 1..k : c[i] = p) \/ p = x
      <4>1. \A i \in 1..(k + 1) : i \in 1..k \/ i = k + 1
        OBVIOUS
      <4>2. \A i \in 1..k : i \in 1..(k + 1)
        OBVIOUS
      <4>3. k + 1 \in 1..(k + 1)
        OBVIOUS
      <4> QED BY <4>1, <4>2, <4>3
    <3>4. x \in Peers
      BY <1>0, <2>0
    <3>5. Distinct(c) => \A i \in 1..k : c[i] # x
      <4>1. \A i \in 1..k : i \in 1..top /\ i # k + 1
        BY <1>0, <2>0
      <4> QED BY <1>0, <2>0, <4>1 DEF Distinct
    <3>6. Len(r) \in Nat
      BY <3>1, ListEntries
    <3> HIDE DEF x
    <3>7. CASE x = id
      <4>1. Len(r) <= k + 1
        BY <3>1, <3>6
      <4> QED BY <3>1, <3>2, <3>3, <3>7, <4>1
    <3>8. CASE x # id
      <4> DEFINE a == Append(r, x)
      <4>1. /\ a \in Seq(Peers) /\ Len(a) = Len(r) + 1
            /\ \A p : Among(a, p) <=> Among(r, p) \/ p = x
            /\ Distinct(r) /\ ~ Among(r, x) => Distinct(a)
        BY <3>1, <3>4, OneMore
      <4>2. step(h, k + 1) = a
        BY <3>2, <3>8
      <4> HIDE DEF a
      <4>3. Len(a) <= k + 1
        BY <3>1, <3>6, <4>1
      <4>4. Distinct(c) => ~ Among(r, x)
        BY <3>1, <3>5
      <4>5. \A p : Among(a, p) <=> p # id /\ \E i \in 1..(k + 1) : c[i] = p
        BY <3>1, <3>3, <3>8, <4>1
      <4> QED BY <3>1, <4>1, <4>2, <4>3, <4>4, <4>5
    <3> QED BY <3>7, <3>8
  <2> HIDE DEF Kept
  <2>4. ASSUME NEW n \in 0..k+1 PROVE e[n] = step(e, n) /\ Kept(e[n], n)
    <3>1. n = k + 1 \/ (n \in 0..k /\ n # k + 1)
      OBVIOUS
    <3>2. Kept(e[n], n) /\ e[n] = step(h, n)
      BY <2>1, <2>3, <3>1
    <3>3. CASE n = 0
      BY <3>2, <3>3
    <3>4. CASE n # 0
      <4>1. n - 1 \in 0..k /\ n - 1 # k + 1 /\ n - 1 \in 0..k+1
        BY <3>4
      <4>2. e[n-1] = h[n-1]
        BY <4>1
      <4> HIDE DEF e
      <4> QED BY <3>2, <3>4, <4>2
    <3> QED BY <3>3, <3>4
  <2>5. DOMAIN e = 0..k+1 /\ e = [n \in 0..k+1 |-> e[n]]
    OBVIOUS
  <2>6. Good(e, k + 1)
    <3> HIDE DEF e, step
    <3> QED BY <2>4, <2>5
  <2> HIDE DEF e, Good
  <2> QED BY <2>6
<1>3. top \in S
  <2> HIDE DEF S
  <2> QED BY <1>0, <1>1, <1>2, CountUp
<1>4. PICK h : Good(h, top)
  <2> HIDE DEF Good
  <2> QED BY <1>0, <1>3
<1>f. h = [n \in 0..top |-> h[n]] /\ DOMAIN h = 0..top
  BY <1>4
<1>s. \A n \in 0..top : h[n] = step(h, n)
  BY <1>4
<1> DEFINE kept == CHOOSE g : g = [n \in 0..top |-> step(g, n)]
<1>5. Without(c, id) = kept[top]
  BY DEF Without, top
<1> HIDE DEF Kept
<1>6. h = [n \in 0..top |-> step(h, n)]
  <2> HIDE DEF step
  <2> QED BY <1>f, <1>s
<1>7. kept = [n \in 0..top |-> step(kept, n)]
  BY <1>6
<1>8. kept[top] = h[top]
  <2>1. \A n \in 0..top : kept[n] = step(kept, n)
    BY <1>7
  <2> DEFINE P == {n \in Nat : n <= top => kept[n] = h[n]}
  <2>2. 0 \in P
    <3>1. 0 \in 0..top
      BY <1>0
    <3>2. h[0] = <<>> /\ kept[0] = <<>>
      BY <1>s, <2>1, <3>1
    <3> HIDE DEF kept
    <3> QED BY <3>2
  <2>3. ASSUME NEW n \in Nat, n \in P PROVE n + 1 \in P
    <3> SUFFICES ASSUME n + 1 <= top PROVE kept[n + 1] = h[n + 1]
      OBVIOUS
    <3>1. n + 1 \in 0..top /\ n + 1 # 0 /\ (n + 1) - 1 = n /\ n <= top
      BY <1>0
    <3>2. kept[n] = h[n] /\ kept[n+1] = step(kept, n + 1) /\ h[n+1] = step(h, n + 1)
      BY <1>s, <2>1, <2>3, <3>1
    <3> HIDE DEF kept
    <3> QED BY <3>1, <3>2
  <2> HIDE DEF P, kept
  <2>4. top \in P
    BY <1>0, <2>2, <2>3, CountUp
  <2> QED BY <1>0, <2>4 DEF P
<1>9. Kept(h[top], top)
  BY <1>0, <1>4
<1>10. Kept(Without(c, id), top)
  BY <1>5, <1>8, <1>9
<1> HIDE DEF step, S, kept
<1> QED BY <1>0, <1>10 DEF Kept, top, Among

-----------------------------------------------------------------------------
(* Entries of the tree.                                                    *)

LEMMA EntryFacts ==
  ASSUME NEW t \in Trees, NEW p \in Peers
  PROVE  /\ There(t, p) <=> t[p] \in Infos
         /\ ~ There(t, p) <=> t[p] = Nil
         /\ There(t, p) => /\ t[p].role \in {"root", "relay"} /\ t[p].parent \in Peers \cup {Nil}
                           /\ t[p].children \in Seq(Peers) /\ t[p].depth \in Nat /\ t[p].capacity \in Capacities
<1>1. t[p] \in Infos \/ t[p] = Nil
  BY DEF Trees
<1>2. p # Nil
  BY MeshNames DEF Peers
<1> QED BY <1>1, <1>2, MeshEntries DEF There, Infos

\* Only the children of q change.
ChildrenOnly(t, u, q, c) ==
  /\ u \in Trees
  /\ \A p \in Peers : There(u, p) <=> There(t, p)
  /\ \A p \in Peers : There(t, p) =>
       /\ u[p].role = t[p].role /\ u[p].parent = t[p].parent /\ u[p].depth = t[p].depth
       /\ u[p].capacity = t[p].capacity
       /\ p # q => u[p].children = t[p].children
       /\ p = q => u[p].children = c

LEMMA SetChildren ==
  ASSUME NEW t \in Trees, NEW q \in Peers, There(t, q), NEW c \in Seq(Peers)
  PROVE  ChildrenOnly(t, [t EXCEPT ![q].children = c], q, c)
<1> DEFINE e == [t[q] EXCEPT !.children = c]
           u == [t EXCEPT ![q].children = c]
<1>1. t[q] \in Infos
  BY EntryFacts
<1>2. /\ e \in Infos /\ e.role = t[q].role /\ e.parent = t[q].parent /\ e.depth = t[q].depth
      /\ e.capacity = t[q].capacity /\ e.children = c
  BY <1>1 DEF Infos
<1>3. u = [t EXCEPT ![q] = e]
  OBVIOUS
<1> HIDE DEF e
<1>4. u \in Trees /\ u[q] = e /\ \A p \in Peers : p # q => u[p] = t[p]
  BY <1>2, <1>3 DEF Trees
<1> HIDE DEF u
<1>5. \A p \in Peers : There(u, p) <=> There(t, p)
  BY <1>1, <1>2, <1>4, MeshEntries DEF There
<1>6. ASSUME NEW p \in Peers, There(t, p)
      PROVE  /\ u[p].role = t[p].role /\ u[p].parent = t[p].parent /\ u[p].depth = t[p].depth
             /\ u[p].capacity = t[p].capacity
             /\ p # q => u[p].children = t[p].children
             /\ p = q => u[p].children = c
  BY <1>2, <1>4
<1>7. ChildrenOnly(t, u, q, c)
  BY <1>4, <1>5, <1>6 DEF ChildrenOnly
<1> QED BY <1>7 DEF u

\* Only where o hangs changes.
ParentOnly(t, u, o, q, d) ==
  /\ u \in Trees
  /\ \A p \in Peers : There(u, p) <=> There(t, p)
  /\ \A p \in Peers : There(t, p) =>
       /\ u[p].role = t[p].role /\ u[p].children = t[p].children /\ u[p].capacity = t[p].capacity
       /\ p # o => u[p].parent = t[p].parent /\ u[p].depth = t[p].depth
       /\ p = o => u[p].parent = q /\ u[p].depth = d

LEMMA SetParent ==
  ASSUME NEW t \in Trees, NEW o \in Peers, There(t, o), NEW q \in Peers \cup {Nil}, NEW d \in Nat
  PROVE  /\ ParentOnly(t, [t EXCEPT ![o].parent = q], o, q, t[o].depth)
         /\ ParentOnly(t, [t EXCEPT ![o].parent = q, ![o].depth = d], o, q, d)
<1>1. t[o] \in Infos /\ t[o].depth \in Nat
  BY EntryFacts
<1>2. ASSUME NEW f \in Nat PROVE ParentOnly(t, [t EXCEPT ![o].parent = q, ![o].depth = f], o, q, f)
  <2> DEFINE e == [t[o] EXCEPT !.parent = q, !.depth = f]
             u == [t EXCEPT ![o].parent = q, ![o].depth = f]
  <2>2. /\ e \in Infos /\ e.role = t[o].role /\ e.children = t[o].children /\ e.capacity = t[o].capacity
        /\ e.parent = q /\ e.depth = f
    BY <1>1, <1>2 DEF Infos
  <2>3. u = [t EXCEPT ![o] = e]
    BY DEF Trees
  <2> HIDE DEF e
  <2>4. u \in Trees /\ u[o] = e /\ \A p \in Peers : p # o => u[p] = t[p]
    BY <2>2, <2>3 DEF Trees
  <2> HIDE DEF u
  <2>5. \A p \in Peers : There(u, p) <=> There(t, p)
    BY <1>1, <2>2, <2>4, MeshEntries DEF There
  <2>6. ParentOnly(t, u, o, q, f)
    BY <2>2, <2>4, <2>5 DEF ParentOnly
  <2> QED BY <2>6 DEF u
<1>3. [t EXCEPT ![o].parent = q] = [t EXCEPT ![o].parent = q, ![o].depth = t[o].depth]
  BY <1>1 DEF Trees, Infos
<1> QED BY <1>1, <1>2, <1>3

\* Only the entry of p changes.
LEMMA SetEntry ==
  ASSUME NEW t \in Trees, NEW p \in Peers, NEW e \in Infos \cup {Nil}
  PROVE  LET u == [t EXCEPT ![p] = e]
         IN  u \in Trees /\ u[p] = e /\ (There(u, p) <=> e \in Infos)
             /\ \A r \in Peers : r # p => u[r] = t[r] /\ (There(u, r) <=> There(t, r))
<1> DEFINE u == [t EXCEPT ![p] = e]
<1>1. u \in Trees /\ u[p] = e /\ \A r \in Peers : r # p => u[r] = t[r]
  BY DEF Trees
<1> HIDE DEF u
<1>2. There(u, p) <=> e \in Infos
  BY <1>1, EntryFacts
<1>3. \A r \in Peers : r # p => (There(u, r) <=> There(t, r))
  BY <1>1 DEF There
<1> QED BY <1>1, <1>2, <1>3 DEF u

LEMMA RootsFinite ==
  ASSUME NEW t, NEW u, IsFiniteSet({p \in Peers : There(t, p)}), Roots(u) \subseteq Roots(t)
  PROVE  /\ IsFiniteSet(Roots(t)) /\ IsFiniteSet(Roots(u))
         /\ Cardinality(Roots(u)) \in Nat /\ Cardinality(Roots(t)) \in Nat
         /\ Cardinality(Roots(u)) <= Cardinality(Roots(t))
<1>1. Roots(t) \subseteq {p \in Peers : There(t, p)}
  BY DEF Roots
<1>2. IsFiniteSet(Roots(t))
  BY <1>1, FS_Subset
<1> QED BY <1>2, FS_Subset, FS_CardinalityType

-----------------------------------------------------------------------------
(* What the steps do to a relay tree.                                      *)

FiniteTree(t) == IsFiniteSet({p \in Peers : There(t, p)})

\* Nothing is half linked.
Plain(l) == \A p, q \in Peers : ~ Unlisted(l, p) /\ ~ Departing(l, q, p) /\ ~ Orphaned(l, q, p)

LEMMA PlainSteps ==
  ASSUME NEW l, l.pc \notin {"push", "re-unlink", "re-push", "unlink", "orphan"}
  PROVE  Plain(l)
BY DEF Plain, Unlisted, Departing, Orphaned

LEMMA PlainPaired ==
  ASSUME NEW t, NEW l, NEW m, Plain(l), Plain(m), Paired(t, l)
  PROVE  Paired(t, m)
BY DEF Paired, Plain

LEMMA SameLoads ==
  ASSUME NEW t \in Trees, NEW u \in Trees, FiniteTree(t), Loads(t), Roots(u) \subseteq Roots(t),
         \A p \in Peers : There(u, p) =>
           /\ Len(u[p].children) <= Ceiling(u, p) /\ u[p].depth <= MaxDepth
  PROVE  Loads(u)
<1>1. Cardinality(Roots(u)) \in Nat /\ Cardinality(Roots(t)) \in Nat /\ Cardinality(Roots(u)) <= Cardinality(Roots(t))
  BY RootsFinite DEF FiniteTree
<1>2. Cardinality(Roots(t)) <= RootPeerCount /\ RootPeerCount \in Nat
  BY MeshAssumption DEF Loads
<1> QED BY <1>1, <1>2 DEF Loads

\* The parent learns of its new child.
LEMMA PushPaired ==
  ASSUME NEW t \in Trees, FiniteTree(t), NEW l, NEW m, NEW x \in Peers, NEW q \in Peers,
         HasRoom(t, q), PointsTo(t, x, q), Paired(t, l), Loads(t), Plain(m),
         \A p, r \in Peers : (Unlisted(l, p) <=> p = x) /\ ~ Departing(l, r, p) /\ ~ Orphaned(l, r, p)
  PROVE  /\ ChildrenOnly(t, Push(t, q, x), q, Append(t[q].children, x))
         /\ Paired(Push(t, q, x), m) /\ Loads(Push(t, q, x))
<1> DEFINE c == t[q].children
           d == Append(c, x)
           u == Push(t, q, x)
<1>1. There(t, q) /\ c \in Seq(Peers) /\ Len(c) \in Nat /\ Len(c) < Ceiling(t, q)
  BY EntryFacts, ListEntries DEF HasRoom
<1>2. d \in Seq(Peers) /\ Len(d) = Len(c) + 1 /\ (\A p : Among(d, p) <=> Among(c, p) \/ p = x)
      /\ (Distinct(c) /\ ~ Among(c, x) => Distinct(d))
  BY <1>1, OneMore
<1>3. u = [t EXCEPT ![q].children = d]
  BY <1>1 DEF Push, There
<1>4. ChildrenOnly(t, u, q, d)
  BY <1>1, <1>2, <1>3, SetChildren
<1>5. ~ Among(c, x) /\ Distinct(c)
  BY <1>1 DEF Paired, Lists, Among
<1> HIDE DEF d, c, u
<1>6. \A r \in Peers : There(u, r) => Distinct(u[r].children)
  BY <1>2, <1>4, <1>5 DEF ChildrenOnly, Paired
<1>7. ASSUME NEW p \in Peers, NEW r \in Peers, There(u, r) PROVE Lists(u, r, p) <=> PointsTo(u, p, r)
  <2>1. PointsTo(u, p, r) <=> PointsTo(t, p, r)
    BY <1>4 DEF ChildrenOnly, PointsTo
  <2>2. There(t, r) /\ (Lists(t, r, p) <=> PointsTo(t, p, r) /\ p # x)
    BY <1>4, <1>7 DEF Paired, ChildrenOnly
  <2>3. CASE r = q
    <3>1. Lists(u, r, p) <=> Among(d, p)
      BY <1>4, <2>2, <2>3 DEF Lists, Among, ChildrenOnly
    <3>2. Lists(t, r, p) <=> Among(c, p)
      BY <2>3 DEF Lists, Among, c
    <3> QED BY <1>2, <2>1, <2>2, <2>3, <3>1, <3>2
  <2>4. CASE r # q
    <3>1. Lists(u, r, p) <=> Lists(t, r, p)
      BY <1>4, <2>2, <2>4 DEF Lists, ChildrenOnly
    <3>2. p = x => ~ PointsTo(t, p, r)
      BY <2>4 DEF PointsTo
    <3> QED BY <2>1, <2>2, <3>1, <3>2
  <2> QED BY <2>3, <2>4
<1>8. ASSUME NEW p \in Peers, NEW r \in Peers, PointsTo(u, p, r), ~ There(u, r) PROVE FALSE
  <2>1. PointsTo(t, p, r) /\ ~ There(t, r)
    BY <1>4, <1>8 DEF ChildrenOnly, PointsTo
  <2> QED BY <2>1 DEF Paired
<1>9. Paired(u, m)
  BY <1>6, <1>7, <1>8 DEF Paired, Plain
<1>10. ASSUME NEW p \in Peers, There(u, p) PROVE Len(u[p].children) <= Ceiling(u, p) /\ u[p].depth <= MaxDepth
  <2>1. There(t, p) /\ Ceiling(u, p) = Ceiling(t, p) /\ u[p].depth = t[p].depth
    BY <1>4, <1>10 DEF ChildrenOnly, Ceiling
  <2>2. Len(t[p].children) <= Ceiling(t, p) /\ t[p].depth <= MaxDepth
    BY <2>1 DEF Loads
  <2>3. CASE p # q
    BY <1>4, <2>1, <2>2, <2>3 DEF ChildrenOnly
  <2>4. CASE p = q
    <3>1. u[p].children = d /\ Len(c) < Ceiling(u, p)
      BY <1>1, <1>4, <2>1, <2>4 DEF ChildrenOnly
    <3>2. Ceiling(u, p) \in Nat
      <4>1. t[p].capacity \in Capacities /\ MaxChildren \in Nat
        BY <2>1, EntryFacts, MeshAssumption
      <4> QED BY <2>1, <4>1 DEF Ceiling, Capacities
    <3> QED BY <1>1, <1>2, <2>1, <2>2, <3>1, <3>2
  <2> QED BY <2>3, <2>4
<1>11. Roots(u) \subseteq Roots(t) /\ u \in Trees
  BY <1>4 DEF ChildrenOnly, Roots
<1>12. Loads(u)
  BY <1>10, <1>11, SameLoads
<1> QED BY <1>4, <1>9, <1>12 DEF d, u, c

\* The removed peer leaves its parent's list.
LEMMA UnlinkPaired ==
  ASSUME NEW t \in Trees, FiniteTree(t), NEW l, NEW m, NEW x \in Peers, NEW q \in Peers \cup {Nil},
         ~ There(t, x), Paired(t, l), Loads(t),
         \A p, r \in Peers : /\ ~ Unlisted(l, p) /\ (Departing(l, r, p) <=> p = x /\ r = q)
                             /\ ~ Unlisted(m, p) /\ ~ Departing(m, r, p)
                             /\ Orphaned(l, r, p) => Orphaned(m, r, p)
  PROVE  LET u == Retain(t, q, x)
         IN  /\ Paired(u, m) /\ Loads(u) /\ u \in Trees
             /\ \A p \in Peers : (There(u, p) <=> There(t, p)) /\ (There(t, p) => u[p].parent = t[p].parent)
<1> DEFINE u == Retain(t, q, x)
           c == t[q].children
           d == Without(c, x)
<1>a. Nil \notin Peers
  BY MeshNames DEF Peers
<1>1. CASE q = Nil \/ ~ There(t, q)
  <2>1. u = t
    BY <1>1 DEF Retain, There
  <2>2. Paired(t, m)
    <3>1. ASSUME NEW p \in Peers, NEW r \in Peers, There(t, r)
          PROVE  Lists(t, r, p) <=> (PointsTo(t, p, r) /\ ~Unlisted(m, p)) \/ Departing(m, r, p)
      BY <1>a, <1>1, <3>1 DEF Paired
    <3> QED BY <3>1 DEF Paired
  <2> QED BY <2>1, <2>2
<1>2. CASE q # Nil /\ There(t, q)
  <2>1. q \in Peers /\ c \in Seq(Peers)
    BY <1>2, EntryFacts
  <2>2. d \in Seq(Peers) /\ Len(d) <= Len(c) /\ (\A p : Among(d, p) <=> Among(c, p) /\ p # x)
        /\ (Distinct(c) => Distinct(d))
    BY <2>1, WithoutKeepsTheRest
  <2>3. u = [t EXCEPT ![q].children = d]
    BY <1>2 DEF Retain, There
  <2>4. ChildrenOnly(t, u, q, d)
    BY <1>2, <2>1, <2>2, <2>3, SetChildren
  <2>5. Len(c) \in Nat /\ Len(d) \in Nat
    BY <2>1, <2>2, ListEntries
  <2> HIDE DEF u, d
  <2>6. \A r \in Peers : There(u, r) => Distinct(u[r].children)
    BY <2>2, <2>4 DEF ChildrenOnly, Paired
  <2>7. ASSUME NEW p \in Peers, NEW r \in Peers, There(u, r) PROVE Lists(u, r, p) <=> PointsTo(u, p, r)
    <3>1. PointsTo(u, p, r) <=> PointsTo(t, p, r)
      BY <2>4 DEF ChildrenOnly, PointsTo
    <3>2. There(t, r) /\ (Lists(t, r, p) <=> PointsTo(t, p, r) \/ (p = x /\ r = q))
      BY <2>4, <2>7 DEF Paired, ChildrenOnly
    <3>3. p = x => ~ PointsTo(t, p, r)
      BY DEF PointsTo
    <3>4. CASE r = q
      <4>1. Lists(u, r, p) <=> Among(d, p)
        BY <2>4, <3>2, <3>4 DEF Lists, Among, ChildrenOnly
      <4>2. Lists(t, r, p) <=> Among(c, p)
        BY <3>4 DEF Lists, Among
      <4> QED BY <2>2, <3>1, <3>2, <3>3, <3>4, <4>1, <4>2
    <3>5. CASE r # q
      <4>1. Lists(u, r, p) <=> Lists(t, r, p)
        BY <2>4, <3>2, <3>5 DEF Lists, ChildrenOnly
      <4> QED BY <3>1, <3>2, <3>5, <4>1
    <3> QED BY <3>4, <3>5
  <2>8. ASSUME NEW p \in Peers, NEW r \in Peers, PointsTo(u, p, r), ~ There(u, r) PROVE Orphaned(m, r, p)
    <3>1. PointsTo(t, p, r) /\ ~ There(t, r)
      BY <2>4, <2>8 DEF ChildrenOnly, PointsTo
    <3> QED BY <3>1 DEF Paired
  <2>9. Paired(u, m)
    BY <2>6, <2>7, <2>8 DEF Paired
  <2>10. ASSUME NEW p \in Peers, There(u, p) PROVE Len(u[p].children) <= Ceiling(u, p) /\ u[p].depth <= MaxDepth
    <3>1. There(t, p) /\ Ceiling(u, p) = Ceiling(t, p) /\ u[p].depth = t[p].depth
      BY <2>4, <2>10 DEF ChildrenOnly, Ceiling
    <3>2. Len(t[p].children) <= Ceiling(t, p) /\ t[p].depth <= MaxDepth
      BY <3>1 DEF Loads
    <3>3. CASE p # q
      BY <2>4, <3>1, <3>2, <3>3 DEF ChildrenOnly
    <3>4. CASE p = q
      <4>1. u[p].children = d /\ Len(c) <= Ceiling(u, p)
        BY <2>4, <3>1, <3>2, <3>4 DEF ChildrenOnly
      <4>2. Ceiling(u, p) \in Nat
        <5>1. t[p].capacity \in Capacities /\ MaxChildren \in Nat
          BY <3>1, EntryFacts, MeshAssumption
        <5> QED BY <3>1, <5>1 DEF Ceiling, Capacities
      <4> HIDE DEF c
      <4> QED BY <2>2, <2>5, <3>1, <3>2, <4>1, <4>2
    <3> QED BY <3>3, <3>4
  <2>11. Roots(u) \subseteq Roots(t) /\ u \in Trees
    BY <2>4 DEF ChildrenOnly, Roots
  <2>12. Loads(u)
    BY <2>10, <2>11, SameLoads
  <2> QED BY <2>4, <2>9, <2>11, <2>12 DEF u, ChildrenOnly
<1> QED BY <1>1, <1>2

\* A new entry, with no children; its parent, if any, does not list it yet.
LEMMA InsertPaired ==
  ASSUME NEW t \in Trees, FiniteTree(t), NEW l, NEW m, NEW x \in Peers, ~ There(t, x), Plain(l),
         NEW q \in Peers \cup {Nil}, NEW e \in Infos, e.parent = q, e.children = <<>>, e.depth <= MaxDepth,
         q # Nil => There(t, q), Paired(t, l), Loads(t),
         e.role = "root" => Cardinality(Roots(t)) < RootPeerCount,
         \A p, r \in Peers : /\ Unlisted(m, p) <=> q # Nil /\ p = x
                             /\ ~ Departing(m, r, p) /\ ~ Orphaned(m, r, p)
  PROVE  LET u == [t EXCEPT ![x] = e] IN u \in Trees /\ FiniteTree(u) /\ Paired(u, m) /\ Loads(u)
<1> DEFINE u == [t EXCEPT ![x] = e]
<1>1. u \in Trees /\ u[x] = e /\ There(u, x) /\ \A r \in Peers : r # x => u[r] = t[r] /\ (There(u, r) <=> There(t, r))
  BY SetEntry
<1> HIDE DEF u
<1>2. Nil \notin Peers
  BY MeshNames DEF Peers
<1>3. FiniteTree(u)
  <2>1. {p \in Peers : There(u, p)} = {p \in Peers : There(t, p)} \cup {x}
    BY <1>1
  <2>2. IsFiniteSet({p \in Peers : There(t, p)})
    BY DEF FiniteTree
  <2> QED BY <2>1, <2>2, FS_AddElement DEF FiniteTree
<1>4. Len(<<>>) = 0 /\ DOMAIN <<>> = {}
  OBVIOUS
<1>5. ASSUME NEW r \in Peers, There(u, r) PROVE Distinct(u[r].children)
  <2>1. CASE r = x
    BY <1>1, <1>4, <2>1 DEF Distinct
  <2>2. CASE r # x
    BY <1>1, <1>5, <2>2 DEF Paired
  <2> QED BY <2>1, <2>2
<1>6. ASSUME NEW p \in Peers, NEW r \in Peers, There(u, r)
      PROVE  Lists(u, r, p) <=> (PointsTo(u, p, r) /\ ~ Unlisted(m, p)) \/ Departing(m, r, p)
  <2>1. CASE r = x
    <3>1. ~ Lists(u, r, p)
      BY <1>1, <1>4, <2>1 DEF Lists
    <3>2. p = x => ~ (PointsTo(u, p, r) /\ ~ Unlisted(m, p))
      BY <1>1, <1>2, <2>1 DEF PointsTo
    <3>3. p # x => ~ PointsTo(u, p, r)
      <4> SUFFICES ASSUME p # x, PointsTo(u, p, r) PROVE FALSE
        OBVIOUS
      <4>1. PointsTo(t, p, r) /\ ~ There(t, r)
        BY <1>1, <2>1 DEF PointsTo
      <4> QED BY <4>1 DEF Paired, Plain
    <3> QED BY <3>1, <3>2, <3>3
  <2>2. CASE r # x
    <3>1. There(t, r) /\ (Lists(u, r, p) <=> Lists(t, r, p)) /\ (Lists(t, r, p) <=> PointsTo(t, p, r))
      BY <1>1, <1>6, <2>2 DEF Lists, Paired, Plain
    <3>2. CASE p = x
      <4>1. ~ PointsTo(t, p, r)
        BY <3>2 DEF PointsTo
      <4>2. PointsTo(u, p, r) => r = q
        BY <1>1, <3>2 DEF PointsTo
      <4> QED BY <1>2, <3>1, <3>2, <4>1, <4>2
    <3>3. CASE p # x
      BY <1>1, <3>1, <3>3 DEF PointsTo
    <3> QED BY <3>2, <3>3
  <2> QED BY <2>1, <2>2
<1>7. ASSUME NEW p \in Peers, NEW r \in Peers, PointsTo(u, p, r), ~ There(u, r) PROVE FALSE
  <2>1. r # x /\ ~ There(t, r)
    BY <1>1, <1>7
  <2>2. CASE p = x
    BY <1>1, <1>2, <1>7, <2>1, <2>2 DEF PointsTo
  <2>3. CASE p # x
    <3>1. PointsTo(t, p, r)
      BY <1>1, <1>7, <2>3 DEF PointsTo
    <3> QED BY <2>1, <3>1 DEF Paired, Plain
  <2> QED BY <2>2, <2>3
<1>8. Paired(u, m)
  BY <1>5, <1>6, <1>7 DEF Paired
<1>9. ASSUME NEW p \in Peers, There(u, p) PROVE Len(u[p].children) <= Ceiling(u, p) /\ u[p].depth <= MaxDepth
  <2>1. CASE p = x
    <3>1. Ceiling(u, p) \in Nat
      <4>1. e.capacity \in Capacities /\ MaxChildren \in Nat
        BY MeshAssumption DEF Infos
      <4> QED BY <1>1, <2>1, <4>1 DEF Ceiling, Capacities
    <3> QED BY <1>1, <1>4, <2>1, <3>1
  <2>2. CASE p # x
    BY <1>1, <1>9, <2>2 DEF Loads, Ceiling
  <2> QED BY <2>1, <2>2
<1>10. Loads(u)
  <2>1. CASE e.role = "root"
    <3>1. Roots(u) = Roots(t) \cup {x}
      BY <1>1, <2>1 DEF Roots
    <3>2. x \notin Roots(t)
      BY DEF Roots
    <3>3. IsFiniteSet(Roots(t)) /\ Cardinality(Roots(t)) \in Nat
      BY RootsFinite DEF FiniteTree
    <3>4. Cardinality(Roots(u)) = Cardinality(Roots(t)) + 1
      BY <3>1, <3>2, <3>3, FS_AddElement
    <3>5. Cardinality(Roots(u)) <= RootPeerCount
      BY <2>1, <3>3, <3>4, MeshAssumption
    <3> QED BY <1>9, <3>5 DEF Loads
  <2>2. CASE e.role # "root"
    <3>1. Roots(u) \subseteq Roots(t)
      BY <1>1, <2>2 DEF Roots
    <3> QED BY <1>1, <1>9, <3>1, SameLoads
  <2> QED BY <2>1, <2>2
<1> QED BY <1>1, <1>3, <1>8, <1>10 DEF u

\* An entry goes: its parent lists it still, its children point to it still.
LEMMA RemovePaired ==
  ASSUME NEW t \in Trees, FiniteTree(t), NEW l, NEW m, NEW x \in Peers, There(t, x), Plain(l),
         Paired(t, l), Loads(t),
         \A p, r \in Peers : /\ ~ Unlisted(m, p)
                             /\ Departing(m, r, p) <=> p = x /\ r = t[x].parent
                             /\ Orphaned(m, r, p) <=> r = x /\ Among(t[x].children, p)
  PROVE  LET u == [t EXCEPT ![x] = Nil]
         IN  /\ u \in Trees /\ FiniteTree(u) /\ Paired(u, m) /\ Loads(u) /\ ~ There(u, x)
             /\ \A p \in Peers : Among(t[x].children, p) /\ There(u, p) => u[p].parent = x
             /\ Distinct(t[x].children)
<1> DEFINE u == [t EXCEPT ![x] = Nil]
<1>1. u \in Trees /\ u[x] = Nil /\ ~ There(u, x)
      /\ \A r \in Peers : r # x => u[r] = t[r] /\ (There(u, r) <=> There(t, r))
  <2>1. Nil \notin Infos
    BY MeshEntries
  <2> QED BY <2>1, SetEntry
<1> HIDE DEF u
<1>2. Nil \notin Peers
  BY MeshNames DEF Peers
<1>3. FiniteTree(u)
  <2>1. {p \in Peers : There(u, p)} \subseteq {p \in Peers : There(t, p)}
    BY <1>1
  <2>2. IsFiniteSet({p \in Peers : There(t, p)})
    BY DEF FiniteTree
  <2> QED BY <2>1, <2>2, FS_Subset DEF FiniteTree
<1>4. ASSUME NEW r \in Peers, There(u, r) PROVE r # x /\ There(t, r) /\ u[r] = t[r]
  BY <1>1, <1>4
<1>5. \A r \in Peers : There(u, r) => Distinct(u[r].children)
  BY <1>4 DEF Paired
<1>6. ASSUME NEW p \in Peers, NEW r \in Peers, There(u, r)
      PROVE  Lists(u, r, p) <=> (PointsTo(u, p, r) /\ ~ Unlisted(m, p)) \/ Departing(m, r, p)
  <2>1. (Lists(u, r, p) <=> Lists(t, r, p)) /\ (Lists(t, r, p) <=> PointsTo(t, p, r))
    BY <1>4, <1>6 DEF Lists, Paired, Plain
  <2>2. CASE p = x
    <3>1. ~ PointsTo(u, p, r)
      BY <1>1, <2>2 DEF PointsTo
    <3>2. PointsTo(t, p, r) <=> r = t[x].parent
      BY <2>2 DEF PointsTo
    <3> QED BY <2>1, <2>2, <3>1, <3>2
  <2>3. CASE p # x
    BY <1>1, <2>1, <2>3 DEF PointsTo
  <2> QED BY <2>2, <2>3
<1>7. ASSUME NEW p \in Peers, NEW r \in Peers, PointsTo(u, p, r), ~ There(u, r) PROVE Orphaned(m, r, p)
  <2>1. PointsTo(t, p, r) /\ p # x
    BY <1>1, <1>7 DEF PointsTo
  <2>2. CASE r = x
    <3>1. Among(t[x].children, p)
      BY <2>1, <2>2 DEF Paired, Plain, Lists, Among
    <3> QED BY <2>2, <3>1
  <2>3. CASE r # x
    <3>1. ~ There(t, r)
      BY <1>1, <1>7, <2>3
    <3> QED BY <2>1, <3>1 DEF Paired, Plain
  <2> QED BY <2>2, <2>3
<1>8. Paired(u, m)
  BY <1>5, <1>6, <1>7 DEF Paired
<1>9. ASSUME NEW p \in Peers, There(u, p) PROVE Len(u[p].children) <= Ceiling(u, p) /\ u[p].depth <= MaxDepth
  BY <1>4, <1>9 DEF Loads, Ceiling
<1>10. Loads(u)
  <2>1. Roots(u) \subseteq Roots(t)
    BY <1>4 DEF Roots
  <2> QED BY <1>1, <1>9, <2>1, SameLoads
<1>11. ASSUME NEW p \in Peers, Among(t[x].children, p), There(u, p) PROVE u[p].parent = x
  <2>1. PointsTo(t, p, x)
    BY <1>11 DEF Paired, Plain, Lists, Among
  <2> QED BY <1>4, <1>11, <2>1 DEF PointsTo
<1>12. Distinct(t[x].children)
  BY DEF Paired
<1> QED BY <1>1, <1>3, <1>8, <1>10, <1>11, <1>12 DEF u

\* What a change of one parent pointer leaves as it was.
LEMMA ParentLoads ==
  ASSUME NEW t \in Trees, FiniteTree(t), Loads(t), NEW u, NEW o \in Peers, NEW q, NEW d,
         ParentOnly(t, u, o, q, d), d <= MaxDepth
  PROVE  FiniteTree(u) /\ Loads(u)
<1>1. FiniteTree(u)
  <2>1. {p \in Peers : There(u, p)} = {p \in Peers : There(t, p)}
    BY DEF ParentOnly
  <2> QED BY <2>1 DEF FiniteTree
<1>2. ASSUME NEW p \in Peers, There(u, p) PROVE Len(u[p].children) <= Ceiling(u, p) /\ u[p].depth <= MaxDepth
  BY <1>2 DEF ParentOnly, Loads, Ceiling
<1>3. Roots(u) \subseteq Roots(t) /\ u \in Trees
  BY DEF ParentOnly, Roots
<1> QED BY <1>1, <1>2, <1>3, SameLoads

\* An orphan is freed, or hung where its new parent does not list it yet.
LEMMA HangPaired ==
  ASSUME NEW t \in Trees, NEW u, NEW l, NEW m, NEW o \in Peers, There(t, o), NEW q \in Peers \cup {Nil}, NEW d,
         ParentOnly(t, u, o, q, d), Paired(t, l), q # Nil => There(t, q),
         \A r \in Peers : There(t, r) => t[o].parent # r,
         \A p, r \in Peers : /\ ~ Unlisted(l, p) /\ ~ Departing(l, r, p) /\ ~ Departing(m, r, p)
                             /\ Unlisted(m, p) <=> q # Nil /\ p = o
                             /\ Orphaned(l, r, p) /\ p # o => Orphaned(m, r, p)
  PROVE  Paired(u, m)
<1>1. \A r \in Peers : There(u, r) => Distinct(u[r].children)
  BY DEF ParentOnly, Paired
<1>2. ASSUME NEW p \in Peers, NEW r \in Peers, There(u, r)
      PROVE  Lists(u, r, p) <=> (PointsTo(u, p, r) /\ ~ Unlisted(m, p)) \/ Departing(m, r, p)
  <2>1. There(t, r) /\ u[r].children = t[r].children
    BY <1>2 DEF ParentOnly
  <2>2. (Lists(u, r, p) <=> Lists(t, r, p)) /\ (Lists(t, r, p) <=> PointsTo(t, p, r))
    BY <2>1 DEF Paired, Lists
  <2>3. CASE p = o
    <3>1. ~ PointsTo(t, p, r)
      BY <2>1, <2>3 DEF PointsTo
    <3>2. PointsTo(u, p, r) => r = q
      BY <2>3 DEF PointsTo, ParentOnly
    <3>3. Nil \notin Peers
      BY MeshNames DEF Peers
    <3> QED BY <2>2, <2>3, <3>1, <3>2, <3>3
  <2>4. CASE p # o
    <3>1. PointsTo(u, p, r) <=> PointsTo(t, p, r)
      BY <2>4 DEF PointsTo, ParentOnly
    <3> QED BY <2>2, <2>4, <3>1
  <2> QED BY <2>3, <2>4
<1>3. ASSUME NEW p \in Peers, NEW r \in Peers, PointsTo(u, p, r), ~ There(u, r) PROVE Orphaned(m, r, p)
  <2>1. ~ There(t, r)
    BY <1>3 DEF ParentOnly
  <2>2. CASE p = o
    <3>1. r = q
      BY <1>3, <2>2 DEF PointsTo, ParentOnly
    <3>2. Nil \notin Peers
      BY MeshNames DEF Peers
    <3> QED BY <2>1, <3>1, <3>2
  <2>3. CASE p # o
    <3>1. PointsTo(t, p, r)
      BY <1>3, <2>3 DEF PointsTo, ParentOnly
    <3> QED BY <2>1, <2>3, <3>1 DEF Paired
  <2> QED BY <2>2, <2>3
<1> QED BY <1>1, <1>2, <1>3 DEF Paired

-----------------------------------------------------------------------------
(* Steps.                                                                  *)

LEMMA OffIsPlain == /\ Off \in Locals /\ InHand(Off) /\ Plain(Off)
                    /\ \A t : Paired(t, Off) /\ Loads(t) => Sound(t, Off)
<1>1. Off.pc = "off" /\ Off.left = <<>> /\ Off.todo = <<>> /\ Off.id = Nil /\ Off.cap = Nil
      /\ Off.parent = Nil /\ Off.depth = 0 /\ Off.dead = {}
  BY DEF Off
<1>2. Off \in Locals
  BY EmptySeq DEF Off, Locals, Pcs
<1>3. InHand(Off)
  BY <1>1 DEF InHand
<1>4. \A t : Knows(t, Off) /\ Waits(t, Off)
  BY <1>1 DEF Knows, Waits
<1> QED BY <1>1, <1>2, <1>3, <1>4, PlainSteps DEF Sound

\* One process moves; it was at work, or nobody was.
LEMMA Proceeds ==
  ASSUME MeshInd, NEW s \in Procs,
         Busy(s) \/ (s \notin WsSessions \ connected' /\ (limit = 1 => TreeSettled)),
         proc' = [proc EXCEPT ![s] = proc'[s]], proc'[s] \in Locals, InHand(proc'[s]),
         tree' \in Trees, FiniteTree(tree'), stale' \subseteq Peers, registered' \subseteq Peers,
         limit' = limit, connected \subseteq connected', connected' \subseteq WsSessions, connects' \in Nat,
         \A w \in WsSessions \ connected' :
           tree'[w] = Nil /\ proc'[s].id # w /\ w \notin proc'[s].dead,
         limit = 1 => Sound(tree', proc'[s])
  PROVE  MeshInd'
<1>1. proc \in [Procs -> Locals]
  BY DEF MeshInd, MeshTyped
<1>2. \A u \in Procs : u # s => proc'[u] = proc[u]
  BY <1>1
<1>3. proc' \in [Procs -> Locals]
  BY <1>1
<1>4. MeshTyped'
  BY <1>2, <1>3 DEF MeshInd, MeshTyped
<1>5. Unheard'
  <2>1. s \notin WsSessions \ connected'
    <3>1. ~ Busy(s) \/ s \notin WsSessions \ connected
      BY OffIsPlain DEF MeshInd, Unheard, Busy, Off
    <3> QED BY <3>1
  <2>2. \A w \in WsSessions \ connected' : w \in Procs /\ w # s
    BY <2>1 DEF Procs, Sessions
  <2> QED BY <1>2, <2>2 DEF MeshInd, Unheard
<1>6. FinitelyMany'
  <2>1. {u \in Procs : Busy(u)'} \subseteq {u \in Procs : Busy(u)} \cup {s}
    BY <1>2 DEF Busy
  <2>2. IsFiniteSet({u \in Procs : Busy(u)} \cup {s})
    BY FS_AddElement DEF MeshInd, FinitelyMany
  <2>3. IsFiniteSet({u \in Procs : Busy(u)'})
    BY <2>1, <2>2, FS_Subset
  <2> QED BY <2>3 DEF FinitelyMany, FiniteTree
<1>7. OneAtATime'
  <2> SUFFICES ASSUME limit = 1
               PROVE  /\ \A r, u \in Procs : Busy(r)' /\ Busy(u)' => r = u
                      /\ \A u \in Procs : Busy(u)' => Sound(tree', proc'[u])
                      /\ TreeSettled' => Sound(tree', Off)
    BY DEF OneAtATime
  <2>1. \A u \in Procs : u # s => ~ Busy(u)
    BY DEF MeshInd, OneAtATime, TreeSettled
  <2>2. \A u \in Procs : Busy(u)' => u = s
    BY <1>2, <2>1 DEF Busy
  <2>3. Sound(tree', proc'[s])
    OBVIOUS
  <2>4. ASSUME TreeSettled' PROVE Sound(tree', Off)
    <3>1. proc'[s].pc \in {"off", "open"}
      BY <2>4 DEF TreeSettled, Busy
    <3>2. Plain(proc'[s])
      BY <3>1, PlainSteps
    <3>3. Paired(tree', Off)
      BY <2>3, <3>2, PlainPaired, OffIsPlain DEF Sound
    <3> QED BY <2>3, <3>3, OffIsPlain DEF Sound
  <2> QED BY <2>2, <2>3, <2>4
<1> QED BY <1>4, <1>5, <1>6, <1>7 DEF MeshInd

\* It leaves the tree as it is.
LEMMA OnlyLocals ==
  ASSUME MeshInd, NEW s \in Procs, Busy(s), NEW m \in Locals, InHand(m), proc' = [proc EXCEPT ![s] = m],
         UNCHANGED <<tree, stale, registered, connected, connects, limit>>,
         m.id \in {proc[s].id, Nil} \cup proc[s].dead, m.dead \subseteq proc[s].dead,
         limit = 1 => Sound(tree, m)
  PROVE  MeshInd'
<1>1. proc'[s] = m
  BY DEF MeshInd, MeshTyped
<1>2. tree \in Trees /\ FiniteTree(tree) /\ stale \subseteq Peers /\ registered \subseteq Peers
      /\ connected \subseteq WsSessions /\ connects \in Nat
  BY DEF MeshInd, MeshTyped, FinitelyMany, FiniteTree
<1>3. Nil \notin WsSessions
  BY MeshNames
<1>4. \A w \in WsSessions \ connected : tree[w] = Nil /\ m.id # w /\ w \notin m.dead
  BY <1>3 DEF MeshInd, Unheard
<1> QED BY <1>1, <1>2, <1>4, Proceeds

LEMMA AtWork ==
  ASSUME MeshInd, NEW s \in Procs
  PROVE  /\ proc[s] \in Locals /\ InHand(proc[s]) /\ tree \in Trees /\ FiniteTree(tree)
         /\ proc[s].pc \in Pcs /\ proc[s].id \in Peers \cup {Nil} /\ proc[s].cap \in Nat \cup {Nil}
         /\ proc[s].parent \in Peers \cup {Nil} /\ proc[s].depth \in Nat
         /\ proc[s].left \in Seq(Peers \cup {Nil}) /\ proc[s].todo \in Seq(Peers) /\ proc[s].dead \subseteq Peers
         /\ \A w \in WsSessions \ connected : tree[w] = Nil /\ proc[s].id # w /\ w \notin proc[s].dead
         /\ Busy(s) /\ limit = 1 => Sound(tree, proc[s])
         /\ stale \subseteq Peers /\ registered \subseteq Peers /\ connected \subseteq WsSessions /\ connects \in Nat
<1>1. proc[s] \in Locals
  BY DEF MeshInd, MeshTyped
<1> QED BY <1>1 DEF MeshInd, MeshTyped, FinitelyMany, FiniteTree, OneAtATime, Unheard, Locals

LEMMA Choices ==
  ASSUME NEW q \in BestParents
  PROVE  q \in Peers /\ HasRoom(tree, q) /\ tree[q].depth < MaxDepth
BY DEF BestParents, Candidates, CanAcceptChild, EffectiveCapacity, HasRoom, Ceiling, Present, There

LEMMA AddCountStep ==
  ASSUME MeshInd, NEW s \in Procs, AddCount(s)
  PROVE  MeshInd'
<1> DEFINE l == proc[s]
           m == [l EXCEPT !.pc = IF Cardinality(Roots(tree)) < RootPeerCount THEN "root" ELSE "find"]
<1>1. l \in Locals /\ InHand(l) /\ l.pc = "count" /\ Busy(s)
  BY AtWork DEF AddCount, Busy
<1>2. proc' = [proc EXCEPT ![s] = m]
  BY DEF AddCount, Roots, Present, There
<1>3. m \in Locals /\ m.pc \in {"root", "find"} /\ m.id = l.id /\ m.cap = l.cap /\ m.dead = l.dead
      /\ (m.pc = "root" => Cardinality(Roots(tree)) < RootPeerCount)
  BY <1>1 DEF Locals, Pcs
<1>4. InHand(m)
  BY <1>1, <1>3 DEF InHand
<1> HIDE DEF m
<1>5. ASSUME limit = 1 PROVE Sound(tree, m)
  <2>1. Sound(tree, l)
    BY <1>1, <1>5, AtWork
  <2>2. Plain(l) /\ Plain(m)
    BY <1>1, <1>3, PlainSteps
  <2>3. Paired(tree, m)
    BY <2>1, <2>2, PlainPaired DEF Sound
  <2>4. Knows(tree, m) /\ Waits(tree, m)
    BY <1>1, <1>3, <2>1 DEF Sound, Knows, Waits
  <2> QED BY <2>1, <2>3, <2>4 DEF Sound
<1> QED BY <1>1, <1>2, <1>3, <1>4, <1>5, OnlyLocals DEF AddCount

\* A placed or unplaced session is idle.
LEMMA PlacedIsOpen ==
  ASSUME NEW s, NEW m \in {Placed(s), Unplaced(s)}, proc[s].id \in Peers \cup {Nil}
  PROVE  /\ m \in Locals /\ InHand(m) /\ m.pc = "open" /\ m.id \in {proc[s].id, Nil} /\ m.dead = {}
         /\ \A t : Paired(t, Off) /\ Loads(t) => Sound(t, m)
<1>1. /\ m \in Locals /\ m.pc = "open" /\ m.id \in {proc[s].id, Nil} /\ m.dead = {}
  BY OffIsPlain DEF Placed, Unplaced, Off, Locals, Pcs
<1>2. InHand(m)
  BY <1>1 DEF InHand
<1>3. Plain(m)
  BY <1>1, PlainSteps
<1>4. \A t : Knows(t, m) /\ Waits(t, m)
  BY <1>1 DEF Knows, Waits
<1>5. \A t : Paired(t, Off) => Paired(t, m)
  BY <1>3, OffIsPlain, PlainPaired
<1> QED BY <1>1, <1>2, <1>4, <1>5 DEF Sound

LEMMA EntryWritten ==
  ASSUME MeshInd, NEW x \in Peers, NEW e \in Infos \cup {Nil}, tree' = [tree EXCEPT ![x] = e]
  PROVE  /\ tree' \in Trees /\ FiniteTree(tree') /\ tree'[x] = e /\ (There(tree', x) <=> e \in Infos)
         /\ \A r \in Peers : r # x => tree'[r] = tree[r] /\ (There(tree', r) <=> There(tree, r))
<1> DEFINE t == tree
           u == [t EXCEPT ![x] = e]
<1>1. t \in Trees /\ FiniteTree(t) /\ tree' = u
  BY DEF MeshInd, MeshTyped, FinitelyMany, FiniteTree
<1> HIDE DEF t
<1>2. /\ u \in Trees /\ u[x] = e /\ (There(u, x) <=> e \in Infos)
      /\ \A r \in Peers : r # x => u[r] = t[r] /\ (There(u, r) <=> There(t, r))
  BY <1>1, SetEntry
<1> HIDE DEF u
<1>3. FiniteTree(u)
  <2>1. {p \in Peers : There(u, p)} \subseteq {p \in Peers : There(t, p)} \cup {x}
    BY <1>2
  <2>2. IsFiniteSet({p \in Peers : There(t, p)} \cup {x})
    BY <1>1, FS_AddElement DEF FiniteTree
  <2> QED BY <2>1, <2>2, FS_Subset DEF FiniteTree
<1> QED BY <1>1, <1>2, <1>3 DEF t

LEMMA AddRootStep ==
  ASSUME MeshInd, NEW s \in Procs, AddRoot(s)
  PROVE  MeshInd'
<1> DEFINE l == proc[s]
           m == Placed(s)
           e == PeerInfo("root", Nil, 0, l.cap)
<1>1. l \in Locals /\ InHand(l) /\ l.pc = "root" /\ Busy(s) /\ l.id \in Peers /\ l.cap \in Capacities
  BY AtWork DEF AddRoot, Busy, InHand
<1>2. proc' = [proc EXCEPT ![s] = m] /\ tree' = [tree EXCEPT ![l.id] = e] /\ stale' \subseteq stale
      /\ UNCHANGED <<registered, connected, connects, limit>>
  BY DEF AddRoot
<1>3. /\ m \in Locals /\ InHand(m) /\ m.pc = "open" /\ m.id \in {proc[s].id, Nil} /\ m.dead = {}
      /\ \A t : Paired(t, Off) /\ Loads(t) => Sound(t, m)
  BY <1>1, PlacedIsOpen
<1>4. e \in Infos /\ e.parent = Nil /\ e.children = <<>> /\ e.depth = 0 /\ e.role = "root"
  BY <1>1, EmptySeq DEF PeerInfo, Infos
<1> HIDE DEF m, e
<1>5. proc'[s] = m
  BY <1>2 DEF MeshInd, MeshTyped
<1>6. tree \in Trees /\ FiniteTree(tree)
  BY AtWork
<1>7. /\ tree' \in Trees /\ FiniteTree(tree') /\ tree'[l.id] = e
      /\ \A r \in Peers : r # l.id => tree'[r] = tree[r] /\ (There(tree', r) <=> There(tree, r))
  BY <1>1, <1>2, <1>4, EntryWritten
<1>9. ASSUME limit = 1 PROVE Sound(tree', m)
  <2>1. Sound(tree, l)
    BY <1>1, <1>9, AtWork
  <2>2. Plain(l)
    BY <1>1, PlainSteps
  <2>3. ~ There(tree, l.id) /\ Cardinality(Roots(tree)) < RootPeerCount
    BY <1>1, <2>1 DEF Sound, Knows
  <2>4. \A p, r \in Peers : (Unlisted(Off, p) <=> Nil # Nil /\ p = l.id) /\ ~ Departing(Off, r, p) /\ ~ Orphaned(Off, r, p)
    BY OffIsPlain DEF Plain
  <2>5. 0 <= MaxDepth
    BY MeshAssumption
  <2>6. Paired(tree', Off) /\ Loads(tree')
    BY <1>1, <1>2, <1>4, <1>6, <2>1, <2>2, <2>3, <2>4, <2>5, InsertPaired DEF Sound
  <2> QED BY <1>3, <2>6
<1>10. \A w \in WsSessions \ connected : tree'[w] = Nil /\ m.id # w /\ w \notin m.dead
  <2>1. Nil \notin WsSessions /\ WsSessions \subseteq Peers
    BY MeshNames DEF Peers
  <2>2. \A w \in WsSessions \ connected : tree[w] = Nil /\ l.id # w
    BY AtWork
  <2> QED BY <1>3, <1>7, <2>1, <2>2
<1>11. stale' \subseteq Peers /\ registered' \subseteq Peers /\ connected' \subseteq WsSessions /\ connects' \in Nat
  BY <1>2, AtWork
<1> QED BY <1>1, <1>2, <1>3, <1>5, <1>7, <1>9, <1>10, <1>11, Proceeds

LEMMA AddFindStep ==
  ASSUME MeshInd, NEW s \in Procs, AddFind(s)
  PROVE  MeshInd'
<1> DEFINE l == proc[s]
<1>1. l \in Locals /\ InHand(l) /\ l.pc = "find" /\ Busy(s) /\ l.id \in Peers /\ l.cap \in Capacities
  BY AtWork DEF AddFind, Busy, InHand
<1>2. UNCHANGED <<tree, stale, registered, connected, connects, limit>>
  BY DEF AddFind
<1>3. limit = 1 => Sound(tree, l) /\ Plain(l) /\ Paired(tree, Off) /\ Loads(tree)
  <2>1. Plain(l)
    BY <1>1, PlainSteps
  <2> QED BY <1>1, <2>1, AtWork, PlainPaired, OffIsPlain DEF Sound
<1>4. CASE proc' = [proc EXCEPT ![s] = Unplaced(s)]
  <2> DEFINE m == Unplaced(s)
  <2>1. /\ m \in Locals /\ InHand(m) /\ m.pc = "open" /\ m.id \in {proc[s].id, Nil} /\ m.dead = {}
        /\ \A t : Paired(t, Off) /\ Loads(t) => Sound(t, m)
    BY <1>1, PlacedIsOpen
  <2> HIDE DEF m
  <2>2. proc' = [proc EXCEPT ![s] = m]
    BY <1>4 DEF m
  <2>3. m.id \in {proc[s].id, Nil} \cup proc[s].dead /\ m.dead \subseteq proc[s].dead
    BY <2>1
  <2> QED BY <1>1, <1>2, <1>3, <2>1, <2>2, <2>3, OnlyLocals
<1>5. ASSUME NEW q \in BestParents, proc' = [proc EXCEPT ![s].pc = "depth", ![s].parent = q]
      PROVE  MeshInd'
  <2> DEFINE m == [l EXCEPT !.pc = "depth", !.parent = q]
  <2>1. q \in Peers /\ HasRoom(tree, q)
    BY Choices
  <2>2. proc' = [proc EXCEPT ![s] = m]
    BY <1>5 DEF MeshInd, MeshTyped
  <2>3. m \in Locals /\ m.pc = "depth" /\ m.id = l.id /\ m.cap = l.cap /\ m.dead = l.dead /\ m.parent = q
    BY <1>1, <2>1 DEF Locals, Pcs
  <2>4. InHand(m)
    BY <1>1, <2>1, <2>3 DEF InHand
  <2> HIDE DEF m
  <2>5. ASSUME limit = 1 PROVE Sound(tree, m)
    <3>1. Plain(m)
      BY <2>3, PlainSteps
    <3>2. Paired(tree, m)
      BY <1>3, <2>5, <3>1, PlainPaired, OffIsPlain
    <3>3. Knows(tree, m) /\ Waits(tree, m)
      BY <1>1, <1>3, <2>1, <2>3, <2>5 DEF Sound, Knows, Waits
    <3> QED BY <1>3, <2>5, <3>2, <3>3 DEF Sound
  <2>6. m.id \in {proc[s].id, Nil} \cup proc[s].dead /\ m.dead \subseteq proc[s].dead
    BY <2>3
  <2> QED BY <1>1, <1>2, <2>2, <2>3, <2>4, <2>5, <2>6, OnlyLocals
<1> QED BY <1>4, <1>5 DEF AddFind

LEMMA AddDepthStep ==
  ASSUME MeshInd, NEW s \in Procs, AddDepth(s)
  PROVE  MeshInd'
<1> DEFINE l == proc[s]
           q == l.parent
           d == IF Present(q) THEN tree[q].depth + 1 ELSE 1
<1>1. l \in Locals /\ InHand(l) /\ l.pc = "depth" /\ Busy(s) /\ l.id \in Peers /\ l.cap \in Capacities /\ q \in Peers
  BY AtWork DEF AddDepth, Busy, InHand
<1>2. UNCHANGED <<tree, stale, registered, connected, connects, limit>>
  BY DEF AddDepth
<1>3. limit = 1 => Sound(tree, l) /\ Plain(l) /\ Paired(tree, Off) /\ Loads(tree)
  <2>1. Plain(l)
    BY <1>1, PlainSteps
  <2> QED BY <1>1, <2>1, AtWork, PlainPaired, OffIsPlain DEF Sound
<1>4. d \in Nat
  <2>1. tree \in Trees
    BY AtWork
  <2>2. There(tree, q) => tree[q].depth \in Nat
    BY <1>1, <2>1, EntryFacts
  <2> QED BY <2>2 DEF Present, There
<1>5. MaxDepth \in Nat
  BY MeshAssumption
<1>6. \/ d > MaxDepth /\ proc' = [proc EXCEPT ![s] = Unplaced(s)]
      \/ ~ (d > MaxDepth) /\ proc' = [proc EXCEPT ![s] = [l EXCEPT !.pc = "insert", !.depth = d]]
  BY DEF AddDepth
<1> HIDE DEF d
<1>7. CASE proc' = [proc EXCEPT ![s] = Unplaced(s)]
  <2> DEFINE m == Unplaced(s)
  <2>1. /\ m \in Locals /\ InHand(m) /\ m.pc = "open" /\ m.id \in {proc[s].id, Nil} /\ m.dead = {}
        /\ \A t : Paired(t, Off) /\ Loads(t) => Sound(t, m)
    BY <1>1, PlacedIsOpen
  <2> HIDE DEF m
  <2>2. proc' = [proc EXCEPT ![s] = m]
    BY <1>7 DEF m
  <2>3. m.id \in {proc[s].id, Nil} \cup proc[s].dead /\ m.dead \subseteq proc[s].dead
    BY <2>1
  <2> QED BY <1>1, <1>2, <1>3, <2>1, <2>2, <2>3, OnlyLocals
<1>8. CASE ~ (d > MaxDepth) /\ proc' = [proc EXCEPT ![s] = [l EXCEPT !.pc = "insert", !.depth = d]]
  <2> DEFINE m == [l EXCEPT !.pc = "insert", !.depth = d]
  <2>1. d <= MaxDepth
    BY <1>4, <1>5, <1>8
  <2>2. proc' = [proc EXCEPT ![s] = m]
    BY <1>8
  <2>3. m \in Locals /\ m.pc = "insert" /\ m.id = l.id /\ m.cap = l.cap /\ m.dead = l.dead /\ m.parent = q /\ m.depth = d
    BY <1>1, <1>4 DEF Locals, Pcs
  <2>4. InHand(m)
    BY <1>1, <2>3 DEF InHand
  <2> HIDE DEF m
  <2>5. ASSUME limit = 1 PROVE Sound(tree, m)
    <3>1. Plain(m)
      BY <2>3, PlainSteps
    <3>2. Paired(tree, m)
      BY <1>3, <2>5, <3>1, PlainPaired, OffIsPlain
    <3>3. Knows(tree, m) /\ Waits(tree, m)
      BY <1>1, <1>3, <2>1, <2>3, <2>5 DEF Sound, Knows, Waits
    <3> QED BY <1>3, <2>5, <3>2, <3>3 DEF Sound
  <2>6. m.id \in {proc[s].id, Nil} \cup proc[s].dead /\ m.dead \subseteq proc[s].dead
    BY <2>3
  <2> QED BY <1>1, <1>2, <2>2, <2>3, <2>4, <2>5, <2>6, OnlyLocals
<1> QED BY <1>6, <1>7, <1>8

LEMMA AddInsertStep ==
  ASSUME MeshInd, NEW s \in Procs, AddInsert(s)
  PROVE  MeshInd'
<1> DEFINE l == proc[s]
           q == l.parent
           m == [l EXCEPT !.pc = "push"]
           e == PeerInfo("relay", q, l.depth, l.cap)
<1>1. /\ l \in Locals /\ InHand(l) /\ l.pc = "insert" /\ Busy(s) /\ l.id \in Peers /\ l.cap \in Capacities
      /\ q \in Peers /\ l.depth \in Nat
  BY AtWork DEF AddInsert, Busy, InHand
<1>2. proc' = [proc EXCEPT ![s] = m] /\ tree' = [tree EXCEPT ![l.id] = e] /\ stale' \subseteq stale
      /\ UNCHANGED <<registered, connected, connects, limit>>
  BY DEF AddInsert, MeshInd, MeshTyped
<1>3. m \in Locals /\ m.pc = "push" /\ m.id = l.id /\ m.cap = l.cap /\ m.dead = l.dead /\ m.parent = q
  BY <1>1 DEF Locals, Pcs
<1>4. InHand(m)
  BY <1>1, <1>3 DEF InHand
<1>5. e \in Infos /\ e.parent = q /\ e.children = <<>> /\ e.depth = l.depth /\ e.role = "relay"
  BY <1>1, EmptySeq DEF PeerInfo, Infos
<1> HIDE DEF m, e
<1>6. proc'[s] = m
  BY <1>2 DEF MeshInd, MeshTyped
<1>7. /\ tree' \in Trees /\ FiniteTree(tree') /\ tree'[l.id] = e /\ There(tree', l.id)
      /\ \A r \in Peers : r # l.id => tree'[r] = tree[r] /\ (There(tree', r) <=> There(tree, r))
  BY <1>1, <1>2, <1>5, EntryWritten
<1>8. tree \in Trees /\ FiniteTree(tree)
  BY AtWork
<1>9. ASSUME limit = 1 PROVE Sound(tree', m)
  <2>1. Sound(tree, l)
    BY <1>1, <1>9, AtWork
  <2>2. Plain(l)
    BY <1>1, PlainSteps
  <2>3. ~ There(tree, l.id) /\ HasRoom(tree, q) /\ l.depth <= MaxDepth
    BY <1>1, <2>1 DEF Sound, Knows
  <2>4. Nil \notin Peers
    BY MeshNames DEF Peers
  <2>5. \A p, r \in Peers : (Unlisted(m, p) <=> q # Nil /\ p = l.id) /\ ~ Departing(m, r, p) /\ ~ Orphaned(m, r, p)
    BY <1>1, <1>3, <2>4 DEF Unlisted, Departing, Orphaned
  <2>6. Paired(tree', m) /\ Loads(tree')
    <3>1. q # Nil => There(tree, q)
      BY <2>3 DEF HasRoom
    <3>2. e.role = "root" => Cardinality(Roots(tree)) < RootPeerCount
      BY <1>5
    <3> QED BY <1>1, <1>2, <1>5, <1>8, <2>1, <2>2, <2>3, <2>5, <3>1, <3>2, InsertPaired DEF Sound
  <2>7. HasRoom(tree', q)
    <3>1. q # l.id
      BY <2>3 DEF HasRoom
    <3> QED BY <1>1, <1>7, <2>3, <3>1 DEF HasRoom, Ceiling
  <2>8. PointsTo(tree', l.id, q)
    BY <1>5, <1>7 DEF PointsTo
  <2>9. Knows(tree', m) /\ Waits(tree', m)
    BY <1>3, <2>7, <2>8 DEF Knows, Waits
  <2> QED BY <2>6, <2>9 DEF Sound
<1>10. \A w \in WsSessions \ connected : tree'[w] = Nil /\ m.id # w /\ w \notin m.dead
  <2>1. WsSessions \subseteq Peers
    BY DEF Peers
  <2>2. \A w \in WsSessions \ connected : tree[w] = Nil /\ l.id # w /\ w \notin l.dead
    BY AtWork
  <2> QED BY <1>3, <1>7, <2>1, <2>2
<1>11. stale' \subseteq Peers /\ registered' \subseteq Peers /\ connected' \subseteq WsSessions /\ connects' \in Nat
  BY <1>2, AtWork
<1>12. /\ proc' = [proc EXCEPT ![s] = proc'[s]] /\ proc'[s] \in Locals /\ InHand(proc'[s])
       /\ \A w \in WsSessions \ connected : tree'[w] = Nil /\ proc'[s].id # w /\ w \notin proc'[s].dead
       /\ limit = 1 => Sound(tree', proc'[s])
  BY <1>2, <1>3, <1>4, <1>6, <1>9, <1>10
<1>13. connected' = connected /\ limit' = limit
  BY <1>2
<1> HIDE DEF l
<1> QED BY <1>1, <1>7, <1>11, <1>12, <1>13, Proceeds

\* What a push or a retain does to a tree, found sound or not.
LEMMA ListsWritten ==
  ASSUME MeshInd, NEW q \in Peers \cup {Nil}, NEW x \in Peers, tree' \in {Push(tree, q, x), Retain(tree, q, x)},
         tree' = Push(tree, q, x) => q \in Peers
  PROVE  /\ tree' \in Trees /\ FiniteTree(tree')
         /\ \A w \in WsSessions \ connected : tree'[w] = Nil
<1>1. tree \in Trees /\ FiniteTree(tree)
  BY DEF MeshInd, MeshTyped, FinitelyMany, FiniteTree
<1>2. \A w \in WsSessions \ connected : tree[w] = Nil /\ w \in Peers
  BY DEF MeshInd, Unheard, Peers
<1>3. CASE tree' = tree
  BY <1>1, <1>2, <1>3
<1>4. ASSUME There(tree, q), q \in Peers, NEW c \in Seq(Peers), tree' = [tree EXCEPT ![q].children = c]
      PROVE  /\ tree' \in Trees /\ FiniteTree(tree')
             /\ \A w \in WsSessions \ connected : tree'[w] = Nil
  <2>1. ChildrenOnly(tree, tree', q, c)
    BY <1>1, <1>4, SetChildren
  <2>2. {p \in Peers : There(tree', p)} = {p \in Peers : There(tree, p)}
    BY <2>1 DEF ChildrenOnly
  <2>3. \A w \in WsSessions \ connected : tree'[w] = Nil
    BY <1>2, <2>1, MeshNames DEF ChildrenOnly, There, Peers
  <2> QED BY <1>1, <2>1, <2>2, <2>3 DEF ChildrenOnly, FiniteTree
<1>5. There(tree, q) /\ q \in Peers => tree[q].children \in Seq(Peers)
  BY <1>1, EntryFacts
<1>6. CASE tree' = Push(tree, q, x) /\ tree' # tree
  <2>1. tree' = [tree EXCEPT ![q].children = Append(@, x)] /\ There(tree, q)
    BY <1>6, MeshNames DEF Push, There, Peers
  <2>2. Append(tree[q].children, x) \in Seq(Peers)
    BY <1>5, <1>6, <2>1, OneMore
  <2> QED BY <1>4, <1>6, <2>1, <2>2
<1>7. CASE tree' = Retain(tree, q, x) /\ tree' # tree
  <2>1. tree' = [tree EXCEPT ![q].children = Without(@, x)] /\ There(tree, q) /\ q \in Peers
    BY <1>7 DEF Retain, There
  <2>2. Without(tree[q].children, x) \in Seq(Peers)
    BY <1>5, <2>1, WithoutKeepsTheRest
  <2> QED BY <1>4, <2>1, <2>2
<1> QED BY <1>3, <1>6, <1>7

LEMMA AddPushStep ==
  ASSUME MeshInd, NEW s \in Procs, AddPush(s)
  PROVE  MeshInd'
<1> DEFINE l == proc[s]
           q == l.parent
           x == l.id
           m == Placed(s)
<1>1. l \in Locals /\ InHand(l) /\ l.pc = "push" /\ Busy(s) /\ x \in Peers /\ q \in Peers
  BY AtWork DEF AddPush, Busy, InHand
<1>2. proc' = [proc EXCEPT ![s] = m] /\ tree' = Push(tree, q, x)
      /\ UNCHANGED <<stale, registered, connected, connects, limit>>
  BY DEF AddPush
<1>3. /\ m \in Locals /\ InHand(m) /\ m.pc = "open" /\ m.id \in {proc[s].id, Nil} /\ m.dead = {}
      /\ \A t : Paired(t, Off) /\ Loads(t) => Sound(t, m)
  BY <1>1, PlacedIsOpen
<1> HIDE DEF m
<1>4. proc'[s] = m
  BY <1>2 DEF MeshInd, MeshTyped
<1>5. tree' \in Trees /\ FiniteTree(tree') /\ \A w \in WsSessions \ connected : tree'[w] = Nil
  BY <1>1, <1>2, ListsWritten
<1>6. tree \in Trees /\ FiniteTree(tree)
  BY AtWork
<1>7. ASSUME limit = 1 PROVE Sound(tree', m)
  <2>1. Sound(tree, l)
    BY <1>1, <1>7, AtWork
  <2>2. HasRoom(tree, q) /\ PointsTo(tree, x, q)
    BY <1>1, <2>1 DEF Sound, Knows
  <2>3. \A p, r \in Peers : (Unlisted(l, p) <=> p = x) /\ ~ Departing(l, r, p) /\ ~ Orphaned(l, r, p)
    BY <1>1 DEF Unlisted, Departing, Orphaned
  <2>4. Paired(tree', Off) /\ Loads(tree')
    BY <1>1, <1>2, <1>6, <2>1, <2>2, <2>3, OffIsPlain, PushPaired DEF Sound
  <2> QED BY <1>3, <2>4
<1>8. \A w \in WsSessions \ connected : tree'[w] = Nil /\ m.id # w /\ w \notin m.dead
  <2>1. Nil \notin WsSessions
    BY MeshNames
  <2>2. \A w \in WsSessions \ connected : l.id # w
    BY AtWork
  <2> QED BY <1>3, <1>5, <2>1, <2>2
<1>9. stale' \subseteq Peers /\ registered' \subseteq Peers /\ connected' \subseteq WsSessions /\ connects' \in Nat
  BY <1>2, AtWork
<1> QED BY <1>1, <1>2, <1>3, <1>4, <1>5, <1>7, <1>8, <1>9, Proceeds

LEMMA FinishedIsIdle ==
  ASSUME NEW s, proc[s].dead \subseteq Peers
  PROVE  LET m == Finished(s)
         IN  /\ m \in Locals /\ InHand(m) /\ m.id = Nil /\ m.dead \subseteq proc[s].dead
             /\ \A t : Paired(t, Off) /\ Loads(t) => Sound(t, m)
<1> DEFINE m == Finished(s)
<1>1. /\ m \in Locals /\ m.pc \in {"off", "next"} /\ m.id = Nil /\ m.dead \subseteq proc[s].dead
  BY OffIsPlain DEF Finished, Off, Locals, Pcs
<1> HIDE DEF m
<1>2. InHand(m)
  BY <1>1 DEF InHand
<1>3. Plain(m)
  BY <1>1, PlainSteps
<1>4. \A t : Knows(t, m) /\ Waits(t, m)
  BY <1>1 DEF Knows, Waits
<1>5. \A t : Paired(t, Off) => Paired(t, m)
  BY <1>3, OffIsPlain, PlainPaired
<1>6. /\ m \in Locals /\ InHand(m) /\ m.id = Nil /\ m.dead \subseteq proc[s].dead
      /\ \A t : Paired(t, Off) /\ Loads(t) => Sound(t, m)
  BY <1>1, <1>2, <1>4, <1>5 DEF Sound
<1> QED BY <1>6 DEF m

\* A process that is through leaves a sound tree.
LEMMA FinishStep ==
  ASSUME MeshInd, NEW s \in Procs, Busy(s), proc' = [proc EXCEPT ![s] = Finished(s)],
         UNCHANGED <<tree, stale, registered, connected, connects, limit>>,
         limit = 1 => Plain(proc[s])
  PROVE  MeshInd'
<1> DEFINE m == Finished(s)
<1>1. /\ m \in Locals /\ InHand(m) /\ m.id = Nil /\ m.dead \subseteq proc[s].dead
      /\ \A t : Paired(t, Off) /\ Loads(t) => Sound(t, m)
  BY FinishedIsIdle, AtWork
<1>2. proc' = [proc EXCEPT ![s] = m]
  OBVIOUS
<1> HIDE DEF m
<1>3. limit = 1 => Sound(tree, m)
  BY <1>1, AtWork, PlainPaired, OffIsPlain DEF Sound
<1> QED BY <1>1, <1>2, <1>3, OnlyLocals

LEMMA RemoveStep ==
  ASSUME MeshInd, NEW s \in Procs, Remove(s)
  PROVE  MeshInd'
<1> DEFINE l == proc[s]
           x == l.id
           c == tree[x].children
           m == [l EXCEPT !.pc = "unlink", !.parent = tree[x].parent, !.left = c, !.todo = c]
<1>1. l \in Locals /\ InHand(l) /\ l.pc = "remove" /\ Busy(s) /\ x \in Peers
  BY AtWork DEF Remove, Busy, InHand
<1>2. UNCHANGED <<stale, registered, connected, connects, limit>>
  BY DEF Remove
<1>3. Plain(l)
  BY <1>1, PlainSteps
<1>4. CASE ~ Present(x)
  <2>1. proc' = [proc EXCEPT ![s] = Finished(s)] /\ tree' = tree
    BY <1>4 DEF Remove
  <2> QED BY <1>1, <1>2, <1>3, <2>1, FinishStep
<1>5. CASE Present(x)
  <2>1. tree' = [tree EXCEPT ![x] = Nil]
    BY <1>5 DEF Remove
  <2>2. proc' = [proc EXCEPT ![s] = m]
    BY <1>5 DEF Remove, MeshInd, MeshTyped
  <2>3. tree \in Trees /\ FiniteTree(tree) /\ There(tree, x)
    BY <1>5, AtWork DEF Present, There
  <2>4. tree[x].parent \in Peers \cup {Nil} /\ c \in Seq(Peers)
    BY <1>1, <2>3, EntryFacts
  <2>5. c \in Seq(Peers \cup {Nil})
    BY <2>4, SeqMonotonic
  <2>6. /\ m \in Locals /\ m.pc = "unlink" /\ m.id = x /\ m.dead = l.dead /\ m.parent = tree[x].parent
        /\ m.left = c /\ m.todo = c
    BY <1>1, <2>4, <2>5 DEF Locals, Pcs
  <2>7. InHand(m)
    BY <1>1, <2>6 DEF InHand
  <2> HIDE DEF m
  <2>8. proc'[s] = m
    BY <2>2 DEF MeshInd, MeshTyped
  <2>9. /\ tree' \in Trees /\ FiniteTree(tree') /\ tree'[x] = Nil
        /\ \A r \in Peers : r # x => tree'[r] = tree[r]
    BY <1>1, <2>1, EntryWritten
  <2>10. ASSUME limit = 1 PROVE Sound(tree', m)
    <3>1. Sound(tree, l)
      BY <1>1, <2>10, AtWork
    <3>2. \A p, r \in Peers : /\ ~ Unlisted(m, p)
                              /\ Departing(m, r, p) <=> p = x /\ r = tree[x].parent
                              /\ Orphaned(m, r, p) <=> r = x /\ Among(tree[x].children, p)
      BY <2>6 DEF Unlisted, Departing, Orphaned
    <3>3. /\ Paired(tree', m) /\ Loads(tree') /\ ~ There(tree', x)
          /\ \A p \in Peers : Among(tree[x].children, p) /\ There(tree', p) => tree'[p].parent = x
          /\ Distinct(tree[x].children)
      BY <1>1, <1>3, <2>1, <2>3, <3>1, <3>2, RemovePaired DEF Sound
    <3>4. Knows(tree', m) /\ Waits(tree', m)
      BY <2>6, <3>3 DEF Knows, Waits
    <3> QED BY <3>3, <3>4 DEF Sound
  <2>11. \A w \in WsSessions \ connected : tree'[w] = Nil /\ m.id # w /\ w \notin m.dead
    <3>1. WsSessions \subseteq Peers
      BY DEF Peers
    <3>2. \A w \in WsSessions \ connected : tree[w] = Nil /\ l.id # w /\ w \notin l.dead
      BY AtWork
    <3> QED BY <2>6, <2>9, <3>1, <3>2
  <2>12. stale' \subseteq Peers /\ registered' \subseteq Peers /\ connected' \subseteq WsSessions /\ connects' \in Nat
    BY <1>2, AtWork
  <2>13. /\ proc' = [proc EXCEPT ![s] = proc'[s]] /\ proc'[s] \in Locals /\ InHand(proc'[s])
         /\ \A w \in WsSessions \ connected : tree'[w] = Nil /\ proc'[s].id # w /\ w \notin proc'[s].dead
         /\ limit = 1 => Sound(tree', proc'[s])
    BY <2>2, <2>6, <2>7, <2>8, <2>10, <2>11
  <2>14. connected' = connected /\ limit' = limit
    BY <1>2
  <2> HIDE DEF l
  <2> QED BY <1>1, <2>9, <2>12, <2>13, <2>14, Proceeds
<1> QED BY <1>4, <1>5

LEMMA UnlinkStep ==
  ASSUME MeshInd, NEW s \in Procs, Unlink(s)
  PROVE  MeshInd'
<1> DEFINE l == proc[s]
           x == l.id
           q == l.parent
           m == [l EXCEPT !.pc = "orphan"]
<1>1. l \in Locals /\ InHand(l) /\ l.pc = "unlink" /\ Busy(s) /\ x \in Peers /\ q \in Peers \cup {Nil}
  BY AtWork DEF Unlink, Busy, InHand
<1>2. UNCHANGED <<stale, registered, connected, connects, limit>> /\ tree' = Retain(tree, q, x)
      /\ proc' = [proc EXCEPT ![s] = m]
  BY DEF Unlink, MeshInd, MeshTyped
<1>3. /\ m \in Locals /\ m.pc = "orphan" /\ m.id = x /\ m.dead = l.dead /\ m.left = l.left /\ m.todo = l.todo
  BY <1>1 DEF Locals, Pcs
<1>4. InHand(m)
  BY <1>1, <1>3 DEF InHand
<1> HIDE DEF m
<1>5. proc'[s] = m
  BY <1>2 DEF MeshInd, MeshTyped
<1>6. tree \in Trees /\ FiniteTree(tree)
  BY AtWork
<1>7. CASE q = Nil \/ tree[q] = Nil
  <2>1. tree' = tree
    BY <1>2, <1>7 DEF Retain
  <2>2. ASSUME limit = 1 PROVE Sound(tree, m)
    <3>1. Sound(tree, l)
      BY <1>1, <2>2, AtWork
    <3>2. ~ There(tree, x)
      BY <1>1, <3>1 DEF Sound, Knows
    <3>3. \A p, r \in Peers : /\ ~ Unlisted(l, p) /\ (Departing(l, r, p) <=> p = x /\ r = q)
                              /\ ~ Unlisted(m, p) /\ ~ Departing(m, r, p)
                              /\ Orphaned(l, r, p) => Orphaned(m, r, p)
      BY <1>1, <1>3 DEF Unlisted, Departing, Orphaned
    <3>4. Paired(Retain(tree, q, x), m) /\ Loads(Retain(tree, q, x))
      <4>1. Paired(tree, l) /\ Loads(tree) /\ x \in Peers /\ q \in Peers \cup {Nil}
        BY <1>1, <3>1 DEF Sound
      <4> HIDE DEF l, x, q
      <4> QED BY <1>6, <3>2, <3>3, <4>1, UnlinkPaired
    <3>5. Paired(tree, m) /\ Loads(tree)
      BY <1>2, <2>1, <3>4
    <3>6. Knows(tree, m) /\ Waits(tree, m)
      BY <1>1, <1>3, <3>1 DEF Sound, Knows, Waits
    <3> QED BY <3>5, <3>6 DEF Sound
  <2>3. m.id \in {proc[s].id, Nil} \cup proc[s].dead /\ m.dead \subseteq proc[s].dead
    BY <1>3
  <2> QED BY <1>1, <1>2, <1>3, <1>4, <2>1, <2>2, <2>3, OnlyLocals
<1>8. CASE q \in Peers
  <2>1. /\ tree' \in Trees /\ FiniteTree(tree')
        /\ \A w \in WsSessions \ connected : tree'[w] = Nil
    BY <1>1, <1>2, <1>8, ListsWritten
  <2>2. ASSUME limit = 1 PROVE Sound(tree', m)
    <3>1. Sound(tree, l)
      BY <1>1, <2>2, AtWork
    <3>2. ~ There(tree, x)
      BY <1>1, <3>1 DEF Sound, Knows
    <3>3. \A p, r \in Peers : /\ ~ Unlisted(l, p) /\ (Departing(l, r, p) <=> p = x /\ r = q)
                              /\ ~ Unlisted(m, p) /\ ~ Departing(m, r, p)
                              /\ Orphaned(l, r, p) => Orphaned(m, r, p)
      BY <1>1, <1>3 DEF Unlisted, Departing, Orphaned
    <3>4. /\ Paired(tree', m) /\ Loads(tree')
          /\ \A p \in Peers : (There(tree', p) <=> There(tree, p)) /\ (There(tree, p) => tree'[p].parent = tree[p].parent)
      <4>1. Paired(tree, l) /\ Loads(tree) /\ x \in Peers /\ q \in Peers \cup {Nil} /\ tree' = Retain(tree, q, x)
        BY <1>1, <1>2, <3>1 DEF Sound
      <4> DEFINE u == Retain(tree, q, x)
      <4> HIDE DEF l, x, q
      <4>2. /\ Paired(u, m) /\ Loads(u)
            /\ \A p \in Peers : (There(u, p) <=> There(tree, p)) /\ (There(tree, p) => u[p].parent = tree[p].parent)
        BY <1>6, <3>2, <3>3, <4>1, UnlinkPaired
      <4>3. tree' = u
        BY <4>1
      <4> HIDE DEF u
      <4> QED BY <4>2, <4>3
    <3>5. Knows(tree', m) /\ Waits(tree', m)
      BY <1>1, <1>3, <3>1, <3>2, <3>4 DEF Sound, Knows, Waits
    <3> QED BY <3>4, <3>5 DEF Sound
  <2>3. \A w \in WsSessions \ connected : tree'[w] = Nil /\ m.id # w /\ w \notin m.dead
    BY <1>3, <2>1, AtWork
  <2>4. stale' \subseteq Peers /\ registered' \subseteq Peers /\ connected' \subseteq WsSessions /\ connects' \in Nat
    BY <1>2, AtWork
  <2>5. /\ proc' = [proc EXCEPT ![s] = proc'[s]] /\ proc'[s] \in Locals /\ InHand(proc'[s])
        /\ \A w \in WsSessions \ connected : tree'[w] = Nil /\ proc'[s].id # w /\ w \notin proc'[s].dead
        /\ limit = 1 => Sound(tree', proc'[s])
    BY <1>2, <1>3, <1>4, <1>5, <2>2, <2>3
  <2>6. connected' = connected /\ limit' = limit
    BY <1>2
  <2> HIDE DEF l
  <2> QED BY <1>1, <2>1, <2>4, <2>5, <2>6, Proceeds
<1> QED BY <1>1, <1>7, <1>8

\* A parent pointer written, in a tree found sound or not.
LEMMA ParentWritten ==
  ASSUME MeshInd, NEW o, NEW q, NEW d, ParentOnly(tree, tree', o, q, d)
  PROVE  /\ tree' \in Trees /\ FiniteTree(tree')
         /\ \A w \in WsSessions \ connected : tree'[w] = Nil
<1>1. FiniteTree(tree)
  BY DEF MeshInd, FinitelyMany, FiniteTree
<1>2. \A w \in WsSessions \ connected : tree[w] = Nil /\ w \in Peers /\ w # Nil
  BY MeshNames DEF MeshInd, Unheard, Peers
<1>3. {p \in Peers : There(tree', p)} = {p \in Peers : There(tree, p)}
  BY DEF ParentOnly
<1>4. \A w \in WsSessions \ connected : tree'[w] = Nil
  BY <1>2 DEF ParentOnly, There
<1> QED BY <1>1, <1>3, <1>4 DEF ParentOnly, FiniteTree

LEMMA OrphanStep ==
  ASSUME MeshInd, NEW s \in Procs, Orphan(s)
  PROVE  MeshInd'
<1> DEFINE l == proc[s]
           x == l.id
           o == Head(l.left)
<1>1. /\ l \in Locals /\ InHand(l) /\ l.pc = "orphan" /\ Busy(s) /\ x \in Peers
      /\ l.left \in Seq(Peers \cup {Nil}) /\ l.todo \in Seq(Peers)
  BY AtWork DEF Orphan, Busy, InHand
<1>2. UNCHANGED <<stale, registered, connected, connects, limit>>
  BY DEF Orphan
<1>3. tree \in Trees /\ FiniteTree(tree)
  BY AtWork
<1>4. CASE l.left = <<>>
  <2> DEFINE m == [l EXCEPT !.pc = "reassign"]
  <2>1. proc' = [proc EXCEPT ![s] = m] /\ tree' = tree
    BY <1>4 DEF Orphan, MeshInd, MeshTyped
  <2>2. /\ m \in Locals /\ m.pc = "reassign" /\ m.id = x /\ m.dead = l.dead /\ m.todo = l.todo
    BY <1>1 DEF Locals, Pcs
  <2>3. InHand(m)
    BY <1>1, <2>2 DEF InHand
  <2> HIDE DEF m
  <2>4. ASSUME limit = 1 PROVE Sound(tree, m)
    <3>1. Sound(tree, l)
      BY <1>1, <2>4, AtWork
    <3>2. \A p : ~ Among(l.left, p)
      BY <1>4, ListEntries, EmptySeq DEF Among
    <3>3. Plain(l)
      BY <1>1, <3>2 DEF Plain, Unlisted, Departing, Orphaned
    <3>4. Plain(m)
      BY <2>2, PlainSteps
    <3>5. Paired(tree, m)
      BY <3>1, <3>3, <3>4, PlainPaired DEF Sound
    <3>6. Knows(tree, m) /\ Waits(tree, m)
      BY <1>1, <2>2, <3>1, <3>2 DEF Sound, Knows, Waits
    <3> QED BY <3>1, <3>5, <3>6 DEF Sound
  <2>5. m.id \in {proc[s].id, Nil} \cup proc[s].dead /\ m.dead \subseteq proc[s].dead
    BY <2>2
  <2> QED BY <1>1, <1>2, <2>1, <2>2, <2>3, <2>4, <2>5, OnlyLocals
<1>5. CASE l.left # <<>>
  <2> DEFINE m == [l EXCEPT !.left = Tail(l.left)]
  <2>1. proc' = [proc EXCEPT ![s] = m]
        /\ tree' = IF Present(o) THEN [tree EXCEPT ![o].parent = Nil] ELSE tree
    BY <1>5 DEF Orphan, MeshInd, MeshTyped
  <2>2. /\ o \in Peers \cup {Nil} /\ Among(l.left, o) /\ Tail(l.left) \in Seq(Peers \cup {Nil})
        /\ \A p : Among(l.left, p) <=> Among(Tail(l.left), p) \/ p = o
        /\ Distinct(l.left) => Distinct(Tail(l.left)) /\ ~ Among(Tail(l.left), o)
    BY <1>1, <1>5, OneLess
  <2> DEFINE k == Tail(l.left)
  <2>3. /\ m \in Locals /\ m.pc = "orphan" /\ m.id = x /\ m.dead = l.dead /\ m.todo = l.todo /\ m.left = k
    BY <1>1, <2>2 DEF Locals, Pcs
  <2>4. InHand(m)
    BY <1>1, <2>3 DEF InHand
  <2> HIDE DEF m, k, o
  <2>5. \A p, r \in Peers : /\ ~ Unlisted(l, p) /\ ~ Departing(l, r, p) /\ ~ Departing(m, r, p) /\ ~ Unlisted(m, p)
                            /\ Orphaned(l, r, p) /\ p # o => Orphaned(m, r, p)
    BY <1>1, <2>2, <2>3 DEF Unlisted, Departing, Orphaned, k
  <2>6. CASE ~ There(tree, o)
    <3>1. tree' = tree
      BY <2>1, <2>6 DEF Present, There
    <3>2. ASSUME limit = 1 PROVE Sound(tree, m)
      <4>1. Sound(tree, l)
        BY <1>1, <3>2, AtWork
      <4>2. Paired(tree, m)
        <5>1. \A p, r \in Peers : PointsTo(tree, p, r) /\ ~ There(tree, r) => Orphaned(m, r, p)
          BY <2>5, <2>6, <4>1 DEF Sound, Paired, PointsTo
        <5> QED BY <2>5, <4>1, <5>1 DEF Sound, Paired
      <4>3. Knows(tree, m)
        BY <1>1, <2>3, <4>1 DEF Sound, Knows
      <4>4. Waits(tree, m)
        <5>1. \A p \in Peers : There(tree, p) => (Among(k, p) <=> Among(l.left, p))
          BY <2>2, <2>6 DEF k
        <5> QED BY <1>1, <2>2, <2>3, <4>1, <5>1 DEF Sound, Waits, k
      <4> QED BY <4>1, <4>2, <4>3, <4>4 DEF Sound
    <3>3. m.id \in {proc[s].id, Nil} \cup proc[s].dead /\ m.dead \subseteq proc[s].dead
      BY <2>3
    <3> QED BY <1>1, <1>2, <2>1, <2>3, <2>4, <3>1, <3>2, <3>3, OnlyLocals
  <2>7. CASE There(tree, o)
    <3>1. tree' = [tree EXCEPT ![o].parent = Nil] /\ o \in Peers
      BY <2>1, <2>2, <2>7 DEF Present, There
    <3>2. tree[o].depth \in Nat
      BY <1>3, <2>7, <3>1, EntryFacts
    <3>3. ParentOnly(tree, tree', o, Nil, tree[o].depth)
      BY <1>3, <2>7, <3>1, <3>2, SetParent
    <3>4. tree' \in Trees /\ FiniteTree(tree') /\ \A w \in WsSessions \ connected : tree'[w] = Nil
      BY <3>3, ParentWritten
    <3>5. ASSUME limit = 1 PROVE Sound(tree', m)
      <4>1. Sound(tree, l)
        BY <1>1, <3>5, AtWork
      <4>2. ~ There(tree, x) /\ tree[o].parent = x /\ Distinct(l.left)
        BY <1>1, <2>2, <2>7, <3>1, <4>1 DEF Sound, Knows, Waits
      <4>3. Paired(tree', m)
        <5>1. \A r \in Peers : There(tree, r) => tree[o].parent # r
          BY <4>2
        <5>2. \A p, r \in Peers : (Unlisted(m, p) <=> Nil # Nil /\ p = o)
          BY <2>5
        <5> QED BY <1>3, <2>5, <2>7, <3>1, <3>3, <4>1, <5>1, <5>2, HangPaired DEF Sound
      <4>4. Loads(tree')
        <5>1. tree[o].depth <= MaxDepth
          BY <2>7, <3>1, <4>1 DEF Sound, Loads
        <5> QED BY <1>3, <3>1, <3>3, <4>1, <5>1, ParentLoads DEF Sound
      <4>5. Knows(tree', m)
        BY <1>1, <2>3, <3>3, <4>2 DEF Knows, ParentOnly
      <4>6. Waits(tree', m)
        <5>1. \A p \in Peers : Among(k, p) <=> Among(l.left, p) /\ p # o
          BY <2>2, <4>2 DEF k
        <5>2. Distinct(k)
          BY <2>2, <4>2 DEF k
        <5>3. ASSUME NEW p \in Peers, Among(l.todo, p), There(tree', p)
              PROVE  tree'[p].parent = IF Among(k, p) THEN x ELSE Nil
          <6>1. There(tree, p) /\ tree[p].parent = IF Among(l.left, p) THEN x ELSE Nil
            BY <1>1, <3>3, <4>1, <5>3 DEF Sound, Waits, ParentOnly
          <6>2. CASE p = o
            BY <3>3, <5>1, <6>1, <6>2 DEF ParentOnly
          <6>3. CASE p # o
            BY <3>3, <5>1, <6>1, <6>3 DEF ParentOnly
          <6> QED BY <6>2, <6>3
        <5> QED BY <1>1, <2>3, <4>1, <5>1, <5>2, <5>3 DEF Sound, Waits
      <4> QED BY <4>3, <4>4, <4>5, <4>6 DEF Sound
    <3>6. proc'[s] = m
      BY <2>1 DEF MeshInd, MeshTyped
    <3>7. \A w \in WsSessions \ connected : tree'[w] = Nil /\ m.id # w /\ w \notin m.dead
      BY <2>3, <3>4, AtWork
    <3>8. stale' \subseteq Peers /\ registered' \subseteq Peers /\ connected' \subseteq WsSessions /\ connects' \in Nat
      BY <1>2, AtWork
    <3>9. /\ proc' = [proc EXCEPT ![s] = proc'[s]] /\ proc'[s] \in Locals /\ InHand(proc'[s])
          /\ \A w \in WsSessions \ connected : tree'[w] = Nil /\ proc'[s].id # w /\ w \notin proc'[s].dead
          /\ limit = 1 => Sound(tree', proc'[s])
      BY <2>1, <2>3, <2>4, <3>5, <3>6, <3>7
    <3>10. connected' = connected /\ limit' = limit
      BY <1>2
    <3> HIDE DEF l
    <3> QED BY <1>1, <3>4, <3>8, <3>9, <3>10, Proceeds
  <2> QED BY <2>6, <2>7
<1> QED BY <1>4, <1>5

\* Going on with the next orphan.
LEMMA OnToTheNext ==
  ASSUME NEW l \in Locals, l.pc # "orphan", l.todo # <<>>, l.id \in Peers
  PROVE  LET m == NextOrphan(l)
         IN  /\ m \in Locals /\ InHand(m) /\ m.id = l.id /\ m.dead = l.dead
             /\ \A t : /\ Paired(t, Off) /\ Loads(t) /\ Distinct(l.todo)
                       /\ \A p \in Peers : Among(l.todo, p) /\ There(t, p) /\ p # Head(l.todo) => t[p].parent = Nil
                       => Sound(t, m)
<1> DEFINE m == NextOrphan(l)
<1>1. l.todo \in Seq(Peers)
  BY DEF Locals
<1>2. /\ Tail(l.todo) \in Seq(Peers) /\ (\A p : Among(l.todo, p) <=> Among(Tail(l.todo), p) \/ p = Head(l.todo))
      /\ (Distinct(l.todo) => Distinct(Tail(l.todo)) /\ ~ Among(Tail(l.todo), Head(l.todo)))
  BY <1>1, OneLess
<1>3. m \in Locals /\ m.pc = "reassign" /\ m.id = l.id /\ m.dead = l.dead /\ m.todo = Tail(l.todo)
  BY <1>2 DEF NextOrphan, Locals, Pcs
<1> HIDE DEF m
<1>4. InHand(m)
  BY <1>3 DEF InHand
<1>5. Plain(m)
  BY <1>3, PlainSteps
<1>6. ASSUME NEW t, Paired(t, Off), Loads(t), Distinct(l.todo),
             \A p \in Peers : Among(l.todo, p) /\ There(t, p) /\ p # Head(l.todo) => t[p].parent = Nil
      PROVE  Sound(t, m)
  <2>1. Paired(t, m)
    BY <1>5, <1>6, OffIsPlain, PlainPaired
  <2>2. Knows(t, m)
    BY <1>3 DEF Knows
  <2>3. Waits(t, m)
    BY <1>2, <1>3, <1>6 DEF Waits
  <2> QED BY <1>6, <2>1, <2>2, <2>3 DEF Sound
<1>7. /\ m \in Locals /\ InHand(m) /\ m.id = l.id /\ m.dead = l.dead
      /\ \A t : /\ Paired(t, Off) /\ Loads(t) /\ Distinct(l.todo)
                /\ \A p \in Peers : Among(l.todo, p) /\ There(t, p) /\ p # Head(l.todo) => t[p].parent = Nil
                => Sound(t, m)
  BY <1>3, <1>4, <1>6
<1> QED BY <1>7 DEF m

\* An orphan is passed over.
LEMMA PassedOver ==
  ASSUME MeshInd, NEW s \in Procs, proc[s].pc \in {"reassign", "re-set"}, proc[s].todo # <<>>,
         proc' = [proc EXCEPT ![s] = NextOrphan(proc[s])],
         UNCHANGED <<tree, stale, registered, connected, connects, limit>>
  PROVE  MeshInd'
<1> DEFINE l == proc[s]
           m == NextOrphan(l)
<1>1. l \in Locals /\ InHand(l) /\ Busy(s) /\ l.id \in Peers
  BY AtWork DEF Busy, InHand
<1>2. /\ m \in Locals /\ InHand(m) /\ m.id = l.id /\ m.dead = l.dead
      /\ \A t : /\ Paired(t, Off) /\ Loads(t) /\ Distinct(l.todo)
                /\ \A p \in Peers : Among(l.todo, p) /\ There(t, p) /\ p # Head(l.todo) => t[p].parent = Nil
                => Sound(t, m)
  BY <1>1, OnToTheNext
<1>3. proc' = [proc EXCEPT ![s] = m]
  OBVIOUS
<1> HIDE DEF m
<1>4. ASSUME limit = 1 PROVE Sound(tree, m)
  <2>1. Sound(tree, l)
    BY <1>1, <1>4, AtWork
  <2>2. Plain(l)
    BY PlainSteps
  <2>3. Paired(tree, Off) /\ Loads(tree)
    BY <2>1, <2>2, PlainPaired, OffIsPlain DEF Sound
  <2>4. Distinct(l.todo) /\ \A p \in Peers : Among(l.todo, p) /\ There(tree, p) => tree[p].parent = Nil
    BY <2>1 DEF Sound, Waits
  <2> QED BY <1>2, <2>3, <2>4
<1>5. m.id \in {proc[s].id, Nil} \cup proc[s].dead /\ m.dead \subseteq proc[s].dead
  BY <1>2
<1> QED BY <1>1, <1>2, <1>3, <1>4, <1>5, OnlyLocals

LEMMA ReassignFindStep ==
  ASSUME MeshInd, NEW s \in Procs, ReassignFind(s)
  PROVE  MeshInd'
<1> DEFINE l == proc[s]
<1>1. l \in Locals /\ InHand(l) /\ l.pc = "reassign" /\ Busy(s) /\ l.id \in Peers
  BY AtWork DEF ReassignFind, Busy, InHand
<1>2. UNCHANGED <<tree, stale, registered, connected, connects, limit>>
  BY DEF ReassignFind
<1>3. Plain(l)
  BY <1>1, PlainSteps
<1>4. CASE proc' = [proc EXCEPT ![s] = Finished(s)]
  BY <1>1, <1>2, <1>3, <1>4, FinishStep
<1>5. CASE l.todo # <<>> /\ proc' = [proc EXCEPT ![s] = NextOrphan(@)]
  BY <1>1, <1>2, <1>5, PassedOver
<1>6. ASSUME l.todo # <<>>, NEW q \in BestParents, proc' = [proc EXCEPT ![s].pc = "re-depth", ![s].parent = q]
      PROVE  MeshInd'
  <2> DEFINE m == [l EXCEPT !.pc = "re-depth", !.parent = q]
  <2>1. q \in Peers /\ HasRoom(tree, q) /\ tree[q].depth < MaxDepth
    BY Choices
  <2>2. proc' = [proc EXCEPT ![s] = m]
    BY <1>6 DEF MeshInd, MeshTyped
  <2>3. m \in Locals /\ m.pc = "re-depth" /\ m.id = l.id /\ m.dead = l.dead /\ m.parent = q /\ m.todo = l.todo
    BY <1>1, <2>1 DEF Locals, Pcs
  <2>4. InHand(m)
    BY <1>1, <1>6, <2>1, <2>3 DEF InHand
  <2> HIDE DEF m
  <2>5. ASSUME limit = 1 PROVE Sound(tree, m)
    <3>0. Sound(tree, l)
      BY <1>1, <2>5, AtWork
    <3>1. Plain(m)
      BY <2>3, PlainSteps
    <3>2. Paired(tree, m)
      BY <1>3, <3>0, <3>1, PlainPaired DEF Sound
    <3>3. Knows(tree, m) /\ Waits(tree, m)
      BY <1>1, <2>1, <2>3, <3>0 DEF Sound, Knows, Waits
    <3> QED BY <3>0, <3>2, <3>3 DEF Sound
  <2>6. m.id \in {proc[s].id, Nil} \cup proc[s].dead /\ m.dead \subseteq proc[s].dead
    BY <2>3
  <2> QED BY <1>1, <1>2, <2>2, <2>3, <2>4, <2>5, <2>6, OnlyLocals
<1> QED BY <1>4, <1>5, <1>6 DEF ReassignFind

LEMMA ReassignDepthStep ==
  ASSUME MeshInd, NEW s \in Procs, ReassignDepth(s)
  PROVE  MeshInd'
<1> DEFINE l == proc[s]
           q == l.parent
           d == IF Present(q) THEN tree[q].depth ELSE 0
           m == [l EXCEPT !.pc = "re-set", !.depth = d]
<1>1. l \in Locals /\ InHand(l) /\ l.pc = "re-depth" /\ Busy(s) /\ l.id \in Peers /\ q \in Peers /\ l.todo # <<>>
  BY AtWork DEF ReassignDepth, Busy, InHand
<1>2. UNCHANGED <<tree, stale, registered, connected, connects, limit>>
  BY DEF ReassignDepth
<1>3. d \in Nat /\ (There(tree, q) => d = tree[q].depth)
  <2>1. tree \in Trees
    BY AtWork
  <2>2. There(tree, q) => tree[q].depth \in Nat
    BY <1>1, <2>1, EntryFacts
  <2> QED BY <2>2 DEF Present, There
<1>4. proc' = [proc EXCEPT ![s] = m]
  BY DEF ReassignDepth, MeshInd, MeshTyped
<1> HIDE DEF d
<1>5. /\ m \in Locals /\ m.pc = "re-set" /\ m.id = l.id /\ m.dead = l.dead /\ m.parent = q /\ m.todo = l.todo
      /\ m.depth = d
  BY <1>1, <1>3 DEF Locals, Pcs
<1>6. InHand(m)
  BY <1>1, <1>5 DEF InHand
<1> HIDE DEF m
<1>7. ASSUME limit = 1 PROVE Sound(tree, m)
  <2>1. Sound(tree, l)
    BY <1>1, <1>7, AtWork
  <2>2. Plain(l) /\ Plain(m)
    BY <1>1, <1>5, PlainSteps
  <2>3. Paired(tree, m)
    BY <2>1, <2>2, PlainPaired DEF Sound
  <2>4. HasRoom(tree, q) /\ d < MaxDepth
    BY <1>1, <1>3, <2>1 DEF Sound, Knows, HasRoom
  <2>5. Knows(tree, m) /\ Waits(tree, m)
    BY <1>1, <1>5, <2>1, <2>4 DEF Sound, Knows, Waits
  <2> QED BY <2>1, <2>3, <2>5 DEF Sound
<1>8. m.id \in {proc[s].id, Nil} \cup proc[s].dead /\ m.dead \subseteq proc[s].dead
  BY <1>5
<1> QED BY <1>1, <1>2, <1>4, <1>5, <1>6, <1>7, <1>8, OnlyLocals

LEMMA ReassignSetStep ==
  ASSUME MeshInd, NEW s \in Procs, ReassignSet(s)
  PROVE  MeshInd'
<1> DEFINE l == proc[s]
           q == l.parent
           o == Head(l.todo)
           d == l.depth + 1
           m == [l EXCEPT !.pc = "re-unlink", !.left = <<tree[o].parent>>]
<1>1. /\ l \in Locals /\ InHand(l) /\ l.pc = "re-set" /\ Busy(s) /\ l.id \in Peers /\ q \in Peers /\ l.todo # <<>>
      /\ l.todo \in Seq(Peers) /\ l.depth \in Nat
  BY AtWork DEF ReassignSet, Busy, InHand
<1>2. UNCHANGED <<stale, registered, connected, connects, limit>>
  BY DEF ReassignSet
<1>3. o \in Peers /\ Among(l.todo, o) /\ d \in Nat
  BY <1>1, OneLess
<1>4. CASE ~ Present(o)
  <2>1. proc' = [proc EXCEPT ![s] = NextOrphan(l)] /\ tree' = tree
    BY <1>4 DEF ReassignSet
  <2> QED BY <1>1, <1>2, <2>1, PassedOver
<1>5. CASE Present(o)
  <2>1. tree' = [tree EXCEPT ![o].parent = q, ![o].depth = d]
    BY <1>5 DEF ReassignSet
  <2>2. proc' = [proc EXCEPT ![s] = m]
    BY <1>5 DEF ReassignSet, MeshInd, MeshTyped
  <2>3. tree \in Trees /\ FiniteTree(tree) /\ There(tree, o)
    BY <1>5, AtWork DEF Present, There
  <2>4. tree[o].parent \in Peers \cup {Nil}
    BY <1>3, <2>3, EntryFacts
  <2>5. <<tree[o].parent>> \in Seq(Peers \cup {Nil}) /\ <<tree[o].parent>> # <<>>
    <3> DEFINE y == tree[o].parent
    <3>1. y \in Peers \cup {Nil}
      BY <2>4
    <3> HIDE DEF y
    <3>2. <<y>> \in Seq(Peers \cup {Nil}) /\ <<y>> # <<>>
      BY <3>1
    <3> QED BY <3>2 DEF y
  <2>6. /\ m \in Locals /\ m.pc = "re-unlink" /\ m.id = l.id /\ m.dead = l.dead /\ m.parent = q
        /\ m.left = <<tree[o].parent>> /\ m.todo = l.todo
    BY <1>1, <2>5 DEF Locals, Pcs
  <2>7. InHand(m)
    BY <1>1, <2>5, <2>6 DEF InHand
  <2> HIDE DEF m
  <2>8. proc'[s] = m
    BY <2>2 DEF MeshInd, MeshTyped
  <2>9. ParentOnly(tree, tree', o, q, d)
    <3>1. ParentOnly(tree, [tree EXCEPT ![o].parent = q, ![o].depth = d], o, q, d)
      BY <1>1, <1>3, <2>3, SetParent
    <3> QED BY <2>1, <3>1
  <2>10. tree' \in Trees /\ FiniteTree(tree') /\ \A w \in WsSessions \ connected : tree'[w] = Nil
    BY <2>9, ParentWritten
  <2>11. ASSUME limit = 1 PROVE Sound(tree', m)
    <3>1. Sound(tree, l)
      BY <1>1, <2>11, AtWork
    <3>2. /\ HasRoom(tree, q) /\ l.depth < MaxDepth /\ Distinct(l.todo)
          /\ \A p \in Peers : Among(l.todo, p) /\ There(tree, p) => tree[p].parent = Nil
      BY <1>1, <3>1 DEF Sound, Knows, Waits
    <3>3. tree[o].parent = Nil /\ Nil \notin Peers /\ There(tree, q)
      BY <1>3, <2>3, <3>2, MeshNames DEF Peers, HasRoom
    <3>4. \A p, r \in Peers : /\ ~ Unlisted(l, p) /\ ~ Departing(l, r, p) /\ ~ Departing(m, r, p)
                              /\ Unlisted(m, p) <=> q # Nil /\ p = o
                              /\ Orphaned(l, r, p) /\ p # o => Orphaned(m, r, p)
      BY <1>1, <2>6, <3>3 DEF Unlisted, Departing, Orphaned
    <3>5. Paired(tree', m)
      <4>1. q \in Peers \cup {Nil} /\ Paired(tree, l) /\ \A r \in Peers : There(tree, r) => tree[o].parent # r
        BY <1>1, <3>1, <3>3 DEF Sound
      <4> HIDE DEF l, q, o, d
      <4> QED BY <1>3, <2>3, <2>9, <3>3, <3>4, <4>1, HangPaired
    <3>6. Loads(tree')
      <4>1. d <= MaxDepth
        BY <1>1, <3>2, MeshAssumption
      <4> QED BY <1>3, <2>3, <2>9, <3>1, <4>1, ParentLoads DEF Sound
    <3>7. HasRoom(tree', q) /\ PointsTo(tree', o, q)
      BY <1>1, <1>3, <2>3, <2>9, <3>2, <3>3 DEF HasRoom, Ceiling, PointsTo, ParentOnly
    <3>8. Knows(tree', m)
      BY <2>6, <3>3, <3>7 DEF Knows
    <3>9. Waits(tree', m)
      BY <2>6, <2>9, <3>2 DEF Waits, ParentOnly
    <3> QED BY <3>5, <3>6, <3>8, <3>9 DEF Sound
  <2>12. \A w \in WsSessions \ connected : tree'[w] = Nil /\ m.id # w /\ w \notin m.dead
    BY <2>6, <2>10, AtWork
  <2>13. stale' \subseteq Peers /\ registered' \subseteq Peers /\ connected' \subseteq WsSessions /\ connects' \in Nat
    BY <1>2, AtWork
  <2>14. /\ proc' = [proc EXCEPT ![s] = proc'[s]] /\ proc'[s] \in Locals /\ InHand(proc'[s])
         /\ \A w \in WsSessions \ connected : tree'[w] = Nil /\ proc'[s].id # w /\ w \notin proc'[s].dead
         /\ limit = 1 => Sound(tree', proc'[s])
    BY <2>2, <2>6, <2>7, <2>8, <2>11, <2>12
  <2>15. connected' = connected /\ limit' = limit
    BY <1>2
  <2> HIDE DEF l
  <2> QED BY <1>1, <2>10, <2>13, <2>14, <2>15, Proceeds
<1> QED BY <1>4, <1>5

LEMMA ReassignUnlinkStep ==
  ASSUME MeshInd, NEW s \in Procs, ReassignUnlink(s)
  PROVE  MeshInd'
<1> DEFINE l == proc[s]
           q == l.parent
           o == Head(l.todo)
           old == Head(l.left)
           m == [l EXCEPT !.pc = "re-push", !.left = <<>>]
<1>1. /\ l \in Locals /\ InHand(l) /\ l.pc = "re-unlink" /\ Busy(s) /\ l.id \in Peers /\ q \in Peers
      /\ l.todo # <<>> /\ l.left # <<>> /\ l.todo \in Seq(Peers) /\ l.left \in Seq(Peers \cup {Nil})
  BY AtWork DEF ReassignUnlink, Busy, InHand
<1>2. UNCHANGED <<stale, registered, connected, connects, limit>>
      /\ tree' = (IF old # q THEN Retain(tree, old, o) ELSE tree)
      /\ proc' = [proc EXCEPT ![s] = m]
  BY DEF ReassignUnlink, MeshInd, MeshTyped
<1>3. o \in Peers /\ old \in Peers \cup {Nil}
  BY <1>1, OneLess
<1>4. /\ m \in Locals /\ m.pc = "re-push" /\ m.id = l.id /\ m.dead = l.dead /\ m.parent = q /\ m.todo = l.todo
  BY <1>1, EmptySeq DEF Locals, Pcs
<1>5. InHand(m)
  BY <1>1, <1>4 DEF InHand
<1> HIDE DEF m
<1>6. proc'[s] = m
  BY <1>2 DEF MeshInd, MeshTyped
<1>7. ASSUME limit = 1 PROVE Sound(tree, m) /\ tree' = tree
  <2>1. Sound(tree, l)
    BY <1>1, <1>7, AtWork
  <2>2. l.left = <<Nil>>
    BY <1>1, <2>1 DEF Sound, Knows
  <2>3. tree' = tree
    BY <1>2, <2>2 DEF Retain
  <2>4. \A p, r \in Peers : /\ Unlisted(l, p) <=> Unlisted(m, p)
                            /\ Departing(l, r, p) <=> Departing(m, r, p)
                            /\ Orphaned(l, r, p) <=> Orphaned(m, r, p)
    BY <1>1, <1>4 DEF Unlisted, Departing, Orphaned
  <2>5. Paired(tree, m)
    BY <2>1, <2>4 DEF Sound, Paired
  <2>6. Knows(tree, m) /\ Waits(tree, m)
    BY <1>1, <1>4, <2>1 DEF Sound, Knows, Waits
  <2> QED BY <2>1, <2>3, <2>5, <2>6 DEF Sound
<1>8. tree' \in Trees /\ FiniteTree(tree') /\ \A w \in WsSessions \ connected : tree'[w] = Nil
  <2>1. CASE tree' = tree
    BY <2>1, AtWork
  <2>2. CASE tree' = Retain(tree, old, o) /\ tree' # tree
    <3>1. old \in Peers
      BY <1>3, <2>2 DEF Retain
    <3> QED BY <1>3, <2>2, <3>1, ListsWritten
  <2> QED BY <1>2, <2>1, <2>2
<1>9. \A w \in WsSessions \ connected : tree'[w] = Nil /\ m.id # w /\ w \notin m.dead
  BY <1>4, <1>8, AtWork
<1>10. stale' \subseteq Peers /\ registered' \subseteq Peers /\ connected' \subseteq WsSessions /\ connects' \in Nat
  BY <1>2, AtWork
<1>11. /\ proc' = [proc EXCEPT ![s] = proc'[s]] /\ proc'[s] \in Locals /\ InHand(proc'[s])
       /\ \A w \in WsSessions \ connected : tree'[w] = Nil /\ proc'[s].id # w /\ w \notin proc'[s].dead
       /\ limit = 1 => Sound(tree', proc'[s])
  BY <1>2, <1>4, <1>5, <1>6, <1>7, <1>9
<1>12. connected' = connected /\ limit' = limit
  BY <1>2
<1> HIDE DEF l
<1> QED BY <1>1, <1>8, <1>10, <1>11, <1>12, Proceeds

LEMMA ReassignPushStep ==
  ASSUME MeshInd, NEW s \in Procs, ReassignPush(s)
  PROVE  MeshInd'
<1> DEFINE l == proc[s]
           q == l.parent
           o == Head(l.todo)
           m == NextOrphan(l)
<1>1. /\ l \in Locals /\ InHand(l) /\ l.pc = "re-push" /\ Busy(s) /\ l.id \in Peers /\ q \in Peers
      /\ l.todo # <<>> /\ l.todo \in Seq(Peers)
  BY AtWork DEF ReassignPush, Busy, InHand
<1>2. UNCHANGED <<stale, registered, connected, connects, limit>>
      /\ tree' = Push(tree, q, o) /\ proc' = [proc EXCEPT ![s] = m]
  BY DEF ReassignPush
<1>3. o \in Peers
  BY <1>1, OneLess
<1>4. /\ m \in Locals /\ InHand(m) /\ m.id = l.id /\ m.dead = l.dead
      /\ \A t : /\ Paired(t, Off) /\ Loads(t) /\ Distinct(l.todo)
                /\ \A p \in Peers : Among(l.todo, p) /\ There(t, p) /\ p # Head(l.todo) => t[p].parent = Nil
                => Sound(t, m)
  BY <1>1, OnToTheNext
<1> HIDE DEF m
<1>5. proc'[s] = m
  BY <1>2 DEF MeshInd, MeshTyped
<1>6. tree \in Trees /\ FiniteTree(tree)
  BY AtWork
<1>7. tree' \in Trees /\ FiniteTree(tree') /\ \A w \in WsSessions \ connected : tree'[w] = Nil
  BY <1>1, <1>2, <1>3, ListsWritten
<1>8. ASSUME limit = 1 PROVE Sound(tree', m)
  <2>1. Sound(tree, l)
    BY <1>1, <1>8, AtWork
  <2>2. /\ HasRoom(tree, q) /\ PointsTo(tree, o, q) /\ Distinct(l.todo)
        /\ \A p \in Peers : Among(l.todo, p) /\ There(tree, p) /\ p # o => tree[p].parent = Nil
    BY <1>1, <2>1 DEF Sound, Knows, Waits
  <2>3. \A p, r \in Peers : (Unlisted(l, p) <=> p = o) /\ ~ Departing(l, r, p) /\ ~ Orphaned(l, r, p)
    BY <1>1 DEF Unlisted, Departing, Orphaned
  <2>4. /\ ChildrenOnly(tree, tree', q, Append(tree[q].children, o))
        /\ Paired(tree', Off) /\ Loads(tree')
    <3>1. Paired(tree, l) /\ Loads(tree) /\ q \in Peers /\ tree' = Push(tree, q, o)
      BY <1>1, <1>2, <2>1 DEF Sound
    <3> HIDE DEF l, q, o
    <3> QED BY <1>3, <1>6, <2>2, <2>3, <3>1, OffIsPlain, PushPaired
  <2>5. \A p \in Peers : Among(l.todo, p) /\ There(tree', p) /\ p # Head(l.todo) => tree'[p].parent = Nil
    BY <2>2, <2>4 DEF ChildrenOnly
  <2> QED BY <1>4, <2>2, <2>4, <2>5
<1>9. \A w \in WsSessions \ connected : tree'[w] = Nil /\ m.id # w /\ w \notin m.dead
  BY <1>4, <1>7, AtWork
<1>10. stale' \subseteq Peers /\ registered' \subseteq Peers /\ connected' \subseteq WsSessions /\ connects' \in Nat
  BY <1>2, AtWork
<1>11. /\ proc' = [proc EXCEPT ![s] = proc'[s]] /\ proc'[s] \in Locals /\ InHand(proc'[s])
       /\ \A w \in WsSessions \ connected : tree'[w] = Nil /\ proc'[s].id # w /\ w \notin proc'[s].dead
       /\ limit = 1 => Sound(tree', proc'[s])
  BY <1>2, <1>4, <1>5, <1>8, <1>9
<1>12. connected' = connected /\ limit' = limit
  BY <1>2
<1> HIDE DEF l
<1> QED BY <1>1, <1>7, <1>10, <1>11, <1>12, Proceeds

LEMMA StartsAlone ==
  ASSUME MeshInd, MayStart, limit = 1
  PROVE  TreeSettled /\ Sound(tree, Off)
<1>1. IsFiniteSet({s \in Procs : Busy(s)})
  BY DEF MeshInd, FinitelyMany
<1>2. Cardinality({s \in Procs : Busy(s)}) \in Nat /\ Cardinality({s \in Procs : Busy(s)}) < 1
  BY <1>1, FS_CardinalityType DEF MayStart
<1>3. Cardinality({s \in Procs : Busy(s)}) = 0
  BY <1>2
<1>4. {s \in Procs : Busy(s)} = {}
  BY <1>1, <1>3, FS_EmptySet
<1>5. TreeSettled
  BY <1>4 DEF TreeSettled
<1> QED BY <1>5 DEF MeshInd, OneAtATime

\* Steps at which nothing is half linked and nothing is known of the tree.
LEMMA Carefree ==
  ASSUME NEW l, l.pc \in {"off", "open", "lookup", "remove", "next"}
  PROVE  \A t : Paired(t, Off) /\ Loads(t) => Sound(t, l)
<1>1. Plain(l)
  BY PlainSteps
<1>2. \A t : Paired(t, Off) => Paired(t, l)
  BY <1>1, PlainPaired, OffIsPlain
<1>3. \A t : Knows(t, l) /\ Waits(t, l)
  BY DEF Knows, Waits
<1> QED BY <1>2, <1>3 DEF Sound

\* An operation starts.
LEMMA Starts ==
  ASSUME MeshInd, NEW s \in Procs, s \notin WsSessions \ connected', MayStart, NEW m \in Locals, InHand(m), proc' = [proc EXCEPT ![s] = m],
         tree' = tree, limit' = limit, stale' \subseteq Peers, registered' \subseteq Peers, connects' \in Nat,
         connected \subseteq connected', connected' \subseteq WsSessions,
         \A w \in WsSessions \ connected' : m.id # w /\ w \notin m.dead,
         limit = 1 => Sound(tree, m)
  PROVE  MeshInd'
<1>1. proc'[s] = m
  BY DEF MeshInd, MeshTyped
<1>2. tree' \in Trees /\ FiniteTree(tree')
  BY AtWork
<1>3. \A w \in WsSessions \ connected' : tree'[w] = Nil /\ proc'[s].id # w /\ w \notin proc'[s].dead
  BY <1>1 DEF MeshInd, Unheard
<1>4. limit = 1 => TreeSettled
  BY StartsAlone
<1>5. limit = 1 => Sound(tree', proc'[s])
  BY <1>1
<1>6. proc' = [proc EXCEPT ![s] = proc'[s]] /\ proc'[s] \in Locals /\ InHand(proc'[s])
  BY <1>1
<1> QED BY <1>2, <1>3, <1>4, <1>5, <1>6, Proceeds

LEMMA WsConnectStep ==
  ASSUME MeshInd, NEW s \in Procs, WsConnect(s)
  PROVE  MeshInd'
<1> DEFINE l == proc[s]
           m == [l EXCEPT !.pc = "count", !.id = s]
<1>1. s \in WsSessions \ connected /\ s \in Peers /\ MayStart /\ l \in Locals
  BY AtWork DEF WsConnect, MayConnect, Peers
<1>2. l.cap \in Nat \cup {Nil}
  BY AtWork
<1>3. proc' = [proc EXCEPT ![s] = m] /\ connected' = connected \cup {s} /\ connects' = connects + 1
      /\ UNCHANGED <<tree, stale, registered, limit>>
  BY DEF WsConnect, MeshInd, MeshTyped
<1>4. l.cap = Nil
  BY <1>1 DEF MeshInd, Unheard, Off
<1>5. m \in Locals /\ m.pc = "count" /\ m.id = s /\ m.dead = l.dead /\ m.cap = Nil
  BY <1>1, <1>4 DEF Locals, Pcs
<1>6. InHand(m)
  BY <1>1, <1>5 DEF InHand, Capacities
<1> HIDE DEF m
<1>7. \A w \in WsSessions \ connected' : m.id # w /\ w \notin m.dead
  <2>1. \A w \in WsSessions \ connected : w \notin l.dead
    BY AtWork
  <2> QED BY <1>3, <1>5, <2>1
<1>8. ASSUME limit = 1 PROVE Sound(tree, m)
  <2>1. Sound(tree, Off)
    BY <1>1, <1>8, StartsAlone
  <2>2. Plain(m)
    BY <1>5, PlainSteps
  <2>3. Paired(tree, m)
    BY <2>1, <2>2, PlainPaired, OffIsPlain DEF Sound
  <2>4. ~ There(tree, s)
    BY <1>1 DEF MeshInd, Unheard, There
  <2>5. Knows(tree, m) /\ Waits(tree, m)
    BY <1>5, <2>4 DEF Knows, Waits
  <2> QED BY <2>1, <2>3, <2>5 DEF Sound
<1>9. stale' \subseteq Peers /\ registered' \subseteq Peers /\ connected \subseteq connected' /\ connected' \subseteq WsSessions
      /\ connects' \in Nat
  BY <1>1, <1>3, AtWork
<1>10. tree' = tree /\ limit' = limit
  BY <1>3
<1> QED BY <1>1, <1>3, <1>5, <1>6, <1>7, <1>8, <1>9, <1>10, Starts

LEMMA SigRegisterStep ==
  ASSUME MeshInd, NEW s \in SigSessions, NEW p \in Peers, NEW c \in Reported, SigRegister(s, p, c)
  PROVE  MeshInd'
<1> DEFINE l == proc[s]
           m == [l EXCEPT !.pc = "lookup", !.id = p, !.cap = c]
<1>1. s \in Procs /\ s \notin WsSessions /\ MayStart /\ l \in Locals /\ c \in Nat \cup {Nil}
  BY AtWork, MeshNames, MeshAssumption DEF SigRegister, MayConnect, Procs, Sessions
<1>2. proc' = [proc EXCEPT ![s] = m] /\ connects' = connects + 1 /\ registered' = registered \cup {p}
      /\ UNCHANGED <<tree, stale, connected, limit>> /\ p \in ClientIds \cup Announced
  BY DEF SigRegister, MeshInd, MeshTyped
<1>3. m \in Locals /\ m.pc = "lookup" /\ m.id = p /\ m.dead = l.dead
  BY <1>1 DEF Locals, Pcs
<1>4. InHand(m)
  BY <1>3 DEF InHand
<1> HIDE DEF m
<1>5. \A w \in WsSessions \ connected' : m.id # w /\ w \notin m.dead
  <2>1. \A w \in WsSessions \ connected : w \notin l.dead
    BY <1>1, AtWork
  <2>2. p \notin WsSessions \ connected
    BY <1>2, MeshNames DEF Announced
  <2> QED BY <1>2, <1>3, <2>1, <2>2
<1>6. limit = 1 => Sound(tree, m)
  BY <1>1, <1>3, StartsAlone, Carefree, OffIsPlain DEF Sound
<1>7. stale' \subseteq Peers /\ registered' \subseteq Peers /\ connected \subseteq connected' /\ connected' \subseteq WsSessions
      /\ connects' \in Nat
  BY <1>1, <1>2, AtWork
<1>8. tree' = tree /\ limit' = limit
  BY <1>2
<1> QED BY <1>1, <1>2, <1>3, <1>4, <1>5, <1>6, <1>7, <1>8, Starts

LEMMA SigLookupStep ==
  ASSUME MeshInd, NEW s \in Procs, SigLookup(s)
  PROVE  MeshInd'
<1> DEFINE l == proc[s]
           c == IF l.cap # Nil /\ l.cap > MaxChildren THEN MaxChildren ELSE l.cap
           m == [l EXCEPT !.pc = "count", !.cap = c]
<1>1. l \in Locals /\ InHand(l) /\ l.pc = "lookup" /\ Busy(s) /\ l.id \in Peers /\ l.cap \in Nat \cup {Nil}
  BY AtWork DEF SigLookup, Busy, InHand
<1>2. UNCHANGED <<tree, stale, registered, connected, connects, limit>>
  BY DEF SigLookup
<1>3. Plain(l)
  BY <1>1, PlainSteps
<1>4. limit = 1 => Paired(tree, Off) /\ Loads(tree)
  BY <1>1, <1>3, AtWork, PlainPaired, OffIsPlain DEF Sound
<1>5. CASE Present(l.id)
  <2> DEFINE u == Placed(s)
  <2>1. /\ u \in Locals /\ InHand(u) /\ u.pc = "open" /\ u.id \in {proc[s].id, Nil} /\ u.dead = {}
        /\ \A t : Paired(t, Off) /\ Loads(t) => Sound(t, u)
    BY <1>1, PlacedIsOpen
  <2>2. proc' = [proc EXCEPT ![s] = u]
    BY <1>5 DEF SigLookup
  <2> HIDE DEF u
  <2>3. u.id \in {proc[s].id, Nil} \cup proc[s].dead /\ u.dead \subseteq proc[s].dead
    BY <2>1
  <2> QED BY <1>1, <1>2, <1>4, <2>1, <2>2, <2>3, OnlyLocals
<1>6. CASE ~ Present(l.id)
  <2>1. proc' = [proc EXCEPT ![s] = m]
    BY <1>6 DEF SigLookup
  <2>2. c \in Capacities /\ c \in Nat \cup {Nil}
    BY <1>1, MeshAssumption DEF Capacities
  <2> HIDE DEF c
  <2>3. m \in Locals /\ m.pc = "count" /\ m.id = l.id /\ m.dead = l.dead /\ m.cap = c
    BY <1>1, <2>2 DEF Locals, Pcs
  <2>4. InHand(m)
    BY <1>1, <2>2, <2>3 DEF InHand
  <2> HIDE DEF m
  <2>5. ASSUME limit = 1 PROVE Sound(tree, m)
    <3>1. Paired(tree, m)
      BY <1>4, <2>3, <2>5, PlainSteps, PlainPaired, OffIsPlain
    <3>2. ~ There(tree, m.id)
      BY <1>6, <2>3 DEF Present, There
    <3>3. Knows(tree, m) /\ Waits(tree, m)
      BY <2>3, <3>2 DEF Knows, Waits
    <3> QED BY <1>4, <2>5, <3>1, <3>3 DEF Sound
  <2>6. m.id \in {proc[s].id, Nil} \cup proc[s].dead /\ m.dead \subseteq proc[s].dead
    BY <2>3
  <2> QED BY <1>1, <1>2, <2>1, <2>3, <2>4, <2>5, <2>6, OnlyLocals
<1> QED BY <1>5, <1>6

\* A session ends, with or without an entry to remove.
LEMMA CloseStep ==
  ASSUME MeshInd, NEW s \in Procs, WsClose(s) \/ SigClose(s)
  PROVE  MeshInd'
<1> DEFINE l == proc[s]
           m == [l EXCEPT !.pc = "remove"]
<1>1. l \in Locals /\ l.pc = "open" /\ MayStart /\ l.id \in Peers \cup {Nil} /\ registered \subseteq Peers
  BY AtWork DEF WsClose, SigClose
<1>2. /\ \/ proc' = [proc EXCEPT ![s] = Off]
         \/ proc' = [proc EXCEPT ![s] = m] /\ l.id \in Peers
      /\ registered' \subseteq registered /\ UNCHANGED <<tree, stale, connected, connects, limit>>
  BY <1>1 DEF WsClose, SigClose, MeshInd, MeshTyped
<1>3. s \notin WsSessions \ connected
  BY <1>1 DEF MeshInd, Unheard, Off
<1>4. ASSUME NEW u \in Locals, InHand(u), u.pc \in {"off", "remove"}, u.id \in {l.id, Nil}, u.dead \subseteq l.dead,
             proc' = [proc EXCEPT ![s] = u]
      PROVE  MeshInd'
  <2>1. \A w \in WsSessions \ connected' : u.id # w /\ w \notin u.dead
    <3>1. \A w \in WsSessions \ connected : l.id # w /\ w \notin l.dead /\ w # Nil
      BY AtWork, MeshNames
    <3> QED BY <1>2, <1>4, <3>1
  <2>2. limit = 1 => Sound(tree, u)
    BY <1>1, <1>4, StartsAlone, Carefree DEF Sound
  <2>3. stale' \subseteq Peers /\ registered' \subseteq Peers /\ connected' \subseteq WsSessions /\ connects' \in Nat
    BY <1>2, AtWork
  <2>4. tree' = tree /\ limit' = limit /\ connected' = connected
    BY <1>2
  <2> QED BY <1>1, <1>3, <1>4, <2>1, <2>2, <2>3, <2>4, Starts
<1>5. CASE proc' = [proc EXCEPT ![s] = Off]
  <2>1. Off.pc = "off" /\ Off.id = Nil /\ Off.dead = {}
    BY DEF Off
  <2> QED BY <1>4, <1>5, <2>1, OffIsPlain
<1>6. CASE proc' = [proc EXCEPT ![s] = m] /\ l.id \in Peers
  <2>1. m \in Locals /\ m.pc = "remove" /\ m.id = l.id /\ m.dead = l.dead
    BY <1>1 DEF Locals, Pcs
  <2>2. InHand(m)
    BY <1>6, <2>1 DEF InHand
  <2> HIDE DEF m, l
  <2> QED BY <1>4, <1>6, <2>1, <2>2
<1> QED BY <1>2, <1>5, <1>6

LEMMA ReaperTickStep ==
  ASSUME MeshInd, ReaperTick
  PROVE  MeshInd'
<1> DEFINE dead == {p \in stale : Present(p)}
           m == [Off EXCEPT !.pc = "next", !.dead = dead]
<1>1. Reaper \in Procs /\ Reaper \notin WsSessions /\ MayStart /\ dead \subseteq Peers
  BY MeshNames DEF ReaperTick, Procs, MeshInd, MeshTyped
<1>2. proc' = [proc EXCEPT ![Reaper] = m] /\ UNCHANGED <<tree, stale, registered, connected, connects, limit>>
  BY DEF ReaperTick
<1>3. \A w \in WsSessions \ connected : w \notin dead /\ w # Nil
  BY MeshNames DEF MeshInd, Unheard, Present
<1> HIDE DEF dead
<1>4. m \in Locals /\ m.pc = "next" /\ m.id = Nil /\ m.dead = dead
  BY <1>1, EmptySeq DEF Off, Locals, Pcs
<1>5. InHand(m)
  BY <1>4 DEF InHand
<1> HIDE DEF m
<1>6. limit = 1 => Sound(tree, m)
  BY <1>1, <1>4, StartsAlone, Carefree DEF Sound
<1>7. stale' \subseteq Peers /\ registered' \subseteq Peers /\ connected' \subseteq WsSessions /\ connects' \in Nat
  BY <1>1, <1>2, AtWork
<1>8. tree' = tree /\ limit' = limit /\ connected' = connected
  BY <1>2
<1>9. \A w \in WsSessions \ connected' : m.id # w /\ w \notin m.dead
  BY <1>2, <1>3, <1>4
<1> QED BY <1>1, <1>2, <1>4, <1>5, <1>6, <1>7, <1>8, <1>9, Starts

LEMMA ReapNextStep ==
  ASSUME MeshInd, ReapNext
  PROVE  MeshInd'
<1> DEFINE l == proc[Reaper]
<1>1. Reaper \in Procs /\ l \in Locals /\ l.pc = "next" /\ Busy(Reaper) /\ l.dead \subseteq Peers
  BY AtWork DEF ReapNext, Procs, Busy
<1>2. UNCHANGED <<tree, stale, registered, connected, connects, limit>>
  BY DEF ReapNext
<1>3. limit = 1 => Paired(tree, Off) /\ Loads(tree)
  BY <1>1, AtWork, PlainSteps, PlainPaired, OffIsPlain DEF Sound
<1>4. CASE proc' = [proc EXCEPT ![Reaper] = Off]
  <2>1. Off.pc = "off" /\ Off.id \in {l.id, Nil} \cup l.dead /\ Off.dead \subseteq l.dead
    BY DEF Off
  <2> QED BY <1>1, <1>2, <1>3, <1>4, <2>1, OffIsPlain, OnlyLocals
<1>5. ASSUME NEW p \in l.dead,
             proc' = [proc EXCEPT ![Reaper] = [Off EXCEPT !.pc = "remove", !.id = p, !.dead = l.dead \ {p}]]
      PROVE  MeshInd'
  <2> DEFINE m == [Off EXCEPT !.pc = "remove", !.id = p, !.dead = l.dead \ {p}]
  <2>1. m \in Locals /\ m.pc = "remove" /\ m.id = p /\ m.dead = l.dead \ {p} /\ p \in Peers
    BY <1>1, EmptySeq DEF Off, Locals, Pcs
  <2>2. InHand(m)
    BY <2>1 DEF InHand
  <2>3. proc' = [proc EXCEPT ![Reaper] = m]
    BY <1>5
  <2> HIDE DEF m
  <2>4. limit = 1 => Sound(tree, m)
    BY <1>3, <2>1, Carefree
  <2>5. m.id \in {proc[Reaper].id, Nil} \cup proc[Reaper].dead /\ m.dead \subseteq proc[Reaper].dead
    BY <2>1
  <2> QED BY <1>1, <1>2, <2>1, <2>2, <2>3, <2>4, <2>5, OnlyLocals
<1> QED BY <1>4, <1>5 DEF ReapNext

LEMMA AgeStep ==
  ASSUME MeshInd, NEW p \in Peers, Age(p)
  PROVE  MeshInd'
<1>1. stale' = stale \cup {p} /\ UNCHANGED <<tree, registered, proc, connected, connects, limit>>
  BY DEF Age
<1> QED BY <1>1 DEF MeshInd, MeshTyped, Unheard, FinitelyMany, OneAtATime, TreeSettled, Busy

LEMMA MeshBegins == MeshInit => MeshInd
<1> SUFFICES ASSUME MeshInit PROVE MeshInd
  OBVIOUS
<1>1. tree = [p \in Peers |-> Nil] /\ proc = [s \in Procs |-> Off] /\ limit \in {1, 2}
      /\ stale = {} /\ registered = {} /\ connected = {} /\ connects = 0
  BY DEF MeshInit
<1>2. MeshTyped
  <2>1. tree \in Trees
    BY <1>1 DEF Trees
  <2> QED BY <1>1, <2>1, OffIsPlain DEF MeshTyped
<1>3. \A s \in Procs : proc[s] = Off /\ ~ Busy(s)
  BY <1>1 DEF Busy, Off
<1>4. Unheard
  <2>1. \A w \in WsSessions : w \in Procs /\ w \in Peers /\ w # Nil
    BY MeshNames DEF Procs, Sessions, Peers
  <2>2. Off.id = Nil /\ Off.dead = {}
    BY DEF Off
  <2> QED BY <1>1, <1>3, <2>1, <2>2 DEF Unheard
<1>5. \A p \in Peers : ~ There(tree, p)
  BY <1>1 DEF There
<1>6. FinitelyMany
  <2>1. {s \in Procs : Busy(s)} = {} /\ {p \in Peers : There(tree, p)} = {}
    BY <1>3, <1>5
  <2> QED BY <2>1, FS_EmptySet DEF FinitelyMany
<1>7. Sound(tree, Off)
  <2>1. Paired(tree, Off)
    BY <1>5 DEF Paired, PointsTo
  <2>2. Roots(tree) = {}
    BY <1>5 DEF Roots
  <2>3. Cardinality(Roots(tree)) = 0
    BY <2>2, FS_EmptySet
  <2>4. Loads(tree)
    BY <1>5, <2>3, MeshAssumption DEF Loads
  <2> QED BY <2>1, <2>4, OffIsPlain
<1>8. OneAtATime
  BY <1>3, <1>7 DEF OneAtATime
<1> QED BY <1>2, <1>4, <1>6, <1>8 DEF MeshInd

LEMMA MeshProceeds == MeshInd /\ [MeshNext]_meshVars => MeshInd'
<1> SUFFICES ASSUME MeshInd, [MeshNext]_meshVars PROVE MeshInd'
  OBVIOUS
<1>1. CASE UNCHANGED meshVars
  BY <1>1 DEF meshVars, MeshInd, MeshTyped, Unheard, FinitelyMany, OneAtATime, TreeSettled, Busy
<1>2. ASSUME NEW s \in Procs, RemovePeer(s) \/ ReassignPeer(s) PROVE MeshInd'
  BY <1>2, RemoveStep, UnlinkStep, OrphanStep, ReassignFindStep, ReassignDepthStep, ReassignSetStep,
     ReassignUnlinkStep, ReassignPushStep DEF RemovePeer, ReassignPeer
<1>3. ASSUME NEW s \in Sessions, Step(s) PROVE MeshInd'
  <2>1. s \in Procs
    BY DEF Procs
  <2>2. CASE AddPeer(s)
    BY <2>1, <2>2, AddCountStep, AddRootStep, AddFindStep, AddDepthStep, AddInsertStep, AddPushStep DEF AddPeer
  <2>3. CASE SigLookup(s)
    BY <2>1, <2>3, SigLookupStep
  <2> QED BY <1>2, <1>3, <2>1, <2>2, <2>3 DEF Step
<1>4. ASSUME NEW s \in Sessions, WsConnect(s) \/ WsClose(s) \/ SigClose(s) PROVE MeshInd'
  <2>1. s \in Procs
    BY DEF Procs
  <2> QED BY <1>4, <2>1, WsConnectStep, CloseStep
<1>5. ASSUME NEW s \in SigSessions, NEW p \in Peers, NEW c \in Reported, SigRegister(s, p, c) PROVE MeshInd'
  BY <1>5, SigRegisterStep
<1>6. Reaper \in Procs
  BY DEF Procs
<1>7. ASSUME NEW p \in Peers, Age(p) PROVE MeshInd'
  BY <1>7, AgeStep
<1> QED BY <1>1, <1>2, <1>3, <1>4, <1>5, <1>6, <1>7, ReaperTickStep, ReapNextStep DEF MeshNext

LEMMA MeshIndImplies == MeshInd => TreeInv
<1> SUFFICES ASSUME MeshInd PROVE TreeInv
  OBVIOUS
<1>1. MeshTypeOK
  <2>1. \A p \in Peers : tree[p] = Nil \/ tree[p] \in Infos
    BY DEF MeshInd, MeshTyped, Trees
  <2>2. \A s \in Procs : /\ proc[s].pc \in Pcs /\ proc[s].id \in Peers \cup {Nil} /\ proc[s].parent \in Peers \cup {Nil}
                         /\ proc[s].todo \in Seq(Peers) /\ proc[s].dead \subseteq Peers
    BY AtWork
  <2> QED BY <2>1, <2>2 DEF MeshTypeOK, MeshInd, MeshTyped
<1>2. ParentChildAgree
  <2> SUFFICES ASSUME limit = 1, TreeSettled, NEW p \in Peers, NEW q \in Peers, Present(q)
               PROVE  Cardinality({i \in DOMAIN tree[q].children : tree[q].children[i] = p})
                        = IF Present(p) /\ tree[p].parent = q THEN 1 ELSE 0
    BY DEF ParentChildAgree
  <2> DEFINE c == tree[q].children
             I == {i \in DOMAIN c : c[i] = p}
  <2>1. Paired(tree, Off) /\ Plain(Off)
    BY OffIsPlain DEF MeshInd, OneAtATime, Sound
  <2>2. Distinct(c) /\ (Among(c, p) <=> Present(p) /\ tree[p].parent = q)
    BY <2>1 DEF Paired, Plain, Lists, Among, PointsTo, Present, There
  <2>3. CASE Among(c, p)
    <3>1. PICK i \in DOMAIN c : c[i] = p
      BY <2>3 DEF Among
    <3>2. I = {i}
      BY <2>2, <3>1 DEF Distinct
    <3>3. Cardinality(I) = 1
      BY <3>2, FS_Singleton
    <3> QED BY <2>2, <2>3, <3>3
  <2>4. CASE ~ Among(c, p)
    <3>1. I = {}
      BY <2>4 DEF Among
    <3>2. Cardinality(I) = 0
      BY <3>1, FS_EmptySet
    <3> QED BY <2>2, <2>4, <3>2
  <2> QED BY <2>3, <2>4
<1>3. LoadWithinLimits
  <2> SUFFICES ASSUME limit = 1 PROVE LoadWithinLimits
    BY DEF LoadWithinLimits
  <2>1. Loads(tree)
    BY DEF MeshInd, OneAtATime, TreeSettled, Sound
  <2> QED BY <2>1 DEF LoadWithinLimits, Loads, Ceiling, EffectiveCapacity, Roots, Present, There
<1> QED BY <1>1, <1>2, <1>3 DEF TreeInv

\* With any number of sessions, ids and children, and with any limits: when
\* operations are done one at a time, parent pointers and children lists
\* say the same of every two peers after each, and no peer relays to more
\* children, none is deeper and no more are roots than the operator allows.
THEOREM TreeSound == MeshSpec => []TreeInv
<1>1. MeshInd /\ [MeshNext]_meshVars => MeshInd'
  BY MeshProceeds
<1> QED BY <1>1, MeshBegins, MeshIndImplies, PTL DEF MeshSpec
=============================================================================
