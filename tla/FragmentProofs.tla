--------------------------- MODULE FragmentProofs ----------------------------
(***************************************************************************)
(* TLAPS proofs about the two halves of lvqr-fragment, for any number of   *)
(* producers, subscribers, ring slots, emits and metadata updates, and for *)
(* any threads, keys, calls and callbacks.                                 *)
(***************************************************************************)
EXTENDS FragmentBroadcaster, BroadcasterRegistry, TLAPS

(***************************************************************************)
(* FragmentBroadcaster.  The properties are not inductive on their own: a  *)
(* subscriber's ledger stays balanced across subscribe only because a      *)
(* stream that is not open yet has an empty ledger, and its snapshot is    *)
(* fresh enough only because the metadata version never goes back.  IInv   *)
(* adds those two facts.                                                   *)
(***************************************************************************)

\* A stream that has not been handed out yet has neither received nor lost.
FreshLedger ==
  \A s \in Subs : st[s] \in {"off", "rx"} => delivered[s] = 0 /\ skipped[s] = 0

\* No subscriber joined under metadata newer than the current metadata.
BaseIsPast == \A s \in Subs : base[s] <= meta

\* The inductive invariant.
IInv ==
  /\ TypeOK
  /\ EveryFragmentAccounted
  /\ LossCounted
  /\ LossLeavesAFullRing
  /\ EndIsComplete
  /\ SnapshotCoversJoin
  /\ FreshLedger
  /\ BaseIsPast

-----------------------------------------------------------------------------
\* The initial states satisfy the inductive invariant.
LEMMA InitIInv == Init => IInv
  BY ConstAssumption
  DEF Init, IInv, TypeOK, EveryFragmentAccounted, LossCounted, LossLeavesAFullRing,
      EndIsComplete, SnapshotCoversJoin, FreshLedger, BaseIsPast

\* A step of a producer (emit, metadata update, clone, drop) preserves it.
LEMMA ProducerStep ==
  ASSUME IInv, NEW p \in Producers,
         \/ EmitCount(p) \/ EmitSend(p) \/ UpdateMeta(p) \/ DropHandle(p)
         \/ \E q \in Producers : CloneHandle(p, q)
  PROVE  IInv'
<1> USE DEF IInv, subv
<1>1. CASE EmitCount(p)
  <2>1. TypeOK'
    BY <1>1 DEF EmitCount, TypeOK
  <2>2. QED
    BY <1>1, <2>1
    DEF EmitCount, EveryFragmentAccounted, LossCounted, LossLeavesAFullRing,
        EndIsComplete, SnapshotCoversJoin, FreshLedger, BaseIsPast
<1>2. CASE EmitSend(p)
  <2>1. TypeOK'
    BY <1>2 DEF EmitSend, TypeOK
  <2>2. tail' \in {tail, tail + 1}
    BY <1>2 DEF EmitSend
  <2>3. EveryFragmentAccounted' /\ LossCounted'
    BY <1>2, <2>2 DEF EmitSend, TypeOK, EveryFragmentAccounted, LossCounted
  <2>4. LossLeavesAFullRing'
    BY <1>2, <2>2, ConstAssumption DEF EmitSend, TypeOK, LossLeavesAFullRing
  <2>5. EndIsComplete'
    <3>1. handles # {}
      BY <1>2 DEF EmitSend, TypeOK
    <3>2. QED
      BY <1>2, <3>1 DEF EmitSend, EndIsComplete
  <2>6. QED
    BY <1>2, <2>1, <2>3, <2>4, <2>5
    DEF EmitSend, SnapshotCoversJoin, FreshLedger, BaseIsPast
<1>3. CASE UpdateMeta(p)
  <2>1. TypeOK'
    BY <1>3 DEF UpdateMeta, TypeOK
  <2>2. BaseIsPast'
    BY <1>3 DEF UpdateMeta, TypeOK, BaseIsPast
  <2>3. QED
    BY <1>3, <2>1, <2>2
    DEF UpdateMeta, EveryFragmentAccounted, LossCounted, LossLeavesAFullRing,
        EndIsComplete, SnapshotCoversJoin, FreshLedger
<1>4. CASE DropHandle(p)
  <2>1. TypeOK'
    BY <1>4 DEF DropHandle, TypeOK
  <2>2. EndIsComplete'
    BY <1>4 DEF DropHandle, EndIsComplete
  <2>3. QED
    BY <1>4, <2>1, <2>2
    DEF DropHandle, EveryFragmentAccounted, LossCounted, LossLeavesAFullRing,
        SnapshotCoversJoin, FreshLedger, BaseIsPast
<1>5. CASE \E q \in Producers : CloneHandle(p, q)
  <2>1. TypeOK'
    BY <1>5 DEF CloneHandle, TypeOK
  <2>2. EndIsComplete'
    BY <1>5 DEF CloneHandle, EndIsComplete
  <2>3. QED
    BY <1>5, <2>1, <2>2
    DEF CloneHandle, EveryFragmentAccounted, LossCounted, LossLeavesAFullRing,
        SnapshotCoversJoin, FreshLedger, BaseIsPast
<1>6. QED
  BY <1>1, <1>2, <1>3, <1>4, <1>5

\* A step of a subscriber (subscribe, refresh, receive, drop) preserves it.
LEMMA SubscriberStep ==
  ASSUME IInv, NEW s \in Subs,
         \/ SubscribeRx(s) \/ SubscribeMeta(s) \/ refresh_meta(s)
         \/ next_fragment(s) \/ DropStream(s)
  PROVE  IInv'
<1> USE DEF IInv, chan
<1>1. CASE SubscribeRx(s)
  <2>1. TypeOK'
    BY <1>1 DEF SubscribeRx, TypeOK
  <2>2. EveryFragmentAccounted' /\ LossCounted'
    BY <1>1 DEF SubscribeRx, TypeOK, EveryFragmentAccounted, LossCounted, FreshLedger
  <2>3. LossLeavesAFullRing' /\ EndIsComplete' /\ SnapshotCoversJoin'
    BY <1>1
    DEF SubscribeRx, TypeOK, LossLeavesAFullRing, EndIsComplete, SnapshotCoversJoin
  <2>4. FreshLedger' /\ BaseIsPast'
    BY <1>1 DEF SubscribeRx, TypeOK, FreshLedger, BaseIsPast
  <2>5. QED
    BY <2>1, <2>2, <2>3, <2>4
<1>2. CASE SubscribeMeta(s)
  <2>1. TypeOK'
    BY <1>2 DEF SubscribeMeta, TypeOK
  <2>2. EveryFragmentAccounted' /\ LossCounted' /\ LossLeavesAFullRing' /\ EndIsComplete'
    BY <1>2
    DEF SubscribeMeta, TypeOK, EveryFragmentAccounted, LossCounted, LossLeavesAFullRing,
        EndIsComplete, FreshLedger
  <2>3. SnapshotCoversJoin'
    BY <1>2 DEF SubscribeMeta, TypeOK, SnapshotCoversJoin, BaseIsPast
  <2>4. FreshLedger' /\ BaseIsPast'
    BY <1>2 DEF SubscribeMeta, TypeOK, FreshLedger, BaseIsPast
  <2>5. QED
    BY <2>1, <2>2, <2>3, <2>4
<1>3. CASE refresh_meta(s)
  <2>1. TypeOK'
    BY <1>3 DEF refresh_meta, TypeOK
  <2>2. SnapshotCoversJoin'
    BY <1>3 DEF refresh_meta, TypeOK, SnapshotCoversJoin, BaseIsPast
  <2>3. QED
    BY <1>3, <2>1, <2>2
    DEF refresh_meta, EveryFragmentAccounted, LossCounted, LossLeavesAFullRing,
        EndIsComplete, FreshLedger, BaseIsPast
<1>4. CASE RecvOk(s)
  <2>1. TypeOK'
    BY <1>4 DEF RecvOk, TypeOK
  <2>2. EveryFragmentAccounted' /\ LossCounted'
    BY <1>4 DEF RecvOk, TypeOK, EveryFragmentAccounted, LossCounted
  <2>3. LossLeavesAFullRing'
    BY <1>4, ConstAssumption DEF RecvOk, TypeOK, LossLeavesAFullRing
  <2>4. EndIsComplete' /\ SnapshotCoversJoin' /\ FreshLedger' /\ BaseIsPast'
    BY <1>4
    DEF RecvOk, TypeOK, EndIsComplete, SnapshotCoversJoin, FreshLedger, BaseIsPast
  <2>5. QED
    BY <2>1, <2>2, <2>3, <2>4
<1>5. CASE RecvLagged(s)
  <2>1. /\ tail - Capacity \in Nat
        /\ (tail - Capacity) - next[s] \in Nat
    BY <1>5, ConstAssumption DEF RecvLagged, TypeOK
  <2>2. TypeOK'
    BY <1>5, <2>1 DEF RecvLagged, TypeOK
  <2>3. EveryFragmentAccounted' /\ LossCounted'
    BY <1>5, <2>1, ConstAssumption DEF RecvLagged, TypeOK, EveryFragmentAccounted, LossCounted
  <2>4. LossLeavesAFullRing'
    BY <1>5, <2>1, ConstAssumption DEF RecvLagged, TypeOK, LossLeavesAFullRing
  <2>5. EndIsComplete' /\ SnapshotCoversJoin' /\ FreshLedger' /\ BaseIsPast'
    BY <1>5
    DEF RecvLagged, TypeOK, EndIsComplete, SnapshotCoversJoin, FreshLedger, BaseIsPast
  <2>6. QED
    BY <2>2, <2>3, <2>4, <2>5
<1>6. CASE RecvClosed(s)
  <2>1. TypeOK'
    BY <1>6 DEF RecvClosed, TypeOK
  <2>2. EndIsComplete' /\ LossLeavesAFullRing' /\ SnapshotCoversJoin' /\ FreshLedger'
    BY <1>6
    DEF RecvClosed, TypeOK, EndIsComplete, LossLeavesAFullRing,
        SnapshotCoversJoin, FreshLedger
  <2>3. QED
    BY <1>6, <2>1, <2>2 DEF RecvClosed, EveryFragmentAccounted, LossCounted, BaseIsPast
<1>7. CASE DropStream(s)
  <2>1. TypeOK'
    BY <1>7 DEF DropStream, TypeOK
  <2>2. EndIsComplete' /\ LossLeavesAFullRing' /\ SnapshotCoversJoin' /\ FreshLedger'
    BY <1>7
    DEF DropStream, TypeOK, EndIsComplete, LossLeavesAFullRing,
        SnapshotCoversJoin, FreshLedger
  <2>3. QED
    BY <1>7, <2>1, <2>2 DEF DropStream, EveryFragmentAccounted, LossCounted, BaseIsPast
<1>8. QED
  BY <1>1, <1>2, <1>3, <1>4, <1>5, <1>6, <1>7 DEF next_fragment

\* Every step, stuttering included, preserves the inductive invariant.
LEMMA StepIInv == IInv /\ [Next]_vars => IInv'
<1> SUFFICES ASSUME IInv, [Next]_vars PROVE IInv'
  OBVIOUS
<1>1. CASE Next
  BY <1>1, ProducerStep, SubscriberStep DEF Next
<1>2. CASE UNCHANGED vars
  BY <1>2
  DEF vars, chan, subv, IInv, TypeOK, EveryFragmentAccounted, LossCounted, LossLeavesAFullRing,
      EndIsComplete, SnapshotCoversJoin, FreshLedger, BaseIsPast
<1>3. QED
  BY <1>1, <1>2

\* The inductive invariant holds in every reachable state.
THEOREM Invariance == Spec => []IInv
  BY InitIInv, StepIInv, PTL DEF Spec

\* Type correctness, which includes that no Sender disappears in mid-emit.
THEOREM TypeCorrect == Spec => []TypeOK
<1>1. IInv => TypeOK
  BY DEF IInv
<1>2. QED
  BY <1>1, Invariance, PTL

\* Every fragment accepted since a subscriber joined is delivered to it,
\* counted as lost by it, or still ahead of it.
THEOREM Accounting == Spec => []EveryFragmentAccounted
<1>1. IInv => EveryFragmentAccounted
  BY DEF IInv
<1>2. QED
  BY <1>1, Invariance, PTL

\* A subscriber that lost something has had, or can still have, a full ring.
THEOREM LossIsForced == Spec => []LossLeavesAFullRing
<1>1. IInv => LossLeavesAFullRing
  BY DEF IInv
<1>2. QED
  BY <1>1, Invariance, PTL

\* A stream that returned None missed nothing and has no producer left.
THEOREM EndNotEarly == Spec => []EndIsComplete
<1>1. IInv => EndIsComplete
  BY DEF IInv
<1>2. QED
  BY <1>1, Invariance, PTL

\* What a subscriber may rely on (next_fragment), for any number of producers
\* and subscribers and any ring size.
THEOREM DeliveryGuaranteed == Spec => []Delivery
<1>1. IInv => Delivery
  BY DEF IInv, Delivery
<1>2. QED
  BY <1>1, Invariance, PTL

\* The snapshot of subscribe is no older than the metadata at the join.
THEOREM SnapshotFresh == Spec => []SnapshotCoversJoin
<1>1. IInv => SnapshotCoversJoin
  BY DEF IInv
<1>2. QED
  BY <1>1, Invariance, PTL

-----------------------------------------------------------------------------
(* Refinement: the broadcaster implements FanoutContract.                  *)

\* Initial states of the broadcaster are initial states of the contract.
LEMMA InitRefines == Init => Contract!CInit
  BY DEF Init, Contract!CInit, openBar, phaseBar

\* A producer's step is Accept, Shut or invisible to the contract.
LEMMA ProducerRefines ==
  ASSUME TypeOK, NEW p \in Producers,
         \/ EmitCount(p) \/ EmitSend(p) \/ UpdateMeta(p) \/ DropHandle(p)
         \/ \E q \in Producers : CloneHandle(p, q)
  PROVE  [Contract!CNext]_Contract!cvars
<1> USE DEF subv, openBar, phaseBar, Contract!cvars
<1>1. CASE EmitCount(p)
  BY <1>1 DEF EmitCount
<1>2. CASE EmitSend(p)
  <2>1. handles # {}
    BY <1>2 DEF EmitSend, TypeOK
  <2>2. CASE receivers = {}
    BY <1>2, <2>2 DEF EmitSend
  <2>3. CASE receivers # {}
    BY <1>2, <2>1, <2>3 DEF EmitSend, Contract!CNext, Contract!Accept
  <2>4. QED
    BY <2>2, <2>3
<1>3. CASE UpdateMeta(p)
  BY <1>3 DEF UpdateMeta
<1>4. CASE DropHandle(p)
  <2>1. CASE handles = {p}
    BY <1>4, <2>1 DEF DropHandle, Contract!CNext, Contract!Shut
  <2>2. CASE handles # {p}
    <3>1. handles # {} /\ handles' # {}
      BY <1>4, <2>2 DEF DropHandle
    <3>2. QED
      BY <1>4, <3>1 DEF DropHandle
  <2>3. QED
    BY <2>1, <2>2
<1>5. CASE \E q \in Producers : CloneHandle(p, q)
  <2>1. handles # {} /\ handles' # {}
    BY <1>5 DEF CloneHandle
  <2>2. QED
    BY <1>5, <2>1 DEF CloneHandle
<1>6. QED
  BY <1>1, <1>2, <1>3, <1>4, <1>5

\* A subscriber's step is Join, Deliver, Skip, End, Leave or invisible.
LEMMA SubscriberRefines ==
  ASSUME IInv, NEW s \in Subs,
         \/ SubscribeRx(s) \/ SubscribeMeta(s) \/ refresh_meta(s)
         \/ next_fragment(s) \/ DropStream(s)
  PROVE  [Contract!CNext]_Contract!cvars
<1> USE DEF IInv, TypeOK, chan, openBar, phaseBar
<1>1. CASE SubscribeRx(s)
  <2>1. Contract!Join(s)
    BY <1>1 DEF SubscribeRx, Contract!Join
  <2>2. QED
    BY <2>1 DEF Contract!CNext
<1>2. CASE SubscribeMeta(s)
  BY <1>2 DEF SubscribeMeta, Contract!cvars
<1>3. CASE refresh_meta(s)
  BY <1>3 DEF refresh_meta, Contract!cvars
<1>4. CASE RecvOk(s)
  <2>1. Contract!Deliver(s)
    BY <1>4 DEF RecvOk, Contract!Deliver
  <2>2. QED
    BY <2>1 DEF Contract!CNext
<1>5. CASE RecvLagged(s)
  <2>1. tail - Capacity \in (next[s] + 1)..(tail - 1)
    BY <1>5, ConstAssumption DEF RecvLagged
  <2>2. Contract!Skip(s)
    BY <1>5, <2>1 DEF RecvLagged, Contract!Skip
  <2>3. QED
    BY <2>2 DEF Contract!CNext
<1>6. CASE RecvClosed(s)
  <2>1. Contract!End(s)
    BY <1>6 DEF RecvClosed, Contract!End
  <2>2. QED
    BY <2>1 DEF Contract!CNext
<1>7. CASE DropStream(s)
  <2>1. Contract!Leave(s)
    BY <1>7 DEF DropStream, Contract!Leave
  <2>2. QED
    BY <2>1 DEF Contract!CNext
<1>8. QED
  BY <1>1, <1>2, <1>3, <1>4, <1>5, <1>6, <1>7 DEF next_fragment

\* The broadcaster implements the fan-out contract.
THEOREM Refinement == Spec => ContractSpec
<1>1. IInv /\ [Next]_vars => [Contract!CNext]_Contract!cvars
  <2> SUFFICES ASSUME IInv, [Next]_vars PROVE [Contract!CNext]_Contract!cvars
    OBVIOUS
  <2>1. CASE Next
    <3>1. TypeOK
      BY DEF IInv
    <3>2. QED
      BY <2>1, <3>1, ProducerRefines, SubscriberRefines DEF Next
  <2>2. CASE UNCHANGED vars
    BY <2>2 DEF vars, chan, subv, Contract!cvars, openBar, phaseBar
  <2>3. QED
    BY <2>1, <2>2
<1>2. QED
  BY <1>1, InitRefines, Invariance, PTL DEF Spec, ContractSpec, Contract!CSpec
-----------------------------------------------------------------------------
(***************************************************************************)
(* BroadcasterRegistry.  What makes the callbacks fire exactly once is     *)
(* that each broadcaster has one creating call and at most one removing    *)
(* call, and that the rest of the snapshot such a call works through has   *)
(* not run yet.                                                            *)
(***************************************************************************)

Creating == {"created", "firing", "owning"}
Removing == {"removed", "unfiring"}

\* A call that got a broadcaster holds one that exists.
HoldsBc ==
  \A t \in Threads : pc[t] \in Creating \cup Removing \cup {"using"} => bc[t] \in Bcs

\* A registered broadcaster was made for the key it is registered under.
EntryOfItsKey ==
  \A k \in Keys : inner[k] # None => keyOf[inner[k]] = k

\* Two creating calls never work on the same broadcaster.
OneCreator ==
  \A t, u \in Threads :
    t # u /\ pc[t] \in Creating /\ pc[u] \in Creating => bc[t] # bc[u]

\* Callbacks are never uninstalled.
DueInstalled == \A b \in Bcs : due[b] \subseteq 1..callbacks

\* What is left of the creating call's snapshot has not run; the callbacks
\* due and no longer left have run.
CreatorProgress ==
  \A t \in Threads :
    /\ pc[t] = "created" => \A c \in Cbs : fired[bc[t]][c] = 0
    /\ pc[t] = "firing" =>
         /\ \A c \in at[t]..upto[t] : fired[bc[t]][c] = 0
         /\ \A c \in due[bc[t]] : c <= upto[t] /\ (c < at[t] => fired[bc[t]][c] = 1)
    /\ pc[t] = "owning" => \A c \in due[bc[t]] : fired[bc[t]][c] = 1

\* No creation callback has run twice for a broadcaster.
AtMostOnce == \A b \in Bcs, c \in Cbs : fired[b][c] \in 0..1

\* Two removing calls never work on the same broadcaster.
OneRemover ==
  \A t, u \in Threads :
    t # u /\ pc[t] \in Removing /\ pc[u] \in Removing => bc[t] # bc[u]

\* What is left of a removing call's snapshot has not run.
RemoverProgress ==
  \A t \in Threads :
    /\ pc[t] \in Removing => removals[bc[t]] = 1
    /\ pc[t] = "removed" => \A c \in Cbs : rfired[bc[t]][c] = 0
    /\ pc[t] = "unfiring" => \A c \in at[t]..upto[t] : rfired[bc[t]][c] = 0

\* The inductive invariant.
RInv ==
  /\ RegistryTypeOK /\ HoldsBc
  /\ NoOrphanBroadcaster /\ EntryOfItsKey
  /\ OneCreator /\ DueInstalled /\ CreatorProgress /\ AtMostOnce
  /\ OneRemover /\ RemoverProgress /\ RemovedAtMostOnce

-----------------------------------------------------------------------------
\* The initial states satisfy the inductive invariant.
LEMMA InitRInv == RegistryInit => RInv
  BY RegistryAssumption
  DEF RegistryInit, RInv, Bcs, Cbs, Creating, Removing, Labels, RegistryTypeOK, HoldsBc, NoOrphanBroadcaster, EntryOfItsKey, OneCreator,
      DueInstalled, CreatorProgress, AtMostOnce, OneRemover, RemoverProgress,
      RemovedAtMostOnce

\* A lookup, hit or miss, preserves the inductive invariant.
LEMMA LookUpStep ==
  ASSUME RInv, NEW t \in Threads, NEW k \in Keys, LookUp(t, k)
  PROVE  RInv'
<1> USE RegistryAssumption DEF RInv, Bcs, Cbs, Labels, Creating, Removing, LookUp, Goto, loop, hist
<1>1. RegistryTypeOK'
  <2>1. calls' \in 0..MaxCalls /\ key' \in [Threads -> Keys]
    BY DEF RegistryTypeOK
  <2>2. pc' \in [Threads -> Labels] /\ bc' \in [Threads -> Bcs \cup {None}]
    BY DEF RegistryTypeOK
  <2>3. QED
    BY <2>1, <2>2 DEF RegistryTypeOK
<1>2. HoldsBc'
  BY DEF RegistryTypeOK, HoldsBc
<1>3. NoOrphanBroadcaster' /\ EntryOfItsKey'
  BY DEF RegistryTypeOK, NoOrphanBroadcaster, EntryOfItsKey
<1>4. OneCreator'
  BY DEF RegistryTypeOK, HoldsBc, OneCreator
<1>5. DueInstalled'
  BY DEF RegistryTypeOK, DueInstalled
<1>6. CreatorProgress'
  BY DEF RegistryTypeOK, HoldsBc, OneCreator, DueInstalled, CreatorProgress
<1>7. AtMostOnce'
  BY DEF RegistryTypeOK, HoldsBc, CreatorProgress, AtMostOnce
<1>8. OneRemover'
  BY DEF RegistryTypeOK, HoldsBc, NoOrphanBroadcaster, OneRemover, RemoverProgress
<1>9. RemoverProgress'
  BY DEF RegistryTypeOK, HoldsBc, NoOrphanBroadcaster, OneRemover, RemoverProgress, RemovedAtMostOnce
<1>10. RemovedAtMostOnce'
  BY DEF RegistryTypeOK, HoldsBc, RemoverProgress, RemovedAtMostOnce
<1>11. QED
  BY <1>1, <1>2, <1>3, <1>4, <1>5, <1>6, <1>7, <1>8, <1>9, <1>10

\* Taking the write lock preserves it.
LEMMA LockForInsertStep ==
  ASSUME RInv, NEW t \in Threads, LockForInsert(t)
  PROVE  RInv'
<1> USE RegistryAssumption DEF RInv, Bcs, Cbs, Labels, Creating, Removing, LockForInsert, Goto, loop, hist
<1>1. RegistryTypeOK'
  BY DEF RegistryTypeOK
<1>2. HoldsBc'
  BY DEF RegistryTypeOK, HoldsBc
<1>3. NoOrphanBroadcaster' /\ EntryOfItsKey'
  BY DEF RegistryTypeOK, NoOrphanBroadcaster, EntryOfItsKey
<1>4. OneCreator'
  BY DEF RegistryTypeOK, HoldsBc, OneCreator
<1>5. DueInstalled'
  BY DEF RegistryTypeOK, DueInstalled
<1>6. CreatorProgress'
  BY DEF RegistryTypeOK, HoldsBc, OneCreator, DueInstalled, CreatorProgress
<1>7. AtMostOnce'
  BY DEF RegistryTypeOK, HoldsBc, CreatorProgress, AtMostOnce
<1>8. OneRemover'
  BY DEF RegistryTypeOK, HoldsBc, NoOrphanBroadcaster, OneRemover, RemoverProgress
<1>9. RemoverProgress'
  BY DEF RegistryTypeOK, HoldsBc, NoOrphanBroadcaster, OneRemover, RemoverProgress, RemovedAtMostOnce
<1>10. RemovedAtMostOnce'
  BY DEF RegistryTypeOK, HoldsBc, RemoverProgress, RemovedAtMostOnce
<1>11. QED
  BY <1>1, <1>2, <1>3, <1>4, <1>5, <1>6, <1>7, <1>8, <1>9, <1>10

\* Finding a racing caller's entry preserves it.
LEMMA FindRacingStep ==
  ASSUME RInv, NEW t \in Threads, FindRacing(t)
  PROVE  RInv'
<1> USE RegistryAssumption DEF RInv, Bcs, Cbs, Labels, Creating, Removing, FindRacing, Goto, loop, hist
<1>1. RegistryTypeOK'
  BY DEF RegistryTypeOK
<1>2. HoldsBc'
  BY DEF RegistryTypeOK, HoldsBc
<1>3. NoOrphanBroadcaster' /\ EntryOfItsKey'
  BY DEF RegistryTypeOK, NoOrphanBroadcaster, EntryOfItsKey
<1>4. OneCreator'
  BY DEF RegistryTypeOK, HoldsBc, OneCreator
<1>5. DueInstalled'
  BY DEF RegistryTypeOK, DueInstalled
<1>6. CreatorProgress'
  BY DEF RegistryTypeOK, HoldsBc, OneCreator, DueInstalled, CreatorProgress
<1>7. AtMostOnce'
  BY DEF RegistryTypeOK, HoldsBc, CreatorProgress, AtMostOnce
<1>8. OneRemover'
  BY DEF RegistryTypeOK, HoldsBc, NoOrphanBroadcaster, OneRemover, RemoverProgress
<1>9. RemoverProgress'
  BY DEF RegistryTypeOK, HoldsBc, NoOrphanBroadcaster, OneRemover, RemoverProgress, RemovedAtMostOnce
<1>10. RemovedAtMostOnce'
  BY DEF RegistryTypeOK, HoldsBc, RemoverProgress, RemovedAtMostOnce
<1>11. QED
  BY <1>1, <1>2, <1>3, <1>4, <1>5, <1>6, <1>7, <1>8, <1>9, <1>10

\* Taking the snapshot of the creation callbacks preserves it.
LEMMA SnapshotCreatedStep ==
  ASSUME RInv, NEW t \in Threads, SnapshotCreated(t)
  PROVE  RInv'
<1> USE RegistryAssumption DEF RInv, Bcs, Cbs, Labels, Creating, Removing, SnapshotCreated, Goto, hist
<1>1. RegistryTypeOK'
  <2>1. at' \in [Threads -> Nat \ {0}] /\ upto' \in [Threads -> 0..MaxCbs]
    BY DEF RegistryTypeOK
  <2>2. pc' \in [Threads -> Labels]
    BY DEF RegistryTypeOK
  <2>3. QED
    BY <2>1, <2>2 DEF RegistryTypeOK
<1>2. HoldsBc'
  BY DEF RegistryTypeOK, HoldsBc
<1>3. NoOrphanBroadcaster' /\ EntryOfItsKey'
  BY DEF RegistryTypeOK, NoOrphanBroadcaster, EntryOfItsKey
<1>4. OneCreator'
  BY DEF RegistryTypeOK, HoldsBc, OneCreator
<1>5. DueInstalled'
  BY DEF RegistryTypeOK, DueInstalled
<1>6. CreatorProgress'
  <2>1. ASSUME NEW u \in Threads, u # t PROVE CreatorProgress!(u)'
    BY <2>1 DEF RegistryTypeOK, CreatorProgress
  <2>2. CreatorProgress!(t)'
    BY DEF RegistryTypeOK, HoldsBc, DueInstalled, CreatorProgress
  <2>3. QED
    BY <2>1, <2>2 DEF CreatorProgress
<1>7. AtMostOnce'
  BY DEF RegistryTypeOK, HoldsBc, CreatorProgress, AtMostOnce
<1>8. OneRemover'
  BY DEF RegistryTypeOK, HoldsBc, NoOrphanBroadcaster, OneRemover, RemoverProgress
<1>9. RemoverProgress'
  BY DEF RegistryTypeOK, HoldsBc, NoOrphanBroadcaster, OneRemover, RemoverProgress, RemovedAtMostOnce
<1>10. RemovedAtMostOnce'
  BY DEF RegistryTypeOK, HoldsBc, RemoverProgress, RemovedAtMostOnce
<1>11. QED
  BY <1>1, <1>2, <1>3, <1>4, <1>5, <1>6, <1>7, <1>8, <1>9, <1>10

\* Running a creation callback preserves it.
LEMMA FireCreatedStep ==
  ASSUME RInv, NEW t \in Threads, FireCreated(t)
  PROVE  RInv'
<1> USE RegistryAssumption DEF RInv, Bcs, Cbs, Labels, Creating, Removing, FireCreated
<1>1. bc[t] \in Bcs
  BY DEF HoldsBc
<1>2. at[t] \in Cbs
  BY DEF RegistryTypeOK
<1>3. fired \in [Bcs -> [Cbs -> Nat]]
  BY DEF RegistryTypeOK
<1>4. fired' = [fired EXCEPT ![bc[t]][at[t]] = @ + 1]
  OBVIOUS
<1>5. fired' \in [Bcs -> [Cbs -> Nat]]
  <2> HIDE DEF RInv, Bcs, Cbs, FireCreated
  <2>1. QED
    BY <1>1, <1>2, <1>3, <1>4
<1>6. \A b \in Bcs, c \in Cbs :
        fired'[b][c] = IF b = bc[t] /\ c = at[t] THEN fired[b][c] + 1 ELSE fired[b][c]
  <2> HIDE DEF RInv, Bcs, Cbs, FireCreated
  <2>1. QED
    BY <1>1, <1>2, <1>3, <1>4
<1>7. /\ pc[t] = "firing" /\ at[t] <= upto[t]
      /\ at' = [at EXCEPT ![t] = @ + 1]
      /\ UNCHANGED <<pc, bc, upto, made, due>>
  OBVIOUS
<1>8. /\ at \in [Threads -> Nat \ {0}] /\ upto \in [Threads -> 0..MaxCbs]
      /\ due \in [Bcs -> SUBSET Cbs] /\ Cbs \subseteq Nat /\ MaxCbs \in Nat
  BY DEF RegistryTypeOK
<1>9. RegistryTypeOK'
  <2>1. at' \in [Threads -> Nat \ {0}] /\ upto' \in [Threads -> 0..MaxCbs]
    BY DEF RegistryTypeOK
  <2>2. fired' \in [Bcs -> [Cbs -> Nat]]
    BY <1>5
  <2>3. QED
    BY <2>1, <2>2 DEF RegistryTypeOK
<1>10. HoldsBc'
  BY DEF RegistryTypeOK, HoldsBc
<1>11. NoOrphanBroadcaster' /\ EntryOfItsKey'
  BY DEF RegistryTypeOK, NoOrphanBroadcaster, EntryOfItsKey
<1>12. OneCreator'
  BY DEF RegistryTypeOK, HoldsBc, OneCreator
<1>13. DueInstalled'
  BY DEF RegistryTypeOK, DueInstalled
<1>14. CreatorProgress'
  <2> HIDE DEF RInv, FireCreated, Labels
  <2> HoldsBc /\ OneCreator /\ CreatorProgress
    BY DEF RInv
  <2>1. ASSUME NEW u \in Threads, u # t PROVE CreatorProgress!(u)'
    <3>1. ASSUME pc[u] \in Creating PROVE bc[u] \in Bcs /\ bc[u] # bc[t]
      BY <3>1, <1>7, <2>1 DEF HoldsBc, OneCreator
    <3>2. ASSUME pc[u] \in Creating, NEW c \in Cbs
          PROVE  fired'[bc[u]][c] = fired[bc[u]][c]
      BY <3>1, <3>2, <1>1, <1>2, <1>6
    <3>3. at'[u] = at[u] /\ pc' = pc /\ upto' = upto /\ bc' = bc /\ due' = due
      BY <1>7, <1>8, <2>1
    <3>4. at[u]..upto[u] \subseteq Cbs
      BY <1>8
    <3>5. pc[u] \in Creating => due[bc[u]] \subseteq Cbs
      BY <1>8, <3>1
    <3>6. CreatorProgress!(u)
      BY DEF CreatorProgress
    <3>7. QED
      BY <3>2, <3>3, <3>4, <3>5, <3>6 DEF Creating
  <2>2. CreatorProgress!(t)'
    <3>1. at'[t] = at[t] + 1 /\ upto' = upto /\ pc' = pc /\ bc' = bc /\ due' = due
      BY <1>7, <1>8
    <3>2. /\ \A c \in at[t]..upto[t] : fired[bc[t]][c] = 0
          /\ \A c \in due[bc[t]] : c <= upto[t] /\ (c < at[t] => fired[bc[t]][c] = 1)
      BY <1>7 DEF CreatorProgress
    <3>3. at[t] \in Nat /\ upto[t] \in Nat /\ upto[t] <= MaxCbs /\ due[bc[t]] \subseteq Cbs
      BY <1>1, <1>8
    <3>4. \A c \in Cbs : fired'[bc[t]][c] = IF c = at[t] THEN fired[bc[t]][c] + 1 ELSE fired[bc[t]][c]
      BY <1>1, <1>6
    <3>5. fired[bc[t]][at[t]] = 0
      BY <3>2, <3>3, <1>7
    <3>6. \A c \in (at[t] + 1)..upto[t] : fired'[bc[t]][c] = 0
      BY <3>2, <3>3, <3>4
    <3>7. ASSUME NEW c \in due[bc[t]]
          PROVE  c <= upto[t] /\ (c < at[t] + 1 => fired'[bc[t]][c] = 1)
      <4>1. c \in Cbs /\ c \in Nat /\ c <= upto[t] /\ (c < at[t] => fired[bc[t]][c] = 1)
        BY <3>2, <3>3, <1>8
      <4>2. CASE c = at[t]
        BY <4>1, <4>2, <3>4, <3>5
      <4>3. CASE c # at[t]
        BY <4>1, <4>3, <3>3, <3>4
      <4>4. QED
        BY <4>2, <4>3
    <3>8. QED
      BY <3>1, <3>6, <3>7, <1>7
  <2>3. QED
    BY <2>1, <2>2 DEF CreatorProgress
<1>15. AtMostOnce'
  <2> HIDE DEF RInv, FireCreated
  <2>1. fired[bc[t]][at[t]] = 0
    BY <1>1, <1>7, <1>8 DEF RInv, CreatorProgress
  <2>2. ASSUME NEW b \in Bcs, NEW c \in Cbs PROVE fired'[b][c] \in 0..1
    <3>1. fired[b][c] \in 0..1
      BY DEF RInv, AtMostOnce
    <3>2. CASE b = bc[t] /\ c = at[t]
      BY <3>2, <2>1, <1>6
    <3>3. CASE ~(b = bc[t] /\ c = at[t])
      BY <3>1, <3>3, <1>6
    <3>4. QED
      BY <3>2, <3>3
  <2>3. QED
    BY <2>2, <1>7 DEF AtMostOnce
<1>16. OneRemover'
  BY DEF RegistryTypeOK, HoldsBc, NoOrphanBroadcaster, OneRemover, RemoverProgress
<1>17. RemoverProgress'
  BY DEF RegistryTypeOK, HoldsBc, NoOrphanBroadcaster, OneRemover, RemoverProgress, RemovedAtMostOnce
<1>18. RemovedAtMostOnce'
  BY DEF RegistryTypeOK, HoldsBc, RemoverProgress, RemovedAtMostOnce
<1>19. QED
  BY <1>1, <1>2, <1>3, <1>4, <1>5, <1>6, <1>7, <1>8, <1>9, <1>10, <1>11, <1>12, <1>13, <1>14, <1>15, <1>16, <1>17, <1>18

\* Returning the new broadcaster preserves it.
LEMMA ReturnCreatedStep ==
  ASSUME RInv, NEW t \in Threads, ReturnCreated(t)
  PROVE  RInv'
<1> USE RegistryAssumption DEF RInv, Bcs, Cbs, Labels, Creating, Removing, ReturnCreated, Goto, loop, hist
<1>1. RegistryTypeOK'
  BY DEF RegistryTypeOK
<1>2. HoldsBc'
  BY DEF RegistryTypeOK, HoldsBc
<1>3. NoOrphanBroadcaster' /\ EntryOfItsKey'
  BY DEF RegistryTypeOK, NoOrphanBroadcaster, EntryOfItsKey
<1>4. OneCreator'
  BY DEF RegistryTypeOK, HoldsBc, OneCreator
<1>5. DueInstalled'
  BY DEF RegistryTypeOK, DueInstalled
<1>6. CreatorProgress'
  BY DEF RegistryTypeOK, HoldsBc, OneCreator, DueInstalled, CreatorProgress
<1>7. AtMostOnce'
  BY DEF RegistryTypeOK, HoldsBc, CreatorProgress, AtMostOnce
<1>8. OneRemover'
  BY DEF RegistryTypeOK, HoldsBc, NoOrphanBroadcaster, OneRemover, RemoverProgress
<1>9. RemoverProgress'
  BY DEF RegistryTypeOK, HoldsBc, NoOrphanBroadcaster, OneRemover, RemoverProgress, RemovedAtMostOnce
<1>10. RemovedAtMostOnce'
  BY DEF RegistryTypeOK, HoldsBc, RemoverProgress, RemovedAtMostOnce
<1>11. QED
  BY <1>1, <1>2, <1>3, <1>4, <1>5, <1>6, <1>7, <1>8, <1>9, <1>10

\* Taking the snapshot of the removal callbacks preserves it.
LEMMA SnapshotRemovedStep ==
  ASSUME RInv, NEW t \in Threads, SnapshotRemoved(t)
  PROVE  RInv'
<1> USE RegistryAssumption DEF RInv, Bcs, Cbs, Labels, Creating, Removing, SnapshotRemoved, Goto, hist
<1>1. RegistryTypeOK'
  <2>1. at' \in [Threads -> Nat \ {0}] /\ upto' \in [Threads -> 0..MaxCbs]
    BY DEF RegistryTypeOK
  <2>2. pc' \in [Threads -> Labels]
    BY DEF RegistryTypeOK
  <2>3. QED
    BY <2>1, <2>2 DEF RegistryTypeOK
<1>2. HoldsBc'
  BY DEF RegistryTypeOK, HoldsBc
<1>3. NoOrphanBroadcaster' /\ EntryOfItsKey'
  BY DEF RegistryTypeOK, NoOrphanBroadcaster, EntryOfItsKey
<1>4. OneCreator'
  BY DEF RegistryTypeOK, HoldsBc, OneCreator
<1>5. DueInstalled'
  BY DEF RegistryTypeOK, DueInstalled
<1>6. CreatorProgress'
  BY DEF RegistryTypeOK, HoldsBc, OneCreator, DueInstalled, CreatorProgress
<1>7. AtMostOnce'
  BY DEF RegistryTypeOK, HoldsBc, CreatorProgress, AtMostOnce
<1>8. OneRemover'
  BY DEF RegistryTypeOK, HoldsBc, NoOrphanBroadcaster, OneRemover, RemoverProgress
<1>9. RemoverProgress'
  BY DEF RegistryTypeOK, HoldsBc, NoOrphanBroadcaster, OneRemover, RemoverProgress, RemovedAtMostOnce
<1>10. RemovedAtMostOnce'
  BY DEF RegistryTypeOK, HoldsBc, RemoverProgress, RemovedAtMostOnce
<1>11. QED
  BY <1>1, <1>2, <1>3, <1>4, <1>5, <1>6, <1>7, <1>8, <1>9, <1>10

\* Running a removal callback preserves it.
LEMMA FireRemovedStep ==
  ASSUME RInv, NEW t \in Threads, FireRemoved(t)
  PROVE  RInv'
<1> USE RegistryAssumption DEF RInv, Bcs, Cbs, Labels, Creating, Removing, FireRemoved
<1>1. bc[t] \in Bcs
  BY DEF HoldsBc
<1>2. at[t] \in Cbs
  BY DEF RegistryTypeOK
<1>3. rfired \in [Bcs -> [Cbs -> Nat]]
  BY DEF RegistryTypeOK
<1>4. rfired' = [rfired EXCEPT ![bc[t]][at[t]] = @ + 1]
  OBVIOUS
<1>5. rfired' \in [Bcs -> [Cbs -> Nat]]
  <2> HIDE DEF RInv, Bcs, Cbs, FireRemoved
  <2>1. QED
    BY <1>1, <1>2, <1>3, <1>4
<1>6. \A b \in Bcs, c \in Cbs :
        rfired'[b][c] = IF b = bc[t] /\ c = at[t] THEN rfired[b][c] + 1 ELSE rfired[b][c]
  <2> HIDE DEF RInv, Bcs, Cbs, FireRemoved
  <2>1. QED
    BY <1>1, <1>2, <1>3, <1>4
<1>7. /\ pc[t] = "unfiring" /\ at[t] <= upto[t]
      /\ at' = [at EXCEPT ![t] = @ + 1]
      /\ UNCHANGED <<pc, bc, upto, made, removals>>
  OBVIOUS
<1>8. at \in [Threads -> Nat \ {0}] /\ upto \in [Threads -> 0..MaxCbs] /\ MaxCbs \in Nat
  BY DEF RegistryTypeOK
<1>9. RegistryTypeOK'
  <2>1. at' \in [Threads -> Nat \ {0}] /\ upto' \in [Threads -> 0..MaxCbs]
    BY DEF RegistryTypeOK
  <2>2. rfired' \in [Bcs -> [Cbs -> Nat]]
    BY <1>5
  <2>3. QED
    BY <2>1, <2>2 DEF RegistryTypeOK
<1>10. HoldsBc'
  BY DEF RegistryTypeOK, HoldsBc
<1>11. NoOrphanBroadcaster' /\ EntryOfItsKey'
  BY DEF RegistryTypeOK, NoOrphanBroadcaster, EntryOfItsKey
<1>12. OneCreator'
  BY DEF RegistryTypeOK, HoldsBc, OneCreator
<1>13. DueInstalled'
  BY DEF RegistryTypeOK, DueInstalled
<1>14. CreatorProgress'
  BY DEF RegistryTypeOK, CreatorProgress
<1>15. AtMostOnce'
  BY DEF RegistryTypeOK, HoldsBc, CreatorProgress, AtMostOnce
<1>16. OneRemover'
  BY DEF RegistryTypeOK, HoldsBc, NoOrphanBroadcaster, OneRemover, RemoverProgress
<1>17. RemoverProgress'
  <2> HIDE DEF RInv, FireRemoved, Labels
  <2>1. ASSUME NEW u \in Threads, u # t PROVE RemoverProgress!(u)'
    <3>1. ASSUME pc[u] \in Removing PROVE bc[u] \in Bcs /\ bc[u] # bc[t]
      BY <3>1, <1>7, <2>1 DEF RInv, HoldsBc, OneRemover
    <3>2. ASSUME pc[u] \in Removing, NEW c \in Cbs
          PROVE  rfired'[bc[u]][c] = rfired[bc[u]][c]
      BY <3>1, <3>2, <1>1, <1>2, <1>6
    <3>3. at'[u] = at[u] /\ pc' = pc /\ upto' = upto /\ bc' = bc /\ removals' = removals
      BY <1>7, <1>8, <2>1
    <3>4. at[u]..upto[u] \subseteq Cbs
      BY <1>8
    <3>5. RemoverProgress!(u)
      BY DEF RInv, RemoverProgress
    <3>6. QED
      BY <3>2, <3>3, <3>4, <3>5 DEF Removing
  <2>2. RemoverProgress!(t)'
    <3>1. at'[t] = at[t] + 1 /\ upto' = upto /\ pc' = pc /\ bc' = bc /\ removals' = removals
      BY <1>7, <1>8
    <3>2. removals[bc[t]] = 1 /\ \A c \in at[t]..upto[t] : rfired[bc[t]][c] = 0
      BY <1>7 DEF RInv, RemoverProgress
    <3>3. at[t] \in Nat /\ upto[t] \in Nat /\ upto[t] <= MaxCbs
      BY <1>8
    <3>4. \A c \in Cbs : c # at[t] => rfired'[bc[t]][c] = rfired[bc[t]][c]
      BY <1>1, <1>6
    <3>5. \A c \in (at[t] + 1)..upto[t] : rfired'[bc[t]][c] = 0
      BY <3>2, <3>3, <3>4
    <3>6. QED
      BY <3>1, <3>2, <3>5, <1>7
  <2>3. QED
    BY <2>1, <2>2 DEF RemoverProgress
<1>18. RemovedAtMostOnce'
  <2> HIDE DEF RInv, FireRemoved
  <2>1. rfired[bc[t]][at[t]] = 0 /\ removals[bc[t]] = 1
    BY <1>1, <1>7, <1>8 DEF RInv, RemoverProgress
  <2>2. ASSUME NEW b \in Bcs, NEW c \in Cbs PROVE rfired'[b][c] <= removals[b]
    <3>1. rfired[b][c] <= removals[b]
      BY DEF RInv, RemovedAtMostOnce
    <3>2. CASE b = bc[t] /\ c = at[t]
      BY <3>2, <2>1, <1>6
    <3>3. CASE ~(b = bc[t] /\ c = at[t])
      BY <3>1, <3>3, <1>6
    <3>4. QED
      BY <3>2, <3>3
  <2>3. QED
    BY <2>2, <1>7 DEF RemovedAtMostOnce
<1>19. QED
  BY <1>1, <1>2, <1>3, <1>4, <1>5, <1>6, <1>7, <1>8, <1>9, <1>10, <1>11, <1>12, <1>13, <1>14, <1>15, <1>16, <1>17, <1>18

\* Returning the removed broadcaster preserves it.
LEMMA ReturnRemovedStep ==
  ASSUME RInv, NEW t \in Threads, ReturnRemoved(t)
  PROVE  RInv'
<1> USE RegistryAssumption DEF RInv, Bcs, Cbs, Labels, Creating, Removing, ReturnRemoved, Goto, loop, hist
<1>1. RegistryTypeOK'
  BY DEF RegistryTypeOK
<1>2. HoldsBc'
  BY DEF RegistryTypeOK, HoldsBc
<1>3. NoOrphanBroadcaster' /\ EntryOfItsKey'
  BY DEF RegistryTypeOK, NoOrphanBroadcaster, EntryOfItsKey
<1>4. OneCreator'
  BY DEF RegistryTypeOK, HoldsBc, OneCreator
<1>5. DueInstalled'
  BY DEF RegistryTypeOK, DueInstalled
<1>6. CreatorProgress'
  BY DEF RegistryTypeOK, CreatorProgress
<1>7. AtMostOnce'
  BY DEF RegistryTypeOK, HoldsBc, CreatorProgress, AtMostOnce
<1>8. OneRemover'
  BY DEF RegistryTypeOK, HoldsBc, NoOrphanBroadcaster, OneRemover, RemoverProgress
<1>9. RemoverProgress'
  BY DEF RegistryTypeOK, HoldsBc, NoOrphanBroadcaster, OneRemover, RemoverProgress, RemovedAtMostOnce
<1>10. RemovedAtMostOnce'
  BY DEF RegistryTypeOK, HoldsBc, RemoverProgress, RemovedAtMostOnce
<1>11. QED
  BY <1>1, <1>2, <1>3, <1>4, <1>5, <1>6, <1>7, <1>8, <1>9, <1>10

\* Emitting on the handle preserves it.
LEMMA EmitAndDropStep ==
  ASSUME RInv, NEW t \in Threads, EmitAndDrop(t)
  PROVE  RInv'
<1> USE RegistryAssumption DEF RInv, Bcs, Cbs, Labels, Creating, Removing, EmitAndDrop, Goto, loop
<1>1. RegistryTypeOK'
  <2>1. late' \subseteq Threads \X Bcs \X Cbs
    BY DEF RegistryTypeOK, HoldsBc
  <2>2. pc' \in [Threads -> Labels]
    BY DEF RegistryTypeOK
  <2>3. QED
    BY <2>1, <2>2 DEF RegistryTypeOK
<1>2. HoldsBc'
  BY DEF RegistryTypeOK, HoldsBc
<1>3. NoOrphanBroadcaster' /\ EntryOfItsKey'
  BY DEF RegistryTypeOK, NoOrphanBroadcaster, EntryOfItsKey
<1>4. OneCreator'
  BY DEF RegistryTypeOK, HoldsBc, OneCreator
<1>5. DueInstalled'
  BY DEF RegistryTypeOK, DueInstalled
<1>6. CreatorProgress'
  BY DEF RegistryTypeOK, HoldsBc, OneCreator, DueInstalled, CreatorProgress
<1>7. AtMostOnce'
  BY DEF RegistryTypeOK, HoldsBc, CreatorProgress, AtMostOnce
<1>8. OneRemover'
  BY DEF RegistryTypeOK, HoldsBc, NoOrphanBroadcaster, OneRemover, RemoverProgress
<1>9. RemoverProgress'
  BY DEF RegistryTypeOK, HoldsBc, NoOrphanBroadcaster, OneRemover, RemoverProgress, RemovedAtMostOnce
<1>10. RemovedAtMostOnce'
  BY DEF RegistryTypeOK, HoldsBc, RemoverProgress, RemovedAtMostOnce
<1>11. QED
  BY <1>1, <1>2, <1>3, <1>4, <1>5, <1>6, <1>7, <1>8, <1>9, <1>10

\* Taking an entry out of the map preserves it.
LEMMA RemoveEntryStep ==
  ASSUME RInv, NEW t \in Threads, NEW k \in Keys, RemoveEntry(t, k)
  PROVE  RInv'
<1> USE RegistryAssumption DEF RInv, Bcs, Cbs, Labels, Creating, Removing, RemoveEntry, Goto, loop
<1>1. inner[k] \in Bcs /\ removals[inner[k]] = 0
  BY DEF RegistryTypeOK, NoOrphanBroadcaster, EntryOfItsKey
<1>2. /\ pc' = [pc EXCEPT ![t] = "removed"] /\ bc' = [bc EXCEPT ![t] = inner[k]]
      /\ removals' = [removals EXCEPT ![inner[k]] = 1]
      /\ UNCHANGED <<made, rfired, at, upto>>
  BY <1>1 DEF RegistryTypeOK
<1>3. RegistryTypeOK'
  <2>1. inner' \in [Keys -> Bcs \cup {None}] /\ bc' \in [Threads -> Bcs \cup {None}]
    BY DEF RegistryTypeOK
  <2>2. removals' \in [Bcs -> Nat] /\ calls' \in 0..MaxCalls
    BY <1>1 DEF RegistryTypeOK
  <2>3. key' \in [Threads -> Keys]
    BY DEF RegistryTypeOK
  <2>4. pc' \in [Threads -> Labels]
    BY DEF RegistryTypeOK
  <2>5. rdue' \in [Bcs -> SUBSET Cbs]
    BY <1>1 DEF RegistryTypeOK
  <2>6. QED
    BY <2>1, <2>2, <2>3, <2>4, <2>5 DEF RegistryTypeOK
<1>4. HoldsBc'
  BY DEF RegistryTypeOK, HoldsBc
<1>5. NoOrphanBroadcaster' /\ EntryOfItsKey'
  BY DEF RegistryTypeOK, NoOrphanBroadcaster, EntryOfItsKey
<1>6. OneCreator'
  BY DEF RegistryTypeOK, HoldsBc, OneCreator
<1>7. DueInstalled'
  BY DEF RegistryTypeOK, DueInstalled
<1>8. CreatorProgress'
  BY DEF RegistryTypeOK, HoldsBc, OneCreator, DueInstalled, CreatorProgress
<1>9. AtMostOnce'
  BY DEF RegistryTypeOK, HoldsBc, CreatorProgress, AtMostOnce
<1>10. OneRemover'
  <2> HIDE DEF RInv, RemoveEntry, Goto, Labels, Bcs
  <2>1. ASSUME NEW u \in Threads, u # t, pc[u] \in Removing PROVE bc[u] # inner[k]
    BY <1>1, <2>1 DEF RInv, RemoverProgress
  <2>2. QED
    BY <1>2, <2>1 DEF RInv, RegistryTypeOK, OneRemover
<1>11. RemoverProgress'
  <2> HIDE DEF RInv, RemoveEntry, Goto, Labels, Bcs, Cbs
  <2>1. ASSUME NEW u \in Threads, u # t PROVE RemoverProgress!(u)'
    <3>1. pc'[u] = pc[u] /\ bc'[u] = bc[u]
      BY <1>2, <2>1 DEF RInv, RegistryTypeOK
    <3>2. pc[u] \in Removing => removals'[bc[u]] = removals[bc[u]]
      BY <1>1, <1>2 DEF RInv, RegistryTypeOK, HoldsBc, RemoverProgress
    <3>3. QED
      BY <1>2, <3>1, <3>2 DEF RInv, RemoverProgress
  <2>2. RemoverProgress!(t)'
    <3>1. pc'[t] = "removed" /\ bc'[t] = inner[k] /\ removals'[inner[k]] = 1
      BY <1>1, <1>2 DEF RInv, RegistryTypeOK
    <3>2. \A c \in Cbs : rfired[inner[k]][c] = 0
      BY <1>1 DEF RInv, RegistryTypeOK, RemovedAtMostOnce
    <3>3. QED
      BY <1>2, <3>1, <3>2
  <2>3. QED
    BY <2>1, <2>2 DEF RemoverProgress
<1>12. RemovedAtMostOnce'
  <2> HIDE DEF RInv, RemoveEntry, Goto, Labels, Cbs
  <2>1. ASSUME NEW b \in Bcs, NEW c \in Cbs PROVE rfired[b][c] <= removals'[b]
    <3>1. rfired[b][c] <= removals[b]
      BY DEF RInv, RemovedAtMostOnce
    <3>2. removals'[b] = IF b = inner[k] THEN 1 ELSE removals[b]
      BY <1>1, <1>2 DEF RInv, RegistryTypeOK
    <3>3. QED
      BY <1>1, <3>1, <3>2 DEF RInv, RegistryTypeOK
  <2>2. QED
    BY <1>2, <2>1 DEF RemovedAtMostOnce
<1>13. QED
  BY <1>1, <1>2, <1>3, <1>4, <1>5, <1>6, <1>7, <1>8, <1>9, <1>10, <1>11, <1>12

\* Inserting a new broadcaster preserves it.
LEMMA InsertStep ==
  ASSUME RInv, NEW t \in Threads, Insert(t)
  PROVE  RInv'
<1> USE RegistryAssumption
<1>0. PICK n \in Nat : n = made + 1
  BY DEF RInv, RegistryTypeOK
<1>1. made \in Nat /\ made' = n /\ Bcs' = Bcs \cup {n} /\ n \notin Bcs
  BY <1>0 DEF RInv, RegistryTypeOK, Insert, Create, Bcs
<1>2. /\ pc[t] = "locked" /\ inner[key[t]] = None /\ key[t] \in Keys
      /\ pc' = [pc EXCEPT ![t] = "created"]
      /\ bc' = [bc EXCEPT ![t] = n]
      /\ inner' = [inner EXCEPT ![key[t]] = n]
      /\ writer' = None
      /\ UNCHANGED <<callbacks, removed_callbacks, calls, key, at, upto, late>>
  BY <1>0 DEF RInv, RegistryTypeOK, Insert, Create, Goto, loop
<1>3. /\ keyOf' = [b \in Bcs' |-> IF b \in Bcs THEN keyOf[b] ELSE key[t]]
      /\ due' = [b \in Bcs' |-> IF b \in Bcs THEN due[b] ELSE 1..callbacks]
      /\ removals' = [b \in Bcs' |-> IF b \in Bcs THEN removals[b] ELSE 0]
  BY <1>1 DEF Insert, Create, Grow, Bcs
<1>4. /\ fired' = [b \in Bcs' |-> IF b \in Bcs THEN fired[b] ELSE [c \in Cbs |-> 0]]
      /\ rfired' = [b \in Bcs' |-> IF b \in Bcs THEN rfired[b] ELSE [c \in Cbs |-> 0]]
  BY <1>1 DEF Insert, Create, Grow, Bcs
<1>5. rdue' = [b \in Bcs' |-> IF b \in Bcs THEN rdue[b] ELSE {}]
  BY <1>1 DEF Insert, Create, Grow, Bcs
<1>6. RegistryTypeOK'
  <2>1. pc' \in [Threads -> Labels]
    BY <1>2 DEF RInv, RegistryTypeOK, Labels
  <2>2. inner' \in [Keys -> Bcs' \cup {None}] /\ bc' \in [Threads -> Bcs' \cup {None}]
    BY <1>1, <1>2 DEF RInv, RegistryTypeOK
  <2>3. /\ keyOf' \in [Bcs' -> Keys \cup {None}]
        /\ removals' \in [Bcs' -> Nat]
    BY <1>1, <1>2, <1>3 DEF RInv, RegistryTypeOK
  <2>4. due' \in [Bcs' -> SUBSET Cbs]
    <3>1. 1..callbacks \subseteq Cbs
      BY DEF RInv, RegistryTypeOK, Cbs
    <3>2. QED
      BY <1>1, <1>3, <3>1 DEF RInv, RegistryTypeOK
  <2>5. fired' \in [Bcs' -> [Cbs -> Nat]] /\ rfired' \in [Bcs' -> [Cbs -> Nat]]
    BY <1>1, <1>4 DEF RInv, RegistryTypeOK
  <2>6. late' \subseteq Threads \X Bcs' \X Cbs
    BY <1>1, <1>2 DEF RInv, RegistryTypeOK
  <2>7. made' \in Nat /\ rdue' \in [Bcs' -> SUBSET Cbs]
    BY <1>1, <1>5 DEF RInv, RegistryTypeOK
  <2>8. QED
    BY <1>2, <2>1, <2>2, <2>3, <2>4, <2>5, <2>6, <2>7 DEF RInv, RegistryTypeOK
<1>7. HoldsBc'
  BY <1>1, <1>2 DEF RInv, RegistryTypeOK, HoldsBc, Creating, Removing
<1>8. NoOrphanBroadcaster' /\ EntryOfItsKey'
  <2>1. ASSUME NEW b \in Bcs PROVE NoOrphanBroadcaster!(b)'
    <3>1. keyOf'[b] = keyOf[b] /\ removals'[b] = removals[b]
      BY <1>1, <1>3
    <3>2. /\ keyOf[b] \in Keys /\ removals[b] <= 1
          /\ (inner[keyOf[b]] = b) <=> (removals[b] = 0)
      BY DEF RInv, NoOrphanBroadcaster
    <3>3. inner'[keyOf[b]] = IF keyOf[b] = key[t] THEN n ELSE inner[keyOf[b]]
      BY <1>2, <3>2 DEF RInv, RegistryTypeOK
    <3>4. b # None /\ b # n
      BY <1>1 DEF Bcs
    <3>5. QED
      BY <1>2, <3>1, <3>2, <3>3, <3>4
  <2>2. NoOrphanBroadcaster!(n)'
    <3>1. keyOf'[n] = key[t] /\ removals'[n] = 0
      BY <1>1, <1>3
    <3>2. inner'[key[t]] = n
      BY <1>2 DEF RInv, RegistryTypeOK
    <3>3. QED
      BY <1>2, <3>1, <3>2
  <2>3. NoOrphanBroadcaster'
    <3> DEFINE Ok(b) == NoOrphanBroadcaster!(b)'
    <3>1. \A b \in Bcs' : Ok(b)
      <4> HIDE DEF Ok
      <4>1. (\A b \in Bcs : Ok(b)) /\ Ok(n)
        BY <2>1, <2>2 DEF Ok
      <4>2. QED
        BY <1>1, <4>1
    <3>2. QED
      BY <3>1 DEF NoOrphanBroadcaster
  <2>4. EntryOfItsKey'
    BY <1>1, <1>2, <1>3 DEF RInv, RegistryTypeOK, EntryOfItsKey
  <2>5. QED
    BY <2>3, <2>4
<1>9. OneCreator'
  BY <1>1, <1>2 DEF RInv, RegistryTypeOK, HoldsBc, OneCreator, Creating
<1>10. DueInstalled'
  BY <1>1, <1>2, <1>3 DEF RInv, DueInstalled
<1>11. CreatorProgress'
  <2>1. ASSUME NEW u \in Threads, u # t PROVE CreatorProgress!(u)'
    <3>1. pc'[u] = pc[u] /\ bc'[u] = bc[u] /\ at' = at /\ upto' = upto
      BY <1>2, <2>1 DEF RInv, RegistryTypeOK
    <3>2. pc[u] \in Creating => fired'[bc[u]] = fired[bc[u]] /\ due'[bc[u]] = due[bc[u]]
      BY <1>1, <1>3, <1>4 DEF RInv, HoldsBc
    <3>3. QED
      BY <3>1, <3>2 DEF RInv, CreatorProgress, Creating
  <2>2. CreatorProgress!(t)'
    BY <1>1, <1>2, <1>4 DEF RInv, RegistryTypeOK
  <2>3. QED
    BY <2>1, <2>2 DEF CreatorProgress
<1>12. AtMostOnce'
  BY <1>1, <1>4 DEF RInv, AtMostOnce
<1>13. OneRemover' /\ RemoverProgress'
  <2>1. ASSUME NEW u \in Threads, pc'[u] \in Removing
        PROVE  /\ pc'[u] = pc[u] /\ bc'[u] = bc[u] /\ bc[u] \in Bcs
               /\ rfired'[bc[u]] = rfired[bc[u]] /\ removals'[bc[u]] = removals[bc[u]]
    BY <1>1, <1>2, <1>3, <1>4, <2>1 DEF RInv, RegistryTypeOK, HoldsBc, Removing
  <2>2. OneRemover'
    BY <2>1 DEF RInv, OneRemover
  <2>3. RemoverProgress'
    BY <1>2, <2>1 DEF RInv, RemoverProgress, Removing
  <2>4. QED
    BY <2>2, <2>3
<1>14. RemovedAtMostOnce'
  BY <1>1, <1>3, <1>4 DEF RInv, RemovedAtMostOnce
<1>15. QED
  BY <1>6, <1>7, <1>8, <1>9, <1>10, <1>11, <1>12, <1>13, <1>14 DEF RInv

\* Every step, stuttering included, preserves the inductive invariant.
LEMMA StepRInv == RInv /\ [RegistryNext]_registryVars => RInv'
<1> SUFFICES ASSUME RInv, [RegistryNext]_registryVars PROVE RInv'
  OBVIOUS
<1>1. CASE on_entry_created
  <2>1. RegistryTypeOK' /\ DueInstalled'
    <3>1. RegistryTypeOK'
      BY <1>1, RegistryAssumption
      DEF on_entry_created, locals, loop, hist, RInv, RegistryTypeOK, Bcs
    <3>2. 1..callbacks \subseteq 1..callbacks'
      BY <1>1 DEF on_entry_created, RInv, RegistryTypeOK
    <3>3. due' = due /\ made' = made
      BY <1>1 DEF on_entry_created, hist
    <3>4. QED
      BY <3>1, <3>2, <3>3 DEF RInv, DueInstalled, Bcs
  <2>2. QED
    BY <1>1, <2>1
    DEF on_entry_created, locals, loop, hist, RInv, Bcs, HoldsBc, NoOrphanBroadcaster,
        EntryOfItsKey, OneCreator, CreatorProgress, AtMostOnce, OneRemover,
        RemoverProgress, RemovedAtMostOnce
<1>2. CASE on_entry_removed
  <2>1. RegistryTypeOK'
    BY <1>2, RegistryAssumption
    DEF on_entry_removed, locals, loop, hist, RInv, RegistryTypeOK, Bcs
  <2>2. QED
    BY <1>2, <2>1
    DEF on_entry_removed, locals, loop, hist, RInv, Bcs, HoldsBc, NoOrphanBroadcaster,
        EntryOfItsKey, OneCreator, DueInstalled, CreatorProgress, AtMostOnce, OneRemover,
        RemoverProgress, RemovedAtMostOnce
<1>3. ASSUME NEW t \in Threads, Step(t) PROVE RInv'
  BY <1>3, LockForInsertStep, InsertStep, FindRacingStep, SnapshotCreatedStep,
     FireCreatedStep, ReturnCreatedStep, SnapshotRemovedStep, FireRemovedStep,
     ReturnRemovedStep, EmitAndDropStep
  DEF Step
<1>4. ASSUME NEW t \in Threads, NEW k \in Keys, RemoveAbsent(t, k) PROVE RInv'
  <2>1. RegistryTypeOK'
    <3>1. calls' \in 0..MaxCalls /\ UNCHANGED <<inner, writer, callbacks, removed_callbacks, locals, hist>>
      BY <1>4, RegistryAssumption DEF RemoveAbsent, RInv, RegistryTypeOK
    <3>2. QED
      BY <3>1 DEF locals, loop, hist, RInv, RegistryTypeOK, Bcs
  <2>2. QED
    BY <1>4, <2>1
    DEF RemoveAbsent, locals, loop, hist, RInv, Bcs, HoldsBc, NoOrphanBroadcaster,
        EntryOfItsKey, OneCreator, DueInstalled, CreatorProgress, AtMostOnce, OneRemover,
        RemoverProgress, RemovedAtMostOnce
<1>5. CASE UNCHANGED registryVars
  <2>1. RegistryTypeOK'
    BY <1>5 DEF registryVars, locals, loop, hist, RInv, Bcs, RegistryTypeOK
  <2>2. QED
    BY <1>5, <2>1
    DEF registryVars, locals, loop, hist, RInv, Bcs, HoldsBc, NoOrphanBroadcaster, EntryOfItsKey,
        OneCreator, DueInstalled, CreatorProgress, AtMostOnce, OneRemover, RemoverProgress,
        RemovedAtMostOnce
<1>6. QED
  BY <1>1, <1>2, <1>3, <1>4, <1>5, LookUpStep, RemoveEntryStep DEF RegistryNext

\* The inductive invariant holds in every reachable state.
THEOREM RegistryInvariance == RegistrySpec => []RInv
  BY InitRInv, StepRInv, PTL DEF RegistrySpec

\* The registry and the calls in progress are always well-typed.
THEOREM RegistryTypeCorrect == RegistrySpec => []RegistryTypeOK
<1>1. RInv => RegistryTypeOK
  BY DEF RInv
<1>2. QED
  BY <1>1, RegistryInvariance, PTL

\* A broadcaster ever made is its key's entry until the one remove of it, so
\* callers racing on one key share one broadcaster.
THEOREM NoOrphans == RegistrySpec => []NoOrphanBroadcaster
<1>1. RInv => NoOrphanBroadcaster
  BY DEF RInv
<1>2. QED
  BY <1>1, RegistryInvariance, PTL

\* Creation callbacks run exactly once per broadcaster.
THEOREM CreationOnce == RegistrySpec => []CreatedExactlyOnce
<1>1. RInv => CreatedExactlyOnce
  <2> SUFFICES ASSUME RInv PROVE CreatedExactlyOnce
    OBVIOUS
  <2>1. \A b \in Bcs, c \in Cbs : fired[b][c] <= 1
    BY DEF RInv, AtMostOnce
  <2>2. QED
    BY <2>1 DEF RInv, CreatorProgress, CreatedExactlyOnce
<1>2. QED
  BY <1>1, RegistryInvariance, PTL

\* What a removing call owes: its snapshot will hold every callback that was
\* installed when the entry was taken out, and what it has passed has run.
RemoverDue ==
  \A t \in Threads :
    /\ pc[t] = "removed" => rdue[bc[t]] \subseteq 1..removed_callbacks
    /\ pc[t] = "unfiring" =>
         \A c \in rdue[bc[t]] : c <= upto[t] /\ (c < at[t] => rfired[bc[t]][c] = 1)

\* A broadcaster no removing call works on is owed nothing.
RemovedDone ==
  \A b \in Bcs : \/ \E t \in Threads : Unhooking(t, b)
                 \/ \A c \in rdue[b] : rfired[b][c] = 1

\* The initial states satisfy both.
LEMMA InitHooks == RegistryInit => RemoverDue /\ RemovedDone
  BY DEF RegistryInit, RemoverDue, RemovedDone, Bcs

\* A step that leaves the removing calls alone preserves both.
LEMMA QuietHooks ==
  ASSUME RInv, RemoverDue, RemovedDone,
         UNCHANGED <<made, rdue, rfired>>,
         removed_callbacks' \in {removed_callbacks, removed_callbacks + 1},
         \A u \in Threads : pc[u] \in Removing \/ pc'[u] \in Removing =>
           pc'[u] = pc[u] /\ bc'[u] = bc[u] /\ at'[u] = at[u] /\ upto'[u] = upto[u]
  PROVE  RemoverDue' /\ RemovedDone'
<1>1. 1..removed_callbacks \subseteq 1..removed_callbacks'
  BY DEF RInv, RegistryTypeOK
<1>2. RemoverDue'
  BY <1>1 DEF RemoverDue, Removing
<1>3. RemovedDone'
  <2> SUFFICES ASSUME NEW b \in Bcs, ~ \E u \in Threads : Unhooking(u, b)'
               PROVE  \A c \in rdue[b] : rfired[b][c] = 1
    BY DEF RemovedDone, Bcs
  <2>1. ASSUME NEW u \in Threads PROVE ~Unhooking(u, b)
    BY <2>1 DEF Unhooking, Removing
  <2>2. QED
    BY <2>1 DEF RemovedDone
<1>4. QED
  BY <1>2, <1>3

\* Inserting a new broadcaster preserves both: nothing is owed for it.
LEMMA InsertHooks ==
  ASSUME RInv, RemoverDue, RemovedDone, NEW t \in Threads, Insert(t)
  PROVE  RemoverDue' /\ RemovedDone'
<1> USE RegistryAssumption
<1>0. PICK n \in Nat : n = made + 1
  BY DEF RInv, RegistryTypeOK
<1>1. Bcs' = Bcs \cup {n} /\ n \notin Bcs
  BY <1>0 DEF RInv, RegistryTypeOK, Insert, Create, Bcs
<1>2. /\ pc[t] = "locked" /\ pc' = [pc EXCEPT ![t] = "created"] /\ bc' = [bc EXCEPT ![t] = n]
      /\ UNCHANGED <<removed_callbacks, at, upto>>
  BY <1>0 DEF Insert, Create, Goto, loop
<1>3. /\ rdue' = [b \in Bcs' |-> IF b \in Bcs THEN rdue[b] ELSE {}]
      /\ rfired' = [b \in Bcs' |-> IF b \in Bcs THEN rfired[b] ELSE [c \in Cbs |-> 0]]
  BY <1>0, <1>1 DEF Insert, Create, Grow, Bcs
<1>4. ASSUME NEW u \in Threads, pc[u] \in Removing \/ pc'[u] \in Removing
      PROVE  /\ u # t /\ pc'[u] = pc[u] /\ bc'[u] = bc[u] /\ bc[u] \in Bcs
             /\ rdue'[bc[u]] = rdue[bc[u]] /\ rfired'[bc[u]] = rfired[bc[u]]
  BY <1>1, <1>2, <1>3, <1>4 DEF RInv, RegistryTypeOK, HoldsBc, Removing
<1>5. RemoverDue'
  BY <1>2, <1>4 DEF RemoverDue, Removing
<1>6. RemovedDone'
  <2> SUFFICES ASSUME NEW b \in Bcs', ~ \E u \in Threads : Unhooking(u, b)'
               PROVE  \A c \in rdue'[b] : rfired'[b][c] = 1
    BY DEF RemovedDone
  <2>1. CASE b \in Bcs
    <3>1. ASSUME NEW u \in Threads PROVE ~Unhooking(u, b)
      BY <1>4, <3>1 DEF Unhooking, Removing
    <3>2. QED
      BY <1>3, <2>1, <3>1 DEF RemovedDone
  <2>2. CASE b \notin Bcs
    BY <1>3, <2>2
  <2>3. QED
    BY <2>1, <2>2
<1>7. QED
  BY <1>5, <1>6

\* Taking an entry out preserves both: the removing call owes what is installed.
LEMMA RemoveEntryHooks ==
  ASSUME RInv, RemoverDue, RemovedDone, NEW t \in Threads, NEW k \in Keys, RemoveEntry(t, k)
  PROVE  RemoverDue' /\ RemovedDone'
<1>1. inner[k] \in Bcs /\ removals[inner[k]] = 0
  BY RegistryAssumption DEF RemoveEntry, RInv, RegistryTypeOK, NoOrphanBroadcaster, EntryOfItsKey, Bcs
<1>2. /\ pc[t] = "idle" /\ pc' = [pc EXCEPT ![t] = "removed"] /\ bc' = [bc EXCEPT ![t] = inner[k]]
      /\ rdue' = [rdue EXCEPT ![inner[k]] = 1..removed_callbacks]
      /\ UNCHANGED <<made, rfired, removed_callbacks, at, upto>>
  BY DEF RemoveEntry, Goto, loop
<1>3. pc'[t] = "removed" /\ bc'[t] = inner[k] /\ rdue'[inner[k]] = 1..removed_callbacks
  BY <1>1, <1>2 DEF RInv, RegistryTypeOK
<1>4. ASSUME NEW u \in Threads, u # t, pc[u] \in Removing \/ pc'[u] \in Removing
      PROVE  /\ pc'[u] = pc[u] /\ bc'[u] = bc[u] /\ bc[u] # inner[k]
             /\ rdue'[bc[u]] = rdue[bc[u]]
  BY <1>1, <1>2, <1>4 DEF RInv, RegistryTypeOK, HoldsBc, RemoverProgress, Removing
<1>5. RemoverDue'
  <2>1. ASSUME NEW u \in Threads, u # t PROVE RemoverDue!(u)'
    <3>1. RemoverDue!(u)
      BY DEF RemoverDue
    <3>2. QED
      BY <1>2, <1>4, <2>1, <3>1 DEF Removing
  <2>2. RemoverDue!(t)'
    BY <1>2, <1>3
  <2>3. QED
    BY <2>1, <2>2 DEF RemoverDue
<1>6. RemovedDone'
  <2> SUFFICES ASSUME NEW b \in Bcs, ~ \E u \in Threads : Unhooking(u, b)'
               PROVE  \A c \in rdue'[b] : rfired'[b][c] = 1
    BY <1>2 DEF RemovedDone, Bcs
  <2>1. b # inner[k]
    BY <1>3 DEF Unhooking
  <2>2. ASSUME NEW u \in Threads PROVE ~Unhooking(u, b)
    BY <1>2, <1>4, <2>2 DEF Unhooking, Removing
  <2>3. QED
    BY <1>2, <2>1, <2>2 DEF RemovedDone, RInv, RegistryTypeOK
<1>7. QED
  BY <1>5, <1>6

\* Taking the snapshot of the removal callbacks preserves both.
LEMMA SnapshotRemovedHooks ==
  ASSUME RInv, RemoverDue, RemovedDone, NEW t \in Threads, SnapshotRemoved(t)
  PROVE  RemoverDue' /\ RemovedDone'
<1>1. /\ pc[t] = "removed" /\ pc' = [pc EXCEPT ![t] = "unfiring"]
      /\ at' = [at EXCEPT ![t] = 1] /\ upto' = [upto EXCEPT ![t] = removed_callbacks]
      /\ UNCHANGED <<made, rdue, rfired, removed_callbacks, bc>>
  BY DEF SnapshotRemoved, Goto, hist
<1>2. /\ pc \in [Threads -> Labels] /\ at \in [Threads -> Nat \ {0}]
      /\ upto \in [Threads -> 0..MaxCbs] /\ removed_callbacks \in Nat
  BY DEF RInv, RegistryTypeOK
<1>3. RemoverDue'
  <2>1. ASSUME NEW u \in Threads, u # t PROVE RemoverDue!(u)'
    BY <1>1, <1>2, <2>1 DEF RemoverDue
  <2>2. RemoverDue!(t)'
    <3>1. pc'[t] = "unfiring" /\ at'[t] = 1 /\ upto'[t] = removed_callbacks
      BY <1>1, <1>2
    <3>2. rdue[bc[t]] \subseteq 1..removed_callbacks
      BY <1>1 DEF RemoverDue
    <3>3. QED
      BY <1>1, <1>2, <3>1, <3>2
  <2>3. QED
    BY <2>1, <2>2 DEF RemoverDue
<1>4. \A u \in Threads, b \in Bcs : Unhooking(u, b)' <=> Unhooking(u, b)
  BY <1>1, <1>2 DEF Unhooking
<1>5. RemovedDone'
  BY <1>1, <1>4 DEF RemovedDone, Bcs
<1>6. QED
  BY <1>3, <1>5

\* Running a removal callback preserves both.
LEMMA FireRemovedHooks ==
  ASSUME RInv, RInv', RemoverDue, RemovedDone, NEW t \in Threads, FireRemoved(t)
  PROVE  RemoverDue' /\ RemovedDone'
<1>1. /\ pc[t] = "unfiring" /\ at[t] <= upto[t]
      /\ at' = [at EXCEPT ![t] = @ + 1]
      /\ rfired' = [rfired EXCEPT ![bc[t]][at[t]] = @ + 1]
      /\ UNCHANGED <<made, rdue, removed_callbacks, pc, bc, upto>>
  BY DEF FireRemoved
<1>2. /\ at \in [Threads -> Nat \ {0}] /\ upto \in [Threads -> 0..MaxCbs] /\ MaxCbs \in Nat
      /\ rfired \in [Bcs -> [Cbs -> Nat]] /\ rdue \in [Bcs -> SUBSET Cbs]
  BY RegistryAssumption DEF RInv, RegistryTypeOK
<1>3. bc[t] \in Bcs /\ at[t] \in Cbs /\ rfired[bc[t]][at[t]] = 0
  BY <1>1, <1>2 DEF RInv, HoldsBc, RemoverProgress, Removing, Cbs
<1>4. \A b \in Bcs, c \in Cbs :
        rfired'[b][c] = IF b = bc[t] /\ c = at[t] THEN 1 ELSE rfired[b][c]
  BY <1>1, <1>2, <1>3
<1>5. RemoverDue'
  <2>1. ASSUME NEW u \in Threads, u # t PROVE RemoverDue!(u)'
    <3>1. ASSUME pc[u] = "unfiring" PROVE bc[u] \in Bcs /\ bc[u] # bc[t]
      BY <1>1, <2>1, <3>1 DEF RInv, HoldsBc, OneRemover, Removing
    <3>2. ASSUME pc[u] = "unfiring", NEW c \in rdue[bc[u]] PROVE rfired'[bc[u]][c] = rfired[bc[u]][c]
      BY <1>2, <1>4, <3>1, <3>2
    <3>3. at'[u] = at[u]
      BY <1>1, <1>2, <2>1
    <3>4. RemoverDue!(u)
      BY DEF RemoverDue
    <3>5. QED
      BY <1>1, <3>2, <3>3, <3>4
  <2>2. RemoverDue!(t)'
    <3>1. at'[t] = at[t] + 1 /\ at[t] \in Nat /\ Cbs \subseteq Nat
      BY <1>1, <1>2 DEF Cbs
    <3>2. ASSUME NEW c \in rdue[bc[t]]
          PROVE  c <= upto[t] /\ (c < at[t] + 1 => rfired'[bc[t]][c] = 1)
      <4>1. c \in Cbs /\ c \in Nat /\ c <= upto[t] /\ (c < at[t] => rfired[bc[t]][c] = 1)
        BY <1>1, <1>2, <1>3, <3>1 DEF RemoverDue
      <4>2. CASE c = at[t]
        BY <1>3, <1>4, <4>1, <4>2
      <4>3. CASE c # at[t]
        BY <1>3, <1>4, <3>1, <4>1, <4>3
      <4>4. QED
        BY <4>2, <4>3
    <3>3. QED
      BY <1>1, <3>1, <3>2
  <2>3. QED
    BY <2>1, <2>2 DEF RemoverDue
<1>6. RemovedDone'
  <2> SUFFICES ASSUME NEW b \in Bcs, ~ \E u \in Threads : Unhooking(u, b)
               PROVE  \A c \in rdue[b] : rfired'[b][c] = 1
    BY <1>1 DEF RemovedDone, Bcs, Unhooking
  <2>1. b # bc[t]
    BY <1>1 DEF Unhooking
  <2>2. QED
    BY <1>2, <1>4, <2>1 DEF RemovedDone
<1>7. QED
  BY <1>5, <1>6

\* Returning from remove preserves both: its loop has passed every callback.
LEMMA ReturnRemovedHooks ==
  ASSUME RInv, RemoverDue, RemovedDone, NEW t \in Threads, ReturnRemoved(t)
  PROVE  RemoverDue' /\ RemovedDone'
<1>1. /\ pc[t] = "unfiring" /\ at[t] > upto[t]
      /\ pc' = [pc EXCEPT ![t] = "idle"]
      /\ UNCHANGED <<made, rdue, rfired, removed_callbacks, bc, at, upto>>
  BY DEF ReturnRemoved, Goto, hist, loop
<1>2. /\ pc \in [Threads -> Labels] /\ at[t] \in Nat /\ upto[t] \in Nat
      /\ rdue \in [Bcs -> SUBSET Cbs] /\ Cbs \subseteq Nat /\ bc[t] \in Bcs
  BY <1>1, RegistryAssumption DEF RInv, RegistryTypeOK, HoldsBc, Removing, Cbs
<1>3. RemoverDue'
  BY <1>1, <1>2 DEF RemoverDue
<1>4. \A c \in rdue[bc[t]] : rfired[bc[t]][c] = 1
  BY <1>1, <1>2 DEF RemoverDue
<1>5. RemovedDone'
  <2> SUFFICES ASSUME NEW b \in Bcs, ~ \E u \in Threads : Unhooking(u, b)'
               PROVE  \A c \in rdue[b] : rfired[b][c] = 1
    BY <1>1 DEF RemovedDone, Bcs
  <2>1. CASE b = bc[t]
    BY <1>4, <2>1
  <2>2. CASE b # bc[t]
    <3>1. ASSUME NEW u \in Threads PROVE ~Unhooking(u, b)
      BY <1>1, <1>2, <2>2, <3>1 DEF Unhooking
    <3>2. QED
      BY <3>1 DEF RemovedDone
  <2>3. QED
    BY <2>1, <2>2
<1>6. QED
  BY <1>3, <1>5

\* Every step, stuttering included, preserves both.
LEMMA StepHooks ==
  RInv /\ RInv' /\ RemoverDue /\ RemovedDone /\ [RegistryNext]_registryVars
    => RemoverDue' /\ RemovedDone'
<1> SUFFICES ASSUME RInv, RInv', RemoverDue, RemovedDone, [RegistryNext]_registryVars
             PROVE  RemoverDue' /\ RemovedDone'
  OBVIOUS
<1> DEFINE Quiet == /\ UNCHANGED <<made, rdue, rfired, removed_callbacks>>
                     /\ \A u \in Threads : pc[u] \in Removing \/ pc'[u] \in Removing =>
                          pc'[u] = pc[u] /\ bc'[u] = bc[u] /\ at'[u] = at[u] /\ upto'[u] = upto[u]
<1>1. CASE on_entry_created \/ on_entry_removed \/ UNCHANGED registryVars
  BY <1>1, QuietHooks DEF on_entry_created, on_entry_removed, registryVars, locals, loop, hist
<1>2. Quiet => RemoverDue' /\ RemovedDone'
  BY QuietHooks
<1>3. pc \in [Threads -> Labels] /\ bc \in [Threads -> Bcs \cup {None}]
  BY DEF RInv, RegistryTypeOK
<1>4. /\ at \in [Threads -> Nat \ {0}] /\ upto \in [Threads -> 0..MaxCbs]
  BY DEF RInv, RegistryTypeOK
<1> HIDE DEF Quiet
<1>5. ASSUME NEW t \in Threads PROVE LockForInsert(t) => Quiet
  BY <1>3 DEF Quiet, LockForInsert, Goto, hist, loop, Removing
<1>6. ASSUME NEW t \in Threads PROVE FindRacing(t) => Quiet
  BY <1>3 DEF Quiet, FindRacing, Goto, hist, loop, Removing
<1>7. ASSUME NEW t \in Threads PROVE SnapshotCreated(t) => Quiet
  BY <1>3, <1>4 DEF Quiet, SnapshotCreated, Goto, hist, Removing
<1>8. ASSUME NEW t \in Threads PROVE FireCreated(t) => Quiet
  BY <1>3, <1>4 DEF Quiet, FireCreated, Removing
<1>9. ASSUME NEW t \in Threads PROVE ReturnCreated(t) => Quiet
  BY <1>3 DEF Quiet, ReturnCreated, Goto, hist, loop, Removing
<1>10. ASSUME NEW t \in Threads PROVE EmitAndDrop(t) => Quiet
  BY <1>3 DEF Quiet, EmitAndDrop, Goto, loop, Removing
<1>11. ASSUME NEW t \in Threads, NEW k \in Keys PROVE LookUp(t, k) \/ RemoveAbsent(t, k) => Quiet
  BY <1>3 DEF Quiet, LookUp, RemoveAbsent, Goto, hist, loop, locals, Removing
<1>12. QED
  BY <1>1, <1>2, <1>5, <1>6, <1>7, <1>8, <1>9, <1>10, <1>11, InsertHooks, RemoveEntryHooks,
     SnapshotRemovedHooks, FireRemovedHooks, ReturnRemovedHooks
  DEF RegistryNext, Step

\* Removal callbacks run only after a successful remove, at most once, and all
\* that were installed have run when the remove returns (registry.rs remove).
THEOREM RemovalOnce == RegistrySpec => []RemovedExactlyOnce
<1>1. RInv /\ RemovedDone => RemovedExactlyOnce
  BY DEF RInv, RemovedDone, RemovedExactlyOnce
<1>2. RegistrySpec => [](RemoverDue /\ RemovedDone)
  BY InitHooks, StepHooks, RegistryInvariance, PTL DEF RegistrySpec
<1>3. QED
  BY <1>1, <1>2, RegistryInvariance, PTL

\* Callbacks of both kinds run exactly once per broadcaster (get_or_create,
\* remove), however many threads race on the key.
THEOREM CallbacksOnce == RegistrySpec => []CallbacksExactlyOnce
<1>1. CreatedExactlyOnce /\ RemovedExactlyOnce => CallbacksExactlyOnce
  BY DEF CallbacksExactlyOnce
<1>2. QED
  BY <1>1, CreationOnce, RemovalOnce, PTL

\* The creating thread never emits ahead of the drains: when its handle is
\* returned, every callback that was installed has subscribed.
THEOREM CreatorBehindDrains == RegistrySpec => CreatorNeverAhead
<1> DEFINE P == \A t \in Threads : pc[t] = "owning" /\ pc'[t] = "idle" => late' = late
<1>1. RInv /\ [RegistryNext]_registryVars => [P]_registryVars
  <2> SUFFICES ASSUME RInv, RegistryNext, NEW t \in Threads, pc[t] = "owning", pc'[t] = "idle"
               PROVE  late' = late
    OBVIOUS
  <2>1. CASE \E u \in Threads : EmitAndDrop(u)
    <3>1. PICK u \in Threads : EmitAndDrop(u)
      BY <2>1
    <3>2. u = t
      BY <3>1 DEF EmitAndDrop, Goto, RInv, RegistryTypeOK
    <3>3. \A d \in due[bc[t]] : fired[bc[t]][d] = 1
      BY DEF RInv, CreatorProgress
    <3>4. QED
      BY <3>1, <3>2, <3>3 DEF EmitAndDrop
  <2>2. CASE ~ \E u \in Threads : EmitAndDrop(u)
    BY <2>2
    DEF RegistryNext, Step, on_entry_created, on_entry_removed, hist, LookUp, LockForInsert,
        Insert, Create, FindRacing, SnapshotCreated, FireCreated, ReturnCreated,
        RemoveAbsent, RemoveEntry, SnapshotRemoved, FireRemoved, ReturnRemoved
  <2>3. QED
    BY <2>1, <2>2
<1>2. QED
  BY <1>1, RegistryInvariance, PTL DEF RegistrySpec, CreatorNeverAhead
=============================================================================
