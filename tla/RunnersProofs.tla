-------------------------- MODULE RunnersProofs ---------------------------
(***************************************************************************)
(* TLAPS proofs about the tasks the server runs on its broadcasts: the     *)
(* agents of AgentRunner, for any agents, keys and requests, the ladder of *)
(* TranscodeLadder, for any renditions and any depth, and the worker of    *)
(* TranscodeBackends, for any encoder, queue and source.                   *)
(*                                                                         *)
(* OneTrackedDrain follows from the second look of InsertIfVacant: an      *)
(* empty slot means that no drain of that agent and key runs.  For         *)
(* NoSourceBetweenTheCracks, whoever still owes a slot has to be named:    *)
(* the callback that has not copied the factories or not reached the       *)
(* agent, or the add_agent that has not visited the key (Owed).            *)
(***************************************************************************)
EXTENDS Runners, SequenceTheorems, TLAPS

\* A key is registered exactly while its publisher is between creation and
\* removal.
PubEntry ==
  \A k \in Keys : pub[k] = "off" <=> entry[k] = 0

\* A request in progress names its agent, and an insert in hand its source.
RequestShape ==
  \A d \in Admins :
    /\ adm[d].pc # "idle" => adm[d].agent \in Agents
    /\ adm[d].pc = "insert" => adm[d].key \in Keys /\ adm[d].inc \in Incs

\* The inductive invariant behind OneTrackedDrain.
AInv == TypeOK /\ PubEntry /\ RequestShape /\ OneTrackedDrain

-----------------------------------------------------------------------------

LEMMA InitAInv == Init => AInv
  <1> SUFFICES ASSUME Init PROVE AInv
    OBVIOUS
  <1>1. TypeOK
    BY RunnerAssumption DEF Init, TypeOK, Requests, Request, Idle, Incs, Phases
  <1>2. PubEntry /\ RequestShape
    BY DEF Init, PubEntry, RequestShape, Idle, Request
  <1>3. OneTrackedDrain
    <2> SUFFICES ASSUME NEW a \in Agents, NEW k \in Keys, NEW i \in Incs
                 PROVE  Running(a, k, i) = 0
      BY DEF OneTrackedDrain
    <2>1. drains[<<a, k, i>>] = [p \in Phases |-> 0]
      BY DEF Init
    <2> QED BY <2>1 DEF Running, Phases
  <1> QED BY <1>1, <1>2, <1>3 DEF AInv

\* The counters of one drain are natural numbers.
LEMMA DrainType ==
  ASSUME TypeOK, NEW a \in Agents, NEW k \in Keys, NEW i \in Incs
  PROVE  /\ drains[<<a, k, i>>]["starting"] \in Nat
         /\ drains[<<a, k, i>>]["draining"] \in Nat
         /\ drains[<<a, k, i>>] \in [Phases -> Nat]
         /\ Running(a, k, i) \in Nat
  <1>1. drains[<<a, k, i>>] \in [Phases -> Nat]
    BY DEF TypeOK
  <1> QED BY <1>1 DEF Phases, Running

\* The task of a slot runs, or panicked in on_start: it did not come to its end.
Manned(a, k, i) == Running(a, k, i) > 0 \/ Failed(a, k, i)

\* spawn_for's insert keeps the task map and the drains in step.
LEMMA InsertKeeps ==
  ASSUME TypeOK, OneTrackedDrain,
         NEW a \in Agents, NEW k \in Keys, NEW i \in Incs, InsertIfVacant(a, k, i)
  PROVE  /\ tasks' \in [Agents -> [Keys -> 0..MaxInc]]
         /\ drains' \in [Agents \X Keys \X Incs -> [Phases -> Nat]]
         /\ OneTrackedDrain'
         /\ tasks'[a][k] # 0
         /\ \A b \in Agents, l \in Keys : tasks[b][l] # 0 => tasks'[b][l] # 0
         /\ \A b \in Agents, l \in Keys :
              \/ tasks'[b][l] = tasks[b][l]
              \/ b = a /\ l = k /\ tasks'[a][k] = i /\ Manned(a, k, i)'
         /\ \A b \in Agents, l \in Keys, j \in Incs : Manned(b, l, j) => Manned(b, l, j)'
  <1>1. CASE tasks[a][k] # 0
    BY <1>1 DEF InsertIfVacant, TypeOK, OneTrackedDrain, Running, Manned, Failed
  <1>2. CASE tasks[a][k] = 0
    <2>1. /\ tasks' = [tasks EXCEPT ![a][k] = i]
          /\ drains' = [drains EXCEPT ![<<a, k, i>>]["starting"] = @ + 1]
      BY <1>2 DEF InsertIfVacant
    <2>2. <<a, k, i>> \in Agents \X Keys \X Incs /\ i \in 1..MaxInc
      BY DEF Incs
    <2>3. tasks \in [Agents -> [Keys -> 0..MaxInc]]
      BY DEF TypeOK
    <2>4. drains \in [Agents \X Keys \X Incs -> [Phases -> Nat]]
      BY DEF TypeOK
    <2>5. /\ tasks' \in [Agents -> [Keys -> 0..MaxInc]]
          /\ tasks'[a][k] = i
          /\ \A b \in Agents, l \in Keys : <<b, l>> # <<a, k>> => tasks'[b][l] = tasks[b][l]
      BY <2>1, <2>2, <2>3, RunnerAssumption
    <2>6. /\ drains'[<<a, k, i>>] = [drains[<<a, k, i>>] EXCEPT !["starting"] = @ + 1]
          /\ \A d \in Agents \X Keys \X Incs : d # <<a, k, i>> => drains'[d] = drains[d]
          /\ DOMAIN drains' = Agents \X Keys \X Incs
          /\ drains' = [d \in Agents \X Keys \X Incs |-> drains'[d]]
      BY <2>1, <2>2, <2>4
    <2>7. drains'[<<a, k, i>>] \in [Phases -> Nat]
      BY <2>6, DrainType DEF Phases
    <2>8. drains' \in [Agents \X Keys \X Incs -> [Phases -> Nat]]
      <3>1. \A d \in Agents \X Keys \X Incs : drains'[d] \in [Phases -> Nat]
        BY <2>6, <2>7, <2>4
      <3> QED BY <3>1, <2>6
    <2>9. OneTrackedDrain'
      <3> SUFFICES ASSUME NEW b \in Agents, NEW l \in Keys, NEW j \in Incs,
                          Running(b, l, j)' > 0
                   PROVE  Running(b, l, j)' = 1 /\ tasks'[b][l] = j
        BY DEF OneTrackedDrain
      <3>1. CASE b = a /\ l = k /\ j = i
        <4>1. Running(a, k, i) = 0
          BY <1>2, <2>2, DrainType DEF OneTrackedDrain, Incs
        <4>2. /\ drains[<<a, k, i>>]["starting"] = 0
              /\ drains[<<a, k, i>>]["draining"] = 0
          BY <4>1, DrainType DEF Running
        <4>3. /\ drains'[<<a, k, i>>]["starting"] = 1
              /\ drains'[<<a, k, i>>]["draining"] = 0
          BY <4>2, <2>6, DrainType DEF Phases
        <4> QED BY <4>3, <3>1, <2>5 DEF Running
      <3>2. CASE b = a /\ l = k /\ j # i
        <4>0. j # 0
          BY DEF Incs
        <4> Running(a, k, j) \in Nat
          BY DrainType
        <4>1. Running(a, k, j) = 0
          BY <4>0, <1>2 DEF OneTrackedDrain
        <4>2. <<a, k, j>> \in Agents \X Keys \X Incs /\ <<a, k, j>> # <<a, k, i>>
          BY <3>2
        <4>3. drains'[<<a, k, j>>] = drains[<<a, k, j>>]
          BY <4>2, <2>6
        <4>4. Running(b, l, j)' = 0
          BY <4>1, <4>3, <3>2 DEF Running
        <4> QED BY <4>4
      <3>3. CASE <<b, l>> # <<a, k>>
        <4>1. <<b, l, j>> \in Agents \X Keys \X Incs /\ <<b, l, j>> # <<a, k, i>>
          BY <3>3
        <4>2. drains'[<<b, l, j>>] = drains[<<b, l, j>>]
          BY <4>1, <2>6
        <4>3. Running(b, l, j)' = Running(b, l, j)
          BY <4>2 DEF Running
        <4> QED BY <4>3, <2>5, <3>3 DEF OneTrackedDrain
      <3> QED BY <3>1, <3>2, <3>3
    <2>10. tasks'[a][k] # 0 /\ \A b \in Agents, l \in Keys : tasks[b][l] # 0 => tasks'[b][l] # 0
      BY <2>5, <2>2
    <2>11. Manned(a, k, i)'
      <3>1. /\ drains'[<<a, k, i>>]["starting"] = drains[<<a, k, i>>]["starting"] + 1
            /\ drains'[<<a, k, i>>]["draining"] = drains[<<a, k, i>>]["draining"]
        BY <2>6, DrainType DEF Phases
      <3> QED BY <3>1, DrainType DEF Manned, Running
    <2>12. ASSUME NEW b \in Agents, NEW l \in Keys, NEW j \in Incs, Manned(b, l, j)
           PROVE  Manned(b, l, j)'
      <3>1. CASE <<b, l, j>> = <<a, k, i>>
        BY <2>11, <3>1
      <3>2. CASE <<b, l, j>> # <<a, k, i>>
        BY <2>6, <2>12, <3>2 DEF Manned, Running, Failed
      <3> QED BY <3>1, <3>2
    <2> QED BY <2>5, <2>8, <2>9, <2>10, <2>11, <2>12
  <1> QED BY <1>1, <1>2

-----------------------------------------------------------------------------
(* Preservation.                                                           *)

\* Steps that touch neither the task map nor the drains.
LEMMA QuietKeeps ==
  ASSUME OneTrackedDrain, UNCHANGED <<tasks, drains>>
  PROVE  OneTrackedDrain'
  BY DEF OneTrackedDrain, Running

\* One step of a drain task: it moves on, panics or ends, or its abort lands.
LEMMA DriveKeeps ==
  ASSUME TypeOK, OneTrackedDrain,
         NEW a \in Agents, NEW k \in Keys, NEW i \in Incs,
         Drive(a, k, i) \/ AbortTakesEffect(a, k, i)
  PROVE  /\ drains' \in [Agents \X Keys \X Incs -> [Phases -> Nat]]
         /\ OneTrackedDrain'
         /\ UNCHANGED <<entry, inc, factories, tasks, pub, todo, cur, adm>>
         /\ \A b \in Agents, l \in Keys, j \in Incs :
              Manned(b, l, j) => Manned(b, l, j)' \/ entry[l] # j
  <1>1. <<a, k, i>> \in Agents \X Keys \X Incs
    OBVIOUS
  <1>2. drains \in [Agents \X Keys \X Incs -> [Phases -> Nat]]
    BY DEF TypeOK
  <1>3. UNCHANGED <<entry, inc, factories, tasks, pub, todo, cur, adm>>
    BY DEF Drive, StartOk, StartPanic, DrainEnd, AbortTakesEffect
  <1>4. PICK old \in [Phases -> Nat] : old = drains[<<a, k, i>>]
    BY <1>1, <1>2
  <1> DEFINE Moves(new) ==
        /\ new["starting"] + new["draining"] <= old["starting"] + old["draining"]
        /\ \/ new["starting"] + new["draining"] = old["starting"] + old["draining"] /\ new["failed"] = old["failed"]
           \/ new["failed"] > 0
           \/ entry[k] # i
        /\ drains' = [drains EXCEPT ![<<a, k, i>>] = new]
  <1>5. \E new \in [Phases -> Nat] : Moves(new)
    <2>1. CASE StartOk(a, k, i)
      <3>1. old["starting"] > 0
        BY <2>1, <1>4 DEF StartOk
      <3>2. [old EXCEPT !["starting"] = @ - 1, !["draining"] = @ + 1] \in [Phases -> Nat]
        BY <3>1 DEF Phases
      <3>3. drains' = [drains EXCEPT ![<<a, k, i>>] =
                         [old EXCEPT !["starting"] = @ - 1, !["draining"] = @ + 1]]
        BY <2>1, <1>1, <1>2, <1>4 DEF StartOk, Phases
      <3> WITNESS [old EXCEPT !["starting"] = @ - 1, !["draining"] = @ + 1] \in [Phases -> Nat]
      <3> QED BY <3>1, <3>3 DEF Phases
    <2>2. CASE StartPanic(a, k, i)
      <3>1. old["starting"] > 0
        BY <2>2, <1>4 DEF StartPanic
      <3>2. [old EXCEPT !["starting"] = @ - 1, !["failed"] = @ + 1] \in [Phases -> Nat]
        BY <3>1 DEF Phases
      <3>3. drains' = [drains EXCEPT ![<<a, k, i>>] =
                         [old EXCEPT !["starting"] = @ - 1, !["failed"] = @ + 1]]
        BY <2>2, <1>1, <1>2, <1>4 DEF StartPanic, Phases
      <3> WITNESS [old EXCEPT !["starting"] = @ - 1, !["failed"] = @ + 1] \in [Phases -> Nat]
      <3> QED BY <3>1, <3>3 DEF Phases
    <2>3. CASE DrainEnd(a, k, i)
      <3>1. old["draining"] > 0 /\ entry[k] # i
        BY <2>3, <1>4 DEF DrainEnd, Closed
      <3>2. [old EXCEPT !["draining"] = @ - 1] \in [Phases -> Nat]
        BY <3>1 DEF Phases
      <3>3. drains' = [drains EXCEPT ![<<a, k, i>>] = [old EXCEPT !["draining"] = @ - 1]]
        BY <2>3, <1>1, <1>2, <1>4 DEF DrainEnd
      <3> WITNESS [old EXCEPT !["draining"] = @ - 1] \in [Phases -> Nat]
      <3> QED BY <3>1, <3>3 DEF Phases
    <2>4. CASE AbortTakesEffect(a, k, i)
      <3>1. old["aborting"] > 0
        BY <2>4, <1>4 DEF AbortTakesEffect, Aborting
      <3>2. [old EXCEPT !["aborting"] = @ - 1] \in [Phases -> Nat]
        BY <3>1 DEF Phases
      <3>3. drains' = [drains EXCEPT ![<<a, k, i>>] = [old EXCEPT !["aborting"] = @ - 1]]
        BY <2>4, <1>1, <1>2, <1>4 DEF AbortTakesEffect
      <3> WITNESS [old EXCEPT !["aborting"] = @ - 1] \in [Phases -> Nat]
      <3> QED BY <3>1, <3>3 DEF Phases
    <2> QED BY <2>1, <2>2, <2>3, <2>4 DEF Drive
  <1>6. PICK new \in [Phases -> Nat] : Moves(new)
    BY <1>5
  <1>7. /\ drains'[<<a, k, i>>] = new
        /\ \A d \in Agents \X Keys \X Incs : d # <<a, k, i>> => drains'[d] = drains[d]
    BY <1>6, <1>2, <1>1
  <1>8. drains' \in [Agents \X Keys \X Incs -> [Phases -> Nat]]
    BY <1>6, <1>2, <1>1
  <1>a. /\ new["starting"] \in Nat /\ new["draining"] \in Nat /\ new["failed"] \in Nat
        /\ old["starting"] \in Nat /\ old["draining"] \in Nat /\ old["failed"] \in Nat
    BY DEF Phases
  <1>9. OneTrackedDrain'
    <2> SUFFICES ASSUME NEW b \in Agents, NEW l \in Keys, NEW j \in Incs,
                        Running(b, l, j)' > 0
                 PROVE  Running(b, l, j)' = 1 /\ tasks'[b][l] = j
      BY DEF OneTrackedDrain
    <2>1. CASE <<b, l, j>> = <<a, k, i>>
      <3>2. Running(a, k, i) = old["starting"] + old["draining"]
        BY <1>4 DEF Running
      <3>3. Running(b, l, j)' = new["starting"] + new["draining"]
        BY <2>1, <1>7 DEF Running
      <3>4. Running(a, k, i) > 0 /\ Running(b, l, j)' <= Running(a, k, i)
        BY <1>a, <3>2, <3>3, <1>6
      <3>5. Running(a, k, i) = 1 /\ tasks[a][k] = i
        BY <3>4 DEF OneTrackedDrain
      <3>6. Running(b, l, j)' = 1
        BY <1>a, <3>3, <3>4, <3>5
      <3> QED BY <3>5, <3>6, <2>1, <1>3
    <2>2. CASE <<b, l, j>> # <<a, k, i>>
      <3>1. drains'[<<b, l, j>>] = drains[<<b, l, j>>]
        BY <2>2, <1>7
      <3>2. Running(b, l, j)' = Running(b, l, j)
        BY <3>1 DEF Running
      <3> QED BY <3>2, <1>3 DEF OneTrackedDrain
    <2> QED BY <2>1, <2>2
  <1>10. ASSUME NEW b \in Agents, NEW l \in Keys, NEW j \in Incs, Manned(b, l, j), entry[l] = j
         PROVE  Manned(b, l, j)'
    <2>1. CASE <<b, l, j>> = <<a, k, i>>
      <3>0. b = a /\ l = k /\ j = i
        BY <2>1
      <3>1. Running(a, k, i) = old["starting"] + old["draining"]
        BY <1>4 DEF Running
      <3>2. Failed(a, k, i) <=> (old["failed"] > 0)
        BY <1>4 DEF Failed
      <3>3. Manned(a, k, i) /\ entry[k] = i
        BY <1>10, <3>0
      <3>4. (old["starting"] + old["draining"] > 0) \/ (old["failed"] > 0)
        BY <3>1, <3>2, <3>3 DEF Manned
      <3>5. (new["starting"] + new["draining"] > 0) \/ (new["failed"] > 0)
        BY <1>6, <3>3, <3>4
      <3>6. Running(a, k, i)' = new["starting"] + new["draining"]
        BY <1>7 DEF Running
      <3>7. Failed(a, k, i)' <=> (new["failed"] > 0)
        BY <1>7 DEF Failed
      <3>8. Manned(a, k, i)'
        BY <3>5, <3>6, <3>7 DEF Manned
      <3> QED BY <3>0, <3>8
    <2>2. CASE <<b, l, j>> # <<a, k, i>>
      <3>1. drains'[<<b, l, j>>] = drains[<<b, l, j>>]
        BY <2>2, <1>7
      <3> QED BY <1>10, <3>1 DEF Manned, Running, Failed
    <2> QED BY <2>1, <2>2
  <1> HIDE DEF Moves
  <1> QED BY <1>3, <1>8, <1>9, <1>10

\* remove_agent's visit of one key: the slot and its drain go together.
LEMMA RemoveTaskKeeps ==
  ASSUME TypeOK, RequestShape, OneTrackedDrain,
         NEW d \in Admins, NEW k \in Keys, RemoveTask(d, k)
  PROVE  /\ tasks' \in [Agents -> [Keys -> 0..MaxInc]]
         /\ drains' \in [Agents \X Keys \X Incs -> [Phases -> Nat]]
         /\ OneTrackedDrain'
         /\ \A b \in Agents, l \in Keys :
              b # adm[d].agent => tasks'[b][l] = tasks[b][l]
         /\ \A b \in Agents, l \in Keys : tasks'[b][l] \in {0, tasks[b][l]}
         /\ \A b \in Agents, l \in Keys, j \in Incs :
              tasks'[b][l] = j /\ Manned(b, l, j) => Manned(b, l, j)'
  <1> DEFINE a == adm[d].agent
             i == tasks[a][k]
  <1>1. a \in Agents
    BY DEF RemoveTask, RequestShape
  <1>b. PICK polled \in BOOLEAN :
          /\ tasks' = [tasks EXCEPT ![a][k] = 0]
          /\ i = 0 => drains' = drains
          /\ i # 0 => drains' = [drains EXCEPT ![<<a, k, i>>] =
               [p \in Phases |-> IF p = "aborting" /\ (polled \/ @[p] > 0) THEN 1 ELSE 0]]
    BY DEF RemoveTask
  <1> DEFINE left == [p \in Phases |-> IF p = "aborting" /\ (polled \/ drains[<<a, k, i>>][p] > 0) THEN 1 ELSE 0]
  <1>c. i \in 0..MaxInc /\ MaxInc \in Nat
    BY <1>1, RunnerAssumption DEF TypeOK
  <1>2. /\ tasks' = [tasks EXCEPT ![a][k] = 0]
        /\ drains' = IF i = 0 THEN drains ELSE [drains EXCEPT ![<<a, k, i>>] = left]
        /\ left \in [Phases -> Nat] /\ left["starting"] = 0 /\ left["draining"] = 0
    BY <1>1, <1>b, <1>c DEF Phases, TypeOK, Incs
  <1> HIDE DEF a, left
  <1>3. tasks \in [Agents -> [Keys -> 0..MaxInc]] /\ i \in 0..MaxInc /\ MaxInc \in Nat
    BY <1>c DEF TypeOK
  <1>4. /\ tasks' \in [Agents -> [Keys -> 0..MaxInc]]
        /\ \A b \in Agents, l \in Keys : <<b, l>> # <<a, k>> => tasks'[b][l] = tasks[b][l]
        /\ tasks'[a][k] = 0
    BY <1>1, <1>2, <1>3
  <1>5. drains \in [Agents \X Keys \X Incs -> [Phases -> Nat]]
    BY DEF TypeOK
  <1>6. i # 0 => i \in Incs
    BY <1>3 DEF Incs
  <1> HIDE DEF i
  <1>7. drains' \in [Agents \X Keys \X Incs -> [Phases -> Nat]]
    BY <1>1, <1>2, <1>5, <1>6
  <1>8. OneTrackedDrain'
    <2> SUFFICES ASSUME NEW b \in Agents, NEW l \in Keys, NEW j \in Incs,
                        Running(b, l, j)' > 0
                 PROVE  Running(b, l, j)' = 1 /\ tasks'[b][l] = j
      BY DEF OneTrackedDrain
    <2>1. CASE i # 0 /\ <<b, l, j>> = <<a, k, i>>
      <3>1. drains'[<<b, l, j>>] = left
        BY <2>1, <1>1, <1>2, <1>5, <1>6
      <3>2. Running(b, l, j)' = 0
        BY <3>1, <1>2 DEF Running
      <3> QED BY <3>2
    <2>2. CASE ~(i # 0 /\ <<b, l, j>> = <<a, k, i>>)
      <3>1. drains'[<<b, l, j>>] = drains[<<b, l, j>>]
        BY <2>2, <1>2, <1>5, <1>6, <1>1
      <3>2. Running(b, l, j)' = Running(b, l, j)
        BY <3>1 DEF Running
      <3>3. Running(b, l, j) = 1 /\ tasks[b][l] = j
        BY <3>2 DEF OneTrackedDrain
      <3>4. j # 0
        BY DEF Incs
      <3>5. <<b, l>> # <<a, k>>
        BY <2>2, <3>3, <3>4 DEF i
      <3> QED BY <3>2, <3>3, <3>5, <1>4
    <2> QED BY <2>1, <2>2
  <1>9. ASSUME NEW b \in Agents, NEW l \in Keys, NEW j \in Incs, tasks'[b][l] = j, Manned(b, l, j)
        PROVE  Manned(b, l, j)'
    <2>1. <<b, l>> # <<a, k>>
      BY <1>4, <1>9 DEF Incs
    <2>2. drains'[<<b, l, j>>] = drains[<<b, l, j>>]
      BY <2>1, <1>1, <1>2, <1>5, <1>6
    <2> QED BY <1>9, <2>2 DEF Manned, Running, Failed
  <1> QED BY <1>4, <1>7, <1>8, <1>9 DEF a

\* What the steps that only move requests, callbacks or the registry keep.
LEMMA QuietAInv ==
  ASSUME AInv, UNCHANGED <<tasks, drains>>
  PROVE  /\ OneTrackedDrain'
         /\ tasks' \in [Agents -> [Keys -> 0..MaxInc]]
         /\ drains' \in [Agents \X Keys \X Incs -> [Phases -> Nat]]
  BY QuietKeeps DEF AInv, TypeOK

LEMMA PublisherAInv ==
  ASSUME AInv, NEW k \in Keys, Publish(k) \/ Callback(k) \/ Unpublish(k)
  PROVE  AInv'
  <1> USE RunnerAssumption
  <1> TypeOK /\ PubEntry /\ RequestShape /\ OneTrackedDrain
    BY DEF AInv
  <1>1. CASE Publish(k)
    <2>1. TypeOK'
      BY <1>1, QuietAInv DEF Publish, TypeOK
    <2>2. PubEntry'
      BY <1>1 DEF Publish, TypeOK, PubEntry
    <2> QED BY <1>1, <2>1, <2>2, QuietAInv DEF AInv, Publish, RequestShape
  <1>2. CASE SnapshotFactories(k)
    <2>1. TypeOK'
      BY <1>2, QuietAInv DEF SnapshotFactories, TypeOK
    <2>2. PubEntry'
      BY <1>2 DEF SnapshotFactories, TypeOK, PubEntry
    <2> QED BY <1>2, <2>1, <2>2, QuietAInv DEF AInv, SnapshotFactories, RequestShape
  <1>3. ASSUME NEW a \in Agents, CallbackCheck(k, a) PROVE AInv'
    <2>1. TypeOK'
      BY <1>3, QuietAInv DEF CallbackCheck, TypeOK
    <2> QED BY <1>3, <2>1, QuietAInv DEF AInv, CallbackCheck, RequestShape, PubEntry
  <1>4. CASE CallbackInsert(k)
    <2>1. pub[k] = "spawning" /\ cur[k] \in Agents
      BY <1>4 DEF CallbackInsert, TypeOK
    <2>2. entry[k] \in Incs
      BY <2>1 DEF PubEntry, TypeOK, Incs
    <2>3. /\ tasks' \in [Agents -> [Keys -> 0..MaxInc]]
          /\ drains' \in [Agents \X Keys \X Incs -> [Phases -> Nat]]
          /\ OneTrackedDrain'
      BY <1>4, <2>1, <2>2, InsertKeeps DEF CallbackInsert
    <2>4. TypeOK'
      BY <1>4, <2>3 DEF CallbackInsert, TypeOK
    <2> QED BY <1>4, <2>3, <2>4 DEF AInv, CallbackInsert, RequestShape, PubEntry
  <1>5. CASE CallbackDone(k)
    <2>1. TypeOK'
      BY <1>5, QuietAInv DEF CallbackDone, TypeOK
    <2>2. PubEntry'
      BY <1>5 DEF CallbackDone, TypeOK, PubEntry
    <2> QED BY <1>5, <2>1, <2>2, QuietAInv DEF AInv, CallbackDone, RequestShape
  <1>6. CASE Unpublish(k)
    <2>1. TypeOK'
      BY <1>6, QuietAInv DEF Unpublish, TypeOK
    <2>2. PubEntry'
      BY <1>6 DEF Unpublish, TypeOK, PubEntry
    <2> QED BY <1>6, <2>1, <2>2, QuietAInv DEF AInv, Unpublish, RequestShape
  <1> QED BY <1>1, <1>2, <1>3, <1>4, <1>5, <1>6 DEF Callback

\* The states of a request are of its type.
LEMMA RequestType ==
  ASSUME NEW pc \in {"idle", "keys", "each", "insert", "retain"},
         NEW a \in Agents \cup {None}, NEW ks \in SUBSET Keys,
         NEW k \in Keys \cup {None}, NEW i \in 0..MaxInc
  PROVE  Request(pc, a, ks, k, i) \in Requests
  BY DEF Request, Requests

LEMMA AdminAInv ==
  ASSUME AInv, NEW d \in Admins,
         \/ Admin(d)
         \/ \E a \in Agents : AddRefused(d, a) \/ AddPush(d, a) \/ RemoveFactory(d, a)
  PROVE  AInv'
  <1> USE RunnerAssumption
  <1> TypeOK /\ PubEntry /\ RequestShape /\ OneTrackedDrain
    BY DEF AInv
  <1>0. adm \in [Admins -> Requests]
    BY DEF TypeOK
  <1>1. ASSUME NEW a \in Agents, AddRefused(d, a) PROVE AInv'
    BY <1>1 DEF AddRefused, vars, AInv, TypeOK, PubEntry, RequestShape, OneTrackedDrain, Running
  <1>z. 0 \in 0..MaxInc /\ {} \in SUBSET Keys /\ Keys \in SUBSET Keys
    OBVIOUS
  <1>t. /\ adm[d].agent \in Agents \cup {None} /\ adm[d].keys \in SUBSET Keys
        /\ adm[d].pc # "idle" => adm[d].agent \in Agents
    BY <1>0 DEF Requests, RequestShape
  <1>2. ASSUME NEW a \in Agents, AddPush(d, a) PROVE AInv'
    <2>1. Request("keys", a, {}, None, 0) \in Requests
      BY <1>z, RequestType
    <2>2. adm' \in [Admins -> Requests]
      BY <1>2, <2>1, <1>0 DEF AddPush
    <2>3. TypeOK'
      BY <1>2, <2>2, QuietAInv DEF AddPush, TypeOK
    <2>4. RequestShape'
      BY <1>2, <1>0 DEF AddPush, RequestShape, Request
    <2> QED BY <1>2, <2>3, <2>4, QuietAInv DEF AInv, AddPush, PubEntry
  <1>3. ASSUME NEW a \in Agents, RemoveFactory(d, a) PROVE AInv'
    <2>1. Request("retain", a, Keys, None, 0) \in Requests
      BY <1>z, RequestType
    <2>2. adm' \in [Admins -> Requests]
      BY <1>3, <2>1, <1>0 DEF RemoveFactory
    <2>3. TypeOK'
      BY <1>3, <2>2, QuietAInv DEF RemoveFactory, TypeOK
    <2>4. RequestShape'
      BY <1>3, <1>0 DEF RemoveFactory, RequestShape, Request
    <2> QED BY <1>3, <2>3, <2>4, QuietAInv DEF AInv, RemoveFactory, PubEntry
  <1>4. CASE AddKeys(d)
    <2>1. Request("each", adm[d].agent, {k \in Keys : entry[k] # 0}, None, 0) \in Requests
      BY <1>z, <1>t, RequestType
    <2>2. adm' \in [Admins -> Requests]
      BY <1>4, <2>1, <1>0 DEF AddKeys
    <2>3. TypeOK'
      BY <1>4, <2>2, QuietAInv DEF AddKeys, TypeOK
    <2>4. RequestShape'
      BY <1>4, <1>0, <1>t DEF AddKeys, RequestShape, Request
    <2> QED BY <1>4, <2>3, <2>4, QuietAInv DEF AInv, AddKeys, PubEntry
  <1>5. ASSUME NEW k \in Keys, AddGet(d, k) PROVE AInv'
    <2>1. entry[k] \in 0..MaxInc /\ (entry[k] # 0 => entry[k] \in Incs)
      BY DEF TypeOK, Incs
    <2>2. adm' \in [Admins -> Requests]
      <3>1. /\ Request("insert", adm[d].agent, adm[d].keys \ {k}, k, entry[k]) \in Requests
            /\ Request("each", adm[d].agent, adm[d].keys \ {k}, None, 0) \in Requests
        BY <1>z, <1>t, <2>1, RequestType
      <3> QED BY <1>5, <1>0, <3>1 DEF AddGet
    <2>3. TypeOK'
      BY <1>5, <2>2, QuietAInv DEF AddGet, TypeOK
    <2>4. RequestShape'
      BY <1>5, <1>0, <1>t, <2>1 DEF AddGet, RequestShape, Request
    <2> QED BY <1>5, <2>3, <2>4, QuietAInv DEF AInv, AddGet, PubEntry
  <1>6. CASE AddInsert(d)
    <2>1. adm[d].agent \in Agents /\ adm[d].key \in Keys /\ adm[d].inc \in Incs
      BY <1>6 DEF AddInsert, RequestShape
    <2>2. adm' \in [Admins -> Requests]
      <3>1. Request("each", adm[d].agent, adm[d].keys, None, 0) \in Requests
        BY <1>z, <1>t, RequestType
      <3> QED BY <1>6, <1>0, <3>1 DEF AddInsert
    <2>3. /\ tasks' \in [Agents -> [Keys -> 0..MaxInc]]
          /\ drains' \in [Agents \X Keys \X Incs -> [Phases -> Nat]]
          /\ OneTrackedDrain'
      BY <1>6, <2>1, InsertKeeps DEF AddInsert
    <2>4. TypeOK'
      BY <1>6, <2>2, <2>3 DEF AddInsert, TypeOK
    <2>5. RequestShape'
      BY <1>6, <1>0, <2>1 DEF AddInsert, RequestShape, Request
    <2> QED BY <1>6, <2>3, <2>4, <2>5 DEF AInv, AddInsert, PubEntry
  <1>7. CASE AddDone(d) \/ RemoveDone(d)
    <2>1. Idle \in Requests
      BY <1>z, RequestType DEF Idle
    <2>2. adm' \in [Admins -> Requests]
      BY <1>7, <2>1, <1>0 DEF AddDone, RemoveDone
    <2>3. TypeOK'
      BY <1>7, <2>2, QuietAInv DEF AddDone, RemoveDone, TypeOK
    <2>4. RequestShape'
      BY <1>7, <1>0 DEF AddDone, RemoveDone, RequestShape, Idle, Request
    <2> QED BY <1>7, <2>3, <2>4, QuietAInv DEF AInv, AddDone, RemoveDone, PubEntry
  <1>8. ASSUME NEW k \in Keys, RemoveTask(d, k) PROVE AInv'
    <2>2. adm' \in [Admins -> Requests]
      BY <1>8, <1>0 DEF RemoveTask, Requests
    <2>3. /\ tasks' \in [Agents -> [Keys -> 0..MaxInc]]
          /\ drains' \in [Agents \X Keys \X Incs -> [Phases -> Nat]]
          /\ OneTrackedDrain'
      BY <1>8, RemoveTaskKeeps
    <2>4. TypeOK'
      BY <1>8, <2>2, <2>3 DEF RemoveTask, TypeOK
    <2>5. RequestShape'
      BY <1>8, <1>0 DEF RemoveTask, RequestShape, Requests
    <2> QED BY <1>8, <2>3, <2>4, <2>5 DEF AInv, RemoveTask, PubEntry
  <1> QED BY <1>1, <1>2, <1>3, <1>4, <1>5, <1>6, <1>7, <1>8 DEF Admin

LEMMA NextAInv == AInv /\ [Next]_vars => AInv'
  <1> SUFFICES ASSUME AInv, [Next]_vars PROVE AInv'
    OBVIOUS
  <1>1. ASSUME NEW a \in Agents, NEW k \in Keys, NEW i \in Incs,
               Drive(a, k, i) \/ AbortTakesEffect(a, k, i)
        PROVE  AInv'
    <2>1. /\ drains' \in [Agents \X Keys \X Incs -> [Phases -> Nat]]
          /\ OneTrackedDrain'
          /\ UNCHANGED <<entry, inc, factories, tasks, pub, todo, cur, adm>>
      BY <1>1, DriveKeeps DEF AInv
    <2> QED BY <2>1 DEF AInv, TypeOK, PubEntry, RequestShape
  <1>2. CASE UNCHANGED vars
    BY <1>2 DEF vars, AInv, TypeOK, PubEntry, RequestShape, OneTrackedDrain, Running
  <1> QED BY <1>1, <1>2, PublisherAInv, AdminAInv DEF Next

\* The runner, its callbacks and its admin requests are always well-typed.
THEOREM AgentTypeCorrect == Spec => []TypeOK
  <1>1. AInv => TypeOK
    BY DEF AInv
  <1> QED BY <1>1, InitAInv, NextAInv, PTL DEF Spec

\* However callbacks, add_agent and remove_agent interleave, an agent has at
\* most one drain on a key, and the task map knows it: the "Idempotent on the
\* StatsKey" of spawn_for, for any number of agents, keys and requests.
THEOREM DrainsTracked == Spec => []OneTrackedDrain
  <1>1. AInv => OneTrackedDrain
    BY DEF AInv
  <1> QED BY <1>1, InitAInv, NextAInv, PTL DEF Spec

-----------------------------------------------------------------------------
(* What a slot says about the drain behind it.                             *)

\* Incarnations are numbered as they come: the registered one is the last,
\* and neither a slot nor an add_agent in hand is ahead of it.
Numbered ==
  /\ \A k \in Keys : entry[k] # 0 => entry[k] = inc[k]
  /\ \A a \in Agents, k \in Keys : tasks[a][k] <= inc[k]
  /\ \A d \in Admins : adm[d].pc = "insert" => adm[d].inc <= inc[adm[d].key]

\* A slot of the registered incarnation has its task.
SlotsManned ==
  \A a \in Agents, k \in Keys, i \in Incs : entry[k] = i /\ tasks[a][k] = i => Manned(a, k, i)

LEMMA InitSlots == Init => Numbered /\ SlotsManned
  <1> SUFFICES ASSUME Init PROVE Numbered /\ SlotsManned
    OBVIOUS
  <1>1. Numbered
    BY RunnerAssumption DEF Init, Numbered, Idle, Request
  <1>2. SlotsManned
    BY DEF Init, SlotsManned, Incs
  <1> QED BY <1>1, <1>2

\* Steps of a publisher: only the callback's insert changes a slot.
LEMMA PublisherSlots ==
  ASSUME AInv, Numbered, SlotsManned, NEW k \in Keys, Publish(k) \/ Callback(k) \/ Unpublish(k)
  PROVE  Numbered' /\ SlotsManned'
  <1> TypeOK /\ PubEntry /\ RequestShape /\ OneTrackedDrain
    BY DEF AInv
  <1>0. /\ inc \in [Keys -> 0..MaxInc] /\ entry \in [Keys -> 0..MaxInc] /\ MaxInc \in Nat
        /\ tasks \in [Agents -> [Keys -> 0..MaxInc]]
        /\ \A d \in Admins : adm[d].inc \in 0..MaxInc
    BY RunnerAssumption DEF TypeOK, Requests
  <1>1. CASE Publish(k)
    <2>1. /\ inc' = [inc EXCEPT ![k] = @ + 1] /\ entry' = [entry EXCEPT ![k] = inc[k] + 1]
          /\ UNCHANGED <<tasks, drains, adm>>
      BY <1>1 DEF Publish
    <2>2. /\ inc'[k] = inc[k] + 1 /\ entry'[k] = inc[k] + 1
          /\ \A l \in Keys : l # k => inc'[l] = inc[l] /\ entry'[l] = entry[l]
      BY <1>0, <2>1
    <2>3. Numbered'
      <3>1. \A l \in Keys : inc'[l] >= inc[l] /\ inc'[l] \in Nat
        BY <1>0, <2>2
      <3>2. \A d \in Admins : adm[d].pc = "insert" => adm[d].key \in Keys
        BY DEF RequestShape
      <3>3. ASSUME NEW d \in Admins, adm[d].pc = "insert" PROVE adm[d].inc <= inc'[adm[d].key]
        <4>1. adm[d].inc <= inc[adm[d].key] /\ adm[d].key \in Keys /\ adm[d].inc \in Nat
          BY <1>0, <3>2, <3>3 DEF Numbered
        <4> QED BY <1>0, <3>1, <4>1
      <3>4. ASSUME NEW a \in Agents, NEW l \in Keys PROVE tasks[a][l] <= inc'[l]
        BY <1>0, <3>1 DEF Numbered
      <3> QED BY <2>1, <2>2, <3>3, <3>4 DEF Numbered
    <2>4. SlotsManned'
      <3> SUFFICES ASSUME NEW a \in Agents, NEW l \in Keys, NEW i \in Incs, entry'[l] = i, tasks[a][l] = i
                   PROVE  Manned(a, l, i)
        BY <2>1 DEF SlotsManned, Manned, Running, Failed
      <3>1. l # k
        BY <1>0, <2>2 DEF Numbered
      <3> QED BY <2>2, <3>1 DEF SlotsManned
    <2> QED BY <2>3, <2>4
  <1>2. CASE Unpublish(k)
    <2>1. entry' = [entry EXCEPT ![k] = 0] /\ UNCHANGED <<inc, tasks, drains, adm>>
      BY <1>2 DEF Unpublish
    <2>2. \A l \in Keys : entry'[l] = entry[l] \/ entry'[l] = 0
      BY <1>0, <2>1
    <2> QED BY <2>1, <2>2 DEF Numbered, SlotsManned, Manned, Running, Failed, Incs
  <1>3. CASE CallbackInsert(k)
    <2>1. pub[k] = "spawning" /\ cur[k] \in Agents
      BY <1>3 DEF CallbackInsert, TypeOK
    <2>2. entry[k] \in Incs
      BY <1>0, <2>1 DEF PubEntry, Incs
    <2>3. /\ \A b \in Agents, l \in Keys :
               \/ tasks'[b][l] = tasks[b][l]
               \/ b = cur[k] /\ l = k /\ tasks'[b][l] = entry[k]
          /\ \A b \in Agents, l \in Keys :
               tasks'[b][l] # tasks[b][l] => \A j \in Incs : tasks'[b][l] = j => Manned(b, l, j)'
          /\ \A b \in Agents, l \in Keys, j \in Incs : Manned(b, l, j) => Manned(b, l, j)'
          /\ UNCHANGED <<entry, inc, adm>>
      <3> DEFINE c == cur[k]
                 n == entry[k]
      <3>1. c \in Agents /\ n \in Incs /\ InsertIfVacant(c, k, n) /\ UNCHANGED <<entry, inc, adm>>
        BY <1>3, <2>1, <2>2 DEF CallbackInsert
      <3> HIDE DEF c, n
      <3>2. /\ \A b \in Agents, l \in Keys :
                 \/ tasks'[b][l] = tasks[b][l]
                 \/ b = c /\ l = k /\ tasks'[b][l] = n
            /\ \A b \in Agents, l \in Keys :
                 tasks'[b][l] # tasks[b][l] => \A j \in Incs : tasks'[b][l] = j => Manned(b, l, j)'
            /\ \A b \in Agents, l \in Keys, j \in Incs : Manned(b, l, j) => Manned(b, l, j)'
        BY <3>1, InsertKeeps
      <3> QED BY <3>1, <3>2 DEF c, n
    <2>4. entry[k] <= inc[k]
      BY <1>0, <2>2 DEF Numbered, Incs
    <2>5. Numbered'
      BY <2>3, <2>4 DEF Numbered
    <2>6. SlotsManned'
      BY <2>3 DEF SlotsManned
    <2> QED BY <2>5, <2>6
  <1>4. ASSUME UNCHANGED <<entry, inc, tasks, drains, adm>> PROVE Numbered' /\ SlotsManned'
    BY <1>4 DEF Numbered, SlotsManned, Manned, Running, Failed
  <1> QED BY <1>1, <1>2, <1>3, <1>4 DEF Callback, SnapshotFactories, CallbackCheck, CallbackDone

\* Steps of a request: add_agent's insert and the sweep of remove_agent.
LEMMA AdminSlots ==
  ASSUME AInv, Numbered, SlotsManned, NEW d \in Admins,
         \/ Admin(d)
         \/ \E a \in Agents : AddRefused(d, a) \/ AddPush(d, a) \/ RemoveFactory(d, a)
  PROVE  Numbered' /\ SlotsManned'
  <1> TypeOK /\ PubEntry /\ RequestShape /\ OneTrackedDrain
    BY DEF AInv
  <1>0. /\ inc \in [Keys -> 0..MaxInc] /\ entry \in [Keys -> 0..MaxInc] /\ MaxInc \in Nat
        /\ tasks \in [Agents -> [Keys -> 0..MaxInc]] /\ adm \in [Admins -> Requests]
    BY RunnerAssumption DEF TypeOK
  <1>q. ASSUME UNCHANGED <<entry, inc, tasks, drains>>,
               \A e \in Admins : adm'[e].pc = "insert" =>
                 adm'[e] = adm[e] \/ (adm'[e].key \in Keys /\ adm'[e].inc = entry[adm'[e].key])
        PROVE  Numbered' /\ SlotsManned'
    <2>1. \A k \in Keys : entry[k] <= inc[k]
      BY <1>0 DEF Numbered
    <2>2. Numbered'
      BY <1>q, <2>1 DEF Numbered
    <2> QED BY <1>q, <2>2 DEF SlotsManned, Manned, Running, Failed
  <1>1. ASSUME NEW a \in Agents, AddRefused(d, a) PROVE Numbered' /\ SlotsManned'
    BY <1>1, <1>q DEF AddRefused, vars
  <1>2. ASSUME NEW a \in Agents, AddPush(d, a) \/ RemoveFactory(d, a) PROVE Numbered' /\ SlotsManned'
    BY <1>0, <1>2, <1>q DEF AddPush, RemoveFactory, Request
  <1>3. CASE AddKeys(d) \/ AddDone(d) \/ RemoveDone(d)
    BY <1>0, <1>3, <1>q DEF AddKeys, AddDone, RemoveDone, Idle, Request
  <1>4. ASSUME NEW k \in Keys, AddGet(d, k) PROVE Numbered' /\ SlotsManned'
    BY <1>0, <1>4, <1>q DEF AddGet, Request
  <1>5. CASE AddInsert(d)
    <2>1. adm[d].agent \in Agents /\ adm[d].key \in Keys /\ adm[d].inc \in Incs /\ adm[d].pc = "insert"
      BY <1>5 DEF AddInsert, RequestShape
    <2>2. /\ \A b \in Agents, l \in Keys :
               \/ tasks'[b][l] = tasks[b][l]
               \/ b = adm[d].agent /\ l = adm[d].key /\ tasks'[b][l] = adm[d].inc
          /\ \A b \in Agents, l \in Keys :
               tasks'[b][l] # tasks[b][l] => \A j \in Incs : tasks'[b][l] = j => Manned(b, l, j)'
          /\ \A b \in Agents, l \in Keys, j \in Incs : Manned(b, l, j) => Manned(b, l, j)'
          /\ UNCHANGED <<entry, inc>>
      <3> DEFINE c == adm[d].agent
                 m == adm[d].key
                 n == adm[d].inc
      <3>1. c \in Agents /\ m \in Keys /\ n \in Incs /\ InsertIfVacant(c, m, n) /\ UNCHANGED <<entry, inc>>
        BY <1>5, <2>1 DEF AddInsert
      <3> HIDE DEF c, m, n
      <3>2. /\ \A b \in Agents, l \in Keys :
                 \/ tasks'[b][l] = tasks[b][l]
                 \/ b = c /\ l = m /\ tasks'[b][l] = n
            /\ \A b \in Agents, l \in Keys :
                 tasks'[b][l] # tasks[b][l] => \A j \in Incs : tasks'[b][l] = j => Manned(b, l, j)'
            /\ \A b \in Agents, l \in Keys, j \in Incs : Manned(b, l, j) => Manned(b, l, j)'
        BY <3>1, InsertKeeps
      <3> QED BY <3>1, <3>2 DEF c, m, n
    <2>3. \A e \in Admins : adm'[e].pc = "insert" => adm'[e] = adm[e]
      BY <1>0, <1>5 DEF AddInsert, Request
    <2>4. adm[d].inc <= inc[adm[d].key]
      BY <2>1 DEF Numbered
    <2>5. Numbered'
      BY <2>2, <2>3, <2>4 DEF Numbered
    <2>6. SlotsManned'
      BY <2>2 DEF SlotsManned
    <2> QED BY <2>5, <2>6
  <1>6. ASSUME NEW k \in Keys, RemoveTask(d, k) PROVE Numbered' /\ SlotsManned'
    <2>1. /\ \A b \in Agents, l \in Keys : tasks'[b][l] \in {0, tasks[b][l]}
          /\ \A b \in Agents, l \in Keys, j \in Incs :
               tasks'[b][l] = j /\ Manned(b, l, j) => Manned(b, l, j)'
      BY <1>6, RemoveTaskKeeps
    <2>2. UNCHANGED <<entry, inc>> /\ \A e \in Admins : adm'[e].pc = "insert" => adm'[e] = adm[e]
      BY <1>0, <1>6 DEF RemoveTask, Requests
    <2>3. \A b \in Agents, l \in Keys : tasks'[b][l] <= inc[l]
      BY <1>0, <2>1 DEF Numbered
    <2>4. Numbered'
      BY <2>2, <2>3 DEF Numbered
    <2>5. SlotsManned'
      <3> SUFFICES ASSUME NEW b \in Agents, NEW l \in Keys, NEW j \in Incs, entry[l] = j, tasks'[b][l] = j
                   PROVE  Manned(b, l, j)'
        BY <2>2 DEF SlotsManned
      <3>1. tasks[b][l] = j
        BY <2>1 DEF Incs
      <3> QED BY <2>1, <3>1 DEF SlotsManned
    <2> QED BY <2>4, <2>5
  <1> QED BY <1>1, <1>2, <1>3, <1>4, <1>5, <1>6 DEF Admin

LEMMA NextSlots == AInv /\ Numbered /\ SlotsManned /\ [Next]_vars => Numbered' /\ SlotsManned'
  <1> SUFFICES ASSUME AInv, Numbered, SlotsManned, [Next]_vars PROVE Numbered' /\ SlotsManned'
    OBVIOUS
  <1>1. ASSUME NEW a \in Agents, NEW k \in Keys, NEW i \in Incs,
               Drive(a, k, i) \/ AbortTakesEffect(a, k, i)
        PROVE  Numbered' /\ SlotsManned'
    <2>1. /\ UNCHANGED <<entry, inc, factories, tasks, pub, todo, cur, adm>>
          /\ \A b \in Agents, l \in Keys, j \in Incs :
               Manned(b, l, j) => Manned(b, l, j)' \/ entry[l] # j
      BY <1>1, DriveKeeps DEF AInv
    <2> QED BY <2>1 DEF Numbered, SlotsManned
  <1>2. CASE UNCHANGED vars
    BY <1>2 DEF vars, Numbered, SlotsManned, Manned, Running, Failed
  <1> QED BY <1>1, <1>2, PublisherSlots, AdminSlots DEF Next

-----------------------------------------------------------------------------
(* One admin request at a time: no source between the cracks.              *)

OneAdmin == \A d, e \in Admins : d = e

\* Somebody is still going to look at this agent and key: the callback, or
\* the add_agent of this agent.
CallbackOwes(a, k) ==
  \/ pub[k] = "snapshot"
  \/ pub[k] = "spawning" /\ (a \in todo[k] \/ cur[k] = a)
AddOwes(d, a, k) ==
  /\ adm[d].agent = a
  /\ \/ adm[d].pc = "keys"
     \/ adm[d].pc \in {"each", "insert"} /\ k \in adm[d].keys
     \/ adm[d].pc = "insert" /\ adm[d].key = k
Owed(a, k) == CallbackOwes(a, k) \/ \E d \in Admins : AddOwes(d, a, k)

\* An empty slot on a live source is owed by somebody.
Covered ==
  \A a \in factories, k \in Accepted : entry[k] # 0 => tasks[a][k] # 0 \/ Owed(a, k)

\* The agent a sweep is aborting is not registered: this is what a second
\* concurrent request breaks.
SweptIsGone == \A d \in Admins : adm[d].pc = "retain" => adm[d].agent \notin factories

CInv == AInv /\ Covered /\ SweptIsGone

LEMMA InitCInv == Init => Covered /\ SweptIsGone
  BY RunnerAssumption DEF Init, Covered, SweptIsGone, Idle, Request

LEMMA PublisherCInv ==
  ASSUME CInv, NEW k \in Keys, Publish(k) \/ Callback(k) \/ Unpublish(k)
  PROVE  Covered' /\ SweptIsGone'
  <1> AInv /\ TypeOK /\ PubEntry /\ RequestShape /\ OneTrackedDrain /\ Covered /\ SweptIsGone
    BY DEF CInv, AInv
  <1>0. UNCHANGED <<factories, adm>>
    BY DEF Publish, Callback, Unpublish, SnapshotFactories, CallbackCheck, CallbackInsert,
           CallbackDone
  <1>1. SweptIsGone'
    BY <1>0 DEF SweptIsGone
  <1>2. \A d \in Admins, a \in Agents, l \in Keys : AddOwes(d, a, l) => AddOwes(d, a, l)'
    BY <1>0 DEF AddOwes
  <1> SUFFICES ASSUME NEW a \in factories, NEW l \in Accepted, entry'[l] # 0, tasks'[a][l] = 0
               PROVE  Owed(a, l)'
    BY <1>0, <1>1 DEF Covered
  <1>3. a \in Agents /\ l \in Keys
    BY RunnerAssumption DEF TypeOK
  <1>4. CASE Publish(k)
    <2>1. CASE l = k
      BY <1>4, <2>1 DEF Publish, Owed, CallbackOwes, TypeOK
    <2>2. CASE l # k
      <3>1. entry[l] # 0 /\ tasks[a][l] = 0
        BY <1>4, <2>2, <1>3 DEF Publish, TypeOK
      <3>2. CallbackOwes(a, l) => CallbackOwes(a, l)'
        BY <1>4, <2>2, <1>3 DEF Publish, TypeOK, CallbackOwes
      <3> QED BY <3>1, <3>2, <1>2, <1>3 DEF Covered, Owed
    <2> QED BY <2>1, <2>2
  <1>5. CASE SnapshotFactories(k)
    <2>1. entry[l] # 0 /\ tasks[a][l] = 0
      BY <1>5 DEF SnapshotFactories
    <2>2. CallbackOwes(a, l) => CallbackOwes(a, l)'
      BY <1>5, <1>3 DEF SnapshotFactories, TypeOK, CallbackOwes
    <2> QED BY <2>1, <2>2, <1>2, <1>3 DEF Covered, Owed
  <1>6. ASSUME NEW b \in Agents, CallbackCheck(k, b) PROVE Owed(a, l)'
    <2>1. entry[l] # 0 /\ tasks[a][l] = 0
      BY <1>6 DEF CallbackCheck
    <2>2. CallbackOwes(a, l) => CallbackOwes(a, l)'
      <3>1. CASE l # k
        BY <3>1, <1>6, <1>3 DEF CallbackCheck, TypeOK, CallbackOwes
      <3>2. CASE l = k /\ a = b
        <4>1. cur'[k] = b /\ pub'[k] = "spawning"
          BY <3>2, <2>1, <1>6 DEF CallbackCheck, CheckPasses, TypeOK
        <4> QED BY <4>1, <3>2 DEF CallbackOwes
      <3>3. CASE l = k /\ a # b
        <4>1. a # None /\ cur[k] = None /\ pub[k] = "spawning" /\ pub' = pub
          BY <1>3, <1>6, RunnerAssumption DEF CallbackCheck
        <4>2. todo'[k] = todo[k] \ {b}
          BY <1>6 DEF CallbackCheck, TypeOK
        <4> QED BY <4>1, <4>2, <3>3 DEF CallbackOwes
      <3> QED BY <3>1, <3>2, <3>3
    <2> QED BY <2>1, <2>2, <1>2, <1>3 DEF Covered, Owed
  <1>7. CASE CallbackInsert(k)
    <2>1. pub[k] = "spawning" /\ cur[k] \in Agents
      BY <1>7 DEF CallbackInsert, TypeOK
    <2>2. entry[k] \in Incs
      BY <2>1, RunnerAssumption DEF PubEntry, TypeOK, Incs
    <2>3. /\ tasks'[cur[k]][k] # 0
          /\ \A b \in Agents, m \in Keys : tasks[b][m] # 0 => tasks'[b][m] # 0
      BY <1>7, <2>1, <2>2, InsertKeeps DEF CallbackInsert
    <2>4. entry[l] # 0 /\ tasks[a][l] = 0
      BY <1>7, <2>3, <1>3 DEF CallbackInsert
    <2>5. CallbackOwes(a, l) => CallbackOwes(a, l)'
      <3>1. l = k => a # cur[k]
        BY <2>3
      <3> QED BY <3>1, <1>7, <1>3 DEF CallbackInsert, TypeOK, CallbackOwes
    <2> QED BY <2>4, <2>5, <1>2, <1>3 DEF Covered, Owed
  <1>8. CASE CallbackDone(k)
    <2>1. entry[l] # 0 /\ tasks[a][l] = 0
      BY <1>8 DEF CallbackDone
    <2>2. CallbackOwes(a, l) => CallbackOwes(a, l)'
      <3>1. a # None
        BY <1>3, RunnerAssumption
      <3> QED BY <3>1, <1>8, <1>3 DEF CallbackDone, TypeOK, CallbackOwes
    <2> QED BY <2>1, <2>2, <1>2, <1>3 DEF Covered, Owed
  <1>9. CASE Unpublish(k)
    <2>1. l # k /\ entry[l] # 0 /\ tasks[a][l] = 0
      BY <1>9, <1>3 DEF Unpublish, TypeOK
    <2>2. CallbackOwes(a, l) => CallbackOwes(a, l)'
      BY <1>9, <2>1, <1>3 DEF Unpublish, TypeOK, CallbackOwes
    <2> QED BY <2>1, <2>2, <1>2, <1>3 DEF Covered, Owed
  <1> QED BY <1>4, <1>5, <1>6, <1>7, <1>8, <1>9 DEF Callback

LEMMA AdminCInv ==
  ASSUME OneAdmin, CInv, NEW d \in Admins,
         \/ Admin(d)
         \/ \E a \in Agents : AddRefused(d, a) \/ AddPush(d, a) \/ RemoveFactory(d, a)
  PROVE  Covered' /\ SweptIsGone'
  <1> AInv /\ TypeOK /\ PubEntry /\ RequestShape /\ OneTrackedDrain /\ Covered /\ SweptIsGone
    BY DEF CInv, AInv
  <1>0. /\ \A e \in Admins : e = d
        /\ adm \in [Admins -> Requests]
        /\ factories \subseteq Agents /\ Accepted \subseteq Keys
    BY RunnerAssumption DEF OneAdmin, TypeOK
  <1>1. ASSUME NEW a \in Agents, AddRefused(d, a) PROVE Covered' /\ SweptIsGone'
    BY <1>1 DEF AddRefused, vars, Covered, SweptIsGone, Owed, CallbackOwes, AddOwes
  <1>2. ASSUME NEW a \in Agents, AddPush(d, a) PROVE Covered' /\ SweptIsGone'
    <2>1. adm' = [adm EXCEPT ![d] = Request("keys", a, {}, None, 0)]
      BY <1>2 DEF AddPush
    <2>2. adm'[d].pc = "keys" /\ adm'[d].agent = a
      BY <2>1, <1>0 DEF Request
    <2>3. SweptIsGone'
      BY <2>2, <1>0 DEF SweptIsGone
    <2>4. \A b \in Agents, l \in Keys : ~ AddOwes(d, b, l)
      BY <1>2 DEF AddPush, AddOwes
    <2>5. Covered'
      BY <1>2, <1>0, <2>2, <2>4 DEF AddPush, Covered, Owed, AddOwes, CallbackOwes
    <2> QED BY <2>3, <2>5
  <1>3. ASSUME NEW a \in Agents, RemoveFactory(d, a) PROVE Covered' /\ SweptIsGone'
    <2>1. adm' = [adm EXCEPT ![d] = Request("retain", a, Keys, None, 0)]
      BY <1>3 DEF RemoveFactory
    <2>2. adm'[d].pc = "retain" /\ adm'[d].agent = a
      BY <2>1, <1>0 DEF Request
    <2>3. SweptIsGone'
      BY <1>3, <2>2, <1>0 DEF SweptIsGone, RemoveFactory
    <2>4. \A b \in Agents, l \in Keys : ~ AddOwes(d, b, l)
      BY <1>3 DEF RemoveFactory, AddOwes
    <2>5. Covered'
      BY <1>3, <1>0, <2>4 DEF RemoveFactory, Covered, Owed, CallbackOwes
    <2> QED BY <2>3, <2>5
  <1>4. CASE AddKeys(d)
    <2>1. adm' = [adm EXCEPT ![d] =
                    Request("each", adm[d].agent, {k \in Keys : entry[k] # 0}, None, 0)]
      BY <1>4, <1>0 DEF AddKeys
    <2>2. /\ adm'[d].pc = "each" /\ adm'[d].agent = adm[d].agent
          /\ adm'[d].keys = {k \in Keys : entry[k] # 0}
      BY <2>1, <1>0 DEF Request
    <2>3. SweptIsGone'
      BY <2>2, <1>0 DEF SweptIsGone
    <2>4. Covered'
      <3> SUFFICES ASSUME NEW b \in factories, NEW l \in Accepted, entry[l] # 0, tasks[b][l] = 0
                   PROVE  Owed(b, l)'
        BY <1>4 DEF AddKeys, Covered
      <3>1. l \in adm'[d].keys
        BY <2>2, <1>0
      <3>2. AddOwes(d, b, l) => AddOwes(d, b, l)'
        BY <2>2, <3>1 DEF AddOwes
      <3>3. CallbackOwes(b, l) => CallbackOwes(b, l)'
        BY <1>4 DEF AddKeys, CallbackOwes
      <3> QED BY <3>2, <3>3, <1>0 DEF Covered, Owed
    <2> QED BY <2>3, <2>4
  <1>5. ASSUME NEW k \in Keys, AddGet(d, k) PROVE Covered' /\ SweptIsGone'
    <2>1. adm'[d] = IF entry[k] # 0 /\ CheckPasses(adm[d].agent, k)
                      THEN Request("insert", adm[d].agent, adm[d].keys \ {k}, k, entry[k])
                      ELSE Request("each", adm[d].agent, adm[d].keys \ {k}, None, 0)
      BY <1>5, <1>0 DEF AddGet
    <2>2. /\ adm'[d].pc \in {"each", "insert"} /\ adm'[d].agent = adm[d].agent
          /\ adm'[d].keys = adm[d].keys \ {k}
          /\ entry[k] # 0 /\ CheckPasses(adm[d].agent, k) =>
                adm'[d].pc = "insert" /\ adm'[d].key = k
      BY <2>1 DEF Request
    <2>3. SweptIsGone'
      BY <2>2, <1>0 DEF SweptIsGone
    <2>4. Covered'
      <3> SUFFICES ASSUME NEW b \in factories, NEW l \in Accepted, entry[l] # 0, tasks[b][l] = 0
                   PROVE  Owed(b, l)'
        BY <1>5 DEF AddGet, Covered
      <3>1. AddOwes(d, b, l) => AddOwes(d, b, l)'
        <4> SUFFICES ASSUME AddOwes(d, b, l) PROVE AddOwes(d, b, l)'
          OBVIOUS
        <4>1. adm[d].agent = b /\ l \in adm[d].keys
          BY <1>5 DEF AddGet, AddOwes
        <4>2. CASE l = k
          BY <4>1, <4>2, <2>2 DEF CheckPasses, AddOwes
        <4>3. CASE l # k
          BY <4>1, <4>3, <2>2 DEF AddOwes
        <4> QED BY <4>2, <4>3
      <3>2. CallbackOwes(b, l) => CallbackOwes(b, l)'
        BY <1>5 DEF AddGet, CallbackOwes
      <3> QED BY <3>1, <3>2, <1>0 DEF Covered, Owed
    <2> QED BY <2>3, <2>4
  <1>6. CASE AddInsert(d)
    <2>1. adm[d].agent \in Agents /\ adm[d].key \in Keys /\ adm[d].inc \in Incs
      BY <1>6 DEF AddInsert, RequestShape
    <2>2. adm'[d] = Request("each", adm[d].agent, adm[d].keys, None, 0)
      BY <1>6, <1>0 DEF AddInsert
    <2>3. adm'[d].pc = "each" /\ adm'[d].agent = adm[d].agent /\ adm'[d].keys = adm[d].keys
      BY <2>2 DEF Request
    <2>4. /\ tasks'[adm[d].agent][adm[d].key] # 0
          /\ \A b \in Agents, m \in Keys : tasks[b][m] # 0 => tasks'[b][m] # 0
      BY <1>6, <2>1, InsertKeeps DEF AddInsert
    <2>5. SweptIsGone'
      BY <2>3, <1>0 DEF SweptIsGone
    <2>6. Covered'
      <3> SUFFICES ASSUME NEW b \in factories, NEW l \in Accepted, entry[l] # 0, tasks'[b][l] = 0
                   PROVE  Owed(b, l)'
        BY <1>6 DEF AddInsert, Covered
      <3>1. tasks[b][l] = 0 /\ ~(b = adm[d].agent /\ l = adm[d].key)
        BY <2>4, <1>0
      <3>2. AddOwes(d, b, l) => AddOwes(d, b, l)'
        BY <3>1, <2>3, <1>6 DEF AddInsert, AddOwes
      <3>3. CallbackOwes(b, l) => CallbackOwes(b, l)'
        BY <1>6 DEF AddInsert, CallbackOwes
      <3> QED BY <3>1, <3>2, <3>3, <1>0 DEF Covered, Owed
    <2> QED BY <2>5, <2>6
  <1>7. CASE AddDone(d) \/ RemoveDone(d)
    <2>1. adm'[d].pc = "idle"
      BY <1>7, <1>0 DEF AddDone, RemoveDone, Idle, Request
    <2>2. SweptIsGone'
      BY <2>1, <1>0 DEF SweptIsGone
    <2>3. \A b \in Agents, l \in Keys : ~ AddOwes(d, b, l)
      BY <1>7 DEF AddDone, RemoveDone, AddOwes
    <2>4. Covered'
      BY <1>7, <1>0, <2>3 DEF AddDone, RemoveDone, Covered, Owed, CallbackOwes
    <2> QED BY <2>2, <2>4
  <1>8. ASSUME NEW k \in Keys, RemoveTask(d, k) PROVE Covered' /\ SweptIsGone'
    <2>1. adm'[d].pc = "retain" /\ adm'[d].agent = adm[d].agent
      BY <1>8, <1>0 DEF RemoveTask, Requests
    <2>2. adm[d].agent \notin factories /\ factories' = factories
      BY <1>8 DEF RemoveTask, SweptIsGone
    <2>3. SweptIsGone'
      BY <2>1, <2>2, <1>0 DEF SweptIsGone
    <2>4. \A b \in factories, l \in Keys : tasks'[b][l] = tasks[b][l]
      BY <1>8, <2>2, <1>0, RemoveTaskKeeps
    <2>5. \A b \in Agents, l \in Keys : ~ AddOwes(d, b, l)
      BY <1>8 DEF RemoveTask, AddOwes
    <2>6. Covered'
      BY <1>8, <1>0, <2>2, <2>4, <2>5 DEF RemoveTask, Covered, Owed, CallbackOwes
    <2> QED BY <2>3, <2>6
  <1> QED BY <1>1, <1>2, <1>3, <1>4, <1>5, <1>6, <1>7, <1>8 DEF Admin

LEMMA NextCInv ==
  ASSUME OneAdmin
  PROVE  CInv /\ [Next]_vars => CInv'
  <1> SUFFICES ASSUME CInv, [Next]_vars PROVE Covered' /\ SweptIsGone'
    BY NextAInv DEF CInv
  <1>1. ASSUME NEW a \in Agents, NEW k \in Keys, NEW i \in Incs,
               Drive(a, k, i) \/ AbortTakesEffect(a, k, i)
        PROVE  Covered' /\ SweptIsGone'
    <2>1. UNCHANGED <<entry, inc, factories, tasks, pub, todo, cur, adm>>
      BY <1>1, DriveKeeps DEF CInv, AInv
    <2> QED BY <2>1 DEF CInv, Covered, SweptIsGone, Owed, CallbackOwes, AddOwes
  <1>2. CASE UNCHANGED vars
    BY <1>2 DEF vars, CInv, Covered, SweptIsGone, Owed, CallbackOwes, AddOwes
  <1> QED BY <1>1, <1>2, PublisherCInv, AdminCInv DEF Next

\* As long as admin requests come one at a time, no live source falls between
\* the creation callback and add_agent: its drain was spawned for it, and runs
\* unless on_start panicked; only a key published again may find the slot of
\* an earlier publication.  For any agents, keys and publications.
THEOREM NoneBetweenTheCracks ==
  ASSUME OneAdmin
  PROVE  Spec => []NoSourceBetweenTheCracks
  <1>1. Init => CInv /\ Numbered /\ SlotsManned
    BY InitAInv, InitCInv, InitSlots DEF CInv
  <1>2. CInv /\ Numbered /\ SlotsManned => NoSourceBetweenTheCracks
    <2> SUFFICES ASSUME CInv, Numbered, SlotsManned, Settled,
                        NEW a \in factories, NEW k \in Accepted, entry[k] # 0
                 PROVE  Reached(a, k) \/ StaleSlot(a, k)
      BY DEF NoSourceBetweenTheCracks
    <2>1. k \in Keys /\ a \in Agents
      BY RunnerAssumption DEF CInv, AInv, TypeOK
    <2>2. ~ CallbackOwes(a, k)
      BY <2>1 DEF Settled, CallbackOwes
    <2>3. ~ \E d \in Admins : AddOwes(d, a, k)
      BY DEF Settled, AddOwes
    <2>4. tasks[a][k] # 0
      BY <2>2, <2>3 DEF CInv, Covered, Owed
    <2>5. /\ tasks[a][k] \in 0..MaxInc /\ entry[k] \in Incs /\ MaxInc \in Nat
          /\ tasks[a][k] <= entry[k]
      BY <2>1, RunnerAssumption DEF CInv, AInv, TypeOK, Numbered, Incs
    <2>6. CASE tasks[a][k] = entry[k]
      <3>1. Manned(a, k, entry[k])
        BY <2>1, <2>5, <2>6 DEF SlotsManned
      <3>2. Running(a, k, entry[k]) > 0 => Running(a, k, entry[k]) = 1
        BY <2>1, <2>5 DEF CInv, AInv, OneTrackedDrain
      <3> QED BY <2>6, <3>1, <3>2 DEF Manned, Reached
    <2>7. CASE tasks[a][k] # entry[k]
      BY <2>4, <2>5, <2>7 DEF StaleSlot, Incs
    <2> QED BY <2>6, <2>7
  <1>3. CInv /\ Numbered /\ SlotsManned /\ [Next]_vars => (CInv /\ Numbered /\ SlotsManned)'
    BY NextCInv, NextSlots DEF CInv
  <1> QED BY <1>1, <1>2, <1>3, PTL DEF Spec

-----------------------------------------------------------------------------
(***************************************************************************)
(* The ladder of renditions.  NoSelfFeeding needs the lineage of what is   *)
(* registered: every path below the source ends in a rendition that was    *)
(* once on the ladder, so that what IsOutput lets through is gone from it. *)
(* LadderComplete needs the debt: who still has to give a rendition its    *)
(* slot on the source.                                                     *)
(***************************************************************************)

\* What the operator ever put on the ladder.
Once == ladder \cup gone
Tip(p) == p[Len(p)]
RequestTypes ==
  [at : {"idle", "keys", "each", "insert", "retain"}, of : Renditions \cup {NoRendition},
   paths : SUBSET Paths, path : Paths, pub : 0..MaxPubs]

\* A callback runs only for a registered path, and an insert in hand has a
\* publication.
InProgress ==
  /\ \A p \in Paths : call[p].at # "none" => registered[p] # 0
  /\ \A p \in Paths : call[p].cur # NoRendition => call[p].at = "spawn"
  /\ request.at # "idle" => request.of \in Once
  /\ request.at = "insert" => request.pub # 0
  /\ request.at = "retain" => request.of \notin ladder

\* Outputs and drains come from renditions that were on the ladder.
Lineage ==
  /\ \A p \in Paths : registered[p] # 0 => p = Source \/ Tip(p) \in Once
  /\ \A d \in running : d.of \in Once
  /\ \A p \in Paths : call[p].todo \subseteq Once /\ call[p].cur \in Once \cup {NoRendition}

\* A path that a rendition may be made from.
Feeds(p) == p = Source \/ Tip(p) \in gone
SourcesOnly ==
  /\ \A d \in running : Feeds(d.path)
  /\ \A p \in Paths : call[p].cur # NoRendition => Feeds(p)
  /\ request.at = "insert" => Feeds(request.path)

\* Who still has to give a rendition its slot on the source.
CallOwes(r) ==
  \/ call[Source].at = "created"
  \/ call[Source].at = "spawn" /\ (r \in call[Source].todo \/ call[Source].cur = r)
RequestOwes(r) ==
  /\ request.of = r
  /\ \/ request.at = "keys"
     \/ request.at \in {"each", "insert"} /\ Source \in request.paths
     \/ request.at = "insert" /\ request.path = Source
SlotsOwed ==
  registered[Source] # 0 =>
    \A r \in ladder : <<r, Source>> \in slots \/ CallOwes(r) \/ RequestOwes(r)

LInv == LadderTypeOK /\ request \in RequestTypes /\ InProgress /\ Lineage /\ SourcesOnly /\ SlotsOwed

-----------------------------------------------------------------------------
LEMMA PathsTyped ==
  /\ Source \in Paths
  /\ \A p \in Paths : p \in Seq(Renditions) /\ Len(p) \in 0..MaxDepth
  /\ \A p \in Paths, r \in Renditions :
       /\ Append(p, r) # Source /\ Tip(Append(p, r)) = r
       /\ Len(Append(p, r)) <= MaxDepth => Append(p, r) \in Paths
  /\ \A p \in Paths : p # Source => Tip(p) \in Renditions
<1>1. \A p : p \in Paths <=> \E n \in 0..MaxDepth : p \in [1..n -> Renditions]
  BY DEF Paths
<1>2. MaxDepth \in Nat
  BY LadderAssumption
<1>3. Source \in [1..0 -> Renditions]
  BY DEF Source
<1>4. \A p \in Paths : p \in Seq(Renditions) /\ Len(p) \in 0..MaxDepth
  BY <1>1, <1>2
<1>5. ASSUME NEW p \in Paths, NEW r \in Renditions
      PROVE  /\ Append(p, r) # Source /\ Tip(Append(p, r)) = r
             /\ Len(Append(p, r)) <= MaxDepth => Append(p, r) \in Paths
  <2>1. Append(p, r) \in Seq(Renditions) /\ Len(Append(p, r)) = Len(p) + 1 /\ Append(p, r)[Len(p) + 1] = r
    BY <1>4
  <2>2. Append(p, r) \in [1..(Len(p) + 1) -> Renditions]
    BY <2>1, LenProperties
  <2>3. Append(p, r) # Source /\ Tip(Append(p, r)) = r
    BY <2>1, <1>4 DEF Source, Tip
  <2>4. ASSUME Len(Append(p, r)) <= MaxDepth PROVE Append(p, r) \in Paths
    <3>1. Len(p) + 1 \in 0..MaxDepth
      BY <2>1, <2>4, <1>2, <1>4
    <3> QED BY <2>2, <3>1, <1>1
  <2> QED BY <2>3, <2>4
<1>6. ASSUME NEW p \in Paths, p # Source PROVE Tip(p) \in Renditions
  BY <1>4, <1>6 DEF Tip, Source
<1>7. Source \in Paths
  <2>1. 0 \in 0..MaxDepth
    BY <1>2
  <2> QED BY <2>1, <1>1, <1>3
<1> QED BY <1>4, <1>5, <1>6, <1>7

LEMMA InitLInv == LadderInit => LInv
<1> SUFFICES ASSUME LadderInit PROVE LInv
  OBVIOUS
<1>1. MaxPubs \in Nat /\ MaxEdits \in Nat
  BY LadderAssumption
<1>2. LadderTypeOK
  BY <1>1 DEF LadderInit, LadderTypeOK, NoCall, NoRequest
<1>3. request \in RequestTypes
  BY <1>1, PathsTyped DEF LadderInit, RequestTypes, NoRequest
<1>4. InProgress /\ Lineage /\ SourcesOnly
  BY DEF LadderInit, InProgress, Lineage, SourcesOnly, NoCall, NoRequest
<1>5. SlotsOwed
  BY PathsTyped DEF LadderInit, SlotsOwed
<1> QED BY <1>2, <1>3, <1>4, <1>5 DEF LInv

\* The source is published, or its entry removed.
LEMMA SourceSteps == ASSUME LInv, PublishSource \/ RemoveSource PROVE LInv'
<1> USE DEF LInv
<1>0. Source \in Paths /\ MaxPubs \in Nat
  BY PathsTyped, LadderAssumption
<1>1. CASE PublishSource
  <2>1. /\ pubs' = pubs + 1 /\ pubs' \in 1..MaxPubs
        /\ registered' = [registered EXCEPT ![Source] = pubs + 1]
        /\ call' = [call EXCEPT ![Source] = [NoCall EXCEPT !.at = "created"]]
    BY <1>1, <1>0 DEF PublishSource, Register, LadderTypeOK
  <2>2. /\ registered'[Source] = pubs + 1 /\ \A p \in Paths : p # Source => registered'[p] = registered[p]
        /\ registered' \in [Paths -> 0..MaxPubs]
    BY <2>1, <1>0 DEF LadderTypeOK
  <2>3. /\ call'[Source] = [at |-> "created", todo |-> {}, cur |-> NoRendition]
        /\ \A p \in Paths : p # Source => call'[p] = call[p]
        /\ call' \in [Paths -> [at : {"none", "created", "spawn"}, todo : SUBSET Renditions,
                         cur : Renditions \cup {NoRendition}]]
    BY <2>1, <1>0 DEF LadderTypeOK, NoCall
  <2>4. LadderTypeOK' /\ request' \in RequestTypes
    BY <1>1, <2>1, <2>2, <2>3 DEF PublishSource, LadderTypeOK, RequestTypes
  <2>5. InProgress'
    BY <1>1, <2>1, <2>2, <2>3 DEF PublishSource, InProgress, Once
  <2>6. Lineage'
    BY <1>1, <2>2, <2>3 DEF PublishSource, Lineage, Once
  <2>7. SourcesOnly'
    BY <1>1, <2>2, <2>3 DEF PublishSource, SourcesOnly, Feeds
  <2>8. SlotsOwed'
    BY <2>3 DEF SlotsOwed, CallOwes
  <2> QED BY <2>4, <2>5, <2>6, <2>7, <2>8
<1>2. CASE RemoveSource
  <2>1. /\ registered'[Source] = 0 /\ \A p \in Paths : p # Source => registered'[p] = registered[p]
        /\ registered' \in [Paths -> 0..MaxPubs]
    BY <1>2, <1>0 DEF RemoveSource, LadderTypeOK
  <2>2. call[Source].at = "none"
    BY <1>2 DEF RemoveSource, NoCall
  <2>3. LadderTypeOK' /\ request' \in RequestTypes
    BY <1>2, <2>1 DEF RemoveSource, LadderTypeOK, RequestTypes
  <2>4. InProgress'
    BY <1>2, <2>1, <2>2 DEF RemoveSource, InProgress, Once
  <2>5. Lineage'
    BY <1>2, <2>1 DEF RemoveSource, Lineage, Once
  <2>6. SourcesOnly'
    BY <1>2 DEF RemoveSource, SourcesOnly, Feeds
  <2>7. SlotsOwed'
    BY <2>1 DEF SlotsOwed
  <2> QED BY <2>3, <2>4, <2>5, <2>6, <2>7
<1> QED BY <1>1, <1>2


RungCalls == [at : {"none", "created", "spawn"}, todo : SUBSET Renditions, cur : Renditions \cup {NoRendition}]

\* What one step of the callback for a path keeps.
LEMMA CallSteps ==
  ASSUME LInv, NEW p \in Paths, call' \in [Paths -> RungCalls],
         \A q \in Paths : q # p => call'[q] = call[q],
         UNCHANGED <<ladder, skip, registered, pubs, request, edits, gone>>,
         call'[p].at # "none" => registered[p] # 0,
         call'[p].cur # NoRendition => call'[p].at = "spawn" /\ Feeds(p),
         call'[p].todo \subseteq Once, call'[p].cur \in Once \cup {NoRendition}
  PROVE  /\ InProgress'
         /\ \A q \in Paths : call'[q].todo \subseteq Once' /\ call'[q].cur \in Once' \cup {NoRendition}
         /\ \A q \in Paths : call'[q].cur # NoRendition => Feeds(q)'
<1> USE DEF LInv
<1>2. InProgress'
  BY DEF InProgress, Once
<1>3. \A q \in Paths : call'[q].todo \subseteq Once' /\ call'[q].cur \in Once' \cup {NoRendition}
  BY DEF Lineage, Once
<1>4. \A q \in Paths : call'[q].cur # NoRendition => Feeds(q)'
  BY DEF SourcesOnly, Feeds
<1> QED BY <1>2, <1>3, <1>4

LEMMA SnapshotStep == ASSUME LInv, NEW p \in Paths, SnapshotLadder(p) PROVE LInv'
<1>1. /\ call'[p].at = "spawn" /\ call'[p].todo = ladder /\ call'[p].cur = NoRendition
      /\ \A q \in Paths : q # p => call'[q] = call[q]
      /\ call' \in [Paths -> RungCalls]
  BY DEF LInv, SnapshotLadder, LadderTypeOK, RungCalls, NoCall
<1>2. registered[p] # 0
  BY DEF LInv, SnapshotLadder, InProgress
<1>3. /\ InProgress'
      /\ \A q \in Paths : call'[q].todo \subseteq Once' /\ call'[q].cur \in Once' \cup {NoRendition}
      /\ \A q \in Paths : call'[q].cur # NoRendition => Feeds(q)'
  <2>1. ladder \subseteq Once
    BY DEF Once
  <2> QED BY <1>1, <1>2, <2>1, CallSteps DEF SnapshotLadder
<1>4. LadderTypeOK' /\ request' \in RequestTypes
  BY <1>1 DEF LInv, SnapshotLadder, LadderTypeOK, RungCalls, RequestTypes
<1>5. Lineage'
  BY <1>3 DEF LInv, SnapshotLadder, Lineage, Once
<1>6. SourcesOnly'
  BY <1>3 DEF LInv, SnapshotLadder, SourcesOnly, Feeds
<1>7. SlotsOwed'
  <2>1. CASE p = Source
    BY <2>1, <1>1 DEF SlotsOwed, CallOwes, SnapshotLadder
  <2>2. CASE p # Source
    BY <2>2, <1>1, PathsTyped DEF LInv, SlotsOwed, CallOwes, RequestOwes, SnapshotLadder
  <2> QED BY <2>1, <2>2
<1> QED BY <1>3, <1>4, <1>5, <1>6, <1>7 DEF LInv

\* What spawn_for lets through comes from a rendition that is off the ladder.
LEMMA SpawnsFeeds ==
  ASSUME LInv, NEW p \in Paths, registered[p] # 0, NEW r \in Renditions, Spawns(r, p)
  PROVE  Feeds(p)
BY DEF LInv, Lineage, Once, Spawns, IsOutput, Feeds, Tip

LEMMA TryStep == ASSUME LInv, NEW p \in Paths, NEW r \in Renditions, CallbackTry(p, r) PROVE LInv'
<1> DEFINE s == IF Spawns(r, p) THEN r ELSE NoRendition
<1>0. (Spawns(r, p) => s = r) /\ (~Spawns(r, p) => s = NoRendition)
  BY Zenon
<1>1. call' = [call EXCEPT ![p].todo = @ \ {r}, ![p].cur = s]
  BY DEF CallbackTry
<1> HIDE DEF s
<1>2. /\ call[p].at = "spawn" /\ call[p].cur = NoRendition /\ r \in call[p].todo
      /\ registered[p] # 0 /\ r \in Once
      /\ UNCHANGED <<ladder, skip, registered, pubs, slots, running, request, edits, gone>>
  BY DEF LInv, CallbackTry, InProgress, Lineage
<1>3. /\ call'[p].at = "spawn" /\ call'[p].todo = call[p].todo \ {r} /\ call'[p].cur = s
      /\ \A q \in Paths : q # p => call'[q] = call[q]
      /\ call' \in [Paths -> RungCalls]
  <2>1. call \in [Paths -> RungCalls] /\ call[p] \in RungCalls
    BY DEF LInv, LadderTypeOK, RungCalls
  <2>2. DOMAIN call' = Paths /\ \A q \in Paths : q # p => call'[q] = call[q]
    BY <1>1, <2>1
  <2>3. call'[p] = [call[p] EXCEPT !.todo = @ \ {r}, !.cur = s]
    BY <1>1, <2>1
  <2>4. /\ call'[p].at = "spawn" /\ call'[p].todo = call[p].todo \ {r} /\ call'[p].cur = s
        /\ call'[p] \in RungCalls
    BY <1>0, <1>2, <2>1, <2>3 DEF RungCalls
  <2> QED BY <2>1, <2>2, <2>4, <1>1
<1>4. Feeds(p) \/ s = NoRendition
  BY <1>0, <1>2, SpawnsFeeds
<1>5. call'[p].todo \subseteq Once /\ call'[p].cur \in Once \cup {NoRendition}
  BY <1>0, <1>2, <1>3 DEF LInv, Lineage
<1>6. /\ InProgress'
      /\ \A q \in Paths : call'[q].todo \subseteq Once' /\ call'[q].cur \in Once' \cup {NoRendition}
      /\ \A q \in Paths : call'[q].cur # NoRendition => Feeds(q)'
  BY <1>2, <1>3, <1>4, <1>5, CallSteps
<1>7. LadderTypeOK' /\ request' \in RequestTypes
  BY <1>2, <1>3 DEF LInv, LadderTypeOK, RungCalls, RequestTypes
<1>8. Lineage'
  BY <1>2, <1>6 DEF LInv, Lineage, Once
<1>9. SourcesOnly'
  BY <1>2, <1>6 DEF LInv, SourcesOnly, Feeds
<1>10. SlotsOwed'
  <2>1. CASE p = Source
    <3>1. <<r, Source>> \in slots \/ s = r
      BY <2>1, <1>0 DEF Spawns, IsOutput
    <3> SUFFICES ASSUME registered[Source] # 0, NEW x \in ladder
                 PROVE <<x, Source>> \in slots \/ CallOwes(x)' \/ RequestOwes(x)
      BY <1>2 DEF SlotsOwed, RequestOwes
    <3>4. <<x, Source>> \in slots \/ x \in call[p].todo \/ RequestOwes(x)
      BY <2>1, <1>2, LadderAssumption DEF LInv, LadderTypeOK, SlotsOwed, CallOwes
    <3> QED BY <2>1, <3>1, <3>4, <1>3 DEF CallOwes
  <2>2. CASE p # Source
    BY <2>2, <1>2, <1>3, PathsTyped DEF LInv, SlotsOwed, CallOwes, RequestOwes
  <2> QED BY <2>1, <2>2
<1> QED BY <1>6, <1>7, <1>8, <1>9, <1>10, <1>2 DEF LInv


RungDrains == [of : Renditions, path : Paths, pub : 1..MaxPubs, started : BOOLEAN, aborted : BOOLEAN]

\* What spawn_for's insert does to the task map and the drains.
LEMMA OccupySteps ==
  ASSUME LInv, NEW p \in Paths, NEW r \in Renditions, NEW i \in 1..MaxPubs, Occupy(r, p, i)
  PROVE  /\ slots' \subseteq Renditions \X Paths /\ running' \subseteq RungDrains
         /\ slots \subseteq slots' /\ <<r, p>> \in slots'
         /\ \A d \in running' : d \in running \/ (d.of = r /\ d.path = p)
<1>0. slots \subseteq Renditions \X Paths /\ running \subseteq RungDrains
  BY DEF LInv, LadderTypeOK, RungDrains
<1>1. CASE <<r, p>> \in slots
  <2>1. slots' = slots /\ running' = running
    BY <1>1 DEF Occupy
  <2> QED BY <1>0, <1>1, <2>1
<1>2. CASE <<r, p>> \notin slots
  <2>1. slots' = slots \cup {<<r, p>>} /\ running' = running \cup {Drain(r, p, i, FALSE)}
    BY <1>2 DEF Occupy
  <2>2. Drain(r, p, i, FALSE) \in RungDrains /\ Drain(r, p, i, FALSE).of = r /\ Drain(r, p, i, FALSE).path = p
    BY DEF Drain, RungDrains
  <2> DEFINE n == Drain(r, p, i, FALSE)
  <2>3. n \in RungDrains /\ n.of = r /\ n.path = p /\ running' = running \cup {n}
    BY <2>1, <2>2
  <2> HIDE DEF n
  <2>4. running' \subseteq RungDrains /\ \A d \in running' : d \in running \/ (d.of = r /\ d.path = p)
    BY <1>0, <2>3
  <2>5. <<r, p>> \in Renditions \X Paths
    OBVIOUS
  <2>6. slots' \subseteq Renditions \X Paths /\ slots \subseteq slots' /\ <<r, p>> \in slots'
    BY <1>0, <2>1, <2>5
  <2> QED BY <2>4, <2>6
<1> QED BY <1>1, <1>2

\* Renditions in hand are renditions, a registered path has a publication.
LEMMA HandTypes ==
  ASSUME LInv
  PROVE  /\ Once \subseteq Renditions /\ NoRendition \notin Once /\ NoRendition \notin Renditions
         /\ \A p \in Paths : registered[p] # 0 => registered[p] \in 1..MaxPubs
         /\ request.at # "idle" => request.of \in Renditions
         /\ request.path \in Paths
         /\ request.pub # 0 => request.pub \in 1..MaxPubs
<1>1. MaxPubs \in Nat
  BY LadderAssumption
<1>2. Once \subseteq Renditions /\ NoRendition \notin Renditions
  BY LadderAssumption DEF LInv, LadderTypeOK, Once
<1>3. \A p \in Paths : registered[p] # 0 => registered[p] \in 1..MaxPubs
  BY <1>1 DEF LInv, LadderTypeOK
<1>4. request.at # "idle" => request.of \in Renditions
  BY <1>2 DEF LInv, InProgress
<1>5. request.path \in Paths /\ request.pub \in 0..MaxPubs
  BY DEF LInv, RequestTypes
<1> QED BY <1>1, <1>2, <1>3, <1>4, <1>5

LEMMA SpawnStep == ASSUME LInv, NEW p \in Paths, CallbackSpawn(p) PROVE LInv'
<1> DEFINE r == call[p].cur
<1>0. /\ r \in Renditions /\ r \in Once /\ Feeds(p) /\ registered[p] \in 1..MaxPubs /\ call[p].at = "spawn"
      /\ registered[p] # 0 /\ Occupy(r, p, registered[p])
      /\ UNCHANGED <<ladder, skip, registered, pubs, request, edits, gone>>
  BY HandTypes DEF LInv, CallbackSpawn, Lineage, SourcesOnly, InProgress
<1>1. /\ slots' \subseteq Renditions \X Paths /\ running' \subseteq RungDrains
      /\ slots \subseteq slots' /\ <<r, p>> \in slots'
      /\ \A d \in running' : d \in running \/ (d.of = r /\ d.path = p)
  BY <1>0, OccupySteps
<1>2. /\ call'[p].at = "spawn" /\ call'[p].todo = call[p].todo /\ call'[p].cur = NoRendition
      /\ \A q \in Paths : q # p => call'[q] = call[q]
      /\ call' \in [Paths -> RungCalls]
  <2>1. call \in [Paths -> RungCalls] /\ call[p] \in RungCalls
    BY DEF LInv, LadderTypeOK, RungCalls
  <2>2. call' = [call EXCEPT ![p].cur = NoRendition]
    BY DEF CallbackSpawn
  <2> QED BY <1>0, <2>1, <2>2 DEF RungCalls
<1> HIDE DEF r
<1>3. /\ InProgress'
      /\ \A q \in Paths : call'[q].todo \subseteq Once' /\ call'[q].cur \in Once' \cup {NoRendition}
      /\ \A q \in Paths : call'[q].cur # NoRendition => Feeds(q)'
  <2>1. call'[p].todo \subseteq Once
    BY <1>2 DEF LInv, Lineage
  <2> QED BY <1>0, <1>2, <2>1, CallSteps
<1>4. LadderTypeOK' /\ request' \in RequestTypes
  BY <1>0, <1>1, <1>2 DEF LInv, LadderTypeOK, RungCalls, RungDrains, RequestTypes
<1>5. Lineage'
  BY <1>0, <1>1, <1>3 DEF LInv, Lineage, Once
<1>6. SourcesOnly'
  <2>1. \A d \in running' : Feeds(d.path)'
    BY <1>0, <1>1 DEF LInv, SourcesOnly, Feeds
  <2> QED BY <1>0, <1>3, <2>1 DEF LInv, SourcesOnly, Feeds
<1>7. SlotsOwed'
  <2> SUFFICES ASSUME registered[Source] # 0, NEW x \in ladder
               PROVE <<x, Source>> \in slots' \/ CallOwes(x)' \/ RequestOwes(x)
    BY <1>0 DEF SlotsOwed, RequestOwes
  <2>1. <<x, Source>> \in slots \/ CallOwes(x) \/ RequestOwes(x)
    BY DEF LInv, SlotsOwed
  <2>2. CASE p = Source
    BY <2>1, <2>2, <1>0, <1>1, <1>2 DEF CallOwes, r
  <2>3. CASE p # Source
    BY <2>1, <2>3, <1>0, <1>1, <1>2, PathsTyped DEF CallOwes
  <2> QED BY <2>2, <2>3
<1> QED BY <1>0, <1>3, <1>4, <1>5, <1>6, <1>7 DEF LInv

LEMMA ReturnStep == ASSUME LInv, NEW p \in Paths, CallbackReturn(p) PROVE LInv'
<1>1. /\ call[p].at = "spawn" /\ call[p].todo = {} /\ call[p].cur = NoRendition
      /\ UNCHANGED <<ladder, skip, registered, pubs, slots, running, request, edits, gone>>
  BY DEF CallbackReturn
<1>2. /\ call'[p].at = "none" /\ call'[p].todo = {} /\ call'[p].cur = NoRendition
      /\ \A q \in Paths : q # p => call'[q] = call[q]
      /\ call' \in [Paths -> RungCalls]
  BY DEF CallbackReturn, LInv, LadderTypeOK, RungCalls, NoCall
<1>3. /\ InProgress'
      /\ \A q \in Paths : call'[q].todo \subseteq Once' /\ call'[q].cur \in Once' \cup {NoRendition}
      /\ \A q \in Paths : call'[q].cur # NoRendition => Feeds(q)'
  BY <1>1, <1>2, CallSteps
<1>4. LadderTypeOK' /\ request' \in RequestTypes
  BY <1>1, <1>2 DEF LInv, LadderTypeOK, RungCalls, RequestTypes
<1>5. Lineage'
  BY <1>1, <1>3 DEF LInv, Lineage, Once
<1>6. SourcesOnly'
  BY <1>1, <1>3 DEF LInv, SourcesOnly, Feeds
<1>7. SlotsOwed'
  <2> SUFFICES ASSUME registered[Source] # 0, NEW x \in ladder
               PROVE <<x, Source>> \in slots \/ CallOwes(x)' \/ RequestOwes(x)
    BY <1>1 DEF SlotsOwed, RequestOwes
  <2>0. x # NoRendition
    BY HandTypes DEF Once
  <2>1. <<x, Source>> \in slots \/ CallOwes(x) \/ RequestOwes(x)
    BY DEF LInv, SlotsOwed
  <2>2. CASE p = Source
    BY <2>0, <2>1, <2>2, <1>1 DEF CallOwes
  <2>3. CASE p # Source
    BY <2>1, <2>3, <1>1, <1>2, PathsTyped DEF CallOwes
  <2> QED BY <2>2, <2>3
<1> QED BY <1>1, <1>3, <1>4, <1>5, <1>6, <1>7 DEF LInv


\* A path that is registered at the source stays so in other steps, and so do
\* the debts of the callback and of the request.
LEMMA SameDebts ==
  ASSUME LInv, UNCHANGED ladder, slots \subseteq slots', registered'[Source] = registered[Source],
         call'[Source] = call[Source], UNCHANGED request
  PROVE  SlotsOwed'
<1> SUFFICES ASSUME registered[Source] # 0, NEW x \in ladder
             PROVE <<x, Source>> \in slots' \/ CallOwes(x)' \/ RequestOwes(x)'
  BY DEF SlotsOwed
<1>1. <<x, Source>> \in slots \/ CallOwes(x) \/ RequestOwes(x)
  BY DEF LInv, SlotsOwed
<1> QED BY <1>1 DEF CallOwes, RequestOwes

\* A drain task goes on or ends.
LEMMA DrainSteps ==
  ASSUME LInv, NEW d \in running, OnStart(d) \/ OnStartPanics(d) \/ DriveEnds(d) PROVE LInv'
<1>0. d \in RungDrains /\ d.of \in Once /\ Feeds(d.path) /\ running \subseteq RungDrains
  BY DEF LInv, LadderTypeOK, RungDrains, Lineage, SourcesOnly
<1>1. CASE OnStart(d)
  <2> DEFINE e == [d EXCEPT !.started = TRUE]
             out == Append(d.path, d.of)
             new == Len(out) <= MaxDepth /\ registered[out] = 0
  <2>1. /\ e \in RungDrains /\ e.of = d.of /\ e.path = d.path
        /\ running' \subseteq running \cup {e}
    BY <1>0, <1>1 DEF RungDrains, OnStart
  <2> HIDE DEF e
  <2>2. running' \subseteq RungDrains /\ \A f \in running' : f.of \in Once /\ Feeds(f.path)
    BY <1>0, <2>1 DEF LInv, Lineage, SourcesOnly
  <2>3. /\ out # Source /\ Tip(out) \in Once
        /\ Len(out) <= MaxDepth => out \in Paths
        /\ Source \in Paths /\ 1 \in 0..MaxPubs
    <3>1. d.path \in Paths /\ d.of \in Renditions /\ d.pub \in 1..MaxPubs /\ MaxPubs \in Nat
      BY <1>0, LadderAssumption DEF RungDrains
    <3>2. 1 \in 0..MaxPubs
      BY <3>1
    <3>3. out # Source /\ Tip(out) = d.of /\ (Len(out) <= MaxDepth => out \in Paths)
      BY <3>1, PathsTyped
    <3> QED BY <1>0, <3>2, <3>3, PathsTyped
  <2>4. UNCHANGED <<ladder, skip, pubs, slots, request, edits, gone>>
    BY <1>1 DEF OnStart
  <2>5. /\ registered' \in [Paths -> 0..MaxPubs] /\ registered'[Source] = registered[Source]
        /\ \A p \in Paths : /\ registered[p] # 0 => registered'[p] # 0
                            /\ registered'[p] # 0 => registered[p] # 0 \/ p = out
        /\ call' \in [Paths -> RungCalls] /\ call'[Source] = call[Source]
        /\ \A p \in Paths : \/ call'[p] = call[p]
                            \/ /\ call'[p].at = "created" /\ call'[p].todo = {} /\ call'[p].cur = NoRendition
                               /\ registered'[p] # 0
    <3>0. registered \in [Paths -> 0..MaxPubs] /\ call \in [Paths -> RungCalls]
      BY DEF LInv, LadderTypeOK, RungCalls
    <3>1. CASE new
      <4>1. Register(out, 1) /\ out \in Paths
        BY <1>1, <2>3, <3>1 DEF OnStart
      <4>2. /\ registered' \in [Paths -> 0..MaxPubs] /\ registered'[out] = 1
            /\ \A p \in Paths : p # out => registered'[p] = registered[p]
        BY <2>3, <3>0, <4>1 DEF Register
      <4>3. /\ call' \in [Paths -> RungCalls]
            /\ call'[out].at = "created" /\ call'[out].todo = {} /\ call'[out].cur = NoRendition
            /\ \A p \in Paths : p # out => call'[p] = call[p]
        BY <3>0, <4>1 DEF Register, NoCall, RungCalls
      <4> HIDE DEF out
      <4>4. /\ registered'[Source] = registered[Source] /\ call'[Source] = call[Source]
            /\ registered'[out] # 0
        BY <2>3, <4>2, <4>3
      <4>5. \A p \in Paths : /\ registered[p] # 0 => registered'[p] # 0
                            /\ registered'[p] # 0 => registered[p] # 0 \/ p = out
        BY <4>2
      <4>6. \A p \in Paths : \/ call'[p] = call[p]
                             \/ /\ call'[p].at = "created" /\ call'[p].todo = {} /\ call'[p].cur = NoRendition
                                /\ registered'[p] # 0
        BY <4>3, <4>4
      <4> QED BY <4>2, <4>3, <4>4, <4>5, <4>6
    <3>2. CASE ~new
      <4>1. registered' = registered /\ call' = call
        BY <1>1, <3>2 DEF OnStart
      <4> QED BY <3>0, <4>1
    <3> QED BY <3>1, <3>2
  <2> HIDE DEF out, new
  <2>6. LadderTypeOK' /\ request' \in RequestTypes
    BY <2>2, <2>4, <2>5 DEF LInv, LadderTypeOK, RungCalls, RungDrains, RequestTypes
  <2>7. InProgress'
    BY <2>4, <2>5 DEF LInv, InProgress, Once
  <2>8. Lineage'
    <3>1. \A p \in Paths : registered'[p] # 0 => p = Source \/ Tip(p) \in Once
      BY <2>3, <2>5 DEF LInv, Lineage
    <3>2. \A p \in Paths : call'[p].todo \subseteq Once /\ call'[p].cur \in Once \cup {NoRendition}
      BY <2>5 DEF LInv, Lineage
    <3> QED BY <2>2, <2>4, <3>1, <3>2 DEF Lineage, Once
  <2>9. SourcesOnly'
    BY <2>2, <2>4, <2>5 DEF LInv, SourcesOnly, Feeds
  <2>10. SlotsOwed'
    BY <2>4, <2>5, SameDebts
  <2> QED BY <2>6, <2>7, <2>8, <2>9, <2>10 DEF LInv
<1>2. CASE OnStartPanics(d) \/ DriveEnds(d)
  <2>1. /\ running' = running \ {d}
        /\ UNCHANGED <<ladder, skip, registered, pubs, call, slots, request, edits, gone>>
    BY <1>2 DEF OnStartPanics, DriveEnds
  <2>2. LadderTypeOK' /\ request' \in RequestTypes
    BY <2>1 DEF LInv, LadderTypeOK, RequestTypes
  <2>3. InProgress' /\ Lineage' /\ SourcesOnly'
    BY <2>1 DEF LInv, InProgress, Lineage, SourcesOnly, Once, Feeds
  <2>4. SlotsOwed'
    BY <2>1, SameDebts
  <2> QED BY <2>2, <2>3, <2>4 DEF LInv
<1> QED BY <1>1, <1>2

\* Nothing but the ladder, the request and what RemoveRendition takes away.
LEMMA AddStep == ASSUME LInv, NEW r \in Renditions, AddRendition(r) PROVE LInv'
<1>1. /\ ladder' = ladder \cup {r} /\ skip' = [skip EXCEPT ![r] = ladder] /\ edits' = edits + 1
      /\ edits < MaxEdits /\ request = NoRequest
      /\ request' = [NoRequest EXCEPT !.at = "keys", !.of = r]
      /\ UNCHANGED <<registered, pubs, call, slots, running, gone>>
  BY DEF AddRendition
<1>2. request'.at = "keys" /\ request'.of = r /\ request' \in RequestTypes
  <2>1. 0 \in 0..MaxPubs /\ Source \in Paths
    BY PathsTyped, LadderAssumption
  <2>2. request' = [at |-> "keys", of |-> r, paths |-> {}, path |-> Source, pub |-> 0]
    BY <1>1 DEF NoRequest
  <2> QED BY <2>1, <2>2 DEF RequestTypes
<1>3. LadderTypeOK'
  <2>1. edits' \in 0..MaxEdits
    BY <1>1, LadderAssumption DEF LInv, LadderTypeOK
  <2> QED BY <1>1, <1>2, <2>1 DEF LInv, LadderTypeOK
<1>4. Once' = Once \cup {r}
  BY <1>1 DEF Once
<1>5. InProgress' /\ Lineage' /\ SourcesOnly'
  BY <1>1, <1>2, <1>4 DEF LInv, InProgress, Lineage, SourcesOnly, Feeds
<1>6. SlotsOwed'
  <2> SUFFICES ASSUME registered[Source] # 0, NEW x \in ladder'
               PROVE <<x, Source>> \in slots \/ CallOwes(x) \/ RequestOwes(x)'
    BY <1>1 DEF SlotsOwed, CallOwes
  <2>1. ~RequestOwes(x)
    BY <1>1 DEF RequestOwes, NoRequest
  <2>2. CASE x \in ladder
    BY <2>1, <2>2 DEF LInv, SlotsOwed
  <2>3. CASE x = r
    BY <2>3, <1>2 DEF RequestOwes
  <2> QED BY <1>1, <2>2, <2>3
<1> QED BY <1>2, <1>3, <1>5, <1>6 DEF LInv

LEMMA RemoveStep == ASSUME LInv, NEW r \in Renditions, RemoveRendition(r) PROVE LInv'
<1>1. /\ ladder' = ladder \ {r} /\ gone' = gone \cup {r} /\ edits' = edits + 1 /\ r \in ladder
      /\ edits < MaxEdits /\ request = NoRequest
      /\ request' = [NoRequest EXCEPT !.at = "retain", !.of = r, !.paths = Paths]
      /\ UNCHANGED <<skip, registered, pubs, call, slots, running>>
  BY DEF RemoveRendition
<1>2. request'.at = "retain" /\ request'.of = r /\ request' \in RequestTypes
  <2>1. 0 \in 0..MaxPubs /\ Source \in Paths
    BY PathsTyped, LadderAssumption
  <2>2. request' = [at |-> "retain", of |-> r, paths |-> Paths, path |-> Source, pub |-> 0]
    BY <1>1 DEF NoRequest
  <2> QED BY <2>1, <2>2 DEF RequestTypes
<1>3. LadderTypeOK'
  <2>1. edits' \in 0..MaxEdits
    BY <1>1, LadderAssumption DEF LInv, LadderTypeOK
  <2> QED BY <1>1, <1>2, <2>1 DEF LInv, LadderTypeOK
<1>4. Once' = Once /\ r \in Once
  BY <1>1 DEF Once
<1>5. InProgress' /\ Lineage'
  BY <1>1, <1>2, <1>4 DEF LInv, InProgress, Lineage
<1>6. SourcesOnly'
  BY <1>1, <1>2 DEF LInv, SourcesOnly, Feeds
<1>7. SlotsOwed'
  <2> SUFFICES ASSUME registered[Source] # 0, NEW x \in ladder'
               PROVE <<x, Source>> \in slots \/ CallOwes(x)
    BY <1>1 DEF SlotsOwed, CallOwes
  <2>1. ~RequestOwes(x)
    BY <1>1 DEF RequestOwes, NoRequest
  <2> QED BY <1>1, <2>1 DEF LInv, SlotsOwed
<1> QED BY <1>2, <1>3, <1>5, <1>6, <1>7 DEF LInv


\* A step of the request that leaves the ladder, the callbacks and the outputs
\* alone: its debt is paid, or still owed.
LEMMA RequestMoves ==
  ASSUME LInv, UNCHANGED <<ladder, skip, registered, pubs, call, edits, gone>>,
         request' \in RequestTypes,
         request'.at # "idle" => request'.of \in Once,
         request'.at = "insert" => request'.pub # 0 /\ Feeds(request'.path),
         request'.at = "retain" => request'.of \notin ladder,
         slots' \subseteq Renditions \X Paths, running' \subseteq RungDrains,
         \A d \in running' : d.of \in Once /\ Feeds(d.path),
         registered[Source] # 0 =>
           \A x \in ladder : <<x, Source>> \in slots \/ RequestOwes(x) => <<x, Source>> \in slots' \/ RequestOwes(x)'
  PROVE  LInv'
<1>1. LadderTypeOK'
  BY DEF LInv, LadderTypeOK, RequestTypes, RungDrains
<1>2. InProgress'
  BY DEF LInv, InProgress, Once
<1>3. Lineage'
  BY DEF LInv, Lineage, Once
<1>4. SourcesOnly'
  BY DEF LInv, SourcesOnly, Feeds
<1>5. SlotsOwed'
  BY DEF LInv, SlotsOwed, CallOwes
<1> QED BY <1>1, <1>2, <1>3, <1>4, <1>5 DEF LInv

LEMMA KeysStep == ASSUME LInv, AddRenditionKeys PROVE LInv'
<1>1. /\ request.at = "keys" /\ request \in RequestTypes
      /\ request' = [request EXCEPT !.at = "each", !.paths = {p \in Paths : registered[p] # 0}]
      /\ UNCHANGED <<ladder, skip, registered, pubs, call, slots, running, edits, gone>>
  BY DEF AddRenditionKeys, LInv
<1>2. /\ request' \in RequestTypes /\ request'.at = "each" /\ request'.of = request.of
      /\ request'.paths = {p \in Paths : registered[p] # 0}
  BY <1>1 DEF RequestTypes
<1>3. ASSUME registered[Source] # 0, NEW x \in ladder, RequestOwes(x) PROVE RequestOwes(x)'
  BY <1>1, <1>2, <1>3, PathsTyped DEF RequestOwes
<1>4. request.of \in Once
  BY <1>1 DEF LInv, InProgress
<1>5. slots \subseteq Renditions \X Paths /\ running \subseteq RungDrains
      /\ \A d \in running : d.of \in Once /\ Feeds(d.path)
  BY DEF LInv, LadderTypeOK, RungDrains, Lineage, SourcesOnly
<1> QED BY <1>1, <1>2, <1>3, <1>4, <1>5, RequestMoves

LEMMA RetroTryStep == ASSUME LInv, NEW p \in Paths, AddRenditionTry(p) PROVE LInv'
<1> DEFINE go == registered[p] # 0 /\ Spawns(request.of, p)
<1>1. /\ request.at = "each" /\ p \in request.paths /\ request \in RequestTypes
      /\ request.of \in Once /\ request.of \in Renditions
      /\ UNCHANGED <<ladder, skip, registered, pubs, call, slots, running, edits, gone>>
  BY HandTypes DEF AddRenditionTry, LInv, InProgress
<1>2. slots \subseteq Renditions \X Paths /\ running \subseteq RungDrains
      /\ \A d \in running : d.of \in Once /\ Feeds(d.path)
  BY DEF LInv, LadderTypeOK, RungDrains, Lineage, SourcesOnly
<1>3. CASE go
  <2>1. request' = [request EXCEPT !.at = "insert", !.paths = @ \ {p}, !.path = p, !.pub = registered[p]]
    BY <1>3 DEF AddRenditionTry
  <2>2. registered[p] \in 0..MaxPubs
    BY DEF LInv, LadderTypeOK
  <2>3. /\ request' \in RequestTypes /\ request'.at = "insert" /\ request'.of = request.of
        /\ request'.paths = request.paths \ {p} /\ request'.path = p /\ request'.pub = registered[p]
    BY <1>1, <2>1, <2>2 DEF RequestTypes
  <2>4. Feeds(p) /\ registered[p] # 0
    BY <1>1, <1>3, SpawnsFeeds
  <2>5. ASSUME NEW x \in ladder, RequestOwes(x) PROVE RequestOwes(x)'
    BY <1>1, <2>3, <2>5 DEF RequestOwes
  <2> QED BY <1>1, <1>2, <2>3, <2>4, <2>5, RequestMoves
<1>4. CASE ~go
  <2>1. request' = [request EXCEPT !.paths = @ \ {p}]
    BY <1>4 DEF AddRenditionTry
  <2>2. /\ request' \in RequestTypes /\ request'.at = "each" /\ request'.of = request.of
        /\ request'.paths = request.paths \ {p}
    BY <1>1, <2>1 DEF RequestTypes
  <2>3. ASSUME registered[Source] # 0, NEW x \in ladder, RequestOwes(x)
        PROVE <<x, Source>> \in slots \/ RequestOwes(x)'
    <3>1. CASE p = Source
      <4>1. ~Spawns(request.of, Source)
        BY <1>4, <2>3, <3>1
      <4> QED BY <2>3, <4>1 DEF Spawns, IsOutput, RequestOwes
    <3>2. CASE p # Source
      BY <1>1, <2>2, <2>3, <3>2 DEF RequestOwes
    <3> QED BY <3>1, <3>2
  <2> QED BY <1>1, <1>2, <2>2, <2>3, RequestMoves
<1> QED BY <1>3, <1>4

LEMMA RetroSpawnStep == ASSUME LInv, AddRenditionSpawn PROVE LInv'
<1> DEFINE r == request.of
           p == request.path
<1>1. /\ request.at = "insert" /\ request \in RequestTypes
      /\ r \in Once /\ r \in Renditions /\ p \in Paths /\ request.pub \in 1..MaxPubs /\ Feeds(p)
      /\ UNCHANGED <<ladder, skip, registered, pubs, call, edits, gone>>
  BY HandTypes DEF AddRenditionSpawn, LInv, InProgress, SourcesOnly
<1>2. /\ slots' \subseteq Renditions \X Paths /\ running' \subseteq RungDrains
      /\ slots \subseteq slots' /\ <<r, p>> \in slots'
      /\ \A d \in running' : d \in running \/ (d.of = r /\ d.path = p)
  BY <1>1, OccupySteps DEF AddRenditionSpawn
<1>3. \A d \in running' : d.of \in Once /\ Feeds(d.path)
  BY <1>1, <1>2 DEF LInv, Lineage, SourcesOnly
<1>4. /\ request' \in RequestTypes /\ request'.at = "each" /\ request'.of = r /\ request'.paths = request.paths
  <2>1. 0 \in 0..MaxPubs /\ Source \in Paths
    BY PathsTyped, LadderAssumption
  <2>2. request' = [request EXCEPT !.at = "each", !.path = Source, !.pub = 0]
    BY DEF AddRenditionSpawn
  <2> QED BY <1>1, <2>1, <2>2 DEF RequestTypes
<1>5. ASSUME NEW x \in ladder, RequestOwes(x) PROVE <<x, Source>> \in slots' \/ RequestOwes(x)'
  BY <1>1, <1>2, <1>4, <1>5 DEF RequestOwes
<1> HIDE DEF r, p
<1> QED BY <1>1, <1>2, <1>3, <1>4, <1>5, RequestMoves

LEMMA DoneStep == ASSUME LInv, RequestDone PROVE LInv'
<1>1. /\ request.at \in {"each", "retain"} /\ request.paths = {} /\ request' = NoRequest
      /\ UNCHANGED <<ladder, skip, registered, pubs, call, slots, running, edits, gone>>
  BY DEF RequestDone
<1>2. request' \in RequestTypes /\ request'.at = "idle"
  <2>1. 0 \in 0..MaxPubs /\ Source \in Paths
    BY PathsTyped, LadderAssumption
  <2> QED BY <1>1, <2>1 DEF RequestTypes, NoRequest
<1>3. \A x \in ladder : ~RequestOwes(x)
  BY <1>1 DEF RequestOwes
<1>4. slots \subseteq Renditions \X Paths /\ running \subseteq RungDrains
      /\ \A d \in running : d.of \in Once /\ Feeds(d.path)
  BY DEF LInv, LadderTypeOK, RungDrains, Lineage, SourcesOnly
<1> QED BY <1>1, <1>2, <1>3, <1>4, RequestMoves

LEMMA RetainStep == ASSUME LInv, RemoveRenditionTask PROVE LInv'
<1>1. PICK p \in request.paths, starting \in BOOLEAN :
        LET hit == {d \in running : d.of = request.of /\ d.path = p /\ ~d.aborted /\ <<d.of, p>> \in slots}
            goesOn == {d \in hit : starting /\ ~d.started} IN
        /\ request' = [request EXCEPT !.paths = @ \ {p}]
        /\ slots' = slots \ {<<request.of, p>>}
        /\ running' = (running \ hit) \cup {[d EXCEPT !.aborted = TRUE] : d \in goesOn}
  BY DEF RemoveRenditionTask
<1>2. /\ request.at = "retain" /\ request \in RequestTypes /\ request.of \in Once /\ request.of \notin ladder
      /\ UNCHANGED <<ladder, skip, registered, pubs, call, edits, gone>>
  BY DEF RemoveRenditionTask, LInv, InProgress
<1>3. request' \in RequestTypes /\ request'.at = "retain" /\ request'.of = request.of
  BY <1>1, <1>2 DEF RequestTypes
<1>4. slots' \subseteq Renditions \X Paths /\ running' \subseteq RungDrains
      /\ \A d \in running' : d.of \in Once /\ Feeds(d.path)
  <2>1. /\ slots \subseteq Renditions \X Paths /\ running \subseteq RungDrains
        /\ \A d \in running : d.of \in Once /\ Feeds(d.path)
    BY DEF LInv, LadderTypeOK, RungDrains, Lineage, SourcesOnly
  <2>2. ASSUME NEW d \in running
        PROVE  /\ [d EXCEPT !.aborted = TRUE] \in RungDrains
               /\ [d EXCEPT !.aborted = TRUE].of = d.of /\ [d EXCEPT !.aborted = TRUE].path = d.path
    BY <2>1 DEF RungDrains
  <2>3. \A e \in running' : e \in running \/ \E d \in running : e = [d EXCEPT !.aborted = TRUE]
    BY <1>1
  <2> QED BY <1>1, <2>1, <2>2, <2>3
<1>5. ASSUME NEW x \in ladder, <<x, Source>> \in slots \/ RequestOwes(x) PROVE <<x, Source>> \in slots'
  BY <1>1, <1>2, <1>5 DEF RequestOwes
<1> QED BY <1>2, <1>3, <1>4, <1>5, RequestMoves

LEMMA LadderStep == ASSUME LInv, [LadderNext]_transcode PROVE LInv'
<1>1. CASE UNCHANGED transcode
  BY <1>1 DEF transcode, LInv, LadderTypeOK, RequestTypes, InProgress, Once, Lineage, SourcesOnly, Feeds,
     SlotsOwed, CallOwes, RequestOwes
<1>2. CASE LadderNext
  BY <1>2, SourceSteps, SnapshotStep, TryStep, SpawnStep, ReturnStep, DrainSteps, AddStep, RemoveStep,
     KeysStep, RetroTryStep, RetroSpawnStep, DoneStep, RetainStep DEF LadderNext
<1> QED BY <1>1, <1>2

LEMMA LInvImplies == LInv => LadderInv
<1> SUFFICES ASSUME LInv PROVE LadderInv
  OBVIOUS
<1>1. NoSelfFeeding
  BY DEF LInv, SourcesOnly, Feeds, Tip, NoSelfFeeding
<1>2. LadderComplete
  BY DEF LInv, SlotsOwed, CallOwes, RequestOwes, LadderComplete, NoRequest, NoCall
<1> QED BY <1>1, <1>2 DEF LInv, LadderInv

-----------------------------------------------------------------------------
(***************************************************************************)
(* The worker of one rendition.  What has come out, what the pipeline      *)
(* holds and what the channel holds are, one after the other, the source   *)
(* without what a full channel cost, as long as nothing broke.             *)
(***************************************************************************)

\* What is on its way from the source to the output of a transcoder, in
\* order: what came out, what the pipeline holds, what the channel holds.
Elems(s) == {s[i] : i \in DOMAIN s}
Rising(s) == \A i, j \in DOMAIN s : i < j => s[i] < s[j]
Below(s, t) == \A x \in Elems(s), y \in Elems(t) : x < y
InPipe(e, h, c, full, n) ==
  /\ Rising(e) /\ Rising(h) /\ Rising(c)
  /\ Below(e, h) /\ Below(e, c) /\ Below(h, c)
  /\ Elems(e) \cup Elems(h) \cup Elems(c) = (1..n) \ full
  /\ full \subseteq 1..n

WorkerTypes ==
  /\ WorkerTypeOK
  /\ chan \in Seq(Nat) /\ emitted \in Seq(Nat)
  /\ encoder \in [at : {"null", "plays", "eos", "failed"}, holds : Seq(Nat), primed : BOOLEAN]
  /\ backend.name \in DOMAIN Pipelines

\* Where the drain, the thread and the pipeline are at the same time.
WorkerPhases ==
  /\ drain \in {"idle", "refused", "start"} => thread = "none" /\ feed = 0 /\ emitted = <<>> /\ lost.full = {}
  /\ thread = "none" => ~sender
  /\ thread \in {"none", "start", "exited"} => encoder = Null
  /\ thread \in {"none", "exited"} => chan = <<>>
  /\ backend.name \in Forwarders => thread = "none"
  /\ drain = "ended" => thread \in {"none", "exited"}
  /\ sender => drain = "run"

\* What makes a loss, and what an unbroken transcoder can count on.
Unbroken ==
  ~lost.broken =>
    /\ drain = "run" => sender \/ backend.name \in Forwarders
    /\ thread \in {"drain", "exited"} => ~sender
    /\ thread = "drain" => chan = <<>>
    /\ encoder.at # "failed"
    /\ thread # "none" => init.known
    /\ encoder.at = "plays" => encoder.primed
    /\ emitted # <<>> => init.output
    /\ backend.name \in Forwarders /\ drain = "run" => init.output
    /\ backend.name # "passthrough" => InPipe(emitted, encoder.holds, chan, lost.full, feed)

WInv == WorkerTypes /\ WorkerPhases /\ Unbroken /\ ProbeCoversPipeline

-----------------------------------------------------------------------------
(* Sequences that rise.                                                    *)

LEMMA AppendElems ==
  ASSUME NEW s \in Seq(Nat), NEW x \in Nat
  PROVE  /\ Elems(Append(s, x)) = Elems(s) \cup {x} /\ Append(s, x) \in Seq(Nat)
         /\ Rising(s) /\ (\A y \in Elems(s) : y < x) => Rising(Append(s, x))
<1> DEFINE t == Append(s, x)
<1>1. /\ t \in Seq(Nat) /\ Len(t) = Len(s) + 1 /\ t[Len(s) + 1] = x
      /\ \A i \in 1..Len(s) : t[i] = s[i]
      /\ Len(s) \in Nat /\ DOMAIN t = 1..(Len(s) + 1) /\ DOMAIN s = 1..Len(s)
  OBVIOUS
<1> HIDE DEF t
<1>2. Elems(t) = Elems(s) \cup {x}
  <2>1. ASSUME NEW y \in Elems(t) PROVE y \in Elems(s) \cup {x}
    BY <1>1 DEF Elems
  <2>2. ASSUME NEW y \in Elems(s) PROVE y \in Elems(t)
    BY <1>1 DEF Elems
  <2>3. x \in Elems(t)
    BY <1>1 DEF Elems
  <2> QED BY <2>1, <2>2, <2>3
<1>3. ASSUME Rising(s), \A y \in Elems(s) : y < x PROVE Rising(t)
  <2> SUFFICES ASSUME NEW i \in DOMAIN t, NEW j \in DOMAIN t, i < j PROVE t[i] < t[j]
    BY DEF Rising
  <2>1. i \in 1..Len(s) /\ t[i] = s[i] /\ s[i] \in Elems(s)
    BY <1>1 DEF Elems
  <2> QED BY <1>1, <1>3, <2>1 DEF Rising
<1> QED BY <1>1, <1>2, <1>3 DEF t

LEMMA TailElems ==
  ASSUME NEW s \in Seq(Nat), s # <<>>
  PROVE  /\ Elems(s) = Elems(Tail(s)) \cup {Head(s)} /\ Tail(s) \in Seq(Nat) /\ Head(s) \in Nat
         /\ Rising(s) => Rising(Tail(s)) /\ \A y \in Elems(Tail(s)) : Head(s) < y
<1> DEFINE t == Tail(s)
           h == Head(s)
<1>1. /\ t \in Seq(Nat) /\ Len(s) \in Nat /\ Len(s) > 0 /\ h = s[1] /\ h \in Nat
      /\ Len(t) = Len(s) - 1 /\ \A i \in 1..(Len(s) - 1) : t[i] = s[i + 1]
      /\ DOMAIN t = 1..(Len(s) - 1) /\ DOMAIN s = 1..Len(s)
  OBVIOUS
<1> HIDE DEF t, h
<1>2. Elems(s) = Elems(t) \cup {h}
  <2>1. ASSUME NEW y \in Elems(s) PROVE y \in Elems(t) \cup {h}
    <3>1. PICK i \in 1..Len(s) : y = s[i]
      BY <1>1 DEF Elems
    <3>2. CASE i = 1
      BY <1>1, <3>1, <3>2
    <3>3. CASE i # 1
      <4>1. i - 1 \in 1..(Len(s) - 1) /\ (i - 1) + 1 = i
        BY <1>1, <3>3
      <4>2. t[i - 1] = y
        BY <1>1, <3>1, <4>1
      <4> QED BY <1>1, <4>1, <4>2 DEF Elems
    <3> QED BY <3>2, <3>3
  <2>2. ASSUME NEW y \in Elems(t) PROVE y \in Elems(s)
    <3>1. PICK i \in 1..(Len(s) - 1) : y = t[i]
      BY <1>1 DEF Elems
    <3>2. i + 1 \in 1..Len(s) /\ y = s[i + 1]
      BY <1>1, <3>1
    <3> QED BY <1>1, <3>2 DEF Elems
  <2>3. h \in Elems(s)
    <3>1. 1 \in DOMAIN s /\ h = s[1]
      BY <1>1
    <3> QED BY <3>1 DEF Elems
  <2> QED BY <2>1, <2>2, <2>3
<1>3. ASSUME Rising(s) PROVE Rising(t) /\ \A y \in Elems(t) : h < y
  <2>1. ASSUME NEW i \in DOMAIN t, NEW j \in DOMAIN t, i < j PROVE t[i] < t[j]
    <3>1. i \in 1..(Len(s) - 1) /\ j \in 1..(Len(s) - 1) /\ Len(s) \in Nat
      BY <1>1
    <3>2. i + 1 \in 1..Len(s) /\ j + 1 \in 1..Len(s) /\ i + 1 < j + 1
      BY <2>1, <3>1
    <3>3. t[i] = s[i + 1] /\ t[j] = s[j + 1]
      BY <1>1, <3>1
    <3>4. s[i + 1] < s[j + 1]
      BY <1>1, <1>3, <3>2 DEF Rising
    <3> QED BY <3>3, <3>4
  <2>2. ASSUME NEW y \in Elems(t) PROVE h < y
    <3>1. PICK i \in 1..(Len(s) - 1) : y = t[i]
      BY <1>1 DEF Elems
    <3>2. 1 \in 1..Len(s) /\ i + 1 \in 1..Len(s) /\ 1 < i + 1
      BY <1>1, <3>1
    <3>3. y = s[i + 1]
      BY <1>1, <3>1
    <3>4. s[1] < s[i + 1]
      BY <1>1, <1>3, <3>2 DEF Rising
    <3> QED BY <1>1, <3>3, <3>4
  <2> QED BY <2>1, <2>2 DEF Rising
<1> QED BY <1>1, <1>2, <1>3 DEF t, h

LEMMA EmptyPipe == ASSUME NEW full, full = {} PROVE InPipe(<<>>, <<>>, <<>>, full, 0)
BY DEF InPipe, Rising, Below, Elems

LEMMA PipePush ==
  ASSUME NEW e \in Seq(Nat), NEW h \in Seq(Nat), NEW c \in Seq(Nat), NEW full, NEW n \in Nat,
         InPipe(e, h, c, full, n)
  PROVE  /\ InPipe(e, h, Append(c, n + 1), full, n + 1)
         /\ InPipe(e, h, c, full \cup {n + 1}, n + 1)
         /\ h = <<>> /\ c = <<>> => InPipe(Append(e, n + 1), h, c, full, n + 1)
<1>0. /\ Rising(e) /\ Rising(h) /\ Rising(c)
      /\ Below(e, h) /\ Below(e, c) /\ Below(h, c)
      /\ Elems(e) \cup Elems(h) \cup Elems(c) = (1..n) \ full /\ full \subseteq 1..n
      /\ n + 1 \in Nat /\ n + 1 \notin full
  BY DEF InPipe
<1>1. \A y \in Elems(e) \cup Elems(h) \cup Elems(c) : y < n + 1
  BY <1>0
<1>2. (1..(n + 1)) = (1..n) \cup {n + 1}
  OBVIOUS
<1>3. InPipe(e, h, Append(c, n + 1), full, n + 1)
  <2>1. Elems(Append(c, n + 1)) = Elems(c) \cup {n + 1} /\ Rising(Append(c, n + 1))
    BY <1>0, <1>1, AppendElems
  <2>2. Below(e, Append(c, n + 1)) /\ Below(h, Append(c, n + 1))
    BY <1>0, <1>1, <2>1 DEF Below
  <2>3. Elems(e) \cup Elems(h) \cup Elems(Append(c, n + 1)) = (1..(n + 1)) \ full
    BY <1>0, <1>2, <2>1
  <2>4. full \subseteq 1..(n + 1)
    BY <1>0, <1>2
  <2> QED BY <1>0, <2>1, <2>2, <2>3, <2>4 DEF InPipe
<1>4. InPipe(e, h, c, full \cup {n + 1}, n + 1)
  <2>1. n + 1 \notin 1..n
    OBVIOUS
  <2>2. (1..(n + 1)) \ (full \cup {n + 1}) = (1..n) \ full
    BY <1>2, <2>1
  <2>3. full \cup {n + 1} \subseteq 1..(n + 1)
    BY <1>0, <1>2
  <2> QED BY <1>0, <2>2, <2>3 DEF InPipe
<1>5. ASSUME h = <<>>, c = <<>> PROVE InPipe(Append(e, n + 1), h, c, full, n + 1)
  <2>1. Elems(Append(e, n + 1)) = Elems(e) \cup {n + 1} /\ Rising(Append(e, n + 1))
    BY <1>0, <1>1, AppendElems
  <2>2. Elems(h) = {} /\ Elems(c) = {}
    BY <1>5 DEF Elems
  <2>3. Below(Append(e, n + 1), h) /\ Below(Append(e, n + 1), c)
    BY <2>2 DEF Below
  <2>4. Elems(Append(e, n + 1)) \cup Elems(h) \cup Elems(c) = (1..(n + 1)) \ full
    BY <1>0, <1>2, <2>1, <2>2
  <2>5. full \subseteq 1..(n + 1)
    BY <1>0, <1>2
  <2> QED BY <1>0, <2>1, <2>3, <2>4, <2>5 DEF InPipe
<1> QED BY <1>3, <1>4, <1>5

LEMMA PipeMoves ==
  ASSUME NEW e \in Seq(Nat), NEW h \in Seq(Nat), NEW c \in Seq(Nat), NEW full, NEW n \in Nat,
         InPipe(e, h, c, full, n)
  PROVE  /\ c # <<>> => InPipe(e, Append(h, Head(c)), Tail(c), full, n)
         /\ h # <<>> => InPipe(Append(e, Head(h)), Tail(h), c, full, n)
<1>0. /\ Rising(e) /\ Rising(h) /\ Rising(c)
      /\ Below(e, h) /\ Below(e, c) /\ Below(h, c)
      /\ Elems(e) \cup Elems(h) \cup Elems(c) = (1..n) \ full /\ full \subseteq 1..n
  BY DEF InPipe
<1>1. ASSUME c # <<>> PROVE InPipe(e, Append(h, Head(c)), Tail(c), full, n)
  <2>1. /\ Elems(c) = Elems(Tail(c)) \cup {Head(c)} /\ Head(c) \in Nat
        /\ Rising(Tail(c)) /\ \A y \in Elems(Tail(c)) : Head(c) < y
    BY <1>0, <1>1, TailElems
  <2>2. \A y \in Elems(h) : y < Head(c)
    BY <1>0, <2>1 DEF Below
  <2>3. Elems(Append(h, Head(c))) = Elems(h) \cup {Head(c)} /\ Rising(Append(h, Head(c)))
    BY <1>0, <2>1, <2>2, AppendElems
  <2>4. Below(e, Append(h, Head(c))) /\ Below(e, Tail(c)) /\ Below(Append(h, Head(c)), Tail(c))
    BY <1>0, <2>1, <2>3 DEF Below
  <2>5. Elems(e) \cup Elems(Append(h, Head(c))) \cup Elems(Tail(c)) = (1..n) \ full
    BY <1>0, <2>1, <2>3
  <2> QED BY <1>0, <2>1, <2>3, <2>4, <2>5 DEF InPipe
<1>2. ASSUME h # <<>> PROVE InPipe(Append(e, Head(h)), Tail(h), c, full, n)
  <2>1. /\ Elems(h) = Elems(Tail(h)) \cup {Head(h)} /\ Head(h) \in Nat
        /\ Rising(Tail(h)) /\ \A y \in Elems(Tail(h)) : Head(h) < y
    BY <1>0, <1>2, TailElems
  <2>2. \A y \in Elems(e) : y < Head(h)
    BY <1>0, <2>1 DEF Below
  <2>3. Elems(Append(e, Head(h))) = Elems(e) \cup {Head(h)} /\ Rising(Append(e, Head(h)))
    BY <1>0, <2>1, <2>2, AppendElems
  <2>4. Below(Append(e, Head(h)), Tail(h)) /\ Below(Append(e, Head(h)), c) /\ Below(Tail(h), c)
    BY <1>0, <2>1, <2>3 DEF Below
  <2>5. Elems(Append(e, Head(h))) \cup Elems(Tail(h)) \cup Elems(c) = (1..n) \ full
    BY <1>0, <2>1, <2>3
  <2> QED BY <1>0, <2>1, <2>3, <2>4, <2>5 DEF InPipe
<1> QED BY <1>1, <1>2


-----------------------------------------------------------------------------
(* The worker's steps.                                                     *)

\* A backend that has a worker, and the elements its factory probes.
WorkerOf(required) ==
  backend.name \in DOMAIN Pipelines \ Forwarders /\ Names(Pipelines[backend.name]) \subseteq required

LEMMA InitWInv == WorkerInit => WInv
<1> SUFFICES ASSUME WorkerInit PROVE WInv
  OBVIOUS
<1>0. Depth \in Nat /\ Inputs \in Nat
  BY WorkerAssumption
<1>1. backend.name \in DOMAIN Pipelines
  BY DEF WorkerInit
<1>2. WorkerTypeOK
  <2>1. init \in [source : BOOLEAN, known : BOOLEAN, output : BOOLEAN]
    <3>1. (backend.name = "aac_opus") \in BOOLEAN
      OBVIOUS
    <3> QED BY <3>1 DEF WorkerInit
  <2>2. lost \in [full : SUBSET (1..Inputs), broken : BOOLEAN]
    BY DEF WorkerInit
  <2>3. feed \in 0..Inputs /\ Len(chan) <= Depth
    BY <1>0 DEF WorkerInit
  <2>4. encoder.at = "null" /\ drain = "idle" /\ thread = "none" /\ sender \in BOOLEAN
    BY DEF WorkerInit, Null
  <2> QED BY <2>1, <2>2, <2>3, <2>4 DEF WorkerTypeOK
<1>3. chan \in Seq(Nat) /\ emitted \in Seq(Nat)
      /\ encoder \in [at : {"null", "plays", "eos", "failed"}, holds : Seq(Nat), primed : BOOLEAN]
  BY DEF WorkerInit, Null
<1>4. WorkerPhases
  BY DEF WorkerInit, WorkerPhases
<1>5. Unbroken
  BY EmptyPipe DEF WorkerInit, Unbroken, Null
<1>6. ProbeCoversPipeline
  BY DEF WorkerInit, ProbeCoversPipeline
<1> QED BY <1>1, <1>2, <1>3, <1>4, <1>5, <1>6 DEF WInv, WorkerTypes

LEMMA SourceInitStep == ASSUME WInv, SourceInit PROVE WInv'
<1>1. /\ UNCHANGED <<feed, drain, sender, chan, thread, encoder, emitted, lost, backend>>
      /\ init' = [init EXCEPT !.source = TRUE]
      /\ init \in [source : BOOLEAN, known : BOOLEAN, output : BOOLEAN]
  BY DEF SourceInit, WInv, WorkerTypes, WorkerTypeOK
<1>2. /\ init' \in [source : BOOLEAN, known : BOOLEAN, output : BOOLEAN]
      /\ init'.known = init.known /\ init'.output = init.output
  BY <1>1
<1>3. WorkerTypes' /\ WorkerPhases'
  BY <1>1, <1>2 DEF WInv, WorkerTypes, WorkerTypeOK, WorkerPhases
<1>4. Unbroken'
  BY <1>1, <1>2 DEF WInv, Unbroken
<1>5. ProbeCoversPipeline'
  BY <1>1 DEF WInv, ProbeCoversPipeline
<1> QED BY <1>3, <1>4, <1>5 DEF WInv

LEMMA BuildStep == ASSUME WInv, NEW required, Build(required), Names(Pipelines[backend.name]) \subseteq required PROVE WInv'
<1>1. /\ UNCHANGED <<feed, sender, chan, thread, encoder, emitted, lost, init, backend>>
      /\ drain = "idle" /\ drain' \in {"refused", "start"}
      /\ drain' = "start" => backend.missing \notin required
  BY DEF Build
<1>2. WorkerTypes' /\ WorkerPhases'
  BY <1>1 DEF WInv, WorkerTypes, WorkerTypeOK, WorkerPhases
<1>3. Unbroken'
  BY <1>1 DEF WInv, Unbroken
<1>4. ProbeCoversPipeline'
  BY <1>1 DEF ProbeCoversPipeline
<1> QED BY <1>2, <1>3, <1>4 DEF WInv

LEMMA WorkerSpawnStep == ASSUME WInv, backend.name \notin Forwarders, WorkerSpawn PROVE WInv'
<1>1. /\ drain = "start" /\ drain' = "run" /\ sender' = TRUE /\ thread' = "start"
      /\ UNCHANGED <<feed, chan, encoder, emitted, backend>>
      /\ init \in [source : BOOLEAN, known : BOOLEAN, output : BOOLEAN]
      /\ lost \in [full : SUBSET (1..Inputs), broken : BOOLEAN]
  BY DEF WorkerSpawn, WInv, WorkerTypes, WorkerTypeOK
<1>2. init' = [init EXCEPT !.known = init.source] /\ lost' = [lost EXCEPT !.broken = @ \/ ~init.source]
  BY DEF WorkerSpawn
<1>3. /\ init' \in [source : BOOLEAN, known : BOOLEAN, output : BOOLEAN]
      /\ init'.known = init.source /\ init'.output = init.output
      /\ lost' \in [full : SUBSET (1..Inputs), broken : BOOLEAN] /\ lost'.full = lost.full
      /\ lost.broken \/ ~init.source <=> lost'.broken
  BY <1>1, <1>2
<1>4. feed = 0 /\ emitted = <<>> /\ lost.full = {} /\ encoder = Null /\ chan = <<>>
  BY <1>1 DEF WInv, WorkerPhases
<1>5. WorkerTypes'
  BY <1>1, <1>3 DEF WInv, WorkerTypes, WorkerTypeOK
<1>6. WorkerPhases'
  BY <1>1, <1>3, <1>4 DEF WInv, WorkerPhases
<1>7. Unbroken'
  BY <1>1, <1>3, <1>4 DEF WInv, Unbroken, Null
<1>8. ProbeCoversPipeline'
  BY <1>1 DEF WInv, ProbeCoversPipeline
<1> QED BY <1>5, <1>6, <1>7, <1>8 DEF WInv

LEMMA WorkerSpawnFailsStep == ASSUME WInv, WorkerSpawnFails PROVE WInv'
<1>1. /\ drain = "start" /\ drain' = "run"
      /\ UNCHANGED <<feed, sender, chan, thread, encoder, emitted, init, backend>>
      /\ lost' = [lost EXCEPT !.broken = TRUE] /\ lost \in [full : SUBSET (1..Inputs), broken : BOOLEAN]
  BY DEF WorkerSpawnFails, WInv, WorkerTypes, WorkerTypeOK
<1>2. lost' \in [full : SUBSET (1..Inputs), broken : BOOLEAN] /\ lost'.broken
  BY <1>1
<1>3. WorkerTypes'
  BY <1>1, <1>2 DEF WInv, WorkerTypes, WorkerTypeOK
<1>4. WorkerPhases'
  BY <1>1 DEF WInv, WorkerPhases
<1>5. Unbroken'
  BY <1>2 DEF Unbroken
<1>6. ProbeCoversPipeline'
  BY <1>1 DEF WInv, ProbeCoversPipeline
<1> QED BY <1>3, <1>4, <1>5, <1>6 DEF WInv



\* on_fragment: the channel takes it, or it is lost, and never silently.
LEMMA PushStep == ASSUME WInv, backend.name \notin Forwarders, Push PROVE WInv'
<1>1. /\ drain = "run" /\ feed < Inputs /\ feed' = feed + 1
      /\ UNCHANGED <<drain, sender, thread, encoder, emitted, init, backend>>
      /\ feed \in Nat /\ feed + 1 \in 1..Inputs /\ Depth \in Nat /\ Len(chan) <= Depth
      /\ chan \in Seq(Nat) /\ emitted \in Seq(Nat) /\ encoder.holds \in Seq(Nat)
      /\ lost \in [full : SUBSET (1..Inputs), broken : BOOLEAN]
  BY WorkerAssumption DEF Push, WInv, WorkerTypes, WorkerTypeOK
<1>2. ProbeCoversPipeline'
  BY <1>1 DEF WInv, ProbeCoversPipeline
<1>3. feed' \in 0..Inputs
  BY <1>1
<1>4. CASE ~sender \/ thread = "exited"
  <2>1. chan' = chan /\ lost' = lost
    BY <1>4 DEF Push
  <2>2. lost.broken
    BY <1>1, <1>4 DEF WInv, Unbroken
  <2>3. WorkerTypes'
    BY <1>1, <1>3, <2>1 DEF WInv, WorkerTypes, WorkerTypeOK
  <2>4. WorkerPhases'
    BY <1>1, <2>1 DEF WInv, WorkerPhases
  <2>5. Unbroken'
    BY <2>1, <2>2 DEF Unbroken
  <2> QED BY <1>2, <2>3, <2>4, <2>5 DEF WInv
<1>5. CASE ~(~sender \/ thread = "exited") /\ Len(chan) < Depth
  <2>1. chan' = Append(chan, feed + 1) /\ lost' = lost
    BY <1>5 DEF Push
  <2>2. chan' \in Seq(Nat) /\ Len(chan') <= Depth
    BY <1>1, <1>5, <2>1
  <2>3. WorkerTypes'
    BY <1>1, <1>3, <2>1, <2>2 DEF WInv, WorkerTypes, WorkerTypeOK
  <2>4. WorkerPhases'
    BY <1>1, <1>5, <2>1 DEF WInv, WorkerPhases
  <2>5. Unbroken'
    <3> SUFFICES ASSUME ~lost.broken PROVE Unbroken'
      BY <2>1 DEF Unbroken
    <3>1. InPipe(emitted, encoder.holds, chan', lost.full, feed') \/ backend.name = "passthrough"
      BY <1>1, <2>1, PipePush DEF WInv, Unbroken
    <3>2. thread # "drain"
      BY <1>5 DEF WInv, Unbroken
    <3> QED BY <1>1, <2>1, <3>1, <3>2 DEF WInv, Unbroken
  <2> QED BY <1>2, <2>3, <2>4, <2>5 DEF WInv
<1>6. CASE ~(~sender \/ thread = "exited") /\ ~(Len(chan) < Depth)
  <2>1. chan' = chan /\ lost' = [lost EXCEPT !.full = @ \cup {feed + 1}]
    BY <1>6 DEF Push
  <2>2. /\ lost' \in [full : SUBSET (1..Inputs), broken : BOOLEAN]
        /\ lost'.full = lost.full \cup {feed + 1} /\ (lost'.broken <=> lost.broken)
    BY <1>1, <2>1
  <2>3. WorkerTypes'
    BY <1>1, <1>3, <2>1, <2>2 DEF WInv, WorkerTypes, WorkerTypeOK
  <2>4. WorkerPhases'
    BY <1>1, <1>6, <2>1 DEF WInv, WorkerPhases
  <2>5. Unbroken'
    <3> SUFFICES ASSUME ~lost.broken PROVE Unbroken'
      BY <2>2 DEF Unbroken
    <3>1. InPipe(emitted, encoder.holds, chan, lost'.full, feed') \/ backend.name = "passthrough"
      BY <1>1, <2>2, PipePush DEF WInv, Unbroken
    <3> QED BY <1>1, <2>1, <2>2, <3>1 DEF WInv, Unbroken
  <2> QED BY <1>2, <2>3, <2>4, <2>5 DEF WInv
<1> QED BY <1>4, <1>5, <1>6

\* The drain drops its sender, and ends when the thread has.
LEMMA StopSteps == ASSUME WInv, \/ WorkerShutdown
                                \/ Join
                                \/ ForwarderStop
                   PROVE WInv'
<1>1. /\ UNCHANGED <<feed, chan, thread, encoder, emitted, lost, init, backend>>
      /\ sender' = sender \/ sender' = FALSE
      /\ drain \in {"run", "join"}
      /\ \/ drain' = "join" /\ sender' = FALSE
         \/ drain' = "ended" /\ sender' = sender /\ thread \in {"none", "exited"}
  BY DEF WInv, WorkerPhases, WorkerShutdown, Join, ForwarderStop
<1>2. sender' \in BOOLEAN /\ (sender' => sender)
  <2>0. sender \in BOOLEAN
    BY DEF WInv, WorkerTypes, WorkerTypeOK
  <2>1. CASE sender' = sender
    BY <2>0, <2>1
  <2>2. CASE sender' = FALSE
    BY <2>2
  <2> QED BY <1>1, <2>1, <2>2
<1>3. drain' = "ended" => ~sender'
  BY <1>1 DEF WInv, WorkerPhases, WorkerShutdown, Join, ForwarderStop
<1>4. WorkerTypes'
  BY <1>1, <1>2 DEF WInv, WorkerTypes, WorkerTypeOK
<1>5. WorkerPhases'
  BY <1>1, <1>2, <1>3 DEF WInv, WorkerPhases
<1>6. Unbroken'
  BY <1>1, <1>2 DEF WInv, Unbroken
<1>7. ProbeCoversPipeline'
  BY <1>1 DEF WInv, ProbeCoversPipeline
<1> QED BY <1>4, <1>5, <1>6, <1>7 DEF WInv


EncoderType == [at : {"null", "plays", "eos", "failed"}, holds : Seq(Nat), primed : BOOLEAN]
LostType == [full : SUBSET (1..Inputs), broken : BOOLEAN]
InitType == [source : BOOLEAN, known : BOOLEAN, output : BOOLEAN]

\* A step of the worker thread or of the pipeline's callback.
LEMMA ThreadTypes ==
  ASSUME WInv, UNCHANGED <<feed, drain, sender, backend>>,
         thread' \in {"start", "recv", "drain", "exited"}, thread # "none",
         chan' \in Seq(Nat), Len(chan') <= Len(chan), emitted' \in Seq(Nat), encoder' \in EncoderType,
         lost' \in LostType, init' \in InitType,
         thread' = "start" => thread = "start" /\ encoder' = encoder,
         thread' = "exited" => (encoder' = Null /\ chan' = <<>>),
         thread = "exited" => thread' = "exited"
  PROVE  WorkerTypes' /\ WorkerPhases' /\ ProbeCoversPipeline'
<1>1. Len(chan') <= Depth
  BY LenProperties, WorkerAssumption DEF WInv, WorkerTypes, WorkerTypeOK
<1>2. WorkerTypes'
  BY <1>1 DEF WInv, WorkerTypes, WorkerTypeOK, EncoderType, LostType, InitType
<1>3. WorkerPhases'
  BY DEF WInv, WorkerPhases
<1>4. ProbeCoversPipeline'
  BY DEF WInv, ProbeCoversPipeline
<1> QED BY <1>2, <1>3, <1>4

LEMMA PlaysStep == ASSUME WInv, PipelinePlays PROVE WInv'
<1>1. /\ thread = "start" /\ thread' = "recv" /\ encoder' = [Null EXCEPT !.at = "plays", !.primed = init.known]
      /\ UNCHANGED <<feed, drain, sender, chan, emitted, lost, init, backend>>
      /\ chan \in Seq(Nat) /\ emitted \in Seq(Nat) /\ lost \in LostType /\ init \in InitType
      /\ encoder = Null
  BY DEF PipelinePlays, WInv, WorkerTypes, WorkerTypeOK, WorkerPhases, LostType, InitType
<1>2. encoder' \in EncoderType /\ encoder'.at = "plays" /\ encoder'.holds = <<>> /\ encoder'.primed = init.known
  <2>1. init.known \in BOOLEAN
    BY <1>1 DEF InitType
  <2>2. encoder' = [at |-> "plays", holds |-> <<>>, primed |-> init.known]
    BY <1>1 DEF Null
  <2> QED BY <2>1, <2>2 DEF EncoderType
<1>3. WorkerTypes' /\ WorkerPhases' /\ ProbeCoversPipeline'
  BY <1>1, <1>2, ThreadTypes, LenProperties
<1>4. Unbroken'
  BY <1>1, <1>2 DEF WInv, Unbroken, Null
<1> QED BY <1>3, <1>4 DEF WInv

LEMMA RefusesStep == ASSUME WInv, PipelineRefuses PROVE WInv'
<1>1. /\ thread = "start" /\ thread' = "exited" /\ chan' = <<>> /\ lost' = [lost EXCEPT !.broken = TRUE]
      /\ UNCHANGED <<feed, drain, sender, encoder, emitted, init, backend>>
      /\ chan \in Seq(Nat) /\ emitted \in Seq(Nat) /\ lost \in LostType /\ init \in InitType
      /\ encoder = Null /\ encoder \in EncoderType
  BY DEF PipelineRefuses, WInv, WorkerTypes, WorkerTypeOK, WorkerPhases, LostType, InitType, EncoderType
<1>2. lost' \in LostType /\ lost'.broken
  BY <1>1 DEF LostType
<1>3. WorkerTypes' /\ WorkerPhases' /\ ProbeCoversPipeline'
  BY <1>1, <1>2, ThreadTypes, LenProperties
<1>4. Unbroken'
  BY <1>2 DEF Unbroken
<1> QED BY <1>3, <1>4 DEF WInv

LEMMA RecvSteps == ASSUME WInv, Recv \/ RecvRefused PROVE WInv'
<1>0. /\ thread = "recv" /\ chan # <<>> /\ chan' = Tail(chan)
      /\ UNCHANGED <<feed, drain, sender, emitted, lost, init, backend>>
      /\ chan \in Seq(Nat) /\ emitted \in Seq(Nat) /\ lost \in LostType /\ init \in InitType
      /\ encoder \in EncoderType
  BY DEF Recv, RecvRefused, WInv, WorkerTypes, WorkerTypeOK, WorkerPhases, LostType, InitType, EncoderType
<1>1. chan' \in Seq(Nat) /\ Len(chan') <= Len(chan) /\ Head(chan) \in Nat /\ feed \in Nat
  BY <1>0 DEF WInv, WorkerTypes, WorkerTypeOK
<1>2. CASE Recv
  <2>1. /\ thread' = thread /\ encoder.at = "plays"
        /\ encoder' = [encoder EXCEPT !.holds = IF encoder.primed THEN Append(@, Head(chan)) ELSE @]
    BY <1>2 DEF Recv
  <2>2. /\ encoder' \in EncoderType /\ encoder'.at = "plays" /\ encoder'.primed = encoder.primed
        /\ encoder.primed => encoder'.holds = Append(encoder.holds, Head(chan))
    <3>1. CASE encoder.primed
      <4>1. encoder' = [encoder EXCEPT !.holds = Append(encoder.holds, Head(chan))]
        BY <1>0, <2>1, <3>1 DEF EncoderType
      <4>2. Append(encoder.holds, Head(chan)) \in Seq(Nat)
        BY <1>0, <1>1 DEF EncoderType
      <4> QED BY <1>0, <2>1, <4>1, <4>2 DEF EncoderType
    <3>2. CASE ~encoder.primed
      BY <1>0, <1>1, <2>1, <3>2 DEF EncoderType
    <3> QED BY <3>1, <3>2
  <2>3. WorkerTypes' /\ WorkerPhases' /\ ProbeCoversPipeline'
    BY <1>0, <1>1, <2>1, <2>2, ThreadTypes
  <2>4. Unbroken'
    <3> SUFFICES ASSUME ~lost.broken PROVE Unbroken'
      BY <1>0 DEF Unbroken
    <3>1. encoder.primed
      BY <2>1 DEF WInv, Unbroken
    <3>2. InPipe(emitted, encoder'.holds, chan', lost.full, feed) \/ backend.name = "passthrough"
      <4>1. encoder.holds \in Seq(Nat)
        BY <1>0 DEF EncoderType
      <4> QED BY <1>0, <1>1, <2>2, <3>1, <4>1, PipeMoves DEF WInv, Unbroken
    <3> QED BY <1>0, <2>1, <2>2, <3>1, <3>2 DEF WInv, Unbroken
  <2> QED BY <2>3, <2>4 DEF WInv
<1>3. CASE RecvRefused
  <2>1. thread' = "drain" /\ encoder.at = "failed" /\ encoder' = encoder
    BY <1>3 DEF RecvRefused
  <2>2. WorkerTypes' /\ WorkerPhases' /\ ProbeCoversPipeline'
    BY <1>0, <1>1, <2>1, ThreadTypes
  <2>3. Unbroken'
    BY <1>0, <2>1 DEF WInv, Unbroken
  <2> QED BY <2>2, <2>3 DEF WInv
<1> QED BY <1>2, <1>3

LEMMA EndOfStreamStep == ASSUME WInv, EndOfStream PROVE WInv'
<1>0. /\ thread = "recv" /\ chan = <<>> /\ ~sender /\ thread' = "drain"
      /\ encoder' = IF encoder.at = "plays" THEN [encoder EXCEPT !.at = "eos"] ELSE encoder
      /\ UNCHANGED <<feed, drain, sender, chan, emitted, lost, init, backend>>
      /\ chan \in Seq(Nat) /\ emitted \in Seq(Nat) /\ lost \in LostType /\ init \in InitType
      /\ encoder \in EncoderType
  BY DEF EndOfStream, WInv, WorkerTypes, WorkerTypeOK, WorkerPhases, LostType, InitType, EncoderType
<1>1. /\ encoder' \in EncoderType /\ encoder'.holds = encoder.holds /\ encoder'.at # "plays"
      /\ encoder'.at = "failed" => encoder.at = "failed"
  <2>1. CASE encoder.at = "plays"
    BY <1>0, <2>1 DEF EncoderType
  <2>2. CASE encoder.at # "plays"
    BY <1>0, <2>2
  <2> QED BY <2>1, <2>2
<1>2. WorkerTypes' /\ WorkerPhases' /\ ProbeCoversPipeline'
  BY <1>0, <1>1, ThreadTypes, LenProperties
<1>3. Unbroken'
  BY <1>0, <1>1 DEF WInv, Unbroken
<1> QED BY <1>2, <1>3 DEF WInv

LEMMA WorkerExitStep == ASSUME WInv, WorkerExit PROVE WInv'
<1>0. /\ thread = "drain" /\ thread' = "exited" /\ chan' = <<>> /\ encoder' = Null
      /\ lost' = [lost EXCEPT !.broken = @ \/ encoder.holds # <<>> \/ encoder.at = "failed"]
      /\ UNCHANGED <<feed, drain, sender, emitted, init, backend>>
      /\ chan \in Seq(Nat) /\ emitted \in Seq(Nat) /\ lost \in LostType /\ init \in InitType
      /\ encoder \in EncoderType
  BY DEF WorkerExit, WInv, WorkerTypes, WorkerTypeOK, WorkerPhases, LostType, InitType, EncoderType
<1>1. /\ lost' \in LostType /\ lost'.full = lost.full
      /\ ~lost'.broken => ~lost.broken /\ encoder.holds = <<>>
  BY <1>0 DEF LostType
<1>2. encoder' \in EncoderType /\ encoder'.holds = <<>> /\ encoder'.at = "null"
  BY <1>0 DEF Null, EncoderType
<1>3. WorkerTypes' /\ WorkerPhases' /\ ProbeCoversPipeline'
  BY <1>0, <1>1, <1>2, ThreadTypes, LenProperties
<1>4. Unbroken'
  BY <1>0, <1>1, <1>2 DEF WInv, Unbroken
<1> QED BY <1>3, <1>4 DEF WInv


LEMMA OutputSteps == ASSUME WInv, Output PROVE WInv'
<1>0. /\ encoder.holds # <<>> /\ encoder.at \in {"plays", "eos"}
      /\ UNCHANGED <<feed, drain, sender, chan, thread, lost, backend>>
      /\ chan \in Seq(Nat) /\ emitted \in Seq(Nat) /\ lost \in LostType /\ init \in InitType
      /\ encoder \in EncoderType /\ thread \in {"recv", "drain"} /\ feed \in Nat
  BY DEF Output, OutputHeader, OutputFragment, Gives, WInv, WorkerTypes, WorkerTypeOK, WorkerPhases,
     LostType, InitType, EncoderType, Null
<1>1. CASE OutputHeader
  <2>1. init' = [init EXCEPT !.output = TRUE] /\ emitted' = emitted /\ encoder' = encoder
    BY <1>1 DEF OutputHeader
  <2>2. init' \in InitType /\ init'.output /\ init'.known = init.known
    BY <1>0, <2>1 DEF InitType
  <2>3. WorkerTypes' /\ WorkerPhases' /\ ProbeCoversPipeline'
    BY <1>0, <2>1, <2>2, ThreadTypes, LenProperties
  <2>4. Unbroken'
    BY <1>0, <2>1, <2>2 DEF WInv, Unbroken
  <2> QED BY <2>3, <2>4 DEF WInv
<1>2. CASE OutputFragment
  <2>1. /\ init.output /\ init' = init /\ emitted' = Append(emitted, Head(encoder.holds))
        /\ encoder' = [encoder EXCEPT !.holds = Tail(@)]
    BY <1>2 DEF OutputFragment
  <2>2. encoder.holds \in Seq(Nat) /\ Head(encoder.holds) \in Nat /\ Tail(encoder.holds) \in Seq(Nat)
    BY <1>0 DEF EncoderType
  <2>3. /\ encoder' \in EncoderType /\ encoder'.holds = Tail(encoder.holds) /\ encoder'.at = encoder.at
        /\ encoder'.primed = encoder.primed /\ emitted' \in Seq(Nat)
    <3>1. emitted' \in Seq(Nat)
      BY <1>0, <2>1, <2>2
    <3>2. encoder' = [encoder EXCEPT !.holds = Tail(encoder.holds)]
      BY <1>0, <2>1 DEF EncoderType
    <3> QED BY <1>0, <2>2, <3>1, <3>2 DEF EncoderType
  <2>4. WorkerTypes' /\ WorkerPhases' /\ ProbeCoversPipeline'
    BY <1>0, <2>1, <2>3, ThreadTypes, LenProperties
  <2>5. Unbroken'
    <3> SUFFICES ASSUME ~lost.broken PROVE Unbroken'
      BY <1>0 DEF Unbroken
    <3>1. InPipe(emitted', encoder'.holds, chan, lost.full, feed) \/ backend.name = "passthrough"
      BY <1>0, <2>1, <2>2, <2>3, PipeMoves DEF WInv, Unbroken
    <3> QED BY <1>0, <2>1, <2>3, <3>1 DEF WInv, Unbroken
  <2> QED BY <2>4, <2>5 DEF WInv
<1> QED BY <1>1, <1>2 DEF Output

LEMMA PipelineFailsStep == ASSUME WInv, PipelineFails PROVE WInv'
<1>0. /\ encoder.at \in {"plays", "eos"}
      /\ UNCHANGED <<feed, drain, sender, chan, thread, emitted, init, backend>>
      /\ encoder' = [encoder EXCEPT !.at = "failed", !.holds = <<>>]
      /\ lost' = [lost EXCEPT !.broken = TRUE]
      /\ chan \in Seq(Nat) /\ emitted \in Seq(Nat) /\ lost \in LostType /\ init \in InitType
      /\ encoder \in EncoderType /\ thread \in {"recv", "drain"}
  BY DEF PipelineFails, WInv, WorkerTypes, WorkerTypeOK, WorkerPhases, LostType, InitType, EncoderType, Null
<1>1. encoder' \in EncoderType /\ lost' \in LostType /\ lost'.broken
  <2>1. <<>> \in Seq(Nat)
    OBVIOUS
  <2> QED BY <1>0, <2>1 DEF EncoderType, LostType
<1>2. WorkerTypes' /\ WorkerPhases' /\ ProbeCoversPipeline'
  BY <1>0, <1>1, ThreadTypes, LenProperties
<1>3. Unbroken'
  BY <1>1 DEF Unbroken
<1> QED BY <1>2, <1>3 DEF WInv

\* The encoder of a WebRTC viewer cannot be built.
LEMMA RefusedStep ==
  ASSUME WInv, drain = "start", drain' = "refused",
         UNCHANGED <<feed, sender, chan, thread, encoder, emitted, lost, init, backend>>
  PROVE  WInv'
<1>1. WorkerTypes' /\ WorkerPhases'
  BY DEF WInv, WorkerTypes, WorkerTypeOK, WorkerPhases
<1>2. Unbroken' /\ ProbeCoversPipeline'
  BY DEF WInv, Unbroken, ProbeCoversPipeline
<1> QED BY <1>1, <1>2 DEF WInv

LEMMA ForwarderStartStep == ASSUME WInv, ForwarderStart PROVE WInv'
<1>0. /\ drain = "idle" /\ drain' = "run" /\ backend.name \in Forwarders
      /\ init' = [init EXCEPT !.known = init.source, !.output = init.source]
      /\ lost' = [lost EXCEPT !.broken = ~init.source]
      /\ UNCHANGED <<feed, sender, chan, thread, encoder, emitted, backend>>
      /\ lost \in LostType /\ init \in InitType
  BY DEF ForwarderStart, WInv, WorkerTypes, WorkerTypeOK, LostType, InitType
<1>1. /\ init' \in InitType /\ init'.output = init.source
      /\ lost' \in LostType /\ lost'.full = lost.full /\ (lost'.broken <=> ~init.source)
  <2>1. init.source \in BOOLEAN /\ (~init.source) \in BOOLEAN
    BY <1>0 DEF InitType
  <2> QED BY <1>0, <2>1 DEF InitType, LostType
<1>2. feed = 0 /\ emitted = <<>> /\ lost.full = {} /\ encoder = Null /\ chan = <<>> /\ thread = "none" /\ ~sender
  BY <1>0 DEF WInv, WorkerPhases
<1>3. WorkerTypes'
  BY <1>0, <1>1 DEF WInv, WorkerTypes, WorkerTypeOK, LostType, InitType
<1>4. WorkerPhases'
  BY <1>0, <1>1, <1>2 DEF WInv, WorkerPhases
<1>5. InPipe(emitted', encoder'.holds, chan', lost'.full, feed')
  BY <1>0, <1>1, <1>2, EmptyPipe DEF Null
<1>6. Unbroken'
  BY <1>0, <1>1, <1>2, <1>5 DEF Unbroken, Null
<1>7. ProbeCoversPipeline'
  <2>1. Names(Pipelines[backend.name]) = {}
    BY <1>0 DEF Forwarders, Pipelines, Names
  <2> QED BY <1>0, <2>1 DEF ProbeCoversPipeline
<1> QED BY <1>3, <1>4, <1>6, <1>7 DEF WInv

LEMMA ForwardSteps == ASSUME WInv, AudioForward \/ Observe PROVE WInv'
<1>0. /\ drain = "run" /\ feed' = feed + 1 /\ backend.name \in Forwarders
      /\ UNCHANGED <<drain, sender, chan, thread, encoder, lost, init, backend>>
      /\ feed \in Nat /\ feed' \in 0..Inputs /\ emitted \in Seq(Nat)
      /\ \/ emitted' = Append(emitted, feed + 1)
         \/ backend.name = "passthrough" /\ emitted' = emitted
  BY WorkerAssumption DEF AudioForward, Observe, Forwarders, WInv, WorkerTypes, WorkerTypeOK
<1>1. thread = "none" /\ encoder = Null /\ chan = <<>> /\ encoder.holds = <<>>
  BY <1>0 DEF WInv, WorkerPhases, Null
<1>2. emitted' \in Seq(Nat)
  BY <1>0
<1>3. WorkerTypes'
  BY <1>0, <1>2 DEF WInv, WorkerTypes, WorkerTypeOK
<1>4. WorkerPhases'
  BY <1>0, <1>1 DEF WInv, WorkerPhases
<1>5. Unbroken'
  <2> SUFFICES ASSUME ~lost.broken PROVE Unbroken'
    BY <1>0 DEF Unbroken
  <2>1. ASSUME backend.name # "passthrough" PROVE InPipe(emitted', encoder.holds, chan, lost.full, feed')
    <3>1. InPipe(emitted, encoder.holds, chan, lost.full, feed) /\ <<>> \in Seq(Nat)
      BY <2>1 DEF WInv, Unbroken
    <3>2. emitted' = Append(emitted, feed + 1)
      BY <1>0, <2>1
    <3>3. InPipe(Append(emitted, feed + 1), <<>>, <<>>, lost.full, feed + 1)
      BY <1>0, <1>1, <3>1, PipePush
    <3> QED BY <1>0, <1>1, <3>2, <3>3
  <2> QED BY <1>0, <1>1, <2>1 DEF WInv, Unbroken
<1>6. ProbeCoversPipeline'
  BY <1>0 DEF WInv, ProbeCoversPipeline
<1> QED BY <1>3, <1>4, <1>5, <1>6 DEF WInv

-----------------------------------------------------------------------------
(* The six encoders.                                                       *)

\* Every factory probes what its pipeline names.
LEMMA VideoNames == ASSUME NEW e PROVE Names(VideoPipeline(e)) = Decoding \cup {e} \cup Muxing
BY DEF Names, VideoPipeline, Decoding, Muxing

LEMMA ProbedNames ==
  /\ backend.name = "software" => Names(Pipelines[backend.name]) \subseteq SoftwareElements
  /\ backend.name = "vaapi" => Names(Pipelines[backend.name]) \subseteq VaapiElements
  /\ backend.name = "qsv" => Names(Pipelines[backend.name]) \subseteq QsvElements
  /\ backend.name = "nvenc" => Names(Pipelines[backend.name]) \subseteq NvencElements
  /\ backend.name = "videotoolbox" => Names(Pipelines[backend.name]) \subseteq VideoToolboxElements
  /\ backend.name = "aac_opus" => Names(Pipelines[backend.name]) \subseteq AacElements
<1>1. backend.name = "software" => Names(Pipelines[backend.name]) \subseteq SoftwareElements
  BY VideoNames DEF Pipelines, SoftwarePipeline, SoftwareElements
<1>2. backend.name = "vaapi" => Names(Pipelines[backend.name]) \subseteq VaapiElements
  BY VideoNames DEF Pipelines, VaapiPipeline, VaapiElements
<1>3. backend.name = "qsv" => Names(Pipelines[backend.name]) \subseteq QsvElements
  BY VideoNames DEF Pipelines, QsvPipeline, QsvElements
<1>4. backend.name = "nvenc" => Names(Pipelines[backend.name]) \subseteq NvencElements
  BY VideoNames DEF Pipelines, NvencPipeline, NvencElements
<1>5. backend.name = "videotoolbox" => Names(Pipelines[backend.name]) \subseteq VideoToolboxElements
  BY VideoNames DEF Pipelines, VideoToolboxPipeline, VideoToolboxElements
<1>6. backend.name = "aac_opus" => Names(Pipelines[backend.name]) \subseteq AacElements
  <2>1. Names(AacPipeline) \subseteq AacElements
    BY DEF AacPipeline, AacElements, Names
  <2> QED BY <2>1 DEF Pipelines
<1> QED BY <1>1, <1>2, <1>3, <1>4, <1>5, <1>6

\* The steps of a backend with a worker.
LEMMA BackendSteps ==
  ASSUME WInv, backend.name \notin Forwarders,
         \/ WorkerSpawn \/ WorkerSpawnFails \/ WorkerShutdown \/ Push \/ Join
         \/ RunWorker \/ Output \/ PipelineFails
  PROVE  WInv'
BY WorkerSpawnStep, WorkerSpawnFailsStep, StopSteps, PushStep, PlaysStep, RefusesStep, RecvSteps,
   EndOfStreamStep, WorkerExitStep, OutputSteps, PipelineFailsStep DEF RunWorker

LEMMA WorkerStep == ASSUME WInv, [WorkerNext]_worker PROVE WInv'
<1>0. CASE UNCHANGED worker
  <2>1. WorkerTypes' /\ WorkerPhases'
    BY <1>0 DEF worker, WInv, WorkerTypes, WorkerTypeOK, WorkerPhases
  <2>2. Unbroken' /\ ProbeCoversPipeline'
    BY <1>0 DEF worker, WInv, Unbroken, ProbeCoversPipeline
  <2> QED BY <2>1, <2>2 DEF WInv
<1>1. CASE SoftwareNext
  BY <1>1, ProbedNames, BuildStep, BackendSteps DEF SoftwareNext, SoftwareFactory, SoftwareTranscoder, Transcoder,
     SoftwareHandle, Handle, SoftwareWorker, SoftwareOutput, Forwarders
<1>2. CASE VaapiNext
  BY <1>2, ProbedNames, BuildStep, BackendSteps DEF VaapiNext, VaapiFactory, VaapiTranscoder, Transcoder,
     VaapiHandle, Handle, VaapiWorker, VaapiOutput, Forwarders
<1>3. CASE QsvNext
  BY <1>3, ProbedNames, BuildStep, BackendSteps DEF QsvNext, QsvFactory, QsvTranscoder, Transcoder,
     QsvHandle, Handle, QsvWorker, QsvOutput, Forwarders
<1>4. CASE NvencNext
  BY <1>4, ProbedNames, BuildStep, BackendSteps DEF NvencNext, NvencFactory, NvencTranscoder, Transcoder,
     NvencHandle, Handle, NvencWorker, NvencOutput, Forwarders
<1>5. CASE VideoToolboxNext
  BY <1>5, ProbedNames, BuildStep, BackendSteps DEF VideoToolboxNext, VideoToolboxFactory, VideoToolboxTranscoder,
     Transcoder, VideoToolboxHandle, Handle, VideoToolboxWorker, VideoToolboxOutput, Forwarders
<1>6. CASE AacNext
  <2>1. CASE AacFactory
    BY <2>1, ProbedNames, BuildStep DEF AacFactory
  <2>2. CASE AacSpawn
    BY <2>2, WorkerSpawnStep, RefusedStep DEF AacSpawn, Forwarders
  <2>3. CASE AacEncoder \/ AacWorker \/ AacOutput
    BY <2>3, BackendSteps DEF AacEncoder, AacWorker, AacOutput, Forwarders
  <2> QED BY <1>6, <2>1, <2>2, <2>3 DEF AacNext
<1>7. CASE \/ SourceInit \/ PipelineFails
           \/ ForwarderStart \/ AudioForward \/ Observe \/ ForwarderStop
  BY <1>7, SourceInitStep, PipelineFailsStep, ForwarderStartStep, ForwardSteps, StopSteps
<1> QED BY <1>0, <1>1, <1>2, <1>3, <1>4, <1>5, <1>6, <1>7 DEF WorkerNext

-----------------------------------------------------------------------------
\* The three bytes of wrap_adts give every length back that has 13 bits.
LEMMA AdtsLength == ASSUME NEW n \in 0..8184 PROVE FrameLength(WrapAdts(n)) = n + 7
<1>0. PICK t \in 0..8191 : t = n + 7
  OBVIOUS
<1>1. /\ t \div 8 \in Nat /\ t % 8 \in Nat
      /\ (t \div 2048) % 4 \in Nat /\ (t \div 8) % 256 \in Nat
  OBVIOUS
<1>2. PICK u \in Nat, a \in Nat, b \in Nat, z \in Nat :
        u = t \div 8 /\ z = t % 8 /\ a = (t \div 2048) % 4 /\ b = (t \div 8) % 256
  BY <1>1
<1>3. a * 2048 + b * 8 + z = t
  <2>1. u * 8 + z = t
    BY <1>2
  <2>2. a = u \div 256 /\ b = u % 256
    BY <1>2
  <2>3. a * 256 + b = u
    BY <2>2
  <2> QED BY <2>1, <2>3
<1>4. z < 8
  BY <1>2
<1>5. (z * 32 + 31) \div 32 = z
  BY <1>4
<1>6. WrapAdts(n) = <<a, b, z * 32 + 31>>
  BY <1>0, <1>2 DEF WrapAdts
<1>7. FrameLength(WrapAdts(n)) = a * 2048 + b * 8 + (z * 32 + 31) \div 32
  BY <1>6 DEF FrameLength
<1> QED BY <1>0, <1>3, <1>5, <1>7

LEMMA WInvImplies == WInv => WorkerInv
<1> SUFFICES ASSUME WInv PROVE WorkerInv
  OBVIOUS
<1>1. OutputIsInput \/ backend.name = "passthrough"
  <2> SUFFICES ASSUME backend.name # "passthrough", drain = "ended", ~lost.broken
               PROVE  /\ \A i, j \in DOMAIN emitted : i < j => emitted[i] < emitted[j]
                      /\ {emitted[i] : i \in DOMAIN emitted} = (1..feed) \ lost.full
    BY DEF OutputIsInput
  <2>1. InPipe(emitted, encoder.holds, chan, lost.full, feed)
    BY DEF WInv, Unbroken
  <2>2. encoder.holds = <<>> /\ chan = <<>>
    BY DEF WInv, WorkerPhases, Null
  <2>3. Elems(encoder.holds) = {} /\ Elems(chan) = {}
    BY <2>2 DEF Elems
  <2>4. Rising(emitted) /\ Elems(emitted) = (1..feed) \ lost.full
    BY <2>1, <2>3 DEF InPipe
  <2> QED BY <2>4 DEF Rising, Elems
<1>2. NoOutputAfterEnd
  BY DEF WInv, WorkerPhases, NoOutputAfterEnd
<1>3. AdtsFramed
  BY AdtsLength DEF AdtsFramed, AuLengths
<1>4. OutputHasInit
  BY DEF WInv, Unbroken, OutputHasInit
<1> QED BY <1>1, <1>2, <1>3, <1>4 DEF WInv, WorkerTypes, WorkerInv

-----------------------------------------------------------------------------
(* The three together, as the run explores them.                           *)

\* In each step one of the three moves, and the others stand still.
LEMMA OneMoves ==
  ASSUME [RunnersNext]_runners
  PROVE  [Next]_vars /\ [LadderNext]_transcode /\ [WorkerNext]_worker
<1>1. CASE UNCHANGED runners
  BY <1>1 DEF runners
<1>2. CASE RunnersNext
  BY <1>2 DEF RunnersNext
<1> QED BY <1>1, <1>2

\* What is proved of the agents alone holds of the tasks together
\* (AgentRunner::install, TranscodeRunner::install on one registry).
THEOREM AgentsAmongTheTasks == RunnersSpec => Spec
<1>1. RunnersInit => Init
  BY DEF RunnersInit
<1>2. [RunnersNext]_runners => [Next]_vars
  BY OneMoves
<1> QED BY <1>1, <1>2, PTL DEF RunnersSpec, Spec

\* For any renditions, edits and depth no rendition transcodes the output of
\* one that is on the ladder, every one has its slot on the live source, and
\* for any queue and source a worker that ends unbroken has emitted what it
\* accepted, in order, and nothing after (spawn_for, add_rendition,
\* remove_rendition; run_worker, on_stop, Drop).
THEOREM RenditionsSound == RunnersSpec => []RenditionsInv
<1> DEFINE RInv == LInv /\ WInv
<1>1. RunnersInit => RInv
  BY InitLInv, InitWInv DEF RunnersInit
<1>2. RInv /\ [RunnersNext]_runners => RInv'
  BY OneMoves, LadderStep, WorkerStep
<1>3. RInv => RenditionsInv
  BY LInvImplies, WInvImplies DEF RenditionsInv
<1> QED BY <1>1, <1>2, <1>3, PTL DEF RunnersSpec
=============================================================================
