------------------------- MODULE BroadcasterRegistry -------------------------
(***************************************************************************)
(* FragmentBroadcasterRegistry: the (broadcast, track) -> broadcaster      *)
(* table that ingest and egress meet in, with its creation and removal     *)
(* callbacks (crates/lvqr-fragment/src/registry.rs), used the way          *)
(* crates/lvqr-ingest/src/dispatch.rs uses it: look the broadcaster up,    *)
(* emit on the returned handle, drop the handle.                           *)
(*                                                                         *)
(* Each registry lock is std's RwLock.  A critical section that only reads *)
(* is one step, taken when nobody writes; the write section of             *)
(* get_or_create is two, because the double check happens under it.        *)
(* Callbacks run on the caller's thread and may call back into the         *)
(* registry, so a callback step needs the map's read lock.                 *)
(***************************************************************************)
EXTENDS Integers, FiniteSets

CONSTANTS
  Threads,    \* threads that call the registry
  Keys,       \* (broadcast, track) pairs
  None,       \* no broadcaster, no thread
  MaxCalls,   \* bound: calls to get_or_create and remove
  MaxCbs      \* bound: callbacks of each kind that get installed

ASSUME RegistryAssumption ==
  /\ MaxCalls \in Nat
  /\ MaxCbs \in Nat
  /\ None \notin Threads
  /\ None \notin Nat

VARIABLES
  inner,              \* the map: key -> broadcaster, or None
  writer,             \* thread inside the map's write lock, or None
  callbacks,          \* number of on_entry_created callbacks installed
  removed_callbacks,  \* number of on_entry_removed callbacks installed
  calls,              \* calls made so far
  pc, key, bc,        \* thread: where it is, its key, its broadcaster
  at, upto,           \* thread: next callback of its snapshot, and the last
  made,               \* broadcasters made so far; they are numbered 1..made
  keyOf,              \* history: the key a broadcaster was made for
  due,                \* history: creation callbacks installed at its insertion
  removals,           \* history: successful removes per broadcaster
  rdue,               \* history: removal callbacks installed at its removal
  fired, rfired,      \* history: runs of each callback per broadcaster
  late                \* history: <<thread, broadcaster, callback>> where an
                      \* emit came before the callback had subscribed

loop == <<at, upto>>
locals == <<pc, key, bc, loop>>
hist == <<made, keyOf, due, removals, rdue, fired, rfired, late>>
registryVars == <<inner, writer, callbacks, removed_callbacks, calls, locals, hist>>

Bcs == 1..made
Cbs == 1..MaxCbs
Labels == {"idle", "miss", "locked", "created", "firing", "owning", "using",
           "removed", "unfiring"}

-----------------------------------------------------------------------------
RegistryInit ==
  /\ inner = [k \in Keys |-> None]
  /\ writer = None
  /\ callbacks = 0 /\ removed_callbacks = 0
  /\ calls = 0
  /\ pc = [t \in Threads |-> "idle"]
  /\ key \in [Threads -> Keys]
  /\ bc = [t \in Threads |-> None]
  /\ at = [t \in Threads |-> 1]
  /\ upto = [t \in Threads |-> 0]
  /\ made = 0
  /\ keyOf = [b \in 1..0 |-> None]
  /\ due = [b \in 1..0 |-> {}]
  /\ removals = [b \in 1..0 |-> 0]
  /\ rdue = [b \in 1..0 |-> {}]
  /\ fired = [b \in 1..0 |-> [c \in Cbs |-> 0]]
  /\ rfired = [b \in 1..0 |-> [c \in Cbs |-> 0]]
  /\ late = {}

\* A history of the broadcasters, with the value v for the next one.
Grow(f, v) == [b \in 1..(made + 1) |-> IF b <= made THEN f[b] ELSE v]

\* A new broadcaster becomes the entry of the thread's key.
Create(t) ==
  /\ made' = made + 1
  /\ inner' = [inner EXCEPT ![key[t]] = made + 1]
  /\ bc' = [bc EXCEPT ![t] = made + 1]
  /\ keyOf' = Grow(keyOf, key[t])
  /\ due' = Grow(due, 1..callbacks)
  /\ removals' = Grow(removals, 0)
  /\ rdue' = Grow(rdue, {})
  /\ fired' = Grow(fired, [c \in Cbs |-> 0])
  /\ rfired' = Grow(rfired, [c \in Cbs |-> 0])
  /\ UNCHANGED late

Goto(t, l) == pc' = [pc EXCEPT ![t] = l]

-----------------------------------------------------------------------------
on_entry_created ==
  /\ callbacks < MaxCbs
  /\ callbacks' = callbacks + 1
  /\ UNCHANGED <<inner, writer, removed_callbacks, calls, locals, hist>>

on_entry_removed ==
  /\ removed_callbacks < MaxCbs
  /\ removed_callbacks' = removed_callbacks + 1
  /\ UNCHANGED <<inner, writer, callbacks, calls, locals, hist>>

-----------------------------------------------------------------------------
(* get_or_create.                                                          *)

\* The lookup under the read lock: a hit returns, a miss goes on to insert.
LookUp(t, k) ==
  /\ pc[t] = "idle" /\ calls < MaxCalls /\ writer = None
  /\ calls' = calls + 1
  /\ key' = [key EXCEPT ![t] = k]
  /\ bc' = [bc EXCEPT ![t] = inner[k]]
  /\ Goto(t, IF inner[k] = None THEN "miss" ELSE "using")
  /\ UNCHANGED <<inner, writer, callbacks, removed_callbacks, loop, hist>>

LockForInsert(t) ==
  /\ pc[t] = "miss" /\ writer = None
  /\ writer' = t
  /\ Goto(t, "locked")
  /\ UNCHANGED <<inner, callbacks, removed_callbacks, calls, key, bc, loop, hist>>

\* Mutant: the entry is not looked up again under the write lock.
InsertNoRecheck(t) ==
  /\ pc[t] = "locked"
  /\ writer' = None
  /\ Create(t)
  /\ Goto(t, "created")
  /\ UNCHANGED <<callbacks, removed_callbacks, calls, key, loop>>

\* Mutant: the write lock is kept while the callbacks run.
InsertKeepLock(t) ==
  /\ pc[t] = "locked" /\ inner[key[t]] = None
  /\ Create(t)
  /\ Goto(t, "created")
  /\ UNCHANGED <<writer, callbacks, removed_callbacks, calls, key, loop>>

\* Under the write lock, still absent: insert a new broadcaster and unlock.
Insert(t) ==
  /\ pc[t] = "locked" /\ inner[key[t]] = None
  /\ writer' = None
  /\ Create(t)
  /\ Goto(t, "created")
  /\ UNCHANGED <<callbacks, removed_callbacks, calls, key, loop>>

\* Under the write lock: a racing caller installed the entry; return it.
FindRacing(t) ==
  /\ pc[t] = "locked" /\ inner[key[t]] # None
  /\ writer' = None
  /\ bc' = [bc EXCEPT ![t] = inner[key[t]]]
  /\ Goto(t, "using")
  /\ UNCHANGED <<inner, callbacks, removed_callbacks, calls, key, loop, hist>>

\* Mutant: the snapshot leaves out the last callback installed.
SnapshotShort(t) ==
  /\ pc[t] = "created"
  /\ at' = [at EXCEPT ![t] = 1]
  /\ upto' = [upto EXCEPT ![t] = callbacks - 1]
  /\ Goto(t, "firing")
  /\ UNCHANGED <<inner, writer, callbacks, removed_callbacks, calls, key, bc, hist>>

SnapshotCreated(t) ==
  /\ pc[t] = "created"
  /\ at' = [at EXCEPT ![t] = 1]
  /\ upto' = [upto EXCEPT ![t] = callbacks]
  /\ Goto(t, "firing")
  /\ UNCHANGED <<inner, writer, callbacks, removed_callbacks, calls, key, bc, hist>>

\* One creation callback: it subscribes to the broadcaster it is handed.
FireCreated(t) ==
  /\ pc[t] = "firing" /\ at[t] <= upto[t] /\ writer = None
  /\ fired' = [fired EXCEPT ![bc[t]][at[t]] = @ + 1]
  /\ at' = [at EXCEPT ![t] = @ + 1]
  /\ UNCHANGED <<inner, writer, callbacks, removed_callbacks, calls, pc, key, bc, upto,
                 made, keyOf, due, removals, rdue, rfired, late>>

\* Mutant: the handle is returned before the callbacks have run.
ReturnCreatedEarly(t) ==
  /\ pc[t] = "firing"
  /\ Goto(t, "owning")
  /\ UNCHANGED <<inner, writer, callbacks, removed_callbacks, calls, key, bc, loop, hist>>

ReturnCreated(t) ==
  /\ pc[t] = "firing" /\ at[t] > upto[t]
  /\ Goto(t, "owning")
  /\ UNCHANGED <<inner, writer, callbacks, removed_callbacks, calls, key, bc, loop, hist>>

-----------------------------------------------------------------------------
(* remove.                                                                 *)

\* remove of an absent key: None, and no callback.
RemoveAbsent(t, k) ==
  /\ pc[t] = "idle" /\ calls < MaxCalls /\ writer = None
  /\ inner[k] = None
  /\ calls' = calls + 1
  /\ UNCHANGED <<inner, writer, callbacks, removed_callbacks, locals, hist>>

RemoveEntry(t, k) ==
  /\ pc[t] = "idle" /\ calls < MaxCalls /\ writer = None
  /\ inner[k] # None
  /\ calls' = calls + 1
  /\ key' = [key EXCEPT ![t] = k]
  /\ bc' = [bc EXCEPT ![t] = inner[k]]
  /\ inner' = [inner EXCEPT ![k] = None]
  /\ removals' = [removals EXCEPT ![inner[k]] = @ + 1]
  /\ rdue' = [rdue EXCEPT ![inner[k]] = 1..removed_callbacks]
  /\ Goto(t, "removed")
  /\ UNCHANGED <<writer, callbacks, removed_callbacks, loop, made, keyOf, due, fired, rfired, late>>

\* Mutant: the snapshot leaves out the last removal callback installed.
SnapshotRemovedShort(t) ==
  /\ pc[t] = "removed"
  /\ at' = [at EXCEPT ![t] = 1]
  /\ upto' = [upto EXCEPT ![t] = removed_callbacks - 1]
  /\ Goto(t, "unfiring")
  /\ UNCHANGED <<inner, writer, callbacks, removed_callbacks, calls, key, bc, hist>>

SnapshotRemoved(t) ==
  /\ pc[t] = "removed"
  /\ at' = [at EXCEPT ![t] = 1]
  /\ upto' = [upto EXCEPT ![t] = removed_callbacks]
  /\ Goto(t, "unfiring")
  /\ UNCHANGED <<inner, writer, callbacks, removed_callbacks, calls, key, bc, hist>>

\* Mutant: the callbacks get the broadcaster registered now, not the removed one.
FireRemovedCurrent(t) ==
  /\ pc[t] = "unfiring" /\ at[t] <= upto[t] /\ writer = None
  /\ LET b == IF inner[key[t]] # None THEN inner[key[t]] ELSE bc[t] IN
       rfired' = [rfired EXCEPT ![b][at[t]] = @ + 1]
  /\ at' = [at EXCEPT ![t] = @ + 1]
  /\ UNCHANGED <<inner, writer, callbacks, removed_callbacks, calls, pc, key, bc, upto,
                 made, keyOf, due, removals, rdue, fired, late>>

FireRemoved(t) ==
  /\ pc[t] = "unfiring" /\ at[t] <= upto[t] /\ writer = None
  /\ rfired' = [rfired EXCEPT ![bc[t]][at[t]] = @ + 1]
  /\ at' = [at EXCEPT ![t] = @ + 1]
  /\ UNCHANGED <<inner, writer, callbacks, removed_callbacks, calls, pc, key, bc, upto,
                 made, keyOf, due, removals, rdue, fired, late>>

ReturnRemoved(t) ==
  /\ pc[t] = "unfiring" /\ at[t] > upto[t]
  /\ Goto(t, "idle")
  /\ UNCHANGED <<inner, writer, callbacks, removed_callbacks, calls, key, bc, loop, hist>>

-----------------------------------------------------------------------------
\* publish_fragment: emit on the returned handle, then drop it.
EmitAndDrop(t) ==
  /\ pc[t] \in {"using", "owning"}
  /\ late' = late \cup {<<t, bc[t], c>> : c \in {d \in due[bc[t]] : fired[bc[t]][d] = 0}}
  /\ Goto(t, "idle")
  /\ UNCHANGED <<inner, writer, callbacks, removed_callbacks, calls, key, bc, loop,
                 made, keyOf, due, removals, rdue, fired, rfired>>

Step(t) ==
  \/ LockForInsert(t) \/ Insert(t) \/ FindRacing(t)
  \/ SnapshotCreated(t) \/ FireCreated(t) \/ ReturnCreated(t)
  \/ SnapshotRemoved(t) \/ FireRemoved(t) \/ ReturnRemoved(t)
  \/ EmitAndDrop(t)

RegistryNext ==
  \/ on_entry_created \/ on_entry_removed
  \/ \E t \in Threads :
       \/ Step(t)
       \/ \E k \in Keys : LookUp(t, k) \/ RemoveAbsent(t, k) \/ RemoveEntry(t, k)

RegistrySpec == RegistryInit /\ [][RegistryNext]_registryVars

\* A call that has started keeps running; nobody is obliged to call.
RegistryFairSpec == RegistrySpec /\ \A t \in Threads : WF_registryVars(Step(t))

-----------------------------------------------------------------------------
(* Properties.                                                             *)

\* Type invariant of the registry and of the calls in progress.
RegistryTypeOK ==
  /\ inner \in [Keys -> Bcs \cup {None}]
  /\ writer \in Threads \cup {None}
  /\ callbacks \in 0..MaxCbs /\ removed_callbacks \in 0..MaxCbs
  /\ calls \in 0..MaxCalls
  /\ pc \in [Threads -> Labels]
  /\ key \in [Threads -> Keys]
  /\ bc \in [Threads -> Bcs \cup {None}]
  /\ at \in [Threads -> Nat \ {0}]
  /\ upto \in [Threads -> 0..MaxCbs]
  /\ made \in Nat
  /\ keyOf \in [Bcs -> Keys \cup {None}]
  /\ due \in [Bcs -> SUBSET Cbs] /\ rdue \in [Bcs -> SUBSET Cbs]
  /\ removals \in [Bcs -> Nat]
  /\ fired \in [Bcs -> [Cbs -> Nat]] /\ rfired \in [Bcs -> [Cbs -> Nat]]
  /\ late \subseteq Threads \X Bcs \X Cbs

\* Callers racing on one key share one broadcaster: a broadcaster ever made
\* is the registered one of its key until the one remove that takes it out
\* ("Concurrent callers on the same key all receive pointer-equal handles").
NoOrphanBroadcaster ==
  \A b \in Bcs :
    /\ keyOf[b] \in Keys
    /\ (inner[keyOf[b]] = b) <=> (removals[b] = 0)
    /\ removals[b] <= 1

\* No callback runs twice for a broadcaster, and once the creating call has
\* returned, every callback installed when the entry was inserted has run
\* ("it runs exactly once per new broadcaster").
CreatedExactlyOnce ==
  /\ \A b \in Bcs, c \in Cbs : fired[b][c] <= 1
  /\ \A t \in Threads : pc[t] = "owning" => \A c \in due[bc[t]] : fired[bc[t]][c] = 1

\* Thread t is inside the remove that took broadcaster b out.
Unhooking(t, b) == pc[t] \in {"removed", "unfiring"} /\ bc[t] = b

\* Removal callbacks run at most once, and only for a broadcaster that a
\* remove took out; and once that remove has returned, every callback
\* installed when the entry was taken out has run ("Exactly once per
\* successful remove()").
RemovedAtMostOnce ==
  \A b \in Bcs, c \in Cbs : rfired[b][c] <= removals[b]

RemovedExactlyOnce ==
  /\ RemovedAtMostOnce
  /\ \A b \in Bcs : \/ \E t \in Threads : Unhooking(t, b)
                    \/ \A c \in rdue[b] : rfired[b][c] = 1

\* However get_or_create, remove and the installation of callbacks race, the
\* callbacks of both kinds run exactly once per broadcaster.
CallbacksExactlyOnce == CreatedExactlyOnce /\ RemovedExactlyOnce

\* The thread that created a broadcaster never emits on it before the drains
\* of the callbacks have subscribed: an emit that came too early is always
\* another thread's.  "owning" marks the creating call.
CreatorNeverAhead ==
  [][\A t \in Threads :
       pc[t] = "owning" /\ pc'[t] = "idle" => late' = late]_registryVars

\* Every call returns, callbacks that call back into the registry included.
EveryCallReturns ==
  \A t \in Threads : pc[t] # "idle" ~> pc[t] = "idle"
=============================================================================
