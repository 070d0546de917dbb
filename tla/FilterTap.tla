------------------------------ MODULE FilterTap ------------------------------
(***************************************************************************)
(* The WASM fragment filter (crates/lvqr-wasm): a chain of modules, each   *)
(* behind a lock, that every broadcast's tap runs its fragments through    *)
(* and counts (lib.rs, observer.rs), and the thread that watches a module's*)
(* file and puts a new one in its place (reloader.rs).                     *)
(***************************************************************************)
EXTENDS Naturals, FiniteSets, Sequences

CONSTANTS
  Taps,            \* the tap tasks, one for each broadcast and track
  MaxVersions,     \* bound: how often the file is saved
  MaxFileEvents,   \* bound: events in the reloader's channel
  MaxFiltered      \* bound: fragments each tap takes

ASSUME FilterAssumption ==
  IsFiniteSet(Taps) /\ MaxVersions \in Nat /\ MaxFileEvents \in Nat /\ MaxFiltered \in Nat

VARIABLES
  disk,            \* the module's file
  fileEvents,      \* the reloader's channel: does the event concern the file
  watching,        \* the watcher, which holds the channel's sender
  signalled,       \* the shutdown message
  reloader,        \* the worker thread
  bytes,           \* what it has read of the file
  dropping,        \* Drop for WasmFilterReloader
  slots,           \* the chain: the module of each slot and its counters
  taps,            \* each tap's task and counters
  chainLock        \* the tap that runs the chain

filter == <<disk, fileEvents, watching, signalled, reloader, bytes, dropping, slots, taps, chainLock>>

\* A module by what it does: it passes a fragment, drops it, traps, or returns
\* a length past its memory; "partial" and "broken" do not compile.
Module(v, does) == [version |-> v, does |-> does]
Compiles(mod) == mod.does \notin {"partial", "broken"}

NoCounts(mod) == [module |-> mod, seen |-> 0, kept |-> 0, dropped |-> 0]
NoTap == [at |-> 0, keeps |-> TRUE, taken |-> 0, seen |-> 0, kept |-> 0, dropped |-> 0]

FilterInit ==
  /\ disk = Module(0, "pass") /\ fileEvents = <<>> /\ watching = TRUE /\ signalled = FALSE
  /\ reloader = "check" /\ bytes = disk /\ dropping = "no"
  /\ slots = <<NoCounts(Module(0, "pass")), NoCounts(Module(0, "trap"))>>
  /\ taps = [t \in Taps |-> NoTap] /\ chainLock = {}

-----------------------------------------------------------------------------
(* The file and the worker thread.                                         *)

\* A save: some editors truncate and write, others put a whole file there; the
\* watcher's callback sends what happens in the directory.
Notified(concerns) == fileEvents' = IF watching THEN Append(fileEvents, concerns) ELSE fileEvents

SaveFile(does) ==
  /\ Len(fileEvents) < MaxFileEvents
  /\ IF disk.does = "partial" THEN disk' = Module(disk.version, does)
     ELSE disk.version < MaxVersions /\ disk' = Module(disk.version + 1, does)
  /\ Notified(TRUE)
  /\ UNCHANGED <<watching, signalled, reloader, bytes, dropping, slots, taps, chainLock>>

OtherFile ==
  /\ Len(fileEvents) < MaxFileEvents /\ Notified(FALSE)
  /\ UNCHANGED <<disk, watching, signalled, reloader, bytes, dropping, slots, taps, chainLock>>

ReloaderChecks ==
  /\ reloader = "check"
  /\ reloader' = IF signalled THEN "gone" ELSE "recv"
  /\ UNCHANGED <<disk, fileEvents, watching, signalled, bytes, dropping, slots, taps, chainLock>>

\* recv: an event, or the end of a channel without a sender.
ReloaderReceives ==
  /\ reloader = "recv"
  /\ \/ /\ fileEvents # <<>> /\ fileEvents' = Tail(fileEvents)
        /\ reloader' = IF Head(fileEvents) THEN "debounce" ELSE "check"
     \/ fileEvents = <<>> /\ ~watching /\ reloader' = "gone" /\ UNCHANGED fileEvents
  /\ UNCHANGED <<disk, watching, signalled, bytes, dropping, slots, taps, chainLock>>

\* recv_timeout until the deadline or the channel's end.
ReloaderDrains ==
  /\ reloader = "debounce"
  /\ \/ fileEvents # <<>> /\ fileEvents' = Tail(fileEvents) /\ UNCHANGED reloader
     \/ reloader' = "load" /\ UNCHANGED fileEvents
  /\ UNCHANGED <<disk, watching, signalled, bytes, dropping, slots, taps, chainLock>>

\* WasmFilter::load reads the file.
ReloaderReads ==
  /\ reloader = "load" /\ reloader' = "compile" /\ bytes' = disk
  /\ UNCHANGED <<disk, fileEvents, watching, signalled, dropping, slots, taps, chainLock>>

\* mutant: whatever came in meanwhile is taken for the same change
ReloaderLoadsOnce ==
  /\ reloader = "compile" /\ reloader' = "check" /\ fileEvents' = <<>>
  /\ slots' = IF Compiles(bytes) THEN [slots EXCEPT ![1].module = bytes] ELSE slots
  /\ UNCHANGED <<disk, watching, signalled, bytes, dropping, taps, chainLock>>
\* mutant: the module is replaced before it is known to compile
ReloaderLoadsAny ==
  /\ reloader = "compile" /\ reloader' = "check"
  /\ slots' = [slots EXCEPT ![1].module = bytes]
  /\ UNCHANGED <<disk, fileEvents, watching, signalled, bytes, dropping, taps, chainLock>>
\* The module is compiled and SharedFilter::replace puts it in its slot; one
\* that does not compile leaves the old one.
ReloaderLoads ==
  /\ reloader = "compile" /\ reloader' = "check"
  /\ slots' = IF Compiles(bytes) THEN [slots EXCEPT ![1].module = bytes] ELSE slots
  /\ UNCHANGED <<disk, fileEvents, watching, signalled, bytes, dropping, taps, chainLock>>

DropSignals ==
  /\ dropping = "no" /\ dropping' = "unwatch" /\ signalled' = TRUE
  /\ UNCHANGED <<disk, fileEvents, watching, reloader, bytes, slots, taps, chainLock>>

\* mutant: the thread is joined while the watcher still holds the sender
DropUnwatchesLate ==
  /\ dropping = "unwatch" /\ dropping' = "join"
  /\ UNCHANGED <<disk, fileEvents, watching, signalled, reloader, bytes, slots, taps, chainLock>>
\* The watcher goes, and the sender with it.
DropUnwatches ==
  /\ dropping = "unwatch" /\ dropping' = "join" /\ watching' = FALSE
  /\ UNCHANGED <<disk, fileEvents, signalled, reloader, bytes, slots, taps, chainLock>>

DropJoins ==
  /\ dropping = "join" /\ reloader = "gone" /\ dropping' = "done"
  /\ UNCHANGED <<disk, fileEvents, watching, signalled, reloader, bytes, slots, taps, chainLock>>

-----------------------------------------------------------------------------
(* The taps.                                                               *)

\* WasmFilter::apply: a trap or a module without the exports passes the
\* fragment on unchanged, a length that is negative or past the memory drops it.
Keeps(mod) == mod.does \in {"pass", "trap"}

Counted(c, keeps) == [c EXCEPT !.kept = IF keeps THEN @ + 1 ELSE @, !.dropped = IF keeps THEN @ ELSE @ + 1]

\* next_fragment, and the chain under its lock; the first slot's seen.
TapTakes(t) ==
  /\ taps[t].at = 0 /\ chainLock = {} /\ taps[t].taken < MaxFiltered
  /\ chainLock' = {t}
  /\ taps' = [taps EXCEPT ![t].at = 1, ![t].keeps = TRUE, ![t].taken = @ + 1]
  /\ slots' = [slots EXCEPT ![1].seen = @ + 1]
  /\ UNCHANGED <<disk, fileEvents, watching, signalled, reloader, bytes, dropping>>

\* mutant: the chain goes on after a drop
SlotAppliesAll(t) ==
  /\ t \in chainLock /\ taps[t].at \in DOMAIN slots
  /\ LET i == taps[t].at
         keeps == Keeps(slots[i].module)
         counted == [slots EXCEPT ![i] = Counted(@, keeps)]
         on == i < Len(slots)
     IN  /\ slots' = IF on THEN [counted EXCEPT ![i + 1].seen = @ + 1] ELSE counted
         /\ taps' = [taps EXCEPT ![t].at = i + 1, ![t].keeps = @ /\ keeps]
         /\ chainLock' = IF on THEN chainLock ELSE {}
  /\ UNCHANGED <<disk, fileEvents, watching, signalled, reloader, bytes, dropping>>
\* InstrumentedFilter::apply of one slot with the module that is there now; a
\* drop ends the chain.
SlotApplies(t) ==
  /\ t \in chainLock /\ taps[t].at \in DOMAIN slots
  /\ LET i == taps[t].at
         keeps == Keeps(slots[i].module)
         counted == [slots EXCEPT ![i] = Counted(@, keeps)]
         on == keeps /\ i < Len(slots)
     IN  /\ slots' = IF on THEN [counted EXCEPT ![i + 1].seen = @ + 1] ELSE counted
         /\ taps' = [taps EXCEPT ![t].at = IF on THEN i + 1 ELSE Len(slots) + 1, ![t].keeps = keeps]
         /\ chainLock' = IF on THEN chainLock ELSE {}
  /\ UNCHANGED <<disk, fileEvents, watching, signalled, reloader, bytes, dropping>>

TapSees(t) ==
  /\ taps[t].at = Len(slots) + 1
  /\ taps' = [taps EXCEPT ![t].at = @ + 1, ![t].seen = @ + 1]
  /\ UNCHANGED <<disk, fileEvents, watching, signalled, reloader, bytes, dropping, slots, chainLock>>

TapCounts(t) ==
  /\ taps[t].at = Len(slots) + 2
  /\ taps' = [taps EXCEPT ![t] = [Counted(@, taps[t].keeps) EXCEPT !.at = 0]]
  /\ UNCHANGED <<disk, fileEvents, watching, signalled, reloader, bytes, dropping, slots, chainLock>>

\* The server is started anew.
FilterRestarts ==
  /\ dropping = "done"
  /\ disk' = Module(0, "pass") /\ fileEvents' = <<>> /\ watching' = TRUE /\ signalled' = FALSE
  /\ reloader' = "check" /\ bytes' = disk' /\ dropping' = "no" /\ taps' = [t \in Taps |-> NoTap] /\ chainLock' = {}
  /\ slots' = <<NoCounts(Module(0, "pass")), NoCounts(Module(0, "trap"))>>

FilterNext ==
  \/ \E does \in {"pass", "drop", "long", "broken", "partial"} : SaveFile(does)
  \/ OtherFile \/ ReloaderChecks \/ ReloaderReceives \/ ReloaderDrains \/ ReloaderReads \/ ReloaderLoads
  \/ DropSignals \/ DropUnwatches \/ DropJoins \/ FilterRestarts
  \/ \E t \in Taps : TapTakes(t) \/ SlotApplies(t) \/ TapSees(t) \/ TapCounts(t)

-----------------------------------------------------------------------------
(* Properties.                                                             *)

\* When the reloader waits with nothing to do, the chain runs the file as it
\* is, however saves and events fell together; and it always runs a module that
\* compiled.
ReloadSettles ==
  /\ Compiles(slots[1].module)
  /\ reloader = "recv" /\ fileEvents = <<>> /\ watching /\ Compiles(disk) => slots[1].module = disk

\* The thread that is joined does not wait for an event that nobody can send.
JoinReturns == dropping = "join" /\ reloader = "recv" => ~watching

\* The sum of a counter of the taps.
Total(count) ==
  LET sum[S \in SUBSET Taps] == IF S = {} THEN 0
                                ELSE LET t == CHOOSE t \in S : TRUE IN count[t] + sum[S \ {t}]
  IN  sum[Taps]

\* Tap and slot counters tell one story: a fragment is seen by the second slot
\* if the first kept it, and between fragments the taps have kept and dropped
\* what the chain did.
CountsAgree ==
  LET seen == Total([t \in Taps |-> taps[t].seen])
      kept == Total([t \in Taps |-> taps[t].kept])
      dropped == Total([t \in Taps |-> taps[t].dropped])
      between == \A t \in Taps : taps[t].at = 0
  IN  /\ slots[2].seen = slots[1].kept
      /\ \A t \in Taps : taps[t].kept + taps[t].dropped <= taps[t].seen
      /\ seen <= slots[1].seen
      /\ between => /\ seen = slots[1].seen /\ kept = slots[2].kept
                    /\ dropped = slots[1].dropped + slots[2].dropped

FilterInv == ReloadSettles /\ JoinReturns /\ CountsAgree
=============================================================================
