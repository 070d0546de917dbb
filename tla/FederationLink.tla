--------------------------- MODULE FederationLink ---------------------------
(***************************************************************************)
(* The federation runner (crates/lvqr-cluster/src/federation.rs): one task *)
(* per link to a peer cluster that connects, follows the peer's            *)
(* announcements and retries with a growing delay, the forwarder tasks it  *)
(* spawns, and the runner that ends them all.                              *)
(*                                                                         *)
(* A step of a task runs from one await to the next.  A connection attempt *)
(* may hang in work that no timer and no cancellation interrupts (name     *)
(* resolution, TLS set-up): the link is then "stuck".  The peer and the    *)
(* broadcasts it announces are the environment; announcements that the     *)
(* link does not forward, or that withdraw a broadcast, change nothing.    *)
(***************************************************************************)
EXTENDS Naturals

CONSTANTS
  NumLinks,          \* configured links
  BackoffInitial,    \* BACKOFF_INITIAL
  BackoffMax,        \* BACKOFF_MAX
  ShiftCap,          \* the largest shift of next_delay (20)
  MaxAttempt,        \* where the attempt counter saturates (u32::MAX)
  MaxShadows         \* bound: shadow broadcasts of one link

\* The shift reaches the largest delay before it stops growing, and before the
\* counter saturates.
ASSUME FederationAssumption ==
  /\ NumLinks \in Nat \ {0} /\ MaxShadows \in Nat
  /\ BackoffInitial \in Nat \ {0} /\ BackoffMax \in Nat /\ ShiftCap \in Nat /\ MaxAttempt \in Nat
  /\ BackoffInitial <= BackoffMax
  /\ ShiftCap <= MaxAttempt /\ BackoffMax <= BackoffInitial * 2^ShiftCap

\* What a shift by k is, up to the cap: true of every cap, and all that the
\* argument about the delays needs of powers.
ASSUME ShiftAssumption ==
  \A k \in 0..ShiftCap : 2^k \in Nat \ {0} /\ (k < ShiftCap => 2^(k + 1) = 2 * 2^k)

Links == 1..NumLinks

VARIABLES
  link,      \* link -> where its task is, run_link's attempt and last delay, is the session lost
  status,    \* FederationLinkStatus::state of each link
  shadows,   \* link -> forwarder tasks, each with the shadow broadcast it holds
  shut,      \* the server's shutdown token, which the runner shares
  aborted,   \* links whose task has been aborted
  runner     \* the runner: up, awaiting the link `next`, or closed

federationVars == <<link, status, shadows, shut, aborted, runner>>

NewLink == [at |-> "top", attempt |-> 0, delay |-> 0, lost |-> FALSE]
Gone == [NewLink EXCEPT !.at = "gone"]

FederationInit ==
  /\ link = [l \in Links |-> NewLink]
  /\ status = [l \in Links |-> "Connecting"]
  /\ shadows = [l \in Links |-> 0]
  /\ shut = FALSE /\ aborted = {}
  /\ runner = [at |-> "up", next |-> 1]

Delays == (9 * BackoffInitial) \div 10 .. (11 * BackoffMax) \div 10

LinkStates ==
  [at : {"top", "connect", "stuck", "session", "settle", "sleep", "gone"},
   attempt : 0..MaxAttempt, delay : Delays \cup {0}, lost : BOOLEAN]

\* A retry waits at least the initial delay less its jitter and at most the
\* largest delay plus its jitter.
FederationTypeOK ==
  /\ link \in [Links -> LinkStates]
  /\ \A l \in Links : link[l].at = "sleep" => link[l].delay # 0
  /\ status \in [Links -> {"Connecting", "Connected", "Failed"}]
  /\ shadows \in [Links -> 0..MaxShadows]
  /\ shut \in BOOLEAN /\ aborted \subseteq Links
  /\ runner \in [at : {"up", "closing", "closed"}, next : 1..NumLinks + 1]
-----------------------------------------------------------------------------
(* next_delay: doubled per attempt up to the largest, then jittered.  Only *)
(* the two ends of the jitter are tried.                                   *)

Least(a, b) == IF a < b THEN a ELSE b

\* mutant: a shift that wraps
DoubledWrap(attempt) == Least(BackoffInitial * 2^(attempt % ShiftCap), BackoffMax)
\* mutant: no largest delay
DoubledUncapped(attempt) == BackoffInitial * 2^Least(attempt, ShiftCap)

Doubled(attempt) == Least(BackoffInitial * 2^Least(attempt, ShiftCap), BackoffMax)

next_delay(attempt) == {Doubled(attempt) - Doubled(attempt) \div 10,
                        Doubled(attempt) + Doubled(attempt) \div 10}
-----------------------------------------------------------------------------
(* run_link and run_link_once. *)

At(l, where) == link[l].at = where
Move(l, where) == link' = [link EXCEPT ![l].at = where, ![l].lost = FALSE]
Exit(l) == link' = [link EXCEPT ![l] = Gone] /\ UNCHANGED status
Report(l, state) == status' = [status EXCEPT ![l] = state]
Rest == UNCHANGED <<shadows, shut, aborted, runner>>

\* A pass ended, other than by shutdown: report it and wait before the next one.
Failed(l, attempt) ==
  /\ Report(l, "Failed")
  /\ \E d \in next_delay(attempt) :
       link' = [link EXCEPT ![l] = [at |-> "sleep", attempt |-> attempt, delay |-> d, lost |-> FALSE]]

FailedOnceMore(l) == Failed(l, Least(link[l].attempt + 1, MaxAttempt))

Top(l) ==
  /\ At(l, "top")
  /\ IF shut THEN Exit(l)
             ELSE Move(l, "connect") /\ Report(l, "Connecting")
  /\ Rest

ConnectOk(l) == At(l, "connect") /\ Move(l, "session") /\ Report(l, "Connected") /\ Rest

\* No client could be built, the connection was refused, or it timed out.
ConnectFailed(l) == At(l, "connect") /\ FailedOnceMore(l) /\ Rest

\* run_link_once returns Ok and run_link sees the token.
ConnectCancelled(l) == At(l, "connect") /\ shut /\ Exit(l) /\ Rest

\* The attempt hangs, and comes back after any time or never.
Hang(l) == At(l, "connect") /\ Move(l, "stuck") /\ UNCHANGED status /\ Rest
Unhang(l) == At(l, "stuck") /\ Move(l, "connect") /\ UNCHANGED status /\ Rest

\* A forwarder is spawned.
Announce(l) ==
  /\ At(l, "session") /\ shadows[l] < MaxShadows
  /\ shadows' = [shadows EXCEPT ![l] = @ + 1]
  /\ UNCHANGED <<link, status, shut, aborted, runner>>

\* The peer closes the transport or is lost.
PeerLost(l) ==
  /\ At(l, "session") /\ ~ link[l].lost
  /\ link' = [link EXCEPT ![l].lost = TRUE]
  /\ UNCHANGED status /\ Rest

\* mutant: the loop watches the announcements and the token only
SessionClosedUnseen(l) == At(l, "session") /\ link[l].lost /\ shut /\ FailedOnceMore(l) /\ Rest

SessionClosed(l) == At(l, "session") /\ link[l].lost /\ FailedOnceMore(l) /\ Rest

\* The announcement stream ends, or the token is cancelled: the session is
\* dropped and the task waits for the close to be sent.
StreamEnded(l) == At(l, "session") /\ ~ link[l].lost /\ Move(l, "settle") /\ UNCHANGED status /\ Rest
SessionCancelled(l) == At(l, "session") /\ shut /\ Move(l, "settle") /\ UNCHANGED status /\ Rest

\* mutant: the status is left as it was
SettledSilently(l) ==
  /\ At(l, "settle")
  /\ IF shut THEN Exit(l)
             ELSE UNCHANGED status /\ \E d \in next_delay(0) :
                    link' = [link EXCEPT ![l] = [at |-> "sleep", attempt |-> 0, delay |-> d, lost |-> FALSE]]
  /\ Rest

Settled(l) ==
  /\ At(l, "settle")
  /\ IF shut THEN Exit(l)
             ELSE Failed(l, 0)
  /\ Rest

Wake(l) == At(l, "sleep") /\ Move(l, "top") /\ UNCHANGED status /\ Rest
SleepCancelled(l) == At(l, "sleep") /\ shut /\ Exit(l) /\ Rest

\* An aborted task ends at its next await; one that is stuck has none.
LinkAborted(l) ==
  /\ l \in aborted /\ link[l].at \notin {"stuck", "gone"}
  /\ Exit(l) /\ Rest

\* What the task does by itself, once its timers, the token or the loss of the
\* session let it.
run_link(l) ==
  \/ Top(l) \/ ConnectOk(l) \/ ConnectFailed(l) \/ ConnectCancelled(l)
  \/ SessionClosed(l) \/ SessionCancelled(l) \/ Settled(l)
  \/ Wake(l) \/ SleepCancelled(l) \/ LinkAborted(l)
-----------------------------------------------------------------------------
(* forward_broadcast: the shadow broadcast is refused by the local origin, *)
(* or held until shutdown, even when the peer's tracks have ended.         *)

ForwarderRefused(l) ==
  /\ shadows[l] > 0
  /\ shadows' = [shadows EXCEPT ![l] = @ - 1]
  /\ UNCHANGED <<link, status, shut, aborted, runner>>

\* mutant: ended by the runner, not by the token
ForwarderEndLate(l) ==
  /\ runner.at = "closed" /\ shadows[l] > 0
  /\ shadows' = [shadows EXCEPT ![l] = @ - 1]
  /\ UNCHANGED <<link, status, shut, aborted, runner>>

ForwarderEnd(l) ==
  /\ shut /\ shadows[l] > 0
  /\ shadows' = [shadows EXCEPT ![l] = @ - 1]
  /\ UNCHANGED <<link, status, shut, aborted, runner>>
-----------------------------------------------------------------------------
(* FederationRunner. *)

Tasks == UNCHANGED <<link, status, shadows>>

\* ServerHandle::shutdown cancels the token and drops the runner later.
ServerShutdown == ~ shut /\ shut' = TRUE /\ UNCHANGED <<aborted, runner>> /\ Tasks

\* mutant: the tasks are left to notice the token
DropCancelOnly ==
  /\ runner.at = "up"
  /\ shut' = TRUE /\ runner' = [runner EXCEPT !.at = "closed"]
  /\ UNCHANGED aborted /\ Tasks

Drop ==
  /\ runner.at = "up"
  /\ shut' = TRUE /\ aborted' = Links
  /\ runner' = [runner EXCEPT !.at = "closed"]
  /\ Tasks

Shutdown ==
  /\ runner.at = "up"
  /\ shut' = TRUE /\ runner' = [runner EXCEPT !.at = "closing"]
  /\ UNCHANGED aborted /\ Tasks

Awaited ==
  /\ runner.at = "closing" /\ runner.next \in Links /\ At(runner.next, "gone")
  /\ runner' = [runner EXCEPT !.next = @ + 1]
  /\ UNCHANGED <<shut, aborted>> /\ Tasks

\* mutant: a plain await
GraceUnbounded ==
  /\ runner.at = "closing" /\ runner.next \in Links /\ At(runner.next, "gone")
  /\ runner' = [runner EXCEPT !.next = @ + 1]
  /\ UNCHANGED <<shut, aborted>> /\ Tasks

\* SHUTDOWN_GRACE is over.
GraceOver ==
  /\ runner.at = "closing" /\ runner.next \in Links /\ ~ At(runner.next, "gone")
  /\ aborted' = aborted \cup {runner.next}
  /\ runner' = [runner EXCEPT !.next = @ + 1]
  /\ UNCHANGED shut /\ Tasks

Closed ==
  /\ runner.at = "closing" /\ runner.next \notin Links
  /\ runner' = [runner EXCEPT !.at = "closed"]
  /\ UNCHANGED <<shut, aborted>> /\ Tasks

closing == Awaited \/ GraceOver \/ Closed
-----------------------------------------------------------------------------
\* Everything has ended.
Ended ==
  /\ runner.at = "closed" /\ \A l \in Links : link[l].at \in {"gone", "stuck"} /\ shadows[l] = 0
  /\ UNCHANGED federationVars

FederationNext ==
  \/ \E l \in Links :
       \/ run_link(l) \/ Hang(l) \/ Unhang(l) \/ Announce(l) \/ PeerLost(l) \/ StreamEnded(l)
       \/ ForwarderRefused(l) \/ ForwarderEnd(l)
  \/ ServerShutdown \/ Drop \/ Shutdown \/ closing \/ Ended

(* Tasks are polled when they are ready, timers fire, and a select between *)
(* several ready branches takes each in time.  Nothing is assumed of the   *)
(* peer, of a hung attempt, or of when the server shuts down.              *)
Fairness ==
  /\ \A l \in Links : WF_federationVars(run_link(l))
  /\ WF_federationVars(\E l \in Links : ForwarderEnd(l))
  /\ WF_federationVars(closing)

FederationSpec == FederationInit /\ [][FederationNext]_federationVars /\ Fairness
-----------------------------------------------------------------------------
\* The admin route shows a link as connected only while it has a session or,
\* after the token is cancelled, at its last value; a link that waits to retry
\* never shows an earlier session.
StatusHonest ==
  \A l \in Links :
    /\ status[l] = "Connected" => link[l].at \in {"session", "settle"} \/ (shut /\ At(l, "gone"))
    /\ link[l].at \in {"session", "settle"} => status[l] = "Connected"

\* While passes keep failing the wait grows until it reaches the largest
\* delay, whatever the jitter, and stays within its jitter from then on,
\* through the saturation of the shift and of the counter.
BackoffGrows ==
  [][\A l \in Links :
       link[l].at \in {"connect", "session"} /\ link'[l].at = "sleep"
         => \/ link'[l].delay > link[l].delay
            \/ 10 * link'[l].delay >= 9 * BackoffMax]_federationVars

\* A lost session leads to a new connection attempt, unless the server shuts
\* down: the task never stays on a session that is gone.
Reconnects == \A l \in Links : link[l].lost ~> (At(l, "connect") \/ shut)

\* Shutdown ends in bounded time although an attempt may hang for ever.
ShutdownReturns == runner.at = "closing" ~> runner.at = "closed"

\* When the runner is gone every link's task has ended or is to end at its
\* next await, whichever way the runner went.
NoTaskSurvives == runner.at = "closed" => \A l \in Links : At(l, "gone") \/ l \in aborted

\* The token alone ends every shadow broadcast, also those that outlived their
\* session.
ShadowsEnd == shut ~> \A l \in Links : shadows[l] = 0

\* The links' states, what the admin route shows of them, and what is left of
\* them when the runner is gone agree.
LinksInv == FederationTypeOK /\ StatusHonest /\ NoTaskSurvives

\* Shutdown completes: the runner returns, and all that was forwarded ends.
ShutdownCompletes == ShutdownReturns /\ ShadowsEnd
=============================================================================
