------------------------------ MODULE Runners -------------------------------
(***************************************************************************)
(* The tasks the server runs on its broadcasts: the agents, the ladder of  *)
(* renditions, and the worker of one rendition.  They share no state, so   *)
(* each is explored while the others have nothing to do.                   *)
(***************************************************************************)
EXTENDS AgentRunner, TranscodeLadder, TranscodeBackends

VARIABLE runner    \* which of the three is looked at

runners == <<vars, transcode, worker, runner>>

RunnersInit ==
  /\ LadderInit /\ Init /\ WorkerInit
  /\ \/ runner = "agents" /\ ladder = {}
     \/ runner = "ladder" /\ factories = {}
     \/ runner = "worker" /\ factories = {} /\ ladder = {}
  /\ runner # "worker" => backend = [name |-> "software", missing |-> Nothing]

RunnersNext ==
  /\ \/ runner = "agents" /\ Next /\ UNCHANGED <<transcode, worker>>
     \/ runner = "ladder" /\ LadderNext /\ UNCHANGED <<vars, worker>>
     \/ runner = "worker" /\ WorkerNext /\ UNCHANGED <<vars, transcode>>
  /\ UNCHANGED runner

\* Spawned tasks and requests in progress run, and so do a worker thread and
\* the drain that joins it; nobody has to publish or to send a request.
RunnersSpec ==
  /\ RunnersInit /\ [][RunnersNext]_runners
  /\ \A d \in Admins : WF_runners(Admin(d) /\ UNCHANGED <<transcode, worker, runner>>)
  /\ \A a \in Agents, k \in Keys, i \in Incs :
       /\ WF_runners(Drive(a, k, i) /\ UNCHANGED <<transcode, worker, runner>>)
       /\ WF_runners(AbortTakesEffect(a, k, i) /\ UNCHANGED <<transcode, worker, runner>>)
  /\ WF_runners((RunWorker \/ Join) /\ UNCHANGED <<vars, transcode, runner>>)

\* No task outlives its work: an agent's drain whose source is gone ends, and
\* so does one that was aborted, and a transcoder's drain that shuts its worker
\* down.
TasksEnd == DrainsEnd /\ ShutdownReturns

\* The ladder has a drain for each rendition and source and never feeds on
\* its own output, and what a rendition's worker accepts is what comes out.
RenditionsInv == LadderInv /\ WorkerInv
=============================================================================
