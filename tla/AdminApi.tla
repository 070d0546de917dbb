------------------------------ MODULE AdminApi ------------------------------
(***************************************************************************)
(* The admin API (crates/lvqr-admin/src/routes.rs) over the closures that  *)
(* the server wires into it (crates/lvqr-cli/src/lib.rs): callers change   *)
(* the transcode ladder and the agents, stop ingest listeners and kill     *)
(* publishers.  Requests run side by side, and a request takes the locks   *)
(* of the state behind it several times.                                   *)
(*                                                                         *)
(* The resources are independent, so a behaviour is about one of them:     *)
(* one rendition, one agent, one listener or one publisher.                *)
(***************************************************************************)
EXTENDS Naturals, FiniteSets

CONSTANTS
  Callers,     \* clients of the API
  MaxCalls     \* bound: requests in all, without listings

ASSUME AdminAssumption == MaxCalls \in Nat /\ IsFiniteSet(Callers)

VARIABLES
  topic,       \* the resource the requests are about
  wired,       \* did the server wire the closure for it
  resource,    \* its parts that are there
  calls,       \* the request each caller waits for
  account      \* history: requests, answers, who changed the resource, did requests overlap

api == <<topic, wired, resource, calls, account>>

\* A rendition is two factories, an agent its factory and its description, a
\* listener is its accept loop, a publisher its uncancelled session and its row.
Parts == [ladder |-> {"video", "audio"}, agents |-> {"runner", "described"},
          ingest |-> {"accepts"}, broadcasts |-> {"streams", "row"}]

Idle == [at |-> "idle", op |-> "none", token |-> "none"]

AdminInit ==
  /\ topic \in DOMAIN Parts /\ wired \in BOOLEAN
  /\ resource \in {{}, Parts[topic]}
  /\ calls = [c \in Callers |-> Idle]
  /\ account = [sent |-> 0, made |-> 0, gone |-> IF resource = {} THEN 1 ELSE 0,
                by |-> {}, overlap |-> FALSE, last |-> [op |-> "none", status |-> 0]]

-----------------------------------------------------------------------------
Waiting == {c \in Callers : calls[c].at # "idle"}

\* The handler of c ends with this status.
Respond(c, status) ==
  /\ calls' = [calls EXCEPT ![c] = Idle]
  /\ account' = [account EXCEPT !.last = [op |-> calls[c].op, status |-> status],
                                !.made = IF status = 201 THEN @ + 1 ELSE @,
                                !.gone = IF status = 200 /\ calls[c].op = "delete" THEN @ + 1 ELSE @,
                                !.by = @ \cup IF resource' # resource THEN {calls[c].token} ELSE {}]

\* The handler of c goes on, and reaches `at`.
GoOn(c, at) ==
  /\ calls' = [calls EXCEPT ![c].at = at]
  /\ account' = [account EXCEPT !.by = @ \cup IF resource' # resource THEN {calls[c].token} ELSE {}]

Refuse(c, status) == UNCHANGED resource /\ Respond(c, status)

\* mutant: any token opens the admin routes
AnyToken(t) == t # "none"
\* auth_middleware in front of every route here.
AdminToken(t) == t = "admin"

Request(c, op, t) ==
  /\ calls[c].at = "idle" /\ (op = "get" \/ account.sent < MaxCalls)
  /\ IF AdminToken(t)
     THEN /\ calls' = [calls EXCEPT ![c] = [at |-> "handle", op |-> op, token |-> t]]
          /\ account' = [account EXCEPT !.sent = IF op = "get" THEN @ ELSE @ + 1,
                                        !.overlap = @ \/ Waiting # {}]
     ELSE /\ UNCHANGED calls
          /\ account' = [account EXCEPT !.sent = IF op = "get" THEN @ ELSE @ + 1,
                                        !.last = [op |-> op, status |-> 401]]
  /\ UNCHANGED <<topic, wired, resource>>

Handles(c, of, op) == topic = of /\ calls[c].at = "handle" /\ calls[c].op = op

Unwired(c) == ~wired /\ Refuse(c, 503)

-----------------------------------------------------------------------------
(* The transcode ladder.                                                   *)

\* mutant: the name is looked up before the lock of the push is taken
AddVideoLate(c) ==
  /\ Handles(c, "ladder", "post")
  /\ \/ Refuse(c, 400)
     \/ Unwired(c)
     \/ wired /\ "video" \in resource /\ Refuse(c, 409)
     \/ wired /\ "video" \notin resource /\ UNCHANGED resource /\ GoOn(c, "second")
\* add_transcode_rendition: an invalid name or size is refused first.  The video
\* factory is pushed unless one of this name is there.
AddVideo(c) ==
  /\ Handles(c, "ladder", "post")
  /\ \/ Refuse(c, 400)
     \/ Unwired(c)
     \/ wired /\ "video" \in resource /\ Refuse(c, 409)
     \/ wired /\ "video" \notin resource /\ resource' = resource \cup {"video"} /\ GoOn(c, "second")

\* The audio factory of the same rendition; whether it was there is ignored.
AddAudio(c) ==
  /\ topic = "ladder" /\ calls[c].op = "post" /\ calls[c].at = "second"
  /\ resource' = resource \cup {"audio"} /\ Respond(c, 201)

\* remove_transcode_rendition: is a factory of this name there.
FindRendition(c) ==
  /\ Handles(c, "ladder", "delete")
  /\ \/ Unwired(c)
     \/ wired /\ resource = {} /\ Refuse(c, 404)
     \/ wired /\ resource # {} /\ UNCHANGED resource /\ GoOn(c, "second")

\* mutant: the audio factory stays
RemoveVideo(c) ==
  /\ topic = "ladder" /\ calls[c].op = "delete" /\ calls[c].at = "second"
  /\ resource' = resource \ {"video"} /\ Respond(c, 200)
\* remove_rendition: every factory of the name.
RemoveFactories(c) ==
  /\ topic = "ladder" /\ calls[c].op = "delete" /\ calls[c].at = "second"
  /\ resource' = {} /\ Respond(c, 200)

-----------------------------------------------------------------------------
(* The agents.                                                             *)

AddAgent(c) ==
  /\ Handles(c, "agents", "post")
  /\ \/ Refuse(c, 400)
     \/ Unwired(c)
     \/ wired /\ "runner" \in resource /\ Refuse(c, 409)
     \/ wired /\ "runner" \notin resource /\ resource' = resource \cup {"runner"} /\ GoOn(c, "second")

DescribeAgent(c) ==
  /\ topic = "agents" /\ calls[c].op = "post" /\ calls[c].at = "second"
  /\ resource' = resource \cup {"described"} /\ Respond(c, 201)

FindAgent(c) ==
  /\ Handles(c, "agents", "delete")
  /\ \/ Unwired(c)
     \/ wired /\ "runner" \notin resource /\ Refuse(c, 404)
     \/ wired /\ "runner" \in resource /\ UNCHANGED resource /\ GoOn(c, "second")

RemoveAgent(c) ==
  /\ topic = "agents" /\ calls[c].op = "delete" /\ calls[c].at = "second"
  /\ resource' = resource \ {"runner"} /\ GoOn(c, "third")

\* mutant: the description stays
ForgetNothing(c) ==
  /\ topic = "agents" /\ calls[c].op = "delete" /\ calls[c].at = "third"
  /\ UNCHANGED resource /\ Respond(c, 200)
ForgetAgent(c) ==
  /\ topic = "agents" /\ calls[c].op = "delete" /\ calls[c].at = "third"
  /\ resource' = resource \ {"described"} /\ Respond(c, 200)

-----------------------------------------------------------------------------
(* Listeners and publishers.  Their rows are there from the server's start *)
(* and from the publisher's; a protocol that was not started has none.     *)

StopIngest(c) ==
  /\ Handles(c, "ingest", "delete")
  /\ \/ Unwired(c)
     \/ wired /\ resource = {} /\ Refuse(c, 404)     \* no such protocol
     \/ wired /\ resource' = {} /\ Respond(c, 200)    \* stopped now, or before

\* mutant: the row goes with the kill, and the publisher streams on
DropRow(c) ==
  /\ Handles(c, "broadcasts", "delete")
  /\ \/ Unwired(c)
     \/ wired /\ "row" \notin resource /\ Refuse(c, 404)
     \/ wired /\ "row" \in resource /\ resource' = resource \ {"row"} /\ Respond(c, 200)
\* The session's token is cancelled; its row stays until the session ends.
StopBroadcast(c) ==
  /\ Handles(c, "broadcasts", "delete")
  /\ \/ Unwired(c)
     \/ wired /\ "row" \notin resource /\ Refuse(c, 404)
     \/ wired /\ "row" \in resource /\ resource' = resource \ {"streams"} /\ Respond(c, 200)

\* The ingest crate ends a session, cancelled or not, and removes its row.
SessionGone ==
  /\ topic = "broadcasts" /\ "row" \in resource
  /\ resource' = {} /\ UNCHANGED <<topic, wired, calls, account>>

\* A listing reads the live state under its lock and changes nothing.
Listing(c) ==
  /\ calls[c].at = "handle" /\ calls[c].op = "get"
  /\ Refuse(c, 200)

Ops == [ladder |-> {"get", "post", "delete"}, agents |-> {"get", "post", "delete"},
        ingest |-> {"get", "delete"}, broadcasts |-> {"get", "delete"}]

AdminNext ==
  \/ \E c \in Callers :
       \/ \E op \in Ops[topic], t \in {"admin", "subscriber", "none"} : Request(c, op, t)
       \/ /\ \/ AddVideo(c) \/ AddAudio(c) \/ FindRendition(c) \/ RemoveFactories(c)
             \/ AddAgent(c) \/ DescribeAgent(c) \/ FindAgent(c) \/ RemoveAgent(c) \/ ForgetAgent(c)
             \/ StopIngest(c) \/ StopBroadcast(c) \/ Listing(c)
          /\ UNCHANGED <<topic, wired>>
  \/ SessionGone

-----------------------------------------------------------------------------
(* Properties.                                                             *)

AdminTypeOK ==
  /\ topic \in DOMAIN Parts /\ wired \in BOOLEAN /\ resource \subseteq Parts[topic]
  /\ \A c \in Callers : calls[c].at \in {"idle", "handle", "second", "third"}

\* Nothing is changed on behalf of a caller without the admin token
\* (auth_middleware is in front of every route that changes something).
AdminOnly == account.by \subseteq {"admin"}

\* However requests overlap, a name is created at most once for each time it was
\* removed, or is just being removed: two callers who add the same rendition or
\* agent get one 201 and one 409.
OneCreated ==
  account.made <= account.gone + Cardinality({c \in Callers : calls[c].at = "third"})

\* Callers who wait for their answers find what the answer said: after 201 or
\* 409 a rendition is there with both factories, an agent with its description;
\* after 200 or 404 of a removal nothing of it is left, a listener accepts
\* nothing, a publisher is cancelled or gone, and its row is removed only by
\* its own end.
AnswersTrue ==
  Waiting = {} /\ ~account.overlap =>
    LET last == account.last
    IN  /\ last.op = "post" /\ last.status \in {201, 409} => resource = Parts[topic]
        /\ last.op = "delete" /\ last.status \in {200, 404} => resource \subseteq {"row"}
        /\ topic \in {"ladder", "agents"} => resource \in {{}, Parts[topic]}
        /\ "streams" \in resource => "row" \in resource

\* The admin API is well-typed, obeys admins only and answers truly.
AdminInv == AdminTypeOK /\ AdminOnly /\ OneCreated /\ AnswersTrue
=============================================================================
