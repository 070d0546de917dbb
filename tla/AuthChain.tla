----------------------------- MODULE AuthChain ------------------------------
(***************************************************************************)
(* Authentication: the store of stream keys, the webhook provider, and the *)
(* chain of providers over both that configuration reloads replace.        *)
(***************************************************************************)
EXTENDS Integers, FiniteSets, FiniteSetsExt
-----------------------------------------------------------------------------
(***************************************************************************)
(* The store of stream keys, crates/lvqr-auth/src/stream_key_store.rs: a   *)
(* map from id to key and a reverse index from token to id, both           *)
(* concurrent, with no lock over the two.  Minting, revoking and rotating  *)
(* a key touch them one after the other, and so does a lookup.             *)
(*                                                                         *)
(* Ids and tokens are random and never repeat: a fresh one is one that has *)
(* not been handed out.  A key's label is left out.                        *)
(***************************************************************************)

CONSTANTS
  Ids, Tokens, Broadcasts,
  Admins,   \* admin requests that may be in progress at once
  None

ASSUME StoreAssumption == None \notin Ids \cup Tokens

VARIABLES
  by_id,     \* id -> key
  by_token,  \* token -> id
  admin,     \* request -> what it has still to do
  issued,    \* ids and tokens handed out
  revoked,   \* history: ids whose revocation has begun
  crowded    \* history: ids that one request rotated while another had not finished

store == <<by_id, by_token, admin, issued, revoked, crowded>>

NoKey == [token |-> None, scope |-> None, expired |-> FALSE]
NoRequest == [at |-> "idle", id |-> None, old |-> None, new |-> None, scope |-> None]
Scopes == Broadcasts \cup {None}

StoreInit ==
  /\ by_id = [i \in Ids |-> NoKey]
  /\ by_token = [t \in Tokens |-> None]
  /\ admin = [a \in Admins |-> NoRequest]
  /\ issued = {} /\ revoked = {} /\ crowded = {}

StoreTypeOK ==
  /\ by_id \in [Ids -> [token : Tokens \cup {None}, scope : Scopes, expired : BOOLEAN]]
  /\ by_token \in [Tokens -> Ids \cup {None}]
  /\ admin \in [Admins -> [at : {"idle", "minted", "revoked", "rotated", "removed"},
                           id : Ids \cup {None}, old : Tokens \cup {None},
                           new : Tokens \cup {None}, scope : Scopes]]
  /\ issued \subseteq Ids \cup Tokens /\ revoked \subseteq Ids /\ crowded \subseteq Ids

Known(i) == by_id[i] # NoKey
Busy(i) == \E a \in Admins : admin[a].id = i
-----------------------------------------------------------------------------
\* mint: the reverse index first, then the key.
MintToken(a, i, t, s) ==
  /\ admin[a] = NoRequest /\ {i, t} \cap issued = {}
  /\ by_token' = [by_token EXCEPT ![t] = i]
  /\ issued' = issued \cup {i, t}
  /\ admin' = [admin EXCEPT ![a] = [at |-> "minted", id |-> i, old |-> None, new |-> t, scope |-> s]]
  /\ UNCHANGED <<by_id, revoked, crowded>>

MintKey(a) ==
  /\ admin[a].at = "minted"
  /\ by_id' = [by_id EXCEPT ![admin[a].id] =
                 [token |-> admin[a].new, scope |-> admin[a].scope, expired |-> FALSE]]
  /\ admin' = [admin EXCEPT ![a] = NoRequest]
  /\ UNCHANGED <<by_token, issued, revoked, crowded>>

\* mutant: only the reverse index is cleared
RevokeLookup(a, i) ==
  /\ admin[a] = NoRequest /\ Known(i)
  /\ admin' = [admin EXCEPT ![a] = [NoRequest EXCEPT !.at = "revoked", !.id = i, !.old = by_id[i].token]]
  /\ revoked' = revoked \cup {i}
  /\ UNCHANGED <<by_id, by_token, issued, crowded>>

\* revoke of an id that is there: the key, then the token it had.
RevokeKey(a, i) ==
  /\ admin[a] = NoRequest /\ Known(i)
  /\ by_id' = [by_id EXCEPT ![i] = NoKey]
  /\ admin' = [admin EXCEPT ![a] = [NoRequest EXCEPT !.at = "revoked", !.id = i, !.old = by_id[i].token]]
  /\ revoked' = revoked \cup {i}
  /\ UNCHANGED <<by_token, issued, crowded>>

RevokeToken(a) ==
  /\ admin[a].at = "revoked"
  /\ by_token' = [by_token EXCEPT ![admin[a].old] = None]
  /\ admin' = [admin EXCEPT ![a] = NoRequest]
  /\ UNCHANGED <<by_id, issued, revoked, crowded>>

\* rotate: the key under its entry's lock, with a new scope and lifetime
\* when the request has a body; the lock is released before the index.
RotateKey(a, i, t, body, s) ==
  /\ admin[a] = NoRequest /\ Known(i) /\ t \notin issued
  /\ ~ body => s = None
  /\ by_id' = [by_id EXCEPT ![i] = IF body THEN [token |-> t, scope |-> s, expired |-> FALSE]
                                           ELSE [@ EXCEPT !.token = t]]
  /\ issued' = issued \cup {t}
  /\ admin' = [admin EXCEPT ![a] = [at |-> "rotated", id |-> i, old |-> by_id[i].token,
                                    new |-> t, scope |-> None]]
  /\ crowded' = IF Busy(i) THEN crowded \cup {i} ELSE crowded
  /\ UNCHANGED <<by_token, revoked>>

\* mutant: the token it has just issued
RotateRemoveNew(a) ==
  /\ admin[a].at = "rotated"
  /\ by_token' = [by_token EXCEPT ![admin[a].new] = None]
  /\ admin' = [admin EXCEPT ![a].at = "removed", ![a].old = None]
  /\ UNCHANGED <<by_id, issued, revoked, crowded>>

RotateRemove(a) ==
  /\ admin[a].at = "rotated"
  /\ by_token' = [by_token EXCEPT ![admin[a].old] = None]
  /\ admin' = [admin EXCEPT ![a].at = "removed", ![a].old = None]
  /\ UNCHANGED <<by_id, issued, revoked, crowded>>

\* mutant: the request has failed half-way
RotateForget(a) ==
  /\ admin[a].at = "removed"
  /\ admin' = [admin EXCEPT ![a] = NoRequest]
  /\ UNCHANGED <<by_id, by_token, issued, revoked, crowded>>

RotateInsert(a) ==
  /\ admin[a].at = "removed"
  /\ by_token' = [by_token EXCEPT ![admin[a].new] = admin[a].id]
  /\ admin' = [admin EXCEPT ![a] = NoRequest]
  /\ UNCHANGED <<by_id, issued, revoked, crowded>>

\* A key's lifetime ends; it stays in the store.
Expire(i) ==
  /\ Known(i) /\ ~ by_id[i].expired
  /\ by_id' = [by_id EXCEPT ![i].expired = TRUE]
  /\ UNCHANGED <<by_token, admin, issued, revoked, crowded>>

StoreNext ==
  \/ \E a \in Admins :
       \/ \E i \in Ids, t \in Tokens, s \in Scopes : MintToken(a, i, t, s)
       \/ MintKey(a)
       \/ \E i \in Ids : RevokeKey(a, i)
       \/ RevokeToken(a)
       \/ \E i \in Ids, t \in Tokens, body \in BOOLEAN, s \in Scopes : RotateKey(a, i, t, body, s)
       \/ RotateRemove(a)
       \/ RotateInsert(a)
  \/ \E i \in Ids : Expire(i)
-----------------------------------------------------------------------------
(* What a lookup by token reads, in two steps. *)

TokenLookup(t) == by_token[t]
KeyLookup(i) == IF by_id[i].expired THEN NoKey ELSE by_id[i]
-----------------------------------------------------------------------------
(***************************************************************************)
(* The webhook provider, crates/lvqr-auth/src/webhook_provider.rs: checks  *)
(* are answered from a cache; a miss is refused, queued, and fetched by a  *)
(* task of its own.  Every instance has its own cache, queue and task; a   *)
(* configuration reload makes a new instance, and dropping the last        *)
(* reference to an instance aborts its task.                               *)
(*                                                                         *)
(* Time is kept as what is left of an entry's lifetime; an entry that has  *)
(* run out stays until it is replaced or evicted.                          *)
(***************************************************************************)

CONSTANTS
  Slots,     \* names for provider instances that exist at the same time
  Requests,  \* cache keys
  Capacity,  \* cache_capacity
  AllowTtl, DenyTtl

ASSUME WebhookAssumption ==
  /\ Capacity \in Nat \ {0}
  /\ AllowTtl \in Nat \ {0} /\ DenyTtl \in Nat \ {0}    \* validate_config

VARIABLE hook   \* slot -> provider instance

Absent == [allow |-> FALSE, left |-> -1]
NoHook == [at |-> "free", cache |-> [r \in Requests |-> Absent],
           pending |-> {}, permit |-> FALSE, batch |-> {}]
NewHook == [NoHook EXCEPT !.at = "idle"]

HookTypeOK ==
  \A p \in Slots :
    LET h == hook[p]
        stored == {r \in Requests : h.cache[r] # Absent} IN
    /\ h.at \in {"free", "idle", "awake", "post"}
    /\ h.cache \in [Requests -> [allow : BOOLEAN, left : -1..(AllowTtl + DenyTtl)]]
    /\ Cardinality(stored) <= Capacity
    /\ \A r \in stored : h.cache[r].left <= (IF h.cache[r].allow THEN AllowTtl ELSE DenyTtl)
    /\ h.pending \subseteq Requests /\ h.batch \subseteq Requests /\ h.permit \in BOOLEAN

Alive(p) == hook[p].at # "free"
Live(e) == e.left > 0     \* expires_at > now
-----------------------------------------------------------------------------
(* check: the cache, then the queue, then the wake-up. *)

Cached(p, r) == hook[p].cache[r]
Enqueue(p, r) == hook' = [hook EXCEPT ![p].pending = @ \cup {r}]
\* mutant: notify_waiters, which keeps no permit
KickWaiters(p) == hook' = [hook EXCEPT ![p].permit = @ \/ hook[p].at = "idle"]
Kick(p) == hook' = [hook EXCEPT ![p].permit = TRUE]
-----------------------------------------------------------------------------
(* The fetcher. *)

FetchWake(p) ==
  /\ hook[p].at = "idle" /\ hook[p].permit
  /\ hook' = [hook EXCEPT ![p].at = "awake", ![p].permit = FALSE]

FetchTake(p) ==
  /\ hook[p].at = "awake"
  /\ hook' = [hook EXCEPT ![p].pending = {}, ![p].batch = hook[p].pending,
                          ![p].at = IF hook[p].pending = {} THEN "idle" ELSE "post"]

Stored(c) == {r \in Requests : c[r] # Absent}

\* mutant: one entry too many
EvictedLate(c) ==
  {[r \in Requests |-> IF r = v THEN Absent ELSE c[r]] :
     v \in {r \in Stored(c) : Cardinality(Stored(c)) > Capacity /\ \A q \in Stored(c) : c[r].left <= c[q].left}}
  \cup (IF Cardinality(Stored(c)) <= Capacity THEN {c} ELSE {})

\* evict_if_full: when the cache is full the entry that expires first goes,
\* even when the key to be stored is there already.
Evicted(c) ==
  {[r \in Requests |-> IF r = v THEN Absent ELSE c[r]] :
     v \in {r \in Stored(c) : Cardinality(Stored(c)) >= Capacity /\ \A q \in Stored(c) : c[r].left <= c[q].left}}
  \cup (IF Cardinality(Stored(c)) < Capacity THEN {c} ELSE {})

\* An answer to one POST of the batch; a failed call counts as a refusal.
FetchPost(p, r, allow) ==
  /\ hook[p].at = "post" /\ r \in hook[p].batch
  /\ \E c \in Evicted(hook[p].cache) :
       hook' = [hook EXCEPT
         ![p].cache = [c EXCEPT ![r] = [allow |-> allow, left |-> IF allow THEN AllowTtl ELSE DenyTtl]],
         ![p].batch = @ \ {r},
         ![p].at = IF hook[p].batch = {r} THEN "idle" ELSE "post"]

Fetch(p) ==
  \/ FetchWake(p) \/ FetchTake(p)
  \/ \E r \in Requests, allow \in BOOLEAN : FetchPost(p, r, allow)

\* A second passes.
Tick ==
  /\ \E p \in Slots, r \in Requests : Live(Cached(p, r))
  /\ hook' = [p \in Slots |-> [hook[p] EXCEPT !.cache =
                [r \in Requests |-> IF Live(@[r]) THEN [allow |-> @[r].allow, left |-> @[r].left - 1] ELSE @[r]]]]
-----------------------------------------------------------------------------
(***************************************************************************)
(* The authentication chain as the server assembles it: a hot-reload cell  *)
(* (hot_reload_provider.rs) that holds the stream-key provider             *)
(* (multi_key_provider.rs) over the webhook or a static provider, the      *)
(* checks that run through it, and the configuration reloads that replace  *)
(* it (crates/lvqr-cli/src/config_reload.rs), together with the two other  *)
(* cells a reload sets.                                                    *)
(*                                                                         *)
(* Reloads come from the signal task and from admin requests, and nothing  *)
(* keeps them apart.                                                       *)
(***************************************************************************)

CONSTANTS
  Checkers,     \* publish attempts in progress at once
  Reloaders,    \* where reloads come from: the signal task, an admin request
  Files,        \* contents of the configuration file
  Deployments   \* which parts a server has: "keys", "webhook", "edits" of its
                \* file, sources of reloads

\* A request to publish brings a token, and a broadcast or none.
ASSUME ChainAssumption ==
  /\ IsFiniteSet(Requests) /\ Requests \subseteq Tokens \X (Broadcasts \cup {None})
  /\ Slots # {} /\ Files # {} /\ None \notin Slots \cup Reloaders

VARIABLES
  uses,      \* the deployment: streamkeys_enabled, a webhook URL, --config and who reloads
  hot,       \* HotReloadAuthProvider: the instance behind the cell
  cells,     \* contents the auth, ICE and HMAC cells and the status come from
  file,      \* contents of the configuration file
  reload,    \* reload -> its progress
  check,     \* publish attempt -> its progress
  alone,     \* history: the reload that no other one has overlapped
  settled    \* history: contents of the last reload, when it ran alone

reloading == <<uses, cells, file, reload, alone, settled>>
chain == <<store, hook, hot, reloading, check>>

NoReload == [at |-> "idle", file |-> None, slot |-> None]
NoCheck == [at |-> "idle", req |-> None, slot |-> None, id |-> None, allow |-> FALSE, before |-> {}]
Cells == {"auth", "ice", "hmac", "status"}

\* After the reload at boot.
ChainInit ==
  /\ StoreInit
  /\ uses \in Deployments
  /\ hot = CHOOSE p \in Slots : TRUE
  /\ hook = [p \in Slots |-> IF p = hot THEN NewHook ELSE NoHook]
  /\ file = CHOOSE f \in Files : TRUE
  /\ cells = [c \in Cells |-> file]
  /\ reload = [r \in Reloaders |-> NoReload]
  /\ check = [k \in Checkers |-> NoCheck]
  /\ alone = None /\ settled = file

ChainTypeOK ==
  /\ StoreTypeOK /\ HookTypeOK
  /\ hot \in Slots /\ Alive(hot)
  /\ cells \in [Cells -> Files] /\ file \in Files /\ settled \in Files \cup {None}
  /\ alone \in Reloaders \cup {None}
  /\ \A k \in Checkers : check[k].at \in {"idle", "token", "key", "fallback", "queue", "kick", "done"}
  /\ \A r \in Reloaders : reload[r].at \in {"idle", "build", "auth", "ice", "hmac", "status"}
-----------------------------------------------------------------------------
(* An instance ends with its last reference: the cell, a check that loaded *)
(* it, or the reload that built it.                                        *)

Dropped(h, p, current, checks) ==
  IF p = current \/ \E k \in Checkers : checks[k].slot = p THEN h ELSE [h EXCEPT ![p] = NoHook]
-----------------------------------------------------------------------------
(* A publish attempt. *)

Token(req) == req[1]
Scope(req) == req[2]
Set(k, c) == check' = [check EXCEPT ![k] = c]

\* HotReloadAuthProvider::check loads the cell and keeps what it loaded.
Begin(k, req) ==
  /\ check[k] = NoCheck
  /\ Set(k, [NoCheck EXCEPT !.at = IF "keys" \in uses THEN "token" ELSE "fallback",
                            !.req = req, !.slot = hot, !.before = revoked])
  /\ UNCHANGED <<store, hook, hot, reloading>>

\* get_by_token, its first read
CheckToken(k) ==
  /\ check[k].at = "token"
  /\ LET i == TokenLookup(Token(check[k].req)) IN
     Set(k, [check[k] EXCEPT !.at = IF i = None THEN "fallback" ELSE "key", !.id = i])
  /\ UNCHANGED <<store, hook, hot, reloading>>

\* Its second read, and the scope; a key out of scope is refused for good.
CheckKey(k) ==
  /\ check[k].at = "key"
  /\ LET key == KeyLookup(check[k].id) IN
     Set(k, IF key = NoKey
              THEN [check[k] EXCEPT !.at = "fallback", !.id = None]
              ELSE [check[k] EXCEPT !.at = "done",
                                    !.allow = key.scope \in {None, Scope(check[k].req)}])
  /\ UNCHANGED <<store, hook, hot, reloading>>

\* A static provider decides by the configuration alone.
CheckStatic(k, allow) ==
  /\ check[k].at = "fallback" /\ "webhook" \notin uses
  /\ Set(k, [check[k] EXCEPT !.at = "done", !.allow = allow])
  /\ UNCHANGED <<store, hook, hot, reloading>>

CheckCache(k) ==
  /\ check[k].at = "fallback" /\ "webhook" \in uses
  /\ LET e == Cached(check[k].slot, check[k].req) IN
     Set(k, IF Live(e) THEN [check[k] EXCEPT !.at = "done", !.allow = e.allow]
                       ELSE [check[k] EXCEPT !.at = "queue"])
  /\ UNCHANGED <<store, hook, hot, reloading>>

CheckQueue(k) ==
  /\ check[k].at = "queue"
  /\ Enqueue(check[k].slot, check[k].req)
  /\ Set(k, [check[k] EXCEPT !.at = "kick"])
  /\ UNCHANGED <<store, hot, reloading>>

CheckKick(k) ==
  /\ check[k].at = "kick"
  /\ Kick(check[k].slot)
  /\ Set(k, [check[k] EXCEPT !.at = "done"])
  /\ UNCHANGED <<store, hot, reloading>>

\* mutant: what the check loaded is never released
ReturnKeep(k) ==
  /\ check[k].at = "done"
  /\ Set(k, NoCheck)
  /\ UNCHANGED <<store, hook, hot, reloading>>

Return(k) ==
  /\ check[k].at = "done"
  /\ Set(k, NoCheck)
  /\ hook' = Dropped(hook, check[k].slot, hot, check')
  /\ UNCHANGED <<store, hot, reloading>>

Check(k) ==
  \/ CheckToken(k) \/ CheckKey(k) \/ CheckCache(k) \/ CheckQueue(k) \/ CheckKick(k) \/ Return(k)
  \/ \E allow \in BOOLEAN : CheckStatic(k, allow)
-----------------------------------------------------------------------------
(* ConfigReloadHandle::reload. *)

EditFile(f) ==
  /\ f # file /\ file' = f
  /\ UNCHANGED <<store, hook, hot, uses, cells, reload, check, alone, settled>>

\* The file is read and merged with the options the server was started with.
ReadFile(r) ==
  /\ reload[r] = NoReload
  /\ reload' = [reload EXCEPT ![r] = [NoReload EXCEPT !.at = "build", !.file = file]]
  /\ alone' = IF \A q \in Reloaders : reload[q] = NoReload THEN r ELSE None
  /\ UNCHANGED <<store, hook, hot, uses, cells, file, check, settled>>

\* The rebuild fails, at once or after an await: nothing has been touched.
BuildFailed(r) ==
  /\ reload[r].at = "build"
  /\ reload' = [reload EXCEPT ![r] = NoReload]
  /\ UNCHANGED <<store, hook, hot, uses, cells, file, check, alone, settled>>

\* Which slot names the new instance does not matter.
Build(r) ==
  /\ reload[r].at = "build" /\ \E p \in Slots : ~ Alive(p)
  /\ LET p == CHOOSE q \in Slots : ~ Alive(q) IN
     /\ hook' = [hook EXCEPT ![p] = NewHook]
     /\ reload' = [reload EXCEPT ![r].at = "auth", ![r].slot = p]
  /\ UNCHANGED <<store, hot, uses, cells, file, check, alone, settled>>

\* The swap drops what the cell held.
SwapAuth(r) ==
  /\ reload[r].at = "auth"
  /\ hot' = reload[r].slot
  /\ hook' = Dropped(hook, hot, hot', check)
  /\ cells' = [cells EXCEPT !["auth"] = reload[r].file]
  /\ reload' = [reload EXCEPT ![r].at = "ice", ![r].slot = None]
  /\ UNCHANGED <<store, uses, file, check, alone, settled>>

SwapIce(r) ==
  /\ reload[r].at = "ice"
  /\ cells' = [cells EXCEPT !["ice"] = reload[r].file]
  /\ reload' = [reload EXCEPT ![r].at = "hmac"]
  /\ UNCHANGED <<store, hook, hot, uses, file, check, alone, settled>>

\* mutant: read from the file again
SwapHmacReread(r) ==
  /\ reload[r].at = "hmac"
  /\ cells' = [cells EXCEPT !["hmac"] = file]
  /\ reload' = [reload EXCEPT ![r].at = "status"]
  /\ UNCHANGED <<store, hook, hot, uses, file, check, alone, settled>>

SwapHmac(r) ==
  /\ reload[r].at = "hmac"
  /\ cells' = [cells EXCEPT !["hmac"] = reload[r].file]
  /\ reload' = [reload EXCEPT ![r].at = "status"]
  /\ UNCHANGED <<store, hook, hot, uses, file, check, alone, settled>>

\* The status under its lock, the end of the call.
Record(r) ==
  /\ reload[r].at = "status"
  /\ cells' = [cells EXCEPT !["status"] = reload[r].file]
  /\ reload' = [reload EXCEPT ![r] = NoReload]
  /\ settled' = IF alone = r THEN reload[r].file ELSE None
  /\ UNCHANGED <<store, hook, hot, uses, file, check, alone>>

Reload(r) ==
  \/ ReadFile(r) \/ BuildFailed(r) \/ Build(r)
  \/ SwapAuth(r) \/ SwapIce(r) \/ SwapHmac(r) \/ Record(r)
-----------------------------------------------------------------------------
Keys == "keys" \in uses /\ StoreNext /\ UNCHANGED <<hook, hot, reloading, check>>
Hooks ==
  /\ "webhook" \in uses
  /\ (\E p \in Slots : Fetch(p)) \/ Tick
  /\ UNCHANGED <<store, hot, reloading, check>>

ChainNext ==
  \/ Keys \/ Hooks
  \/ \E k \in Checkers : Check(k) \/ \E req \in Requests : Begin(k, req)
  \/ \E r \in Reloaders \cap uses : Reload(r)
  \/ "edits" \in uses /\ \E f \in Files : EditFile(f)

-----------------------------------------------------------------------------
\* The token the store shows for a key is one a publisher can use, as soon as
\* no request on that key is in progress, whichever requests overlapped.
CurrentTokenWorks == \A i \in Ids : Known(i) /\ ~ Busy(i) => by_token[by_id[i].token] = i

\* A token that was rotated away finds no key, once no request on the key is in
\* progress.  Ids that were rotated while a rotation of them was in progress are
\* excepted for good: the index is written after the lock is released, and the
\* earlier rotation may add its token after the later one has looked for it.
\* That token then opens the key until the key is revoked, where the comment on
\* StreamKey says that the old token is invalidated the moment rotate returns.
OldTokensEnd ==
  \A t \in Tokens :
    by_token[t] # None /\ Known(by_token[t]) /\ ~ Busy(by_token[t]) /\ by_token[t] \notin crowded
      => by_id[by_token[t]].token = t

\* A check that begins after a key's revocation is not admitted by that key,
\* whatever rotation the revocation raced with.
RevokeIsFinal ==
  \A k \in Checkers : check[k].at = "done" /\ check[k].allow => check[k].id \notin check[k].before

\* After a reload that no other reload overlapped, all cells and the status
\* come from the contents it read, even if earlier reloads had mixed them;
\* a reload that fails leaves this so.  Reloads that overlap are excepted: they
\* swap cell by cell without a common lock, and a mixture stays until the next
\* lone reload.
LoneReloadSettles ==
  (\A r \in Reloaders : reload[r] = NoReload) /\ settled # None
    => \A c \in Cells : cells[c] = settled

\* When no check and no reload is in progress there is one provider instance
\* and one fetcher task, however reloads overlapped with checks.
OneInstance ==
  (\A r \in Reloaders : reload[r].slot = None) /\ (\A k \in Checkers : check[k] = NoCheck)
    => {p \in Slots : Alive(p)} = {hot}

\* A request in the queue is not forgotten: the fetcher is about to take the
\* queue, or a wake-up is stored, or the check that queued it is about to
\* store one, however checks overlap with calls in progress.
KickNotLost ==
  \A p \in Slots :
    hook[p].pending # {} => \/ hook[p].at = "awake" \/ hook[p].permit
                           \/ \E k \in Checkers : check[k].at = "kick" /\ check[k].slot = p

\* What a stream key opens follows its rotations and its revocation, however
\* these overlap with each other and with checks (mint, rotate, revoke, check);
\* what overlapping rotations of one key may leave open, OldTokensEnd says.
KeysInv == CurrentTokenWorks /\ OldTokensEnd /\ RevokeIsFinal

\* The webhook provider keeps its bounds, one instance, and every request it
\* has queued (WebhookAuthProvider, HotReloadAuthProvider).
WebhookInv == ChainTypeOK /\ OneInstance /\ KickNotLost
=============================================================================
