---------------------------- MODULE PlaybackGate ----------------------------
(***************************************************************************)
(* Who may watch: the middleware of the live playback routes, with signed  *)
(* URLs and bearer tokens (crates/lvqr-cli/src/auth_middleware.rs,         *)
(* signed_url.rs), before a provider whose keys are fetched from an issuer *)
(* and refreshed in the background (crates/lvqr-auth/src/jwks_provider.rs).*)
(* The issuer rotates its keys and may be out of reach; the secret of the  *)
(* signed URLs is swapped by a reload.                                     *)
(***************************************************************************)
EXTENDS Naturals, FiniteSets, SequencesExt

CONSTANTS
  Kids,          \* key ids of the issuer
  KeySets,       \* the sets of keys it publishes
  KeyAlg,        \* the algorithm of each key; "none" for a kind that is not supported
  AllowedAlgs,   \* the algorithms the operator allows
  Secrets,       \* secrets for signed URLs; NoSecret turns them off
  NoSecret,
  Visits,        \* the requests of viewers
  MaxNow         \* bound: the clock

ASSUME GateAssumption == MaxNow \in Nat /\ NoSecret \notin Secrets /\ "none" \notin AllowedAlgs

VARIABLES
  issuer,        \* the keys the issuer publishes
  cachedKeys,    \* the provider's cache
  refresher,     \* the refresh task
  permit,        \* the stored permit of refresh_notify
  fetched,       \* what the fetch in progress has read
  missed,        \* history: ids that were missed since a fetch last asked the issuer
  snapshots,     \* history: the sets of usable keys the issuer has published
  hmac,          \* the swappable secret
  now,
  visit,         \* the request in progress
  inForce        \* history: secrets in force while it was

gate == <<issuer, cachedKeys, refresher, permit, fetched, missed, snapshots, hmac, now, visit, inForce>>

\* A request has a path, maybe a signature and maybe a token.
NoVisit == [at |-> "none", ask |-> CHOOSE v \in Visits : TRUE, secret |-> NoSecret, by |-> "none"]

\* algorithm_for: keys of an unsupported kind are skipped.
Usable(ks) == {k \in ks : KeyAlg[k] # "none"}

GateInit ==
  /\ issuer \in {ks \in KeySets : Usable(ks) # {}}
  /\ cachedKeys = Usable(issuer) /\ refresher = "wait" /\ permit = FALSE /\ fetched = {}
  /\ missed = {} /\ snapshots = {Usable(issuer)}
  /\ hmac \in Secrets \cup {NoSecret} /\ now = 0 /\ visit = NoVisit /\ inForce = {}

-----------------------------------------------------------------------------
(* The refresh task.                                                       *)

\* The issuer publishes another set of keys.
RotateKeys(ks) ==
  /\ issuer' = ks /\ snapshots' = snapshots \cup {Usable(ks)}
  /\ UNCHANGED <<cachedKeys, refresher, permit, fetched, missed, hmac, now, visit, inForce>>

\* The ticker or a permit wakes the task.
RefreshWakes ==
  /\ refresher = "wait" /\ refresher' = "fetch"
  /\ permit' \in {permit, FALSE}    \* the ticker leaves a permit, notified takes it
  /\ UNCHANGED <<issuer, cachedKeys, fetched, missed, snapshots, hmac, now, visit, inForce>>

\* fetch_and_parse: the answer leaves the issuer, or an error.
FetchAsks ==
  /\ refresher = "fetch" /\ refresher' = "store" /\ missed' = {}
  /\ fetched' \in {Usable(issuer), {}}
  /\ UNCHANGED <<issuer, cachedKeys, permit, snapshots, hmac, now, visit, inForce>>

\* mutant: new keys are added to the old ones
FetchAdds ==
  /\ refresher = "store" /\ refresher' = "wait" /\ fetched' = {}
  /\ cachedKeys' = cachedKeys \cup fetched
  /\ UNCHANGED <<issuer, permit, missed, snapshots, hmac, now, visit, inForce>>
\* mutant: an answer without usable keys empties the cache
FetchReplaces ==
  /\ refresher = "store" /\ refresher' = "wait" /\ fetched' = {}
  /\ cachedKeys' = fetched
  /\ UNCHANGED <<issuer, permit, missed, snapshots, hmac, now, visit, inForce>>
\* The cache is replaced as a whole; after an error, or without a usable key,
\* it stays.
FetchStores ==
  /\ refresher = "store" /\ refresher' = "wait" /\ fetched' = {}
  /\ cachedKeys' = IF fetched = {} THEN cachedKeys ELSE fetched
  /\ UNCHANGED <<issuer, permit, missed, snapshots, hmac, now, visit, inForce>>

-----------------------------------------------------------------------------
(* Requests.                                                               *)

SwapSecret(s) ==
  /\ hmac' = s
  /\ inForce' = IF visit.at = "none" THEN inForce ELSE inForce \cup {s}
  /\ UNCHANGED <<issuer, cachedKeys, refresher, permit, fetched, missed, snapshots, now, visit>>

TimePasses ==
  /\ now < MaxNow /\ now' = now + 1
  /\ UNCHANGED <<issuer, cachedKeys, refresher, permit, fetched, missed, snapshots, hmac, visit, inForce>>

\* extract_live_playback_broadcast: everything between the scheme and the last
\* segment.
Broadcast(path) == IF Len(path) < 2 THEN <<>> ELSE Front(path)

Visit(v) ==
  /\ visit.at = "none"
  /\ visit' = [NoVisit EXCEPT !.at = IF Broadcast(v.path) = <<>> THEN "open" ELSE "secret", !.ask = v]
  /\ inForce' = {hmac}
  /\ UNCHANGED <<issuer, cachedKeys, refresher, permit, fetched, missed, snapshots, hmac, now>>

Goes(at, by) == visit' = [visit EXCEPT !.at = at, !.by = by]

\* live_playback_auth_middleware takes a snapshot of the secret.
LoadSecret ==
  /\ visit.at = "secret"
  /\ visit' = [visit EXCEPT !.at = "sig", !.secret = hmac]
  /\ UNCHANGED <<issuer, cachedKeys, refresher, permit, fetched, missed, snapshots, hmac, now, inForce>>

\* mutant: a signature for one scheme opens the other
SignedAnyScheme(sig, secret, v) ==
  sig.secret = secret /\ sig.cast = Broadcast(v.path) /\ sig.signed = sig.exp
\* compute_signature over live_signed_input: scheme, broadcast and expiry.
Signed(sig, secret, v) ==
  /\ sig.secret = secret /\ sig.scheme = v.scheme
  /\ sig.cast = Broadcast(v.path) /\ sig.signed = sig.exp

\* mutant: a signature that fails leaves the request to the token
VerifySignedUrlOr ==
  /\ visit.at = "sig"
  /\ LET v == visit.ask
     IN  \/ (visit.secret = NoSecret \/ v.sig.exp = 0) /\ Goes("token", "none")
         \/ visit.secret # NoSecret /\ v.sig.exp # 0
            /\ IF v.sig.exp <= now \/ ~Signed(v.sig, visit.secret, v) THEN Goes("token", "none")
               ELSE Goes("served", "signature")
  /\ UNCHANGED <<issuer, cachedKeys, refresher, permit, fetched, missed, snapshots, hmac, now, inForce>>
\* verify_live_signed_url: without a secret, or without both parameters, it is
\* not attempted; otherwise it decides alone.
VerifySignedUrl ==
  /\ visit.at = "sig"
  /\ LET v == visit.ask
     IN  \/ (visit.secret = NoSecret \/ v.sig.exp = 0) /\ Goes("token", "none")
         \/ visit.secret # NoSecret /\ v.sig.exp # 0
            /\ IF v.sig.exp <= now \/ ~Signed(v.sig, visit.secret, v) THEN Goes("denied", "signature")
               ELSE Goes("served", "signature")
  /\ UNCHANGED <<issuer, cachedKeys, refresher, permit, fetched, missed, snapshots, hmac, now, inForce>>

\* decode: the key a token names, or the only one there is.
KeyFor(t) ==
  IF t.kid \in Kids THEN {t.kid} \cap cachedKeys
  ELSE IF Cardinality(cachedKeys) = 1 THEN cachedKeys ELSE {}

\* check: algorithm, signature, scope and broadcast.
TokenOk(t, cast) ==
  /\ t.alg \in AllowedAlgs
  /\ \E k \in KeyFor(t) : KeyAlg[k] = t.alg /\ t.signer = k
  /\ t.scope \in {"subscribe", "admin"} /\ t.cast \in {<<>>, cast}

\* A key id that is not cached wakes the refresh task.
Misses(t) == t.alg \in AllowedAlgs /\ t.kid \in Kids \ cachedKeys

\* mutant: the miss is only signalled to a task that waits
CheckBearerWaiters ==
  /\ visit.at = "token"
  /\ LET t == visit.ask.token
     IN  /\ Goes(IF TokenOk(t, Broadcast(visit.ask.path)) THEN "served" ELSE "denied", "token")
         /\ permit' = (permit \/ (Misses(t) /\ refresher = "wait"))
         /\ missed' = IF Misses(t) THEN missed \cup {t.kid} ELSE missed
  /\ UNCHANGED <<issuer, cachedKeys, refresher, fetched, snapshots, hmac, now, inForce>>
CheckBearer ==
  /\ visit.at = "token"
  /\ LET t == visit.ask.token
     IN  /\ Goes(IF TokenOk(t, Broadcast(visit.ask.path)) THEN "served" ELSE "denied", "token")
         /\ permit' = (permit \/ Misses(t))
         /\ missed' = IF Misses(t) THEN missed \cup {t.kid} ELSE missed
  /\ UNCHANGED <<issuer, cachedKeys, refresher, fetched, snapshots, hmac, now, inForce>>

VisitEnds ==
  /\ visit.at \in {"open", "served", "denied"}
  /\ visit' = NoVisit /\ inForce' = {}
  /\ UNCHANGED <<issuer, cachedKeys, refresher, permit, fetched, missed, snapshots, hmac, now>>

GateNext ==
  \/ \E ks \in KeySets : RotateKeys(ks)
  \/ RefreshWakes \/ FetchAsks \/ FetchStores
  \/ \E s \in Secrets \cup {NoSecret} : SwapSecret(s)
  \/ TimePasses \/ LoadSecret \/ VerifySignedUrl \/ CheckBearer \/ VisitEnds
  \/ \E v \in Visits : Visit(v)

-----------------------------------------------------------------------------
(* Properties.                                                             *)

\* Whatever the issuer publishes and however often it is out of reach, the
\* cache holds a set of keys it published at one time, and never none: a key
\* that was withdrawn is gone with the next refresh that succeeds, and a failed
\* refresh locks nobody out.
KeysAreASnapshot == cachedKeys # {} /\ cachedKeys \in snapshots

\* A token whose key was not there is followed by a question to the issuer,
\* even if it came while an earlier answer was on its way.
MissIsAsked == missed # {} => permit \/ refresher = "fetch"

\* Who is served under a signature has one made for this scheme and broadcast
\* with a secret that was in force while the request was, and who brings a
\* signature that does not hold is not served for a token beside it.
SignatureDecides ==
  visit.at = "served" /\ visit.ask.sig.exp # 0 /\ NoSecret \notin inForce =>
    /\ visit.by = "signature"
    /\ visit.ask.sig.secret \in inForce /\ visit.ask.sig.scheme = visit.ask.scheme
    /\ visit.ask.sig.cast = Broadcast(visit.ask.path)

GateInv == KeysAreASnapshot /\ MissIsAsked /\ SignatureDecides
=============================================================================
