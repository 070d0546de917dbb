---------------------------- MODULE RequestPlane ----------------------------
(***************************************************************************)
(* What the server answers to requests: whether a publisher or viewer is   *)
(* admitted, and the manifests and playlists it is given.  These parts     *)
(* share no state, so each is explored while the others have nothing to do.*)
(***************************************************************************)
EXTENDS AuthChain, DashManifest, HlsMaster, HlsRenditions, AdminApi, AdminFeeds,
        ServerLifecycle, PlaybackGate, FilterTap, CaptionAgent, SignalRouting,
        ClusterGossip

CONSTANTS t1, t2, b

\* One publish attempt with a broadcast and one without.
MCRequests == {<<t1, b>>, <<t2, None>>}

\* Stream keys over a static provider; a webhook with reloads by signal; a
\* static provider with reloads from both sides.
MCDeployments == {{"keys"}, {"webhook", "sighup"}, {"sighup", "admin", "edits"}}

\* A source, two of its rungs, and a broadcast below one of them whose last
\* segment is the name of a rung as well, and the one the router keeps for
\* captions.
MCHlsNames == {<<"a">>, <<"a", "hi">>, <<"a", "lo">>, <<"a", "hi", "captions">>}
MCWhole == {<<"a">>}
MCLadder == <<[name |-> "hi", bandwidth |-> 20], [name |-> "lo", bandwidth |-> 30],
              [name |-> "captions", bandwidth |-> 5]>>

\* Flag sets that between them use every kind of step, the first with two
\* providers at once.
MCInvocations == {{"jwks", "webhook", "hls"}, {"cert"}, {"malformed"}, {"config", "federation", "archive", "jwks"},
                  {"whip", "filter", "whisper", "transcode", "static"}, {"srt", "cluster", "supplied"},
                  {"hls", "webhook", "cert", "key"}, {"dash"}, {"record", "mesh"}}

\* Playback requests: a signature or none, and a token.
Sig(secret, scheme, cast, exp) ==
  [secret |-> secret, scheme |-> scheme, cast |-> cast, signed |-> exp, exp |-> exp]
NoSig == Sig(NoSecret, "hls", <<>>, 0)
Tok(kid, alg, signer, cast) ==
  [kid |-> kid, alg |-> alg, signer |-> signer, scope |-> "subscribe", cast |-> cast]
Asks(path, scheme, sig, jwt) == [path |-> path, scheme |-> scheme, sig |-> sig, token |-> jwt]
MCVisits == {
  Asks(<<"a", "m">>, "hls", Sig("s1", "hls", <<"a">>, 1), Tok("k1", "RS256", "k1", <<>>)),
  Asks(<<"a", "m">>, "dash", Sig("s1", "hls", <<"a">>, 2), Tok("k2", "ES256", "k2", <<"a">>)),
  Asks(<<"a", "m">>, "hls", NoSig, Tok("k2", "ES256", "k2", <<"a">>)),
  Asks(<<"m">>, "hls", NoSig, Tok("none", "RS256", "k1", <<>>)),
  Asks(<<"a", "m">>, "hls", NoSig, Tok("none", "RS256", "k1", <<>>))}
MCKeyAlg == "k1" :> "RS256" @@ "k2" :> "ES256" @@ "k3" :> "none"

\* One node starts twice; two entries of one moment, and a later one.
MCBoots == [i \in Members |-> IF i = "n" THEN 2 ELSE 1]
MCStamped == {<<0, 1>>, <<0, 2>>, <<1, 1>>}

VARIABLE asked    \* the part the requests are for

plane == <<chain, manifest, hls, captions, delta, api, slo, logs, views, rows, life, gate, filter, speech, signals,
           relayed, gossip, asked>>

PlaneInit ==
  /\ ChainInit /\ ManifestInit /\ HlsInit /\ CaptionsInit /\ DeltaInit
  /\ AdminInit /\ SloInit /\ LogsInit /\ ViewsInit /\ RowsInit /\ LifeInit
  /\ GateInit /\ FilterInit /\ SpeechInit /\ SignalInit /\ RelayInit /\ GossipInit
  /\ asked \in {"auth", "mpd", "master", "captions", "delta", "admin", "slo", "logs", "views",
               "archive", "life", "gate", "filter", "speech", "signal", "relay", "cluster"}
  /\ asked # "auth" => uses = CHOOSE u \in Deployments : TRUE
  /\ asked # "admin" => topic = "ladder" /\ ~wired /\ resource = {}
  /\ asked # "gate" => issuer = (CHOOSE ks \in KeySets : Usable(ks) # {}) /\ hmac = NoSecret
  /\ asked # "life" => flags = CHOOSE f \in Invocations : TRUE

PlaneNext ==
  /\ \/ asked = "auth" /\ ChainNext
     \/ asked # "auth" /\ UNCHANGED chain
  /\ \/ asked = "mpd" /\ ManifestNext
     \/ asked # "mpd" /\ UNCHANGED manifest
  /\ \/ asked = "master" /\ HlsNext
     \/ asked # "master" /\ UNCHANGED hls
  /\ \/ asked = "captions" /\ CaptionsNext
     \/ asked # "captions" /\ UNCHANGED captions
  /\ \/ asked = "delta" /\ DeltaNext
     \/ asked # "delta" /\ UNCHANGED delta
  /\ \/ asked = "admin" /\ AdminNext
     \/ asked # "admin" /\ UNCHANGED api
  /\ \/ asked = "slo" /\ SloNext
     \/ asked # "slo" /\ UNCHANGED slo
  /\ \/ asked = "logs" /\ LogsNext
     \/ asked # "logs" /\ UNCHANGED logs
  /\ \/ asked = "views" /\ ViewsNext
     \/ asked # "views" /\ UNCHANGED views
  /\ \/ asked = "archive" /\ RowsNext
     \/ asked # "archive" /\ UNCHANGED rows
  /\ \/ asked = "life" /\ LifeNext
     \/ asked # "life" /\ UNCHANGED life
  /\ \/ asked = "gate" /\ GateNext
     \/ asked # "gate" /\ UNCHANGED gate
  /\ \/ asked = "filter" /\ FilterNext
     \/ asked # "filter" /\ UNCHANGED filter
  /\ \/ asked = "speech" /\ SpeechNext
     \/ asked # "speech" /\ UNCHANGED speech
  /\ \/ asked = "signal" /\ SignalNext
     \/ asked # "signal" /\ UNCHANGED signals
  /\ \/ asked = "relay" /\ RelayNext
     \/ asked # "relay" /\ UNCHANGED relayed
  /\ \/ asked = "cluster" /\ GossipNext
     \/ asked # "cluster" /\ UNCHANGED gossip
  /\ UNCHANGED asked

PlaneSpec == PlaneInit /\ [][PlaneNext]_plane

-----------------------------------------------------------------------------
\* Each part's claims are evaluated where that part moves: elsewhere it is in
\* one of its initial states, and each of those is found under its own part too.

\* Stream keys, the providers behind them, the playback gate and the admin API
\* let in whom they should, however requests and reloads overlap (lvqr-auth,
\* config_reload.rs, auth_middleware.rs, lvqr-admin): a key's indexes agree unless
\* two rotations of it have overlapped, a reload that runs alone settles every cell, replaced providers end, a URL's signature
\* decides alone, and only admins change anything.
AccessInv ==
  /\ asked = "auth" => KeysInv /\ LoneReloadSettles /\ WebhookInv
  /\ asked = "admin" => AdminInv
  /\ asked = "gate" => GateInv

\* Manifests, playlists and feeds that are put together from several reads list
\* what is there, in order, and tell what the client needs to follow them, and
\* what the nodes of a cluster gossip is what one of them has written.
AnswersInv ==
  /\ asked = "mpd" => MpdInv
  /\ asked = "master" => MasterInv
  /\ asked = "captions" => CaptionsSound
  /\ asked = "delta" => DeltaInv
  /\ asked \in {"slo", "logs"} => FeedsInv
  /\ asked \in {"views", "archive"} => ViewsInv
  /\ asked = "cluster" => GossipInv

\* A server starts its parts in order and ends them all (lib.rs, main.rs), and
\* the services in it reach whom they should and lose nothing silently: the
\* signalling server and the relay's announcements (lvqr-signal, lvqr-relay), the
\* WASM filter with its reloader (lvqr-wasm) and the captions agent
\* (lvqr-agent-whisper).
ServicesInv ==
  /\ LifecycleInv
  /\ asked \in {"signal", "relay"} => RoutingInv
  /\ asked = "filter" => FilterInv
  /\ asked = "speech" => SpeechInv
=============================================================================
