----------------------------- MODULE MCDiscovery -----------------------------
(* Instances for TLC: three peers, as in attp.jsonc with its last peer       *)
(* enabled, under each kind of authenticator, with settings that are empty,  *)
(* and configurations that are wrong in one place.                           *)
EXTENDS Discovery

Plain == [shape |-> "mapping", uri |-> "uri", namespace |-> None, ttl |-> None,
          secret |-> None, shared_secret |-> None, authorization |-> None]
PeerOne == [Plain EXCEPT !.namespace = "peer-1"]
WithSecret == [PeerOne EXCEPT !.secret = "own", !.authorization = "token"]
WithToken == [Plain EXCEPT !.namespace = "peer-2", !.authorization = "token"]
WithBroken == [PeerOne EXCEPT !.secret = Broken]
\* Its secret is empty, so its authorization is signed with.
WithEmpty == [Plain EXCEPT !.uri = Empty, !.namespace = Empty, !.secret = Empty, !.authorization = "token"]

Shared == [mode |-> None, ttl |-> None, secret |-> None, shared_secret |-> "common"]
EachSide(x) == [server |-> x, client |-> x]
Sound == [bind |-> [server |-> None, node |-> "0.0.0.0:6563", shared |-> None], auth_strategy |-> "hmac",
          limits |-> [argument |-> EachSide(None), file |-> EachSide(None), shared |-> "limits", default |-> None],
          peers |-> <<[shape |-> "string"], WithSecret, WithToken>>,
          auth |-> [client |-> None, services |-> Shared], authenticator |-> [kind |-> None]]
Given(a) == [Sound EXCEPT !.authenticator = a]
Theirs == [namespace |-> "peer-2", credentials |-> "theirs"]

Accepted ==
    {Sound, [Sound EXCEPT !.auth.services = None], [Sound EXCEPT !.auth.client = Broken],
     Given([kind |-> "class", credentials |-> None]), Given([kind |-> "class", credentials |-> Broken]),
     Given([kind |-> "instance", namespace |-> "peer-2", credentials |-> "theirs"]),
     Given([kind |-> "callable", makes |-> <<None, Theirs, Broken>>]),
     [Sound EXCEPT !.peers[2] = WithEmpty, !.bind.server = Empty, !.auth.client = Empty],
     [Sound EXCEPT !.peers[3] = WithBroken], [Sound EXCEPT !.peers[3].ttl = Broken],
     [Sound EXCEPT !.limits.shared = Empty, !.limits.default = Empty, !.auth.services.shared_secret = Empty],
     [Sound EXCEPT !.auth.services.secret = Broken]}
Wrong ==
    {[Sound EXCEPT !.limits.shared = None], [Sound EXCEPT !.limits.shared = Empty],
     [Sound EXCEPT !.limits = [argument |-> [server |-> "limits", client |-> None],
                               file |-> EachSide(None), shared |-> None, default |-> None]],
     [Sound EXCEPT !.limits.argument = EachSide(Broken)],
     [Sound EXCEPT !.bind.server = Broken], [Sound EXCEPT !.auth_strategy = Broken],
     [Sound EXCEPT !.peers[2].uri = None], [Sound EXCEPT !.peers[2].namespace = Broken],
     [Sound EXCEPT !.peers[2].shape = "other"],
     [Sound EXCEPT !.auth.services.mode = "token"], [Sound EXCEPT !.auth.services.ttl = Broken],
     [Sound EXCEPT !.auth.services = Empty], [Sound EXCEPT !.auth.services.shared_secret = None],
     [Sound EXCEPT !.auth.services.secret = Empty, !.auth.services.shared_secret = None]}
All == Accepted \cup Wrong

\* The node of attp.jsonc, with limits.
Repository == {[Sound EXCEPT !.peers = <<PeerOne, PeerOne, WithToken>>, !.auth.services.secret = "common"]}
AllNamespaces == {"default", "peer-1", "peer-2", Empty}
=============================================================================
