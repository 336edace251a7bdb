---------------------------- MODULE Configuration ----------------------------
(***************************************************************************)
(* What provideAttp makes of the configuration file and of its arguments,  *)
(* as far as a client's connections depend on it: whether the node starts  *)
(* at all, and for each peer the namespace and the credentials it is       *)
(* dialed with. A chain of "or" passes over what is missing and over what  *)
(* is empty alike; other tests of the code tell the two apart.             *)
(***************************************************************************)
EXTENDS Naturals, Sequences

CONSTANTS None,   \* a setting that is missing
          Empty,  \* one that is there and false: '', 0 or {}, as its type has it
          Broken  \* one of a type or form its setting cannot have

FirstGivenFault(options) ==
    LET given == {i \in DOMAIN options : options[i] \notin {None, Empty}}
    IN  options[IF given = {} THEN Len(options) ELSE CHOOSE i \in given : \A j \in given : i >= j]
\* a or b or ...: the first that is true, or the last of all.
FirstGiven(options) ==
    LET given == {i \in DOMAIN options : options[i] \notin {None, Empty}}
    IN  options[IF given = {} THEN Len(options) ELSE CHOOSE i \in given : \A j \in given : i <= j]

-----------------------------------------------------------------------------
(* The node.                                                                *)

\* _coerce_limits, _parse_bind and _coerce_auth_strategy raise; so does provideAttp
\* for limits that are nowhere to be found. Limits of zero and an empty address are
\* accepted where nothing comes after them.
LimitsAreInvalid(side, c) ==
    FirstGiven(<<c.limits.argument[side], c.limits.file[side], c.limits.shared, c.limits.default>>) \in {None, Broken}
BindIsInvalid(c) == FirstGiven(<<c.bind.server, c.bind.node, c.bind.shared>>) = Broken
StrategyIsInvalid(c) == c.auth_strategy = Broken

\* _coerce_peer raises, or AttpClientConfigs does. An empty address or namespace is
\* accepted; one that is null is not missing, but Broken.
PeerIsInvalid(e) ==
    \/ e.shape = "other"
    \/ e.shape = "mapping" /\ (e.uri \in {None, Broken} \/ e.namespace = Broken)

\* The client's auth section. One that is no mapping, Broken, makes no factory; one
\* that is empty has no secret.
AuthSection(c) == FirstGiven(<<c.auth.client, c.auth.services>>)
MakesFactory(c) == c.authenticator.kind = None /\ AuthSection(c) \notin {None, Broken}
DefaultSecret(c) == FirstGiven(<<AuthSection(c).secret, AuthSection(c).shared_secret>>)
AuthIsInvalid(c) ==
    \/ AuthSection(c) = Empty
    \/ AuthSection(c).mode \notin {None, "hmac"} \/ AuthSection(c).ttl = Broken
    \/ DefaultSecret(c) = None

\* provideAttp raises: the node does not start.
Rejects(c) ==
    \/ BindIsInvalid(c) \/ StrategyIsInvalid(c)
    \/ LimitsAreInvalid("server", c) \/ LimitsAreInvalid("client", c)
    \/ \E i \in DOMAIN c.peers : PeerIsInvalid(c.peers[i])
    \/ MakesFactory(c) /\ AuthIsInvalid(c)

\* The authenticator ServiceDiscovery gets: one given to provideAttp, or a factory
\* made from the client's auth section, or none.
AuthenticatorOf(c) == IF MakesFactory(c) THEN [kind |-> "factory"] ELSE c.authenticator

-----------------------------------------------------------------------------
(* A peer.                                                                  *)

\* A peer that is only a URI has the defaults of AttpClientConfigs.
NamespaceOf(e) == IF e.shape = "string" \/ e.namespace = None THEN "default" ELSE e.namespace
Own(e, field) == IF e.shape = "string" THEN None ELSE e[field]

\* _auth_factory: the secret a peer is dialed with.
FactorySecret(c, e) ==
    FirstGiven(<<Own(e, "secret"), Own(e, "shared_secret"), Own(e, "authorization"), DefaultSecret(c)>>)

\* Making the authenticator for peer p raises: a class wants more than a URI and a
\* namespace, or a function given to provideAttp fails.
MakingRaises(c, p) ==
    LET a == AuthenticatorOf(c)
    IN  \/ a.kind = "factory" /\ Broken \in {FactorySecret(c, c.peers[p]), Own(c.peers[p], "ttl")}
        \/ a.kind = "class" /\ a.credentials = Broken
        \/ a.kind = "callable" /\ a.makes[p] = Broken

\* The namespace and the credentials given to the driver. An instance serves all
\* peers alike; a class gets the URI and the namespace of a peer, and no more; what
\* a function makes need not look at the peer. Without an authenticator, or if the
\* function returns none, it is the one that shows the peer's authorization.
Joined(c, p) ==
    LET a == AuthenticatorOf(c)
        e == c.peers[p]
        own == [namespace |-> NamespaceOf(e), credentials |-> Own(e, "authorization")]
    IN  CASE a.kind = "instance" -> [namespace |-> a.namespace, credentials |-> a.credentials]
          [] a.kind = "class"    -> [own EXCEPT !.credentials = a.credentials]
          [] a.kind = "factory"  -> [own EXCEPT !.credentials = FactorySecret(c, e)]
          [] a.kind = "callable" -> IF a.makes[p] = None THEN own ELSE a.makes[p]
          [] OTHER               -> own
=============================================================================
