------------------------------ MODULE Discovery ------------------------------
(***************************************************************************)
(* ServiceDiscovery: the coroutine start_initial_connections dials the     *)
(* configured peers in their order, and the sessions it starts enter the   *)
(* registry. initiate_connection returns only when its session has ended,  *)
(* so the loop reaches the next peer no earlier. The coroutine suspends in *)
(* client.connect, in driver.start, in driver.close and in driver.listen;  *)
(* between them connections break, time out and are shut down. What start, *)
(* listen and close do inside is Session's subject; which peers there are, *)
(* and with what they are dialed, is Configuration's.                      *)
(***************************************************************************)
EXTENDS Configuration, FiniteSets

CONSTANTS
    NPeers,     \* services.peers are numbered in their order
    Namespaces,
    Configs     \* what the configuration may be

Peers == 1 .. NPeers

ASSUME DiscoveryAssumption ==
    /\ NPeers \in Nat
    /\ \A c \in Configs : Len(c.peers) = NPeers
    /\ "default" \in Namespaces
    /\ \A c \in Configs : \A p \in Peers :
          (~Rejects(c) /\ ~MakingRaises(c, p)) => Joined(c, p).namespace \in Namespaces

\* What provideAttp can be given.
ASSUME GivenAssumption ==
    /\ \A c \in Configs : c.authenticator.kind \in {None, "instance", "class", "callable"}
    /\ None \notin {"instance", "class", "callable", "factory"}

VARIABLES
    config,   \* fixed at start-up
    at,       \* where provideAttp, then the loop stands
    peer,     \* the peer it is at
    fate,     \* what became of the attempt for each peer
    open,     \* peers with a connection: the driver's _session
    ending,   \* peers whose close has begun while there was a session
    registry, \* NamespaceDispatcher, the sessions of this component in it
    consumed, \* namespaces whose receiver the frame dispatcher reads
    stopping, \* on_shutdown has run
    stillborn, \* history: sessions dead when they were registered
    shown     \* history: the credentials each peer has been sent

vars == <<config, at, peer, fate, open, ending, registry, consumed, stopping, stillborn, shown>>

Init ==
    /\ config \in Configs
    /\ at = "booting"
    /\ peer = 1
    /\ fate = [p \in Peers |-> "untried"]
    /\ open = {}
    /\ ending = {}
    /\ registry = [ns \in Namespaces |-> {}]
    /\ consumed = {}
    /\ stopping = FALSE
    /\ stillborn = {}
    /\ shown = [p \in Peers |-> {}]

\* The namespace that AUTH and the driver get.
JoinedNamespace(p) == Joined(config, p).namespace

\* provideAttp, before anything runs.
Provide ==
    /\ at = "booting"
    /\ at' = IF Rejects(config) THEN "rejected" ELSE "choosing"
    /\ UNCHANGED <<config, peer, fate, open, ending, registry, consumed, stopping, stillborn, shown>>

-----------------------------------------------------------------------------
(* The loop.                                                                *)

\* The rest of the iteration; an exception of initiate_connection only logs.
MoveOn(p, f) == fate' = [fate EXCEPT ![p] = f] /\ peer' = p + 1 /\ at' = "choosing"
RaiseFault(p) == fate' = [fate EXCEPT ![p] = "failed"] /\ at' = "finished" /\ UNCHANGED peer
Raise(p) == MoveOn(p, "failed")

\* The authenticator is made outside the try: what it raises ends the loop.
ChooseAuthenticator ==
    /\ at = "choosing" /\ peer \in Peers
    /\ at' = IF MakingRaises(config, peer) THEN "crashed" ELSE "dialing"
    /\ UNCHANGED <<config, peer, fate, open, ending, registry, consumed, stopping, stillborn, shown>>

Finish ==
    /\ at = "choosing" /\ peer \notin Peers
    /\ at' = "finished"
    /\ UNCHANGED <<config, peer, fate, open, ending, registry, consumed, stopping, stillborn, shown>>

\* client.connect has used up its retries, or has no session.
DialFails ==
    /\ at = "dialing"
    /\ Raise(peer)
    /\ UNCHANGED <<config, open, ending, registry, consumed, stopping, stillborn, shown>>

Dialed ==
    /\ at = "dialing"
    /\ at' = "starting"
    /\ open' = open \cup {peer}
    /\ UNCHANGED <<config, peer, fate, ending, registry, consumed, stopping, stillborn, shown>>

\* AUTH is written; then start waits for auth_flag.
Authenticate ==
    /\ at = "starting" /\ peer \in open
    /\ at' = "awaiting"
    /\ shown' = [shown EXCEPT ![peer] = @ \cup {Joined(config, peer).credentials}]
    /\ UNCHANGED <<config, peer, fate, open, ending, registry, consumed, stopping, stillborn>>

\* start raises: the secret cannot be resolved, or AUTH cannot be written.
\* Nothing closes the driver, so its connection may stay open.
StartFails ==
    /\ at = "starting"
    /\ Raise(peer)
    /\ UNCHANGED <<config, open, ending, registry, consumed, stopping, stillborn, shown>>

StartTimesOut ==
    /\ at = "awaiting"
    /\ at' = "closing"
    /\ UNCHANGED <<config, peer, fate, open, ending, registry, consumed, stopping, stillborn, shown>>

FlushFault == open
Flush == open \ {peer}
\* close stops the listener and writes DISCONNECT. If that raises, as it does when
\* the session ends under it, the rest of close is left out and the loop catches
\* it: the driver may keep its session. Without a session there is nothing to do.
Closed ==
    /\ at = "closing"
    /\ ending' = IF peer \in open THEN ending \cup {peer} ELSE ending
    /\ \/ open' = Flush /\ MoveOn(peer, "refused")
       \/ UNCHANGED open /\ Raise(peer)
    /\ UNCHANGED <<config, registry, consumed, stopping, stillborn, shown>>

\* add_session, dispatcher.start and the first look of listen at auth_flag do
\* not suspend. The session may have ended since auth_flag was set.
Register ==
    /\ at = "awaiting"
    /\ LET ns == JoinedNamespace(peer)
       IN  /\ registry' = [registry EXCEPT ![ns] = @ \cup {peer}]
           /\ consumed' = consumed \cup {ns}
    /\ stillborn' = IF peer \in open THEN stillborn ELSE stillborn \cup {peer}
    /\ at' = "listening"
    /\ UNCHANGED <<config, peer, fate, open, ending, stopping, shown>>

\* listen returns when the session has ended, or for the None that a close has
\* queued first of all, whether or not its write ever ends.
Listened ==
    /\ at = "listening" /\ (peer \notin open \/ peer \in ending)
    /\ MoveOn(peer, "served")
    /\ UNCHANGED <<config, open, ending, registry, consumed, stopping, stillborn, shown>>

-----------------------------------------------------------------------------
(* The world.                                                               *)

\* close begins outside of the loop, in the server's terminate_all or for routes
\* that do not fit: it stops the listener. If its write raises there is no more.
CloseBegins(p) ==
    /\ p \in open \ ending
    /\ ending' = ending \cup {p}
    /\ UNCHANGED <<config, at, peer, fate, open, registry, consumed, stopping, stillborn, shown>>

\* handle_disconnect, or the end of close, with on_session_termination.
UnregisterFault(p) == [registry EXCEPT ![NamespaceOf(config.peers[p])] = @ \ {p}]
Unregister(p) == [registry EXCEPT ![JoinedNamespace(p)] = @ \ {p}]
Disconnect(p) ==
    /\ p \in open
    /\ open' = open \ {p}
    /\ registry' = Unregister(p)
    /\ UNCHANGED <<config, at, peer, fate, ending, consumed, stopping, stillborn, shown>>

\* on_shutdown stops every consumer, and nothing else: the sessions are closed
\* by the server's on_shutdown (Disconnect), the loop is not told.
Shutdown ==
    /\ ~stopping
    /\ stopping' = TRUE
    /\ consumed' = {}
    /\ UNCHANGED <<config, at, peer, fate, open, ending, registry, stillborn, shown>>

-----------------------------------------------------------------------------
Loop ==
    \/ Provide \/ ChooseAuthenticator \/ Finish \/ DialFails \/ Dialed \/ StartFails
    \/ Authenticate \/ StartTimesOut \/ Closed \/ Register \/ Listened

Next ==
    \/ Loop \/ Shutdown
    \/ \E p \in Peers : CloseBegins(p) \/ Disconnect(p)

Spec == Init /\ [][Next]_vars

\* The event loop runs the coroutine whenever it can go on; dialing ends after
\* its retries and starting by its timer. No session need ever end.
FairSpec == Spec /\ WF_vars(Loop)

-----------------------------------------------------------------------------
(* Properties.                                                              *)

TypeOK ==
    /\ config \in Configs
    /\ at \in {"booting", "rejected", "choosing", "dialing", "starting", "awaiting", "closing", "listening", "crashed", "finished"}
    /\ peer \in 1 .. NPeers + 1
    /\ fate \in [Peers -> {"untried", "failed", "refused", "served"}]
    /\ open \subseteq Peers /\ ending \subseteq Peers
    /\ registry \in [Namespaces -> SUBSET Peers]
    /\ consumed \subseteq Namespaces
    /\ stopping \in BOOLEAN
    /\ stillborn \subseteq Peers
    /\ \A p \in Peers : Cardinality(shown[p]) <= 1

\* A dead session is never offered to the balancer, whatever namespace it has
\* joined and however its attempt ended, unless it was dead when it joined.
DeadLeave ==
    \A ns \in Namespaces : \A p \in registry[ns] : p \in open \/ p \in stillborn

\* The loop forgets no connection: of those it has left behind, one is open only if
\* its start or its close raised, which the loop has logged, or if it was served and
\* a close begun elsewhere is still writing or has raised.
OnlyFailedStayOpen ==
    \A p \in open : p = peer \/ fate[p] = "failed" \/ (fate[p] = "served" /\ p \in ending)

\* Whatever fails for one peer, the next gets its turn: all are tried, unless a
\* session stays up, an authenticator cannot be made, or nothing starts.
FailureMovesOn ==
    \A p \in Peers :
        <>(fate[p] # "untried") \/ <>(at \in {"crashed", "rejected"}) \/ <>[](at = "listening")

\* What a factory sends a peer is what its own entry names and is not empty: one of
\* its secrets, failing these its authorization, and failing that what the auth
\* section has for all; it is never what another entry names. Without a factory it
\* is the authorization of the entry, or what was given to provideAttp for this very
\* peer or for all.
CredentialsFollowEntry ==
    \A p \in Peers : \A x \in shown[p] :
        LET named(fields) == {Own(config.peers[p], field) : field \in fields} \ {None, Empty}
            secrets == named({"secret", "shared_secret"})
            tokens == named({"authorization"})
            given == config.authenticator
        IN  IF MakesFactory(config)
            THEN \/ x \in secrets
                 \/ secrets = {} /\ x \in tokens
                 \/ secrets = {} /\ tokens = {} /\ x = DefaultSecret(config)
            ELSE \/ given.kind \in {"instance", "class"} /\ x = given.credentials
                 \/ given.kind = "callable" /\ given.makes[p] # None /\ x = given.makes[p].credentials
                 \/ /\ given.kind = None \/ (given.kind = "callable" /\ given.makes[p] = None)
                    /\ x = Own(config.peers[p], "authorization")

-----------------------------------------------------------------------------
(* What the configuration says and the code does not keep.                  *)

\* The configuration lists several peers: each is dialed, however well the
\* connection to another one holds.
EveryPeerIsDialed ==
    \A p \in Peers : <>(stopping \/ (at = "dialing" /\ peer = p))
=============================================================================
