------------------------------- MODULE HmacAuth -------------------------------
(***************************************************************************)
(* Both ends of HMAC authentication, around the cache of ReplayCache. Each *)
(* client signs a frame with its clock, a fresh nonce, and a secret it has *)
(* read once and kept (SecretRef); the server checks it against a secret   *)
(* it has read once and kept, too, chosen by the key id in the frame. The  *)
(* secrets themselves may change; a frame may arrive late, more than once  *)
(* or never. A digest is abstracted to the secret it was made with.        *)
(***************************************************************************)
EXTENDS ReplayCache

CONSTANTS
    Clients,
    Skew,       \* each client's clock, relative to the server's
    Secrets,    \* where secrets are kept: an environment variable, a file
    SignsWith,  \* the secret of each client's configuration
    Kid,        \* the key id of each client, or NoKid
    NoKid,
    Keyring,    \* the server's secrets by key id
    Default,    \* the server's secret for any other frame
    MaxVersion  \* bound: how many values a secret takes, at each of its readers

ASSUME HmacAssumption ==
    /\ Skew \in [Clients -> Int]
    /\ SignsWith \in [Clients -> Secrets]
    /\ NoKid \notin DOMAIN Keyring /\ "server" \notin Clients
    /\ \A kid \in DOMAIN Keyring : Keyring[kid] \in Secrets
    /\ Default \in Secrets
    /\ MaxVersion \in [(Clients \cup {"server"}) \X Secrets -> Nat]

VARIABLES
    version,  \* the value of each secret where its reader looks; 0: it is not there
    cached,   \* SecretRef._cached of each reader, or 0
    sent,     \* the AUTH frame sent with each key
    past      \* history: what happened to each key since it was first accepted

hmacVars == <<vars, version, cached, sent, past>>

Server == "server"
Readers == (Clients \cup {Server}) \X Secrets
Accepted == {k \in Keys : past[k].times > 0}

\* At first the server's default secret is missing, and no other.
HInit ==
    /\ Init /\ now = 0
    /\ version = [r \in Readers |-> IF r = <<Server, Default>> THEN 0 ELSE 1]
    /\ cached = [r \in Readers |-> 0]
    /\ sent = <<>>
    /\ past = [k \in Keys |-> [times |-> 0, ahead |-> FALSE, others |-> 0, back |-> FALSE]]

-----------------------------------------------------------------------------
(* SecretRef.resolve: what was read first is kept; 0 stands for the          *)
(* exception of a secret that is not there.                                  *)

Resolve(r) == IF cached[r] # 0 THEN cached[r] ELSE version[r]
Keep(r) == cached' = [cached EXCEPT ![r] = Resolve(r)]

\* A secret is put in place, or replaced, in the environment of one reader.
Rotate(r) ==
    /\ version[r] < MaxVersion[r]
    /\ version' = [version EXCEPT ![r] = @ + 1]
    /\ UNCHANGED <<vars, cached, sent, past>>

\* A client that is restarted reads its secret again.
Restart(c) ==
    /\ cached' = [r \in Readers |-> IF r[1] = c THEN 0 ELSE cached[r]]
    /\ UNCHANGED <<vars, version, sent, past>>

-----------------------------------------------------------------------------
(* HmacConnectionAuthenticator.authenticate.                                 *)

\* token_hex: no two nonces are alike.
Unused == Keys \ DOMAIN sent
NextKey == CHOOSE k \in Unused : TRUE

Sign(c) ==
    /\ Unused # {} /\ now + Skew[c] \in Times
    /\ LET r == <<c, SignsWith[c]>>
           frame == [ts |-> now + Skew[c], kid |-> Kid[c], by |-> SignsWith[c],
                     value |-> Resolve(r)]
       IN  /\ Resolve(r) # 0 /\ Keep(r)
           /\ sent' = [k \in DOMAIN sent \cup {NextKey} |->
                         IF k \in DOMAIN sent THEN sent[k] ELSE frame]
    /\ UNCHANGED <<vars, version, past>>

-----------------------------------------------------------------------------
(* HmacAuthStrategy.authenticate. A frame out of the window changes nothing. *)

\* _resolve_secret
ResolveSecret(kid) == <<Server, IF kid \in DOMAIN Keyring THEN Keyring[kid] ELSE Default>>

\* The signature matches if both ends used the same value of the same secret.
Matches(f) ==
    LET r == ResolveSecret(f.kid) IN r[2] = f.by /\ Resolve(r) = f.value

Known(k) == Seen(AfterPrune(entries, order, now), k)

\* The history of every key that was accepted before, and of this one.
Note(key, ts) ==
    past' = [k \in Keys |->
        IF k = key /\ past[k].times = 0 THEN [times |-> 1, ahead |-> ts > now, others |-> 0, back |-> FALSE]
        ELSE IF k = key THEN [past[k] EXCEPT !.times = 2]
        ELSE IF k \in Accepted /\ past[k].others < MaxEntries THEN [past[k] EXCEPT !.others = @ + 1]
        ELSE past[k]]

AuthenticateFault(k) ==
    /\ k \in DOMAIN sent /\ InWindow(sent[k].ts)
    /\ Becomes(AfterAdd(AfterPrune(entries, order, now), k, now))
    /\ UNCHANGED <<now, fresh>>
    /\ IF Known(k) THEN UNCHANGED <<cached, past>>
       ELSE /\ Keep(ResolveSecret(sent[k].kid))
            /\ IF Matches(sent[k]) THEN Note(k, sent[k].ts) ELSE UNCHANGED past
    /\ UNCHANGED <<version, sent>>
Authenticate(k) ==
    /\ k \in DOMAIN sent
    /\ \/ Known(k) /\ Refuse(k, sent[k].ts) /\ UNCHANGED <<cached, past>>
       \/ /\ ~Known(k) /\ ~Matches(sent[k])
          /\ Refuse(k, sent[k].ts)
          /\ Keep(ResolveSecret(sent[k].kid)) /\ UNCHANGED past
       \/ /\ ~Known(k) /\ Matches(sent[k])
          /\ Accept(k, sent[k].ts)
          /\ Keep(ResolveSecret(sent[k].kid)) /\ Note(k, sent[k].ts)
    /\ UNCHANGED <<version, sent>>

\* The clock. That it was set back is noted for the keys accepted before.
Clock ==
    /\ \/ Tick /\ UNCHANGED past
       \/ /\ SetBack
          /\ past' = [k \in Keys |-> [past[k] EXCEPT !.back = @ \/ k \in Accepted]]
    /\ UNCHANGED <<version, cached, sent>>

-----------------------------------------------------------------------------
HNext ==
    \/ Clock
    \/ \E r \in Readers : Rotate(r)
    \/ \E c \in Clients : Sign(c) \/ Restart(c)
    \/ \E k \in Keys : Authenticate(k)

HSpec == HInit /\ [][HNext]_hmacVars

-----------------------------------------------------------------------------
(* Properties.                                                               *)

\* Whatever clients, late frames and changing secrets do to it, the cache goes
\* only through the steps of ReplayCache.
ImplementsCache == Spec

\* A nonce is accepted once, though its frame arrives again and again: unless
\* the client's clock was ahead, as many others were accepted since as the
\* cache holds, or the server's clock was set back since. This is about one run
\* of the server: the next begins with an empty cache.
NonceCountsOnce ==
    \A k \in Keys :
        past[k].times > 1 => past[k].ahead \/ past[k].others = MaxEntries \/ past[k].back

\* An honest frame that comes in time is allowed the first time it can be: that
\* it was refused before, for a secret the server has got since, or that others
\* were refused, does not count against it.
FirstIsAllowed ==
    [][\A k \in Keys :
         (Authenticate(k) /\ past[k].times = 0 /\ Matches(sent[k])) => past'[k].times = 1]_hmacVars
=============================================================================
