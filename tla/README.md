# TLA+ specifications of attp-sdk

These modules model attp-sdk, first the parts in which more than one thing
happens at a time: calls and their replies, the dispatch of frames to handlers,
the error frames two nodes send each other, the two session drivers, the choice
of a session, the dialing of peers, the exchange of routes, and HMAC
authentication with its replay cache. Sequential parts where an input may be
read wrongly are modelled, too: the configuration, the binding of arguments, lazy
lists. TLC checks them on small instances; TLAPS proves the
theorems listed below for every value of the constants. Paths are relative to the repository; in the table of components
they are relative to its package, `src/attp`.

1. [The system](#1-the-system)
2. [How asyncio is modelled](#2-how-asyncio-is-modelled)
3. [The modules](#3-the-modules)
4. [The runs](#4-the-runs)
5. [The proofs](#5-the-proofs)
6. [Where code and documentation differ](#6-where-code-and-documentation-differ)
7. [What is not modelled](#7-what-is-not-modelled)
8. [Plan](#8-plan)

## 1. The system

A node runs one asyncio event loop. It accepts connections (`AttpServer`), dials
configured peers (`ServiceDiscovery`), or both. Either way a connection gets a
session driver, which enters the registry once its handshake is done; from then
on the two sides are alike. Each side has
one receiver queue per namespace, filled by the sessions of that side and emptied
by one dispatcher task, which runs the handlers: a node that accepts and dials in one
namespace has two (`server/attp_server.py:43`, `client/service_discovery.py:31`). A call
picks a session with the balancer, looks its route up in the table the peer
announced, writes a CALL and waits at the ack gate for frames with its
correlation id; those come in through the receiver queue of its session, too.

```
 send / emit / request_stream             decorators (@route, @event, ...)
        |                                            |
        v                                            v
  AttpTransmitter --acquire_session--> balancer   AttpRouter (own + remote routes)
        |    ^                          |  registry      ^          ^
 CALL   |    | ack gate                 v                | READY    | relevant_route
        v    |                      session driver ------+          |
   send_frame|                       |  listen                      |
        |    +---handle_response--+  v                              |
     transport                    | receiver queue --> dispatcher --> event bus --> handler
     (attp_core)                  +-----------------------+
```

| Component | State | Operations | Hard behaviour | What makes it correct |
|---|---|---|---|---|
| Transmitter, ack gate, stream receiver (`shared/transmitter.py`, `shared/utils/ack_gate.py`, `stream_receiver.py`) | `pendings`: correlation id to queue | `send`, `request_stream`, `emit`, `request_ack`, `feed`, `wait_for_ack`, `stream_ack`, `complete_ack` | reply, timer and clean-up of one call race; frames come before the call is registered; a stream that is left cleans up only when it is collected | entries match waiters; no lost wake-up; one outcome; values in order and complete |
| Frame dispatcher, callbacks (`shared/objects/dispatcher.py`, `shared/utils/callbacks.py`) | `_tasks`, the receiver's queue | `start`, `_run`, `stop`, `stop_all`, `execute_call` | one task for all sessions of a receiver; handlers that call back; error paths that fail themselves; a handler's own `CancelledError` | one consumer, frames in order, one answer per CALL, no starvation |
| Receivers (`shared/multireceiver.py`, `shared/receiver.py`) | the receiver of each namespace, per side | `receiver`; `AttpReceiver.on_next`, `get` | | a session keeps the receiver it was given; see section 7 |
| Event bus (`shared/objects/eventbus.py`) | none of its own; own routes, error handlers | `emit` | an ERR is looked up under the other node's numbering; an error handler that raises makes another ERR; the 404 cannot be encoded and becomes a 500 | one failure makes few ERRs; a call is settled through any of them |
| Session drivers (`shared/sessions/driver.py`, `server/session_driver.py`, `client/session_driver.py`) | `_session`, `auth_flag`, `incoming_listener`, listener task | `start`, `listen`, `_on_event`, `close`, `handle_disconnect`, `start_listener` | four coroutines on one driver; disconnect during handshake, write or auth | nobody is authenticated too early; dead sessions leave the registry; no frame lost or swapped; `listen` ends |
| Server (`server/attp_server.py`) | connections | `on_connection`, `on_session_termination`, start, shutdown | registration races disconnection | as above |
| Client (`client/service_discovery.py`) | the peers of the configuration | `start_initial_connections`, `initiate_connection`, `on_shutdown` | failures of one peer, timeouts, sessions that last | a failure does not stop the others; nothing stays open |
| Registry and balancing (`shared/namespaces/dispatcher.py`, `loadbalancer/`) | sessions per namespace, `round_robin_index` | `add_session`, `remove_session`, `dispatch`, `acquire_session`, `rerotate_session` | dead sessions met while choosing; a counter shared by all lanes | a choice is usable, ends, fails only for want |
| Router (`shared/namespaces/router.py`, `decorators/`) | `routes`, `remote_routes`, `index` | `add_route`, `include_remote_routes`, `get_routes`, `dispatch`, `relevant_route` | ids depend on load order; tables shared by all peers of a namespace; peers redeployed | the handler reached is the one meant |
| HMAC strategy, authenticators, secrets (`server/auth_hmac.py`, `client/authenticator.py`, `shared/secrets.py`) | `_entries`, `_order`; each `SecretRef._cached` | `authenticate` of both ends, `seen`, `add`, `_prune`, `resolve` | a bounded cache pruned by a queue; clocks that differ or are set back; secrets that are replaced | bounded; nothing forgotten too early or never; a nonce counts once; the honest are let in |
| Configuration (`providers.py`) | none; runs once | `provideAttp`, `_coerce_*`, `_auth_factory`, `_strip_json_comments` | chains of fall-backs that tell missing from empty in some places only; a scan with look-ahead | wrong settings are refused; each peer gets its own credentials; comments go, nothing else does |
| Executor (`shared/utils/executor.py`) | none | `execute_validated` | two rules of binding; payloads wrapped in an envelope | an envelope changes nothing |
| QSequence (`shared/utils/qsequence.py`) | the items and a pending query | queries, uses, mutators | a query is run when its result is first used | when it is run does not matter |
| Frames and exceptions, sample program (`types/`, `controllers/`) | none | data classes, an example | | see section 7 |
| Transport (`attp_core`) | external | `send`, `start_listener`, `disconnect` | may lose the connection at any time | modelled from its use |

`PROJECT.json` lists each component with its sources and status, and the
hazards: every place where something can go wrong that a test would hardly
reach, with the properties that would show it.

## 2. How asyncio is modelled

All modules share these readings of the code.

- **A step runs from one real suspension to the next.** Coroutines of one loop
  interleave only where they suspend: in a socket write (`await session.send`),
  `queue.get()`, `auth_flag.wait()`, a handler, the auth strategy,
  `client.connect`. An `await` on a coroutine that never suspends is no
  interleaving point. In particular an uncontended `asyncio.Lock` does not
  suspend and the gate's lock is never held over a suspension, so every method
  of the gate is one step; the in-memory cacher does not suspend, so while a
  call chooses its session nothing else runs; behind another `StrategyCacher` a
  call does wait, and `Balancer` has both (`Holds`, `Free`).
- **A timer may fire at any time** while its coroutine waits, also when the
  awaited frame has just been put. No property relies on a timer but
  `QueuedFrameIsTaken`, where a handler's own `send` must have its `timeout`.
- **The transport** delivers what was written in order until the connection is
  lost, cuts it into batches as it likes, and runs one `_on_event` of a session
  at a time. A write on a lost connection raises. Callbacks of the listener
  thread arrive through `call_soon_threadsafe`, and so as steps of the loop.
- **Waking and running are two steps.** `auth_flag.set()` resolves the waiting
  future; the coroutine of `start` continues at a later step, and the flag may
  have been cleared or the session lost by then (`woken` in `Session`).
- **Fairness** is weak fairness of the coroutines of the SDK: asyncio's ready
  queue is FIFO, so a coroutine that can go on does. `Balancer` asks for strong
  fairness of one step, `Take`: a coroutine whose cacher has answered is in that
  queue, but in the model each caller that has the loop to itself disables the others
  for a while, and weak fairness would allow it to be passed over for ever. A
  cacher answers or raises in the end. Nothing is assumed of peers, users, timers,
  breaks or shutdowns; where a property needs one of them it says so in its antecedent
  (`HandshakeEnds` has the start timer there).

A definition `XFault` is a plausible mistake in the definition `X` that follows
it. `PROJECT.json` pairs each property with one under "mutants": with the mistake in
its place the property must fail. Nothing else refers to these definitions.

## 3. The modules

`map` in `PROJECT.json` gives the lines every definition stands for.

### AckGate, CallContract

`AckGate` is one caller with its calls (`send`) and streams (`request_stream`),
the gate, the receiver's queue (`inbox`), and what a peer's `execute_call` may
reply. A call goes `idle -> sending -> waiting -> ` an outcome; a stream stops in
between at `open`, where the user holds the object and has not iterated it yet.
`SendCall` hands the frame to the session and suspends in the write, so replies
may arrive (`Feed`) before `RequestAck` registers the call: `feed` drops them,
which the history variable `missed` records. `Take` is one turn of the loops of
`wait_for_ack` and `stream_ack`. What the stream's formatter makes of a chunk is the
constant `Reading`: a value, which goes to the loop body; nothing, and `StreamReceiver`
passes over it, as over an empty payload; or an exception. After a value or an exception
the generator is `paused` at its `yield`. Nothing closes it when the loop is left:
`Resume` is the loop body going on, or another `async for` over the same object;
`Collect` is the end of a generator nobody holds any more, and only then its `finally`
removes the entry. `Timeout`, `Cancel` and `Discard` (never iterated: an async generator that
has not started runs no `finally`) are the other ways out. The peer may send DEFER (no
SDK code does, other peers may), answer, fail (which for the caller includes an
unknown route), start a stream, send chunks, end the stream or fail within it.

`CallContract` is what a user of the transmitter is promised: a call is open
until it ends, once, with a value, an error or because the user left; the loop over a
stream is handed values of chunks that were produced, in order and skipping none;
a call ends with a value only after the peer has concluded. `AckGate` implements it under the mapping
at the end of the module.

### FrameDispatcher

Sessions (`Connect`, `Break`), the receivers their frames are queued in
(`Request`, `Answer`), and the tasks that read them. `Get` is `_run` and `emit`
up to the first suspension; then a task is in a handler, in the handler's own
call (`Ask`), in the write of the reply, in the ERR that `emit` writes after an
exception (`Report`), or in the ERR `_run` writes when that raised (`Fallback`).
The last one is outside any `try`: if it raises, the task is `dead`; it is also dead
when a handler ends in a `CancelledError`, which `_run` takes for its own. A frame of
kind BARE is a CALL without a correlation id: it is handled, and its failure is not
reported by `_run`. The receiver of a session is the constant
`ReceiverOf`. `start` looks
only at the task recorded for the receiver. `Stop` is both `stop`, of one receiver, and
`stop_all`.

### EventBus

Two connected nodes, what their users begin (`Call`, `Emit`, `Report`, which is
`send_error` from a program), and one turn of `_run` and `emit` (`Run`) for each
node. A frame is looked up in the node's own `routes`. If nothing is there, `emit` builds
a 404 with an `AttpCommand` in it, which cannot be serialised; the exception is reported as
a 500 under the frame's correlation id, if it has one (`RouteMissing`). A route may stream:
a `send` to it gets frames none of which ends it (`Ends`). An ERR carries
the number of the *other* node's table, so what is found under it is arbitrary.
`HandleErr` runs the error handler of the route found; if it raises, an ERR goes back.
`hop` counts the ERRs a failure has led to; it is not on the wire. `Init` takes every pair of tables and handlers.

### Session

One connection with both drivers. Per end: `start` is the coroutine of
`on_connection` / `initiate_connection`, which runs `start`, then `add_session`,
then `listen`; `handler` is `_on_event`; `reading` is `start_listener`;
`shutdown` is `terminate_all`. `Drop` is `handle_disconnect`, which never suspends
before the state is changed, `BeginClose` and `CloseReturns` / `CloseRaises` are
the halves of `close` around its write. The steps of the handshake are
`SendAuth`, `OnAuth`, `Checked` (the strategy's answer, which sets `auth_flag`
before READY is written), `OnClientReady`, `OnServerReady`, and the mismatch of
route tables (`OnReadyMismatch`, `Rejected`, `HandlerClosed`), whose decision is
`Routes`' subject. `Listen` takes a run of queued frames at once because
`queue.get()` on a non-empty queue does not suspend.

### Balancer

The registry, the liveness of its sessions (`session_id`), and callers that
choose at the same time. A choice is `Begin` (the lane: a namespace and perhaps a
role), `Ask` (the strategy counts the candidates and asks the cacher),
`Increment` or `CacherRaises`, and `Take`: the candidate is used, or it is dead, is
removed, and the transmitter starts over. Without a role the strategy is given
the registry's own list, which may shrink while it waits; with one, a copy that keeps the
dead (`Shown`). `Fail` is `NoBalancingCandidateFound`, `TakeNamed` a call that
names its session. The counter is kept modulo `Wrap`, which all candidate counts
divide. `cacher` is the in-memory one, which answers without suspending, or one
that suspends and may raise.

### Configuration, Discovery

`Configuration` has no state: it is what `provideAttp` makes of a configuration, as
operators. A setting is missing (`None`), there and false (`Empty`: `''`, `0`, `{}`), of a
wrong kind (`Broken`), or a value. `or` passes over the first two alike (`FirstGiven`), and
gives the last operand if all are so; other tests do not: limits of zero are accepted where nothing
comes after them, an empty secret starts the node and a missing one does not, `auth = {}`
has no secret and is refused, an empty namespace or address is kept. `Rejects` says
whether the node starts, `Joined` with what namespace and credentials a peer is dialed, under each of
the authenticators `provideAttp` takes: none, an instance, a class, a function of the
peer (`makes`), or the factory of the auth section.

`Discovery` is what happens then: `Provide`, and the
loop over the peers with all its exits. Making the authenticator raises (outside
the `try`: the task ends), `connect` fails, `start` raises or times out (`close`
follows only the timeout, and may raise itself), the session is registered and served.
`Disconnect` is any end of a session. `CloseBegins` is the first half of a `close` that
is not the loop's: from then on `listen` may return, although the session is still there, and stays
there if the write raises (`ending`). `Shutdown` is `on_shutdown`. `shown`
records the credentials each peer has been sent.

### Routes

A node and the peers of one namespace. Route ids are those `add_route` gives, in the
order in which the decorators are loaded, over all namespaces of a process.
`remote` is one table per role, never cleared, overwritten while empty. The node
is a client or a server to a peer, chosen in `Init`. As a client it has read READY
before it registers the session; as a server it has not (`checking`), nor has a
rejected peer left yet (`rejecting`). Peers may be redeployed with another
program while disconnected.

### ReplayCache, HmacAuth

`ReplayCache` is the cache by itself: `authenticate` from the time check on, where a
refusal after the cache was asked still prunes. `AfterPrune` is the loop of
`_prune` in closed form: the least number of items after which its condition is false.

`HmacAuth` extends it with what is around it: clients with their clocks sign
frames (`Sign`), the server resolves the secret by key id and compares
(`Authenticate`), secrets are put in place or replaced (`Rotate`), clients are
restarted (`Restart`). `Authenticate` may take any frame that was sent, at any
time and again and again, so delay, loss and duplication need no actions of their own. Both
ends read a secret once and keep it (`SecretRef._cached`). `ImplementsCache` says
that all this drives the cache only through the steps of `ReplayCache`, whose
theorems then hold of it.

### Lists

`At` is the filter of `QSequence.where`, as registry, router and `execute_validated` use it on their
lists: what a list has at some places, in its order.

### JsonComments, Binding, QSequence

Three algorithms, one step per turn of their loop, each against a reference
definition stated without the algorithm. `JsonComments` is `_strip_json_comments` over
texts of seven kinds of characters, of which it gets only those that `json.loads` has
refused (`IsRefused`). It has two references: literals found by the parity of backslashes and
quotes (`HasNoComment`), and an automaton that reads one character at a time and never looks
ahead (`Uncommented`). `Binding` is `execute_validated`, parameter by
parameter, with defaults, which are validated too; the reference is the binding of the same content sent without an
envelope. `QSequence` is lists with pending queries; the reference is `eager`, what
each would hold had every query been run where it stands.

### MC modules

`MCAckGate`, `MCFrameDispatcher`, `MCEventBus`, `MCSession`, `MCBalancer`,
`MCDiscovery`, `MCRoutes` and `MCHmacAuth` give the constants values and define
nothing else. `MCInputs` also puts the three modules without concurrency side by side: a
behaviour is one scan, one binding or one use of lists.

No symmetry is used: more than half of the runs check liveness, for which it is
unsound, and the others are small enough without.

## 4. The runs

Each `.cfg` is a run. Counts are distinct states of a complete search. Deadlock checking
is off in all of them: a call ends, a bound is reached, a program is shut down,
and then nothing is left to do.

| Run | Instance | Checks | States |
|---|---|---|---|
| `ack_gate` | a send and a stream of up to 4 chunks, of which one gives nothing and one an exception, `FairSpec` | `PendingMatchesWaiter`, `WaiterHasAnswer`, `EndedStreamIsComplete`, `AnswerEndsWait`, `ImplementsContract` | 925,765 |
| `disp_shared` | 2 sessions with 2 frames and 1, 1 receiver, 2 tasks, 1 call by a handler, `FairSpec` | `OneConsumer`, `HandledInOrder`, `CallAnsweredOnce`, `DeathHasCause`, `QueuedFrameIsTaken` | 848,301 |
| `disp_dies` | the same, `Spec` | `ConsumerSurvives`: violated | |
| `errors` | 2 nodes, 2 exchanges, one hook and one route in every pair of tables, `FairSpec` | `ErrorsAreBounded`, `CallIsSettled` | 1,290,936 |
| `session` | 2 frames from the server, the client may shut down, `FairSpec` | `AuthenticatedMeansAllowed`, `DeadSessionLeaves`, `FramesAccounted`, `ListenEnds`, `AllowedClientProceeds`, `HandshakeEnds` | 268,030 |
| `balance` | 3 sessions, 2 namespaces, 2 roles, 2 callers, 2 lanes, both kinds of cacher, `FairSpec` | `TypeOK`, `ChosenIsUsable`, `FailsOnlyForWant`, `ChoiceEnds`, `SoleLaneIsFair` | 238,220 |
| `discovery` | 3 peers, 12 configurations that are accepted and 14 that are not, `FairSpec` | `OnlyFailedStayOpen`, `DeadLeave`, `CredentialsFollowEntry`, `FailureMovesOn` | 208,814 |
| `disc_waits` | 3 peers, the node of `attp.jsonc`, `FairSpec` | `EveryPeerIsDialed`: violated | |
| `routes` | 2 peers in every combination of roles, 5 programs | `RoutesTypeOK`, `TablesAgree`, `HandlerIsMeant` | 763,798 |
| `routes_foreign` | 3 programs | `NoForeignHandler`: violated | |
| `replay` | 2 clients, 2 secrets, 2 frames, time to live 1, room for 1, clock to 3, set back by 2 | `CacheIsBounded`, `FreshIsSeen`, `NonceCountsOnce`, `FirstIsAllowed` | 370,576 |
| `inputs` | texts of up to 6 characters; handlers of up to 2 parameters; up to 3 lists of up to 3 items | `CommentsAreGone`, `CommentedTextIsRead`, `EnvelopeIsTransparent`, `LazyIsTransparent` | 2.3 million |

The type invariants of `Balancer` and `Routes` are in their runs; those of the other
modules with interleavings are only theorems (section 5), as are `ChunksInOrder` and `ChunkLanes`
of `AckGate`, and `ImplementsCache` of `HmacAuth`, which need no run.

**What they show.**

- *ack_gate.* The gate's entries are those of the calls that wait or may start to, and of
  streams discarded unread or left and not yet collected: whichever of reply, timer, failure and
  departure comes first, the entry goes with the outcome, and the outcome stays (`End` of
  `CallContract`). The loop over a stream that ends has been given every value, whatever its formatter
  made of the other chunks, also if it was left and entered again. A call whose exchange is
  over and whose frames met its entry has the ending frame in its queue and takes it
  without its timer (`AnswerEndsWait`). Two calls are enough for what they share, the
  inbox; the gate keeps nothing else in common. Four chunks are one of each kind between two with
  a value, so that a stream may be late at both ends at once; the theorems have no bound.
  Progress (`AnswerEndsWait`) is claimed of loops that do not stay in their body.
- *disp_shared.* The record in `_tasks` keeps two consumers off one receiver,
  through `stop`, death and restart; each CALL of a living session has one
  frame back when it is processed, although four places write one. A consumer that is not
  stopped ends in two ways only (`DeathHasCause`), and `disp_dies` shows one. Two tasks let
  one be stopped or die and its successor run with frames already queued; two frames
  of one session are the least in which an order shows; the second session
  is the one that breaks, or is served on. No handler holds the queue for ever
  (`QueuedFrameIsTaken`): this rests on `WF` of the task, which includes three assumptions about a
  handler: it returns, its writes complete, and its own `send` is bounded by its timeout.
  The third does the work when a handler waits for a reply that only its own
  consumer could hand it. User code that never returns is outside the property.
- *errors.* Whatever the two tables have under an id, one failure makes at most two
  ERRs, unless both nodes send errors of that id and call back (`Returns`), because the error
  handler there raises or because the id of a call is in neither table: these two then
  answer each other for ever. Even so a call is settled without its timer, whether the
  callee has the route or not; a `send` to a route that streams is excepted, as only its timer ends
  it. `WF` is on the two consumers. `hop` is counted to 3, one beyond the 2 that matter.
- *session.* The overlaps of `close`, `handle_disconnect`, the start timer,
  `terminate_all` and the loss of the connection. `WF` is on what the event loop
  runs and on the notice of a lost connection; sends and shutdown need never happen, and
  the start timer is relied upon by `HandshakeEnds` only, which names it. Only
  one end sends and only one shuts down, to keep the search within minutes: both drivers
  share the code of sending, receiving and closing, the ends differ in the handshake,
  which is complete at both. Two frames are the least in which an order or a gap
  shows, one of them may be the ERR that drops the rest of its batch.
- *balance.* Three sessions give lanes of one and two candidates, shared and
  disjoint, with a dead session before or behind a live one; two callers may
  draw the same one, and with a cacher that suspends a session may leave while both
  wait. A choice is usable however old its list. `SoleLaneIsFair` is about a lane whose
  calls are the only ones.
- *discovery.* Three peers let the middle one fail with one before and one after it;
  they differ in how they are written down. The accepted configurations have
  each kind of authenticator, settings that are empty, and secrets that cannot be used. `OnlyFailedStayOpen`
  admits what the code leaves open: a start or a close that raised, and a close
  from elsewhere that has not ended. `WF` is on the loop:
  `connect` ends by its retries, `start` by its timer, `listen` with its session,
  which need never happen (`FailureMovesOn` excepts that).
- *routes.* The five programs differ in the order of their routes, in a route of
  another namespace that shifts the ids, in a pattern registered twice, and one
  has no routes here. Two peers are enough for one to bring the table the other is judged by.
- *replay.* One client's clock is right, the other's is ahead by as much as the window
  allows; one secret is replaced at each end. Room for one nonce and two frames make the cache overflow; the
  clock can go back further than the time to live. A queue that a set-back leaves out of order
  takes two nonces at a time and so does not arise here; `FreshStaysSeen` has it, for any size.
- *inputs.* Six characters are a literal with an escape beside a comment, or two comments that
  meet; the texts are those `json.loads` refuses, malformed ones among them. Two parameters are the least in which binding by name and the
  single-model rule differ. Three lists are a query of a query.

**Properties with exceptions.** `missed` (a reply fed before `request_ack`),
`stillborn` (registered dead), `skipped` (dropped with the batch of an ERR), `parted`
(a list changed under a pending query, or the right operand of `+`), `Returns` (both nodes send an
error back), a `send` to a stream route, the
causes in `past` for which a nonce may count twice, `IsPlainContent` (the caller does not
itself use the names of envelopes) and the
peers without routes in `HandlerIsMeant` are what the code does, kept as history
or condition so that the rest can be claimed. Each is listed in section 6 or among the hazards.

## 5. The proofs

`tlapm` checks every theorem. The constants are arbitrary within the named assumptions
of each module (`GateAssumption`, `DispatcherAssumption`, `EventBusAssumption`,
`SessionAssumption`, `DiscoveryAssumption`, `RoutesAssumption`, `ReplayAssumption`,
`HmacAssumption`, `BalancerAssumption`, `GivenAssumption`, `BindingAssumption`,
`QSequenceAssumption`, `JsonCommentsAssumption`), which TLC
evaluates in the runs.

The code goes through lists in loops, and what a loop computes for every list would need an
induction over data, which the provers do not do. Two ways around it are used. What
a loop leaves is written as an expression without recursion where one says the same
(`AfterPrune`, `Distinct`). Elsewhere a wrong result is assumed, and the first
place where it goes wrong is taken: it exists by well-founded induction (`Least` in
`ListsProofs`), and the place before it is right. `At` of `Lists`, the filter of
`QSequence.where` that registry and router use, is a recursive function for which `AtHolds` is proved so:
it has the elements at the given places and no others, each of them, for any list.
The variable of a scan needs neither: its steps are steps of the specification, and `ScanInv` is
inductive over them.

| Module | Theorems | Argument |
|---|---|---|
| `AckGateProofs` | `TypeCorrect`, `PendingsAreWaiters`, `LanesHold` | `IInv`: types, `PendingMatchesWaiter`, `Bookkeeping` (an id without an entry has an empty queue, a queue holds frames of its own id only, nothing is produced before the call is sent nor taken before it waits), `ChunkLanes` and `TakenInOrder`. The last alone is not inductive: a step of `Take` needs the head of the queue to be the successor of what the generator took last. `Lane` says that the chunks taken by the generator, in the queue and in the inbox form one ascending run without gap up to the last one sent. |
| | `StreamsInOrder` | what the loop body was given is what there is of value in what the generator took (`Loop`): the formatter passes over a chunk or fails at it, and either way the generator goes on behind it, so no value is missing before one that was given |
| | `AnswersReachTheWaiter` | `EndOnTheWay`: the frame that ends a call whose exchange is over is in the inbox until it is fed, then in the queue of its entry |
| | `StreamsAreComplete` | a stream ends normally on STREAMEOS, which is the last frame of its exchange in inbox and queue (`EndsAreLast`), so every chunk was taken before it; the first one taken is chunk 1 unless one was missed (`BeginsWithFirst`), `Lane` leaves no gap between, and by `Loop` the loop body has every value among them |
| | `GateKeepsContract` | `Init` maps to `Init`; every action maps to an action of `CallContract` or to a stutter, `Collect` to giving up a call. `Take` of a chunk with a value needs `Lane` and `Loop` (no value between is skipped), `Take` of an end needs `ClosingLast`: a frame that ends a call with a value is in the inbox or a queue only if the peer has concluded. |
| `FrameDispatcherProofs` | `TypeCorrect`, `ConsumersAreAlone`, `ConsumersDieForCause` | a running task is the recorded owner of the receiver it reads; a task in the middle of a frame holds one, and in `fallback` it holds a CALL. A consumer that is not stopped ends by a handler's `CancelledError` or the last report of a CALL to a dead session. |
| | `FramesKeepTheirOrder`, `CallsGetOneAnswer` | `TInv`: the queue of a receiver is in order (`QueuedInOrder`), what a task holds is older than what is queued (`HeldBeforeQueued`) and younger than what is handled (`HandledBeforeHeld`), and a CALL that is held in a phase before its answer has none yet (`Unanswered`). That at most one live task has a frame of a session comes from the first three theorems. |
| `EventBusProofs` | `TypeCorrect`, `ErrorsStayBounded` | `Chain`: each ERR on its way bears what came before it (`Bears`). The first tells only that something failed; the second, that the node it comes from sends such errors back, because the error handler there raises or the route is missing and the call has an id (`RefusalBears`); any later one, that the node it goes to had done so before. |
| | `EnvelopesAreTransparent` | of `Binding`. A content that wraps nothing has one dictionary to look names up in, and its envelope two, of which the first has only the name of the envelope (`WrappedIsFound`); so each parameter has the same value from both (`WrappingIsTransparent`), and the arguments so far are those values (`BindInv`). |
| `SessionProofs` | `NobodyBelievesEarly` | until the strategy has allowed the client, nothing is on the way or awake that could set a flag: no READY travels to the client, nobody is woken, no flag is set. |
| | `TheDeadLeave` | `_session` and registration are cleared in the same step, from whichever coroutine; only `Register` can find the session already gone, and it records that |
| | `TypeCorrect` | each action, through what `Written` makes of the wires |
| | `FramesAreAccounted` | what an end was delivered, what is queued and what is on the wire form one ascending run (`InRow`), without gap as long as the end expects frames (`Whole`, in the manner of `Lane`). A frame that comes when none is expected is dropped, and `listen` must deliver none after it: an end that is awake without its flag has no session (`Flagless`), whoever ended the session queued a NONE before the gap (`NoneQueued`), and nothing is missing before the first NONE (`Ripe`). A client is handed one READY, before any frame (`AuthOnce`, `ReadyOnce`, `Silence`). |
| `DiscoveryProofs` | `TypeCorrect`, `OnlyFailedAreLeftOpen`, `TheDeadAreNotOffered` | the loop is at the peer whose connection it has just opened (`AtAPeer`); a peer is registered only under the namespace it joined, and only from `awaiting` on (`RegisteredLate`) |
| | `CredentialsAreOfTheEntry` | a chain of `or` is the first of its options that is true, or else the last (`FirstGivenHolds`), so a factory takes what the entry has before the default (`FactoryTakes`); a peer is only dialed under an accepted configuration and with an authenticator that could be made (`CouldBeMade`) |
| | `NoCommentIsLeft` | of `JsonComments`. `ScanInv`: as long as what was kept is JSON, `in_string` and `escape` are what the reference finds at its end (`KnowsLiteral`), and a slash kept outside a literal is not followed by what would make it a comment (`SlashIsAlone`). The reference counts backslashes and quotes, so the step of one character is a step of these counts (`OneMoreCharacter`). |
| `LookupProofs` | `RoutesTypeCorrect`, `TablesFit` | of `Routes`. `remote` changes only while it is empty, and then to the table just accepted; a table accepted later is equal to the one kept |
| | `HandlersAreMeant` | no two routes of a program have one id (`IdsDiffer`), so the id of a pattern in a peer's table leads to that peer's last handler of it (`IdLeadsToHandler`); a call on its way over an accepted session keeps the session, the program and the table it was looked up in (`CallsAreFresh`) |
| | `TypeCorrect`, `ChoicesAreUsable`, `FailuresAreForWant` | of `Balancer`. What is registered has joined, and what has joined and lives is registered (`LiveAreMembers`); the candidates a choice goes on with have joined, and behind a cacher that does not suspend are registered still (`CandidatesJoined`). So a live candidate is registered, and `remove_session` misses its session only if the cacher suspends. |
| | `LateIsAtOnce` | of `QSequence`. A list whose query is still to be run has nothing of its own and reads from one that has been read (`ReadsFrom`), so a use changes no list's content; a change of the source makes its readers `parted`, and nobody reads from these |
| `HmacAuthProofs` | `TypeCorrect`, `CacheStaysBounded`, `EntriesStayQueued` | each entry has exactly one item in the queue, with its own time; `_prune` drops an entry with its item, so once it has emptied the queue the dictionary is empty, and if it stops before, the dictionary is small enough |
| | `FreshStaysSeen` | behind the item of a fresh key there are as few items as keys accepted after it; were it dropped for room, these and it would be more than the cache holds, and for age, it would not be fresh. The loop's end is a least number, whose existence is proved by well-founded induction. |
| | `CacheIsImplemented` | every frame sent has a time on the clock, so each step is one of `ReplayCache` or leaves its variables alone |
| | `NoncesCountOnce` | a nonce accepted once and not disturbed by one of the three causes is fresh for as long as its frame is in the window (`Guarded`), and so refused by the cache |
| | `TheFirstIsAllowed` | the cache knows only nonces that were accepted (`KnownWasAccepted`), and the first acceptance is counted |
| `ListsProofs` | | lemmas only: what `At` and list.remove return, and least and greatest numbers |

Every safety property of the runs is a theorem but one: `CommentedTextIsRead` compares the
scan with an automaton that is a recursive function of the whole text, which is
induction over data. What else is only model-checked needs fairness, which TLAPS cannot use: `AnswerEndsWait`, `QueuedFrameIsTaken`,
`CallIsSettled`, `ListenEnds`, `AllowedClientProceeds`, `HandshakeEnds`, `ChoiceEnds`,
`SoleLaneIsFair`, `FailureMovesOn`.

## 6. Where code and documentation differ

Three runs are expected to end in a counterexample.

- `disp_dies`. A handler awaits a task that was cancelled: the `CancelledError` passes by
  `except Exception` and is taken for a "Graceful shutdown"
  (`src/attp/shared/objects/dispatcher.py:104-105`). The other way to the same end is longer:
  a CALL raises, its session is gone by the time the error is reported, and the
  report of `_run` (`src/attp/shared/objects/dispatcher.py:92`) raises out of the
  task. Either way the sessions of the namespace stay connected and are no longer
  heard, until a new session joins. `start` promises to "start consuming a new receiver".
- `disc_waits`. `initiate_connection` awaits `listen`
  (`src/attp/client/service_discovery.py:107`), so the second configured peer is dialed
  after the first session has ended. `attp.jsonc:20-22` configures two peers of one
  namespace for a balancer to choose from.
- `routes_foreign`. A server registers a client's session when the strategy has allowed it
  (`src/attp/server/session_driver.py:58`), before its READY is read. A call in
  that window, or while a mismatch is being written, uses the table of earlier clients and may run another handler.

Further disagreements were met while reading and are described by an action, a history
variable or a comment, without a run of their own.

Calls and streams:

- `transmitter.py:108`: a reply that arrives while the CALL's write is awaited is dropped by `feed`; the call waits for its timeout (`missed`).
- `transmitter.py:116`: if `send_call` raises, `finally` reads the unbound `correlation_id`, and the caller sees `UnboundLocalError` (`SendFails`); `request_stream` has the same at line 193. On a retry after a dead session, `request_stream` (line 183) passes on everything but `format_to`.
- `transmitter.py:196`: a stream that is never iterated keeps its gate entry (`Discard`). One that is left by
  `break`, or at which the formatter raises, keeps it until the generator is collected, since `StreamReceiver`
  does not close it (`Collect`); until then it can be iterated again, and goes on behind the chunk it was left at (`Resume`).
- `stream_receiver.py:33`: a chunk whose payload is empty or unpacks to `None` is skipped without a word (`Reading`).
- `ack_gate.py:45-55`: a `send` to a route that streams is handed the frames of the stream and takes none for its answer; it ends by its timeout.

Dispatch and errors:

- `eventbus.py:36`: the 404 for an unknown route holds the frame's `AttpCommand`, which cannot be serialised: building it raises, and the caller
  gets "Internal server error", 500 (`RouteMissing`). That one has the correlation id, which the 404 would lack. An ERR whose id
  neither node has in its table is so sent to and fro for ever.
- `eventbus.py:74`: connect and disconnect hooks, which `README.md:126` shows, are registered and never run.
- `eventbus.py:64`: the number in an ERR is the other node's; the sample's `echo_error` is registered for the namespace "default" while its `echo` is in "peer-1", and is found by neither number.
- `dispatcher.py:83`: a handler that calls a peer of its own namespace blocks the task that would hand it the reply; such calls end by timeout (`AskTimesOut`).
- `executor.py:80`: a handler with one model reads the whole payload, one with a model and the frame binds the model by its name. `README.md:122-124` shows `on_user_created(self, payload: dict)`: the parameter is bound by the name "payload", so the event `{"id": 1}` fails.

Sessions and peers:

- `round_robin.py:16`: one counter for all lanes; with two lanes drawing in turn a session may never be chosen. `SoleLaneIsFair` is what remains.
- `driver.py:177`: `close` first ends its own `listen`, then writes the DISCONNECT; if that write raises, `_session` stays set and the session registered, with nobody listening (`CloseBegins`).
- `balancer.py:57`: the second of two calls that drop the same dead session fails with `ValueError` when its cacher has let the other in between.
- `client/configs.py:31`: reconnection is configured and never read.
- `service_discovery.py:46-54`: a configured authenticator instance decides the namespace of every peer, whatever the peer's own says (`Joined`).
- `service_discovery.py:68`: after shutdown the loop goes on to the next peer and starts its consumer again (`Shutdown`).
- `additional_mixins.py:38-39`: the guard refuses ids below 1, its message says that 0 and 1 are reserved (`Call`, and `Refuses` in `Routes`).

Configuration and lists:

- `providers.py:82-85`: `_strip_json_comments` runs only on what `json.loads` has refused.
- `providers.py:240-248`: an empty `auth` of the client falls through to that of the node, but as the last of the two it is a
  mapping without a secret and is refused; an empty `secret` falls through to `shared_secret`, and as the last of the two
  passes the test for `None`. An empty `remote_uri` (`:153`), an empty namespace and limits of 0 or `{}`
  (`:118-121`) are taken as they are (`Empty`).
- `provideAttp` raises `ValueError` for the repository's own `attp.jsonc` and for the example in its `README.md:69-93`: neither has `limits`, and unless `default_limits` is given there are none (`LimitsAreInvalid`).
- `providers.py:271`: a peer with a secret of its own is still sent the node's `key_id`, by which the server chooses the other secret.
- `providers.py:256`: with HMAC configured a peer's `authorization` is taken for its secret when it names none or an empty one, and its `data` is never sent.
- `providers.py:297`: "balancing_strategies cannot be empty" cannot be raised; an empty list is replaced by the default before.
- `qsequence.py:8`: the docstring promises lazy chaining; a query on a list with a pending query runs that one first. Operations inherited from `list` (`==`, `reversed`, the right operand of `+`) do not run a pending query and see an empty list (`Concat`).
- `auth_hmac.py:137`: a frame from a clock that is ahead stays in the window after its nonce is forgotten (`ahead` in `NonceCountsOnce`).

## 7. What is not modelled

- Code without a caller: `EventBus.run` (an earlier form of `_run`), `send_batch`,
  `AuthStrategy.on_ready`, the cacher's `get`, `store` and `keys`, and `on_next`, `subscribe` and
  `unsubscribe` of `AttpMultiReceiver`: sessions put their frames into the `AttpReceiver` itself
  (`driver.py:90`).
- What users provide: balancing strategies other than the round robin, and the start-up
  of their evaluator; a cacher shared with other processes, whose counter others move.
- In the configuration: the server's side (strategy and balancer classes) and addresses are
  valid or not; the spellings `parse_secret_ref` accepts, and a mapping as a secret; `ascender`'s injection.
- In the binding of arguments: what a model validates beyond its required fields.
- Query functions of lists that raise: such a one leaves a partly read list (`qsequence.py:45`).
- A restart of the server, which empties the nonce cache: `NonceCountsOnce` is about one run of it.
- Signatures: a digest is the value of the secret it was made with.
- Frames and exceptions are data classes; a frame is a record with what the properties tell apart.
- The sample program; the programs of `Routes` and the handlers of `FrameDispatcher` stand for it.
- `attp_core`, which is outside the repository, and is modelled from its use (section 2).
- Memory: no queue of the code is bounded; the bounds in the models are those of the instances.

## 8. Plan

What composes what, and what is left:

1. `AckGate` implements `CallContract`; proved but for `AnswerEndsWait`.
2. `FrameDispatcher`, `EventBus`; proved but for what is under fairness.
   Next: an instance with two receivers, as a node has that accepts and dials, in which a handler
   of one calls into the other.
3. `Session`; proved but for what is under fairness. Next: an instance in which both
   ends send, which has more than a million states.
4. `Routes`, `Balancer` and the lists both look in; proved but for what is under fairness.
   Next: the part of `SoleLaneIsFair` that needs none (how far the rotation of a lane
   gets from one choice to the next).
5. `Discovery` with `Configuration` and `JsonComments`; proved but for `FailureMovesOn` and
   `CommentedTextIsRead`.
   Next: the server's side of `provideAttp`.
6. `HmacAuth` drives `ReplayCache`; proved.
7. An abstract `Registry` (sessions join, die, leave) implemented by `Session` and by `Discovery`,
   as the common ground of both with `Balancer`.
