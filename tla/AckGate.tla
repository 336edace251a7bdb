------------------------------- MODULE AckGate -------------------------------
(***************************************************************************)
(* The caller's side of an exchange: AttpTransmitter.send and              *)
(* request_stream, the StatefulAckGate that matches replies to calls by    *)
(* correlation id, and the peer's execute_call that produces the replies.  *)
(* `inbox` is the receiver queue of the namespace, read by the frame       *)
(* dispatcher, which hands every reply to the gate (Feed).                 *)
(*                                                                         *)
(* The gate's lock is never held over a suspension, so each gate method is *)
(* one step; the points where a coroutine really waits (the socket write,  *)
(* queue.get, the user's loop body) separate the steps.                    *)
(*                                                                         *)
(* Here and in the other modules a definition named XFault is a plausible  *)
(* mistake in the definition X after it, tried in its place (PROJECT.json, *)
(* "mutants"); nothing else refers to it.                                  *)
(***************************************************************************)
EXTENDS Naturals, Sequences

CONSTANTS Calls,     \* correlation ids: uuid4, so every call has its own
          Streams,   \* the calls made with request_stream; the rest use send
          MaxChunks, \* bound: chunks the peer yields in one exchange
          Quota,     \* bound: chunks it yields in each
          Deferring, \* bound: calls the peer may defer, once
          Reading    \* what the stream's formatter makes of each chunk: a
                     \* value, None (an empty payload too), or an exception

ASSUME GateAssumption == /\ Streams \subseteq Calls
                         /\ MaxChunks \in Nat
                         /\ Deferring \subseteq Calls
                         /\ Quota \in [Calls -> 0 .. MaxChunks]
                         /\ Reading \in [Calls -> [1 .. MaxChunks ->
                                             {"value", "nothing", "raises"}]]

VARIABLES
    caller,    \* where each call's coroutine stands
    pendings,  \* correlation ids registered in StatefulAckGate.pendings
    queue,     \* the asyncio.Queue of each registered id
    inbox,     \* frames received and not yet fed to the gate
    peer,      \* how far the peer's execute_call has got with each call
    sent,      \* chunks the peer has sent for each call
    taken,     \* history: chunks stream_ack has yielded for each stream
    got,       \* those of them handed to the loop body of its consumer
    missed     \* history: calls some frame of which found no entry in time

vars == <<caller, pendings, queue, inbox, peer, sent, taken, got, missed>>
callerVars == <<caller, pendings, queue, taken, got, missed>>

Kinds == {"ACK", "ERR", "DEFER", "STREAMBOS", "CHUNK", "STREAMEOS"}
Frames == [corr : Calls, kind : Kinds, n : 0 .. MaxChunks]
Msg(c, k, n) == [corr |-> c, kind |-> k, n |-> n]

\* "open": the stream object was returned and nobody has iterated it yet.
\* "paused": the generator _stream is suspended at its yield, because the loop
\* body runs, or the loop was left, or the formatter raised.
Registered == {"open", "waiting", "paused", "discarded"}
Finished == {"returned", "failed", "timeout", "left", "discarded"}

Init ==
    /\ caller = [c \in Calls |-> "idle"]
    /\ pendings = {}
    /\ queue = [c \in Calls |-> <<>>]
    /\ inbox = <<>>
    /\ peer = [c \in Calls |-> "none"]
    /\ sent = [c \in Calls |-> 0]
    /\ taken = [c \in Calls |-> <<>>]
    /\ got = [c \in Calls |-> <<>>]
    /\ missed = {}

-----------------------------------------------------------------------------
(* The peer: execute_call, and the error paths of EventBus.emit. *)

Push(f) == inbox' = Append(inbox, f)

\* DEFER is never sent by this SDK; other peers may, the gate skips it.
PeerDefer(c) ==
    /\ peer[c] = "called" /\ c \in Deferring
    /\ peer' = [peer EXCEPT ![c] = "deferred"]
    /\ Push(Msg(c, "DEFER", 0))
    /\ UNCHANGED <<callerVars, sent>>

\* The handler returned (ACK) or raised (ERR), or no route has this id: the
\* 404 cannot be encoded, and emit reports that with the CALL's correlation id.
PeerAnswer(c) ==
    /\ peer[c] \in {"called", "deferred"}
    /\ peer' = [peer EXCEPT ![c] = "answered"]
    /\ \E k \in {"ACK", "ERR"} : Push(Msg(c, k, 0))
    /\ UNCHANGED <<callerVars, sent>>

\* The handler returned a StreamObject.
PeerStartStream(c) ==
    /\ peer[c] \in {"called", "deferred"}
    /\ peer' = [peer EXCEPT ![c] = "streaming"]
    /\ Push(Msg(c, "STREAMBOS", 0))
    /\ UNCHANGED <<callerVars, sent>>

PeerChunk(c) ==
    /\ peer[c] = "streaming" /\ sent[c] < Quota[c]
    /\ sent' = [sent EXCEPT ![c] = @ + 1]
    /\ Push(Msg(c, "CHUNK", sent[c] + 1))
    /\ UNCHANGED <<callerVars, peer>>

\* The iterable is exhausted, or it raises and emit reports the exception.
PeerEndStream(c) ==
    /\ peer[c] = "streaming"
    /\ \/ Push(Msg(c, "STREAMEOS", 0)) /\ peer' = [peer EXCEPT ![c] = "closed"]
       \/ Push(Msg(c, "ERR", 0)) /\ peer' = [peer EXCEPT ![c] = "answered"]
    /\ UNCHANGED <<callerVars, sent>>

-----------------------------------------------------------------------------
(* The gate. *)

\* complete_ack
ForgetFault(c) == UNCHANGED <<pendings, queue>>
Forget(c) ==
    /\ pendings' = pendings \ {c}
    /\ queue' = [queue EXCEPT ![c] = <<>>]

AcceptsFault(f) == f.corr \in pendings /\ f.kind # "ERR"
Accepts(f) == f.corr \in pendings

Put(f) == queue' = [queue EXCEPT ![f.corr] = Append(@, f)]

\* handle_response and feed: a reply nobody registered for is dropped.
Feed ==
    /\ inbox # <<>>
    /\ inbox' = Tail(inbox)
    /\ LET f == Head(inbox) IN
         \/ Accepts(f) /\ Put(f) /\ UNCHANGED missed
         \/ /\ ~Accepts(f)
            /\ missed' = missed \cup {c \in Calls : c = f.corr /\ caller[c] = "sending"}
            /\ UNCHANGED queue
    /\ UNCHANGED <<caller, pendings, peer, sent, taken, got>>

-----------------------------------------------------------------------------
(* The caller: send and request_stream. *)

\* The CALL frame is handed to the session; the coroutine awaits the write
\* while the peer may already be answering.
SendCall(c) ==
    /\ caller[c] = "idle"
    /\ caller' = [caller EXCEPT ![c] = "sending"]
    /\ peer' = [peer EXCEPT ![c] = "called"]
    /\ UNCHANGED <<pendings, queue, inbox, sent, taken, got, missed>>

\* The write raises, or is cancelled: correlation_id is unbound, so the
\* clean-up raises too.
SendFails(c) ==
    /\ caller[c] = "sending"
    /\ caller' = [caller EXCEPT ![c] = "failed"]
    /\ UNCHANGED <<pendings, queue, inbox, peer, sent, taken, got, missed>>

\* request_ack; send goes on to wait_for_ack, request_stream returns.
RequestAck(c) ==
    /\ caller[c] = "sending"
    /\ pendings' = pendings \cup {c}
    /\ caller' = [caller EXCEPT ![c] = IF c \in Streams THEN "open" ELSE "waiting"]
    /\ UNCHANGED <<queue, inbox, peer, sent, taken, got, missed>>

\* The user iterates the stream, or never does: an async generator that never
\* started does not run its finally clause.
Iterate(c) ==
    /\ caller[c] = "open"
    /\ caller' = [caller EXCEPT ![c] = "waiting"]
    /\ UNCHANGED <<pendings, queue, inbox, peer, sent, taken, got, missed>>

Discard(c) ==
    /\ caller[c] = "open"
    /\ caller' = [caller EXCEPT ![c] = "discarded"]
    /\ UNCHANGED <<pendings, queue, inbox, peer, sent, taken, got, missed>>

\* The loop body is done, or a stream that was left is iterated again.
Resume(c) ==
    /\ caller[c] = "paused"
    /\ caller' = [caller EXCEPT ![c] = "waiting"]
    /\ UNCHANGED <<pendings, queue, inbox, peer, sent, taken, got, missed>>

\* A stream that was left is collected, and only then cleans up: nothing
\* closes the generator before.
Collect(c) ==
    /\ caller[c] = "paused"
    /\ caller' = [caller EXCEPT ![c] = "left"]
    /\ Forget(c)
    /\ UNCHANGED <<inbox, peer, sent, taken, got, missed>>

\* The task of the caller is cancelled while it waits in queue.get.
Cancel(c) ==
    /\ caller[c] = "waiting"
    /\ caller' = [caller EXCEPT ![c] = "left"]
    /\ Forget(c)
    /\ UNCHANGED <<inbox, peer, sent, taken, got, missed>>

\* asyncio.wait_for fires; it may win against a frame put at the same time.
CanTimeOut(c) == caller[c] = "waiting"

Timeout(c) ==
    /\ CanTimeOut(c)
    /\ caller' = [caller EXCEPT ![c] = "timeout"]
    /\ Forget(c)
    /\ UNCHANGED <<inbox, peer, sent, taken, got, missed>>

\* What wait_for_ack and stream_ack make of a frame's command.
IsResultFault(c, k) == k \in (IF c \in Streams THEN {"STREAMEOS", "CHUNK"} ELSE {"ACK"})
IsResult(c, k) == k = (IF c \in Streams THEN "STREAMEOS" ELSE "ACK")
IsFailureFault(c, k) == c \in Streams /\ k = "ACK"
IsFailure(c, k) == k = "ERR" \/ (c \in Streams /\ k = "ACK")

\* A chunk formatted to None is passed over inside the loop of StreamReceiver,
\* any other one suspends the generator; only a value reaches the loop body.
IsGivenFault(c, n) == Reading[c][n] # "raises"
IsGiven(c, n) == Reading[c][n] = "value"
Suspends(c, n) == Reading[c][n] # "nothing"

\* One turn of the loop of wait_for_ack or stream_ack.
Take(c) ==
    /\ caller[c] = "waiting" /\ queue[c] # <<>>
    /\ LET f == Head(queue[c])  chunk == c \in Streams /\ f.kind = "CHUNK" IN
         \/ /\ IsResult(c, f.kind)
            /\ caller' = [caller EXCEPT ![c] = "returned"]
            /\ Forget(c) /\ UNCHANGED <<taken, got>>
         \/ /\ IsFailure(c, f.kind)
            /\ caller' = [caller EXCEPT ![c] = "failed"]
            /\ Forget(c) /\ UNCHANGED <<taken, got>>
         \/ /\ chunk
            /\ queue' = [queue EXCEPT ![c] = Tail(@)]
            /\ taken' = [taken EXCEPT ![c] = Append(@, f.n)]
            /\ got' = IF IsGiven(c, f.n) THEN [got EXCEPT ![c] = Append(@, f.n)] ELSE got
            /\ caller' = IF Suspends(c, f.n) THEN [caller EXCEPT ![c] = "paused"] ELSE caller
            /\ UNCHANGED pendings
         \/ /\ ~IsResult(c, f.kind) /\ ~IsFailure(c, f.kind) /\ ~chunk
            /\ queue' = [queue EXCEPT ![c] = Tail(@)]
            /\ UNCHANGED <<caller, pendings, taken, got>>
    /\ UNCHANGED <<inbox, peer, sent, missed>>

-----------------------------------------------------------------------------
Peer(c) ==
    \/ PeerDefer(c) \/ PeerAnswer(c) \/ PeerStartStream(c)
    \/ PeerChunk(c) \/ PeerEndStream(c)

Caller(c) ==
    \/ SendCall(c) \/ SendFails(c) \/ RequestAck(c) \/ Take(c) \/ Timeout(c)
    \/ Iterate(c) \/ Discard(c) \/ Resume(c) \/ Collect(c) \/ Cancel(c)

Next == Feed \/ \E c \in Calls : Peer(c) \/ Caller(c)
Spec == Init /\ [][Next]_vars

\* The dispatcher task keeps draining the inbox and a waiting coroutine is
\* resumed; neither the peer, nor the timer, nor the user's loop body is
\* assumed to act.
FairSpec == Spec /\ WF_vars(Feed) /\ \A c \in Calls : WF_vars(Take(c))
-----------------------------------------------------------------------------
(* Properties. *)

TypeOK ==
    /\ caller \in [Calls -> {"idle", "sending"} \cup Registered \cup Finished]
    /\ pendings \subseteq Calls
    /\ queue \in [Calls -> Seq(Frames)]
    /\ inbox \in Seq(Frames)
    /\ peer \in [Calls -> {"none", "called", "deferred", "answered",
                           "streaming", "closed"}]
    /\ sent \in [Calls -> 0 .. MaxChunks]
    /\ taken \in [Calls -> Seq(1 .. MaxChunks)]
    /\ got \in [Calls -> Seq(1 .. MaxChunks)]
    /\ missed \subseteq Calls

\* The gate holds an entry for exactly the calls whose coroutine waits or may
\* yet wait, a stream left in its loop among them, plus the streams thrown away
\* before their first iteration: every other way out of send and
\* request_stream cleans up, and no coroutine ever waits, or comes back to
\* wait, on a queue that feed can no longer find.
PendingMatchesWaiter ==
    \A c \in Calls : c \in pendings <=> caller[c] \in Registered

\* The generator of a stream never skips, repeats or swaps a chunk, whatever
\* was dropped before the call was registered ...
TakenInOrder ==
    \A c \in Calls : \A i \in 1 .. Len(taken[c]) - 1 : taken[c][i + 1] = taken[c][i] + 1

\* ... so the loop body gets values in the order they were sent, also when it
\* was left and entered again, and lacks only chunks that have no value.
ValuesOf(c) == {n \in 1 .. MaxChunks : Reading[c][n] = "value"}
SkipsNoValue(c, m, n) == m < n /\ \A k \in ValuesOf(c) : ~(m < k /\ k < n)

ChunksInOrder ==
    \A c \in Calls :
        /\ \A i \in 1 .. Len(got[c]) : got[c][i] \in ValuesOf(c)
        /\ \A i \in 1 .. Len(got[c]) - 1 : SkipsNoValue(c, got[c][i], got[c][i + 1])

\* Chunks of c sitting in a sequence of frames.
IsChunk(f, c) == f.corr = c /\ f.kind = "CHUNK"
Holds(s, c, m) == \E i \in 1 .. Len(s) : IsChunk(s[i], c) /\ s[i].n = m
Ascending(s, c) ==
    \A i, j \in 1 .. Len(s) :
        (i < j /\ IsChunk(s[i], c) /\ IsChunk(s[j], c)) => s[i].n < s[j].n
InTransit(c, m) == Holds(queue[c], c, m) \/ Holds(inbox, c, m)
LastTaken(c) == taken[c][Len(taken[c])]

\* Why TakenInOrder holds: what the generator has yielded, then what its queue holds,
\* then what the inbox holds is one ascending run of chunk numbers, without a
\* gap, up to the last one sent.
Lane(c) ==
    /\ Ascending(inbox, c) /\ Ascending(queue[c], c)
    /\ \A m \in 0 .. MaxChunks : InTransit(c, m) => m \in 1 .. sent[c]
    /\ \A m \in 0 .. MaxChunks :
         (Holds(inbox, c, m) /\ m < sent[c]) => Holds(inbox, c, m + 1)
    /\ \A m \in 0 .. MaxChunks :
         (Holds(queue[c], c, m) /\ m < sent[c]) => InTransit(c, m + 1)
    /\ \A m, k \in 0 .. MaxChunks :
         (Holds(queue[c], c, m) /\ Holds(inbox, c, k)) => m < k
    /\ (c \in pendings /\ taken[c] # <<>>) =>
         /\ LastTaken(c) \in 1 .. sent[c]
         /\ \A m \in 0 .. MaxChunks : InTransit(c, m) => LastTaken(c) < m
         /\ LastTaken(c) < sent[c] => InTransit(c, LastTaken(c) + 1)

ChunkLanes == \A c \in Calls : Lane(c)

\* The loop over a stream that ends normally was given every value the peer
\* sent, in order, unless frames came in before request_ack ran: a chunk the
\* formatter makes nothing of, or fails on, is lacking, and no other.
EndedStreamIsComplete ==
    \A c \in Streams \ missed :
        caller[c] = "returned" =>
            /\ \A i \in 1 .. Len(got[c]) - 1 : got[c][i] < got[c][i + 1]
            /\ {got[c][i] : i \in 1 .. Len(got[c])} = ValuesOf(c) \cap 1 .. sent[c]

\* The peer has sent the frame that ends this call's wait.
Over(c) == peer[c] = "answered" \/ (c \in Streams /\ peer[c] = "closed")

\* No lost wake-up: when all that was received is fed and the exchange is
\* over, a coroutine that waits, or may yet come to wait, has the frame that
\* ends it in its queue.
WaiterHasAnswer ==
    \A c \in Calls \ missed :
        (inbox = <<>> /\ Over(c) /\ caller[c] \in Registered) =>
            \E i \in 1 .. Len(queue[c]) :
                IsResult(c, queue[c][i].kind) \/ IsFailure(c, queue[c][i].kind)

\* With no help from the timer: a call whose exchange is over comes to its end,
\* if the user's loop body always ends and the loop goes on.
AnswerEndsWait ==
    \A c \in Calls :
        []<>(caller[c] # "paused") =>
            ((caller[c] = "waiting" /\ Over(c) /\ c \notin missed) ~> caller[c] \in Finished)

\* What the caller promises whoever uses it (CallContract), under the
\* mapping that forgets the gate, the inbox and the peer's progress.
Outcome(c) ==
    CASE caller[c] = "idle" -> "none"
      [] caller[c] = "returned" -> "value"
      [] caller[c] \in {"failed", "timeout"} -> "error"
      [] caller[c] \in {"left", "discarded"} -> "abandoned"
      [] OTHER -> "open"

Contract == INSTANCE CallContract WITH
    outcome <- [c \in Calls |-> Outcome(c)],
    Values <- [c \in Calls |-> ValuesOf(c)],
    produced <- sent,
    delivered <- got,
    concluded <- {c \in Calls : peer[c] \in {"answered", "closed"}}

ImplementsContract == Contract!Spec
=============================================================================
