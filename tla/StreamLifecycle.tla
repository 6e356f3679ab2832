-------------------------- MODULE StreamLifecycle --------------------------
(***************************************************************************)
(* Requests for one model of one account, from the upstream call to the end *)
(* of the stream sent to the client: the executor's retries under a connect *)
(* timeout, the one repetition after a 401, the stream controller's         *)
(* one-shot flag, the delayed abort after a disconnect, the stall watchdog  *)
(* on upstream bytes, the two transform stages with their backpressure, the *)
(* reader the client pulls on, and the counter of pending requests that all *)
(* of them update.                                                          *)
(***************************************************************************)
EXTENDS Integers, FiniteSets

CONSTANTS
  Requests,
  MaxChunks,        \* bound on the chunks an upstream sends
  Buffered,         \* chunks the pipe holds before it stops reading upstream
  STREAM_STALL_TIMEOUT, ABORT_DELAY, PENDING_TIMEOUT,  \* 360 s, 0.5 s, 60 s
  FETCH_CONNECT_TIMEOUT, RetryDelay,  \* 60 s, 2 s or 3 s
  ServerRetries, GatewayRetries       \* attempts of 500 and 504 (2), of 502 and 503 (3)

\* Finitely many requests reach the process; the delays and counts are the code's.
ASSUME StreamAssumption ==
  /\ IsFiniteSet(Requests)
  /\ FETCH_CONNECT_TIMEOUT \in Nat \ {0} /\ RetryDelay \in Nat \ {0}
  /\ ServerRetries \in Nat /\ GatewayRetries \in Nat
  /\ MaxChunks \in Nat /\ Buffered \in Nat \ {0}
  /\ STREAM_STALL_TIMEOUT \in Nat \ {0} /\ ABORT_DELAY \in Nat \ {0}
  /\ PENDING_TIMEOUT \in Nat \ {0}

VARIABLES
  pending,       \* pendingRequests of the model and account
  pendingTimer,  \* time left on pendingTimers' one timer of that pair, 0: none
  phase,         \* where each request is
  retries,       \* retryAttemptsByUrl of its URL
  repeated,      \* its call is the one after a token refresh
  execTimer,     \* time left on the connect timeout or the retry's delay, 0: none
  disconnected,  \* the stream controller's flag: the stream is over, however
  abortTimer,    \* time left until the delayed abort, 0: none
  stallTimer,    \* time left on the stall watchdog, 0: none
  upstream,      \* the provider's response body
  left,          \* chunks the provider still has to send
  sameFormat,    \* provider and client both speak the Responses API: passed on as it is
  ready,         \* chunks transformed and not yet read
  pulling,       \* a pull awaits reader.read()
  client,        \* the stream the client reads
  failed,        \* the synthesized terminal event was sent
  terminal,      \* a terminal event has passed the transform
  logged         \* how often usage was logged (onStreamComplete)

executor == <<retries, repeated, execTimer>>
timers == <<abortTimer, stallTimer>>
body   == <<upstream, left, ready>>
reader == <<pulling, client, failed>>
usage  == <<terminal, logged>>
vars   == <<pending, pendingTimer, phase, executor, disconnected, timers, body, sameFormat, reader,
            usage>>

Init ==
  /\ pending = 0 /\ pendingTimer = 0
  /\ phase = [r \in Requests |-> "new"]
  /\ retries = [r \in Requests |-> 0] /\ repeated = [r \in Requests |-> FALSE]
  /\ execTimer = [r \in Requests |-> 0]
  /\ disconnected = [r \in Requests |-> FALSE]
  /\ abortTimer = [r \in Requests |-> 0] /\ stallTimer = [r \in Requests |-> 0]
  /\ upstream = [r \in Requests |-> "open"]
  /\ left \in [Requests -> 0 .. MaxChunks]
  /\ sameFormat \in [Requests -> BOOLEAN]
  /\ ready = [r \in Requests |-> 0]
  /\ pulling = [r \in Requests |-> FALSE]
  /\ client = [r \in Requests |-> "open"]
  /\ failed = [r \in Requests |-> FALSE]
  /\ terminal = [r \in Requests |-> FALSE]
  /\ logged = [r \in Requests |-> 0]

-----------------------------------------------------------------------------
(* trackPendingRequest: one counter and one timer for the pair.             *)

TrackStart ==
  /\ pending' = pending + 1
  /\ pendingTimer' = PENDING_TIMEOUT

\* Mutant: a second end of the same request is taken off again.
TrackEndUnfloored ==
  /\ pending' = pending - 1
  /\ pendingTimer' = 0

TrackEnd ==
  /\ pending' = IF pending > 0 THEN pending - 1 ELSE 0
  /\ pendingTimer' = 0

-----------------------------------------------------------------------------
(* Before the stream: handleChatCore and BaseExecutor.execute               *)

\* A fetch is sent under the connect timeout.
Fetch(r) ==
  /\ phase' = [phase EXCEPT ![r] = "fetching"]
  /\ execTimer' = [execTimer EXCEPT ![r] = FETCH_CONNECT_TIMEOUT]

\* handleChatCore counts the request and calls the executor.
Start(r) ==
  /\ phase[r] = "new"
  /\ Fetch(r)
  /\ TrackStart
  /\ UNCHANGED <<retries, repeated, disconnected, timers, body, sameFormat, reader, usage>>

\* The executor returns or throws; what it counted is gone.
Leave(r, to) ==
  /\ phase' = [phase EXCEPT ![r] = to]
  /\ retries' = [retries EXCEPT ![r] = 0]
  /\ repeated' = [repeated EXCEPT ![r] = FALSE]
  /\ execTimer' = [execTimer EXCEPT ![r] = 0]

\* How a fetch can fail: a status that is never retried, 401 or 403, 500 or 504, and
\* 502 or 503, for which exceptions and the connect timeout count.
Failures == {"error", "auth", "server", "gateway"}

RetryLimit(failure) ==
  CASE failure = "server"  -> ServerRetries
    [] failure = "gateway" -> GatewayRetries
    [] OTHER               -> 0

\* tryRetry: one count per URL, whatever the statuses were.
MayRetry(r, failure) == retries[r] < RetryLimit(failure)

\* The fetch failed: it is sent again after a delay, or after a token refresh, once;
\* otherwise the request is answered with the error.
FetchFails(r, failure) ==
  /\ IF MayRetry(r, failure)
     THEN /\ phase' = [phase EXCEPT ![r] = "backoff"]
          /\ retries' = [retries EXCEPT ![r] = @ + 1]
          /\ execTimer' = [execTimer EXCEPT ![r] = RetryDelay]
          /\ UNCHANGED <<repeated, pending, pendingTimer>>
     ELSE IF failure = "auth" /\ ~repeated[r]
     THEN Leave(r, "refreshing") /\ UNCHANGED <<pending, pendingTimer>>
     ELSE Leave(r, "over") /\ TrackEnd
  /\ UNCHANGED <<disconnected, timers, body, sameFormat, reader, usage>>

AnswerFails(r) == phase[r] = "fetching" /\ \E failure \in Failures : FetchFails(r, failure)

\* No response headers within the timeout: a network error, which counts as 502.
ConnectTimeout(r) == phase[r] = "fetching" /\ execTimer[r] = 1 /\ FetchFails(r, "gateway")

\* Mutant: the count starts anew with every turn of the loop.
RetryUncounted(r) ==
  /\ phase[r] = "backoff" /\ execTimer[r] = 1
  /\ Fetch(r)
  /\ retries' = [retries EXCEPT ![r] = 0]
  /\ UNCHANGED <<pending, pendingTimer, repeated, disconnected, timers, body, sameFormat, reader,
                 usage>>

\* The delay is over: the same URL again.
Retry(r) ==
  /\ phase[r] = "backoff" /\ execTimer[r] = 1
  /\ Fetch(r)
  /\ UNCHANGED <<pending, pendingTimer, retries, repeated, disconnected, timers, body, sameFormat,
                 reader, usage>>

\* refreshWithRetry returns (CredentialRefresh): new credentials are tried once, with a
\* retry budget of their own; without any the rejection is the answer.
Refreshed(r) ==
  /\ phase[r] = "refreshing"
  /\ \/ /\ Fetch(r)
        /\ repeated' = [repeated EXCEPT ![r] = TRUE]
        /\ UNCHANGED <<pending, pendingTimer, retries>>
     \/ Leave(r, "over") /\ TrackEnd
  /\ UNCHANGED <<disconnected, timers, body, sameFormat, reader, usage>>

\* A good response that is not streamed to the client: JSON for a JSON client, or a
\* body that is no SSE.
AnswerBuffered(r) ==
  /\ phase[r] = "fetching"
  /\ Leave(r, "buffering")
  /\ UNCHANGED <<pending, pendingTimer, disconnected, timers, body, sameFormat, reader, usage>>

\* Its body has been read (trackDone and handleComplete, or handleError).
Buffer(r) ==
  /\ phase[r] = "buffering"
  /\ phase' = [phase EXCEPT ![r] = "over"]
  /\ disconnected' = [disconnected EXCEPT ![r] = TRUE]
  /\ TrackEnd
  /\ UNCHANGED <<executor, timers, body, sameFormat, reader, usage>>

\* Mutant: the watchdog waits for the first chunk.
OpenStreamUnarmed(r) ==
  /\ phase[r] = "fetching"
  /\ Leave(r, "streaming")
  /\ UNCHANGED <<pending, pendingTimer, disconnected, timers, body, sameFormat, reader, usage>>

\* handleStreamingResponse: the pipe is built and the watchdog armed.
OpenStream(r) ==
  /\ phase[r] = "fetching"
  /\ Leave(r, "streaming")
  /\ stallTimer' = [stallTimer EXCEPT ![r] = STREAM_STALL_TIMEOUT]
  /\ UNCHANGED <<pending, pendingTimer, disconnected, abortTimer, body, sameFormat, reader, usage>>

-----------------------------------------------------------------------------
(* Upstream and the transform stages *)

\* Mutant: the finalized flag is not looked at.
FinalizeAgain(r) == logged' = [logged EXCEPT ![r] = @ + 1]

\* finalizeStream logs usage once, whoever calls it.
Finalize(r) == logged' = [logged EXCEPT ![r] = 1]

\* Mutant: usage is left to the flush.
ChunkUnfinalized(r) ==
  /\ phase[r] = "streaming" /\ upstream[r] = "open"
  /\ left[r] > 0 /\ ready[r] < Buffered
  /\ left' = [left EXCEPT ![r] = @ - 1]
  /\ ready' = [ready EXCEPT ![r] = @ + 1]
  /\ stallTimer' = [stallTimer EXCEPT ![r] = STREAM_STALL_TIMEOUT]
  /\ \E isTerminal \in BOOLEAN : terminal' = [terminal EXCEPT ![r] = @ \/ isTerminal]
  /\ UNCHANGED <<pending, pendingTimer, phase, disconnected, abortTimer, upstream, executor, sameFormat,
                 reader, logged>>

\* A chunk passes the tap, which re-arms the watchdog, and the transform; if it
\* carries a terminal event (response.completed, say), a Responses stream that is
\* passed on as it is is finalized there.  A stream translated to the Responses format
\* is not: only the flush finalizes it.  The pipe reads no more while the client does not.
Chunk(r) ==
  /\ phase[r] = "streaming" /\ upstream[r] = "open"
  /\ left[r] > 0 /\ ready[r] < Buffered
  /\ left' = [left EXCEPT ![r] = @ - 1]
  /\ ready' = [ready EXCEPT ![r] = @ + 1]
  /\ stallTimer' = [stallTimer EXCEPT ![r] = STREAM_STALL_TIMEOUT]
  /\ \E isTerminal \in BOOLEAN :
       /\ terminal' = [terminal EXCEPT ![r] = @ \/ isTerminal]
       /\ IF isTerminal /\ sameFormat[r] THEN Finalize(r) ELSE UNCHANGED logged
  /\ UNCHANGED <<pending, pendingTimer, phase, disconnected, abortTimer, upstream, executor, sameFormat,
                 reader>>

\* The end of the body: both flush callbacks run, whatever the client has read.
EndOfBody(r) ==
  /\ phase[r] = "streaming" /\ upstream[r] = "open" /\ left[r] = 0
  /\ upstream' = [upstream EXCEPT ![r] = "ended"]
  /\ stallTimer' = [stallTimer EXCEPT ![r] = 0]
  /\ TrackEnd
  /\ Finalize(r)
  /\ UNCHANGED <<phase, disconnected, abortTimer, left, ready, executor, sameFormat, reader, terminal>>

\* The connection to the provider breaks: queued chunks are dropped.
UpstreamFails(r) ==
  /\ phase[r] = "streaming" /\ upstream[r] = "open"
  /\ upstream' = [upstream EXCEPT ![r] = "failed"]
  /\ ready' = [ready EXCEPT ![r] = 0]
  /\ UNCHANGED <<pending, pendingTimer, phase, disconnected, timers, left, executor, sameFormat, reader,
                 usage>>

\* What abort() does to the body: an error that is an AbortError.
Aborted(r) ==
  /\ upstream' = [upstream EXCEPT ![r] = IF @ = "open" THEN "aborted" ELSE @]
  /\ ready' = [ready EXCEPT ![r] = IF upstream[r] = "open" THEN 0 ELSE @]
  /\ UNCHANGED left

\* Mutant: the error callback is not called.
SignalErrorSilently(r, abortError) ==
  /\ disconnected' = [disconnected EXCEPT ![r] = TRUE]
  /\ UNCHANGED <<pending, pendingTimer>>

\* The controller's handleError: only the first end of a stream counts, and an
\* AbortError is not reported.
SignalError(r, abortError) ==
  /\ disconnected' = [disconnected EXCEPT ![r] = TRUE]
  /\ IF disconnected[r] \/ abortError THEN UNCHANGED <<pending, pendingTimer>> ELSE TrackEnd

\* The watchdog fires: handleError, then abort.
StallFires(r) ==
  /\ stallTimer[r] = 1
  /\ stallTimer' = [stallTimer EXCEPT ![r] = 0]
  /\ SignalError(r, FALSE)
  /\ Aborted(r)
  /\ UNCHANGED <<phase, abortTimer, executor, sameFormat, reader, usage>>

\* The delayed abort after a disconnect.
AbortFires(r) ==
  /\ abortTimer[r] = 1
  /\ abortTimer' = [abortTimer EXCEPT ![r] = 0]
  /\ Aborted(r)
  /\ UNCHANGED <<pending, pendingTimer, phase, disconnected, stallTimer, executor, sameFormat, reader, usage>>

\* A request older than the timeout is taken for lost, and all others with it.
PendingFires ==
  /\ pendingTimer = 1
  /\ pending' = 0
  /\ pendingTimer' = 0
  /\ UNCHANGED <<phase, disconnected, timers, body, executor, sameFormat, reader, usage>>

-----------------------------------------------------------------------------
(* createDisconnectAwareStream: the stream the client reads *)

Reading(r) == phase[r] = "streaming" /\ client[r] = "open"

Close(r) ==
  /\ client' = [client EXCEPT ![r] = "closed"]
  /\ phase' = [phase EXCEPT ![r] = "over"]

\* Mutant: a pull on a finished stream closes it without a word.
PullUnexplained(r) ==
  /\ Reading(r) /\ ~pulling[r]
  /\ IF disconnected[r]
     THEN Close(r) /\ UNCHANGED <<pulling, failed>>
     ELSE pulling' = [pulling EXCEPT ![r] = TRUE] /\ UNCHANGED <<client, phase, failed>>
  /\ UNCHANGED <<pending, pendingTimer, disconnected, timers, body, executor, sameFormat, usage>>

\* The client wants more: a stream that was ended under it gets the terminal
\* event, another one waits for the next chunk.
Pull(r) ==
  /\ Reading(r) /\ ~pulling[r]
  /\ IF disconnected[r]
     THEN /\ Close(r)
          /\ failed' = [failed EXCEPT ![r] = TRUE]
          /\ UNCHANGED pulling
     ELSE pulling' = [pulling EXCEPT ![r] = TRUE] /\ UNCHANGED <<client, phase, failed>>
  /\ UNCHANGED <<pending, pendingTimer, disconnected, timers, body, executor, sameFormat, usage>>

\* reader.read() returns a chunk.
ReadChunk(r) ==
  /\ Reading(r) /\ pulling[r] /\ ready[r] > 0
  /\ ready' = [ready EXCEPT ![r] = @ - 1]
  /\ pulling' = [pulling EXCEPT ![r] = FALSE]
  /\ UNCHANGED <<pending, pendingTimer, phase, disconnected, timers, upstream, left, executor, sameFormat,
                 client, failed, usage>>

\* reader.read() returns done: handleComplete.
ReadDone(r) ==
  /\ Reading(r) /\ pulling[r] /\ ready[r] = 0 /\ upstream[r] = "ended"
  /\ pulling' = [pulling EXCEPT ![r] = FALSE]
  /\ disconnected' = [disconnected EXCEPT ![r] = TRUE]
  /\ stallTimer' = [stallTimer EXCEPT ![r] = 0]
  /\ abortTimer' = [abortTimer EXCEPT ![r] = IF disconnected[r] THEN @ ELSE 0]
  /\ Close(r)
  /\ UNCHANGED <<pending, pendingTimer, body, executor, sameFormat, failed, usage>>

\* reader.read() throws: handleError, the terminal event, and an orderly close.
ReadFails(r) ==
  /\ Reading(r) /\ pulling[r] /\ upstream[r] \in {"failed", "aborted"}
  /\ pulling' = [pulling EXCEPT ![r] = FALSE]
  /\ stallTimer' = [stallTimer EXCEPT ![r] = 0]
  /\ SignalError(r, upstream[r] = "aborted")
  /\ failed' = [failed EXCEPT ![r] = TRUE]
  /\ Close(r)
  /\ UNCHANGED <<abortTimer, body, executor, sameFormat, usage>>

\* Mutant: the wrapped controller's handleDisconnect leaves the watchdog armed.
ArmedAfterDisconnect(r) == stallTimer

StallAfterDisconnect(r) == [stallTimer EXCEPT ![r] = 0]

\* The client goes away: handleDisconnect, and the readers are cancelled, which
\* cancels the body, so that no flush runs.
Cancel(r) ==
  /\ Reading(r)
  /\ client' = [client EXCEPT ![r] = "cancelled"]
  /\ phase' = [phase EXCEPT ![r] = "over"]
  /\ pulling' = [pulling EXCEPT ![r] = FALSE]
  /\ stallTimer' = StallAfterDisconnect(r)
  /\ disconnected' = [disconnected EXCEPT ![r] = TRUE]
  /\ abortTimer' = [abortTimer EXCEPT ![r] = IF disconnected[r] THEN @ ELSE ABORT_DELAY]
  /\ IF disconnected[r] THEN UNCHANGED <<pending, pendingTimer>> ELSE TrackEnd
  /\ upstream' = [upstream EXCEPT ![r] = IF @ = "open" THEN "cancelled" ELSE @]
  /\ ready' = [ready EXCEPT ![r] = 0]
  /\ UNCHANGED <<left, executor, sameFormat, failed, usage>>

-----------------------------------------------------------------------------
Less(t) == IF t > 1 THEN t - 1 ELSE t

\* Time passes up to the next timer that has to fire.
Tick ==
  /\ pendingTimer # 1
  /\ \A r \in Requests : 1 \notin {stallTimer[r], abortTimer[r], execTimer[r]}
  /\ pendingTimer > 0 \/ \E r \in Requests : {stallTimer[r], abortTimer[r], execTimer[r]} # {0}
  /\ pendingTimer' = Less(pendingTimer)
  /\ stallTimer' = [r \in Requests |-> Less(stallTimer[r])]
  /\ abortTimer' = [r \in Requests |-> Less(abortTimer[r])]
  /\ execTimer' = [r \in Requests |-> Less(execTimer[r])]
  /\ UNCHANGED <<pending, phase, retries, repeated, disconnected, body, sameFormat, reader, usage>>

Timers ==
  \/ Tick \/ PendingFires
  \/ \E r \in Requests : StallFires(r) \/ AbortFires(r) \/ ConnectTimeout(r) \/ Retry(r)

Reads(r) == Pull(r) \/ ReadChunk(r) \/ ReadDone(r) \/ ReadFails(r)

Next ==
  \/ Timers
  \/ \E r \in Requests :
       \/ Start(r) \/ AnswerFails(r) \/ Refreshed(r)
       \/ AnswerBuffered(r) \/ Buffer(r) \/ OpenStream(r)
       \/ Chunk(r) \/ EndOfBody(r) \/ UpstreamFails(r) \/ Reads(r) \/ Cancel(r)

\* Timers fire, a token refresh returns and a connected client reads on; the provider
\* may be silent forever and the client need not leave.
Fairness == WF_vars(Timers) /\ \A r \in Requests : WF_vars(Refreshed(r)) /\ WF_vars(Reads(r))

Spec == Init /\ [][Next]_vars /\ Fairness

-----------------------------------------------------------------------------
(* Properties *)

\* Every variable stays in its type.
TypeOK ==
  /\ pending \in 0 .. Cardinality(Requests) /\ pendingTimer \in 0 .. PENDING_TIMEOUT
  /\ phase \in [Requests -> {"new", "fetching", "backoff", "refreshing", "buffering",
                           "streaming", "over"}]
  /\ retries \in [Requests -> Nat] /\ repeated \in [Requests -> BOOLEAN]
  /\ execTimer \in [Requests -> Nat]
  /\ disconnected \in [Requests -> BOOLEAN]
  /\ abortTimer \in [Requests -> 0 .. ABORT_DELAY]
  /\ stallTimer \in [Requests -> 0 .. STREAM_STALL_TIMEOUT]
  /\ upstream \in [Requests -> {"open", "ended", "failed", "aborted", "cancelled"}]
  /\ left \in [Requests -> 0 .. MaxChunks] /\ sameFormat \in [Requests -> BOOLEAN]
  /\ ready \in [Requests -> 0 .. Buffered]
  /\ pulling \in [Requests -> BOOLEAN]
  /\ client \in [Requests -> {"open", "closed", "cancelled"}]
  /\ failed \in [Requests -> BOOLEAN]
  /\ terminal \in [Requests -> BOOLEAN] /\ logged \in [Requests -> 0 .. 1]

\* Every way a request ends, a failed retry and the stall abort included, takes it off
\* the pending counter: it never shows more requests than are in progress, and none
\* once all are over.
NoPhantomPending ==
  pending <= Cardinality({r \in Requests : phase[r] \notin {"new", "over"}})

\* "the client sees a real error instead of a silently truncated stream": a stream
\* that closes on a client that still reads carried the whole body or ended with
\* the terminal event, also when the watchdog ended it between two pulls.
NeverSilentlyTruncated ==
  \A r \in Requests :
    client[r] = "closed" => failed[r] \/ (upstream[r] = "ended" /\ ready[r] = 0)

\* finalizeStream is "callable from transform() as well as flush()", since the client
\* may close on the terminal event: usage is logged exactly when the whole body, or the
\* terminal event of a Responses stream passed on as it is, has passed, and once only,
\* though both may happen and in between the client may leave.
UsageLoggedOnce ==
  \A r \in Requests :
    /\ logged[r] <= 1
    /\ logged[r] = 1 <=> upstream[r] = "ended" \/ (sameFormat[r] /\ terminal[r])

\* "every termination path clears the stall timer": no watchdog is armed for a
\* stream that is over, whose abort would be stale.
NoStaleWatchdog == \A r \in Requests : phase[r] = "over" => stallTimer[r] = 0

\* A provider that is silent, before its response headers or in the middle of a
\* stream, or that fails every attempt, does not hold the client forever: every request
\* ends, unless its body has to be read as a whole.
NoRequestHangs ==
  \A r \in Requests : phase[r] = "fetching" ~> phase[r] \in {"buffering", "over"}
=============================================================================
