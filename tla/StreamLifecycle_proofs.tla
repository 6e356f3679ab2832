----------------------- MODULE StreamLifecycle_proofs -----------------------
(***************************************************************************)
(* Proofs about StreamLifecycle for every finite set of requests, every     *)
(* number of chunks and buffer size, and every setting of the timeouts and  *)
(* of the numbers of attempts.                                              *)
(***************************************************************************)
EXTENDS StreamLifecycle, FiniteSetTheorems, TLAPS

-----------------------------------------------------------------------------
(* The invariants the properties rest on.                                   *)

\* A request that has no stream yet has touched nothing of one.
Untouched(r) ==
  /\ ~disconnected[r] /\ abortTimer[r] = 0 /\ stallTimer[r] = 0
  /\ upstream[r] = "open" /\ client[r] = "open"

\* The controller's flag is behind every abort: a delayed abort, an aborted or a
\* cancelled body are those of a stream that was ended, and a stream that was ended
\* while its client reads has its watchdog off and nothing left to re-arm it.
StreamInv ==
  \A r \in Requests :
    /\ phase[r] \notin {"streaming", "over"} => Untouched(r)
    /\ client[r] # "open" => phase[r] = "over"
    /\ abortTimer[r] # 0 \/ upstream[r] \in {"aborted", "cancelled"} => disconnected[r]
    /\ phase[r] = "streaming" /\ disconnected[r] => upstream[r] # "open" /\ stallTimer[r] = 0
    /\ phase[r] = "over" => stallTimer[r] = 0

\* The requests the pending counter may still count: those in progress whose stream
\* has neither been flushed nor been ended by the controller.
Live == {r \in Requests :
          phase[r] \notin {"new", "over"} /\ ~disconnected[r] /\ upstream[r] # "ended"}

PendingInv == pending <= Cardinality(Live)

IInv == TypeOK /\ StreamInv /\ PendingInv /\ NeverSilentlyTruncated /\ UsageLoggedOnce

-----------------------------------------------------------------------------
(* Type correctness, given the bounds of the pending counter.               *)

\* What the intervals of the types contain.
LEMMA Bounds ==
  /\ 0 \in 0 .. PENDING_TIMEOUT /\ PENDING_TIMEOUT \in 0 .. PENDING_TIMEOUT
  /\ 0 \in 0 .. ABORT_DELAY /\ ABORT_DELAY \in 0 .. ABORT_DELAY
  /\ 0 \in 0 .. STREAM_STALL_TIMEOUT /\ STREAM_STALL_TIMEOUT \in 0 .. STREAM_STALL_TIMEOUT
  /\ 0 \in 0 .. Buffered /\ 0 \in Nat /\ 1 \in 0 .. 1
  /\ FETCH_CONNECT_TIMEOUT \in Nat /\ RetryDelay \in Nat
BY StreamAssumption

\* A timer that runs on stays in its interval.
LEMMA LessType ==
  ASSUME NEW n \in Nat, NEW t \in 0 .. n
  PROVE  Less(t) \in 0 .. n /\ (t = 0 => Less(t) = 0) /\ (t # 0 => Less(t) # 0)
BY DEF Less

\* What a fetch that fails can do to the request: a retry, a token refresh, or the end.
LEMMA FetchFailsCases ==
  ASSUME NEW r \in Requests, NEW failure, FetchFails(r, failure)
  PROVE  /\ \/ /\ phase' = [phase EXCEPT ![r] = "backoff"]
               /\ retries' = [retries EXCEPT ![r] = @ + 1]
               /\ execTimer' = [execTimer EXCEPT ![r] = RetryDelay]
               /\ UNCHANGED <<repeated, pending, pendingTimer>>
            \/ Leave(r, "refreshing") /\ UNCHANGED <<pending, pendingTimer>>
            \/ Leave(r, "over") /\ TrackEnd
         /\ UNCHANGED <<disconnected, timers, body, sameFormat, reader, usage>>
BY DEF FetchFails

\* The executor's part of a step: what Fetch and Leave write.
LEMMA ExecutorType ==
  ASSUME TypeOK, NEW r \in Requests,
         NEW to \in {"refreshing", "buffering", "streaming", "over"},
         \/ Fetch(r) /\ retries' = retries /\ repeated' \in [Requests -> BOOLEAN]
         \/ Leave(r, to)
         \/ /\ phase' = [phase EXCEPT ![r] = "backoff"]
            /\ retries' = [retries EXCEPT ![r] = @ + 1]
            /\ execTimer' = [execTimer EXCEPT ![r] = RetryDelay]
            /\ repeated' = repeated
  PROVE  /\ phase' \in [Requests -> {"new", "fetching", "backoff", "refreshing", "buffering",
                                     "streaming", "over"}]
         /\ retries' \in [Requests -> Nat] /\ repeated' \in [Requests -> BOOLEAN]
         /\ execTimer' \in [Requests -> Nat]
<1>1. retries[r] + 1 \in Nat
  BY DEF TypeOK
<1>2. CASE Fetch(r) /\ retries' = retries /\ repeated' \in [Requests -> BOOLEAN]
  BY <1>2, Bounds DEF TypeOK, Fetch
<1>3. CASE Leave(r, to)
  BY <1>3, Bounds DEF TypeOK, Leave
<1>4. CASE /\ phase' = [phase EXCEPT ![r] = "backoff"]
           /\ retries' = [retries EXCEPT ![r] = @ + 1]
           /\ execTimer' = [execTimer EXCEPT ![r] = RetryDelay]
           /\ repeated' = repeated
  BY <1>1, <1>4, Bounds DEF TypeOK
<1> QED
  BY <1>2, <1>3, <1>4

\* Whatever is done to the counter, its timer is left, set or cleared.
LEMMA TimerType ==
  ASSUME TypeOK, TrackStart \/ TrackEnd \/ pendingTimer' = pendingTimer
  PROVE  pendingTimer' \in 0 .. PENDING_TIMEOUT
BY Bounds DEF TypeOK, TrackStart, TrackEnd

\* Every step keeps the types if it keeps the counter in its bounds.
LEMMA TypeStep ==
  ASSUME TypeOK, [Next]_vars, pending' \in 0 .. Cardinality(Requests)
  PROVE  TypeOK'
<1>1. CASE UNCHANGED vars
  BY <1>1 DEF TypeOK, vars, executor, timers, body, reader, usage
<1>2. CASE Tick
  <2>1. pendingTimer' \in 0 .. PENDING_TIMEOUT
    BY <1>2, LessType, StreamAssumption DEF TypeOK, Tick
  <2>2. stallTimer' \in [Requests -> 0 .. STREAM_STALL_TIMEOUT]
    <3>1. \A r \in Requests : Less(stallTimer[r]) \in 0 .. STREAM_STALL_TIMEOUT
      BY LessType, StreamAssumption DEF TypeOK
    <3> QED
      BY <1>2, <3>1 DEF Tick
  <2>3. abortTimer' \in [Requests -> 0 .. ABORT_DELAY]
    <3>1. \A r \in Requests : Less(abortTimer[r]) \in 0 .. ABORT_DELAY
      BY LessType, StreamAssumption DEF TypeOK
    <3> QED
      BY <1>2, <3>1 DEF Tick
  <2>4. execTimer' \in [Requests -> Nat]
    <3>1. \A r \in Requests : Less(execTimer[r]) \in Nat
      BY DEF TypeOK, Less
    <3> QED
      BY <1>2, <3>1 DEF Tick
  <2> QED
    BY <1>2, <2>1, <2>2, <2>3, <2>4 DEF TypeOK, Tick, body, reader, usage
<1>3. CASE PendingFires
  BY <1>3, Bounds DEF TypeOK, PendingFires, executor, timers, body, reader, usage
<1>4. ASSUME NEW r \in Requests, NEW failure, FetchFails(r, failure)
      PROVE  TypeOK'
  BY <1>4, FetchFailsCases, ExecutorType, TimerType DEF TypeOK, timers, body, reader, usage
<1>5. ASSUME NEW r \in Requests, Start(r) \/ Retry(r)
      PROVE  TypeOK'
  <2>1. Fetch(r) /\ retries' = retries /\ repeated' = repeated
        /\ (TrackStart \/ pendingTimer' = pendingTimer)
    BY <1>5 DEF Start, Retry
  <2>2. repeated' \in [Requests -> BOOLEAN]
    BY <2>1 DEF TypeOK
  <2>3. UNCHANGED <<disconnected, timers, body, sameFormat, reader, usage>>
    BY <1>5 DEF Start, Retry
  <2> QED
    BY <2>1, <2>2, <2>3, ExecutorType, TimerType DEF TypeOK, timers, body, reader, usage
<1>6. ASSUME NEW r \in Requests, Refreshed(r)
      PROVE  TypeOK'
  <2>1. UNCHANGED <<disconnected, timers, body, sameFormat, reader, usage>>
    BY <1>6 DEF Refreshed
  <2>2. CASE /\ Fetch(r)
             /\ repeated' = [repeated EXCEPT ![r] = TRUE]
             /\ UNCHANGED <<pending, pendingTimer, retries>>
    <3>1. repeated' \in [Requests -> BOOLEAN]
      BY <2>2 DEF TypeOK
    <3> QED
      BY <2>1, <2>2, <3>1, ExecutorType, TimerType DEF TypeOK, timers, body, reader, usage
  <2>3. CASE Leave(r, "over") /\ TrackEnd
    BY <2>1, <2>3, ExecutorType, TimerType DEF TypeOK, timers, body, reader, usage
  <2> QED
    BY <1>6, <2>2, <2>3 DEF Refreshed
<1>7. ASSUME NEW r \in Requests, AnswerBuffered(r) \/ OpenStream(r)
      PROVE  TypeOK'
  <2>1. (Leave(r, "buffering") \/ Leave(r, "streaming")) /\ pendingTimer' = pendingTimer
    BY <1>7 DEF AnswerBuffered, OpenStream
  <2>2. stallTimer' \in [Requests -> 0 .. STREAM_STALL_TIMEOUT]
    BY <1>7, Bounds DEF TypeOK, AnswerBuffered, OpenStream, timers, usage
  <2>3. UNCHANGED <<disconnected, abortTimer, body, sameFormat, reader, usage>>
    BY <1>7 DEF AnswerBuffered, OpenStream, timers
  <2> QED
    BY <2>1, <2>2, <2>3, ExecutorType DEF TypeOK, body, reader, usage
<1>8. ASSUME NEW r \in Requests, Buffer(r)
      PROVE  TypeOK'
  BY <1>8, TimerType DEF TypeOK, Buffer, executor, timers, body, reader, usage
<1>9. ASSUME NEW r \in Requests, Chunk(r)
      PROVE  TypeOK'
  <2>1. left[r] - 1 \in 0 .. MaxChunks /\ ready[r] + 1 \in 0 .. Buffered
    BY <1>9, StreamAssumption DEF TypeOK, Chunk
  <2>2. terminal' \in [Requests -> BOOLEAN] /\ logged' \in [Requests -> 0 .. 1]
    BY <1>9, Bounds DEF TypeOK, Chunk, Finalize
  <2> QED
    BY <1>9, <2>1, <2>2, Bounds DEF TypeOK, Chunk, executor, reader
<1>10. ASSUME NEW r \in Requests, EndOfBody(r)
       PROVE  TypeOK'
  <2>1. logged' \in [Requests -> 0 .. 1]
    BY <1>10, Bounds DEF TypeOK, EndOfBody, Finalize
  <2>2. pendingTimer' \in 0 .. PENDING_TIMEOUT
    BY <1>10, TimerType DEF EndOfBody
  <2> QED
    BY <1>10, <2>1, <2>2, Bounds DEF TypeOK, EndOfBody, executor, reader
<1>11. ASSUME NEW r \in Requests, UpstreamFails(r)
       PROVE  TypeOK'
  BY <1>11, Bounds DEF TypeOK, UpstreamFails, executor, timers, reader, usage
<1>12. ASSUME NEW r \in Requests, NEW abortError \in BOOLEAN, SignalError(r, abortError)
       PROVE  /\ disconnected' \in [Requests -> BOOLEAN]
              /\ pendingTimer' \in 0 .. PENDING_TIMEOUT
  <2>1. pendingTimer' \in 0 .. PENDING_TIMEOUT
    BY <1>12, TimerType DEF SignalError
  <2> QED
    BY <1>12, <2>1 DEF TypeOK, SignalError
<1>13. ASSUME NEW r \in Requests, Aborted(r)
       PROVE  /\ upstream' \in [Requests -> {"open", "ended", "failed", "aborted", "cancelled"}]
              /\ ready' \in [Requests -> 0 .. Buffered]
              /\ left' = left
  BY <1>13, Bounds DEF TypeOK, Aborted
<1>14. ASSUME NEW r \in Requests, StallFires(r)
       PROVE  TypeOK'
  <2>1. SignalError(r, FALSE) /\ Aborted(r)
    BY <1>14 DEF StallFires
  <2>2. /\ disconnected' \in [Requests -> BOOLEAN]
        /\ pendingTimer' \in 0 .. PENDING_TIMEOUT
    BY <2>1, <1>12
  <2>3. stallTimer' \in [Requests -> 0 .. STREAM_STALL_TIMEOUT]
    BY <1>14, Bounds DEF TypeOK, StallFires
  <2>4. UNCHANGED <<phase, abortTimer, executor, sameFormat, reader, usage>>
    BY <1>14 DEF StallFires
  <2> QED
    BY <2>1, <2>2, <2>3, <2>4, <1>13 DEF TypeOK, executor, reader, usage
<1>15. ASSUME NEW r \in Requests, AbortFires(r)
       PROVE  TypeOK'
  <2>1. Aborted(r)
    BY <1>15 DEF AbortFires
  <2> QED
    BY <1>15, <2>1, <1>13, Bounds DEF TypeOK, AbortFires, executor, reader, usage
<1>16. ASSUME NEW r \in Requests, Pull(r)
       PROVE  TypeOK'
  BY <1>16 DEF TypeOK, Pull, Close, executor, timers, body, reader, usage
<1>17. ASSUME NEW r \in Requests, ReadChunk(r)
       PROVE  TypeOK'
  <2>1. ready[r] - 1 \in 0 .. Buffered
    BY <1>17, StreamAssumption DEF TypeOK, ReadChunk
  <2> QED
    BY <1>17, <2>1 DEF TypeOK, ReadChunk, executor, timers, usage
<1>18. ASSUME NEW r \in Requests, ReadDone(r)
       PROVE  TypeOK'
  BY <1>18, Bounds DEF TypeOK, ReadDone, Close, executor, body, usage
<1>19. ASSUME NEW r \in Requests, ReadFails(r)
       PROVE  TypeOK'
  <2>1. /\ disconnected' \in [Requests -> BOOLEAN]
        /\ pendingTimer' \in 0 .. PENDING_TIMEOUT
    BY <1>19, <1>12 DEF ReadFails
  <2> QED
    BY <1>19, <2>1, Bounds DEF TypeOK, ReadFails, Close, executor, body, usage
<1>20. ASSUME NEW r \in Requests, Cancel(r)
       PROVE  TypeOK'
  <2>1. pendingTimer' \in 0 .. PENDING_TIMEOUT
    BY <1>20, TimerType DEF Cancel
  <2>2. /\ abortTimer' \in [Requests -> 0 .. ABORT_DELAY]
        /\ stallTimer' \in [Requests -> 0 .. STREAM_STALL_TIMEOUT]
    BY <1>20, Bounds DEF TypeOK, Cancel, StallAfterDisconnect
  <2> QED
    BY <1>20, <2>1, <2>2, Bounds DEF TypeOK, Cancel, executor, usage
<1> QED
  BY <1>1, <1>2, <1>3, <1>4, <1>5, <1>6, <1>7, <1>8, <1>9, <1>10, <1>11, <1>14, <1>15, <1>16,
     <1>17, <1>18, <1>19, <1>20
  DEF Next, Timers, Reads, AnswerFails, ConnectTimeout

-----------------------------------------------------------------------------
(* The state of a stream.                                                   *)

\* Every step keeps what StreamInv says.  The watchdog is the step that has to be
\* argued: it ends a stream its client still reads, and no chunk re-arms it after
\* that, because its abort has closed the body.
LEMMA StreamStep ==
  ASSUME TypeOK, StreamInv, [Next]_vars
  PROVE  StreamInv'
<1>1. CASE UNCHANGED vars
  BY <1>1 DEF StreamInv, Untouched, vars, timers, body, reader
<1>2. CASE Tick
  <2>1. \A r \in Requests : /\ stallTimer'[r] = 0 <=> stallTimer[r] = 0
                            /\ abortTimer'[r] = 0 <=> abortTimer[r] = 0
    <3> TAKE r \in Requests
    <3>1. /\ stallTimer[r] = 0 <=> Less(stallTimer[r]) = 0
          /\ abortTimer[r] = 0 <=> Less(abortTimer[r]) = 0
      BY LessType, StreamAssumption DEF TypeOK
    <3> QED
      BY <1>2, <3>1 DEF Tick
  <2> QED
    BY <1>2, <2>1 DEF StreamInv, Untouched, Tick, body, reader
<1>3. CASE PendingFires
  BY <1>3 DEF StreamInv, Untouched, PendingFires, timers, body, reader
<1>4. ASSUME NEW r \in Requests, phase[r] \in {"new", "fetching", "backoff", "refreshing", "buffering"},
             NEW to \in {"fetching", "backoff", "refreshing", "buffering", "over"},
             phase' = [phase EXCEPT ![r] = to],
             UNCHANGED <<disconnected, timers, body, reader>>
      PROVE  StreamInv'
  BY <1>4 DEF TypeOK, StreamInv, Untouched, timers, body, reader
<1>5. ASSUME NEW r \in Requests, Start(r) \/ Retry(r) \/ Refreshed(r) \/ AnswerBuffered(r)
      PROVE  StreamInv'
  <2>1. /\ phase[r] \in {"new", "fetching", "backoff", "refreshing", "buffering"}
        /\ UNCHANGED <<disconnected, timers, body, reader>>
    BY <1>5 DEF Start, Retry, Refreshed, AnswerBuffered
  <2>2. \/ phase' = [phase EXCEPT ![r] = "fetching"]
        \/ phase' = [phase EXCEPT ![r] = "over"]
        \/ phase' = [phase EXCEPT ![r] = "buffering"]
    BY <1>5 DEF Start, Retry, Refreshed, AnswerBuffered, Fetch, Leave
  <2> QED
    BY <2>1, <2>2, <1>4
<1>6. ASSUME NEW r \in Requests, NEW failure, phase[r] = "fetching", FetchFails(r, failure)
      PROVE  StreamInv'
  <2>1. UNCHANGED <<disconnected, timers, body, reader>>
    BY <1>6 DEF FetchFails
  <2>2. \/ phase' = [phase EXCEPT ![r] = "backoff"]
        \/ phase' = [phase EXCEPT ![r] = "refreshing"]
        \/ phase' = [phase EXCEPT ![r] = "over"]
    BY <1>6, FetchFailsCases DEF Leave
  <2> QED
    BY <1>6, <2>1, <2>2, <1>4
<1>7. ASSUME NEW r \in Requests, Buffer(r)
      PROVE  StreamInv'
  BY <1>7 DEF TypeOK, StreamInv, Untouched, Buffer, timers, body, reader
<1>8. ASSUME NEW r \in Requests, OpenStream(r)
      PROVE  StreamInv'
  BY <1>8 DEF TypeOK, StreamInv, Untouched, OpenStream, Leave, body, reader
<1>9. ASSUME NEW r \in Requests, Chunk(r) \/ EndOfBody(r)
      PROVE  StreamInv'
  BY <1>9 DEF TypeOK, StreamInv, Untouched, Chunk, EndOfBody, reader
<1>10. ASSUME NEW r \in Requests, UpstreamFails(r)
       PROVE  StreamInv'
  BY <1>10 DEF TypeOK, StreamInv, Untouched, UpstreamFails, timers, reader
<1>11. ASSUME NEW r \in Requests, StallFires(r)
       PROVE  StreamInv'
  <2>1. phase[r] = "streaming"
    BY <1>11 DEF TypeOK, StreamInv, Untouched, StallFires
  <2> QED
    BY <1>11, <2>1 DEF TypeOK, StreamInv, Untouched, StallFires, SignalError, Aborted, reader
<1>12. ASSUME NEW r \in Requests, AbortFires(r)
       PROVE  StreamInv'
  <2>1. phase[r] \in {"streaming", "over"} /\ disconnected[r]
    BY <1>12 DEF TypeOK, StreamInv, Untouched, AbortFires
  <2> QED
    BY <1>12, <2>1 DEF TypeOK, StreamInv, Untouched, AbortFires, Aborted, reader
<1>13. ASSUME NEW r \in Requests, Pull(r) \/ ReadChunk(r)
       PROVE  StreamInv'
  BY <1>13 DEF TypeOK, StreamInv, Untouched, Pull, ReadChunk, Reading, Close, timers, body
<1>14. ASSUME NEW r \in Requests, ReadDone(r) \/ ReadFails(r)
       PROVE  StreamInv'
  BY <1>14 DEF TypeOK, StreamInv, Untouched, ReadDone, ReadFails, SignalError, Reading, Close, body
<1>15. ASSUME NEW r \in Requests, Cancel(r)
       PROVE  StreamInv'
  BY <1>15 DEF TypeOK, StreamInv, Untouched, Cancel, StallAfterDisconnect, Reading
<1> QED
  BY <1>1, <1>2, <1>3, <1>5, <1>6, <1>7, <1>8, <1>9, <1>10, <1>11, <1>12, <1>13, <1>14, <1>15
  DEF Next, Timers, Reads, AnswerFails, ConnectTimeout

-----------------------------------------------------------------------------
(* The pending counter.                                                     *)

\* The counter stays below the live requests if it is left alone while none of them
\* goes, counts one that comes, or drops with the one that goes.  A decrement for a
\* request that is no longer live only makes it smaller.
LEMMA CountStep ==
  ASSUME TypeOK, PendingInv, Live' \in SUBSET Requests,
         \/ pending' = pending /\ Live \subseteq Live'
         \/ pending' = 0
         \/ pending' = pending + 1 /\ \E r \in Requests : r \notin Live /\ Live \cup {r} \subseteq Live'
         \/ TrackEnd /\ \E r \in Requests : Live \ {r} \subseteq Live'
  PROVE  PendingInv' /\ pending' \in 0 .. Cardinality(Requests)
<1>1. Live \in SUBSET Requests /\ pending \in Nat /\ pending <= Cardinality(Live)
  BY DEF Live, TypeOK, PendingInv
<1>2. /\ IsFiniteSet(Live) /\ Cardinality(Live) \in Nat
      /\ IsFiniteSet(Live') /\ Cardinality(Live') \in Nat
      /\ Cardinality(Requests) \in Nat /\ Cardinality(Live') <= Cardinality(Requests)
  BY <1>1, StreamAssumption, FS_Subset, FS_CardinalityType
<1>3. pending' \in Nat /\ pending' <= Cardinality(Live')
  <2>1. CASE pending' = pending /\ Live \subseteq Live'
    <3>1. Cardinality(Live) <= Cardinality(Live')
      BY <2>1, <1>2, FS_Subset
    <3> QED
      BY <2>1, <3>1, <1>1, <1>2
  <2>2. CASE pending' = 0
    BY <2>2, <1>2
  <2>3. CASE /\ pending' = pending + 1
             /\ \E r \in Requests : r \notin Live /\ Live \cup {r} \subseteq Live'
    <3>1. PICK r \in Requests : r \notin Live /\ Live \cup {r} \subseteq Live'
      BY <2>3
    <3>2. IsFiniteSet(Live \cup {r}) /\ Cardinality(Live \cup {r}) = Cardinality(Live) + 1
      BY <3>1, <1>2, FS_AddElement
    <3>3. Cardinality(Live \cup {r}) <= Cardinality(Live')
      BY <3>1, <1>2, FS_Subset
    <3> QED
      BY <2>3, <3>2, <3>3, <1>1, <1>2
  <2>4. CASE TrackEnd /\ \E r \in Requests : Live \ {r} \subseteq Live'
    <3>1. PICK r \in Requests : Live \ {r} \subseteq Live'
      BY <2>4
    <3>2. Cardinality(Live \ {r}) \in {Cardinality(Live), Cardinality(Live) - 1}
      BY <1>2, FS_RemoveElement
    <3>3. Cardinality(Live \ {r}) <= Cardinality(Live')
      BY <3>1, <1>2, FS_Subset
    <3>4. pending' = IF pending > 0 THEN pending - 1 ELSE 0
      BY <2>4 DEF TrackEnd
    <3> QED
      BY <3>2, <3>3, <3>4, <1>1, <1>2
  <2> QED
    BY <2>1, <2>2, <2>3, <2>4
<1> QED
  BY <1>2, <1>3 DEF PendingInv

\* Every step keeps the counter below the live requests: one that leaves them without
\* a decrement has been taken off the counter before.
LEMMA PendingStep ==
  ASSUME TypeOK, StreamInv, PendingInv, [Next]_vars
  PROVE  PendingInv' /\ pending' \in 0 .. Cardinality(Requests)
<1>0. Live' \in SUBSET Requests
  BY DEF Live
<1> SUFFICES \/ pending' = pending /\ Live \subseteq Live'
             \/ pending' = 0
             \/ /\ pending' = pending + 1
                /\ \E r \in Requests : r \notin Live /\ Live \cup {r} \subseteq Live'
             \/ TrackEnd /\ \E r \in Requests : Live \ {r} \subseteq Live'
  BY <1>0, CountStep
<1>1. CASE UNCHANGED vars
  BY <1>1 DEF Live, vars, body
<1>2. CASE Tick
  BY <1>2 DEF Live, Tick, body
<1>3. CASE PendingFires
  BY <1>3 DEF PendingFires
<1>4. ASSUME NEW r \in Requests, Start(r)
      PROVE  /\ pending' = pending + 1
             /\ \E q \in Requests : q \notin Live /\ Live \cup {q} \subseteq Live'
  <2>1. r \notin Live
    BY <1>4 DEF Start, Live
  <2>2. ~disconnected[r] /\ upstream[r] # "ended"
    BY <1>4 DEF Start, StreamInv, Untouched
  <2>3. /\ phase' = [phase EXCEPT ![r] = "fetching"]
        /\ pending' = pending + 1
        /\ UNCHANGED <<disconnected, body>>
    BY <1>4 DEF Start, Fetch, TrackStart
  <2>4. Live \cup {r} \subseteq Live'
    BY <2>2, <2>3 DEF Live, TypeOK, body
  <2> QED
    BY <2>1, <2>3, <2>4
<1>5. ASSUME NEW r \in Requests,
             NEW to \in {"fetching", "backoff", "refreshing", "buffering", "streaming"},
             phase' = [phase EXCEPT ![r] = to], UNCHANGED <<disconnected, body>>
      PROVE  Live \subseteq Live'
  BY <1>5 DEF Live, TypeOK, body
<1>6. ASSUME NEW r \in Requests,
             \A q \in Requests \ {r} :
               /\ phase'[q] = phase[q] /\ disconnected'[q] = disconnected[q]
               /\ upstream'[q] = upstream[q]
      PROVE  Live \ {r} \subseteq Live'
  BY <1>6 DEF Live
<1>7. ASSUME NEW r \in Requests, NEW failure, FetchFails(r, failure)
      PROVE  \/ pending' = pending /\ Live \subseteq Live'
             \/ TrackEnd /\ Live \ {r} \subseteq Live'
  <2>1. UNCHANGED <<disconnected, body>>
    BY <1>7 DEF FetchFails
  <2>2. CASE \/ phase' = [phase EXCEPT ![r] = "backoff"] /\ UNCHANGED <<pending, pendingTimer>>
             \/ Leave(r, "refreshing") /\ UNCHANGED <<pending, pendingTimer>>
    BY <2>1, <2>2, <1>5 DEF Leave
  <2>3. CASE Leave(r, "over") /\ TrackEnd
    BY <2>1, <2>3, <1>6 DEF Leave, TypeOK, body
  <2> QED
    BY <1>7, <2>2, <2>3, FetchFailsCases
<1>8. ASSUME NEW r \in Requests, Retry(r) \/ AnswerBuffered(r) \/ OpenStream(r)
      PROVE  pending' = pending /\ Live \subseteq Live'
  BY <1>8, <1>5 DEF Retry, AnswerBuffered, OpenStream, Fetch, Leave
<1>9. ASSUME NEW r \in Requests, Refreshed(r)
      PROVE  \/ pending' = pending /\ Live \subseteq Live'
             \/ TrackEnd /\ Live \ {r} \subseteq Live'
  <2>1. CASE Fetch(r) /\ UNCHANGED <<pending, pendingTimer, retries>>
    BY <1>9, <2>1, <1>5 DEF Refreshed, Fetch
  <2>2. CASE Leave(r, "over") /\ TrackEnd
    BY <1>9, <2>2, <1>6 DEF Refreshed, Leave, TypeOK, body
  <2> QED
    BY <1>9, <2>1, <2>2 DEF Refreshed
<1>10. ASSUME NEW r \in Requests, Buffer(r) \/ EndOfBody(r)
       PROVE  TrackEnd /\ Live \ {r} \subseteq Live'
  BY <1>10, <1>6 DEF Buffer, EndOfBody, TypeOK, body
<1>11. ASSUME NEW r \in Requests, Chunk(r) \/ UpstreamFails(r) \/ AbortFires(r) \/ ReadChunk(r)
       PROVE  pending' = pending /\ Live \subseteq Live'
  BY <1>11 DEF Chunk, UpstreamFails, AbortFires, Aborted, ReadChunk, Live, TypeOK
<1>12. ASSUME NEW r \in Requests, disconnected[r] \/ upstream[r] = "ended", pending' = pending,
              \A q \in Requests \ {r} :
               /\ phase'[q] = phase[q] /\ disconnected'[q] = disconnected[q]
               /\ upstream'[q] = upstream[q]
       PROVE  pending' = pending /\ Live \subseteq Live'
  BY <1>12 DEF Live
<1>13. ASSUME NEW r \in Requests, StallFires(r)
       PROVE  \/ pending' = pending /\ Live \subseteq Live'
              \/ TrackEnd /\ Live \ {r} \subseteq Live'
  <2>1. \A q \in Requests \ {r} :
          /\ phase'[q] = phase[q] /\ disconnected'[q] = disconnected[q]
          /\ upstream'[q] = upstream[q]
    BY <1>13 DEF StallFires, SignalError, Aborted, TypeOK
  <2>2. CASE disconnected[r]
    BY <1>13, <2>1, <2>2, <1>12 DEF StallFires, SignalError
  <2>3. CASE ~disconnected[r]
    BY <1>13, <2>1, <2>3, <1>6 DEF StallFires, SignalError
  <2> QED
    BY <2>2, <2>3
<1>14. ASSUME NEW r \in Requests, Pull(r)
       PROVE  pending' = pending /\ Live \subseteq Live'
  <2>1. CASE disconnected[r]
    BY <1>14, <2>1, <1>12 DEF Pull, Close, TypeOK, body
  <2>2. CASE ~disconnected[r]
    BY <1>14, <2>2 DEF Pull, Live, body
  <2> QED
    BY <2>1, <2>2
<1>15. ASSUME NEW r \in Requests, ReadDone(r)
       PROVE  pending' = pending /\ Live \subseteq Live'
  BY <1>15, <1>12 DEF ReadDone, Close, TypeOK, body
<1>16. ASSUME NEW r \in Requests, ReadFails(r)
       PROVE  \/ pending' = pending /\ Live \subseteq Live'
              \/ TrackEnd /\ Live \ {r} \subseteq Live'
  <2>1. \A q \in Requests \ {r} :
          /\ phase'[q] = phase[q] /\ disconnected'[q] = disconnected[q]
          /\ upstream'[q] = upstream[q]
    BY <1>16 DEF ReadFails, SignalError, Close, TypeOK, body
  <2>2. CASE disconnected[r]
    BY <1>16, <2>1, <2>2, <1>12 DEF ReadFails, SignalError
  <2>3. CASE ~disconnected[r]
    <3>1. upstream[r] # "aborted"
      BY <2>3 DEF StreamInv
    <3> QED
      BY <1>16, <2>1, <2>3, <3>1, <1>6 DEF ReadFails, SignalError
  <2> QED
    BY <2>2, <2>3
<1>17. ASSUME NEW r \in Requests, Cancel(r)
       PROVE  \/ pending' = pending /\ Live \subseteq Live'
              \/ TrackEnd /\ Live \ {r} \subseteq Live'
  <2>1. \A q \in Requests \ {r} :
          /\ phase'[q] = phase[q] /\ disconnected'[q] = disconnected[q]
          /\ upstream'[q] = upstream[q]
    BY <1>17 DEF Cancel, TypeOK
  <2>2. CASE disconnected[r]
    BY <1>17, <2>1, <2>2, <1>12 DEF Cancel
  <2>3. CASE ~disconnected[r]
    BY <1>17, <2>1, <2>3, <1>6 DEF Cancel
  <2> QED
    BY <2>2, <2>3
<1> QED
  BY <1>1, <1>2, <1>3, <1>4, <1>7, <1>8, <1>9, <1>10, <1>11, <1>13, <1>14, <1>15, <1>16, <1>17
  DEF Next, Timers, Reads, AnswerFails, ConnectTimeout

-----------------------------------------------------------------------------
(* What the client sees and what is logged.                                 *)

\* A stream that was closed on its client is not touched again, and is closed only
\* with the terminal event or when the whole body has been read.
LEMMA TruncationStep ==
  ASSUME TypeOK, StreamInv, NeverSilentlyTruncated, [Next]_vars
  PROVE  NeverSilentlyTruncated'
<1>1. CASE UNCHANGED vars
  BY <1>1 DEF NeverSilentlyTruncated, vars, body, reader
<1>2. CASE Tick \/ PendingFires
  BY <1>2 DEF NeverSilentlyTruncated, Tick, PendingFires, body, reader
<1>3. ASSUME NEW r \in Requests,
             \/ Start(r) \/ Retry(r) \/ Refreshed(r) \/ AnswerBuffered(r) \/ Buffer(r) \/ OpenStream(r)
             \/ \E failure \in Failures : FetchFails(r, failure)
      PROVE  NeverSilentlyTruncated'
  <2>1. UNCHANGED <<body, reader>>
    BY <1>3 DEF Start, Retry, Refreshed, AnswerBuffered, Buffer, OpenStream, FetchFails
  <2> QED
    BY <2>1 DEF NeverSilentlyTruncated, body, reader
<1>4. ASSUME NEW r \in Requests, Chunk(r) \/ EndOfBody(r) \/ UpstreamFails(r)
      PROVE  NeverSilentlyTruncated'
  <2>1. client[r] = "open"
    BY <1>4 DEF Chunk, EndOfBody, UpstreamFails, StreamInv
  <2> QED
    BY <1>4, <2>1 DEF TypeOK, NeverSilentlyTruncated, Chunk, EndOfBody, UpstreamFails, reader
<1>5. ASSUME NEW r \in Requests, StallFires(r) \/ AbortFires(r)
      PROVE  NeverSilentlyTruncated'
  BY <1>5 DEF TypeOK, NeverSilentlyTruncated, StallFires, AbortFires, Aborted, reader
<1>6. ASSUME NEW r \in Requests, Pull(r) \/ ReadChunk(r) \/ Cancel(r)
      PROVE  NeverSilentlyTruncated'
  BY <1>6 DEF TypeOK, NeverSilentlyTruncated, Pull, ReadChunk, Cancel, Reading, Close, body
<1>7. ASSUME NEW r \in Requests, ReadDone(r) \/ ReadFails(r)
      PROVE  NeverSilentlyTruncated'
  BY <1>7 DEF TypeOK, NeverSilentlyTruncated, ReadDone, ReadFails, Close, body
<1> QED
  BY <1>1, <1>2, <1>3, <1>4, <1>5, <1>6, <1>7
  DEF Next, Timers, Reads, AnswerFails, ConnectTimeout, Failures

\* Only the two finalizing steps, and what they log is what the condition asks for: a
\* body that has ended gets no further chunk, and none is ended twice.
LEMMA LogStep ==
  ASSUME TypeOK, UsageLoggedOnce, [Next]_vars
  PROVE  UsageLoggedOnce'
<1>1. CASE UNCHANGED vars
  BY <1>1 DEF UsageLoggedOnce, vars, body, usage
<1>2. CASE Tick \/ PendingFires
  BY <1>2 DEF UsageLoggedOnce, Tick, PendingFires, body, usage
<1>3. ASSUME NEW r \in Requests,
             \/ Start(r) \/ Retry(r) \/ Refreshed(r) \/ AnswerBuffered(r) \/ Buffer(r) \/ OpenStream(r)
             \/ Pull(r) \/ ReadDone(r) \/ ReadFails(r)
             \/ \E failure \in Failures : FetchFails(r, failure)
      PROVE  UsageLoggedOnce'
  <2>1. UNCHANGED <<body, sameFormat, usage>>
    BY <1>3 DEF Start, Retry, Refreshed, AnswerBuffered, Buffer, OpenStream, FetchFails, Pull,
                ReadDone, ReadFails
  <2> QED
    BY <2>1 DEF UsageLoggedOnce, body, usage
<1>4. ASSUME NEW r \in Requests, Chunk(r)
      PROVE  UsageLoggedOnce'
  <2>1. upstream' = upstream /\ sameFormat' = sameFormat /\ upstream[r] # "ended"
    BY <1>4 DEF Chunk
  <2>2. PICK isTerminal \in BOOLEAN :
          /\ terminal' = [terminal EXCEPT ![r] = @ \/ isTerminal]
          /\ IF isTerminal /\ sameFormat[r] THEN Finalize(r) ELSE UNCHANGED logged
    BY <1>4 DEF Chunk
  <2>3. \A q \in Requests \ {r} : terminal'[q] = terminal[q] /\ logged'[q] = logged[q]
    BY <2>2 DEF TypeOK, Finalize
  <2>4. terminal'[r] = (terminal[r] \/ isTerminal)
    BY <2>2 DEF TypeOK
  <2>5. logged'[r] = IF isTerminal /\ sameFormat[r] THEN 1 ELSE logged[r]
    BY <2>2 DEF TypeOK, Finalize
  <2>6. /\ logged'[r] <= 1
        /\ logged'[r] = 1 <=> upstream'[r] = "ended" \/ (sameFormat'[r] /\ terminal'[r])
    <3>1. /\ logged[r] <= 1
          /\ logged[r] = 1 <=> sameFormat[r] /\ terminal[r]
      BY <2>1 DEF UsageLoggedOnce
    <3>2. CASE isTerminal /\ sameFormat[r]
      <4>1. logged'[r] = 1
        BY <2>5, <3>2
      <4>2. sameFormat'[r] /\ terminal'[r]
        BY <2>1, <2>4, <3>2
      <4>3. logged'[r] <= 1
        BY <4>1
      <4> QED
        BY <4>1, <4>2, <4>3
    <3>3. CASE ~(isTerminal /\ sameFormat[r])
      <4>1. logged'[r] = logged[r]
        BY <2>5, <3>3
      <4>2. sameFormat'[r] /\ terminal'[r] <=> sameFormat[r] /\ terminal[r]
        BY <2>1, <2>4, <3>3
      <4> QED
        BY <2>1, <3>1, <4>1, <4>2
    <3> QED
      BY <3>2, <3>3
  <2> QED
    BY <2>1, <2>3, <2>6 DEF UsageLoggedOnce
<1>5. ASSUME NEW r \in Requests, EndOfBody(r)
      PROVE  UsageLoggedOnce'
  BY <1>5 DEF TypeOK, UsageLoggedOnce, EndOfBody, Finalize
<1>6. ASSUME NEW r \in Requests,
             UpstreamFails(r) \/ StallFires(r) \/ AbortFires(r) \/ ReadChunk(r) \/ Cancel(r)
      PROVE  UsageLoggedOnce'
  <2>1. terminal' = terminal /\ sameFormat' = sameFormat /\ logged' = logged
    BY <1>6 DEF UpstreamFails, StallFires, AbortFires, ReadChunk, Cancel, usage
  <2>2. \A q \in Requests : upstream'[q] = "ended" <=> upstream[q] = "ended"
    <3>1. \/ upstream' = upstream
          \/ upstream[r] = "open" /\ upstream' = [upstream EXCEPT ![r] = "failed"]
          \/ \E how \in {"aborted", "cancelled"} :
               upstream' = [upstream EXCEPT ![r] = IF @ = "open" THEN how ELSE @]
      <4>1. CASE UpstreamFails(r) \/ ReadChunk(r)
        BY <4>1 DEF UpstreamFails, ReadChunk
      <4>2. CASE StallFires(r) \/ AbortFires(r)
        BY <4>2 DEF StallFires, AbortFires, Aborted
      <4>3. CASE Cancel(r)
        BY <4>3 DEF Cancel
      <4> QED
        BY <1>6, <4>1, <4>2, <4>3
    <3>2. upstream \in [Requests -> {"open", "ended", "failed", "aborted", "cancelled"}]
      BY DEF TypeOK
    <3> QED
      BY <3>1, <3>2
  <2> QED
    BY <2>1, <2>2 DEF UsageLoggedOnce
<1> QED
  BY <1>1, <1>2, <1>3, <1>4, <1>5, <1>6
  DEF Next, Timers, Reads, AnswerFails, ConnectTimeout, Failures

-----------------------------------------------------------------------------
(* The theorems.                                                            *)

\* The initial states satisfy the invariant.
LEMMA InitInv == Init => IInv
<1> SUFFICES ASSUME Init
             PROVE  IInv
  OBVIOUS
<1>1. Cardinality(Requests) \in Nat /\ 0 \in 0 .. Cardinality(Requests)
  BY StreamAssumption, FS_CardinalityType
<1>2. TypeOK
  BY <1>1, Bounds DEF Init, TypeOK
<1>3. StreamInv
  BY DEF Init, StreamInv, Untouched
<1>4. PendingInv
  <2>1. Live = {}
    BY DEF Init, Live
  <2> QED
    BY <2>1, FS_EmptySet DEF Init, PendingInv
<1> QED
  BY <1>2, <1>3, <1>4 DEF Init, IInv, NeverSilentlyTruncated, UsageLoggedOnce

\* Every step keeps the invariant.
LEMMA NextInv == IInv /\ [Next]_vars => IInv'
<1> SUFFICES ASSUME IInv, [Next]_vars
             PROVE  IInv'
  OBVIOUS
<1>1. TypeOK /\ StreamInv /\ PendingInv /\ NeverSilentlyTruncated /\ UsageLoggedOnce
  BY DEF IInv
<1> QED
  BY <1>1, TypeStep, StreamStep, PendingStep, TruncationStep, LogStep DEF IInv

\* Every variable stays in its type; the counter never exceeds the number of requests.
THEOREM TypeCorrect == Spec => []TypeOK
<1>1. IInv => TypeOK
  BY DEF IInv
<1> QED
  BY InitInv, NextInv, <1>1, PTL DEF Spec

\* However retries, the watchdog, disconnects and the flush at the end of a body take
\* a request off the counter, it never shows more than are in progress.
THEOREM PendingIsReal == Spec => []NoPhantomPending
<1>1. IInv => NoPhantomPending
  <2> DEFINE open == {r \in Requests : phase[r] \notin {"new", "over"}}
  <2>1. open \in SUBSET Requests /\ Live \in SUBSET open
    BY DEF Live
  <2>2. /\ Cardinality(Live) <= Cardinality(open)
        /\ Cardinality(Live) \in Nat /\ Cardinality(open) \in Nat
    BY <2>1, StreamAssumption, FS_Subset, FS_CardinalityType
  <2>3. IInv => pending \in Nat /\ pending <= Cardinality(Live)
    BY DEF IInv, TypeOK, PendingInv
  <2>4. IInv => pending <= Cardinality(open)
    BY <2>2, <2>3
  <2> QED
    BY <2>4 DEF NoPhantomPending
<1> QED
  BY InitInv, NextInv, <1>1, PTL DEF Spec

\* A stream closed on a client that still reads was complete or ended with the
\* terminal event, whichever of the watchdog, the provider and the pulls came first.
THEOREM TruncationIsTold == Spec => []NeverSilentlyTruncated
<1>1. IInv => NeverSilentlyTruncated
  BY DEF IInv
<1> QED
  BY InitInv, NextInv, <1>1, PTL DEF Spec

\* Usage is logged when the end of the body, or the terminal event of a Responses stream
\* passed on as it is, has passed, only then, and once, for bodies of any length with any
\* number of terminal events.
THEOREM UsageLogged == Spec => []UsageLoggedOnce
<1>1. IInv => UsageLoggedOnce
  BY DEF IInv
<1> QED
  BY InitInv, NextInv, <1>1, PTL DEF Spec

\* No stall watchdog outlives its stream.
THEOREM WatchdogOff == Spec => []NoStaleWatchdog
<1>1. IInv => NoStaleWatchdog
  BY DEF IInv, StreamInv, NoStaleWatchdog
<1> QED
  BY InitInv, NextInv, <1>1, PTL DEF Spec

=============================================================================
