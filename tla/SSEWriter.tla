----------------------------- MODULE SSEWriter -----------------------------
(***************************************************************************)
(* The stream of one request (internal/server/stream.go): the goroutine of  *)
(* handleChatCompletions writes frames, the heartbeat goroutine writes      *)
(* pings, a mutex keeps them apart, and Close stops the heartbeat before    *)
(* the handler gives the ResponseWriter back.                               *)
(*                                                                         *)
(* What Run sends is left open: any number of deltas, then the two frames   *)
(* of SendFinish or, after a failure, the error event and the terminator.   *)
(* A definition named X_Something is X with one plausible mistake.          *)
(***************************************************************************)
EXTENDS Naturals, Sequences, FiniteSets

CONSTANTS
  MaxDeltas,   \* bound: delta frames of one stream
  MaxTicks     \* bound: ticks of the heartbeat's ticker

ASSUME BoundAssumption == MaxDeltas \in Nat /\ MaxTicks \in Nat

VARIABLES
  phase,     \* the handler: what it does next
  frame,     \* the frame it is sending, "none" between two frames
  inside,    \* the goroutines inside the ResponseWriter
  mu,        \* the holder of SSEWriter.mu
  closed,    \* SSEWriter.closed
  hbStop,    \* hbStop is closed
  hbDone,    \* hbDone is closed
  beat,      \* the heartbeat goroutine
  tick,      \* a tick waits in the ticker's channel, which holds one
  ticks, deltas,   \* how many there were, for the bounds
  conn,      \* the client's connection
  writeErr,  \* the ResponseWriter has refused a write
  wire       \* the frames written while the client was connected

handler == <<phase, frame, deltas>>
heart == <<beat, tick, ticks>>
channels == <<hbStop, hbDone>>
stream == <<conn, writeErr, wire>>
vars == <<handler, heart, channels, stream, inside, mu, closed>>

Frames == {"delta", "finish", "error", "[DONE]", "ping"}
Phases == {"open", "running", "finishing", "finished", "failing", "failed",
           "closing", "stopping", "waiting", "returned"}

TypeOK ==
  /\ phase \in Phases
  /\ frame \in Frames \cup {"none"}
  /\ inside \subseteq {"handler", "beat"}
  /\ mu \in {"free", "handler", "beat"}
  /\ closed \in BOOLEAN /\ hbStop \in BOOLEAN /\ hbDone \in BOOLEAN
  /\ beat \in {"off", "select", "locking", "writing", "exited"}
  /\ tick \in BOOLEAN /\ ticks \in 0 .. MaxTicks /\ deltas \in 0 .. MaxDeltas
  /\ conn \in {"up", "down"} /\ writeErr \in BOOLEAN
  /\ wire \in Seq(Frames)

Init ==
  /\ phase = "open" /\ frame = "none" /\ deltas = 0
  /\ beat = "off" /\ tick = FALSE /\ ticks = 0
  /\ hbStop = FALSE /\ hbDone = FALSE
  /\ inside = {} /\ mu = "free" /\ closed = FALSE
  /\ conn = "up" /\ writeErr = FALSE /\ wire = <<>>

-----------------------------------------------------------------------------
(* Writing a frame: lock, write and flush, unlock.                          *)

\* The ResponseWriter takes the bytes; without a client they are lost.
Taken(f) ==
  /\ ~writeErr
  /\ wire' = IF conn = "up" THEN Append(wire, f) ELSE wire
  /\ UNCHANGED <<conn, writeErr>>
Refused ==
  /\ conn = "down" /\ writeErr' = TRUE
  /\ UNCHANGED <<conn, wire>>

\* What the handler does after a frame.  Run may go on after a refused delta
\* (progress) and fails after a refused finish marker; the frames of the error
\* path are sent for what they are worth.
After_NoTerminator(f, ok) ==
  CASE f = "delta" -> phase
    [] f = "finish" -> IF ok THEN "finished" ELSE "failing"
    [] f = "[DONE]" /\ phase = "finished" -> IF ok THEN "closing" ELSE "failing"
    [] OTHER -> "closing"
After(f, ok) ==
  CASE f = "delta" -> phase
    [] f = "finish" -> IF ok THEN "finished" ELSE "failing"
    [] f = "error" -> "failed"
    [] f = "[DONE]" /\ phase = "finished" -> IF ok THEN "closing" ELSE "failing"
    [] f = "[DONE]" /\ phase = "failed" -> "closing"

\* SendReasoning, SendContent, SendToolCallDelta; before the heartbeat starts,
\* the one frame of SendRoleStart.
SendDelta ==
  /\ \/ phase = "open" /\ deltas = 0
     \/ phase = "running"
  /\ frame = "none" /\ deltas < MaxDeltas
  /\ frame' = "delta" /\ deltas' = deltas + 1
  /\ UNCHANGED <<phase, heart, channels, stream, inside, mu, closed>>

\* SendFinish writes two frames, the second only if the first was taken;
\* the handler writes the error event and the terminator whatever happens.
SendNext ==
  /\ frame = "none"
  /\ \/ phase = "finishing" /\ frame' = "finish"
     \/ phase \in {"finished", "failed"} /\ frame' = "[DONE]"
     \/ phase = "failing" /\ frame' = "error"
  /\ UNCHANGED <<phase, deltas, heart, channels, stream, inside, mu, closed>>

HandlerLock ==
  /\ frame # "none" /\ mu = "free"
  /\ mu' = "handler" /\ inside' = inside \cup {"handler"}
  /\ UNCHANGED <<handler, heart, channels, stream, closed>>

HandlerWrite ==
  /\ mu = "handler" /\ frame # "none"
  /\ \/ Taken(frame) /\ phase' = After(frame, TRUE)
     \/ Refused /\ phase' = After(frame, FALSE)
  /\ frame' = "none" /\ mu' = "free" /\ inside' = inside \ {"handler"}
  /\ UNCHANGED <<deltas, heart, channels, closed>>

-----------------------------------------------------------------------------
(* The handler around its frames.                                           *)

StartHeartbeat ==
  /\ phase = "open" /\ frame = "none"
  /\ phase' = "running" /\ beat' = "select"
  /\ UNCHANGED <<frame, deltas, tick, ticks, channels, stream, inside, mu, closed>>

\* Run ends: with the finish marker, or with an error.
RunEnds ==
  /\ phase = "running" /\ frame = "none"
  /\ phase' \in {"finishing", "failing"}
  /\ UNCHANGED <<frame, deltas, heart, channels, stream, inside, mu, closed>>

\* Close, in three steps: mark the writer, close hbStop, wait for hbDone.
MarkClosed_HoldsLock ==
  /\ phase = "closing" /\ mu = "free"
  /\ closed' = TRUE /\ phase' = "stopping" /\ mu' = "handler"
  /\ UNCHANGED <<frame, deltas, heart, channels, stream, inside>>
MarkClosed ==
  /\ phase = "closing" /\ mu = "free"
  /\ closed' = TRUE /\ phase' = "stopping"
  /\ UNCHANGED <<frame, deltas, heart, channels, stream, inside, mu>>

StopHeartbeat ==
  /\ phase = "stopping"
  /\ hbStop' = TRUE /\ phase' = "waiting"
  /\ UNCHANGED <<frame, deltas, heart, hbDone, stream, inside, mu, closed>>

AwaitHeartbeat_NoWait ==
  /\ phase = "waiting"
  /\ phase' = "returned"
  /\ UNCHANGED <<frame, deltas, heart, channels, stream, inside, mu, closed>>
AwaitHeartbeat ==
  /\ phase = "waiting" /\ hbDone
  /\ phase' = "returned"
  /\ UNCHANGED <<frame, deltas, heart, channels, stream, inside, mu, closed>>

-----------------------------------------------------------------------------
(* The heartbeat goroutine.                                                 *)

\* The ticker drops a tick nobody has taken yet.
Tick ==
  /\ beat \notin {"off", "exited"} /\ ~tick /\ ticks < MaxTicks
  /\ tick' = TRUE /\ ticks' = ticks + 1
  /\ UNCHANGED <<handler, beat, channels, stream, inside, mu, closed>>

BeatTakesTick ==
  /\ beat = "select" /\ tick
  /\ beat' = "locking" /\ tick' = FALSE
  /\ UNCHANGED <<handler, ticks, channels, stream, inside, mu, closed>>

BeatStops ==
  /\ beat = "select" /\ hbStop
  /\ beat' = "exited" /\ hbDone' = TRUE
  /\ UNCHANGED <<handler, tick, ticks, hbStop, stream, inside, mu, closed>>

\* The lock is taken, and given back at once if the writer is closed.
BeatLock_NoMutex ==
  /\ beat = "locking"
  /\ beat' = "writing" /\ inside' = inside \cup {"beat"}
  /\ UNCHANGED <<handler, tick, ticks, channels, stream, mu, closed>>
BeatLock_TryLock ==
  /\ beat = "locking"
  /\ \/ /\ mu = "free" /\ closed
        /\ beat' = "exited" /\ hbDone' = TRUE
        /\ UNCHANGED <<mu, inside>>
     \/ /\ mu = "free" /\ ~closed
        /\ mu' = "beat" /\ beat' = "writing" /\ inside' = inside \cup {"beat"}
        /\ UNCHANGED hbDone
     \/ /\ mu # "free"
        /\ beat' = "select" /\ UNCHANGED <<mu, inside, hbDone>>
  /\ UNCHANGED <<handler, tick, ticks, hbStop, stream, closed>>
BeatLock ==
  /\ beat = "locking" /\ mu = "free"
  /\ \/ /\ closed
        /\ beat' = "exited" /\ hbDone' = TRUE
        /\ UNCHANGED <<mu, inside>>
     \/ /\ ~closed
        /\ mu' = "beat" /\ beat' = "writing" /\ inside' = inside \cup {"beat"}
        /\ UNCHANGED hbDone
  /\ UNCHANGED <<handler, tick, ticks, hbStop, stream, closed>>

\* A ping that is refused is forgotten.
BeatWrite ==
  /\ beat = "writing"
  /\ Taken("ping") \/ Refused
  /\ beat' = "select" /\ mu' = "free" /\ inside' = inside \ {"beat"}
  /\ UNCHANGED <<handler, tick, ticks, channels, closed>>

ClientLeaves ==
  /\ conn = "up" /\ conn' = "down"
  /\ UNCHANGED <<handler, heart, channels, writeErr, wire, inside, mu, closed>>

Returned == phase = "returned" /\ UNCHANGED vars

-----------------------------------------------------------------------------
Next ==
  \/ SendDelta \/ SendNext \/ HandlerLock \/ HandlerWrite
  \/ StartHeartbeat \/ RunEnds \/ MarkClosed \/ StopHeartbeat \/ AwaitHeartbeat
  \/ Tick \/ BeatTakesTick \/ BeatStops \/ BeatLock \/ BeatWrite
  \/ ClientLeaves \/ Returned

\* Both goroutines are scheduled, and sync.Mutex starves nobody.  How long Run
\* takes, and whether the client leaves, is left open.
Fairness ==
  /\ WF_vars(SendNext) /\ SF_vars(HandlerLock) /\ WF_vars(HandlerWrite)
  /\ WF_vars(StartHeartbeat) /\ SF_vars(MarkClosed)
  /\ WF_vars(StopHeartbeat) /\ WF_vars(AwaitHeartbeat)
  /\ WF_vars(BeatTakesTick) /\ WF_vars(BeatStops)
  /\ SF_vars(BeatLock) /\ WF_vars(BeatWrite)

Spec == Init /\ [][Next]_vars /\ Fairness

-----------------------------------------------------------------------------
(* Properties.                                                              *)

\* The two goroutines are never in the ResponseWriter together, so no ping
\* lands inside another frame.
ExclusiveWriter == inside # {"handler", "beat"}

\* net/http takes the ResponseWriter back when the handler returns: by then the
\* heartbeat is over, wherever Close found it.
NoWriteAfterReturn == phase = "returned" => beat \in {"off", "exited"} /\ inside = {}

\* A client that stayed reads one [DONE], as the last frame but pings, and right
\* before it (pings aside) the finish marker or the error event.
Others(places, m) ==
  \A i \in DOMAIN wire \ places : wire[i] = "ping" \/ (wire[i] = "delta" /\ i < m)
Terminated ==
  \E m, n \in DOMAIN wire :
    m < n /\ wire[m] \in {"finish", "error"} /\ wire[n] = "[DONE]" /\ Others({m, n}, m)
WellTerminated == phase = "returned" /\ conn = "up" => Terminated

\* Close does not wait for ever: neither for the mutex nor for the heartbeat.
CloseReturns == phase = "closing" ~> phase = "returned"

\* Every tick the channel took becomes a ping that the client reads, however busy
\* the handler keeps the mutex, unless the stream is closed or the client left first:
\* the n-th tick is followed by the n-th ping.
Pings == Cardinality({i \in DOMAIN wire : wire[i] = "ping"})
KeepsAlive ==
  \A n \in 1 .. MaxTicks : ticks >= n ~> (Pings >= n \/ closed \/ conn = "down")

\* Whoever holds the mutex is in the ResponseWriter, and nobody else; a frame on
\* its way is one the handler's phase sends; hbDone is closed by the heartbeat's
\* exit, and only a closed hbDone lets the handler return.
MutexInv ==
  /\ inside = IF mu = "free" THEN {} ELSE {mu}
  /\ mu = "beat" <=> beat = "writing"
  /\ mu = "handler" => frame # "none"
FrameInv ==
  \/ frame = "none"
  \/ frame = "delta" /\ phase \in {"open", "running"}
  \/ frame = "finish" /\ phase = "finishing"
  \/ frame = "error" /\ phase = "failing"
  \/ frame = "[DONE]" /\ phase \in {"finished", "failed"}
ExitInv ==
  /\ hbDone <=> beat = "exited"
  /\ phase = "returned" => hbDone
  /\ phase = "open" => beat = "off"

LockInv == TypeOK /\ MutexInv /\ FrameInv /\ ExitInv

\* What a client that stayed has read by each phase of the handler: only a client
\* that left makes a write fail, and turns a finished answer into a failed one.
Begun == \A i \in DOMAIN wire : wire[i] \in {"delta", "ping"}
Marked ==
  \E m \in DOMAIN wire : wire[m] \in {"finish", "error"} /\ Others({m}, m)
WireInv ==
  /\ writeErr => conn = "down"
  /\ conn = "up" =>
       /\ phase \in {"open", "running", "finishing", "failing"} => Begun
       /\ phase \in {"finished", "failed"} => Marked
       /\ phase \in {"closing", "stopping", "waiting", "returned"} => Terminated

IInv == LockInv /\ WireInv
=============================================================================
