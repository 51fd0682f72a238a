-------------------------- MODULE SSEWriterProofs --------------------------
(***************************************************************************)
(* The safety of the stream's two goroutines, for streams of any length and *)
(* any number of heartbeats.                                                *)
(***************************************************************************)
EXTENDS SSEWriter, SequenceTheorems, TLAPS

\* A write leaves a stream of frames behind, whether it is taken or refused.
LEMMA WriteType ==
  ASSUME TypeOK, NEW f \in Frames, Taken(f) \/ Refused
  PROVE  wire' \in Seq(Frames) /\ writeErr' \in BOOLEAN /\ conn' = conn
<1>1. wire \in Seq(Frames) /\ writeErr \in BOOLEAN
  BY DEF TypeOK
<1>2. CASE Taken(f)
  <2>1. Append(wire, f) \in Seq(Frames)
    BY <1>1, AppendProperties
  <2> QED
    BY <1>1, <1>2, <2>1 DEF Taken
<1>3. CASE Refused
  BY <1>1, <1>3 DEF Refused
<1> QED
  BY <1>2, <1>3

\* The phase after a frame is one the handler can be in between two frames.
LEMMA AfterPhase ==
  ASSUME TypeOK, FrameInv, frame # "none", NEW ok \in BOOLEAN
  PROVE  /\ frame \in Frames
         /\ After(frame, ok) \in Phases \ {"returned"}
         /\ After(frame, ok) = "open" => phase = "open"
BY DEF TypeOK, FrameInv, After, Phases

\* Every step of the handler, of the heartbeat and of the client keeps LockInv.
LEMMA Step ==
  ASSUME LockInv, [Next]_vars
  PROVE  LockInv'
<1> USE DEF LockInv
<1>1. CASE SendDelta
  <2>1. deltas' \in 0 .. MaxDeltas
    BY <1>1, BoundAssumption DEF SendDelta, TypeOK
  <2> QED
    BY <1>1, <2>1 DEF SendDelta, TypeOK, MutexInv, FrameInv, ExitInv, Frames,
      heart, channels, stream
<1>2. CASE SendNext
  BY <1>2 DEF SendNext, TypeOK, MutexInv, FrameInv, ExitInv, Frames, heart,
    channels, stream
<1>3. CASE HandlerLock
  BY <1>3 DEF HandlerLock, TypeOK, MutexInv, FrameInv, ExitInv, handler, heart,
    channels, stream
<1>4. CASE HandlerWrite
  <2>1. PICK ok \in BOOLEAN : /\ Taken(frame) \/ Refused
                              /\ phase' = After(frame, ok)
    BY <1>4 DEF HandlerWrite
  <2>2. /\ frame \in Frames /\ phase' \in Phases \ {"returned"}
        /\ phase' = "open" => phase = "open"
    BY <1>4, <2>1, AfterPhase DEF HandlerWrite
  <2>3. wire' \in Seq(Frames) /\ writeErr' \in BOOLEAN /\ conn' = conn
    BY <2>1, <2>2, WriteType
  <2>4. UNCHANGED <<deltas, beat, tick, ticks, hbStop, hbDone, closed>>
    BY <1>4 DEF HandlerWrite, heart, channels
  <2>5. frame' = "none" /\ mu = "handler" /\ mu' = "free" /\ inside' = inside \ {"handler"}
    BY <1>4 DEF HandlerWrite
  <2>6. TypeOK'
    BY <2>2, <2>3, <2>4, <2>5 DEF TypeOK
  <2> QED
    BY <2>2, <2>4, <2>5, <2>6 DEF MutexInv, FrameInv, ExitInv
<1>5. CASE StartHeartbeat
  BY <1>5 DEF StartHeartbeat, TypeOK, MutexInv, FrameInv, ExitInv, Phases,
    channels, stream
<1>6. CASE RunEnds
  BY <1>6 DEF RunEnds, TypeOK, MutexInv, FrameInv, ExitInv, Phases, heart,
    channels, stream
<1>7. CASE MarkClosed
  BY <1>7 DEF MarkClosed, TypeOK, MutexInv, FrameInv, ExitInv, Phases, heart,
    channels, stream
<1>8. CASE StopHeartbeat
  BY <1>8 DEF StopHeartbeat, TypeOK, MutexInv, FrameInv, ExitInv, Phases, heart,
    stream
<1>9. CASE AwaitHeartbeat
  BY <1>9 DEF AwaitHeartbeat, TypeOK, MutexInv, FrameInv, ExitInv, Phases, heart,
    channels, stream
<1>10. CASE Tick
  <2>1. ticks' \in 0 .. MaxTicks
    BY <1>10, BoundAssumption DEF Tick, TypeOK
  <2> QED
    BY <1>10, <2>1 DEF Tick, TypeOK, MutexInv, FrameInv, ExitInv, handler,
      channels, stream
<1>11. CASE BeatTakesTick
  BY <1>11 DEF BeatTakesTick, TypeOK, MutexInv, FrameInv, ExitInv, handler,
    channels, stream
<1>12. CASE BeatStops
  BY <1>12 DEF BeatStops, TypeOK, MutexInv, FrameInv, ExitInv, handler, stream
<1>13. CASE BeatLock
  <2>1. UNCHANGED <<phase, frame, deltas, tick, ticks, hbStop, conn, writeErr,
                    wire, closed>>
    BY <1>13 DEF BeatLock, handler, stream
  <2>2. /\ beat = "locking" /\ mu = "free" /\ inside = {} /\ phase # "open"
        /\ hbDone = FALSE
    BY <1>13 DEF BeatLock, TypeOK, MutexInv, ExitInv
  <2>3. CASE /\ beat' = "exited" /\ hbDone' = TRUE
             /\ UNCHANGED <<mu, inside>>
    BY <2>1, <2>2, <2>3 DEF TypeOK, MutexInv, FrameInv, ExitInv
  <2>4. CASE /\ mu' = "beat" /\ beat' = "writing" /\ inside' = inside \cup {"beat"}
             /\ UNCHANGED hbDone
    BY <2>1, <2>2, <2>4 DEF TypeOK, MutexInv, FrameInv, ExitInv
  <2> QED
    BY <1>13, <2>3, <2>4 DEF BeatLock
<1>14. CASE BeatWrite
  <2>1. wire' \in Seq(Frames) /\ writeErr' \in BOOLEAN /\ conn' = conn
    BY <1>14, WriteType DEF BeatWrite, Frames
  <2>2. UNCHANGED <<phase, frame, deltas, tick, ticks, hbStop, hbDone, closed>>
    BY <1>14 DEF BeatWrite, handler, channels
  <2>3. /\ beat = "writing" /\ beat' = "select"
        /\ mu' = "free" /\ inside' = inside \ {"beat"}
    BY <1>14 DEF BeatWrite
  <2> QED
    BY <2>1, <2>2, <2>3 DEF TypeOK, MutexInv, FrameInv, ExitInv
<1>15. CASE ClientLeaves
  BY <1>15 DEF ClientLeaves, TypeOK, MutexInv, FrameInv, ExitInv, handler, heart,
    channels
<1>16. CASE UNCHANGED vars
  BY <1>16 DEF vars, TypeOK, MutexInv, FrameInv, ExitInv, handler, heart,
    channels, stream
<1> QED
  BY <1>1, <1>2, <1>3, <1>4, <1>5, <1>6, <1>7, <1>8, <1>9, <1>10, <1>11, <1>12,
    <1>13, <1>14, <1>15, <1>16 DEF Next, Returned

\* A frame that is written is the last one on the wire, behind what was there.
LEMMA WrittenFrame ==
  ASSUME TypeOK, NEW f \in Frames, wire' = Append(wire, f)
  PROVE  /\ DOMAIN wire' = DOMAIN wire \cup {Len(wire) + 1}
         /\ Len(wire) + 1 \notin DOMAIN wire
         /\ \A i \in DOMAIN wire : i < Len(wire) + 1 /\ wire'[i] = wire[i]
         /\ wire'[Len(wire) + 1] = f
<1>1. wire \in Seq(Frames)
  BY DEF TypeOK
<1>2. /\ Len(wire) \in Nat /\ DOMAIN wire = 1 .. Len(wire)
      /\ DOMAIN wire' = 1 .. Len(wire) + 1
      /\ \A i \in 1 .. Len(wire) : wire'[i] = wire[i]
      /\ wire'[Len(wire) + 1] = f
  BY <1>1
<1> QED
  BY <1>2

\* A ping changes nothing of what the wire says.
LEMMA PingSaysNothing ==
  ASSUME TypeOK, wire' = Append(wire, "ping")
  PROVE  (Begun => Begun') /\ (Marked => Marked') /\ (Terminated => Terminated')
<1> DEFINE k == Len(wire) + 1
<1>1. /\ DOMAIN wire' = DOMAIN wire \cup {k} /\ k \notin DOMAIN wire
      /\ \A i \in DOMAIN wire : i < k /\ wire'[i] = wire[i]
      /\ wire'[k] = "ping"
  BY WrittenFrame DEF Frames
<1> HIDE DEF k
<1>2. Begun => Begun'
  BY <1>1 DEF Begun
<1>3. ASSUME Marked PROVE Marked'
  <2>1. PICK m \in DOMAIN wire : wire[m] \in {"finish", "error"} /\ Others({m}, m)
    BY <1>3 DEF Marked
  <2> QED
    BY <1>1, <2>1 DEF Marked, Others
<1>4. ASSUME Terminated PROVE Terminated'
  <2>1. PICK m, n \in DOMAIN wire :
          m < n /\ wire[m] \in {"finish", "error"} /\ wire[n] = "[DONE]" /\ Others({m, n}, m)
    BY <1>4 DEF Terminated
  <2>2. /\ m \in DOMAIN wire' /\ n \in DOMAIN wire'
        /\ wire'[m] \in {"finish", "error"} /\ wire'[n] = "[DONE]" /\ Others({m, n}, m)'
    BY <1>1, <2>1 DEF Others
  <2> QED
    BY <2>1, <2>2 DEF Terminated
<1> QED
  BY <1>2, <1>3, <1>4

\* What the handler's frames add: deltas, then a marker, then the terminator.
LEMMA FramesAdd ==
  ASSUME TypeOK, NEW f \in Frames, wire' = Append(wire, f)
  PROVE  /\ f = "delta" /\ Begun => Begun'
         /\ f \in {"finish", "error"} /\ Begun => Marked'
         /\ f = "[DONE]" /\ Marked => Terminated'
<1>1. PICK k : /\ DOMAIN wire' = DOMAIN wire \cup {k} /\ k \notin DOMAIN wire
                /\ \A i \in DOMAIN wire : i < k /\ wire'[i] = wire[i]
                /\ wire'[k] = f
  BY WrittenFrame
<1>2. f = "delta" /\ Begun => Begun'
  BY <1>1 DEF Begun
<1>3. ASSUME f \in {"finish", "error"}, Begun PROVE Marked'
  <2>1. k \in DOMAIN wire' /\ wire'[k] \in {"finish", "error"} /\ Others({k}, k)'
    BY <1>1, <1>3 DEF Begun, Others
  <2> QED
    BY <2>1 DEF Marked
<1>4. ASSUME f = "[DONE]", Marked PROVE Terminated'
  <2>1. PICK m \in DOMAIN wire : wire[m] \in {"finish", "error"} /\ Others({m}, m)
    BY <1>4 DEF Marked
  <2>2. /\ m \in DOMAIN wire' /\ k \in DOMAIN wire' /\ m < k
        /\ wire'[m] \in {"finish", "error"} /\ wire'[k] = "[DONE]" /\ Others({m, k}, m)'
    BY <1>1, <1>4, <2>1 DEF Others
  <2> QED
    BY <2>2 DEF Terminated
<1> QED
  BY <1>2, <1>3, <1>4

\* Every step keeps what the wire says in step with the handler's phase.
LEMMA WireStep ==
  ASSUME LockInv, WireInv, [Next]_vars
  PROVE  WireInv'
<1>1. TypeOK /\ FrameInv
  BY DEF LockInv
<1>2. ASSUME UNCHANGED <<phase, wire, writeErr>>, conn' = conn \/ conn' = "down"
      PROVE  WireInv'
  BY <1>2 DEF WireInv, Begun, Marked, Terminated, Others
<1>3. CASE \/ SendDelta \/ SendNext \/ HandlerLock \/ Tick \/ BeatTakesTick \/ BeatStops
           \/ BeatLock \/ ClientLeaves \/ UNCHANGED vars
  BY <1>2, <1>3 DEF SendDelta, SendNext, HandlerLock, Tick, BeatTakesTick, BeatStops, BeatLock,
    ClientLeaves, vars, handler, stream
<1>4. CASE StartHeartbeat \/ RunEnds \/ MarkClosed \/ StopHeartbeat \/ AwaitHeartbeat
  <2>1. UNCHANGED stream
    BY <1>4 DEF StartHeartbeat, RunEnds, MarkClosed, StopHeartbeat, AwaitHeartbeat
  <2>2. \/ /\ phase \in {"open", "running"} /\ phase' \in {"running", "finishing", "failing"}
        \/ /\ phase \in {"closing", "stopping", "waiting"}
           /\ phase' \in {"stopping", "waiting", "returned"}
    BY <1>4 DEF StartHeartbeat, RunEnds, MarkClosed, StopHeartbeat, AwaitHeartbeat
  <2> QED
    BY <2>1, <2>2 DEF WireInv, Begun, Marked, Terminated, Others, stream
<1>5. CASE BeatWrite
  <2>1. phase' = phase
    BY <1>5 DEF BeatWrite, handler
  <2>2. CASE Taken("ping") /\ conn = "up"
    BY <1>1, <2>1, <2>2, PingSaysNothing DEF Taken, WireInv
  <2>3. CASE conn = "down"
    BY <1>5, <2>3 DEF BeatWrite, Taken, Refused, WireInv
  <2> QED
    BY <1>1, <1>5, <2>2, <2>3 DEF BeatWrite, Refused, TypeOK
<1>6. CASE HandlerWrite
  <2>1. CASE conn = "down"
    BY <1>6, <2>1 DEF HandlerWrite, Taken, Refused, WireInv
  <2>2. CASE conn = "up"
    <3>1. /\ wire' = Append(wire, frame) /\ UNCHANGED <<conn, writeErr>>
          /\ phase' = After(frame, TRUE) /\ frame # "none" /\ frame \in Frames
      BY <1>1, <1>6, <2>2 DEF HandlerWrite, Taken, Refused, TypeOK
    <3>2. CASE frame = "delta" /\ phase \in {"open", "running"}
      BY <1>1, <2>2, <3>1, <3>2, FramesAdd DEF WireInv, After
    <3>3. CASE frame \in {"finish", "error"} /\ phase \in {"finishing", "failing"}
      BY <1>1, <2>2, <3>1, <3>3, FramesAdd DEF WireInv, After
    <3>4. CASE frame = "[DONE]" /\ phase \in {"finished", "failed"}
      BY <1>1, <2>2, <3>1, <3>4, FramesAdd DEF WireInv, After
    <3> QED
      BY <1>1, <3>1, <3>2, <3>3, <3>4 DEF FrameInv
  <2> QED
    BY <1>1, <2>1, <2>2 DEF TypeOK
<1> QED
  BY <1>3, <1>4, <1>5, <1>6 DEF Next, Returned

\* The mutex, the frame on its way and the heartbeat's exit agree in every
\* state, however the two goroutines interleave (stream.go:55-78, 154-207).
THEOREM Invariance == Spec => []IInv
<1>1. Init => IInv
  <2> SUFFICES ASSUME Init PROVE IInv
    OBVIOUS
  <2>1. wire \in Seq(Frames)
    BY EmptySeq DEF Init
  <2>2. ticks \in 0 .. MaxTicks /\ deltas \in 0 .. MaxDeltas
    BY BoundAssumption DEF Init
  <2>3. DOMAIN wire = {}
    BY DEF Init
  <2>4. LockInv
    BY <2>1, <2>2 DEF Init, LockInv, TypeOK, Phases, MutexInv, FrameInv, ExitInv
  <2>5. WireInv
    BY <2>3 DEF Init, WireInv, Begun
  <2> QED
    BY <2>4, <2>5 DEF IInv
<1>2. IInv /\ [Next]_vars => IInv'
  BY Step, WireStep DEF IInv
<1> QED
  BY <1>1, <1>2, PTL DEF Spec

\* The mutex keeps the two goroutines out of each other's frames.
THEOREM AlwaysExclusive == Spec => []ExclusiveWriter
<1>1. IInv => ExclusiveWriter
  <2>1. \A m : inside = {} \/ inside = {m} => inside # {"handler", "beat"}
    OBVIOUS
  <2> QED
    BY <2>1 DEF IInv, LockInv, MutexInv, ExclusiveWriter
<1> QED
  BY <1>1, Invariance, PTL

\* The ResponseWriter is never used after the handler has returned, wherever
\* Close found the heartbeat.
THEOREM NeverWritesAfterReturn == Spec => []NoWriteAfterReturn
<1>1. IInv => NoWriteAfterReturn
  BY DEF IInv, LockInv, TypeOK, MutexInv, FrameInv, ExitInv, NoWriteAfterReturn
<1> QED
  BY <1>1, Invariance, PTL

\* A client that stays reads a stream that ends as it should, however deltas,
\* pings, the error path and Close interleave (stream.go:55-207, server.go:176-205).
THEOREM AlwaysWellTerminated == Spec => []WellTerminated
<1>1. IInv => WellTerminated
  BY DEF IInv, WireInv, WellTerminated
<1> QED
  BY <1>1, Invariance, PTL
=============================================================================
