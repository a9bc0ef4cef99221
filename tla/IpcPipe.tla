------------------------------- MODULE IpcPipe -------------------------------
(***************************************************************************)
(* The path of a market data frame from the Go ingestion service to the    *)
(* Rust engine: ipc.Writer (services/ingestion/internal/ipc/writer.go),    *)
(* the Unix socket, and the listener that reads it                         *)
(* (core_engine/ipc_listener/src/main.rs).                                 *)
(*                                                                         *)
(* Frames are numbered in the order their Write or WriteRaw call begins.   *)
(* Callers of Write run concurrently: its three select statements are      *)
(* three steps.  Every Connect starts one more writeLoop; all of them read *)
(* the one buffer and write to the latest connection.  On a connection a   *)
(* frame is whole, or cut short by the write deadline, after which the     *)
(* reader takes bytes of the following frame for the missing ones, and     *)
(* finds a frame boundary again only by chance.  The listener serves one   *)
(* connection at a time, and parses what it has read of a frame            *)
(* (FrameFormat).                                                          *)
(***************************************************************************)
EXTENDS FrameFormat, FiniteSets, SequencesExt

CONSTANTS
  Callers,           \* concurrent callers of Write
  Capacity,          \* maxBufferSize
  Content,           \* payload and trace of every frame, and the method it is written with
  MaxFrames,         \* bound: frames written
  MaxConnects        \* bound: successful Connects

ASSUME CallersAssumption == IsFiniteSet(Callers)
ASSUME CapacityAssumption == Capacity \in Nat \ {0}
ASSUME BoundsAssumption == MaxFrames \in Nat /\ MaxConnects \in Nat

Frames == 1 .. MaxFrames

ASSUME ContentAssumption ==
  /\ DOMAIN Content = Frames
  /\ \A f \in Frames : /\ Content[f].payload \in Seq(Byte)
                       /\ IsTrace(Content[f].trace)

Loops == 1 .. MaxConnects
NoFrame == 0
Garbage == 0                     \* what a reader that lost the boundary returns

VARIABLES
  calls,             \* Write calls begun: the number of the latest frame
  write,             \* where every caller's Write stands, and its frame
  accepted,          \* frames whose Write returned nil, in order
  buffer,            \* Writer.buffer, a Go channel
  closed,            \* Writer.closed and Writer.done
  connects,          \* connections made; the latest one is Writer.conn
  open,              \* the connections neither side has closed
  loop,              \* the frame every writeLoop holds, or that it has ended
  metrics,           \* FramesDropped, ErrorEvents and FramesForwarded
  stream,            \* the bytes under way on every connection
  serving,           \* the connection the listener reads, or 0
  garbled,           \* the listener has lost the frame boundary
  received           \* what parse_frame was given, in order

writerVars == <<calls, write, accepted, buffer>>
listenerVars == <<serving, garbled, received>>
vars == <<calls, write, accepted, buffer, closed, connects, open, loop, metrics,
          stream, serving, garbled, received>>

(* FramesDropped's no_connection is left out: a writeLoop only starts once *)
(* there is a connection, and none is ever taken away.                     *)
Counter == {"backpressure", "backpressure_overflow", "ipc_write", "forwarded"}

Count(counter) == metrics' = [metrics EXCEPT ![counter] = @ + 1]

Ended == -1                      \* a writeLoop that has returned

-----------------------------------------------------------------------------
(* Write and WriteRaw: try to send; if the channel is full take the oldest *)
(* frame out, if one is still there; try again.                            *)
BeginWrite(c) ==
  /\ write[c].pc = "idle"
  /\ calls < MaxFrames
  /\ calls' = calls + 1
  /\ write' = [write EXCEPT ![c] = [pc |-> "try", frame |-> calls + 1]]
  /\ UNCHANGED <<accepted, buffer, closed, connects, open, loop, metrics, stream,
                 listenerVars>>

Enqueue(c) ==
  /\ buffer' = Append(buffer, write[c].frame)
  /\ accepted' = Append(accepted, write[c].frame)
  /\ write' = [write EXCEPT ![c].pc = "idle"]

Try(c) ==
  /\ write[c].pc = "try"
  /\ \/ Len(buffer) < Capacity /\ Enqueue(c)
     \/ /\ Len(buffer) >= Capacity
        /\ write' = [write EXCEPT ![c].pc = "evict"]
        /\ UNCHANGED <<buffer, accepted>>
  /\ UNCHANGED <<calls, closed, connects, open, loop, metrics, stream, listenerVars>>

Evict_SlipUncounted(c) ==               \* the evicted frame is not counted
  /\ write[c].pc = "evict"
  /\ write' = [write EXCEPT ![c].pc = "retry"]
  /\ buffer' = IF buffer = <<>> THEN buffer ELSE Tail(buffer)
  /\ UNCHANGED <<calls, accepted, closed, connects, open, loop, metrics, stream,
                 listenerVars>>

Evict(c) ==
  /\ write[c].pc = "evict"
  /\ write' = [write EXCEPT ![c].pc = "retry"]
  /\ \/ buffer # <<>> /\ buffer' = Tail(buffer) /\ Count("backpressure")
     \/ buffer = <<>> /\ UNCHANGED <<buffer, metrics>>
  /\ UNCHANGED <<calls, accepted, closed, connects, open, loop, stream, listenerVars>>

Retry(c) ==
  /\ write[c].pc = "retry"
  /\ \/ Len(buffer) < Capacity /\ Enqueue(c) /\ UNCHANGED metrics
     \/ /\ Len(buffer) >= Capacity
        /\ Count("backpressure_overflow")
        /\ write' = [write EXCEPT ![c].pc = "idle"]
        /\ UNCHANGED <<buffer, accepted>>
  /\ UNCHANGED <<calls, closed, connects, open, loop, stream, listenerVars>>

-----------------------------------------------------------------------------
(* Connect replaces the connection, leaves the old one open and starts one *)
(* more writeLoop.                                                         *)
Connect ==
  /\ ~closed
  /\ connects < MaxConnects
  /\ connects' = connects + 1
  /\ open' = open \cup {connects + 1}
  /\ loop' = [loop EXCEPT ![connects + 1] = NoFrame]
  /\ UNCHANGED <<writerVars, closed, metrics, stream, listenerVars>>

Started(l) == l <= connects

(* writeLoop takes the next frame ...                                      *)
Take(l) ==
  /\ Started(l) /\ loop[l] = NoFrame
  /\ buffer # <<>>
  /\ loop' = [loop EXCEPT ![l] = Head(buffer)]
  /\ buffer' = Tail(buffer)
  /\ UNCHANGED <<calls, write, accepted, closed, connects, open, metrics, stream,
                 listenerVars>>

(* ... and writes it: whole, cut short by the deadline, or not at all.     *)
(* The frame is gone in any case.                                          *)
Forward_SlipRequeue(l) ==               \* a failed frame goes back, at the end
  /\ Started(l) /\ loop[l] \in Frames
  /\ loop' = [loop EXCEPT ![l] = NoFrame]
  /\ \/ /\ connects \in open
        /\ stream' = [stream EXCEPT ![connects] =
                        Append(@, [frame |-> loop[l], whole |-> TRUE])]
        /\ Count("forwarded")
        /\ UNCHANGED buffer
     \/ /\ buffer' = Append(buffer, loop[l])
        /\ UNCHANGED <<stream, metrics>>
  /\ UNCHANGED <<calls, write, accepted, closed, connects, open, listenerVars>>

Forward_SlipReturns(l) ==               \* an error ends the writeLoop
  /\ Started(l) /\ loop[l] \in Frames
  /\ \/ /\ connects \in open
        /\ stream' = [stream EXCEPT ![connects] =
                        Append(@, [frame |-> loop[l], whole |-> TRUE])]
        /\ Count("forwarded")
        /\ loop' = [loop EXCEPT ![l] = NoFrame]
     \/ /\ Count("ipc_write")
        /\ loop' = [loop EXCEPT ![l] = Ended]
        /\ UNCHANGED stream
  /\ UNCHANGED <<writerVars, closed, connects, open, listenerVars>>

Forward(l) ==
  /\ Started(l) /\ loop[l] \in Frames
  /\ loop' = [loop EXCEPT ![l] = NoFrame]
  /\ \/ /\ connects \in open
        /\ stream' = [stream EXCEPT ![connects] =
                        Append(@, [frame |-> loop[l], whole |-> TRUE])]
        /\ Count("forwarded")
     \/ /\ connects \in open
        /\ stream' = [stream EXCEPT ![connects] =
                        Append(@, [frame |-> loop[l], whole |-> FALSE])]
        /\ Count("ipc_write")
     \/ /\ Count("ipc_write")
        /\ UNCHANGED stream
  /\ UNCHANGED <<writerVars, closed, connects, open, listenerVars>>

(* ... or sees done, which select may prefer to a frame that is there.     *)
EndLoop(l) ==
  /\ Started(l) /\ loop[l] = NoFrame
  /\ closed
  /\ loop' = [loop EXCEPT ![l] = Ended]
  /\ UNCHANGED <<writerVars, closed, connects, open, metrics, stream, listenerVars>>

Close ==
  /\ ~closed
  /\ closed' = TRUE
  /\ open' = open \ {connects}
  /\ UNCHANGED <<writerVars, connects, loop, metrics, stream, listenerVars>>

-----------------------------------------------------------------------------
(* accept_loop: the oldest connection not yet served.                      *)
Accept(k) ==
  /\ serving = 0
  /\ Started(k) /\ k \notin { j \in Loops : stream[j] = <<>> /\ j \notin open }
  /\ \A j \in 1 .. k - 1 : stream[j] = <<>> /\ j \notin open
  /\ serving' = k
  /\ garbled' = FALSE
  /\ UNCHANGED <<writerVars, closed, connects, open, loop, metrics, stream, received>>

(* handle_connection: one frame, or the bytes that are taken for one.  The *)
(* bytes taken for the rest of a frame, or for a frame of the length they  *)
(* seem to say, may happen to end where a frame does.                      *)
ReadFrame(k) ==
  /\ serving = k
  /\ stream[k] # <<>>
  /\ \/ /\ ~garbled /\ Head(stream[k]).whole
        /\ received' = Append(received, Head(stream[k]).frame)
        /\ UNCHANGED garbled
     \/ /\ ~garbled /\ ~Head(stream[k]).whole /\ Len(stream[k]) > 1
        /\ garbled' = TRUE
        /\ received' \in {received, Append(received, Garbage)}
     \/ /\ garbled
        /\ garbled' \in BOOLEAN
        /\ received' \in {received, Append(received, Garbage)}
  /\ stream' = [stream EXCEPT ![k] = Tail(@)]
  /\ UNCHANGED <<writerVars, closed, connects, open, loop, metrics, serving>>

(* The connection ends: closed by the writer and read to its end, or       *)
(* silent for READ_TIMEOUT_SECS where a header is due.  A payload is read  *)
(* without a timeout, so that the listener may also stay where the rest of *)
(* a frame never comes: nothing makes it take this step.                   *)
EndConnection(k) ==
  /\ serving = k
  /\ Len(stream[k]) <= 1
  /\ \A i \in DOMAIN stream[k] : ~stream[k][i].whole
  /\ serving' = 0
  /\ open' = open \ {k}
  /\ stream' = [stream EXCEPT ![k] = <<>>]
  /\ UNCHANGED <<writerVars, closed, connects, loop, metrics, garbled, received>>

-----------------------------------------------------------------------------
Init ==
  /\ calls = 0
  /\ write = [c \in Callers |-> [pc |-> "idle", frame |-> NoFrame]]
  /\ accepted = <<>>
  /\ buffer = <<>>
  /\ closed = FALSE
  /\ connects = 0
  /\ open = {}
  /\ loop = [l \in Loops |-> NoFrame]
  /\ metrics = [counter \in Counter |-> 0]
  /\ stream = [k \in Loops |-> <<>>]
  /\ serving = 0
  /\ garbled = FALSE
  /\ received = <<>>

Loop(l) == Take(l) \/ Forward(l) \/ EndLoop(l)

Listener(k) == Accept(k) \/ ReadFrame(k) \/ EndConnection(k)

Next ==
  \/ \E c \in Callers : BeginWrite(c) \/ Try(c) \/ Evict(c) \/ Retry(c)
  \/ Connect
  \/ \E l \in Loops : Loop(l) \/ Listener(l)
  \/ Close

Spec == Init /\ [][Next]_vars

(* Goroutines that can move do, and a socket write returns within its      *)
(* deadline, whether the listener reads or not.                            *)
FairSpec == Spec /\ \A l \in Loops : WF_vars(Loop(l))

-----------------------------------------------------------------------------
(* The types of the variables and the bound of the buffer.                 *)
TypeOK ==
  /\ calls \in 0 .. MaxFrames
  /\ write \in [Callers -> [pc : {"idle", "try", "evict", "retry"},
                            frame : Frames \cup {NoFrame}]]
  /\ Range(accepted) \subseteq Frames
  /\ Range(buffer) \subseteq Frames /\ Len(buffer) <= Capacity
  /\ closed \in BOOLEAN /\ garbled \in BOOLEAN
  /\ connects \in 0 .. MaxConnects /\ open \subseteq 1 .. connects
  /\ loop \in [Loops -> Frames \cup {NoFrame, Ended}]
  /\ metrics \in [Counter -> 0 .. MaxFrames]
  /\ serving \in 0 .. connects
  /\ Range(received) \subseteq Frames \cup {Garbage}

(* Every frame is accounted for, whatever callers, loops, reconnections    *)
(* and Close do at the same time: accepted frames wait, are in a loop's    *)
(* hands or are in one of the counters, and the refused ones are counted.  *)
FramesAccounted ==
  /\ Len(accepted) =
       Len(buffer) + Cardinality({ l \in Loops : loop[l] \in Frames })
         + metrics["backpressure"] + metrics["ipc_write"] + metrics["forwarded"]
  /\ calls = Len(accepted) + metrics["backpressure_overflow"]
       + Cardinality({ c \in Callers : write[c].pc # "idle" })

(* Written(f): the bytes of a frame, and what they should be read as.      *)
(* Write serializes the payload itself, WriteRaw is given a traced frame.  *)
Written(f) ==
  IF Content[f].via = "Write" THEN SerializeFrame(Content[f].payload)
  ELSE SerializeFrameTraced(Content[f].payload, Content[f].trace)

Meant(f) ==
  [payload |-> Content[f].payload,
   trace |-> IF Content[f].via = "Write" \/ Content[f].trace = <<>> THEN <<>>
             ELSE <<[tag |-> Truncated(Content[f].trace[1].tag),
                     timestamp |-> Content[f].trace[1].timestamp]>>]

Position(frame) == CHOOSE i \in DOMAIN accepted : accepted[i] = frame

(* The engine is given no frame twice, however often the writer connected, *)
(* and reads in each frame given to WriteRaw the payload and the trace     *)
(* that were put into it.  On the first connection it is also given the    *)
(* frames in the order in which they were accepted; once Connect succeeded *)
(* twice, two write loops may overtake each other.                         *)
ReceivedAsWritten ==
  \A i, j \in { k \in DOMAIN received : received[k] # Garbage } :
    /\ i < j =>
         /\ received[i] # received[j]
         /\ connects = 1 => Position(received[i]) < Position(received[j])
    /\ Content[received[i]].via = "WriteRaw" =>
         parse_frame(Written(received[i])) = Meant(received[i])

(* What the protocol's amendment says, "Backward-compatible: frames        *)
(* WITHOUT trace header still valid": a frame of Write is read as well.    *)
LegacyStillValid ==
  \A i \in DOMAIN received :
    (received[i] # Garbage /\ Content[received[i]].via = "Write") =>
      parse_frame(Written(received[i])) = Meant(received[i])

(* No accepted frame is left behind while the writer is open: once it has  *)
(* connected, whatever happens to its connections, the buffer moves on.    *)
BufferMovesOn ==
  \A f \in Frames :
    (f \in Range(buffer) /\ connects > 0) ~> (f \notin Range(buffer) \/ closed)

(* What the protocol says of frames, "must_match_length_header": the       *)
(* engine never takes the bytes of one frame for those of another.         *)
FramesIntact == Garbage \notin Range(received)

(* What the protocol says of drops, "silent_drop: FORBIDDEN": no frame is  *)
(* left in a buffer that nobody will read any more.                        *)
NoSilentDrop ==
  buffer # <<>> => ~closed \/ \E l \in 1 .. connects : loop[l] # Ended

=============================================================================
