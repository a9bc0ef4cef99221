----------------------------- MODULE FrameFormat -----------------------------
(***************************************************************************)
(* The frame layout of ipc-binary-v1, as the Go side writes it             *)
(* (services/ingestion/internal/ipc/frame.go) and as the Rust side reads   *)
(* it (core_engine/market_data/src/ipc_parser.rs).                         *)
(*                                                                         *)
(* A frame is the sequence of bytes after its length header; reading as    *)
(* many bytes as the header says is the listener's part.  A trace id is    *)
(* <<>> when it is empty or parseTraceID finds it malformed, else the      *)
(* exchange's tag and the bytes of its timestamp.  The tags Go writes are  *)
(* ASCII; what Rust takes for a tag may be any bytes.                      *)
(***************************************************************************)
EXTENDS Integers, Sequences

TimestampBytes == 8
MaxExchangeTag == 32
Byte == 0 .. 255
Ascii == 0 .. 127

(* What a trace id that is present holds; a timestamp has eight bytes.     *)
IsTrace(trace) ==
  \/ trace = <<>>
  \/ /\ Len(trace) = 1
     /\ trace[1].tag \in Seq(Ascii)
     /\ trace[1].timestamp \in Seq(Byte) /\ Len(trace[1].timestamp) = TimestampBytes

Truncated(tag) ==
  SubSeq(tag, 1, IF Len(tag) > MaxExchangeTag THEN MaxExchangeTag ELSE Len(tag))

(* The legacy frame has no flags byte.                                     *)
SerializeFrame(payload) == payload

SerializeFrameTraced(payload, trace) ==
  IF trace = <<>> THEN <<0>> \o payload
  ELSE LET tag == Truncated(trace[1].tag)
       IN  <<1>> \o trace[1].timestamp \o <<Len(tag)>> \o tag \o payload

ParseError == [error |-> "IpcParseError"]

(* str::from_utf8: how many bytes the character has that a byte begins, 0  *)
(* where it begins none, and which bytes may follow.                       *)
Width(b) == CASE b \in Ascii -> 1 [] b \in 194 .. 223 -> 2 [] b \in 224 .. 239 -> 3
              [] b \in 240 .. 244 -> 4 [] OTHER -> 0

Continues(b) == b \in 128 .. 191

Second(b) == CASE b = 224 -> 160 .. 191 [] b = 237 -> 128 .. 159
               [] b = 240 -> 144 .. 191 [] b = 244 -> 128 .. 143 [] OTHER -> 128 .. 191

IsUtf8(bytes) ==
  \A i \in DOMAIN bytes :
    IF Continues(bytes[i])
    THEN \E d \in 1 .. 3 : i > d /\ Width(bytes[i - d]) > d
    ELSE LET w == Width(bytes[i])
         IN  /\ w > 0 /\ i + w - 1 <= Len(bytes)
             /\ w > 1 => bytes[i + 1] \in Second(bytes[i])
             /\ \A d \in 1 .. w - 1 : Continues(bytes[i + d])

(* The first byte is taken for the flags byte of every frame; its lowest   *)
(* bit says whether trace fields follow.                                   *)
TagLengthAt == 1 + TimestampBytes + 1

parse_frame(frame) ==
  CASE frame = <<>> -> ParseError
    [] frame # <<>> /\ frame[1] % 2 = 0 -> [payload |-> Tail(frame), trace |-> <<>>]
    [] OTHER ->
         IF Len(frame) < TagLengthAt THEN ParseError
         ELSE LET tag_len == frame[TagLengthAt]
                  tag == SubSeq(frame, TagLengthAt + 1, TagLengthAt + tag_len)
              IN  IF \/ tag_len > MaxExchangeTag \/ Len(frame) < TagLengthAt + tag_len
                     \/ ~IsUtf8(tag)
                  THEN ParseError
                  ELSE [payload |-> SubSeq(frame, TagLengthAt + tag_len + 1, Len(frame)),
                        trace |-> <<[tag |-> tag,
                                     timestamp |-> SubSeq(frame, 2, TagLengthAt - 1)]>>]

=============================================================================
