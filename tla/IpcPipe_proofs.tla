---------------------------- MODULE IpcPipe_proofs ----------------------------
(***************************************************************************)
(* Proofs about the path of a frame from the ingestion service to the      *)
(* engine, for any callers, capacity, frames and number of connections:    *)
(* the frame format, the accounts of the writer, and what the engine is    *)
(* given.                                                                  *)
(***************************************************************************)
EXTENDS IpcPipe, SequenceTheorems, FiniteSetTheorems, TLAPS

-----------------------------------------------------------------------------
(* The frame format.                                                       *)

(* The elements of s followed by t.                                        *)
LEMMA Joined ==
  ASSUME NEW S, NEW s \in Seq(S), NEW t \in Seq(S)
  PROVE  /\ s \o t \in Seq(S) /\ Len(s \o t) = Len(s) + Len(t)
         /\ \A i \in 1 .. Len(s) : (s \o t)[i] = s[i]
         /\ \A i \in 1 .. Len(t) : (s \o t)[i + Len(s)] = t[i]
  <1>1. Len(s) \in Nat /\ Len(t) \in Nat
    BY LenProperties
  <1>2. /\ s \o t \in Seq(S) /\ Len(s \o t) = Len(s) + Len(t)
        /\ \A i \in 1 .. Len(s) + Len(t) :
             (s \o t)[i] = IF i <= Len(s) THEN s[i] ELSE t[i - Len(s)]
    BY ConcatProperties
  <1>3. ASSUME NEW i \in 1 .. Len(s)
        PROVE  (s \o t)[i] = s[i]
    BY <1>1, <1>2
  <1>4. ASSUME NEW i \in 1 .. Len(t)
        PROVE  (s \o t)[i + Len(s)] = t[i]
    <2>1. /\ i + Len(s) \in 1 .. Len(s) + Len(t) /\ ~(i + Len(s) <= Len(s))
          /\ i + Len(s) - Len(s) = i
      BY <1>1
    <2>2. QED
      BY <1>2, <2>1
  <1>5. QED
    BY <1>2, <1>3, <1>4

(* Where the parts of a frame are.                                         *)
HasParts(S, f, a, b, d, e, g) ==
  /\ f \in Seq(S) /\ Len(f) = Len(a) + Len(b) + Len(d) + Len(e) + Len(g)
  /\ \A i \in 1 .. Len(a) : f[i] = a[i]
  /\ \A i \in 1 .. Len(b) : f[i + Len(a)] = b[i]
  /\ \A i \in 1 .. Len(d) : f[i + (Len(a) + Len(b))] = d[i]
  /\ \A i \in 1 .. Len(e) : f[i + (Len(a) + Len(b) + Len(d))] = e[i]
  /\ \A i \in 1 .. Len(g) : f[i + (Len(a) + Len(b) + Len(d) + Len(e))] = g[i]

LEMMA PartsOfFrame ==
  ASSUME NEW S, NEW a \in Seq(S), NEW b \in Seq(S), NEW d \in Seq(S), NEW e \in Seq(S),
         NEW g \in Seq(S), NEW f, f = a \o b \o d \o e \o g
  PROVE  HasParts(S, f, a, b, d, e, g)
  <1>. DEFINE u == a \o b
              v == u \o d
              w == v \o e
  <1>1. /\ Len(a) \in Nat /\ Len(b) \in Nat /\ Len(d) \in Nat /\ Len(e) \in Nat
        /\ Len(g) \in Nat
    BY LenProperties
  <1>2. /\ u \in Seq(S) /\ Len(u) = Len(a) + Len(b)
        /\ \A i \in 1 .. Len(a) : u[i] = a[i]
        /\ \A i \in 1 .. Len(b) : u[i + Len(a)] = b[i]
    BY Joined
  <1>. HIDE DEF u
  <1>3. /\ v \in Seq(S) /\ Len(v) = Len(u) + Len(d)
        /\ \A i \in 1 .. Len(u) : v[i] = u[i]
        /\ \A i \in 1 .. Len(d) : v[i + Len(u)] = d[i]
    <2>1. u \in Seq(S)
      BY <1>2
    <2>2. QED
      BY <2>1, Joined
  <1>. HIDE DEF v
  <1>4. /\ w \in Seq(S) /\ Len(w) = Len(v) + Len(e)
        /\ \A i \in 1 .. Len(v) : w[i] = v[i]
        /\ \A i \in 1 .. Len(e) : w[i + Len(v)] = e[i]
    <2>1. v \in Seq(S)
      BY <1>3
    <2>2. QED
      BY <2>1, Joined
  <1>. HIDE DEF w
  <1>5. f = w \o g
    BY DEF u, v, w
  <1>6. /\ f \in Seq(S) /\ Len(f) = Len(w) + Len(g)
        /\ \A i \in 1 .. Len(w) : f[i] = w[i]
        /\ \A i \in 1 .. Len(g) : f[i + Len(w)] = g[i]
    <2>1. w \in Seq(S)
      BY <1>4
    <2>2. QED
      BY <2>1, Joined, <1>5
  <1>7. Len(u) \in Nat /\ Len(v) \in Nat /\ Len(w) \in Nat
    BY <1>1, <1>2, <1>3, <1>4
  <1>8. \A i \in 1 .. Len(u) : f[i] = u[i]
    <2>1. ASSUME NEW i \in 1 .. Len(u) PROVE f[i] = u[i]
      <3>1. i \in 1 .. Len(v) /\ i \in 1 .. Len(w)
        BY <1>1, <1>3, <1>4, <1>7
      <3>2. f[i] = w[i] /\ w[i] = v[i] /\ v[i] = u[i]
        BY <1>3, <1>4, <1>6, <3>1
      <3>3. QED
        BY <3>2
    <2>2. QED
      BY <2>1
  <1>9. \A i \in 1 .. Len(a) : f[i] = a[i]
    <2>1. ASSUME NEW i \in 1 .. Len(a) PROVE f[i] = a[i]
      <3>1. i \in 1 .. Len(u)
        BY <1>1, <1>2
      <3>2. QED
        BY <1>2, <1>8, <3>1
    <2>2. QED
      BY <2>1
  <1>10. \A i \in 1 .. Len(b) : f[i + Len(a)] = b[i]
    <2>1. ASSUME NEW i \in 1 .. Len(b) PROVE f[i + Len(a)] = b[i]
      <3>1. i + Len(a) \in 1 .. Len(u)
        BY <1>1, <1>2
      <3>2. QED
        BY <1>2, <1>8, <3>1
    <2>2. QED
      BY <2>1
  <1>11. \A i \in 1 .. Len(d) : f[i + Len(u)] = d[i]
    <2>1. ASSUME NEW i \in 1 .. Len(d) PROVE f[i + Len(u)] = d[i]
      <3>1. i + Len(u) \in 1 .. Len(v) /\ i + Len(u) \in 1 .. Len(w)
        BY <1>1, <1>3, <1>4, <1>7
      <3>2. QED
        BY <1>3, <1>4, <1>6, <3>1
    <2>2. QED
      BY <2>1
  <1>12. \A i \in 1 .. Len(e) : f[i + Len(v)] = e[i]
    <2>1. ASSUME NEW i \in 1 .. Len(e) PROVE f[i + Len(v)] = e[i]
      <3>1. i + Len(v) \in 1 .. Len(w)
        BY <1>1, <1>4, <1>7
      <3>2. QED
        BY <1>4, <1>6, <3>1
    <2>2. QED
      BY <2>1
  <1>13. /\ Len(u) = Len(a) + Len(b) /\ Len(v) = Len(a) + Len(b) + Len(d)
         /\ Len(w) = Len(a) + Len(b) + Len(d) + Len(e)
    BY <1>2, <1>3, <1>4
  <1>14. QED
    BY <1>6, <1>9, <1>10, <1>11, <1>12, <1>13 DEF HasParts

(* A part of a sequence, by its elements.                                  *)
LEMMA PartIs ==
  ASSUME NEW S, NEW s \in Seq(S), NEW t \in Seq(S), NEW k \in Nat, k + Len(t) <= Len(s),
         \A i \in 1 .. Len(t) : s[i + k] = t[i]
  PROVE  SubSeq(s, k + 1, k + Len(t)) = t
  <1>1. Len(s) \in Nat /\ Len(t) \in Nat
    BY LenProperties
  <1>. DEFINE u == SubSeq(s, k + 1, k + Len(t))
  <1>2. /\ Len(u) = Len(t) /\ u \in Seq(S)
        /\ \A i \in 1 .. Len(t) : u[i] = s[i + k]
    <2>1. PICK m \in Nat : m = k + 1
      OBVIOUS
    <2>2. PICK e \in Int : e = k + Len(t)
      BY <1>1
    <2>3. SubSeq(s, m, e) = [i \in 1 .. e - m + 1 |-> s[i + m - 1]]
      BY DEF SubSeq
    <2>4. /\ e - m + 1 = Len(t)
          /\ \A i \in 1 .. Len(t) : i + m - 1 = i + k /\ i + k \in 1 .. Len(s)
      BY <1>1, <2>1, <2>2
    <2>5. u = [i \in 1 .. Len(t) |-> s[i + k]]
      BY <2>1, <2>2, <2>3, <2>4
    <2>6. \A i \in 1 .. Len(t) : s[i + k] \in S
      BY <2>4, ElementOfSeq
    <2>. HIDE DEF u
    <2>7. u \in [1 .. Len(t) -> S]
      BY <2>5, <2>6
    <2>8. u \in Seq(S)
      BY <1>1, <2>7, SeqDef
    <2>9. Len(u) \in Nat /\ DOMAIN u = 1 .. Len(u)
      BY <2>8, LenProperties
    <2>10. Len(u) = Len(t)
      BY <1>1, <2>7, <2>9
    <2>11. QED
      BY <2>5, <2>8, <2>10
  <1>. HIDE DEF u
  <1>3. u = t
    BY <1>2, SeqEqual
  <1>4. QED
    BY <1>3 DEF u

LEMMA CutTag ==
  ASSUME NEW tag \in Seq(Ascii)
  PROVE  Truncated(tag) \in Seq(Ascii) /\ Len(Truncated(tag)) \in 0 .. MaxExchangeTag
  <1>1. Len(tag) \in Nat /\ MaxExchangeTag \in Nat
    BY LenProperties DEF MaxExchangeTag
  <1>. DEFINE n == IF Len(tag) > MaxExchangeTag THEN MaxExchangeTag ELSE Len(tag)
  <1>2. n \in Nat /\ n <= Len(tag) /\ n <= MaxExchangeTag
    BY <1>1
  <1>. HIDE DEF n
  <1>3. \A i \in 1 .. n : tag[i] \in Ascii
    <2>1. ASSUME NEW i \in 1 .. n PROVE tag[i] \in Ascii
      <3>1. i \in 1 .. Len(tag)
        BY <1>1, <1>2
      <3>2. QED
        BY <3>1, ElementOfSeq
    <2>2. QED
      BY <2>1
  <1>4. 1 \in Int /\ n \in Int
    BY <1>2
  <1>5. SubSeq(tag, 1, n) \in Seq(Ascii) /\ Len(SubSeq(tag, 1, n)) = IF 1 <= n THEN n - 1 + 1 ELSE 0
    BY <1>3, <1>4, SubSeqProperties
  <1>6. Len(SubSeq(tag, 1, n)) \in 0 .. MaxExchangeTag
    BY <1>1, <1>2, <1>5
  <1>7. QED
    BY <1>5, <1>6 DEF Truncated, n

(* An ASCII byte is a character of its own.                                *)
LEMMA AsciiByte ==
  ASSUME NEW b \in Ascii
  PROVE  b \in Byte /\ ~Continues(b) /\ Width(b) = 1
  <1>1. b \in Byte /\ ~Continues(b)
    BY DEF Ascii, Byte, Continues
  <1>2. /\ ~(b \in 194 .. 223) /\ ~(b \in 224 .. 239) /\ ~(b \in 240 .. 244)
    BY DEF Ascii
  <1>3. Width(b) = 1
    BY <1>2, Zenon DEF Width
  <1>4. QED
    BY <1>1, <1>3

(* What is ASCII is UTF-8.                                                 *)
LEMMA AsciiIsUtf8 ==
  ASSUME NEW tag \in Seq(Ascii)
  PROVE  tag \in Seq(Byte) /\ IsUtf8(tag)
  <1>1. DOMAIN tag = 1 .. Len(tag) /\ Len(tag) \in Nat
    BY LenProperties
  <1>2. ASSUME NEW i \in DOMAIN tag
        PROVE  tag[i] \in Ascii /\ ~Continues(tag[i]) /\ Width(tag[i]) = 1
    <2>1. tag[i] \in Ascii
      BY <1>1, <1>2, ElementOfSeq
    <2>2. QED
      BY <2>1, AsciiByte
  <1>3. IsUtf8(tag)
    <2>1. ASSUME NEW i \in DOMAIN tag
          PROVE  IF Continues(tag[i])
                 THEN \E d \in 1 .. 3 : i > d /\ Width(tag[i - d]) > d
                 ELSE LET w == Width(tag[i])
                      IN  /\ w > 0 /\ i + w - 1 <= Len(tag)
                          /\ w > 1 => tag[i + 1] \in Second(tag[i])
                          /\ \A d \in 1 .. w - 1 : Continues(tag[i + d])
      BY <1>1, <1>2, <2>1
    <2>2. QED
      BY <2>1 DEF IsUtf8
  <1>4. tag = [i \in 1 .. Len(tag) |-> tag[i]]
    BY LenProperties
  <1>5. tag \in [1 .. Len(tag) -> Byte]
    BY <1>1, <1>2, <1>4, AsciiByte
  <1>6. tag \in Seq(Byte)
    BY <1>1, <1>5, SeqDef
  <1>7. QED
    BY <1>3, <1>6

(* A frame without trace.                                                  *)
LEMMA UntracedIsRead ==
  ASSUME NEW payload \in Seq(Byte)
  PROVE  parse_frame(<<0>> \o payload) = [payload |-> payload, trace |-> <<>>]
  <1>. DEFINE x == <<0>>
              frame == x \o payload
  <1>1. x \in Seq(Byte) /\ Len(x) = 1 /\ x[1] = 0
    BY DEF Byte
  <1>. HIDE DEF x
  <1>2. Len(payload) \in Nat
    BY LenProperties
  <1>3. /\ frame \in Seq(Byte) /\ Len(frame) = 1 + Len(payload)
        /\ \A i \in 1 .. Len(x) : frame[i] = x[i]
        /\ \A i \in 1 .. Len(payload) : frame[i + Len(x)] = payload[i]
    <2>1. x \in Seq(Byte)
      BY <1>1
    <2>2. /\ x \o payload \in Seq(Byte) /\ Len(x \o payload) = Len(x) + Len(payload)
          /\ \A i \in 1 .. Len(x) : (x \o payload)[i] = x[i]
          /\ \A i \in 1 .. Len(payload) : (x \o payload)[i + Len(x)] = payload[i]
      BY <2>1, Joined
    <2>3. QED
      BY <1>1, <2>2
  <1>. HIDE DEF frame
  <1>4. frame[1] = 0 /\ \A i \in 1 .. Len(payload) : frame[i + 1] = payload[i]
    BY <1>1, <1>3
  <1>5. frame \in Seq(Byte) /\ frame # <<>>
    BY <1>2, <1>3, EmptySeq
  <1>6. SubSeq(frame, 1 + 1, 1 + Len(payload)) = payload
    <2>1. 1 \in Nat /\ 1 + Len(payload) <= Len(frame)
      BY <1>2, <1>3
    <2>2. QED
      BY <1>4, <1>5, <2>1, PartIs
  <1>7. Tail(frame) = payload
    <2>1. Tail(frame) = SubSeq(frame, 2, Len(frame))
      BY <1>5, TailIsSubSeq
    <2>2. QED
      BY <1>3, <1>6, <2>1
  <1>8. parse_frame(frame) = [payload |-> Tail(frame), trace |-> <<>>]
    <2>1. frame[1] % 2 = 0
      BY <1>4
    <2>2. QED
      BY <1>5, <2>1 DEF parse_frame
  <1>9. QED
    BY <1>7, <1>8 DEF frame, x

(* A frame with a trace.                                                   *)
LEMMA TracedIsRead ==
  ASSUME NEW payload \in Seq(Byte),
         NEW ts \in Seq(Byte), Len(ts) = TimestampBytes,
         NEW tag \in Seq(Byte), Len(tag) \in 0 .. MaxExchangeTag, IsUtf8(tag)
  PROVE  parse_frame(<<1>> \o ts \o <<Len(tag)>> \o tag \o payload)
           = [payload |-> payload, trace |-> <<[tag |-> tag, timestamp |-> ts]>>]
  <1>. DEFINE x == <<1>>
              y == <<Len(tag)>>
              frame == x \o ts \o y \o tag \o payload
  <1>1. x \in Seq(Byte) /\ Len(x) = 1 /\ x[1] = 1
    BY DEF Byte
  <1>2. y \in Seq(Byte) /\ Len(y) = 1 /\ y[1] = Len(tag)
    <2>1. PICK n \in Byte : n = Len(tag)
      BY DEF Byte, MaxExchangeTag
    <2>2. <<n>> \in Seq(Byte) /\ Len(<<n>>) = 1 /\ <<n>>[1] = n
      OBVIOUS
    <2>3. QED
      BY <2>1, <2>2
  <1>3. Len(payload) \in Nat /\ Len(tag) \in Nat /\ Len(ts) = 8
    BY LenProperties DEF TimestampBytes
  <1>. HIDE DEF x, y
  <1>4. /\ frame \in Seq(Byte) /\ Len(frame) = Len(x) + Len(ts) + Len(y) + Len(tag) + Len(payload)
        /\ \A i \in 1 .. Len(x) : frame[i] = x[i]
        /\ \A i \in 1 .. Len(ts) : frame[i + Len(x)] = ts[i]
        /\ \A i \in 1 .. Len(y) : frame[i + (Len(x) + Len(ts))] = y[i]
        /\ \A i \in 1 .. Len(tag) : frame[i + (Len(x) + Len(ts) + Len(y))] = tag[i]
        /\ \A i \in 1 .. Len(payload) :
             frame[i + (Len(x) + Len(ts) + Len(y) + Len(tag))] = payload[i]
    <2>1. x \in Seq(Byte)
      BY <1>1
    <2>2. y \in Seq(Byte)
      BY <1>2
    <2>3. frame = x \o ts \o y \o tag \o payload
      OBVIOUS
    <2>. HIDE DEF frame
    <2>4. HasParts(Byte, frame, x, ts, y, tag, payload)
      BY <2>1, <2>2, <2>3, PartsOfFrame
    <2>5. QED
      BY <2>4 DEF HasParts
  <1>. HIDE DEF frame
  <1>5. /\ Len(frame) = 10 + Len(tag) + Len(payload)
        /\ frame[1] = 1 /\ frame[10] = Len(tag)
        /\ \A i \in 1 .. Len(ts) : frame[i + 1] = ts[i]
        /\ \A i \in 1 .. Len(tag) : frame[i + 10] = tag[i]
        /\ \A i \in 1 .. Len(payload) : frame[i + (10 + Len(tag))] = payload[i]
    <2>1. Len(x) = 1 /\ Len(x) + Len(ts) = 9 /\ Len(x) + Len(ts) + Len(y) = 10
      BY <1>1, <1>2, <1>3
    <2>2. frame[1] = 1
      BY <1>1, <1>4
    <2>3. frame[10] = Len(tag)
      <3>1. 1 \in 1 .. Len(y) /\ 1 + (Len(x) + Len(ts)) = 10
        BY <1>2, <2>1
      <3>2. QED
        BY <1>2, <1>4, <3>1
    <2>4. QED
      BY <1>4, <2>1, <2>2, <2>3
  <1>6. frame \in Seq(Byte) /\ frame # <<>>
    BY <1>3, <1>4, <1>5, EmptySeq
  <1>7. SubSeq(frame, 1 + 1, 1 + Len(ts)) = ts
    <2>1. 1 \in Nat /\ 1 + Len(ts) <= Len(frame)
      BY <1>3, <1>5
    <2>2. QED
      BY <1>5, <1>6, <2>1, PartIs
  <1>8. SubSeq(frame, 10 + 1, 10 + Len(tag)) = tag
    <2>1. 10 \in Nat /\ 10 + Len(tag) <= Len(frame)
      BY <1>3, <1>5
    <2>2. QED
      BY <1>5, <1>6, <2>1, PartIs
  <1>9. SubSeq(frame, 10 + Len(tag) + 1, 10 + Len(tag) + Len(payload)) = payload
    <2>1. PICK k \in Nat : k = 10 + Len(tag)
      BY <1>3
    <2>2. k + Len(payload) <= Len(frame) /\ \A i \in 1 .. Len(payload) : frame[i + k] = payload[i]
      BY <1>3, <1>5, <2>1
    <2>3. SubSeq(frame, k + 1, k + Len(payload)) = payload
      BY <1>6, <2>2, PartIs
    <2>4. QED
      BY <2>1, <2>3
  <1>10. TagLengthAt = 10
    BY DEF TagLengthAt, TimestampBytes
  <1>11. parse_frame(frame) =
           [payload |-> SubSeq(frame, 10 + Len(tag) + 1, Len(frame)),
            trace |-> <<[tag |-> SubSeq(frame, 11, 10 + Len(tag)),
                         timestamp |-> SubSeq(frame, 2, 9)]>>]
    <2>1. frame[1] % 2 # 0
      BY <1>5
    <2>2. ~(Len(frame) < TagLengthAt) /\ frame[TagLengthAt] = Len(tag)
      BY <1>3, <1>5, <1>10
    <2>3. ~(Len(tag) > MaxExchangeTag) /\ ~(Len(frame) < TagLengthAt + Len(tag))
      <3>1. ~(Len(tag) > MaxExchangeTag)
        <4>1. MaxExchangeTag \in Nat
          BY DEF MaxExchangeTag
        <4>2. QED
          BY <1>3, <4>1
      <3>2. Len(frame) = 10 + Len(tag) + Len(payload)
        BY <1>5
      <3>3. QED
        BY <1>3, <1>10, <3>1, <3>2
    <2>7. IsUtf8(SubSeq(frame, TagLengthAt + 1, TagLengthAt + Len(tag)))
      BY <1>8, <1>10
    <2>4. parse_frame(frame) =
            [payload |-> SubSeq(frame, TagLengthAt + Len(tag) + 1, Len(frame)),
             trace |-> <<[tag |-> SubSeq(frame, TagLengthAt + 1, TagLengthAt + Len(tag)),
                          timestamp |-> SubSeq(frame, 2, TagLengthAt - 1)]>>]
      BY <1>6, <2>1, <2>2, <2>3, <2>7 DEF parse_frame
    <2>5. TagLengthAt + 1 = 11 /\ TagLengthAt - 1 = 9
      BY <1>10
    <2>6. QED
      BY <1>10, <2>4, <2>5
  <1>12. /\ SubSeq(frame, 10 + Len(tag) + 1, Len(frame)) = payload
         /\ SubSeq(frame, 11, 10 + Len(tag)) = tag
         /\ SubSeq(frame, 2, 9) = ts
    BY <1>3, <1>5, <1>7, <1>8, <1>9
  <1>13. QED
    BY <1>11, <1>12 DEF frame, x, y

(* FrameRoundTrip: whatever payload and trace SerializeFrameTraced puts    *)
(* into a frame, parse_frame reads them in it, the tag cut to its maximum. *)
THEOREM FrameRoundTrip ==
  ASSUME NEW payload \in Seq(Byte), NEW trace, IsTrace(trace)
  PROVE  parse_frame(SerializeFrameTraced(payload, trace)) =
           [payload |-> payload,
            trace |-> IF trace = <<>> THEN <<>>
                      ELSE <<[tag |-> Truncated(trace[1].tag),
                              timestamp |-> trace[1].timestamp]>>]
  <1>1. CASE trace = <<>>
    BY <1>1, UntracedIsRead DEF SerializeFrameTraced
  <1>2. CASE trace # <<>>
    <2>1. /\ trace[1].tag \in Seq(Ascii)
          /\ trace[1].timestamp \in Seq(Byte) /\ Len(trace[1].timestamp) = TimestampBytes
      BY <1>2 DEF IsTrace
    <2>. DEFINE tag == Truncated(trace[1].tag)
                ts == trace[1].timestamp
    <2>2. tag \in Seq(Byte) /\ Len(tag) \in 0 .. MaxExchangeTag /\ IsUtf8(tag)
      BY <2>1, CutTag, AsciiIsUtf8
    <2>3. SerializeFrameTraced(payload, trace) = <<1>> \o ts \o <<Len(tag)>> \o tag \o payload
      BY <1>2 DEF SerializeFrameTraced
    <2>4. ts \in Seq(Byte) /\ Len(ts) = TimestampBytes
      BY <2>1
    <2>. HIDE DEF tag, ts
    <2>5. parse_frame(<<1>> \o ts \o <<Len(tag)>> \o tag \o payload)
            = [payload |-> payload, trace |-> <<[tag |-> tag, timestamp |-> ts]>>]
      BY <2>2, <2>4, TracedIsRead
    <2>6. QED
      BY <1>2, <2>3, <2>5 DEF tag, ts
  <1>3. QED
    BY <1>1, <1>2

-----------------------------------------------------------------------------
(* The accounts of the writer.                                             *)
Writes == [pc : {"idle", "try", "evict", "retry"}, frame : Frames \cup {NoFrame}]
Held == Frames \cup {NoFrame, Ended}
Pieces == [frame : Frames, whole : BOOLEAN]

Kinds ==
  /\ calls \in 0 .. MaxFrames
  /\ write \in [Callers -> Writes]
  /\ accepted \in Seq(Frames)
  /\ buffer \in Seq(Frames) /\ Len(buffer) <= Capacity
  /\ connects \in 0 .. MaxConnects /\ open \subseteq 1 .. connects
  /\ loop \in [Loops -> Held]
  /\ metrics \in [Counter -> Nat]
  /\ stream \in [Loops -> Seq(Pieces)]
  /\ serving \in 0 .. connects
  /\ received \in Seq(Frames \cup {Garbage})

Flags == closed \in BOOLEAN /\ garbled \in BOOLEAN

(* A Write under way has a frame; what is not connected yet is untouched.  *)
Placed ==
  /\ \A c \in Callers : write[c].pc # "idle" => write[c].frame \in Frames
  /\ \A l \in Loops : l > connects => loop[l] = NoFrame /\ stream[l] = <<>>

Carrying == { l \in Loops : loop[l] \in Frames }
Writing == { c \in Callers : write[c].pc # "idle" }

AccountInv == Kinds /\ Flags /\ Placed /\ FramesAccounted

LEMMA NotAFrame == NoFrame \notin Frames /\ Ended \notin Frames /\ Garbage \notin Frames
  BY DEF NoFrame, Ended, Garbage, Frames

LEMMA FiniteLoops == IsFiniteSet(Loops)
  <1>1. 1 \in Int /\ MaxConnects \in Int
    BY BoundsAssumption
  <1>2. QED
    BY <1>1, FS_Interval DEF Loops

(* A set with one element more, or one less.                               *)
LEMMA OneMore ==
  ASSUME NEW S, IsFiniteSet(S), NEW P, P \subseteq S, NEW x \in S, x \notin P
  PROVE  /\ Cardinality(P) \in Nat
         /\ Cardinality(P \cup {x}) = Cardinality(P) + 1
  <1>1. IsFiniteSet(P)
    BY FS_Subset
  <1>2. QED
    BY <1>1, FS_AddElement, FS_CardinalityType

LEMMA OneLess ==
  ASSUME NEW S, IsFiniteSet(S), NEW P, P \subseteq S, NEW x \in P
  PROVE  /\ Cardinality(P) \in Nat /\ Cardinality(P \ {x}) \in Nat
         /\ Cardinality(P) = Cardinality(P \ {x}) + 1
  <1>1. IsFiniteSet(P) /\ IsFiniteSet(P \ {x})
    BY FS_Subset, P \ {x} \subseteq S
  <1>2. Cardinality(P \ {x}) = Cardinality(P) - 1
    BY <1>1, FS_RemoveElement
  <1>3. Cardinality(P) \in Nat /\ Cardinality(P \ {x}) \in Nat
    BY <1>1, FS_CardinalityType
  <1>4. QED
    BY <1>2, <1>3

LEMMA Counted ==
  /\ Cardinality(Carrying) \in Nat
  /\ Cardinality(Writing) \in Nat
  <1>1. IsFiniteSet(Carrying) /\ IsFiniteSet(Writing)
    BY FiniteLoops, CallersAssumption, FS_Subset DEF Carrying, Writing
  <1>2. QED
    BY <1>1, FS_CardinalityType

(* The accounts, with the two sets by name.                                *)
Accounts ==
  /\ Len(accepted) = Len(buffer) + Cardinality(Carrying)
       + metrics["backpressure"] + metrics["ipc_write"] + metrics["forwarded"]
  /\ calls = Len(accepted) + metrics["backpressure_overflow"] + Cardinality(Writing)

LEMMA AccountsAreAll == (Accounts <=> FramesAccounted) /\ (Accounts' => FramesAccounted')
  BY DEF Accounts, FramesAccounted, Carrying, Writing

(* A caller's Write goes on.                                               *)
LEMMA WriteMoves ==
  ASSUME write \in [Callers -> Writes], NEW c \in Callers,
         NEW pc \in {"idle", "try", "evict", "retry"},
         write' = [write EXCEPT ![c].pc = pc]
  PROVE  /\ write' \in [Callers -> Writes]
         /\ write'[c].pc = pc /\ write'[c].frame = write[c].frame
         /\ \A d \in Callers : d # c => write'[d] = write[d]
  <1>. DEFINE w == [write[c] EXCEPT !.pc = pc]
  <1>1. w \in Writes /\ w.pc = pc /\ w.frame = write[c].frame
    BY DEF Writes
  <1>2. write' = [write EXCEPT ![c] = w]
    OBVIOUS
  <1>. HIDE DEF w
  <1>3. QED
    BY <1>1, <1>2

LEMMA MetricsAre ==
  ASSUME metrics \in [Counter -> Nat]
  PROVE  /\ metrics["backpressure"] \in Nat /\ metrics["backpressure_overflow"] \in Nat
         /\ metrics["ipc_write"] \in Nat /\ metrics["forwarded"] \in Nat
  BY DEF Counter

LEMMA MetricCounts ==
  ASSUME metrics \in [Counter -> Nat], NEW counter \in Counter, Count(counter)
  PROVE  /\ metrics' \in [Counter -> Nat]
         /\ metrics'[counter] = metrics[counter] + 1
         /\ \A other \in Counter : other # counter => metrics'[other] = metrics[other]
  BY DEF Count

LEMMA BeginWriteCounts ==
  ASSUME AccountInv, NEW c \in Callers, BeginWrite(c)
  PROVE  AccountInv'
  <1>1. /\ write[c].pc = "idle" /\ calls < MaxFrames /\ calls' = calls + 1
        /\ write' = [write EXCEPT ![c] = [pc |-> "try", frame |-> calls + 1]]
        /\ UNCHANGED <<accepted, buffer, closed, connects, open, loop, metrics, stream,
                       serving, garbled, received>>
    BY DEF BeginWrite, listenerVars
  <1>2. calls + 1 \in Frames /\ calls' \in 0 .. MaxFrames /\ calls \in Nat
    BY <1>1, BoundsAssumption DEF AccountInv, Kinds, Frames
  <1>3. [pc |-> "try", frame |-> calls + 1] \in Writes
    BY <1>2 DEF Writes
  <1>4. /\ write' \in [Callers -> Writes] /\ write'[c].pc = "try" /\ write'[c].frame \in Frames
        /\ \A d \in Callers : d # c => write'[d] = write[d]
    BY <1>1, <1>2, <1>3 DEF AccountInv, Kinds
  <1>5. Kinds' /\ Flags'
    BY <1>1, <1>2, <1>4 DEF AccountInv, Kinds, Flags, Writes, Held, Pieces, Frames, Loops, Counter
  <1>6. Placed'
    BY <1>1, <1>4 DEF AccountInv, Placed, Frames, Loops
  <1>7. Accounts'
    <2>1. Carrying' = Carrying /\ c \notin Writing /\ Writing' = Writing \cup {c}
      BY <1>1, <1>4 DEF Carrying, Writing, Frames, Loops
    <2>2. Writing \subseteq Callers
      BY DEF Writing
    <2>3. Cardinality(Writing') = Cardinality(Writing) + 1
      BY <2>1, <2>2, CallersAssumption, OneMore
    <2>4. Accounts /\ Len(accepted) \in Nat
      BY AccountsAreAll, LenProperties DEF AccountInv, Kinds
    <2>5. metrics["backpressure_overflow"] \in Nat
      BY MetricsAre DEF AccountInv, Kinds
    <2>6. QED
      BY <1>1, <1>2, <2>1, <2>3, <2>4, <2>5, Counted DEF Accounts
  <1>8. QED
    BY <1>5, <1>6, <1>7, AccountsAreAll DEF AccountInv

(* The numbers of the accounts.                                            *)
LEMMA Numbers ==
  ASSUME AccountInv
  PROVE  /\ Accounts
         /\ Len(accepted) \in Nat /\ Len(buffer) \in Nat /\ calls \in Nat
         /\ Cardinality(Carrying) \in Nat /\ Cardinality(Writing) \in Nat
         /\ metrics["backpressure"] \in Nat /\ metrics["backpressure_overflow"] \in Nat
         /\ metrics["ipc_write"] \in Nat /\ metrics["forwarded"] \in Nat
  <1>1. Accounts
    BY AccountsAreAll DEF AccountInv
  <1>2. Len(accepted) \in Nat /\ Len(buffer) \in Nat /\ calls \in Nat
    BY LenProperties DEF AccountInv, Kinds
  <1>3. QED
    BY <1>1, <1>2, Counted, MetricsAre DEF AccountInv, Kinds

LEMMA NothingAdded ==
  ASSUME AccountInv
  PROVE  /\ Len(accepted) = Len(accepted) + 0 /\ Len(buffer) = Len(buffer) + 0
         /\ calls = calls + 0
         /\ Cardinality(Carrying) = Cardinality(Carrying) + 0
         /\ Cardinality(Writing) = Cardinality(Writing) + 0
         /\ metrics["backpressure"] = metrics["backpressure"] + 0
         /\ metrics["backpressure_overflow"] = metrics["backpressure_overflow"] + 0
         /\ metrics["ipc_write"] = metrics["ipc_write"] + 0
         /\ metrics["forwarded"] = metrics["forwarded"] + 0
  <1>1. \A n \in Nat : n = n + 0
    OBVIOUS
  <1>2. QED
    BY <1>1, Numbers

(* By how much every term of the accounts changes.                         *)
Changes(da, db, dk, dp, di, dw, dn, do, dg) ==
  /\ Len(accepted') = Len(accepted) + da
  /\ Len(buffer') = Len(buffer) + db
  /\ Cardinality(Carrying') = Cardinality(Carrying) + dk
  /\ metrics'["backpressure"] = metrics["backpressure"] + dp
  /\ metrics'["ipc_write"] = metrics["ipc_write"] + di
  /\ metrics'["forwarded"] = metrics["forwarded"] + dw
  /\ calls' = calls + dn
  /\ metrics'["backpressure_overflow"] = metrics["backpressure_overflow"] + do
  /\ Cardinality(Writing') = Cardinality(Writing) + dg

(* What enters one of the terms leaves another, or is one frame more on    *)
(* both sides.                                                             *)
Even(da, db, dk, dp, di, dw, dn, do, dg) ==
  /\ da \in Nat /\ dp \in Nat /\ di \in Nat /\ dw \in Nat /\ dn \in Nat /\ do \in Nat
  /\ db \in Int /\ dk \in Int /\ dg \in Int
  /\ da = db + dk + dp + di + dw
  /\ dn = da + do + dg

(* How the accounts stay balanced.                                         *)
LEMMA Balances ==
  ASSUME AccountInv,
         NEW da, NEW db, NEW dk, NEW dp, NEW di, NEW dw, NEW dn, NEW do, NEW dg,
         Changes(da, db, dk, dp, di, dw, dn, do, dg),
         Even(da, db, dk, dp, di, dw, dn, do, dg)
  PROVE  Accounts'
  <1>1. PICK a \in Nat, b \in Nat, k \in Nat, p \in Nat, i \in Nat, w \in Nat :
          /\ a = Len(accepted) /\ b = Len(buffer) /\ k = Cardinality(Carrying)
          /\ p = metrics["backpressure"] /\ i = metrics["ipc_write"]
          /\ w = metrics["forwarded"]
    BY Numbers
  <1>2. PICK n \in Nat, o \in Nat, g \in Nat :
          n = calls /\ o = metrics["backpressure_overflow"] /\ g = Cardinality(Writing)
    BY Numbers
  <1>3. a = b + k + p + i + w
    BY <1>1, Numbers DEF Accounts
  <1>4. n = a + o + g
    BY <1>1, <1>2, Numbers DEF Accounts
  <1>5. /\ Len(accepted') = a + da /\ Len(buffer') = b + db
        /\ Cardinality(Carrying') = k + dk
        /\ metrics'["backpressure"] = p + dp /\ metrics'["ipc_write"] = i + di
        /\ metrics'["forwarded"] = w + dw
    BY <1>1 DEF Changes
  <1>6. /\ calls' = n + dn /\ metrics'["backpressure_overflow"] = o + do
        /\ Cardinality(Writing') = g + dg
    BY <1>2 DEF Changes
  <1>7. a + da = (b + db) + (k + dk) + (p + dp) + (i + di) + (w + dw)
    BY <1>3 DEF Even
  <1>8. n + dn = (a + da) + (o + do) + (g + dg)
    BY <1>4 DEF Even
  <1>9. QED
    BY <1>5, <1>6, <1>7, <1>8 DEF Accounts

(* A caller's Write ends, and nobody else's place changes.                 *)
LEMMA WriterLeaves ==
  ASSUME AccountInv, NEW c \in Callers, write[c].pc # "idle", write'[c].pc = "idle",
         \A d \in Callers : d # c => write'[d] = write[d]
  PROVE  Cardinality(Writing) = Cardinality(Writing') + 1 /\ Cardinality(Writing') \in Nat
  <1>1. c \in Writing /\ Writing' = Writing \ {c} /\ Writing \subseteq Callers
    BY DEF Writing
  <1>2. QED
    BY <1>1, CallersAssumption, OneLess

LEMMA WriterStays ==
  ASSUME NEW c \in Callers, write[c].pc # "idle", write'[c].pc # "idle",
         \A d \in Callers : d # c => write'[d] = write[d]
  PROVE  Writing' = Writing
  BY DEF Writing

(* Enqueue: the frame is accepted and waits.                               *)
LEMMA EnqueueCounts ==
  ASSUME AccountInv, NEW c \in Callers, write[c].pc # "idle",
         Len(buffer) < Capacity, Enqueue(c),
         UNCHANGED <<calls, closed, connects, open, loop, metrics, stream, listenerVars>>
  PROVE  AccountInv'
  <1>1. /\ buffer' = Append(buffer, write[c].frame) /\ accepted' = Append(accepted, write[c].frame)
        /\ UNCHANGED <<calls, closed, connects, open, loop, metrics, stream, serving,
                       garbled, received>>
    BY DEF Enqueue, listenerVars
  <1>2. write' = [write EXCEPT ![c].pc = "idle"] /\ write \in [Callers -> Writes]
    BY DEF Enqueue, AccountInv, Kinds
  <1>3. /\ write' \in [Callers -> Writes] /\ write'[c].pc = "idle"
        /\ \A d \in Callers : d # c => write'[d] = write[d]
    BY <1>2, WriteMoves
  <1>4. PICK f \in Frames : f = write[c].frame
    BY DEF AccountInv, Placed
  <1>5. /\ buffer' \in Seq(Frames) /\ Len(buffer') = Len(buffer) + 1
        /\ accepted' \in Seq(Frames) /\ Len(accepted') = Len(accepted) + 1
    <2>1. buffer \in Seq(Frames)
      BY DEF AccountInv, Kinds
    <2>2. accepted \in Seq(Frames)
      BY DEF AccountInv, Kinds
    <2>3. Append(buffer, f) \in Seq(Frames) /\ Len(Append(buffer, f)) = Len(buffer) + 1
      BY <2>1, AppendProperties
    <2>4. Append(accepted, f) \in Seq(Frames) /\ Len(Append(accepted, f)) = Len(accepted) + 1
      BY <2>2, AppendProperties
    <2>5. QED
      BY <1>1, <1>4, <2>3, <2>4
  <1>6. Len(buffer') <= Capacity
    BY <1>5, CapacityAssumption, Numbers
  <1>7. Kinds' /\ Flags'
    BY <1>1, <1>3, <1>5, <1>6 DEF AccountInv, Kinds, Flags, Writes, Held, Pieces, Frames, Loops, Counter
  <1>8. Placed'
    BY <1>1, <1>3 DEF AccountInv, Placed, Frames, Loops
  <1>9. Accounts'
    <2>1. Carrying' = Carrying
      BY <1>1 DEF Carrying, Frames, Loops
    <2>2. Cardinality(Writing) = Cardinality(Writing') + 1 /\ Cardinality(Writing') \in Nat
      BY <1>3, WriterLeaves
    <2>3. /\ Len(accepted') = Len(accepted) + 1 /\ Len(buffer') = Len(buffer) + 1
          /\ calls' = calls /\ metrics' = metrics
      BY <1>1, <1>5
    <2>4. Cardinality(Writing') = Cardinality(Writing) + (-1)
      BY <2>2, Numbers
    <2>. DEFINE less == -1
    <2>5. Even(1, 1, 0, 0, 0, 0, 0, 0, less)
      BY DEF Even
    <2>6. Changes(1, 1, 0, 0, 0, 0, 0, 0, less)
      BY <2>1, <2>3, <2>4, NothingAdded DEF Changes
    <2>. HIDE DEF less
    <2>7. QED
      BY <2>5, <2>6, Balances
  <1>10. QED
    BY <1>7, <1>8, <1>9, AccountsAreAll DEF AccountInv

LEMMA TryCounts ==
  ASSUME AccountInv, NEW c \in Callers, Try(c)
  PROVE  AccountInv'
  <1>1. CASE Len(buffer) < Capacity /\ Enqueue(c)
    BY <1>1, EnqueueCounts DEF Try
  <1>2. CASE ~(Len(buffer) < Capacity /\ Enqueue(c))
    <2>1. /\ write[c].pc = "try" /\ write' = [write EXCEPT ![c].pc = "evict"]
          /\ UNCHANGED <<buffer, accepted, calls, closed, connects, open, loop, metrics,
                         stream, serving, garbled, received>>
      BY <1>2 DEF Try, listenerVars
    <2>2. /\ write' \in [Callers -> Writes] /\ write'[c].pc = "evict"
          /\ write'[c].frame = write[c].frame
          /\ \A d \in Callers : d # c => write'[d] = write[d]
      BY <2>1, WriteMoves DEF AccountInv, Kinds
    <2>3. Kinds' /\ Flags'
      BY <2>1, <2>2 DEF AccountInv, Kinds, Flags, Writes, Held, Pieces, Frames, Loops, Counter
    <2>4. Placed'
      BY <2>1, <2>2 DEF AccountInv, Placed, Frames, Loops
    <2>5. Accounts'
      <3>1. Carrying' = Carrying
        BY <2>1 DEF Carrying, Frames, Loops
      <3>2. Writing' = Writing
        BY <2>1, <2>2, WriterStays
      <3>3. QED
        BY <2>1, <3>1, <3>2, Numbers DEF Accounts
    <2>6. QED
      BY <2>3, <2>4, <2>5, AccountsAreAll DEF AccountInv
  <1>3. QED
    BY <1>1, <1>2

LEMMA EvictCounts ==
  ASSUME AccountInv, NEW c \in Callers, Evict(c)
  PROVE  AccountInv'
  <1>1. /\ write[c].pc = "evict" /\ write' = [write EXCEPT ![c].pc = "retry"]
        /\ UNCHANGED <<accepted, calls, closed, connects, open, loop, stream, serving,
                       garbled, received>>
    BY DEF Evict, listenerVars
  <1>2. /\ write' \in [Callers -> Writes] /\ write'[c].pc = "retry"
        /\ write'[c].frame = write[c].frame
        /\ \A d \in Callers : d # c => write'[d] = write[d]
    BY <1>1, WriteMoves DEF AccountInv, Kinds
  <1>3. /\ buffer' \in Seq(Frames) /\ Len(buffer') \in Nat /\ Len(buffer') <= Len(buffer)
        /\ metrics' \in [Counter -> Nat]
        /\ \A other \in Counter : other # "backpressure" => metrics'[other] = metrics[other]
        /\ \E n \in {0, 1} : /\ Len(buffer') = Len(buffer) - n
                            /\ metrics'["backpressure"] = metrics["backpressure"] + n
    <2>1. buffer \in Seq(Frames)
      BY DEF AccountInv, Kinds
    <2>2. CASE buffer # <<>>
      <3>1. buffer' = Tail(buffer) /\ Count("backpressure")
        BY <2>2 DEF Evict
      <3>2. Tail(buffer) \in Seq(Frames) /\ Len(Tail(buffer)) = Len(buffer) - 1
        BY <2>1, <2>2, HeadTailProperties
      <3>3. Len(Tail(buffer)) \in Nat
        BY <3>2, LenProperties
      <3>4. "backpressure" \in Counter /\ metrics \in [Counter -> Nat]
        BY DEF Counter, AccountInv, Kinds
      <3>5. /\ metrics' \in [Counter -> Nat]
            /\ metrics'["backpressure"] = metrics["backpressure"] + 1
            /\ \A other \in Counter : other # "backpressure" => metrics'[other] = metrics[other]
        BY <3>1, <3>4, MetricCounts
      <3>6. Len(buffer') \in Nat /\ Len(buffer') <= Len(buffer) /\ Len(buffer') = Len(buffer) - 1
        BY <3>1, <3>2, <3>3, Numbers
      <3>7. QED
        BY <3>1, <3>2, <3>5, <3>6
    <2>3. CASE buffer = <<>>
      <3>1. buffer' = buffer /\ metrics' = metrics /\ metrics \in [Counter -> Nat]
        BY <2>3 DEF Evict, AccountInv, Kinds
      <3>2. /\ Len(buffer') = Len(buffer) - 0 /\ Len(buffer') \in Nat /\ Len(buffer') <= Len(buffer)
            /\ metrics'["backpressure"] = metrics["backpressure"] + 0
        BY <3>1, Numbers
      <3>3. QED
        BY <2>1, <3>1, <3>2
    <2>4. QED
      BY <2>2, <2>3
  <1>4. Len(buffer') <= Capacity
    BY <1>3, CapacityAssumption, Numbers DEF AccountInv, Kinds
  <1>5. Kinds' /\ Flags'
    BY <1>1, <1>2, <1>3, <1>4 DEF AccountInv, Kinds, Flags, Writes, Held, Pieces, Frames, Loops, Counter
  <1>6. Placed'
    BY <1>1, <1>2 DEF AccountInv, Placed, Frames, Loops
  <1>7. Accounts'
    <2>1. Carrying' = Carrying
      BY <1>1 DEF Carrying, Frames, Loops
    <2>2. Writing' = Writing
      BY <1>1, <1>2, WriterStays
    <2>3. /\ metrics'["ipc_write"] = metrics["ipc_write"]
          /\ metrics'["forwarded"] = metrics["forwarded"]
          /\ metrics'["backpressure_overflow"] = metrics["backpressure_overflow"]
      BY <1>3 DEF Counter
    <2>4. PICK n \in {0, 1} : /\ Len(buffer') = Len(buffer) - n
                             /\ metrics'["backpressure"] = metrics["backpressure"] + n
      BY <1>3
    <2>5. CASE n = 0
      <3>1. Len(buffer') = Len(buffer) /\ metrics'["backpressure"] = metrics["backpressure"]
        BY <2>4, <2>5, Numbers
      <3>2. Changes(0, 0, 0, 0, 0, 0, 0, 0, 0)
        BY <1>1, <2>1, <2>2, <2>3, <3>1, NothingAdded DEF Changes
      <3>3. Even(0, 0, 0, 0, 0, 0, 0, 0, 0)
        BY DEF Even
      <3>4. QED
        BY <3>2, <3>3, Balances
    <2>6. CASE n = 1
      <3>1. /\ Len(buffer') = Len(buffer) + (-1)
            /\ metrics'["backpressure"] = metrics["backpressure"] + 1
        BY <2>4, <2>6, Numbers
      <3>2. Changes(0, -1, 0, 1, 0, 0, 0, 0, 0)
        BY <1>1, <2>1, <2>2, <2>3, <3>1, NothingAdded DEF Changes
      <3>3. Even(0, -1, 0, 1, 0, 0, 0, 0, 0)
        BY DEF Even
      <3>4. QED
        BY <3>2, <3>3, Balances
    <2>7. QED
      BY <2>5, <2>6
  <1>8. QED
    BY <1>5, <1>6, <1>7, AccountsAreAll DEF AccountInv

LEMMA RetryCounts ==
  ASSUME AccountInv, NEW c \in Callers, Retry(c)
  PROVE  AccountInv'
  <1>1. CASE Len(buffer) < Capacity /\ Enqueue(c) /\ UNCHANGED metrics
    BY <1>1, EnqueueCounts DEF Retry
  <1>2. CASE ~(Len(buffer) < Capacity /\ Enqueue(c) /\ UNCHANGED metrics)
    <2>1. /\ write[c].pc = "retry" /\ write' = [write EXCEPT ![c].pc = "idle"]
          /\ Count("backpressure_overflow")
          /\ UNCHANGED <<buffer, accepted, calls, closed, connects, open, loop,
                         stream, serving, garbled, received>>
      BY <1>2 DEF Retry, listenerVars
    <2>2. /\ write' \in [Callers -> Writes] /\ write'[c].pc = "idle"
          /\ \A d \in Callers : d # c => write'[d] = write[d]
      BY <2>1, WriteMoves DEF AccountInv, Kinds
    <2>3. "backpressure_overflow" \in Counter /\ metrics \in [Counter -> Nat]
      BY DEF Counter, AccountInv, Kinds
    <2>4. /\ metrics' \in [Counter -> Nat]
          /\ metrics'["backpressure_overflow"] = metrics["backpressure_overflow"] + 1
          /\ \A other \in Counter :
               other # "backpressure_overflow" => metrics'[other] = metrics[other]
      BY <2>1, <2>3, MetricCounts
    <2>5. Kinds' /\ Flags'
      BY <2>1, <2>2, <2>4 DEF AccountInv, Kinds, Flags, Writes, Held, Pieces, Frames, Loops, Counter
    <2>6. Placed'
      BY <2>1, <2>2 DEF AccountInv, Placed, Frames, Loops
    <2>7. Accounts'
      <3>1. Carrying' = Carrying
        BY <2>1 DEF Carrying, Frames, Loops
      <3>2. Cardinality(Writing) = Cardinality(Writing') + 1 /\ Cardinality(Writing') \in Nat
        BY <2>1, <2>2, WriterLeaves
      <3>3. /\ metrics'["ipc_write"] = metrics["ipc_write"]
            /\ metrics'["forwarded"] = metrics["forwarded"]
            /\ metrics'["backpressure"] = metrics["backpressure"]
        BY <2>4 DEF Counter
      <3>4. Cardinality(Writing') = Cardinality(Writing) + (-1)
        BY <3>2, Numbers
      <3>5. Changes(0, 0, 0, 0, 0, 0, 0, 1, -1)
        BY <2>1, <2>4, <3>1, <3>3, <3>4, NothingAdded DEF Changes
      <3>6. Even(0, 0, 0, 0, 0, 0, 0, 1, -1)
        BY DEF Even
      <3>7. QED
        BY <3>5, <3>6, Balances
    <2>8. QED
      BY <2>5, <2>6, <2>7, AccountsAreAll DEF AccountInv
  <1>3. QED
    BY <1>1, <1>2

(* Steps of neither a caller nor a loop: what is counted stays.            *)
LEMMA CountsStay ==
  ASSUME AccountInv, UNCHANGED <<calls, write, accepted, buffer, metrics>>,
         \A l \in Loops : loop'[l] \in Frames <=> loop[l] \in Frames
  PROVE  Accounts'
  <1>1. Carrying' = Carrying /\ Writing' = Writing
    BY DEF Carrying, Writing, Frames, Loops
  <1>2. QED
    BY <1>1, Numbers DEF Accounts

LEMMA ConnectCounts ==
  ASSUME AccountInv, Connect
  PROVE  AccountInv'
  <1>1. /\ connects < MaxConnects /\ connects' = connects + 1
        /\ open' = open \cup {connects + 1}
        /\ loop' = [loop EXCEPT ![connects + 1] = NoFrame]
        /\ UNCHANGED <<calls, write, accepted, buffer, closed, metrics, stream, serving,
                       garbled, received>>
    BY DEF Connect, writerVars, listenerVars
  <1>2. connects \in Nat /\ connects + 1 \in Loops
    BY <1>1, BoundsAssumption DEF AccountInv, Kinds, Loops
  <1>3. loop[connects + 1] = NoFrame /\ loop' = loop
    BY <1>1, <1>2 DEF AccountInv, Kinds, Placed
  <1>4. connects' \in 0 .. MaxConnects /\ open' \subseteq 1 .. connects' /\ serving \in 0 .. connects'
    BY <1>1, <1>2, BoundsAssumption DEF AccountInv, Kinds
  <1>5. Kinds' /\ Flags'
    BY <1>1, <1>3, <1>4 DEF AccountInv, Kinds, Flags, Writes, Held, Pieces, Frames, Loops, Counter
  <1>6. Placed'
    BY <1>1, <1>2, <1>3 DEF AccountInv, Placed, Frames, Loops
  <1>7. Accounts'
    BY <1>1, <1>3, CountsStay
  <1>8. QED
    BY <1>5, <1>6, <1>7, AccountsAreAll DEF AccountInv

LEMMA TakeCounts ==
  ASSUME AccountInv, NEW l \in Loops, Take(l)
  PROVE  AccountInv'
  <1>1. /\ Started(l) /\ loop[l] = NoFrame /\ buffer # <<>>
        /\ loop' = [loop EXCEPT ![l] = Head(buffer)] /\ buffer' = Tail(buffer)
        /\ UNCHANGED <<calls, write, accepted, closed, connects, open, metrics, stream,
                       serving, garbled, received>>
    BY DEF Take, listenerVars
  <1>2. /\ Head(buffer) \in Frames /\ buffer' \in Seq(Frames) /\ Len(buffer') = Len(buffer) - 1
    <2>1. buffer \in Seq(Frames)
      BY DEF AccountInv, Kinds
    <2>2. QED
      BY <1>1, <2>1, HeadTailProperties
  <1>3. loop' \in [Loops -> Held] /\ loop'[l] \in Frames /\ \A m \in Loops : m # l => loop'[m] = loop[m]
    BY <1>1, <1>2 DEF AccountInv, Kinds, Held
  <1>4. Len(buffer') <= Capacity
    BY <1>2, CapacityAssumption, Numbers DEF AccountInv, Kinds
  <1>5. Kinds' /\ Flags'
    BY <1>1, <1>2, <1>3, <1>4 DEF AccountInv, Kinds, Flags, Writes, Held, Pieces, Frames, Loops, Counter
  <1>6. Placed'
    <2>1. ~(l > connects)
      BY <1>1, BoundsAssumption DEF Started, AccountInv, Kinds, Loops
    <2>2. QED
      BY <1>1, <1>3, <2>1 DEF AccountInv, Placed, Frames, Loops
  <1>7. Accounts'
    <2>1. l \notin Carrying /\ Carrying' = Carrying \cup {l} /\ Carrying \subseteq Loops
      BY <1>1, <1>3, NotAFrame DEF Carrying, Frames, Loops
    <2>2. Cardinality(Carrying') = Cardinality(Carrying) + 1
      BY <2>1, FiniteLoops, OneMore
    <2>3. Writing' = Writing
      BY <1>1 DEF Writing
    <2>4. Len(buffer') = Len(buffer) + (-1)
      BY <1>2, Numbers
    <2>5. Changes(0, -1, 1, 0, 0, 0, 0, 0, 0)
      BY <1>1, <2>2, <2>3, <2>4, NothingAdded DEF Changes
    <2>6. Even(0, -1, 1, 0, 0, 0, 0, 0, 0)
      BY DEF Even
    <2>7. QED
      BY <2>5, <2>6, Balances
  <1>8. QED
    BY <1>5, <1>6, <1>7, AccountsAreAll DEF AccountInv

(* What a writeLoop does to the latest connection.                         *)
LEMMA ForwardWrites ==
  ASSUME AccountInv, NEW l \in Loops, Forward(l)
  PROVE  \/ stream' = stream /\ Count("ipc_write")
         \/ \E whole \in BOOLEAN :
              LET piece == [frame |-> loop[l], whole |-> whole] IN
              /\ connects \in open /\ connects \in Loops
              /\ stream' = [stream EXCEPT ![connects] = Append(@, piece)]
              /\ piece \in Pieces
              /\ Count(IF whole THEN "forwarded" ELSE "ipc_write")
  <1>1. loop[l] \in Frames
    BY DEF Forward
  <1>2. connects \in open => connects \in Loops
    BY BoundsAssumption DEF AccountInv, Kinds, Loops
  <1>3. ASSUME NEW whole \in BOOLEAN, connects \in open,
               stream' = [stream EXCEPT ![connects] = Append(@, [frame |-> loop[l], whole |-> whole])],
               Count(IF whole THEN "forwarded" ELSE "ipc_write")
        PROVE  LET piece == [frame |-> loop[l], whole |-> whole] IN
               /\ connects \in open /\ connects \in Loops
               /\ stream' = [stream EXCEPT ![connects] = Append(@, piece)]
               /\ piece \in Pieces
               /\ Count(IF whole THEN "forwarded" ELSE "ipc_write")
    <2>1. [frame |-> loop[l], whole |-> whole] \in Pieces
      BY <1>1 DEF Pieces
    <2>2. QED
      BY <1>2, <1>3, <2>1
  <1>4. \/ stream' = stream /\ Count("ipc_write")
        \/ /\ connects \in open
           /\ stream' = [stream EXCEPT ![connects] = Append(@, [frame |-> loop[l], whole |-> TRUE])]
           /\ Count("forwarded")
        \/ /\ connects \in open
           /\ stream' = [stream EXCEPT ![connects] = Append(@, [frame |-> loop[l], whole |-> FALSE])]
           /\ Count("ipc_write")
    BY DEF Forward
  <1>5. TRUE \in BOOLEAN /\ FALSE \in BOOLEAN
    OBVIOUS
  <1>6. QED
    BY <1>3, <1>4, <1>5, Zenon

LEMMA ForwardCounts ==
  ASSUME AccountInv, NEW l \in Loops, Forward(l)
  PROVE  AccountInv'
  <1>1. /\ Started(l) /\ loop[l] \in Frames /\ loop' = [loop EXCEPT ![l] = NoFrame]
        /\ UNCHANGED <<calls, write, accepted, buffer, closed, connects, open,
                       serving, garbled, received>>
    BY DEF Forward, writerVars, listenerVars
  <1>2. /\ loop' \in [Loops -> Held] /\ loop'[l] = NoFrame
        /\ \A m \in Loops : m # l => loop'[m] = loop[m]
    BY <1>1 DEF AccountInv, Kinds, Held
  <1>3. /\ stream' \in [Loops -> Seq(Pieces)]
        /\ \A k \in Loops : k > connects => stream'[k] = stream[k]
    <2>1. stream \in [Loops -> Seq(Pieces)] /\ connects \in Nat /\ Loops \subseteq Int
      BY BoundsAssumption DEF AccountInv, Kinds, Loops
    <2>2. ASSUME NEW piece \in Pieces, connects \in Loops,
                 stream' = [stream EXCEPT ![connects] = Append(@, piece)]
          PROVE  /\ stream' \in [Loops -> Seq(Pieces)]
                 /\ \A k \in Loops : k > connects => stream'[k] = stream[k]
      <3>1. stream[connects] \in Seq(Pieces)
        BY <2>1, <2>2
      <3>2. PICK t \in Seq(Pieces) : t = Append(stream[connects], piece)
        BY <3>1, AppendProperties
      <3>3. stream' = [stream EXCEPT ![connects] = t]
        BY <2>2, <3>2
      <3>4. QED
        BY <2>1, <2>2, <3>3
    <2>3. QED
      BY <2>1, <2>2, ForwardWrites
  <1>4. PICK counter \in {"forwarded", "ipc_write"} : Count(counter)
    BY ForwardWrites
  <1>5. /\ metrics' \in [Counter -> Nat]
        /\ metrics'[counter] = metrics[counter] + 1
        /\ \A other \in Counter : other # counter => metrics'[other] = metrics[other]
    <2>1. counter \in Counter /\ metrics \in [Counter -> Nat]
      BY DEF Counter, AccountInv, Kinds
    <2>2. QED
      BY <1>4, <2>1, MetricCounts
  <1>6. Kinds' /\ Flags'
    BY <1>1, <1>2, <1>3, <1>5 DEF AccountInv, Kinds, Flags, Writes, Held, Pieces, Frames, Loops, Counter
  <1>7. Placed'
    BY <1>1, <1>2, <1>3 DEF AccountInv, Placed, Frames, Loops
  <1>8. Accounts'
    <2>1. l \in Carrying /\ Carrying' = Carrying \ {l} /\ Carrying \subseteq Loops
      BY <1>1, <1>2, NotAFrame DEF Carrying, Frames, Loops
    <2>2. Cardinality(Carrying) = Cardinality(Carrying') + 1 /\ Cardinality(Carrying') \in Nat
      BY <2>1, FiniteLoops, OneLess
    <2>3. Writing' = Writing
      BY <1>1 DEF Writing
    <2>4. CASE counter = "forwarded"
      <3>1. /\ metrics'["backpressure"] = metrics["backpressure"]
            /\ metrics'["ipc_write"] = metrics["ipc_write"]
            /\ metrics'["backpressure_overflow"] = metrics["backpressure_overflow"]
            /\ metrics'["forwarded"] = metrics["forwarded"] + 1
        BY <1>5, <2>4 DEF Counter
      <3>2. Cardinality(Carrying') = Cardinality(Carrying) + (-1)
        BY <2>2, Numbers
      <3>3. Changes(0, 0, -1, 0, 0, 1, 0, 0, 0)
        BY <1>1, <2>3, <3>1, <3>2, NothingAdded DEF Changes
      <3>4. Even(0, 0, -1, 0, 0, 1, 0, 0, 0)
        BY DEF Even
      <3>5. QED
        BY <3>3, <3>4, Balances
    <2>5. CASE counter = "ipc_write"
      <3>1. /\ metrics'["backpressure"] = metrics["backpressure"]
            /\ metrics'["forwarded"] = metrics["forwarded"]
            /\ metrics'["backpressure_overflow"] = metrics["backpressure_overflow"]
            /\ metrics'["ipc_write"] = metrics["ipc_write"] + 1
        BY <1>5, <2>5 DEF Counter
      <3>2. Cardinality(Carrying') = Cardinality(Carrying) + (-1)
        BY <2>2, Numbers
      <3>3. Changes(0, 0, -1, 0, 1, 0, 0, 0, 0)
        BY <1>1, <2>3, <3>1, <3>2, NothingAdded DEF Changes
      <3>4. Even(0, 0, -1, 0, 1, 0, 0, 0, 0)
        BY DEF Even
      <3>5. QED
        BY <3>3, <3>4, Balances
    <2>6. QED
      BY <2>4, <2>5
  <1>9. QED
    BY <1>6, <1>7, <1>8, AccountsAreAll DEF AccountInv

(* EndLoop, Close and Accept touch neither frames nor connections made.    *)
LEMMA QuietCounts ==
  ASSUME AccountInv,
         (\E l \in Loops : EndLoop(l) \/ Accept(l)) \/ Close
  PROVE  AccountInv'
  <1>1. /\ open' \subseteq open
        /\ UNCHANGED <<calls, write, accepted, buffer, connects, metrics, stream, received>>
    BY DEF EndLoop, Accept, Close, writerVars, listenerVars
  <1>2. /\ loop' \in [Loops -> Held]
        /\ \A l \in Loops : loop'[l] \in Frames <=> loop[l] \in Frames
        /\ \A l \in Loops : l > connects => loop'[l] = loop[l]
    <2>1. loop \in [Loops -> Held] /\ connects \in Nat /\ Loops \subseteq Int /\ Ended \in Held
      BY BoundsAssumption DEF AccountInv, Kinds, Loops, Held
    <2>2. ASSUME NEW l \in Loops, EndLoop(l)
          PROVE  loop[l] = NoFrame /\ loop' = [loop EXCEPT ![l] = Ended] /\ l <= connects
      BY <2>2 DEF EndLoop, Started
    <2>3. loop' = loop \/ \E l \in Loops : EndLoop(l)
      BY DEF EndLoop, Accept, Close
    <2>4. CASE loop' = loop
      BY <2>1, <2>4
    <2>5. CASE \E l \in Loops : EndLoop(l)
      <3>1. PICK l \in Loops : loop[l] = NoFrame /\ loop' = [loop EXCEPT ![l] = Ended] /\ l <= connects
        BY <2>2, <2>5
      <3>2. loop' \in [Loops -> Held] /\ \A m \in Loops : m # l => loop'[m] = loop[m]
        BY <2>1, <3>1
      <3>3. loop'[l] = Ended
        BY <2>1, <3>1
      <3>4. ~(l > connects)
        BY <2>1, <3>1
      <3>5. QED
        BY <3>1, <3>2, <3>3, <3>4, NotAFrame
    <2>6. QED
      BY <2>3, <2>4, <2>5
  <1>3. serving' \in 0 .. connects /\ closed' \in BOOLEAN /\ garbled' \in BOOLEAN
    <2>1. serving' \in 0 .. connects
      <3>1. CASE UNCHANGED serving
        BY <3>1 DEF AccountInv, Kinds
      <3>2. CASE \E l \in Loops : Accept(l)
        BY <3>2, BoundsAssumption DEF Accept, Started, AccountInv, Kinds, Loops
      <3>3. QED
        BY <3>1, <3>2 DEF EndLoop, Close, listenerVars
    <2>2. closed' \in {closed, TRUE} /\ garbled' \in {garbled, FALSE}
      BY DEF EndLoop, Accept, Close, listenerVars
    <2>3. QED
      BY <2>1, <2>2 DEF AccountInv, Flags
  <1>4. Kinds'
    BY <1>1, <1>2, <1>3 DEF AccountInv, Kinds, Writes, Held, Pieces, Frames, Loops, Counter
  <1>5. Flags'
    BY <1>3 DEF Flags
  <1>6. Placed'
    BY <1>1, <1>2 DEF AccountInv, Placed, Frames, Loops
  <1>7. Accounts'
    BY <1>1, <1>2, CountsStay
  <1>8. QED
    BY <1>4, <1>5, <1>6, <1>7, AccountsAreAll DEF AccountInv

(* What the listener takes from a stream, and what it hands on.            *)
LEMMA ReadTakes ==
  ASSUME AccountInv, NEW k \in Loops, ReadFrame(k)
  PROVE  /\ stream[k] \in Seq(Pieces) /\ stream[k] # <<>> /\ Head(stream[k]).frame \in Frames
         /\ stream' = [stream EXCEPT ![k] = Tail(stream[k])]
         /\ Tail(stream[k]) \in Seq(Pieces)
         /\ \/ received' = received
            \/ received' = Append(received, Garbage)
            \/ received' = Append(received, Head(stream[k]).frame)
  <1>1. stream[k] \in Seq(Pieces) /\ stream[k] # <<>>
    BY DEF ReadFrame, AccountInv, Kinds
  <1>2. Head(stream[k]) \in Pieces /\ Tail(stream[k]) \in Seq(Pieces)
    BY <1>1, HeadTailProperties
  <1>3. Head(stream[k]).frame \in Frames
    BY <1>2 DEF Pieces
  <1>4. stream' = [stream EXCEPT ![k] = Tail(stream[k])]
    BY DEF ReadFrame, AccountInv, Kinds
  <1>5. \/ received' = received
        \/ received' = Append(received, Garbage)
        \/ received' = Append(received, Head(stream[k]).frame)
    BY DEF ReadFrame
  <1>6. QED
    BY <1>1, <1>2, <1>3, <1>4, <1>5

LEMMA ReadCounts ==
  ASSUME AccountInv, NEW k \in Loops, ReadFrame(k)
  PROVE  AccountInv'
  <1>1. UNCHANGED <<calls, write, accepted, buffer, closed, connects, open, loop, metrics, serving>>
    BY DEF ReadFrame, writerVars
  <1>2. stream' \in [Loops -> Seq(Pieces)] /\ \A j \in Loops : j # k => stream'[j] = stream[j]
    <2>1. stream \in [Loops -> Seq(Pieces)]
      BY DEF AccountInv, Kinds
    <2>2. QED
      BY <2>1, ReadTakes
  <1>3. received' \in Seq(Frames \cup {Garbage})
    <2>. DEFINE Given == Frames \cup {Garbage}
    <2>1. PICK f \in Given : f = Head(stream[k]).frame
      BY ReadTakes
    <2>2. Garbage \in Given
      OBVIOUS
    <2>3. received \in Seq(Given)
      BY DEF AccountInv, Kinds
    <2>. HIDE DEF Given
    <2>4. Append(received, f) \in Seq(Given)
      BY <2>3, AppendProperties
    <2>5. Append(received, Garbage) \in Seq(Given)
      BY <2>2, <2>3, AppendProperties
    <2>6. received' \in Seq(Given)
      BY <2>1, <2>3, <2>4, <2>5, ReadTakes
    <2>7. QED
      BY <2>6 DEF Given
  <1>4. garbled' \in BOOLEAN
    BY DEF ReadFrame, AccountInv, Flags
  <1>5. Kinds'
    BY <1>1, <1>2, <1>3 DEF AccountInv, Kinds, Writes, Held, Pieces, Frames, Loops, Counter
  <1>6. Flags'
    BY <1>1, <1>4 DEF AccountInv, Flags
  <1>7. Placed'
    <2>1. stream[k] # <<>>
      BY ReadTakes
    <2>2. \A l \in Loops : l > connects => stream'[l] = <<>>
      BY <1>2, <2>1 DEF AccountInv, Placed
    <2>3. QED
      BY <1>1, <2>2 DEF AccountInv, Placed, Frames, Loops
  <1>8. Accounts'
    BY <1>1, CountsStay
  <1>9. QED
    BY <1>5, <1>6, <1>7, <1>8, AccountsAreAll DEF AccountInv

LEMMA EndConnectionCounts ==
  ASSUME AccountInv, NEW k \in Loops, EndConnection(k)
  PROVE  AccountInv'
  <1>1. /\ serving' = 0 /\ open' = open \ {k} /\ stream' = [stream EXCEPT ![k] = <<>>]
        /\ UNCHANGED <<calls, write, accepted, buffer, closed, connects, loop, metrics,
                       garbled, received>>
    BY DEF EndConnection, writerVars
  <1>2. /\ stream' \in [Loops -> Seq(Pieces)]
        /\ \A l \in Loops : l > connects => stream'[l] = <<>>
    <2>1. stream \in [Loops -> Seq(Pieces)] /\ <<>> \in Seq(Pieces)
      BY EmptySeq DEF AccountInv, Kinds
    <2>2. QED
      BY <1>1, <2>1 DEF AccountInv, Placed
  <1>3. 0 \in 0 .. connects
    BY DEF AccountInv, Kinds
  <1>4. Kinds' /\ Flags'
    BY <1>1, <1>2, <1>3 DEF AccountInv, Kinds, Flags, Writes, Held, Pieces, Frames, Loops, Counter
  <1>5. Placed'
    BY <1>1, <1>2 DEF AccountInv, Placed, Frames, Loops
  <1>6. Accounts'
    BY <1>1, CountsStay
  <1>7. QED
    BY <1>4, <1>5, <1>6, AccountsAreAll DEF AccountInv

LEMMA AccountsStart == Init => AccountInv
  <1>. SUFFICES ASSUME Init PROVE AccountInv
    OBVIOUS
  <1>1. Kinds
    <2>1. MaxFrames \in Nat /\ MaxConnects \in Nat /\ Capacity \in Nat
      BY BoundsAssumption, CapacityAssumption
    <2>2. write \in [Callers -> Writes]
      <3>1. [pc |-> "idle", frame |-> NoFrame] \in Writes
        BY DEF Writes
      <3>2. QED
        BY <3>1 DEF Init
    <2>3. /\ accepted \in Seq(Frames) /\ buffer \in Seq(Frames) /\ Len(buffer) = 0
          /\ received \in Seq(Frames \cup {Garbage})
      BY EmptySeq DEF Init
    <2>4. loop \in [Loops -> Held] /\ metrics \in [Counter -> Nat]
      BY DEF Init, Held
    <2>5. stream \in [Loops -> Seq(Pieces)]
      <3>1. <<>> \in Seq(Pieces)
        BY EmptySeq
      <3>2. QED
        BY <3>1 DEF Init
    <2>6. QED
      BY <2>1, <2>2, <2>3, <2>4, <2>5 DEF Init, Kinds
  <1>2. Flags
    BY DEF Init, Flags
  <1>3. Placed
    BY DEF Init, Placed
  <1>4. Accounts
    <2>1. Carrying = {} /\ Writing = {}
      BY NotAFrame DEF Init, Carrying, Writing
    <2>2. Cardinality(Carrying) = 0 /\ Cardinality(Writing) = 0
      BY <2>1, FS_EmptySet
    <2>3. Len(accepted) = 0 /\ Len(buffer) = 0 /\ calls = 0
      BY EmptySeq DEF Init
    <2>4. /\ metrics["backpressure"] = 0 /\ metrics["backpressure_overflow"] = 0
          /\ metrics["ipc_write"] = 0 /\ metrics["forwarded"] = 0
      BY DEF Init, Counter
    <2>5. QED
      BY <2>2, <2>3, <2>4 DEF Accounts
  <1>5. QED
    BY <1>1, <1>2, <1>3, <1>4, AccountsAreAll DEF AccountInv

LEMMA AccountsStay == AccountInv /\ [Next]_vars => AccountInv'
  <1>. SUFFICES ASSUME AccountInv, [Next]_vars PROVE AccountInv'
    OBVIOUS
  <1>1. ASSUME NEW c \in Callers, BeginWrite(c) \/ Try(c) \/ Evict(c) \/ Retry(c)
        PROVE  AccountInv'
    BY <1>1, BeginWriteCounts, TryCounts, EvictCounts, RetryCounts
  <1>2. CASE Connect
    BY <1>2, ConnectCounts
  <1>3. ASSUME NEW l \in Loops, Loop(l)
        PROVE  AccountInv'
    BY <1>3, TakeCounts, ForwardCounts, QuietCounts DEF Loop
  <1>4. ASSUME NEW k \in Loops, Listener(k)
        PROVE  AccountInv'
    BY <1>4, QuietCounts, ReadCounts, EndConnectionCounts DEF Listener
  <1>5. CASE Close
    BY <1>5, QuietCounts
  <1>6. CASE UNCHANGED vars
    <2>1. Kinds' /\ Flags' /\ Placed'
      BY <1>6 DEF vars, AccountInv, Kinds, Flags, Placed, Writes, Held, Pieces, Frames, Loops, Counter
    <2>2. Accounts'
      BY <1>6, CountsStay DEF vars
    <2>3. QED
      BY <2>1, <2>2, AccountsAreAll DEF AccountInv
  <1>7. QED
    BY <1>1, <1>2, <1>3, <1>4, <1>5, <1>6 DEF Next

LEMMA AccountsAlways == Spec => []AccountInv
  BY AccountsStart, AccountsStay, PTL DEF Spec

(* EveryFrameCounted: FramesAccounted for any number of callers, loops and *)
(* frames and any capacity: no frame leaves the writer without a trace in  *)
(* its counters, and none is counted twice.                                *)
THEOREM EveryFrameCounted == Spec => []FramesAccounted
  BY AccountsAlways, PTL DEF AccountInv

(* TypeCorrect: the types, with the bound of the buffer; the counters are  *)
(* within the frames written because the accounts are right.               *)
THEOREM TypeCorrect == Spec => []TypeOK
  <1>1. AccountInv => TypeOK
    <2>. SUFFICES ASSUME AccountInv PROVE TypeOK
      OBVIOUS
    <2>1. metrics \in [Counter -> 0 .. MaxFrames]
      <3>1. calls <= MaxFrames /\ MaxFrames \in Nat
        BY BoundsAssumption DEF AccountInv, Kinds
      <3>2. /\ metrics["backpressure"] \in 0 .. MaxFrames /\ metrics["ipc_write"] \in 0 .. MaxFrames
            /\ metrics["forwarded"] \in 0 .. MaxFrames
            /\ metrics["backpressure_overflow"] \in 0 .. MaxFrames
        <4>1. PICK a \in Nat, b \in Nat, k \in Nat, p \in Nat, i \in Nat, w \in Nat :
                /\ a = Len(accepted) /\ b = Len(buffer) /\ k = Cardinality(Carrying)
                /\ p = metrics["backpressure"] /\ i = metrics["ipc_write"]
                /\ w = metrics["forwarded"]
          BY Numbers
        <4>2. PICK n \in Nat, o \in Nat, g \in Nat :
                n = calls /\ o = metrics["backpressure_overflow"] /\ g = Cardinality(Writing)
          BY Numbers
        <4>3. a = b + k + p + i + w /\ n = a + o + g
          BY <4>1, <4>2, Numbers DEF Accounts
        <4>4. n <= MaxFrames
          BY <3>1, <4>2
        <4>5. p <= MaxFrames /\ i <= MaxFrames /\ w <= MaxFrames /\ o <= MaxFrames
          BY <3>1, <4>3, <4>4
        <4>6. QED
          BY <3>1, <4>1, <4>2, <4>5
      <3>3. \A counter \in Counter : metrics[counter] \in 0 .. MaxFrames
        BY <3>2 DEF Counter
      <3>4. QED
        BY <3>3 DEF AccountInv, Kinds
    <2>2. /\ Range(accepted) \subseteq Frames /\ Range(buffer) \subseteq Frames
          /\ Range(received) \subseteq Frames \cup {Garbage}
      <3>1. ASSUME NEW S, NEW s \in Seq(S) PROVE Range(s) \subseteq S
        BY LenProperties, ElementOfSeq DEF Range
      <3>2. QED
        BY <3>1 DEF AccountInv, Kinds
    <2>3. closed \in BOOLEAN /\ garbled \in BOOLEAN
      BY DEF AccountInv, Flags
    <2>4. QED
      BY <2>1, <2>2, <2>3 DEF AccountInv, Kinds, Writes, Held, TypeOK
  <1>2. QED
    BY <1>1, AccountsAlways, PTL

-----------------------------------------------------------------------------
(* The way of a frame.                                                     *)

(* f stands before g: they differ and, as long as there has been only one  *)
(* connection, f was accepted first.                                       *)
Sooner ==
  { p \in Frames \X Frames :
      /\ p[1] # p[2]
      /\ connects <= 1 => \E i, j \in 1 .. Len(accepted) :
                            i < j /\ accepted[i] = p[1] /\ accepted[j] = p[2] }

(* The same for what stands on a connection, and for what was received,    *)
(* where nothing is said of garbage.                                       *)
SoonerOnWire == { p \in Pieces \X Pieces : <<p[1].frame, p[2].frame>> \in Sooner }
SoonerOrVague ==
  { p \in (Frames \cup {Garbage}) \X (Frames \cup {Garbage}) :
      p \in Sooner \/ p[1] = Garbage \/ p[2] = Garbage }
Unequal == { p \in Frames \X Frames : p[1] # p[2] }

(* Where accepted frames are.                                              *)
Waiting == Range(buffer)
InHands == { f \in Frames : \E l \in Loops : loop[l] = f }
onWire == [k \in Loops |-> { piece.frame : piece \in Range(stream[k]) }]
UnderWay == UNION { onWire[k] : k \in Loops }
Given == Range(received) \ {Garbage}

InTurn(A, B) == \A f \in A, g \in B : <<f, g>> \in Sooner
Turn(s, R) == \A i, j \in 1 .. Len(s) : i < j => <<s[i], s[j]>> \in R

(* A Write under way has a frame of its own.                               *)
Fresh ==
  \A c \in Callers : write[c].pc # "idle" =>
    /\ write[c].frame <= calls /\ write[c].frame \notin Range(accepted)
    /\ \A d \in Callers : d # c /\ write[d].pc # "idle" => write[d].frame # write[c].frame

Numbering ==
  /\ \A f \in Range(accepted) : f <= calls
  /\ Turn(accepted, Unequal)

Known == {Waiting, InHands, UnderWay, Given} \subseteq SUBSET Range(accepted)

Across ==
  /\ InTurn(Given, UnderWay) /\ InTurn(Given, InHands) /\ InTurn(Given, Waiting)
  /\ InTurn(UnderWay, InHands) /\ InTurn(UnderWay, Waiting)
  /\ InTurn(InHands, Waiting)

Within ==
  /\ Turn(buffer, Sooner)
  /\ \A l, m \in Loops : loop[l] \in Frames /\ loop[l] = loop[m] => l = m
  /\ \A k \in Loops : Turn(stream[k], SoonerOnWire)
  /\ \A k, l \in Loops : k # l => onWire[k] \cap onWire[l] = {}
  /\ Turn(received, SoonerOrVague)

FlowInv == Fresh /\ Numbering /\ Known /\ Across /\ Within

-----------------------------------------------------------------------------
(* Sequences whose elements stand in a relation to all that follow.        *)
LEMMA RangeGrows ==
  ASSUME NEW S, NEW s \in Seq(S), NEW e \in S
  PROVE  Range(Append(s, e)) = Range(s) \cup {e}
  <1>. DEFINE t == Append(s, e)
  <1>1. /\ t \in Seq(S) /\ Len(t) = Len(s) + 1 /\ Len(s) \in Nat
        /\ \A i \in 1 .. Len(s) : t[i] = s[i]
        /\ t[Len(s) + 1] = e
    BY AppendProperties, LenProperties
  <1>. HIDE DEF t
  <1>2. DOMAIN s = 1 .. Len(s) /\ DOMAIN t = 1 .. Len(s) + 1
    BY <1>1, LenProperties
  <1>3. DOMAIN t = DOMAIN s \cup {Len(s) + 1} /\ \A i \in DOMAIN s : t[i] = s[i]
    BY <1>1, <1>2
  <1>4. Range(t) = Range(s) \cup {e}
    BY <1>1, <1>3 DEF Range
  <1>5. QED
    BY <1>4 DEF t

LEMMA RangeSplits ==
  ASSUME NEW S, NEW s \in Seq(S), s # <<>>
  PROVE  /\ Range(s) = {Head(s)} \cup Range(Tail(s))
         /\ Head(s) = s[1] /\ Head(s) \in S /\ Range(Tail(s)) \subseteq S
  <1>1. /\ Head(s) \in S /\ Tail(s) \in Seq(S) /\ Len(Tail(s)) = Len(s) - 1
        /\ \A i \in 1 .. Len(Tail(s)) : Tail(s)[i] = s[i + 1]
    BY HeadTailProperties
  <1>. DEFINE t == Tail(s)
  <1>2. t \in Seq(S) /\ Len(t) = Len(s) - 1 /\ \A i \in 1 .. Len(t) : t[i] = s[i + 1]
    BY <1>1
  <1>3. Head(s) = s[1]
    BY DEF Head
  <1>4. Len(s) \in Nat /\ DOMAIN s = 1 .. Len(s)
    BY LenProperties
  <1>. HIDE DEF t
  <1>5. Len(t) \in Nat /\ DOMAIN t = 1 .. Len(t)
    BY <1>2, LenProperties
  <1>6. ASSUME NEW x \in Range(s) PROVE x = s[1] \/ x \in Range(t)
    <2>1. PICK i \in 1 .. Len(s) : x = s[i]
      BY <1>4 DEF Range
    <2>2. CASE i = 1
      BY <2>1, <2>2
    <2>3. CASE i # 1
      <3>1. i - 1 \in 1 .. Len(t) /\ (i - 1) + 1 = i
        BY <1>2, <1>4, <2>3
      <3>2. t[i - 1] = s[i]
        BY <1>2, <3>1
      <3>3. QED
        BY <1>5, <2>1, <3>1, <3>2 DEF Range
    <2>4. QED
      BY <2>2, <2>3
  <1>7. ASSUME NEW x \in Range(t) PROVE x \in Range(s) /\ x \in S
    <2>1. PICK i \in 1 .. Len(t) : x = t[i]
      BY <1>5 DEF Range
    <2>2. i + 1 \in 1 .. Len(s) /\ x = s[i + 1]
      BY <1>2, <1>4, <1>5, <2>1
    <2>3. s[i + 1] \in S
      BY <2>2, ElementOfSeq
    <2>4. QED
      BY <1>4, <2>2, <2>3 DEF Range
  <1>8. s[1] \in Range(s)
    <2>1. 1 \in 1 .. Len(s)
      BY <1>2, <1>4, <1>5
    <2>2. QED
      BY <1>4, <2>1 DEF Range
  <1>9. QED
    BY <1>1, <1>3, <1>6, <1>7, <1>8 DEF t

LEMMA TurnWeaker ==
  ASSUME NEW s, NEW R, NEW Q, Turn(s, R), R \subseteq Q
  PROVE  Turn(s, Q)
  BY DEF Turn

LEMMA TurnGrows ==
  ASSUME NEW S, NEW s \in Seq(S), NEW e \in S, NEW R, Turn(s, R),
         \A x \in Range(s) : <<x, e>> \in R
  PROVE  Turn(Append(s, e), R)
  <1>. DEFINE t == Append(s, e)
  <1>1. /\ t \in Seq(S) /\ Len(t) = Len(s) + 1 /\ Len(s) \in Nat
        /\ \A i \in 1 .. Len(s) : t[i] = s[i]
        /\ t[Len(s) + 1] = e
    BY AppendProperties, LenProperties
  <1>. HIDE DEF t
  <1>2. ASSUME NEW i \in 1 .. Len(t), NEW j \in 1 .. Len(t), i < j
        PROVE  <<t[i], t[j]>> \in R
    <2>1. i \in 1 .. Len(s) /\ t[i] = s[i]
      BY <1>1, <1>2
    <2>2. CASE j \in 1 .. Len(s)
      BY <1>1, <1>2, <2>1, <2>2 DEF Turn
    <2>3. CASE j \notin 1 .. Len(s)
      <3>1. j = Len(s) + 1
        BY <1>1, <2>3
      <3>2. s[i] \in Range(s)
        BY <2>1, LenProperties DEF Range
      <3>3. QED
        BY <1>1, <2>1, <3>1, <3>2
    <2>4. QED
      BY <2>2, <2>3
  <1>3. QED
    BY <1>2 DEF Turn, t

LEMMA TurnSplits ==
  ASSUME NEW S, NEW s \in Seq(S), s # <<>>, NEW R, Turn(s, R)
  PROVE  /\ Turn(Tail(s), R)
         /\ \A x \in Range(Tail(s)) : <<Head(s), x>> \in R
  <1>. DEFINE t == Tail(s)
  <1>1. t \in Seq(S) /\ Len(t) = Len(s) - 1 /\ \A i \in 1 .. Len(t) : t[i] = s[i + 1]
    BY HeadTailProperties
  <1>2. Head(s) = s[1] /\ Len(s) \in Nat
    BY LenProperties DEF Head
  <1>. HIDE DEF t
  <1>3. Len(t) \in Nat /\ DOMAIN t = 1 .. Len(t)
    BY <1>1, LenProperties
  <1>4. ASSUME NEW i \in 1 .. Len(t), NEW j \in 1 .. Len(t), i < j
        PROVE  <<t[i], t[j]>> \in R
    <2>1. i + 1 \in 1 .. Len(s) /\ j + 1 \in 1 .. Len(s) /\ i + 1 < j + 1
      BY <1>1, <1>2, <1>4
    <2>2. t[i] = s[i + 1] /\ t[j] = s[j + 1]
      BY <1>1
    <2>3. QED
      BY <2>1, <2>2 DEF Turn
  <1>5. ASSUME NEW x \in Range(t) PROVE <<s[1], x>> \in R
    <2>1. PICK i \in 1 .. Len(t) : x = t[i]
      BY <1>3 DEF Range
    <2>2. 1 \in 1 .. Len(s) /\ i + 1 \in 1 .. Len(s) /\ 1 < i + 1 /\ x = s[i + 1]
      BY <1>1, <1>2, <2>1
    <2>3. QED
      BY <2>2 DEF Turn
  <1>6. QED
    BY <1>2, <1>4, <1>5 DEF Turn, t

-----------------------------------------------------------------------------
(* What stood before another frame stays before it.                        *)
LEMMA SoonerStays ==
  ASSUME AccountInv, connects' >= connects, connects' \in Nat,
         accepted' = accepted \/ \E f \in Frames : accepted' = Append(accepted, f)
  PROVE  /\ Sooner \subseteq Sooner'
         /\ SoonerOnWire \subseteq SoonerOnWire'
         /\ SoonerOrVague \subseteq SoonerOrVague'
         /\ Range(accepted) \subseteq Range(accepted')
  <1>1. accepted \in Seq(Frames) /\ connects \in Nat
    BY DEF AccountInv, Kinds
  <1>2. /\ \A i \in 1 .. Len(accepted) : i \in 1 .. Len(accepted') /\ accepted'[i] = accepted[i]
        /\ Range(accepted) \subseteq Range(accepted')
    <2>1. CASE accepted' = accepted
      BY <2>1
    <2>2. ASSUME NEW f \in Frames, accepted' = Append(accepted, f)
          PROVE  /\ \A i \in 1 .. Len(accepted) :
                      i \in 1 .. Len(accepted') /\ accepted'[i] = accepted[i]
                 /\ Range(accepted) \subseteq Range(accepted')
      <3>1. /\ Len(Append(accepted, f)) = Len(accepted) + 1 /\ Len(accepted) \in Nat
            /\ \A i \in 1 .. Len(accepted) : Append(accepted, f)[i] = accepted[i]
        BY <1>1, AppendProperties, LenProperties
      <3>2. Range(Append(accepted, f)) = Range(accepted) \cup {f}
        BY <1>1, RangeGrows
      <3>3. QED
        BY <2>2, <3>1, <3>2
    <2>3. QED
      BY <2>1, <2>2
  <1>3. ASSUME NEW p \in Sooner PROVE p \in Sooner'
    <2>1. p \in Frames \X Frames /\ p[1] # p[2]
      BY DEF Sooner
    <2>2. ASSUME connects' <= 1
          PROVE  \E i, j \in 1 .. Len(accepted') : i < j /\ accepted'[i] = p[1] /\ accepted'[j] = p[2]
      <3>1. connects <= 1
        BY <1>1, <2>2
      <3>2. PICK i \in 1 .. Len(accepted), j \in 1 .. Len(accepted) :
              i < j /\ accepted[i] = p[1] /\ accepted[j] = p[2]
        BY <3>1 DEF Sooner
      <3>3. QED
        BY <1>2, <3>2
    <2>3. Frames' = Frames
      BY DEF Frames
    <2>4. QED
      BY <2>1, <2>2, <2>3 DEF Sooner
  <1>4. SoonerOnWire \subseteq SoonerOnWire' /\ SoonerOrVague \subseteq SoonerOrVague'
    BY <1>3 DEF SoonerOnWire, SoonerOrVague, Pieces, Frames, Garbage
  <1>5. QED
    BY <1>2, <1>3, <1>4

(* Two frames in order.                                                    *)
LEMMA SoonerIs ==
  ASSUME NEW f \in Frames, NEW g \in Frames
  PROVE  <<f, g>> \in Sooner <=>
           /\ f # g
           /\ connects <= 1 => \E i, j \in 1 .. Len(accepted) :
                                 i < j /\ accepted[i] = f /\ accepted[j] = g
  BY DEF Sooner

LEMMA WireIs ==
  ASSUME NEW p \in Pieces, NEW q \in Pieces
  PROVE  <<p, q>> \in SoonerOnWire <=> <<p.frame, q.frame>> \in Sooner
  BY DEF SoonerOnWire

(* A Write that goes on, or ends without being accepted, keeps its frame.  *)
LEMMA NumbersStay ==
  ASSUME AccountInv, Fresh, Numbering, UNCHANGED <<calls, accepted>>,
         \A c \in Callers : write'[c].pc # "idle" =>
           write[c].pc # "idle" /\ write'[c].frame = write[c].frame
  PROVE  Fresh' /\ Numbering'
  <1>1. Fresh'
    BY DEF Fresh
  <1>2. Numbering'
    BY DEF Numbering, Turn, Unequal, Frames
  <1>3. QED
    BY <1>1, <1>2

(* Frames that leave a place, or stay, remain known and in turn.           *)
LEMMA StaysInTurn ==
  ASSUME Known, Across, Sooner \subseteq Sooner', Range(accepted) \subseteq Range(accepted'),
         Waiting' \subseteq Waiting, InHands' \subseteq InHands,
         UnderWay' \subseteq UnderWay, Given' \subseteq Given
  PROVE  Known' /\ Across'
  <1>1. Known'
    BY DEF Known
  <1>2. Across'
    BY DEF Across, InTurn
  <1>3. QED
    BY <1>1, <1>2

(* The parts of Within, one for each variable.                             *)
LEMMA BufferStays ==
  ASSUME Turn(buffer, Sooner), Sooner \subseteq Sooner', buffer' = buffer
  PROVE  Turn(buffer, Sooner)' /\ Waiting' = Waiting
  BY DEF Turn, Waiting

LEMMA LoopStays ==
  ASSUME \A l, m \in Loops : loop[l] \in Frames /\ loop[l] = loop[m] => l = m,
         \A l \in Loops : loop'[l] \in Frames => loop'[l] = loop[l]
  PROVE  /\ \A l, m \in Loops : loop'[l] \in Frames /\ loop'[l] = loop'[m] => l = m
         /\ InHands' \subseteq InHands
  <1>1. ASSUME NEW l \in Loops, NEW m \in Loops, loop'[l] \in Frames, loop'[l] = loop'[m]
        PROVE  l = m
    <2>1. loop'[l] = loop[l] /\ loop'[m] = loop[m]
      BY <1>1
    <2>2. QED
      BY <1>1, <2>1
  <1>2. InHands' \subseteq InHands
    BY DEF InHands, Frames, Loops
  <1>3. QED
    BY <1>1, <1>2

LEMMA StreamStays ==
  ASSUME \A k \in Loops : Turn(stream[k], SoonerOnWire),
         \A k, l \in Loops : k # l => onWire[k] \cap onWire[l] = {},
         SoonerOnWire \subseteq SoonerOnWire', stream' = stream
  PROVE  /\ \A k \in Loops : Turn(stream[k], SoonerOnWire)'
         /\ \A k, l \in Loops : k # l => onWire'[k] \cap onWire'[l] = {}
         /\ onWire' = onWire /\ UnderWay' = UnderWay
  <1>1. \A k \in Loops : Turn(stream[k], SoonerOnWire)'
    BY DEF Turn
  <1>2. onWire' = onWire
    BY DEF onWire, Loops
  <1>3. UnderWay' = UnderWay
    BY <1>2 DEF UnderWay, Loops
  <1>4. QED
    BY <1>1, <1>2, <1>3

LEMMA ReceivedStays ==
  ASSUME Turn(received, SoonerOrVague), SoonerOrVague \subseteq SoonerOrVague',
         received' = received
  PROVE  Turn(received, SoonerOrVague)' /\ Given' = Given
  BY DEF Turn, Given

-----------------------------------------------------------------------------
(* Steps that move no frame.                                               *)
LEMMA NothingMoves ==
  ASSUME AccountInv, FlowInv, connects' >= connects, connects' \in Nat,
         UNCHANGED <<accepted, buffer, stream, received>>,
         \A l \in Loops : loop'[l] \in Frames => loop'[l] = loop[l]
  PROVE  Known' /\ Across' /\ Within'
  <1>1. /\ Sooner \subseteq Sooner' /\ SoonerOnWire \subseteq SoonerOnWire'
        /\ SoonerOrVague \subseteq SoonerOrVague'
        /\ Range(accepted) \subseteq Range(accepted')
    BY SoonerStays
  <1>2. Turn(buffer, Sooner)' /\ Waiting' = Waiting
    BY <1>1, BufferStays DEF FlowInv, Within
  <1>3. /\ \A l, m \in Loops : loop'[l] \in Frames /\ loop'[l] = loop'[m] => l = m
        /\ InHands' \subseteq InHands
    BY LoopStays DEF FlowInv, Within
  <1>4. /\ \A k \in Loops : Turn(stream[k], SoonerOnWire)'
        /\ \A k, l \in Loops : k # l => onWire'[k] \cap onWire'[l] = {}
        /\ UnderWay' = UnderWay
    BY <1>1, StreamStays DEF FlowInv, Within
  <1>5. Turn(received, SoonerOrVague)' /\ Given' = Given
    BY <1>1, ReceivedStays DEF FlowInv, Within
  <1>6. Known' /\ Across'
    BY <1>1, <1>2, <1>3, <1>4, <1>5, StaysInTurn DEF FlowInv
  <1>7. Within'
    BY <1>2, <1>3, <1>4, <1>5 DEF Within, Loops, Frames
  <1>8. QED
    BY <1>6, <1>7

LEMMA BeginWriteFlows ==
  ASSUME AccountInv, FlowInv, NEW c \in Callers, BeginWrite(c)
  PROVE  FlowInv'
  <1>1. /\ write[c].pc = "idle" /\ calls' = calls + 1 /\ calls \in Nat
        /\ write' = [write EXCEPT ![c] = [pc |-> "try", frame |-> calls + 1]]
        /\ UNCHANGED <<accepted, buffer, connects, loop, stream, received>>
    BY DEF BeginWrite, listenerVars, AccountInv, Kinds
  <1>2. /\ write'[c].frame = calls + 1
        /\ \A d \in Callers : d # c => write'[d] = write[d]
    BY <1>1 DEF AccountInv, Kinds
  <1>3. \A f \in Range(accepted) : f \in Frames /\ f \in Int /\ f <= calls
    <2>1. ASSUME NEW f \in Range(accepted) PROVE f \in Frames
      BY <2>1, LenProperties, ElementOfSeq DEF Range, AccountInv, Kinds
    <2>2. Frames \subseteq Int
      BY BoundsAssumption DEF Frames
    <2>3. QED
      BY <2>1, <2>2 DEF FlowInv, Numbering
  <1>4. \A d \in Callers : write[d].pc # "idle" => write[d].frame \in Int /\ write[d].frame <= calls
    <2>1. Frames \subseteq Int
      BY BoundsAssumption DEF Frames
    <2>2. QED
      BY <2>1 DEF FlowInv, Fresh, AccountInv, Placed
  <1>5. Fresh'
    <2>1. ASSUME NEW d \in Callers, write'[d].pc # "idle"
          PROVE  /\ write'[d].frame <= calls' /\ write'[d].frame \notin Range(accepted)
                 /\ \A e \in Callers : e # d /\ write'[e].pc # "idle" => write'[e].frame # write'[d].frame
      <3>1. CASE d = c
        <4>1. write'[d].frame = calls + 1 /\ calls + 1 \notin Range(accepted)
          BY <1>1, <1>2, <1>3, <3>1
        <4>2. ASSUME NEW e \in Callers, e # d, write'[e].pc # "idle"
              PROVE  write'[e].frame # write'[d].frame
          <5>1. write'[e] = write[e] /\ write[e].frame <= calls /\ write[e].frame \in Int
            BY <1>2, <1>4, <3>1, <4>2
          <5>2. QED
            BY <1>1, <4>1, <5>1
        <4>3. QED
          BY <1>1, <4>1, <4>2
      <3>2. CASE d # c
        <4>1. write'[d] = write[d] /\ write[d].frame \in Int /\ write[d].frame <= calls
          BY <1>2, <1>4, <2>1, <3>2
        <4>2. ASSUME NEW e \in Callers, e # d, write'[e].pc # "idle"
              PROVE  write'[e].frame # write'[d].frame
          <5>1. CASE e = c
            <6>1. write'[e].frame = calls + 1
              BY <1>2, <5>1
            <6>2. QED
              BY <1>1, <4>1, <6>1
          <5>2. CASE e # c
            BY <1>2, <2>1, <4>1, <4>2, <5>2 DEF FlowInv, Fresh
          <5>3. QED
            BY <5>1, <5>2
        <4>3. write'[d].frame <= calls' /\ write'[d].frame \notin Range(accepted)
          BY <1>1, <2>1, <4>1 DEF FlowInv, Fresh
        <4>4. QED
          BY <4>2, <4>3
      <3>3. QED
        BY <3>1, <3>2
    <2>2. QED
      BY <1>1, <2>1 DEF Fresh
  <1>6. Numbering'
    <2>1. \A f \in Range(accepted) : f <= calls'
      BY <1>1, <1>3
    <2>2. QED
      BY <1>1, <2>1 DEF FlowInv, Numbering, Turn, Unequal, Frames
  <1>7. connects' >= connects /\ connects' \in Nat
    BY <1>1 DEF AccountInv, Kinds
  <1>8. Known' /\ Across' /\ Within'
    BY <1>1, <1>7, NothingMoves
  <1>9. QED
    BY <1>5, <1>6, <1>8 DEF FlowInv

(* Steps after which every frame is where it was.                          *)
LEMMA QuietFlows ==
  ASSUME AccountInv, FlowInv, connects' >= connects, connects' \in Nat,
         UNCHANGED <<calls, accepted, buffer, stream, received>>,
         \A c \in Callers : write'[c].pc # "idle" =>
           write[c].pc # "idle" /\ write'[c].frame = write[c].frame,
         \A l \in Loops : loop'[l] \in Frames => loop'[l] = loop[l]
  PROVE  FlowInv'
  <1>1. Fresh' /\ Numbering'
    BY NumbersStay DEF FlowInv
  <1>2. Known' /\ Across' /\ Within'
    BY NothingMoves
  <1>3. QED
    BY <1>1, <1>2 DEF FlowInv

(* The frame of a Write is new to all places.                              *)
LEMMA EnqueueFlows ==
  ASSUME AccountInv, FlowInv, NEW c \in Callers, write[c].pc # "idle", Enqueue(c),
         UNCHANGED <<calls, connects, loop, stream, received>>
  PROVE  FlowInv'
  <1>1. /\ buffer' = Append(buffer, write[c].frame) /\ accepted' = Append(accepted, write[c].frame)
        /\ write' = [write EXCEPT ![c].pc = "idle"] /\ write \in [Callers -> Writes]
    BY DEF Enqueue, AccountInv, Kinds
  <1>2. /\ write'[c].pc = "idle"
        /\ \A d \in Callers : d # c => write'[d] = write[d]
    BY <1>1, WriteMoves
  <1>3. PICK f \in Frames : f = write[c].frame
    BY DEF AccountInv, Placed
  <1>4. /\ buffer \in Seq(Frames) /\ accepted \in Seq(Frames) /\ connects \in Nat
        /\ received \in Seq(Frames \cup {Garbage})
    BY DEF AccountInv, Kinds
  <1>5. accepted' = Append(accepted, f) /\ buffer' = Append(buffer, f)
    BY <1>1, <1>3
  <1>6. Range(accepted') = Range(accepted) \cup {f} /\ Waiting' = Waiting \cup {f}
    BY <1>4, <1>5, RangeGrows DEF Waiting
  <1>7. f \notin Range(accepted) /\ f <= calls
    BY <1>3 DEF FlowInv, Fresh
  <1>8. /\ Sooner \subseteq Sooner' /\ SoonerOnWire \subseteq SoonerOnWire'
        /\ SoonerOrVague \subseteq SoonerOrVague'
        /\ Range(accepted) \subseteq Range(accepted')
    <2>1. connects' >= connects /\ connects' \in Nat
      BY <1>4
    <2>2. QED
      BY <1>5, <2>1, SoonerStays
  <1>9. ASSUME NEW g \in Range(accepted) PROVE <<g, f>> \in Sooner'
    <2>1. PICK i \in 1 .. Len(accepted) : g = accepted[i]
      BY <1>4, LenProperties DEF Range
    <2>2. g \in Frames /\ g # f
      BY <1>4, <1>7, <2>1, ElementOfSeq
    <2>3. /\ i \in 1 .. Len(accepted') /\ Len(accepted) + 1 \in 1 .. Len(accepted')
          /\ i < Len(accepted) + 1 /\ accepted'[i] = g /\ accepted'[Len(accepted) + 1] = f
      <3>1. /\ Len(Append(accepted, f)) = Len(accepted) + 1 /\ Len(accepted) \in Nat
            /\ Append(accepted, f)[i] = accepted[i]
            /\ Append(accepted, f)[Len(accepted) + 1] = f
        BY <1>4, AppendProperties, LenProperties
      <3>2. QED
        BY <1>5, <2>1, <3>1
    <2>4. <<g, f>> \in Frames \X Frames /\ Frames' = Frames
      BY <2>2 DEF Frames
    <2>5. \E a, b \in 1 .. Len(accepted') : a < b /\ accepted'[a] = g /\ accepted'[b] = f
      BY <2>3
    <2>6. QED
      BY <2>2, <2>4, <2>5 DEF Sooner
  <1>10. Fresh'
    <2>1. ASSUME NEW d \in Callers, write'[d].pc # "idle"
          PROVE  /\ write'[d].frame <= calls' /\ write'[d].frame \notin Range(accepted')
                 /\ \A e \in Callers : e # d /\ write'[e].pc # "idle" => write'[e].frame # write'[d].frame
      <3>1. d # c /\ write'[d] = write[d] /\ write[d].pc # "idle"
        BY <1>2, <2>1
      <3>2. write[d].frame <= calls /\ write[d].frame \notin Range(accepted) /\ write[d].frame # f
        BY <1>3, <3>1 DEF FlowInv, Fresh
      <3>3. ASSUME NEW e \in Callers, e # d, write'[e].pc # "idle"
            PROVE  write'[e].frame # write'[d].frame
        <4>1. write'[e] = write[e] /\ write[e].pc # "idle"
          BY <1>2, <3>3
        <4>2. QED
          BY <3>1, <3>3, <4>1 DEF FlowInv, Fresh
      <3>4. QED
        BY <1>6, <3>1, <3>2, <3>3
    <2>2. QED
      BY <2>1 DEF Fresh
  <1>11. Numbering'
    <2>1. \A g \in Range(accepted') : g <= calls'
      BY <1>6, <1>7 DEF FlowInv, Numbering
    <2>2. \A g \in Range(accepted) : <<g, f>> \in Unequal
      <3>1. \A g \in Range(accepted) : g \in Frames
        BY <1>4, LenProperties, ElementOfSeq DEF Range
      <3>2. QED
        BY <1>7, <3>1 DEF Unequal
    <2>3. Turn(accepted, Unequal)
      BY DEF FlowInv, Numbering
    <2>4. Turn(Append(accepted, f), Unequal)
      BY <1>4, <2>2, <2>3, TurnGrows
    <2>5. Turn(accepted, Unequal)'
      BY <1>5, <2>4 DEF Turn, Unequal, Frames
    <2>6. QED
      BY <2>1, <2>5 DEF Numbering
  <1>12. UnderWay' = UnderWay /\ InHands' = InHands /\ Given' = Given /\ onWire' = onWire
    BY DEF UnderWay, onWire, InHands, Given, Loops, Frames
  <1>13. Known'
    BY <1>6, <1>12 DEF FlowInv, Known
  <1>14. Across'
    BY <1>6, <1>8, <1>9, <1>12 DEF FlowInv, Known, Across, InTurn
  <1>15. Within'
    <2>1. Turn(buffer, Sooner)'
      <3>1. Turn(buffer, Sooner')
        BY <1>8, TurnWeaker DEF FlowInv, Within
      <3>2. \A x \in Range(buffer) : <<x, f>> \in Sooner'
        BY <1>9 DEF FlowInv, Known, Waiting
      <3>3. Turn(Append(buffer, f), Sooner')
        BY <1>4, <3>1, <3>2, TurnGrows
      <3>4. QED
        BY <1>5, <3>3 DEF Turn
    <2>2. /\ \A k \in Loops : Turn(stream[k], SoonerOnWire)'
          /\ \A k, l \in Loops : k # l => onWire'[k] \cap onWire'[l] = {}
      BY <1>8, StreamStays DEF FlowInv, Within
    <2>3. Turn(received, SoonerOrVague)'
      BY <1>8, ReceivedStays DEF FlowInv, Within
    <2>4. \A l, m \in Loops : loop'[l] \in Frames /\ loop'[l] = loop'[m] => l = m
      BY DEF FlowInv, Within
    <2>5. QED
      BY <2>1, <2>2, <2>3, <2>4 DEF Within, Loops, Frames
  <1>16. QED
    BY <1>10, <1>11, <1>13, <1>14, <1>15 DEF FlowInv

(* While nothing is accepted, the order does not change.                   *)
LEMMA SameOrder ==
  ASSUME UNCHANGED <<accepted, connects>>
  PROVE  Sooner' = Sooner /\ SoonerOnWire' = SoonerOnWire /\ SoonerOrVague' = SoonerOrVague
  <1>1. Sooner' = Sooner
    BY DEF Sooner, Frames
  <1>2. QED
    BY <1>1 DEF SoonerOnWire, SoonerOrVague, Pieces, Frames, Garbage

LEMMA NoneBeforeItself ==
  ASSUME NEW f PROVE <<f, f>> \notin Sooner
  BY DEF Sooner

LEMMA EvictFlows ==
  ASSUME AccountInv, FlowInv, NEW c \in Callers, Evict(c)
  PROVE  FlowInv'
  <1>1. /\ UNCHANGED <<calls, accepted, connects, loop, stream, received>>
        /\ write' = [write EXCEPT ![c].pc = "retry"] /\ write[c].pc = "evict"
    BY DEF Evict, listenerVars
  <1>2. Fresh' /\ Numbering'
    <2>1. \A d \in Callers : write'[d].frame = write[d].frame /\
                             (write'[d].pc # "idle" => write[d].pc # "idle")
      BY <1>1, WriteMoves DEF AccountInv, Kinds
    <2>2. QED
      BY <1>1, <2>1, NumbersStay DEF FlowInv
  <1>3. Sooner' = Sooner /\ SoonerOnWire' = SoonerOnWire /\ SoonerOrVague' = SoonerOrVague
    BY <1>1, SameOrder
  <1>4. Turn(buffer', Sooner) /\ Waiting' \subseteq Waiting
    <2>1. buffer \in Seq(Frames) /\ Turn(buffer, Sooner)
      BY DEF AccountInv, Kinds, FlowInv, Within
    <2>2. CASE buffer # <<>>
      <3>1. buffer' = Tail(buffer)
        BY <2>2 DEF Evict
      <3>2. Turn(Tail(buffer), Sooner)
        BY <2>1, <2>2, TurnSplits
      <3>3. Range(Tail(buffer)) \subseteq Range(buffer)
        BY <2>1, <2>2, RangeSplits
      <3>4. QED
        BY <3>1, <3>2, <3>3 DEF Waiting
    <2>3. CASE buffer = <<>>
      <3>1. buffer' = buffer
        BY <2>3 DEF Evict
      <3>2. QED
        BY <2>1, <3>1 DEF Waiting
    <2>4. QED
      BY <2>2, <2>3
  <1>5. InHands' = InHands
    BY <1>1 DEF InHands, Frames, Loops
  <1>6. /\ \A k \in Loops : Turn(stream[k], SoonerOnWire)'
        /\ \A k, l \in Loops : k # l => onWire'[k] \cap onWire'[l] = {}
        /\ UnderWay' = UnderWay
    BY <1>1, <1>3, StreamStays DEF FlowInv, Within
  <1>7. Turn(received, SoonerOrVague)' /\ Given' = Given
    BY <1>1, <1>3, ReceivedStays DEF FlowInv, Within
  <1>8. Known' /\ Across'
    BY <1>1, <1>3, <1>4, <1>5, <1>6, <1>7, StaysInTurn DEF FlowInv
  <1>9. Within'
    <2>1. Turn(buffer, Sooner)'
      BY <1>3, <1>4 DEF Turn
    <2>2. \A l, m \in Loops : loop'[l] \in Frames /\ loop'[l] = loop'[m] => l = m
      BY <1>1 DEF FlowInv, Within
    <2>3. QED
      BY <1>6, <1>7, <2>1, <2>2 DEF Within, Loops, Frames
  <1>10. QED
    BY <1>2, <1>8, <1>9 DEF FlowInv

(* The head of the buffer passes into a loop's hands.                      *)
LEMMA TakeFlows ==
  ASSUME AccountInv, FlowInv, NEW l \in Loops, Take(l)
  PROVE  FlowInv'
  <1>1. /\ UNCHANGED <<calls, write, accepted, connects, stream, received>>
        /\ loop[l] = NoFrame /\ buffer # <<>>
        /\ loop' = [loop EXCEPT ![l] = Head(buffer)] /\ buffer' = Tail(buffer)
    BY DEF Take, listenerVars
  <1>2. Fresh' /\ Numbering'
    BY <1>1, NumbersStay DEF FlowInv
  <1>3. Sooner' = Sooner /\ SoonerOnWire' = SoonerOnWire /\ SoonerOrVague' = SoonerOrVague
    BY <1>1, SameOrder
  <1>4. buffer \in Seq(Frames) /\ Turn(buffer, Sooner) /\ loop \in [Loops -> Held]
    BY DEF AccountInv, Kinds, FlowInv, Within
  <1>5. PICK h \in Frames : h = Head(buffer)
    BY <1>1, <1>4, RangeSplits
  <1>6. Waiting = Waiting' \cup {h}
    <2>1. Range(buffer) = {Head(buffer)} \cup Range(Tail(buffer))
      BY <1>1, <1>4, RangeSplits
    <2>2. QED
      BY <1>1, <1>5, <2>1 DEF Waiting
  <1>7. Turn(buffer', Sooner) /\ \A x \in Waiting' : <<h, x>> \in Sooner
    <2>1. Turn(Tail(buffer), Sooner) /\ \A x \in Range(Tail(buffer)) : <<Head(buffer), x>> \in Sooner
      BY <1>1, <1>4, TurnSplits
    <2>2. QED
      BY <1>1, <1>5, <2>1 DEF Waiting
  <1>8. loop'[l] = h /\ \A m \in Loops : m # l => loop'[m] = loop[m]
    BY <1>1, <1>4, <1>5
  <1>9. InHands' = InHands \cup {h}
    <2>1. loop[l] \notin Frames
      BY <1>1, NotAFrame
    <2>2. QED
      BY <1>8, <2>1 DEF InHands, Frames, Loops
  <1>10. h \notin InHands
    BY <1>6, NoneBeforeItself DEF FlowInv, Across, InTurn
  <1>11. \A m, n \in Loops : loop'[m] \in Frames /\ loop'[m] = loop'[n] => m = n
    <2>1. \A m \in Loops : m # l => loop'[m] # h
      BY <1>8, <1>10 DEF InHands
    <2>2. QED
      BY <1>8, <2>1 DEF FlowInv, Within
  <1>12. /\ \A k \in Loops : Turn(stream[k], SoonerOnWire)'
         /\ \A k, j \in Loops : k # j => onWire'[k] \cap onWire'[j] = {}
         /\ UnderWay' = UnderWay
    BY <1>1, <1>3, StreamStays DEF FlowInv, Within
  <1>13. Turn(received, SoonerOrVague)' /\ Given' = Given
    BY <1>1, <1>3, ReceivedStays DEF FlowInv, Within
  <1>14. Known'
    BY <1>1, <1>6, <1>9, <1>12, <1>13 DEF FlowInv, Known
  <1>15. Across'
    BY <1>3, <1>6, <1>7, <1>9, <1>12, <1>13 DEF FlowInv, Across, InTurn
  <1>16. Within'
    <2>1. Turn(buffer, Sooner)'
      BY <1>3, <1>7 DEF Turn
    <2>2. QED
      BY <1>11, <1>12, <1>13, <2>1 DEF Within, Loops, Frames
  <1>17. QED
    BY <1>2, <1>14, <1>15, <1>16 DEF FlowInv

(* Two loops, or two connections, with frames mean two connections made.   *)
LEMMA BothConnected ==
  ASSUME AccountInv
  PROVE  \A l, m \in Loops :
           l # m /\ (loop[l] \in Frames \/ stream[l] # <<>>)
                 /\ (loop[m] \in Frames \/ stream[m] # <<>>) => ~(connects <= 1)
  <1>. SUFFICES ASSUME NEW l \in Loops, NEW m \in Loops, l # m,
                       loop[l] \in Frames \/ stream[l] # <<>>,
                       loop[m] \in Frames \/ stream[m] # <<>>
                PROVE  ~(connects <= 1)
    OBVIOUS
  <1>1. l \in Int /\ m \in Int /\ l >= 1 /\ m >= 1 /\ connects \in Nat
    BY BoundsAssumption DEF Loops, AccountInv, Kinds
  <1>2. l <= connects /\ m <= connects
    BY <1>1, NotAFrame DEF AccountInv, Placed
  <1>3. QED
    BY <1>1, <1>2

(* A loop writes its frame, or drops it.                                   *)
LEMMA ForwardFlows ==
  ASSUME AccountInv, FlowInv, NEW l \in Loops, Forward(l)
  PROVE  FlowInv'
  <1>1. /\ UNCHANGED <<calls, write, accepted, buffer, connects, received>>
        /\ loop[l] \in Frames /\ loop' = [loop EXCEPT ![l] = NoFrame]
    BY DEF Forward, writerVars, listenerVars
  <1>2. Fresh' /\ Numbering'
    BY <1>1, NumbersStay DEF FlowInv
  <1>3. Sooner' = Sooner /\ SoonerOnWire' = SoonerOnWire /\ SoonerOrVague' = SoonerOrVague
    BY <1>1, SameOrder
  <1>4. PICK f \in Frames : f = loop[l]
    BY <1>1
  <1>5. /\ loop'[l] = NoFrame /\ \A m \in Loops : m # l => loop'[m] = loop[m]
        /\ f \in InHands
    BY <1>1, <1>4 DEF AccountInv, Kinds, InHands
  <1>6. InHands' \subseteq InHands /\ \A g \in InHands' : <<f, g>> \in Sooner
    <2>1. ASSUME NEW g \in InHands'
          PROVE  g \in InHands /\ <<f, g>> \in Sooner
      <3>1. g \in Frames /\ \E m \in Loops : loop'[m] = g
        BY DEF InHands, Frames, Loops
      <3>2. PICK m \in Loops : loop'[m] = g
        BY <3>1
      <3>3. m # l /\ loop[m] = g
        BY <1>5, <3>1, <3>2, NotAFrame
      <3>4. f # g
        BY <1>4, <3>3 DEF FlowInv, Within
      <3>5. ~(connects <= 1)
        <4>1. l # m /\ loop[l] \in Frames /\ loop[m] \in Frames
          BY <1>1, <3>1, <3>3
        <4>2. QED
          BY <4>1, BothConnected
      <3>6. QED
        BY <3>1, <3>3, <3>4, <3>5, SoonerIs DEF InHands
    <2>2. QED
      BY <2>1
  <1>7. \A m, n \in Loops : loop'[m] \in Frames /\ loop'[m] = loop'[n] => m = n
    BY <1>5, NotAFrame DEF FlowInv, Within
  <1>8. Turn(buffer, Sooner)' /\ Waiting' = Waiting
    BY <1>1, <1>3, BufferStays DEF FlowInv, Within
  <1>9. Turn(received, SoonerOrVague)' /\ Given' = Given
    BY <1>1, <1>3, ReceivedStays DEF FlowInv, Within
  <1>10. stream \in [Loops -> Seq(Pieces)]
    BY DEF AccountInv, Kinds
  <1>11. /\ \A k \in Loops : Turn(stream[k], SoonerOnWire)'
         /\ \A k, j \in Loops : k # j => onWire'[k] \cap onWire'[j] = {}
         /\ UnderWay' \subseteq UnderWay \cup {f}
    <2>1. CASE stream' = stream
      BY <1>3, <2>1, StreamStays DEF FlowInv, Within
    <2>2. CASE stream' # stream
      <3>1. PICK whole \in BOOLEAN :
              LET piece == [frame |-> loop[l], whole |-> whole] IN
              /\ connects \in open /\ connects \in Loops
              /\ stream' = [stream EXCEPT ![connects] = Append(@, piece)]
              /\ piece \in Pieces
              /\ Count(IF whole THEN "forwarded" ELSE "ipc_write")
        BY <2>2, ForwardWrites
      <3>2. PICK piece \in Pieces :
              /\ piece.frame = f /\ connects \in Loops
              /\ stream' = [stream EXCEPT ![connects] = Append(@, piece)]
        BY <1>4, <3>1
      <3>3. PICK s \in Seq(Pieces) : s = stream[connects]
        BY <1>10, <3>2
      <3>4. /\ stream'[connects] = Append(s, piece)
            /\ \A k \in Loops : k # connects => stream'[k] = stream[k]
        BY <1>10, <3>2, <3>3
      <3>5. Range(Append(s, piece)) = Range(s) \cup {piece}
        BY RangeGrows
      <3>6. /\ onWire'[connects] = onWire[connects] \cup {f}
            /\ \A k \in Loops : k # connects => onWire'[k] = onWire[k]
        <4>1. connects \in Loops /\ Loops' = Loops
          BY <3>2 DEF Loops
        <4>2. onWire'[connects] = { q.frame : q \in Range(s) \cup {piece} }
          BY <3>4, <3>5, <4>1 DEF onWire
        <4>3. onWire[connects] = { q.frame : q \in Range(s) }
          BY <3>3, <4>1 DEF onWire
        <4>4. onWire'[connects] = onWire[connects] \cup {f}
          BY <3>2, <4>2, <4>3
        <4>5. \A k \in Loops : k # connects => onWire'[k] = onWire[k]
          BY <3>4, <4>1 DEF onWire
        <4>6. QED
          BY <4>4, <4>5
      <3>7. \A k \in Loops : f \notin onWire[k]
        <4>1. f \notin UnderWay
          BY <1>5, NoneBeforeItself DEF FlowInv, Across, InTurn
        <4>2. QED
          BY <4>1 DEF UnderWay
      <3>8. \A k, j \in Loops : k # j => onWire'[k] \cap onWire'[j] = {}
        BY <3>6, <3>7 DEF FlowInv, Within
      <3>9. UnderWay' \subseteq UnderWay \cup {f}
        BY <3>6 DEF UnderWay, Loops
      <3>10. \A q \in Range(s) : <<q, piece>> \in SoonerOnWire
        <4>1. ASSUME NEW q \in Range(s) PROVE <<q, piece>> \in SoonerOnWire
          <5>1. q \in Pieces
            BY LenProperties, ElementOfSeq DEF Range
          <5>2. q.frame \in UnderWay
            BY <3>2, <3>3 DEF UnderWay, onWire
          <5>3. <<q.frame, f>> \in Sooner
            BY <1>5, <5>2 DEF FlowInv, Across, InTurn
          <5>4. QED
            BY <3>2, <5>1, <5>3, WireIs
        <4>2. QED
          BY <4>1
      <3>11. Turn(stream'[connects], SoonerOnWire)
        <4>1. Turn(s, SoonerOnWire)
          BY <3>2, <3>3 DEF FlowInv, Within
        <4>2. Turn(Append(s, piece), SoonerOnWire)
          BY <3>10, <4>1, TurnGrows
        <4>3. QED
          BY <3>4, <4>2
      <3>12. \A k \in Loops : Turn(stream'[k], SoonerOnWire)
        BY <3>4, <3>11 DEF FlowInv, Within
      <3>13. \A k \in Loops : Turn(stream[k], SoonerOnWire)'
        BY <1>3, <3>12 DEF Turn
      <3>14. QED
        BY <3>8, <3>9, <3>13
    <2>3. QED
      BY <2>1, <2>2
  <1>12. f \in InHands /\ InHands \subseteq Range(accepted)
    BY <1>5 DEF FlowInv, Known
  <1>13. Known'
    BY <1>1, <1>6, <1>8, <1>9, <1>11, <1>12 DEF FlowInv, Known
  <1>14. Across'
    BY <1>3, <1>5, <1>6, <1>8, <1>9, <1>11 DEF FlowInv, Across, InTurn
  <1>15. Within'
    BY <1>7, <1>8, <1>9, <1>11 DEF Within, Loops, Frames
  <1>16. QED
    BY <1>2, <1>13, <1>14, <1>15 DEF FlowInv

(* The head of a stream is handed to the engine, or is lost in garbage.    *)
LEMMA ReadFlows ==
  ASSUME AccountInv, FlowInv, NEW k \in Loops, ReadFrame(k)
  PROVE  FlowInv'
  <1>1. UNCHANGED <<calls, write, accepted, buffer, connects, loop>>
    BY DEF ReadFrame, writerVars
  <1>2. Fresh' /\ Numbering'
    BY <1>1, NumbersStay DEF FlowInv
  <1>3. Sooner' = Sooner /\ SoonerOnWire' = SoonerOnWire /\ SoonerOrVague' = SoonerOrVague
    BY <1>1, SameOrder
  <1>4. PICK s \in Seq(Pieces) : s = stream[k]
    BY ReadTakes
  <1>5. PICK h \in Frames : h = Head(s).frame
    BY <1>4, ReadTakes
  <1>6. /\ s # <<>>
        /\ stream'[k] = Tail(s) /\ \A j \in Loops : j # k => stream'[j] = stream[j]
    <2>1. stream \in [Loops -> Seq(Pieces)]
      BY DEF AccountInv, Kinds
    <2>2. QED
      BY <1>4, <2>1, ReadTakes
  <1>7. Range(s) = {Head(s)} \cup Range(Tail(s)) /\ Head(s) \in Pieces /\ Range(Tail(s)) \subseteq Pieces
    BY <1>6, RangeSplits
  <1>8. Turn(Tail(s), SoonerOnWire) /\ \A q \in Range(Tail(s)) : <<Head(s), q>> \in SoonerOnWire
    <2>1. Turn(s, SoonerOnWire)
      BY <1>4 DEF FlowInv, Within
    <2>2. QED
      BY <1>6, <2>1, TurnSplits
  <1>9. /\ onWire[k] = onWire'[k] \cup {h}
        /\ \A j \in Loops : j # k => onWire'[j] = onWire[j]
    <2>1. Loops' = Loops
      BY DEF Loops
    <2>2. onWire[k] = { q.frame : q \in {Head(s)} \cup Range(Tail(s)) }
      BY <1>4, <1>7 DEF onWire
    <2>3. onWire'[k] = { q.frame : q \in Range(Tail(s)) }
      BY <1>6, <2>1 DEF onWire
    <2>4. onWire[k] = onWire'[k] \cup {h}
      BY <1>5, <2>2, <2>3
    <2>5. \A j \in Loops : j # k => onWire'[j] = onWire[j]
      BY <1>6, <2>1 DEF onWire
    <2>6. QED
      BY <2>4, <2>5
  <1>10. \A j \in Loops : onWire'[j] \subseteq onWire[j]
    BY <1>9
  <1>11. UnderWay' \subseteq UnderWay /\ h \in UnderWay
    BY <1>9, <1>10 DEF UnderWay, Loops
  <1>12. \A g \in UnderWay' : <<h, g>> \in Sooner
    <2>1. ASSUME NEW g \in UnderWay' PROVE <<h, g>> \in Sooner
      <3>1. PICK j \in Loops : g \in onWire'[j]
        BY DEF UnderWay, Loops
      <3>2. CASE j = k
        <4>1. Loops' = Loops
          BY DEF Loops
        <4>2. PICK q \in Range(Tail(s)) : g = q.frame
          BY <1>6, <3>1, <3>2, <4>1 DEF onWire
        <4>3. <<Head(s), q>> \in SoonerOnWire /\ q \in Pieces
          BY <1>7, <1>8
        <4>4. QED
          BY <1>5, <1>7, <4>2, <4>3, WireIs
      <3>3. CASE j # k
        <4>1. g \in onWire[j] /\ h \in onWire[k]
          BY <1>9, <3>1, <3>3
        <4>2. h # g
          BY <3>3, <4>1 DEF FlowInv, Within
        <4>3. stream[j] # <<>>
          BY <4>1 DEF onWire, Range
        <4>4. ~(connects <= 1)
          BY <1>4, <1>6, <3>3, <4>3, BothConnected
        <4>5. g \in Frames
          <5>1. g \in Range(accepted)
            BY <1>11, <2>1 DEF FlowInv, Known
          <5>2. QED
            BY <5>1, LenProperties, ElementOfSeq DEF Range, AccountInv, Kinds
        <4>6. QED
          BY <4>2, <4>4, <4>5, SoonerIs
      <3>4. QED
        BY <3>2, <3>3
    <2>2. QED
      BY <2>1
  <1>13. \A j \in Loops : Turn(stream[j], SoonerOnWire)'
    <2>1. \A j \in Loops : Turn(stream'[j], SoonerOnWire)
      BY <1>6, <1>8 DEF FlowInv, Within
    <2>2. QED
      BY <1>3, <2>1 DEF Turn
  <1>14. \A j, l \in Loops : j # l => onWire'[j] \cap onWire'[l] = {}
    BY <1>10 DEF FlowInv, Within
  <1>15. Turn(received', SoonerOrVague) /\ Given' \subseteq Given \cup {h}
    <2>. DEFINE All == Frames \cup {Garbage}
    <2>1. /\ received \in Seq(All) /\ h \in All /\ Garbage \in All
          /\ Turn(received, SoonerOrVague)
      BY DEF AccountInv, Kinds, FlowInv, Within
    <2>2. \A x \in Range(received) : x \in All
      BY <2>1, LenProperties, ElementOfSeq DEF Range
    <2>3. \A x \in Range(received) : <<x, Garbage>> \in SoonerOrVague
      BY <2>2 DEF SoonerOrVague
    <2>4. \A x \in Range(received) : <<x, h>> \in SoonerOrVague
      <3>1. ASSUME NEW x \in Range(received), x # Garbage PROVE <<x, h>> \in Sooner
        BY <1>11, <3>1 DEF FlowInv, Across, InTurn, Given
      <3>2. QED
        BY <2>2, <3>1 DEF SoonerOrVague
    <2>. HIDE DEF All
    <2>5. /\ Turn(Append(received, Garbage), SoonerOrVague)
          /\ Range(Append(received, Garbage)) = Range(received) \cup {Garbage}
      BY <2>1, <2>3, TurnGrows, RangeGrows
    <2>6. /\ Turn(Append(received, h), SoonerOrVague)
          /\ Range(Append(received, h)) = Range(received) \cup {h}
      BY <2>1, <2>4, TurnGrows, RangeGrows
    <2>7. received' \in {received, Append(received, Garbage), Append(received, h)}
      BY <1>4, <1>5, ReadTakes
    <2>8. Turn(received', SoonerOrVague)
      BY <2>1, <2>5, <2>6, <2>7
    <2>9. Range(received') \subseteq Range(received) \cup {h, Garbage}
      BY <2>5, <2>6, <2>7
    <2>10. QED
      BY <2>8, <2>9 DEF Given, Garbage
  <1>16. InHands' = InHands
    BY <1>1 DEF InHands, Frames, Loops
  <1>17. Turn(buffer, Sooner)' /\ Waiting' = Waiting
    BY <1>1, <1>3, BufferStays DEF FlowInv, Within
  <1>18. Known'
    BY <1>1, <1>11, <1>15, <1>16, <1>17 DEF FlowInv, Known
  <1>19. Across'
    BY <1>3, <1>11, <1>12, <1>15, <1>16, <1>17 DEF FlowInv, Across, InTurn
  <1>20. Within'
    <2>1. Turn(received, SoonerOrVague)'
      BY <1>3, <1>15 DEF Turn
    <2>2. \A l, m \in Loops : loop'[l] \in Frames /\ loop'[l] = loop'[m] => l = m
      BY <1>1 DEF FlowInv, Within
    <2>3. QED
      BY <1>13, <1>14, <1>17, <2>1, <2>2 DEF Within, Loops, Frames
  <1>21. QED
    BY <1>2, <1>18, <1>19, <1>20 DEF FlowInv

(* What was still on a connection that ends is lost.                       *)
LEMMA EndConnectionFlows ==
  ASSUME AccountInv, FlowInv, NEW k \in Loops, EndConnection(k)
  PROVE  FlowInv'
  <1>1. /\ UNCHANGED <<calls, write, accepted, buffer, connects, loop, received>>
        /\ stream' = [stream EXCEPT ![k] = <<>>]
    BY DEF EndConnection, writerVars
  <1>2. Fresh' /\ Numbering'
    BY <1>1, NumbersStay DEF FlowInv
  <1>3. Sooner' = Sooner /\ SoonerOnWire' = SoonerOnWire /\ SoonerOrVague' = SoonerOrVague
    BY <1>1, SameOrder
  <1>4. stream'[k] = <<>> /\ \A j \in Loops : j # k => stream'[j] = stream[j]
    BY <1>1 DEF AccountInv, Kinds
  <1>5. \A j \in Loops : onWire'[j] \subseteq onWire[j]
    <2>1. Loops' = Loops
      BY DEF Loops
    <2>2. Range(stream'[k]) = {}
      BY <1>4 DEF Range
    <2>3. onWire'[k] = {}
      BY <2>1, <2>2 DEF onWire
    <2>4. \A j \in Loops : j # k => onWire'[j] = onWire[j]
      BY <1>4, <2>1 DEF onWire
    <2>5. QED
      BY <2>3, <2>4
  <1>6. UnderWay' \subseteq UnderWay
    BY <1>5 DEF UnderWay, Loops
  <1>7. \A j \in Loops : Turn(stream[j], SoonerOnWire)'
    <2>1. Turn(<<>>, SoonerOnWire)
      BY EmptySeq DEF Turn
    <2>2. \A j \in Loops : Turn(stream'[j], SoonerOnWire)
      BY <1>4, <2>1 DEF FlowInv, Within
    <2>3. QED
      BY <1>3, <2>2 DEF Turn
  <1>8. \A j, l \in Loops : j # l => onWire'[j] \cap onWire'[l] = {}
    BY <1>5 DEF FlowInv, Within
  <1>9. InHands' = InHands
    BY <1>1 DEF InHands, Frames, Loops
  <1>10. Turn(buffer, Sooner)' /\ Waiting' = Waiting
    BY <1>1, <1>3, BufferStays DEF FlowInv, Within
  <1>11. Turn(received, SoonerOrVague)' /\ Given' = Given
    BY <1>1, <1>3, ReceivedStays DEF FlowInv, Within
  <1>12. Known' /\ Across'
    BY <1>1, <1>3, <1>6, <1>9, <1>10, <1>11, StaysInTurn DEF FlowInv
  <1>13. Within'
    <2>1. \A l, m \in Loops : loop'[l] \in Frames /\ loop'[l] = loop'[m] => l = m
      BY <1>1 DEF FlowInv, Within
    <2>2. QED
      BY <1>7, <1>8, <1>10, <1>11, <2>1 DEF Within, Loops, Frames
  <1>14. QED
    BY <1>2, <1>12, <1>13 DEF FlowInv

LEMMA FlowStarts == Init => FlowInv
  <1>. SUFFICES ASSUME Init PROVE FlowInv
    OBVIOUS
  <1>1. /\ accepted = <<>> /\ buffer = <<>> /\ received = <<>>
        /\ \A k \in Loops : stream[k] = <<>> /\ loop[k] \notin Frames
        /\ \A c \in Callers : write[c].pc = "idle"
    BY NotAFrame DEF Init
  <1>2. Range(<<>>) = {} /\ \A R : Turn(<<>>, R)
    BY EmptySeq DEF Range, Turn
  <1>3. Waiting = {} /\ InHands = {} /\ Given = {} /\ \A k \in Loops : onWire[k] = {}
    BY <1>1, <1>2 DEF Waiting, InHands, Given, onWire
  <1>4. UnderWay = {}
    BY <1>3 DEF UnderWay
  <1>5. Fresh /\ Numbering /\ Known /\ Across
    BY <1>1, <1>2, <1>3, <1>4 DEF Fresh, Numbering, Known, Across, InTurn
  <1>6. Within
    BY <1>1, <1>2, <1>3 DEF Within
  <1>7. QED
    BY <1>5, <1>6 DEF FlowInv

LEMMA FlowStays == AccountInv /\ FlowInv /\ [Next]_vars => FlowInv'
  <1>. SUFFICES ASSUME AccountInv, FlowInv, [Next]_vars PROVE FlowInv'
    OBVIOUS
  <1>1. connects \in Nat /\ connects >= connects
    BY DEF AccountInv, Kinds
  <1>2. ASSUME NEW c \in Callers, Try(c) \/ Retry(c)
        PROVE  FlowInv'
    <2>1. UNCHANGED <<calls, connects, loop, stream, received>> /\ write[c].pc # "idle"
      BY <1>2 DEF Try, Retry, listenerVars
    <2>2. CASE Enqueue(c)
      BY <2>1, <2>2, EnqueueFlows
    <2>3. CASE ~Enqueue(c)
      <3>1. /\ UNCHANGED <<accepted, buffer>>
            /\ \E pc \in {"evict", "idle"} : write' = [write EXCEPT ![c].pc = pc]
        BY <1>2, <2>3 DEF Try, Retry
      <3>2. \A d \in Callers : write'[d].frame = write[d].frame /\
                               (write'[d].pc # "idle" => write[d].pc # "idle")
        BY <2>1, <3>1, WriteMoves DEF AccountInv, Kinds
      <3>3. QED
        BY <1>1, <2>1, <3>1, <3>2, QuietFlows
    <2>4. QED
      BY <2>2, <2>3
  <1>3. CASE Connect
    <2>1. /\ connects' = connects + 1 /\ connects < MaxConnects
          /\ loop' = [loop EXCEPT ![connects + 1] = NoFrame]
          /\ UNCHANGED <<calls, write, accepted, buffer, stream, received>>
      BY <1>3 DEF Connect, writerVars, listenerVars
    <2>2. \A l \in Loops : loop'[l] \in Frames => loop'[l] = loop[l]
      BY <2>1, NotAFrame DEF AccountInv, Kinds
    <2>3. QED
      BY <1>1, <2>1, <2>2, QuietFlows
  <1>4. CASE Close \/ \E l \in Loops : EndLoop(l) \/ Accept(l)
    <2>1. UNCHANGED <<calls, write, accepted, buffer, stream, received, connects>>
      BY <1>4 DEF Close, EndLoop, Accept, writerVars, listenerVars
    <2>2. \A m \in Loops : loop'[m] \in Frames => loop'[m] = loop[m]
      <3>1. ASSUME NEW l \in Loops, EndLoop(l)
            PROVE  \A m \in Loops : loop'[m] \in Frames => loop'[m] = loop[m]
        BY <3>1, NotAFrame DEF EndLoop, AccountInv, Kinds
      <3>2. CASE loop' = loop
        BY <3>2
      <3>3. QED
        BY <1>4, <3>1, <3>2 DEF Close, Accept
    <2>3. QED
      BY <1>1, <2>1, <2>2, QuietFlows
  <1>5. CASE UNCHANGED vars
    BY <1>1, <1>5, QuietFlows DEF vars
  <1>6. CASE \E c \in Callers : BeginWrite(c) \/ Evict(c)
    BY <1>6, BeginWriteFlows, EvictFlows
  <1>7. CASE \E l \in Loops : Take(l) \/ Forward(l) \/ ReadFrame(l) \/ EndConnection(l)
    BY <1>7, TakeFlows, ForwardFlows, ReadFlows, EndConnectionFlows
  <1>8. QED
    BY <1>2, <1>3, <1>4, <1>5, <1>6, <1>7 DEF Next, Loop, Listener

LEMMA FlowAlways == Spec => []FlowInv
  BY AccountsAlways, FlowStarts, FlowStays, PTL DEF Spec

(* GivenAsWritten: ReceivedAsWritten for any payloads, traces, callers and *)
(* connections: the engine is given no frame twice, on one connection in   *)
(* the order of acceptance, and reads in it what was put into it.          *)
THEOREM GivenAsWritten == Spec => []ReceivedAsWritten
  <1>1. AccountInv /\ FlowInv => ReceivedAsWritten
    <2>. SUFFICES ASSUME AccountInv, FlowInv,
                         NEW i \in DOMAIN received, NEW j \in DOMAIN received,
                         received[i] # Garbage, received[j] # Garbage
                  PROVE  /\ i < j =>
                              /\ received[i] # received[j]
                              /\ connects = 1 => Position(received[i]) < Position(received[j])
                         /\ Content[received[i]].via = "WriteRaw" =>
                              parse_frame(Written(received[i])) = Meant(received[i])
      BY DEF ReceivedAsWritten
    <2>1. i \in 1 .. Len(received) /\ j \in 1 .. Len(received)
      BY LenProperties DEF AccountInv, Kinds
    <2>2. received[i] \in Frames /\ received[j] \in Frames
      BY <2>1, ElementOfSeq DEF AccountInv, Kinds
    <2>3. ASSUME i < j
          PROVE  received[i] # received[j] /\ <<received[i], received[j]>> \in Sooner
      <3>1. <<received[i], received[j]>> \in SoonerOrVague
        BY <2>1, <2>3 DEF FlowInv, Within, Turn
      <3>2. <<received[i], received[j]>> \in Sooner
        BY <3>1 DEF SoonerOrVague
      <3>3. QED
        BY <2>2, <3>2, SoonerIs
    <2>4. ASSUME NEW a \in 1 .. Len(accepted)
          PROVE  Position(accepted[a]) = a
      <3>1. DOMAIN accepted = 1 .. Len(accepted) /\ Len(accepted) \in Nat
        BY LenProperties DEF AccountInv, Kinds
      <3>2. ASSUME NEW b \in 1 .. Len(accepted), accepted[b] = accepted[a]
            PROVE  b = a
        <4>1. ~(a < b) /\ ~(b < a)
          BY <3>2 DEF FlowInv, Numbering, Turn, Unequal
        <4>2. QED
          BY <3>1, <4>1
      <3>3. QED
        BY <3>1, <3>2 DEF Position
    <2>5. ASSUME i < j, connects = 1
          PROVE  Position(received[i]) < Position(received[j])
      <3>1. PICK a \in 1 .. Len(accepted), b \in 1 .. Len(accepted) :
              a < b /\ accepted[a] = received[i] /\ accepted[b] = received[j]
        BY <2>2, <2>3, <2>5, SoonerIs
      <3>2. QED
        BY <2>4, <3>1
    <2>6. ASSUME Content[received[i]].via = "WriteRaw"
          PROVE  parse_frame(Written(received[i])) = Meant(received[i])
      <3>. DEFINE c == Content[received[i]]
      <3>1. c.payload \in Seq(Byte) /\ IsTrace(c.trace)
        BY <2>2, ContentAssumption
      <3>2. c.via # "Write"
        BY <2>6
      <3>3. Written(received[i]) = SerializeFrameTraced(c.payload, c.trace)
        BY <3>2 DEF Written
      <3>4. Meant(received[i]) =
              [payload |-> c.payload,
               trace |-> IF c.trace = <<>> THEN <<>>
                         ELSE <<[tag |-> Truncated(c.trace[1].tag),
                                 timestamp |-> c.trace[1].timestamp]>>]
        BY <3>2 DEF Meant
      <3>. HIDE DEF c
      <3>5. QED
        BY <3>1, <3>3, <3>4, FrameRoundTrip
    <2>7. QED
      BY <2>3, <2>5, <2>6
  <1>2. QED
    BY <1>1, AccountsAlways, FlowAlways, PTL
=============================================================================
