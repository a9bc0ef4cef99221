------------------------ MODULE MessageBroker_proofs ------------------------
(***************************************************************************)
(* Proofs about the message broker, for any topics, messages, clients and  *)
(* sizes: nothing a publisher was refused is ever handed out, and the      *)
(* broker implements a lossy topic; and about the Router of the same       *)
(* service: what it accepted is kept, and nothing acknowledged is sent     *)
(* again.                                                                  *)
(***************************************************************************)
EXTENDS MessageBroker, BrokerRouter, FiniteSetTheorems, SequenceTheorems,
        WellFoundedInduction, TLAPS

-----------------------------------------------------------------------------
(* What a sequence holds after an element enters or leaves it.             *)
LEMMA RangeOfAppend ==
  ASSUME NEW S, NEW s \in Seq(S), NEW x \in S
  PROVE  Range(Append(s, x)) = Range(s) \cup {x}
  <1>. DEFINE u == Append(s, x)
  <1>1. /\ u \in Seq(S) /\ Len(u) = Len(s) + 1 /\ u[Len(s) + 1] = x
        /\ \A i \in 1 .. Len(s) : u[i] = s[i]
    BY AppendProperties
  <1>. HIDE DEF u
  <1>2. Len(s) \in Nat /\ DOMAIN s = 1 .. Len(s) /\ DOMAIN u = 1 .. Len(s) + 1
    BY <1>1, LenProperties
  <1>3. Range(u) = Range(s) \cup {x}
    BY <1>1, <1>2 DEF Range
  <1>4. QED
    BY <1>3 DEF u

LEMMA RangeOfTail ==
  ASSUME NEW S, NEW s \in Seq(S), s # <<>>
  PROVE  Range(Tail(s)) \subseteq Range(s) /\ Head(s) \in Range(s)
  <1>. DEFINE u == Tail(s)
  <1>1. u \in Seq(S) /\ Len(u) = Len(s) - 1 /\ \A i \in 1 .. Len(u) : u[i] = s[i + 1]
    BY HeadTailProperties
  <1>. HIDE DEF u
  <1>2. /\ Len(s) \in Nat \ {0} /\ DOMAIN s = 1 .. Len(s) /\ DOMAIN u = 1 .. Len(s) - 1
    BY <1>1, LenProperties, EmptySeq
  <1>3. Range(u) \subseteq Range(s)
    BY <1>1, <1>2 DEF Range
  <1>4. Head(s) \in Range(s)
    <2>1. Head(s) = s[1] /\ 1 \in DOMAIN s
      BY <1>2
    <2>2. QED
      BY <2>1 DEF Range
  <1>5. QED
    BY <1>3, <1>4 DEF u

LEMMA RangeOfConcat ==
  ASSUME NEW S, NEW s \in Seq(S), NEW t \in Seq(S)
  PROVE  Range(s \o t) = Range(s) \cup Range(t)
  <1>. DEFINE u == s \o t
  <1>1. /\ u \in Seq(S) /\ Len(u) = Len(s) + Len(t)
        /\ \A i \in 1 .. Len(s) + Len(t) : u[i] = IF i <= Len(s) THEN s[i] ELSE t[i - Len(s)]
    BY ConcatProperties
  <1>. HIDE DEF u
  <1>2. /\ Len(s) \in Nat /\ Len(t) \in Nat /\ DOMAIN s = 1 .. Len(s) /\ DOMAIN t = 1 .. Len(t)
        /\ DOMAIN u = 1 .. Len(s) + Len(t)
    BY <1>1, LenProperties
  <1>3. ASSUME NEW x \in Range(u) PROVE x \in Range(s) \cup Range(t)
    <2>1. PICK i \in 1 .. Len(s) + Len(t) : x = u[i]
      BY <1>2 DEF Range
    <2>2. CASE i <= Len(s)
      <3>1. i \in DOMAIN s /\ x = s[i]
        BY <1>1, <1>2, <2>1, <2>2
      <3>2. QED
        BY <3>1 DEF Range
    <2>3. CASE ~(i <= Len(s))
      <3>1. i - Len(s) \in DOMAIN t /\ x = t[i - Len(s)]
        BY <1>1, <1>2, <2>1, <2>3
      <3>2. QED
        BY <3>1 DEF Range
    <2>4. QED
      BY <2>2, <2>3
  <1>4. ASSUME NEW x \in Range(s) PROVE x \in Range(u)
    BY <1>1, <1>2 DEF Range
  <1>5. ASSUME NEW x \in Range(t) PROVE x \in Range(u)
    <2>1. PICK i \in 1 .. Len(t) : x = t[i]
      BY <1>2 DEF Range
    <2>2. Len(s) + i \in DOMAIN u /\ u[Len(s) + i] = x
      BY <1>1, <1>2, <2>1
    <2>3. QED
      BY <2>2 DEF Range
  <1>6. QED
    BY <1>3, <1>4, <1>5 DEF u

(* The queue of a topic is three sequences one after another: what moves   *)
(* between them, enters at the end or leaves at the front.                 *)
LEMMA AppendToBoth ==
  ASSUME NEW S, NEW l \in Seq(S), NEW c \in Seq(S), NEW x \in S
  PROVE  l \o Append(c, x) = Append(l \o c, x)
  <1>. DEFINE e == <<x>>
  <1>1. e \in Seq(S) /\ l \o c \in Seq(S)
    BY ConcatProperties
  <1>2. Append(c, x) = c \o e /\ Append(l \o c, x) = (l \o c) \o e
    BY <1>1, AppendIsConcat
  <1>. HIDE DEF e
  <1>3. (l \o c) \o e = l \o (c \o e)
    BY <1>1, ConcatAssociative
  <1>4. QED
    BY <1>2, <1>3

LEMMA EnterAtTheEnd ==
  ASSUME NEW S, NEW b \in Seq(S), NEW h \in Seq(S), NEW c \in Seq(S), NEW x \in S
  PROVE  b \o h \o Append(c, x) = Append(b \o h \o c, x)
  <1>1. PICK l \in Seq(S) : l = b \o h
    BY ConcatProperties
  <1>2. l \o Append(c, x) = Append(l \o c, x)
    BY AppendToBoth
  <1>3. QED
    BY <1>1, <1>2

LEMMA Regroup ==
  ASSUME NEW S, NEW b \in Seq(S), NEW e \in Seq(S), NEW d \in Seq(S)
  PROVE  (b \o <<>>) \o (e \o d) = (b \o e) \o d
  <1>1. b \o <<>> = b
    BY ConcatEmptySeq
  <1>2. (b \o e) \o d = b \o (e \o d)
    BY ConcatAssociative
  <1>3. QED
    BY <1>1, <1>2

LEMMA HeadFirst ==
  ASSUME NEW S, NEW c \in Seq(S), c # <<>>
  PROVE  <<Head(c)>> \in Seq(S) /\ Tail(c) \in Seq(S) /\ c = <<Head(c)>> \o Tail(c)
  <1>. DEFINE e == <<Head(c)>>
              d == Tail(c)
  <1>1. e \in Seq(S) /\ d \in Seq(S) /\ Head(c) \in S /\ Len(e) = 1 /\ e[1] = Head(c)
    BY HeadTailProperties
  <1>2. c = e \o d
    <2>1. Len(d) = Len(c) - 1 /\ \A i \in 1 .. Len(d) : d[i] = c[i + 1]
      BY HeadTailProperties
    <2>2. Len(c) \in Nat \ {0} /\ Head(c) = c[1]
      BY EmptySeq
    <2>. HIDE DEF e, d
    <2>3. /\ e \o d \in Seq(S) /\ Len(e \o d) = Len(e) + Len(d)
          /\ \A i \in 1 .. Len(e) + Len(d) : (e \o d)[i] = IF i <= Len(e) THEN e[i] ELSE d[i - Len(e)]
      BY <1>1, ConcatProperties
    <2>4. Len(e \o d) = Len(c)
      BY <1>1, <2>1, <2>2, <2>3
    <2>5. ASSUME NEW i \in 1 .. Len(c) PROVE c[i] = (e \o d)[i]
      <3>1. CASE i = 1
        BY <1>1, <2>1, <2>2, <2>3, <3>1
      <3>2. CASE i # 1
        <4>1. i - 1 \in 1 .. Len(d) /\ ~(i <= 1) /\ (i - 1) + 1 = i
          BY <2>1, <2>2, <3>2
        <4>2. d[i - 1] = c[i]
          BY <2>1, <4>1
        <4>3. QED
          BY <1>1, <2>1, <2>2, <2>3, <4>1, <4>2
      <3>3. QED
        BY <3>1, <3>2
    <2>6. QED
      BY <2>3, <2>4, <2>5, SeqEqual
  <1>3. QED
    BY <1>1, <1>2

LEMMA MoveToHand ==
  ASSUME NEW S, NEW b \in Seq(S), NEW c \in Seq(S), c # <<>>
  PROVE  b \o <<>> \o c = b \o <<Head(c)>> \o Tail(c)
  <1>1. PICK e \in Seq(S), d \in Seq(S) : e = <<Head(c)>> /\ d = Tail(c) /\ c = e \o d
    BY HeadFirst
  <1>2. (b \o <<>>) \o (e \o d) = (b \o e) \o d
    BY Regroup
  <1>3. QED
    BY <1>1, <1>2

LEMMA OnlyElement ==
  ASSUME NEW S, NEW h \in Seq(S), h # <<>>, Len(h) <= 1
  PROVE  Head(h) \in S /\ h = <<Head(h)>> /\ Range(h) = {Head(h)}
  <1>1. PICK n \in Nat : n = Len(h)
    BY LenProperties
  <1>2. n = 1
    BY <1>1, EmptySeq
  <1>3. PICK x \in S : x = h[1] /\ x = Head(h)
    BY <1>1, <1>2, ElementOfSeq
  <1>4. <<x>> \in Seq(S) /\ Len(<<x>>) = 1 /\ <<x>>[1] = x /\ Range(<<x>>) = {x}
    BY DEF Range
  <1>5. \A i \in 1 .. Len(h) : h[i] = <<x>>[i]
    BY <1>1, <1>2, <1>3, <1>4
  <1>6. h = <<x>>
    BY <1>1, <1>2, <1>4, <1>5, SeqEqual
  <1>7. QED
    BY <1>3, <1>4, <1>6

LEMMA MoveToBuffer ==
  ASSUME NEW S, NEW b \in Seq(S), NEW x \in S, NEW c \in Seq(S)
  PROVE  Append(b, x) \o <<>> \o c = b \o <<x>> \o c
  <1>1. Append(b, x) = b \o <<x>> /\ Append(b, x) \in Seq(S)
    BY AppendIsConcat, AppendProperties
  <1>2. Append(b, x) \o <<>> = Append(b, x)
    BY <1>1, ConcatEmptySeq
  <1>3. QED
    BY <1>1, <1>2

LEMMA LeaveAtTheFront ==
  ASSUME NEW S, NEW b \in Seq(S), b # <<>>, NEW t \in Seq(S)
  PROVE  Tail(b) \o t = Tail(b \o t) /\ b \o t # <<>>
  <1>. DEFINE d == Tail(b)
              u == b \o t
              v == Tail(u)
              w == d \o t
  <1>1. d \in Seq(S) /\ Len(d) = Len(b) - 1 /\ \A i \in 1 .. Len(d) : d[i] = b[i + 1]
    BY HeadTailProperties
  <1>2. /\ u \in Seq(S) /\ Len(u) = Len(b) + Len(t)
        /\ \A i \in 1 .. Len(b) + Len(t) : u[i] = IF i <= Len(b) THEN b[i] ELSE t[i - Len(b)]
    BY ConcatProperties
  <1>3. Len(b) \in Nat \ {0} /\ Len(t) \in Nat
    BY EmptySeq, LenProperties
  <1>4. u # <<>>
    BY <1>2, <1>3, EmptySeq
  <1>. HIDE DEF d
  <1>5. /\ w \in Seq(S) /\ Len(w) = Len(d) + Len(t)
        /\ \A i \in 1 .. Len(d) + Len(t) : w[i] = IF i <= Len(d) THEN d[i] ELSE t[i - Len(d)]
    BY <1>1, ConcatProperties
  <1>. HIDE DEF u
  <1>6. v \in Seq(S) /\ Len(v) = Len(u) - 1 /\ \A i \in 1 .. Len(v) : v[i] = u[i + 1]
    BY <1>2, <1>4, HeadTailProperties
  <1>. HIDE DEF v, w
  <1>7. Len(w) = Len(v)
    BY <1>1, <1>2, <1>3, <1>5, <1>6
  <1>8. ASSUME NEW i \in 1 .. Len(w) PROVE w[i] = v[i]
    <2>1. i \in 1 .. Len(v) /\ i + 1 \in 1 .. Len(b) + Len(t) /\ i \in 1 .. Len(d) + Len(t)
      BY <1>1, <1>2, <1>3, <1>5, <1>6, <1>7
    <2>2. CASE i <= Len(d)
      <3>1. i \in 1 .. Len(d) /\ i + 1 <= Len(b)
        BY <1>1, <1>3, <2>2
      <3>2. QED
        BY <1>1, <1>2, <1>5, <1>6, <2>1, <2>2, <3>1
    <2>3. CASE ~(i <= Len(d))
      <3>1. ~(i + 1 <= Len(b)) /\ (i + 1) - Len(b) = i - Len(d)
        BY <1>1, <1>3, <2>3
      <3>2. QED
        BY <1>2, <1>5, <1>6, <2>1, <2>3, <3>1
    <2>4. QED
      BY <2>2, <2>3
  <1>9. w = v
    BY <1>5, <1>6, <1>7, <1>8, SeqEqual
  <1>10. QED
    BY <1>4, <1>9 DEF d, u, v, w

LEMMA SplitAtTheBuffer ==
  ASSUME NEW S, NEW b \in Seq(S), b # <<>>, NEW t \in Seq(S)
  PROVE  /\ Len(b) \in 1 .. Len(b \o t)
         /\ SubSeq(b \o t, 1, Len(b)) = b
         /\ SubSeq(b \o t, Len(b) + 1, Len(b \o t)) = t
  <1>. DEFINE u == b \o t
              n == Len(b)
              x == SubSeq(u, 1, n)
              y == SubSeq(u, n + 1, Len(u))
  <1>1. /\ u \in Seq(S) /\ Len(u) = n + Len(t)
        /\ \A i \in 1 .. n + Len(t) : u[i] = IF i <= n THEN b[i] ELSE t[i - n]
    BY ConcatProperties
  <1>2. n \in Nat \ {0} /\ Len(t) \in Nat
    BY EmptySeq, LenProperties
  <1>. HIDE DEF u
  <1>3. \A i \in 1 .. Len(u) : u[i] \in S
    BY <1>1, ElementOfSeq
  <1>4. x \in Seq(S) /\ Len(x) = n /\ \A i \in 1 .. n : x[i] = u[i]
    <2>1. \A i \in 1 .. n : u[i] \in S
      BY <1>1, <1>2, <1>3
    <2>2. /\ x \in Seq(S) /\ Len(x) = (IF 1 <= n THEN n - 1 + 1 ELSE 0)
          /\ \A i \in 1 .. n - 1 + 1 : x[i] = u[1 + i - 1]
      BY <1>2, <2>1, SubSeqProperties
    <2>. HIDE DEF x
    <2>3. QED
      BY <1>2, <2>2
  <1>5. y \in Seq(S) /\ Len(y) = Len(t) /\ \A i \in 1 .. Len(t) : y[i] = u[n + i]
    <2>1. \A i \in n + 1 .. Len(u) : u[i] \in S
      BY <1>1, <1>2, <1>3
    <2>2. /\ y \in Seq(S) /\ Len(y) = (IF n + 1 <= Len(u) THEN Len(u) - (n + 1) + 1 ELSE 0)
          /\ \A i \in 1 .. Len(u) - (n + 1) + 1 : y[i] = u[n + 1 + i - 1]
      BY <1>1, <1>2, <2>1, SubSeqProperties
    <2>. HIDE DEF y
    <2>3. Len(u) - (n + 1) + 1 = Len(t) /\ (Len(t) = 0 \/ n + 1 <= Len(u))
      BY <1>1, <1>2
    <2>4. Len(y) = Len(t)
      BY <1>1, <1>2, <2>2, <2>3
    <2>5. \A i \in 1 .. Len(t) : n + 1 + i - 1 = n + i
      BY <1>2
    <2>6. QED
      BY <2>2, <2>3, <2>4, <2>5
  <1>. HIDE DEF x, y
  <1>6. x = b
    BY <1>1, <1>2, <1>4, SeqEqual
  <1>7. y = t
    <2>1. ASSUME NEW i \in 1 .. Len(t) PROVE y[i] = t[i]
      <3>1. n + i \in 1 .. n + Len(t) /\ ~(n + i <= n) /\ (n + i) - n = i
        BY <1>2
      <3>2. QED
        BY <1>1, <1>5, <3>1
    <2>2. QED
      BY <1>5, <2>1, SeqEqual
  <1>8. n \in 1 .. Len(u)
    BY <1>1, <1>2
  <1>9. QED
    BY <1>6, <1>7, <1>8 DEF u, x, y

-----------------------------------------------------------------------------
(* The inductive invariant, topic by topic.  main.go's map and the second  *)
(* look under its lock keep it at one subscription for every topic.        *)
Shape(t) ==
  /\ subs[t] \in Seq(Seq(Messages)) /\ hand[t] \in Seq(Seq(Messages))
  /\ buffer[t] \in Seq(Messages) /\ delivered[t] \in Seq(Messages)
  /\ Len(subs[t]) = (IF t \in buffers THEN 1 ELSE 0) /\ Len(hand[t]) = Len(subs[t])
  /\ t \notin buffers => buffer[t] = <<>>
  /\ t \in buffers => Len(subs[t][1]) <= ChannelSize /\ Len(hand[t][1]) <= 1
  /\ Len(buffer[t]) <= MaxSize

Everything(t) ==
  (IF t \in buffers THEN Range(subs[t][1]) \cup Range(hand[t][1]) ELSE {})
    \cup Range(buffer[t]) \cup Range(delivered[t])

Answered(t) == \A m \in Everything(t) : m \in Valid /\ TopicOf[m] = t /\ answer[m] = "ok"

Kinds ==
  /\ subs \in [Topics -> Seq(Seq(Messages))] /\ hand \in [Topics -> Seq(Seq(Messages))]
  /\ buffer \in [Topics -> Seq(Messages)] /\ delivered \in [Topics -> Seq(Messages)]
  /\ closed \in BOOLEAN /\ stopped \in BOOLEAN
  /\ buffers \subseteq Topics
  /\ request \in [Clients -> [pc : {"idle", "create", "drain"}, topic : Topics]]
  /\ answer \in [Messages -> Answers]

BrokerInv == Kinds /\ \A t \in Topics : Shape(t) /\ Answered(t)

(* The one channel of a topic and the goroutine's hand.                    *)
LEMMA OneChannel ==
  ASSUME NEW t, Shape(t)
  PROVE  /\ t \in buffers => /\ DOMAIN subs[t] = {1} /\ subs[t] # <<>> /\ DOMAIN hand[t] = {1}
                             /\ subs[t][1] \in Seq(Messages) /\ hand[t][1] \in Seq(Messages)
                             /\ Queue(t) = buffer[t] \o hand[t][1] \o subs[t][1]
         /\ t \notin buffers => subs[t] = <<>> /\ hand[t] = <<>> /\ DOMAIN subs[t] = {} /\ Queue(t) = <<>>
  <1>1. /\ subs[t] \in Seq(Seq(Messages)) /\ hand[t] \in Seq(Seq(Messages))
        /\ Len(subs[t]) = (IF t \in buffers THEN 1 ELSE 0) /\ Len(hand[t]) = Len(subs[t])
    BY DEF Shape
  <1>2. DOMAIN subs[t] = 1 .. Len(subs[t]) /\ DOMAIN hand[t] = 1 .. Len(hand[t])
    BY <1>1, LenProperties
  <1>3. ASSUME t \in buffers
        PROVE  /\ DOMAIN subs[t] = {1} /\ subs[t] # <<>> /\ DOMAIN hand[t] = {1}
               /\ subs[t][1] \in Seq(Messages) /\ hand[t][1] \in Seq(Messages)
    <2>1. Len(subs[t]) = 1 /\ Len(hand[t]) = 1 /\ 1 .. 1 = {1}
      BY <1>1, <1>3
    <2>2. subs[t][1] \in Seq(Messages) /\ hand[t][1] \in Seq(Messages)
      BY <1>1, <2>1, ElementOfSeq
    <2>3. subs[t] # <<>>
      BY <2>1
    <2>4. QED
      BY <1>2, <2>1, <2>2, <2>3
  <1>4. ASSUME t \notin buffers
        PROVE  subs[t] = <<>> /\ hand[t] = <<>> /\ DOMAIN subs[t] = {}
    <2>1. Len(subs[t]) = 0 /\ Len(hand[t]) = 0 /\ 1 .. 0 = {}
      BY <1>1, <1>4
    <2>2. subs[t] = <<>> /\ hand[t] = <<>>
      BY <1>1, <2>1, EmptySeq
    <2>3. QED
      BY <1>2, <2>1, <2>2
  <1>5. QED
    BY <1>3, <1>4 DEF Queue

LEMMA EverythingIs ==
  ASSUME NEW t, Shape(t) PROVE Waiting(t) \cup Range(delivered[t]) = Everything(t)
  <1>1. CASE t \in buffers
    <2>1. DOMAIN subs[t] = {1}
      BY <1>1, OneChannel
    <2>2. QED
      BY <1>1, <2>1 DEF Waiting, Everything
  <1>2. CASE t \notin buffers
    <2>1. DOMAIN subs[t] = {}
      BY <1>2, OneChannel
    <2>2. QED
      BY <1>2, <2>1 DEF Waiting, Everything
  <1>3. QED
    BY <1>1, <1>2

LEMMA QueueIsHeld ==
  ASSUME NEW t, Shape(t) PROVE Range(Queue(t)) \cup Range(delivered[t]) \subseteq Everything(t)
  <1>1. CASE t \in buffers
    <2>. DEFINE s == subs[t][1]
                h == hand[t][1]
                b == buffer[t]
    <2>1. s \in Seq(Messages) /\ h \in Seq(Messages) /\ b \in Seq(Messages) /\ Queue(t) = b \o h \o s
      BY <1>1, OneChannel DEF Shape
    <2>2. Everything(t) = Range(s) \cup Range(h) \cup Range(b) \cup Range(delivered[t])
      BY <1>1 DEF Everything
    <2>. HIDE DEF b, h, s
    <2>3. b \o h \in Seq(Messages) /\ Range(b \o h) = Range(b) \cup Range(h)
      BY <2>1, ConcatProperties, RangeOfConcat
    <2>. DEFINE l == b \o h
    <2>. HIDE DEF l
    <2>4. Range(l \o s) = Range(l) \cup Range(s)
      <3>1. l \in Seq(Messages)
        BY <2>3 DEF l
      <3>2. QED
        BY <2>1, <3>1, RangeOfConcat
    <2>5. QED
      BY <2>1, <2>2, <2>3, <2>4 DEF l
  <1>2. CASE t \notin buffers
    <2>1. Queue(t) = <<>> /\ Range(<<>>) = {}
      BY <1>2, OneChannel DEF Range
    <2>2. QED
      BY <2>1 DEF Everything
  <1>3. QED
    BY <1>1, <1>2

(* A topic that a step leaves alone.                                       *)
LEMMA SameTopic ==
  ASSUME NEW t \in Topics, Shape(t), Answered(t),
         subs'[t] = subs[t], hand'[t] = hand[t], buffer'[t] = buffer[t],
         delivered'[t] = delivered[t], t \in buffers' <=> t \in buffers,
         \A m \in Everything(t) : answer'[m] = answer[m]
  PROVE  Shape(t)' /\ Answered(t)' /\ Queue(t)' = Queue(t)
  <1>1. Shape(t)' /\ Queue(t)' = Queue(t)
    BY DEF Shape, Queue
  <1>2. Everything(t)' = Everything(t)
    BY DEF Everything
  <1>3. Answered(t)'
    BY <1>2 DEF Answered
  <1>4. QED
    BY <1>1, <1>3

(* A step of the topic, or none, as the abstract specification sees it.    *)
Pending == [t \in Topics |-> Queue(t)]

TopicStep == Topic!TopicNext \/ (Pending' = Pending /\ delivered' = delivered)

LEMMA AllTheSame ==
  ASSUME BrokerInv, Kinds', UNCHANGED <<subs, hand, buffer, delivered, buffers, answer>>
  PROVE  BrokerInv' /\ TopicStep
  <1>1. \A t \in Topics : Shape(t)' /\ Answered(t)' /\ Queue(t)' = Queue(t)
    BY SameTopic DEF BrokerInv
  <1>2. Pending' = Pending
    BY <1>1 DEF Pending
  <1>3. QED
    BY <1>1, <1>2 DEF BrokerInv, TopicStep

LEMMA InitBroker == Init => BrokerInv
  <1>. SUFFICES ASSUME Init PROVE BrokerInv
    OBVIOUS
  <1>1. Kinds
    <2>1. <<>> \in Seq(Messages) /\ <<>> \in Seq(Seq(Messages))
      OBVIOUS
    <2>2. request \in [Clients -> [pc : {"idle", "create", "drain"}, topic : Topics]]
      BY DEF Init
    <2>3. /\ answer \in [Messages -> Answers]
          /\ closed \in BOOLEAN /\ stopped \in BOOLEAN /\ buffers \subseteq Topics
      BY DEF Init, Answers
    <2>4. /\ subs \in [Topics -> Seq(Seq(Messages))] /\ hand \in [Topics -> Seq(Seq(Messages))]
          /\ buffer \in [Topics -> Seq(Messages)] /\ delivered \in [Topics -> Seq(Messages)]
      BY <2>1, Zenon DEF Init
    <2>5. QED
      BY <2>2, <2>3, <2>4 DEF Kinds
  <1>2. ASSUME NEW t \in Topics PROVE Shape(t) /\ Answered(t)
    <2>1. /\ subs[t] = <<>> /\ hand[t] = <<>> /\ buffer[t] = <<>> /\ delivered[t] = <<>>
          /\ t \notin buffers
      BY DEF Init
    <2>2. Shape(t)
      BY <2>1, SizesAssumption DEF Shape
    <2>3. Everything(t) = {}
      BY <2>1 DEF Everything, Range
    <2>4. QED
      BY <2>2, <2>3 DEF Answered
  <1>3. QED
    BY <1>1, <1>2 DEF BrokerInv

LEMMA InitTopic == Init => Topic!TopicInit
  <1>. SUFFICES ASSUME Init PROVE Topic!TopicInit
    OBVIOUS
  <1>1. \A t \in Topics : Queue(t) = <<>>
    BY DEF Init, Queue
  <1>2. QED
    BY <1>1 DEF Topic!TopicInit, Init

(* A step that touches one topic.                                          *)
LEMMA OneTopic ==
  ASSUME BrokerInv, Kinds', NEW t \in Topics, Shape(t)', Answered(t)',
         \A u \in Topics \ {t} :
           /\ subs'[u] = subs[u] /\ hand'[u] = hand[u] /\ buffer'[u] = buffer[u]
           /\ delivered'[u] = delivered[u] /\ (u \in buffers' <=> u \in buffers),
         \A u \in Topics \ {t} : \A m \in Everything(u) : answer'[m] = answer[m]
  PROVE  BrokerInv' /\ Pending' = [Pending EXCEPT ![t] = Queue(t)']
  <1>1. ASSUME NEW u \in Topics \ {t} PROVE Shape(u)' /\ Answered(u)' /\ Queue(u)' = Queue(u)
    BY SameTopic DEF BrokerInv
  <1>2. BrokerInv'
    BY <1>1 DEF BrokerInv
  <1>3. QED
    BY <1>1, <1>2 DEF Pending

LEMMA LookupStep == ASSUME NEW c \in Clients, NEW t \in Topics, BrokerInv, Lookup(c, t)
                    PROVE  BrokerInv' /\ TopicStep
  <1>1. UNCHANGED <<subs, hand, buffer, delivered, buffers, answer, closed, stopped>>
    BY DEF Lookup
  <1>2. request' \in [Clients -> [pc : {"idle", "create", "drain"}, topic : Topics]]
    BY DEF Lookup, BrokerInv, Kinds
  <1>3. Kinds'
    BY <1>1, <1>2 DEF BrokerInv, Kinds
  <1>4. QED
    BY <1>1, <1>3, AllTheSame

LEMMA ShutdownStep == ASSUME BrokerInv, Close \/ Exit PROVE BrokerInv' /\ TopicStep
  <1>1. UNCHANGED <<subs, hand, buffer, delivered, buffers, answer, request>>
    BY DEF Close, Exit
  <1>2. closed' \in BOOLEAN /\ stopped' \in BOOLEAN
    BY DEF Close, Exit, BrokerInv, Kinds
  <1>3. Kinds'
    BY <1>1, <1>2 DEF BrokerInv, Kinds
  <1>4. QED
    BY <1>1, <1>3, AllTheSame

LEMMA RequestMoves ==
  ASSUME NEW c \in Clients, NEW q \in {"idle", "create", "drain"},
         request \in [Clients -> [pc : {"idle", "create", "drain"}, topic : Topics]],
         request' = [request EXCEPT ![c].pc = q]
  PROVE  request' \in [Clients -> [pc : {"idle", "create", "drain"}, topic : Topics]]
  <1>. DEFINE R == [pc : {"idle", "create", "drain"}, topic : Topics]
  <1>1. [request[c] EXCEPT !.pc = q] \in R
    OBVIOUS
  <1>2. request' = [request EXCEPT ![c] = [request[c] EXCEPT !.pc = q]]
    OBVIOUS
  <1>. HIDE DEF R
  <1>3. request \in [Clients -> R]
    BY DEF R
  <1>4. request' \in [Clients -> R]
    BY <1>1, <1>2, <1>3
  <1>5. QED
    BY <1>4 DEF R

LEMMA CreateStep == ASSUME NEW c \in Clients, BrokerInv, Create(c) PROVE BrokerInv' /\ TopicStep
  <1>1. PICK t \in Topics : t = request[c].topic /\ UNCHANGED <<closed, answer, delivered, stopped>>
    BY DEF Create, BrokerInv, Kinds
  <1>2. request' \in [Clients -> [pc : {"idle", "create", "drain"}, topic : Topics]]
    BY RequestMoves DEF Create, BrokerInv, Kinds
  <1>3. CASE t \in buffers
    <2>1. UNCHANGED <<buffers, buffer, subs, hand>>
      BY <1>1, <1>3 DEF Create
    <2>2. Kinds'
      BY <1>1, <1>2, <2>1 DEF BrokerInv, Kinds
    <2>3. QED
      BY <1>1, <2>1, <2>2, AllTheSame
  <1>4. CASE t \notin buffers
    <2>1. /\ buffers' = buffers \cup {t}
          /\ buffer' = [buffer EXCEPT ![t] = <<>>]
          /\ subs' = [subs EXCEPT ![t] = Append(@, <<>>)]
          /\ hand' = [hand EXCEPT ![t] = Append(@, <<>>)]
      BY <1>1, <1>4 DEF Create
    <2>2. /\ Shape(t) /\ Answered(t) /\ subs[t] = <<>> /\ hand[t] = <<>> /\ Queue(t) = <<>>
          /\ buffer[t] = <<>>
      BY <1>1, <1>4, OneChannel DEF BrokerInv, Shape
    <2>3. /\ subs \in [Topics -> Seq(Seq(Messages))] /\ hand \in [Topics -> Seq(Seq(Messages))]
          /\ buffer \in [Topics -> Seq(Messages)] /\ delivered \in [Topics -> Seq(Messages)]
      BY DEF BrokerInv, Kinds
    <2>4. /\ <<>> \in Seq(Messages) /\ Append(<<>>, <<>>) = << <<>> >> /\ Len(<< <<>> >>) = 1
          /\ << <<>> >> \in Seq(Seq(Messages)) /\ << <<>> >>[1] = <<>>
      OBVIOUS
    <2>5. subs'[t] = << <<>> >> /\ hand'[t] = << <<>> >> /\ buffer'[t] = <<>> /\ delivered'[t] = delivered[t]
      BY <1>1, <2>1, <2>2, <2>3, <2>4
    <2>6. Kinds'
      <3>1. /\ subs' \in [Topics -> Seq(Seq(Messages))] /\ hand' \in [Topics -> Seq(Seq(Messages))]
            /\ buffer' \in [Topics -> Seq(Messages)]
        BY <1>1, <2>1, <2>2, <2>3, <2>4
      <3>2. QED
        BY <1>1, <1>2, <2>1, <3>1 DEF BrokerInv, Kinds
    <2>7. Shape(t)'
      <3>1. Len(<<>>) = 0 /\ 0 <= ChannelSize /\ 0 <= 1 /\ 0 <= MaxSize
        BY SizesAssumption
      <3>2. t \in buffers' /\ delivered[t] \in Seq(Messages)
        BY <1>1, <2>1, <2>3
      <3>3. subs'[t][1] = <<>> /\ hand'[t][1] = <<>>
        BY <2>4, <2>5
      <3>4. Len(subs'[t]) = 1 /\ Len(hand'[t]) = 1
        BY <2>4, <2>5
      <3>5. QED
        BY <2>4, <2>5, <3>1, <3>2, <3>3, <3>4 DEF Shape
    <2>8. Answered(t)' /\ Queue(t)' = Queue(t)
      <3>1. Range(<<>>) = {}
        BY DEF Range
      <3>2. subs'[t][1] = <<>> /\ hand'[t][1] = <<>>
        BY <2>4, <2>5
      <3>3. Everything(t)' = Everything(t)
        BY <1>4, <2>1, <2>2, <2>5, <3>1, <3>2 DEF Everything
      <3>4. Queue(t)' = <<>> \o <<>> \o <<>>
        <4>1. subs'[t] # <<>>
          BY <2>4, <2>5
        <4>2. QED
          BY <2>5, <3>2, <4>1 DEF Queue
      <3>5. <<>> \o <<>> \o <<>> = <<>>
        OBVIOUS
      <3>6. QED
        BY <1>1, <2>2, <3>3, <3>4, <3>5 DEF Answered
    <2>9. BrokerInv' /\ Pending' = [Pending EXCEPT ![t] = Queue(t)']
      <3>1. \A u \in Topics \ {t} :
              /\ subs'[u] = subs[u] /\ hand'[u] = hand[u] /\ buffer'[u] = buffer[u]
              /\ delivered'[u] = delivered[u] /\ (u \in buffers' <=> u \in buffers)
        BY <1>1, <2>1, <2>3
      <3>2. QED
        BY <1>1, <2>6, <2>7, <2>8, <3>1, OneTopic
    <2>10. Pending' = Pending
      BY <1>1, <2>8, <2>9 DEF Pending
    <2>11. QED
      BY <1>1, <2>9, <2>10 DEF TopicStep
  <1>5. QED
    BY <1>3, <1>4
(* The three steps of the abstract topic, in the terms of the broker.      *)
LEMMA AbstractSteps ==
  ASSUME NEW t \in Topics
  PROVE  /\ \A m \in Messages :
              /\ \A u \in Topics : m \notin Range(Queue(u)) \cup Range(delivered[u])
              /\ Pending' = [Pending EXCEPT ![t] = Append(Queue(t), m)]
              /\ delivered' = delivered
              => TopicStep
         /\ /\ Len(Queue(t)) > MaxSize
            /\ Pending' = [Pending EXCEPT ![t] = Tail(Queue(t))]
            /\ delivered' = delivered
            => TopicStep
         /\ \A n \in 1 .. Len(Queue(t)) :
              /\ delivered' = [delivered EXCEPT ![t] = @ \o SubSeq(Queue(t), 1, n)]
              /\ Pending' = [Pending EXCEPT ![t] = SubSeq(Queue(t), n + 1, Len(Queue(t)))]
              => TopicStep
  <1>1. \A u \in Topics : Pending[u] = Queue(u)
    BY DEF Pending
  <1>2. ASSUME NEW m \in Messages,
               \A u \in Topics : m \notin Range(Queue(u)) \cup Range(delivered[u]),
               Pending' = [Pending EXCEPT ![t] = Append(Queue(t), m)], delivered' = delivered
        PROVE  TopicStep
    <2>1. Topic!Enter(t, m)
      <3>1. \A u \in Topics : m \notin Topic!Range(Pending[u]) \cup Topic!Range(delivered[u])
        BY <1>1, <1>2 DEF Topic!Range, Range
      <3>2. QED
        BY <1>1, <1>2, <3>1 DEF Topic!Enter, Pending
    <2>2. QED
      BY <2>1 DEF Topic!TopicNext, TopicStep
  <1>3. ASSUME Len(Queue(t)) > MaxSize, Pending' = [Pending EXCEPT ![t] = Tail(Queue(t))],
               delivered' = delivered
        PROVE  TopicStep
    <2>1. Topic!DropOldest(t)
      BY <1>1, <1>3 DEF Topic!DropOldest, Pending
    <2>2. QED
      BY <2>1 DEF Topic!TopicNext, TopicStep
  <1>4. ASSUME NEW n \in 1 .. Len(Queue(t)),
               delivered' = [delivered EXCEPT ![t] = @ \o SubSeq(Queue(t), 1, n)],
               Pending' = [Pending EXCEPT ![t] = SubSeq(Queue(t), n + 1, Len(Queue(t)))]
        PROVE  TopicStep
    <2>1. Topic!HandOut(t, n)
      BY <1>1, <1>4 DEF Topic!HandOut, Pending
    <2>2. n \in 1 .. Len(Pending[t])
      BY <1>1
    <2>3. QED
      BY <2>1, <2>2 DEF Topic!TopicNext, TopicStep, Pending
  <1>5. QED
    BY <1>2, <1>3, <1>4

LEMMA DrainStep == ASSUME NEW c \in Clients, BrokerInv, Drain(c) PROVE BrokerInv' /\ TopicStep
  <1>1. PICK t \in Topics : t = request[c].topic
    BY DEF BrokerInv, Kinds
  <1>2. /\ delivered' = [delivered EXCEPT ![t] = delivered[t] \o buffer[t]]
        /\ buffer' = [buffer EXCEPT ![t] = <<>>]
        /\ UNCHANGED <<subs, hand, closed, buffers, answer, stopped>>
    BY <1>1 DEF Drain
  <1>3. request' \in [Clients -> [pc : {"idle", "create", "drain"}, topic : Topics]]
    BY RequestMoves DEF Drain, BrokerInv, Kinds
  <1>4. /\ subs \in [Topics -> Seq(Seq(Messages))] /\ hand \in [Topics -> Seq(Seq(Messages))]
        /\ buffer \in [Topics -> Seq(Messages)] /\ delivered \in [Topics -> Seq(Messages)]
    BY DEF BrokerInv, Kinds
  <1>5. buffer[t] \in Seq(Messages) /\ delivered[t] \in Seq(Messages) /\ <<>> \in Seq(Messages)
    BY <1>4
  <1>6. delivered[t] \o buffer[t] \in Seq(Messages)
    BY <1>5, ConcatProperties
  <1>7. Kinds'
    <2>1. buffer' \in [Topics -> Seq(Messages)] /\ delivered' \in [Topics -> Seq(Messages)]
      BY <1>2, <1>4, <1>5, <1>6
    <2>2. QED
      BY <1>2, <1>3, <2>1 DEF BrokerInv, Kinds
  <1>8. CASE buffer[t] = <<>>
    <2>1. delivered[t] \o buffer[t] = delivered[t]
      BY <1>5, <1>8, ConcatEmptySeq
    <2>2. buffer' = buffer /\ delivered' = delivered
      BY <1>2, <1>4, <1>8, <2>1
    <2>3. QED
      BY <1>2, <1>7, <2>2, AllTheSame
  <1>9. CASE buffer[t] # <<>>
    <2>1. /\ Shape(t) /\ Answered(t) /\ t \in buffers /\ subs[t] # <<>>
          /\ subs[t][1] \in Seq(Messages) /\ hand[t][1] \in Seq(Messages)
          /\ Queue(t) = buffer[t] \o hand[t][1] \o subs[t][1]
      BY <1>9, OneChannel DEF BrokerInv, Shape
    <2>. DEFINE r == hand[t][1] \o subs[t][1]
    <2>2. r \in Seq(Messages) /\ Queue(t) = buffer[t] \o r
      <3>1. (buffer[t] \o hand[t][1]) \o subs[t][1] = buffer[t] \o r
        <4>. DEFINE b == buffer[t]
                    h == hand[t][1]
                    s == subs[t][1]
        <4>1. b \in Seq(Messages) /\ h \in Seq(Messages) /\ s \in Seq(Messages)
          BY <1>5, <2>1
        <4>. HIDE DEF b, h, s
        <4>2. (b \o h) \o s = b \o (h \o s)
          BY <4>1, ConcatAssociative
        <4>3. QED
          BY <4>2 DEF b, h, s
      <3>2. r \in Seq(Messages)
        BY <2>1, ConcatProperties
      <3>3. QED
        BY <2>1, <3>1, <3>2
    <2>3. /\ subs'[t] = subs[t] /\ hand'[t] = hand[t] /\ buffer'[t] = <<>>
          /\ delivered'[t] = delivered[t] \o buffer[t]
      BY <1>2, <1>4
    <2>4. Queue(t)' = r
      <3>1. <<>> \o hand[t][1] = hand[t][1]
        BY <2>1, ConcatEmptySeq
      <3>2. QED
        BY <2>1, <2>3, <3>1 DEF Queue
    <2>5. Shape(t)'
      <3>1. Len(<<>>) = 0 /\ 0 <= MaxSize
        BY SizesAssumption
      <3>2. QED
        BY <1>2, <1>5, <1>6, <2>1, <2>3, <3>1 DEF Shape
    <2>6. Answered(t)'
      <3>1. Range(delivered[t] \o buffer[t]) = Range(delivered[t]) \cup Range(buffer[t])
        BY <1>5, RangeOfConcat
      <3>2. Range(<<>>) = {}
        BY DEF Range
      <3>3. Everything(t)' = Everything(t)
        BY <1>2, <2>1, <2>3, <3>1, <3>2 DEF Everything
      <3>4. QED
        BY <1>2, <2>1, <3>3 DEF Answered
    <2>7. BrokerInv' /\ Pending' = [Pending EXCEPT ![t] = Queue(t)']
      <3>1. \A u \in Topics \ {t} :
              /\ subs'[u] = subs[u] /\ hand'[u] = hand[u] /\ buffer'[u] = buffer[u]
              /\ delivered'[u] = delivered[u] /\ (u \in buffers' <=> u \in buffers)
        BY <1>2, <1>4
      <3>2. QED
        BY <1>2, <1>7, <2>5, <2>6, <3>1, OneTopic
    <2>8. /\ Len(buffer[t]) \in 1 .. Len(Queue(t))
          /\ SubSeq(Queue(t), 1, Len(buffer[t])) = buffer[t]
          /\ SubSeq(Queue(t), Len(buffer[t]) + 1, Len(Queue(t))) = r
      <3>. HIDE DEF r
      <3>. DEFINE b == buffer[t]
      <3>1. b \in Seq(Messages) /\ b # <<>> /\ r \in Seq(Messages) /\ Queue(t) = b \o r
        BY <1>5, <1>9, <2>2
      <3>. HIDE DEF b
      <3>2. /\ Len(b) \in 1 .. Len(b \o r) /\ SubSeq(b \o r, 1, Len(b)) = b
            /\ SubSeq(b \o r, Len(b) + 1, Len(b \o r)) = r
        BY <3>1, SplitAtTheBuffer
      <3>3. QED
        BY <3>1, <3>2 DEF b
    <2>9. TopicStep
      <3>. HIDE DEF r
      <3>1. /\ delivered' = [delivered EXCEPT ![t] = @ \o SubSeq(Queue(t), 1, Len(buffer[t]))]
            /\ Pending' = [Pending EXCEPT ![t] = SubSeq(Queue(t), Len(buffer[t]) + 1, Len(Queue(t)))]
        BY <1>2, <2>4, <2>7, <2>8
      <3>2. QED
        BY <2>8, <3>1, AbstractSteps
    <2>10. QED
      BY <2>7, <2>9
  <1>10. QED
    BY <1>8, <1>9
LEMMA ReceiveStep == ASSUME NEW t \in Topics, NEW k \in DOMAIN subs[t], BrokerInv, Receive(t, k)
                     PROVE  BrokerInv' /\ TopicStep
  <1>1. Shape(t) /\ Answered(t)
    BY DEF BrokerInv
  <1>2. /\ t \in buffers /\ k = 1 /\ DOMAIN subs[t] = {1} /\ DOMAIN hand[t] = {1} /\ subs[t] # <<>>
        /\ subs[t][1] \in Seq(Messages) /\ hand[t][1] \in Seq(Messages)
        /\ Queue(t) = buffer[t] \o hand[t][1] \o subs[t][1]
    BY <1>1, OneChannel
  <1>. DEFINE s == subs[t][1]
              h == <<Head(s)>>
              d == Tail(s)
              S == Seq(Messages)
  <1>3. /\ s # <<>> /\ hand[t][1] = <<>>
        /\ hand' = [hand EXCEPT ![t][1] = h] /\ subs' = [subs EXCEPT ![t][1] = d]
        /\ UNCHANGED <<closed, buffers, buffer, request, answer, delivered, stopped>>
    BY <1>2 DEF Receive
  <1>4. /\ subs \in [Topics -> Seq(S)] /\ hand \in [Topics -> Seq(S)]
        /\ subs[t] \in Seq(S) /\ hand[t] \in Seq(S) /\ Len(subs[t]) = 1 /\ Len(hand[t]) = 1
    BY <1>1, <1>2 DEF BrokerInv, Kinds, Shape
  <1>5. s \in S /\ d \in S /\ Len(d) = Len(s) - 1 /\ Len(s) \in Nat /\ Head(s) \in Messages /\ Len(s) <= ChannelSize
    <2>1. s \in S /\ Len(s) <= ChannelSize
      BY <1>1, <1>2 DEF Shape
    <2>. HIDE DEF s
    <2>2. QED
      BY <1>3, <2>1, HeadTailProperties, LenProperties
  <1>6. h \in S /\ Len(h) = 1 /\ Range(h) = {Head(s)}
    <2>. DEFINE x == Head(s)
    <2>1. x \in Messages
      BY <1>5
    <2>. HIDE DEF x
    <2>2. <<x>> \in S /\ Len(<<x>>) = 1 /\ Range(<<x>>) = {x}
      BY <2>1 DEF Range
    <2>3. QED
      BY <2>2 DEF x
  <1>7. buffer[t] \o <<>> \o s = buffer[t] \o h \o d /\ Range(d) \subseteq Range(s) /\ Head(s) \in Range(s)
    <2>1. buffer[t] \in S
      BY DEF BrokerInv, Kinds
    <2>. HIDE DEF s
    <2>2. QED
      BY <1>3, <1>5, <2>1, MoveToHand, RangeOfTail
  <1>. HIDE DEF s, h, d, S
  <1>8. /\ subs' = [subs EXCEPT ![t] = [subs[t] EXCEPT ![1] = d]]
        /\ hand' = [hand EXCEPT ![t] = [hand[t] EXCEPT ![1] = h]]
    BY <1>3
  <1>9. /\ subs'[t] \in Seq(S) /\ subs'[t][1] = d /\ Len(subs'[t]) = 1
        /\ hand'[t] \in Seq(S) /\ hand'[t][1] = h /\ Len(hand'[t]) = 1
    <2>1. subs'[t] = [subs[t] EXCEPT ![1] = d] /\ hand'[t] = [hand[t] EXCEPT ![1] = h]
      BY <1>4, <1>8
    <2>2. 1 \in 1 .. Len(subs[t]) /\ 1 \in 1 .. Len(hand[t])
      BY <1>4
    <2>3. QED
      BY <1>4, <1>5, <1>6, <2>1, <2>2, ExceptSeq
  <1>10. Kinds'
    <2>1. subs' \in [Topics -> Seq(S)] /\ hand' \in [Topics -> Seq(S)]
      BY <1>4, <1>8, <1>9
    <2>2. QED
      BY <1>3, <2>1 DEF BrokerInv, Kinds, S
  <1>11. Shape(t)'
    <2>1. t \in buffers' /\ buffer'[t] = buffer[t] /\ delivered'[t] = delivered[t]
      BY <1>2, <1>3
    <2>2. Len(d) <= ChannelSize
      BY <1>5, SizesAssumption
    <2>3. /\ buffer[t] \in Seq(Messages) /\ delivered[t] \in Seq(Messages) /\ Len(buffer[t]) <= MaxSize
      BY <1>1 DEF Shape
    <2>4. subs'[t] \in Seq(Seq(Messages)) /\ hand'[t] \in Seq(Seq(Messages))
      BY <1>9 DEF S
    <2>5. Len(subs'[t][1]) <= ChannelSize /\ Len(hand'[t][1]) <= 1
      <3>1. Len(subs'[t][1]) = Len(d) /\ Len(hand'[t][1]) = Len(h)
        BY <1>9, Zenon
      <3>2. QED
        BY <1>6, <2>2, <3>1
    <2>6. QED
      BY <1>9, <2>1, <2>3, <2>4, <2>5 DEF Shape
  <1>12. Answered(t)'
    <2>1. Everything(t)' \subseteq Everything(t)
      <3>1. Everything(t)' = Range(d) \cup Range(h) \cup Range(buffer[t]) \cup Range(delivered[t])
        BY <1>2, <1>3, <1>9 DEF Everything
      <3>2. Range(s) \cup Range(buffer[t]) \cup Range(delivered[t]) \subseteq Everything(t)
        BY <1>2 DEF Everything, s
      <3>3. QED
        BY <1>6, <1>7, <3>1, <3>2
    <2>2. QED
      BY <1>1, <1>3, <2>1 DEF Answered
  <1>13. Queue(t)' = Queue(t)
    <2>1. subs'[t] # <<>>
      BY <1>9
    <2>2. Queue(t)' = buffer[t] \o h \o d
      BY <1>3, <1>9, <2>1 DEF Queue
    <2>3. Queue(t) = buffer[t] \o <<>> \o s
      BY <1>2, <1>3 DEF s
    <2>4. QED
      BY <1>7, <2>2, <2>3
  <1>14. BrokerInv' /\ Pending' = [Pending EXCEPT ![t] = Queue(t)']
    <2>1. \A u \in Topics \ {t} :
            /\ subs'[u] = subs[u] /\ hand'[u] = hand[u] /\ buffer'[u] = buffer[u]
            /\ delivered'[u] = delivered[u] /\ (u \in buffers' <=> u \in buffers)
      BY <1>3, <1>4, <1>8
    <2>2. QED
      BY <1>3, <1>10, <1>11, <1>12, <2>1, OneTopic
  <1>15. Pending' = Pending
    BY <1>13, <1>14 DEF Pending
  <1>16. QED
    BY <1>3, <1>14, <1>15 DEF TopicStep

LEMMA PushStep == ASSUME NEW t \in Topics, NEW k \in DOMAIN subs[t], BrokerInv, Push(t, k)
                  PROVE  BrokerInv' /\ TopicStep
  <1>1. Shape(t) /\ Answered(t)
    BY DEF BrokerInv
  <1>2. /\ t \in buffers /\ k = 1 /\ subs[t] # <<>>
        /\ subs[t][1] \in Seq(Messages) /\ hand[t][1] \in Seq(Messages)
        /\ Queue(t) = buffer[t] \o hand[t][1] \o subs[t][1]
    BY <1>1, OneChannel
  <1>. DEFINE s == subs[t][1]
              h == hand[t][1]
              b == buffer[t]
              x == Head(h)
              o == IF Len(b) >= MaxSize THEN Tail(b) ELSE b
              a == Append(o, x)
              S == Seq(Messages)
  <1>3. /\ h # <<>> /\ hand' = [hand EXCEPT ![t][1] = <<>>] /\ buffer' = [buffer EXCEPT ![t] = a]
        /\ UNCHANGED <<subs, closed, buffers, request, answer, delivered, stopped>>
    BY <1>2 DEF Push, Pushed
  <1>4. /\ subs \in [Topics -> Seq(S)] /\ hand \in [Topics -> Seq(S)] /\ buffer \in [Topics -> S]
        /\ subs[t] \in Seq(S) /\ hand[t] \in Seq(S) /\ Len(subs[t]) = 1 /\ Len(hand[t]) = 1
        /\ s \in S /\ h \in S /\ b \in S /\ Len(h) <= 1 /\ Len(b) <= MaxSize /\ delivered[t] \in S
        /\ Len(s) <= ChannelSize
    BY <1>1, <1>2 DEF BrokerInv, Kinds, Shape
  <1>. HIDE DEF s, h, b
  <1>5. x \in Messages /\ h = <<x>> /\ Range(h) = {x}
    <2>1. h \in Seq(Messages) /\ h # <<>> /\ Len(h) <= 1
      BY <1>3, <1>4
    <2>2. QED
      BY <2>1, OnlyElement
  <1>6. /\ o \in S /\ Len(o) < MaxSize /\ Range(o) \subseteq Range(b)
        /\ Len(b) >= MaxSize => b # <<>> /\ o = Tail(b)
        /\ ~(Len(b) >= MaxSize) => o = b
    <2>0. Len(b) \in Nat /\ MaxSize \in Nat \ {0}
      BY <1>4, LenProperties, SizesAssumption
    <2>1. CASE Len(b) >= MaxSize
      <3>1. b # <<>>
        BY <2>0, <2>1, <1>4, EmptySeq
      <3>2. Tail(b) \in S /\ Len(Tail(b)) = Len(b) - 1 /\ Range(Tail(b)) \subseteq Range(b)
        BY <1>4, <3>1, HeadTailProperties, RangeOfTail
      <3>3. o = Tail(b)
        BY <2>1
      <3>. HIDE DEF o
      <3>4. Len(o) < MaxSize
        BY <1>4, <2>0, <3>2, <3>3
      <3>5. QED
        BY <2>1, <3>1, <3>2, <3>3, <3>4
    <2>2. CASE ~(Len(b) >= MaxSize)
      <3>1. o = b
        BY <2>2
      <3>. HIDE DEF o
      <3>2. Len(o) < MaxSize
        BY <2>0, <2>2, <3>1
      <3>3. QED
        BY <1>4, <2>2, <3>1, <3>2
    <2>3. QED
      BY <2>1, <2>2
  <1>. HIDE DEF x, o
  <1>7. a \in S /\ Len(a) <= MaxSize /\ Range(a) = Range(o) \cup {x}
    <2>1. a \in S /\ Len(a) = Len(o) + 1
      BY <1>5, <1>6, AppendProperties
    <2>2. Range(a) = Range(o) \cup {x}
      BY <1>5, <1>6, RangeOfAppend
    <2>. HIDE DEF a
    <2>3. QED
      BY <1>6, <2>1, <2>2, LenProperties, SizesAssumption
  <1>8. a \o <<>> \o s = o \o h \o s
    BY <1>4, <1>5, <1>6, MoveToBuffer
  <1>. HIDE DEF a, S
  <1>9. <<>> \in S /\ Len(<<>>) = 0 /\ Range(<<>>) = {}
    BY DEF Range, S
  <1>10. hand' = [hand EXCEPT ![t] = [hand[t] EXCEPT ![1] = <<>>]]
    BY <1>3
  <1>11. /\ hand'[t] \in Seq(S) /\ hand'[t][1] = <<>> /\ Len(hand'[t]) = 1
         /\ buffer'[t] = a /\ subs'[t] = subs[t] /\ delivered'[t] = delivered[t]
    <2>1. hand'[t] = [hand[t] EXCEPT ![1] = <<>>] /\ 1 \in 1 .. Len(hand[t])
      BY <1>4, <1>10
    <2>2. hand'[t] \in Seq(S) /\ hand'[t][1] = <<>> /\ Len(hand'[t]) = 1
      BY <1>4, <1>9, <2>1, ExceptSeq
    <2>3. QED
      BY <1>3, <1>4, <2>2
  <1>12. Kinds'
    <2>1. hand' \in [Topics -> Seq(S)] /\ buffer' \in [Topics -> S]
      BY <1>3, <1>4, <1>7, <1>10, <1>11
    <2>2. QED
      BY <1>3, <2>1 DEF BrokerInv, Kinds, S
  <1>13. Shape(t)'
    <2>1. t \in buffers'
      BY <1>2, <1>3
    <2>2. subs'[t] \in Seq(Seq(Messages)) /\ hand'[t] \in Seq(Seq(Messages)) /\ Len(subs'[t]) = 1
      BY <1>4, <1>11 DEF S
    <2>3. buffer'[t] \in Seq(Messages) /\ Len(buffer'[t]) <= MaxSize /\ delivered'[t] \in Seq(Messages)
      BY <1>4, <1>7, <1>11 DEF S
    <2>4. Len(subs'[t][1]) <= ChannelSize /\ Len(hand'[t][1]) <= 1
      BY <1>4, <1>9, <1>11 DEF s
    <2>5. QED
      BY <1>11, <2>1, <2>2, <2>3, <2>4 DEF Shape
  <1>14. Answered(t)'
    <2>1. Everything(t)' \subseteq Everything(t)
      <3>1. Everything(t)' = Range(subs[t][1]) \cup Range(a) \cup Range(delivered[t])
        BY <1>2, <1>3, <1>9, <1>11 DEF Everything
      <3>2. Range(subs[t][1]) \cup Range(h) \cup Range(b) \cup Range(delivered[t]) = Everything(t)
        BY <1>2 DEF Everything, h, b
      <3>3. QED
        BY <1>5, <1>6, <1>7, <3>1, <3>2
    <2>2. QED
      BY <1>1, <1>3, <2>1 DEF Answered
  <1>15. Queue(t)' = o \o h \o s /\ Queue(t) = b \o h \o s
    <2>1. Queue(t)' = a \o <<>> \o s
      BY <1>2, <1>11 DEF Queue, s
    <2>2. QED
      BY <1>2, <1>8, <2>1 DEF b, h, s
  <1>16. BrokerInv' /\ Pending' = [Pending EXCEPT ![t] = Queue(t)']
    <2>1. \A u \in Topics \ {t} :
            /\ subs'[u] = subs[u] /\ hand'[u] = hand[u] /\ buffer'[u] = buffer[u]
            /\ delivered'[u] = delivered[u] /\ (u \in buffers' <=> u \in buffers)
      BY <1>3, <1>4, <1>10
    <2>2. QED
      BY <1>3, <1>12, <1>13, <1>14, <2>1, OneTopic
  <1>17. TopicStep
    <2>1. CASE ~(Len(b) >= MaxSize)
      <3>1. Queue(t)' = Queue(t)
        BY <1>6, <1>15, <2>1
      <3>2. Pending' = Pending
        BY <1>16, <3>1 DEF Pending
      <3>3. QED
        BY <1>3, <3>2 DEF TopicStep
    <2>2. CASE Len(b) >= MaxSize
      <3>. DEFINE r == h \o s
      <3>1. r \in S /\ (b \o h) \o s = b \o r /\ (o \o h) \o s = o \o r
        <4>1. r \in S
          BY <1>4, ConcatProperties DEF S
        <4>2. (b \o h) \o s = b \o r
          BY <1>4, ConcatAssociative DEF S
        <4>3. (o \o h) \o s = o \o r
          <5>1. o \in Seq(Messages) /\ h \in Seq(Messages) /\ s \in Seq(Messages)
            BY <1>4, <1>6 DEF S
          <5>2. QED
            BY <5>1, ConcatAssociative
        <4>4. QED
          BY <4>1, <4>2, <4>3
      <3>2. Len(r) = Len(h) + Len(s) /\ Len(h) = 1 /\ Len(s) \in Nat
        <4>1. Len(r) = Len(h) + Len(s) /\ Len(s) \in Nat
          BY <1>4, ConcatProperties, LenProperties DEF S
        <4>2. QED
          BY <1>5, <4>1
      <3>. HIDE DEF r
      <3>3. o \o r = Tail(b \o r) /\ Len(b \o r) = Len(b) + Len(r)
        <4>1. Tail(b) \o r = Tail(b \o r)
          BY <1>4, <1>6, <2>2, <3>1, LeaveAtTheFront DEF S
        <4>2. Len(b \o r) = Len(b) + Len(r)
          BY <1>4, <3>1, ConcatProperties DEF S
        <4>3. QED
          BY <1>6, <2>2, <4>1, <4>2
      <3>4. Len(Queue(t)) > MaxSize
        BY <1>4, <1>15, <2>2, <3>1, <3>2, <3>3, LenProperties, SizesAssumption DEF S
      <3>5. Queue(t)' = Tail(Queue(t))
        BY <1>15, <3>1, <3>3
      <3>6. QED
        BY <1>3, <1>16, <3>4, <3>5, AbstractSteps
    <2>3. QED
      BY <2>1, <2>2
  <1>18. QED
    BY <1>16, <1>17
LEMMA PublishStep == ASSUME NEW m \in Messages, BrokerInv, Publish(m) PROVE BrokerInv' /\ TopicStep
  <1>. DEFINE t == TopicOf[m]
              S == Seq(Messages)
  <1>1. /\ t \in Topics /\ Shape(t) /\ Answered(t) /\ answer \in [Messages -> Answers]
        /\ subs \in [Topics -> Seq(S)] /\ hand \in [Topics -> Seq(S)]
    BY TopicOfAssumption DEF BrokerInv, Kinds
  <1>2. UNCHANGED <<hand, closed, buffers, buffer, request, delivered, stopped>> /\ answer[m] # "ok"
    BY DEF Publish
  <1>3. PICK a \in Answers : answer' = [answer EXCEPT ![m] = a]
    BY DEF Publish, Answers
  <1>4. answer' \in [Messages -> Answers]
    BY <1>1, <1>3
  <1>5. ASSUME NEW u \in Topics
        PROVE  m \notin Everything(u) /\ \A n \in Everything(u) : answer'[n] = answer[n]
    <2>1. m \notin Everything(u)
      BY <1>2 DEF Answered, BrokerInv
    <2>2. \A n \in Everything(u) : n \in Messages
      BY ValidAssumption DEF Answered, BrokerInv
    <2>3. QED
      BY <1>1, <1>3, <2>1, <2>2
  <1>6. ASSUME subs' = subs PROVE BrokerInv' /\ TopicStep
    <2>1. Kinds'
      BY <1>2, <1>4, <1>6 DEF BrokerInv, Kinds
    <2>2. ASSUME NEW u \in Topics PROVE Shape(u)' /\ Answered(u)' /\ Queue(u)' = Queue(u)
      BY <1>2, <1>5, <1>6, SameTopic DEF BrokerInv
    <2>3. Pending' = Pending
      BY <2>2 DEF Pending
    <2>4. QED
      BY <1>2, <2>1, <2>2, <2>3 DEF BrokerInv, TopicStep
  <1>7. CASE Send(t, m) /\ Full(t) # {}
    <2>1. t \in buffers /\ DOMAIN subs[t] = {1} /\ 1 \in Full(t)
      BY <1>1, <1>7, OneChannel DEF Full
    <2>2. 1 \notin Reached(t)
      BY <2>1 DEF Reached
    <2>3. subs' = [subs EXCEPT ![t] = [k \in DOMAIN subs[t] |-> subs[t][k]]]
      BY <1>7, <2>1, <2>2 DEF Send
    <2>4. subs[t] = [k \in DOMAIN subs[t] |-> subs[t][k]]
      <3>1. subs[t] \in Seq(S)
        BY <1>1
      <3>. HIDE DEF S
      <3>2. QED
        BY <3>1
    <2>5. subs' = subs
      BY <1>1, <2>3, <2>4
    <2>6. QED
      BY <1>6, <2>5
  <1>8. CASE Send(t, m) /\ Full(t) = {} /\ t \notin buffers
    <2>1. DOMAIN subs[t] = {} /\ subs[t] = <<>>
      BY <1>1, <1>8, OneChannel
    <2>2. [k \in DOMAIN subs[t] |-> IF k \in Reached(t) THEN Append(subs[t][k], m) ELSE subs[t][k]] = <<>>
      BY <2>1
    <2>3. subs' = subs
      BY <1>1, <1>8, <2>1, <2>2 DEF Send
    <2>4. QED
      BY <1>6, <2>3
  <1>9. CASE /\ Send(t, m) /\ Full(t) = {} /\ t \in buffers
             /\ m \in Valid /\ answer' = [answer EXCEPT ![m] = "ok"]
    <2>. DEFINE s == subs[t][1]
                h == hand[t][1]
                b == buffer[t]
                n == Append(s, m)
    <2>1. /\ DOMAIN subs[t] = {1} /\ s \in S /\ h \in S /\ b \in S /\ subs[t] # <<>>
          /\ Queue(t) = b \o h \o s
      BY <1>1, <1>9, OneChannel DEF Shape
    <2>2. Len(s) < ChannelSize /\ Reached(t) = {1}
      <3>1. ~(Len(s) >= ChannelSize)
        BY <1>9, <2>1 DEF Full
      <3>2. Len(s) \in Nat /\ ChannelSize \in Nat
        BY <2>1, LenProperties, SizesAssumption
      <3>3. Reached(t) = {1}
        BY <1>9, <2>1 DEF Reached
      <3>. HIDE DEF s
      <3>4. QED
        BY <3>1, <3>2, <3>3
    <2>3. subs' = [subs EXCEPT ![t] = [k \in {1} |-> n]]
      BY <1>9, <2>1, <2>2 DEF Send
    <2>4. subs'[t] = <<n>>
      <3>1. subs'[t] = [k \in {1} |-> n]
        BY <1>1, <2>3
      <3>. HIDE DEF n
      <3>2. <<n>> = [k \in {1} |-> n]
        OBVIOUS
      <3>3. QED
        BY <3>1, <3>2
    <2>5. n \in S /\ Len(n) = Len(s) + 1 /\ Len(s) \in Nat /\ Range(n) = Range(s) \cup {m}
      BY <2>1, AppendProperties, RangeOfAppend, LenProperties
    <2>6. b \o h \o n = Append(b \o h \o s, m)
      <3>. HIDE DEF b, h, s
      <3>1. QED
        BY <2>1, EnterAtTheEnd
    <2>. HIDE DEF n
    <2>7. /\ subs'[t] \in Seq(S) /\ Len(subs'[t]) = 1 /\ subs'[t][1] = n /\ subs'[t] # <<>>
      BY <2>4, <2>5
    <2>8. Kinds'
      <3>1. subs' \in [Topics -> Seq(S)]
        <4>. HIDE DEF S
        <4>1. QED
          BY <1>1, <2>3, <2>7
      <3>2. QED
        BY <1>2, <1>4, <3>1 DEF BrokerInv, Kinds
    <2>9. Shape(t)'
      <3>1. Len(n) <= ChannelSize
        <4>. HIDE DEF s
        <4>1. QED
          BY <2>2, <2>5, SizesAssumption
      <3>2. /\ hand'[t] = hand[t] /\ buffer'[t] = buffer[t] /\ delivered'[t] = delivered[t]
            /\ t \in buffers' /\ Len(subs[t]) = 1
        BY <1>1, <1>2, <1>9 DEF Shape
      <3>3. Len(subs'[t][1]) <= ChannelSize
        BY <2>7, <3>1
      <3>4. subs'[t] \in Seq(Seq(Messages))
        BY <2>7
      <3>5. QED
        BY <1>1, <1>9, <2>7, <3>2, <3>3, <3>4 DEF Shape
    <2>10. Answered(t)'
      <3>1. Everything(t)' = Everything(t) \cup {m}
        BY <1>2, <1>9, <2>5, <2>7 DEF Everything
      <3>2. answer'[m] = "ok"
        BY <1>1, <1>9
      <3>3. QED
        BY <1>1, <1>5, <1>9, <3>1, <3>2 DEF Answered
    <2>11. Queue(t)' = Append(Queue(t), m)
      BY <1>2, <2>1, <2>6, <2>7 DEF Queue
    <2>12. BrokerInv' /\ Pending' = [Pending EXCEPT ![t] = Queue(t)']
      <3>1. \A u \in Topics \ {t} :
              /\ subs'[u] = subs[u] /\ hand'[u] = hand[u] /\ buffer'[u] = buffer[u]
              /\ delivered'[u] = delivered[u] /\ (u \in buffers' <=> u \in buffers)
        BY <1>1, <1>2, <2>3
      <3>2. QED
        BY <1>1, <1>5, <2>8, <2>9, <2>10, <3>1, OneTopic
    <2>13. \A u \in Topics : m \notin Range(Queue(u)) \cup Range(delivered[u])
      BY <1>5, QueueIsHeld DEF BrokerInv
    <2>14. TopicStep
      BY <1>1, <1>2, <2>11, <2>12, <2>13, AbstractSteps
    <2>15. QED
      BY <2>12, <2>14
  <1>10. QED
    <2>1. CASE subs' = subs
      BY <1>6, <2>1
    <2>2. CASE subs' # subs
      <3>1. /\ m \in Valid /\ Send(t, m)
            /\ answer' = [answer EXCEPT ![m] = IF Full(t) = {} THEN "ok" ELSE "internal error"]
        BY <2>2 DEF Publish
      <3>2. QED
        BY <1>7, <1>8, <1>9, <3>1
    <2>3. QED
      BY <2>1, <2>2
-----------------------------------------------------------------------------
LEMMA StepOfBroker == BrokerInv /\ [Next]_vars => BrokerInv' /\ TopicStep
  <1>. SUFFICES ASSUME BrokerInv, [Next]_vars PROVE BrokerInv' /\ TopicStep
    OBVIOUS
  <1>1. CASE \E m \in Messages : Publish(m)
    BY <1>1, PublishStep
  <1>2. CASE \E c \in Clients : (\E t \in Topics : Lookup(c, t)) \/ Create(c) \/ Drain(c)
    BY <1>2, LookupStep, CreateStep, DrainStep
  <1>3. CASE \E t \in Topics : Goroutine(t)
    BY <1>3, ReceiveStep, PushStep DEF Goroutine
  <1>4. CASE Close \/ Exit
    BY <1>4, ShutdownStep
  <1>5. CASE UNCHANGED vars
    <2>1. /\ UNCHANGED <<subs, hand, buffer, delivered, buffers, answer>>
          /\ UNCHANGED <<closed, stopped, request>>
      BY <1>5 DEF vars
    <2>2. Kinds'
      BY <2>1 DEF BrokerInv, Kinds
    <2>3. QED
      BY <2>1, <2>2, AllTheSame
  <1>6. QED
    BY <1>1, <1>2, <1>3, <1>4, <1>5 DEF Next

LEMMA BrokerInvariant == Spec => []BrokerInv
  <1>1. QED
    BY InitBroker, StepOfBroker, PTL DEF Spec

(* The channel of a topic never holds more than ChannelSize messages, its  *)
(* goroutine at most one and its buffer at most MaxSize, whatever number   *)
(* of clients subscribes at once.                                          *)
THEOREM TypeCorrect == Spec => []TypeOK
  <1>1. BrokerInv => TypeOK
    <2>. SUFFICES ASSUME BrokerInv PROVE TypeOK
      OBVIOUS
    <2>1. ASSUME NEW t \in Topics, NEW k \in DOMAIN subs[t]
          PROVE  Len(subs[t][k]) <= ChannelSize /\ Len(hand[t][k]) <= 1
      <3>1. Shape(t)
        BY DEF BrokerInv
      <3>2. t \in buffers /\ k = 1
        BY <3>1, OneChannel
      <3>3. QED
        BY <3>1, <3>2 DEF Shape
    <2>2. \A t \in Topics : Len(buffer[t]) <= MaxSize
      BY DEF BrokerInv, Shape
    <2>3. QED
      BY <2>1, <2>2 DEF BrokerInv, Kinds, TypeOK
  <1>2. QED
    BY <1>1, BrokerInvariant, PTL

(* Whatever the broker holds or has handed out was answered with success:  *)
(* a publisher that was told of an error can send again without a          *)
(* duplicate, because ChannelTransport.Publish gives up before the first   *)
(* send that could succeed.                                                *)
THEOREM RefusedStaysOut == Spec => []RefusedIsNotDelivered
  <1>1. BrokerInv => RefusedIsNotDelivered
    BY EverythingIs DEF BrokerInv, Answered, RefusedIsNotDelivered
  <1>2. QED
    BY <1>1, BrokerInvariant, PTL

(* The broker implements a lossy topic: every step of a handler or of a    *)
(* goroutine is an Enter, a DropOldest or a HandOut of LossyTopic, or does *)
(* not change what waits and what was handed out.  So a message is handed  *)
(* out at most once, in the order of publishing, and is lost only when     *)
(* more than MaxSize wait.                                                 *)
THEOREM Implementation == Spec => ImplementsLossyTopic
  <1>1. TopicStep => [Topic!TopicNext]_(Topic!topicVars)
    BY DEF TopicStep, Topic!topicVars, Pending
  <1>2. QED
    BY <1>1, InitTopic, StepOfBroker, BrokerInvariant, PTL
    DEF Spec, ImplementsLossyTopic, Topic!TopicSpec
-----------------------------------------------------------------------------
(* The Router of validator.go, for any size of its buffer, any number of   *)
(* messages and any number of arrivals.                                    *)
RouterSizes == BufferSize \in Nat \ {0} /\ MaxMessages \in Nat /\ MaxArrivals \in Nat

LEMMA SizesOfRouter == RouterSizes
  BY BufferSizeAssumption, RouterBoundsAssumption DEF RouterSizes

(* Induction on the naturals, for a set rather than a predicate.           *)
LEMMA SetInduction ==
  ASSUME NEW S, 0 \in S, \A n \in Nat : n \in S => n + 1 \in S
  PROVE  \A n \in Nat : n \in S
  <1>. DEFINE T == Nat \ S
              R == OpToRel(<, Nat)
  <1>. SUFFICES ASSUME T # {} PROVE FALSE
    OBVIOUS
  <1>1. \A m, n \in Nat : m < n => <<m, n>> \in R
    BY DEF OpToRel
  <1>2. IsWellFoundedOn(R, Nat)
    BY NatLessThanWellFounded
  <1>. HIDE DEF R
  <1>3. PICK n \in T : \A m \in T : ~(<<m, n>> \in R)
    BY <1>2, WFMin
  <1>4. n \in Nat /\ n # 0 /\ n - 1 \in Nat /\ n - 1 < n /\ (n - 1) + 1 = n
    OBVIOUS
  <1>5. n - 1 \in T
    BY <1>4
  <1>6. QED
    BY <1>1, <1>3, <1>4, <1>5

(* A finite set of numbers has an increasing enumeration, and only all of  *)
(* its elements are in it.                                                 *)
Increasing(f) == \A i, j \in DOMAIN f : i < j => f[i] < f[j]

LEMMA Enumeration ==
  ASSUME NEW n \in Nat, NEW places \in SUBSET (1 .. n)
  PROVE  /\ Cardinality(places) \in Nat
         /\ \E f \in [1 .. Cardinality(places) -> places] : Increasing(f)
  <1>. DEFINE Enumerated(m) ==
                \A S \in SUBSET (1 .. m) :
                  /\ IsFiniteSet(S) /\ Cardinality(S) \in Nat
                  /\ \E f \in [1 .. Cardinality(S) -> S] : Increasing(f)
              All == {m \in Nat : Enumerated(m)}
  <1>1. 0 \in All
    <2>. SUFFICES ASSUME NEW S \in SUBSET (1 .. 0)
                  PROVE  /\ IsFiniteSet(S) /\ Cardinality(S) \in Nat
                         /\ \E f \in [1 .. Cardinality(S) -> S] : Increasing(f)
      OBVIOUS
    <2>1. S = {}
      OBVIOUS
    <2>2. IsFiniteSet(S) /\ Cardinality(S) = 0
      BY <2>1, FS_EmptySet
    <2>. DEFINE f == [k \in 1 .. 0 |-> k]
    <2>3. f \in [1 .. 0 -> S] /\ Increasing(f)
      BY DEF Increasing
    <2>. HIDE DEF f
    <2>4. 0 \in Nat /\ f \in [1 .. Cardinality(S) -> S]
      BY <2>2, <2>3
    <2>5. QED
      BY <2>2, <2>3, <2>4
  <1>2. ASSUME NEW m \in Nat, m \in All PROVE m + 1 \in All
    <2>. SUFFICES ASSUME NEW S \in SUBSET (1 .. m + 1)
                  PROVE  /\ IsFiniteSet(S) /\ Cardinality(S) \in Nat
                         /\ \E f \in [1 .. Cardinality(S) -> S] : Increasing(f)
      OBVIOUS
    <2>. DEFINE T == S \ {m + 1}
    <2>1. T \in SUBSET (1 .. m)
      OBVIOUS
    <2>2. IsFiniteSet(T) /\ Cardinality(T) \in Nat
      BY <1>2, <2>1
    <2>3. PICK g \in [1 .. Cardinality(T) -> T] : Increasing(g)
      BY <1>2, <2>1
    <2>4. CASE m + 1 \notin S
      <3>1. T = S
        BY <2>4
      <3>2. QED
        BY <2>2, <2>3, <3>1
    <2>5. CASE m + 1 \in S
      <3>. HIDE DEF T
      <3>1. S = T \cup {m + 1} /\ m + 1 \notin T /\ \A x \in T : x \in Nat /\ x < m + 1
        BY <2>1, <2>5 DEF T
      <3>2. IsFiniteSet(S) /\ Cardinality(S) = Cardinality(T) + 1
        BY <2>2, <3>1, FS_AddElement
      <3>3. PICK c \in Nat : c = Cardinality(T)
        BY <2>2
      <3>. DEFINE f == [k \in 1 .. c + 1 |-> IF k = c + 1 THEN m + 1 ELSE g[k]]
      <3>4. f \in [1 .. c + 1 -> S]
        BY <2>3, <3>1, <3>3
      <3>5. Increasing(f)
        <4>. SUFFICES ASSUME NEW i \in 1 .. c + 1, NEW j \in 1 .. c + 1, i < j PROVE f[i] < f[j]
          BY DEF Increasing
        <4>1. i \in 1 .. c /\ f[i] = g[i] /\ g[i] \in T
          BY <2>3, <3>3
        <4>2. CASE j = c + 1
          BY <3>1, <4>1, <4>2
        <4>3. CASE j # c + 1
          <5>1. j \in 1 .. c /\ f[j] = g[j]
            BY <4>3
          <5>2. g[i] < g[j]
            BY <2>3, <3>3, <4>1, <5>1 DEF Increasing
          <5>3. QED
            BY <4>1, <5>1, <5>2
        <4>4. QED
          BY <4>2, <4>3
      <3>6. QED
        BY <3>2, <3>3, <3>4, <3>5
    <2>6. QED
      BY <2>4, <2>5
  <1>3. \A m \in Nat : m \in All
    <2>. HIDE DEF All
    <2>1. QED
      BY <1>1, <1>2, SetInduction
  <1>4. QED
    BY <1>3

(* What AtPlaces makes of a sequence: some of its elements, each with its  *)
(* place, in their order.                                                  *)
Picks(u, s, places) ==
  \E f \in [DOMAIN u -> places] :
    /\ Increasing(f)
    /\ \A k \in DOMAIN u : u[k] = s[f[k]]
    /\ \A p \in places : \E k \in DOMAIN u : f[k] = p

LEMMA AtPlacesPicks ==
  ASSUME NEW S, NEW s \in Seq(S), NEW places \in SUBSET DOMAIN s
  PROVE  /\ AtPlaces(s, places) \in Seq(S)
         /\ Len(AtPlaces(s, places)) <= Len(s)
         /\ Picks(AtPlaces(s, places), s, places)
  <1>. DEFINE u == AtPlaces(s, places)
              c == Cardinality(places)
              place == CHOOSE f \in [1 .. c -> places] : \A i, j \in DOMAIN f : i < j => f[i] < f[j]
  <1>1. Len(s) \in Nat /\ DOMAIN s = 1 .. Len(s) /\ \A i \in DOMAIN s : s[i] \in S
    OBVIOUS
  <1>2. IsFiniteSet(1 .. Len(s)) /\ Cardinality(1 .. Len(s)) = Len(s)
    <2>1. PICK l \in Nat : l = Len(s)
      BY <1>1
    <2>2. IsFiniteSet(1 .. l) /\ Cardinality(1 .. l) = IF 1 > l THEN 0 ELSE l - 1 + 1
      BY FS_Interval
    <2>3. QED
      BY <2>1, <2>2
  <1>3. IsFiniteSet(places) /\ c \in Nat /\ c <= Len(s)
    BY <1>1, <1>2, FS_Subset, FS_CardinalityType
  <1>4. \E f \in [1 .. c -> places] : \A i, j \in DOMAIN f : i < j => f[i] < f[j]
    BY <1>1, Enumeration DEF Increasing
  <1>5. place \in [1 .. c -> places] /\ \A i, j \in DOMAIN place : i < j => place[i] < place[j]
    BY <1>4
  <1>6. u = [k \in 1 .. c |-> s[place[k]]]
    BY DEF AtPlaces, Cardinality
  <1>. HIDE DEF u, c, place
  <1>7. \A k \in 1 .. c : place[k] \in places /\ place[k] \in DOMAIN s
    BY <1>5
  <1>8. u \in Seq(S) /\ Len(u) = c /\ DOMAIN u = 1 .. c
    <2>1. u \in [1 .. c -> S]
      BY <1>1, <1>6, <1>7
    <2>2. QED
      BY <1>3, <2>1
  <1>9. place \in Injection(1 .. c, places)
    <2>1. \A i, j \in 1 .. c : place[i] = place[j] => i = j
      <3>. SUFFICES ASSUME NEW i \in 1 .. c, NEW j \in 1 .. c, place[i] = place[j] PROVE i = j
        OBVIOUS
      <3>1. place[i] \in Nat /\ i \in Nat /\ j \in Nat
        BY <1>1, <1>3, <1>7
      <3>2. ~(i < j) /\ ~(j < i)
        BY <1>5, <3>1
      <3>3. QED
        BY <3>1, <3>2
    <2>2. QED
      BY <1>5, <2>1 DEF Injection, IsInjective
  <1>10. place \in Surjection(1 .. c, places)
    <2>1. Cardinality(1 .. c) = c
      BY <1>3, FS_Interval
    <2>2. QED
      BY <1>3, <1>9, <2>1, FS_Injection DEF c
  <1>11. \A p \in places : \E k \in 1 .. c : place[k] = p
    BY <1>10 DEF Surjection
  <1>12. Picks(u, s, places)
    BY <1>5, <1>6, <1>8, <1>11 DEF Picks, Increasing
  <1>13. QED
    BY <1>3, <1>8, <1>12 DEF u

-----------------------------------------------------------------------------
(* The Router's state.  InTurn says that what was pushed out and what waits *)
(* follow each other as accepted; Counts, that an arrival too many was not *)
(* acknowledged, and that whatever may still be published has none.        *)
FirstIn(s, m, n) == \E i, j \in DOMAIN s : i < j /\ s[i] = m /\ s[j] = n

RouterKinds ==
  /\ routed \in Nat /\ routed <= MaxMessages
  /\ publisher \in BOOLEAN
  /\ messages \in Seq(1 .. routed) /\ Len(messages) <= BufferSize
  /\ evicted \in Seq(1 .. routed) /\ accepted \in Seq(1 .. routed)
  /\ timedOut \subseteq 1 .. routed
  /\ arrivals \in [1 .. MaxMessages -> Nat] /\ unacked \in [1 .. MaxMessages -> Nat]
  /\ \A m \in 1 .. MaxMessages : arrivals[m] <= MaxArrivals

InTurn ==
  /\ \A m \in timedOut : m \notin Range(accepted)
  /\ \A i \in DOMAIN messages : messages[i] \in Range(accepted)
  /\ \A i \in DOMAIN evicted : evicted[i] \in Range(accepted)
  /\ \A i, j \in DOMAIN messages : i < j => FirstIn(accepted, messages[i], messages[j])
  /\ \A i, j \in DOMAIN evicted : i < j => FirstIn(accepted, evicted[i], evicted[j])
  /\ \A i \in DOMAIN evicted, j \in DOMAIN messages : FirstIn(accepted, evicted[i], messages[j])
  /\ IsInjective(messages)

KeptOrGone ==
  \A m \in Range(accepted) : arrivals[m] > 0 \/ m \in Range(messages) \/ m \in Range(evicted)

Open(m) == m \in timedOut \/ m \in Range(messages) \/ m > routed

Counts ==
  \A m \in 1 .. MaxMessages :
    /\ unacked[m] <= arrivals[m] /\ arrivals[m] <= unacked[m] + 1
    /\ Open(m) => arrivals[m] = unacked[m]

RouterInv == RouterKinds /\ InTurn /\ KeptOrGone /\ Counts

-----------------------------------------------------------------------------
(* What publishing does to the counts of one message.                      *)
Arrives(sent, outcome, m) == \E i \in DOMAIN sent : sent[i] = m /\ outcome[i].arrived
LosesAck(sent, outcome, m) ==
  \E i \in DOMAIN sent : sent[i] = m /\ outcome[i].arrived /\ outcome[i].err # "nil"

LEMMA PublishedCounts ==
  ASSUME RouterInv, NEW sent, NEW outcome, Published(sent, outcome)
  PROVE  /\ arrivals' \in [1 .. MaxMessages -> Nat] /\ unacked' \in [1 .. MaxMessages -> Nat]
         /\ \A m \in 1 .. MaxMessages :
              /\ arrivals'[m] = IF Arrives(sent, outcome, m) THEN arrivals[m] + 1 ELSE arrivals[m]
              /\ unacked'[m] = IF LosesAck(sent, outcome, m) THEN unacked[m] + 1 ELSE unacked[m]
  <1>. DEFINE reached == {i \in DOMAIN sent : outcome[i].arrived}
              lost == {i \in reached : outcome[i].err # "nil"}
              R == {sent[i] : i \in reached}
              L == {sent[i] : i \in lost}
  <1>1. /\ arrivals' = Increment(arrivals, R)
        /\ unacked' = Increment(unacked, L)
    BY DEF Published
  <1>2. \A m : (m \in R <=> Arrives(sent, outcome, m)) /\ (m \in L <=> LosesAck(sent, outcome, m))
    BY DEF Arrives, LosesAck
  <1>. HIDE DEF R, L
  <1>3. arrivals \in [1 .. MaxMessages -> Nat] /\ unacked \in [1 .. MaxMessages -> Nat]
    BY DEF RouterInv, RouterKinds
  <1>4. /\ arrivals' = [m \in 1 .. MaxMessages |-> IF m \in R THEN arrivals[m] + 1 ELSE arrivals[m]]
        /\ unacked' = [m \in 1 .. MaxMessages |-> IF m \in L THEN unacked[m] + 1 ELSE unacked[m]]
    BY <1>1 DEF Increment, Numbers
  <1>5. QED
    BY <1>2, <1>3, <1>4

(* accepted only grows: who was first stays first.                         *)
LEMMA FirstStays ==
  ASSUME RouterInv, NEW x \in 1 .. routed', accepted' = Append(accepted, x), routed' \in Nat,
         routed <= routed'
  PROVE  /\ accepted' \in Seq(1 .. routed')
         /\ Range(accepted') = Range(accepted) \cup {x}
         /\ \A m, n : FirstIn(accepted, m, n) => FirstIn(accepted', m, n)
         /\ \A m \in Range(accepted) : FirstIn(accepted', m, x)
  <1>1. accepted \in Seq(1 .. routed')
    <2>1. \A m \in 1 .. routed : m \in 1 .. routed'
      BY DEF RouterInv, RouterKinds
    <2>2. QED
      BY <2>1 DEF RouterInv, RouterKinds
  <1>. DEFINE u == Append(accepted, x)
  <1>2. /\ u \in Seq(1 .. routed') /\ Len(u) = Len(accepted) + 1 /\ u[Len(accepted) + 1] = x
        /\ \A i \in 1 .. Len(accepted) : u[i] = accepted[i]
    BY <1>1, AppendProperties
  <1>3. accepted' = u
    OBVIOUS
  <1>. HIDE DEF u
  <1>4. /\ Len(accepted) \in Nat /\ DOMAIN accepted = 1 .. Len(accepted)
        /\ DOMAIN u = 1 .. Len(accepted) + 1
    BY <1>1, <1>2, LenProperties
  <1>5. Range(u) = Range(accepted) \cup {x}
    BY <1>1, RangeOfAppend DEF u
  <1>6. \A m, n : FirstIn(accepted, m, n) => FirstIn(accepted', m, n)
    BY <1>2, <1>3, <1>4 DEF FirstIn
  <1>7. ASSUME NEW m \in Range(accepted) PROVE FirstIn(accepted', m, x)
    <2>1. PICK i \in DOMAIN accepted : accepted[i] = m
      BY DEF Range
    <2>2. i \in DOMAIN u /\ Len(accepted) + 1 \in DOMAIN u /\ i < Len(accepted) + 1 /\ u[i] = m
      BY <1>2, <1>4, <2>1
    <2>3. QED
      BY <1>2, <1>3, <2>2 DEF FirstIn
  <1>8. QED
    BY <1>2, <1>3, <1>5, <1>6, <1>7

(* Buffer.Add of a message just accepted, with room and without.           *)
Entered(x) ==
  /\ InTurn'
  /\ messages' \in Seq(1 .. routed') /\ Len(messages') <= BufferSize
  /\ evicted' \in Seq(1 .. routed')
  /\ \A m : m \in Range(messages') \/ m \in Range(evicted')
             <=> m \in Range(messages) \/ m \in Range(evicted) \/ m = x
  /\ \A m \in Range(messages') : m = x \/ m \in Range(messages)

LEMMA AddStep ==
  ASSUME RouterSizes, RouterInv, routed' \in Nat, routed <= routed',
         NEW x \in 1 .. routed', x \notin Range(accepted), accepted' = Append(accepted, x),
         \A m \in timedOut' : m \in timedOut /\ m # x,
         Add(x)
  PROVE  Entered(x)
  <1>. DEFINE S == 1 .. routed'
  <1>1. messages \in Seq(S) /\ evicted \in Seq(S)
    <2>1. \A m \in 1 .. routed : m \in 1 .. routed'
      BY DEF RouterInv, RouterKinds
    <2>2. QED
      BY <2>1 DEF RouterInv, RouterKinds
  <1>. HIDE DEF S
  <1>2. x \in S
    BY DEF S
  <1>3. /\ Range(accepted') = Range(accepted) \cup {x}
        /\ \A m, n : FirstIn(accepted, m, n) => FirstIn(accepted', m, n)
        /\ \A m \in Range(accepted) : FirstIn(accepted', m, x)
    BY FirstStays
  <1>4. \A m \in timedOut' : m \notin Range(accepted')
    BY <1>3 DEF RouterInv, InTurn
  <1>5. /\ \A i \in DOMAIN messages : messages[i] \in Range(accepted) /\ messages[i] # x
        /\ \A i \in DOMAIN evicted : evicted[i] \in Range(accepted)
        /\ \A i, j \in DOMAIN messages : i < j => FirstIn(accepted', messages[i], messages[j])
        /\ \A i, j \in DOMAIN evicted : i < j => FirstIn(accepted', evicted[i], evicted[j])
        /\ \A i \in DOMAIN evicted, j \in DOMAIN messages : FirstIn(accepted', evicted[i], messages[j])
        /\ \A i, j \in DOMAIN messages : messages[i] = messages[j] => i = j
    <2>1. InTurn
      BY DEF RouterInv
    <2>2. QED
      BY <1>3, <2>1 DEF InTurn, IsInjective
  <1>6. PICK L \in Nat, E \in Nat : /\ L = Len(messages) /\ DOMAIN messages = 1 .. L
                                     /\ E = Len(evicted) /\ DOMAIN evicted = 1 .. E
    BY <1>1, LenProperties
  <1>7. CASE ~(Len(messages) >= BufferSize)
    <2>1. messages' = Append(messages, x) /\ evicted' = evicted
      BY <1>7 DEF Add
    <2>2. /\ messages' \in Seq(S) /\ Len(messages') = L + 1 /\ messages'[L + 1] = x
          /\ \A i \in 1 .. L : messages'[i] = messages[i]
      BY <1>1, <1>2, <1>6, <2>1, AppendProperties
    <2>3. DOMAIN messages' = 1 .. L + 1
      BY <2>2, LenProperties
    <2>4. Range(messages') = Range(messages) \cup {x}
      BY <1>1, <1>2, <2>1, RangeOfAppend
    <2>5. L + 1 <= BufferSize
      BY <1>6, <1>7 DEF RouterSizes
    <2>6. \A i \in 1 .. L + 1 : i \in 1 .. L \/ i = L + 1
      OBVIOUS
    <2>7. \A i \in DOMAIN messages' : messages'[i] \in Range(accepted')
      BY <1>3, <1>5, <1>6, <2>2, <2>3, <2>6
    <2>8. \A i, j \in DOMAIN messages' : i < j => FirstIn(accepted', messages'[i], messages'[j])
      <3>. SUFFICES ASSUME NEW i \in 1 .. L + 1, NEW j \in 1 .. L + 1, i < j
                    PROVE  FirstIn(accepted', messages'[i], messages'[j])
        BY <2>3
      <3>1. i \in 1 .. L /\ messages'[i] = messages[i]
        BY <2>2
      <3>2. CASE j \in 1 .. L
        BY <1>5, <1>6, <2>2, <3>1, <3>2
      <3>3. CASE j = L + 1
        BY <1>3, <1>5, <1>6, <2>2, <3>1, <3>3
      <3>4. QED
        BY <2>6, <3>2, <3>3
    <2>9. \A i \in DOMAIN evicted, j \in DOMAIN messages' : FirstIn(accepted', evicted[i], messages'[j])
      BY <1>3, <1>5, <1>6, <2>2, <2>3, <2>6
    <2>10. \A i, j \in DOMAIN messages' : messages'[i] = messages'[j] => i = j
      BY <1>5, <1>6, <2>2, <2>3, <2>6
    <2>11. InTurn'
      BY <1>3, <1>4, <1>5, <2>1, <2>7, <2>8, <2>9, <2>10 DEF InTurn, IsInjective
    <2>12. QED
      BY <1>1, <2>1, <2>2, <2>4, <2>5, <2>11 DEF Entered, S
  <1>8. CASE Len(messages) >= BufferSize
    <2>. DEFINE h == Head(messages)
                t == Tail(messages)
    <2>1. messages' = Append(t, x) /\ evicted' = Append(evicted, h)
      BY <1>8 DEF Add
    <2>2. L \in Nat \ {0} /\ L <= BufferSize /\ messages # <<>>
      BY <1>1, <1>6, <1>8, EmptySeq DEF RouterSizes, RouterInv, RouterKinds
    <2>3. /\ h \in S /\ h = messages[1]
          /\ t \in Seq(S) /\ Len(t) = L - 1 /\ \A i \in 1 .. L - 1 : t[i] = messages[i + 1]
      BY <1>1, <1>6, <2>2, HeadTailProperties
    <2>. HIDE DEF h, t
    <2>4. /\ messages' \in Seq(S) /\ Len(messages') = L /\ messages'[L] = x
          /\ \A i \in 1 .. L - 1 : messages'[i] = messages[i + 1]
      BY <1>2, <2>1, <2>2, <2>3, AppendProperties
    <2>5. /\ evicted' \in Seq(S) /\ Len(evicted') = E + 1 /\ evicted'[E + 1] = h
          /\ \A i \in 1 .. E : evicted'[i] = evicted[i]
      BY <1>1, <1>6, <2>1, <2>3, AppendProperties
    <2>6. DOMAIN messages' = 1 .. L /\ DOMAIN evicted' = 1 .. E + 1
      BY <2>4, <2>5, LenProperties
    <2>7. Range(messages') = Range(t) \cup {x} /\ Range(evicted') = Range(evicted) \cup {h}
      BY <1>1, <1>2, <2>1, <2>3, RangeOfAppend
    <2>8. \A m : m \in Range(messages) <=> m \in Range(t) \/ m = h
      <3>1. DOMAIN t = 1 .. L - 1
        BY <2>2, <2>3, LenProperties
      <3>2. ASSUME NEW m \in Range(messages) PROVE m \in Range(t) \/ m = h
        <4>1. PICK i \in 1 .. L : messages[i] = m
          BY <1>6, <3>2 DEF Range
        <4>2. CASE i = 1
          BY <2>3, <4>1, <4>2
        <4>3. CASE i # 1
          <5>1. i - 1 \in 1 .. L - 1 /\ (i - 1) + 1 = i
            BY <4>3
          <5>2. t[i - 1] = m
            BY <2>3, <4>1, <5>1
          <5>3. QED
            BY <3>1, <5>1, <5>2 DEF Range
        <4>4. QED
          BY <4>2, <4>3
      <3>3. ASSUME NEW m \in Range(t) PROVE m \in Range(messages)
        <4>1. PICK i \in 1 .. L - 1 : t[i] = m
          BY <3>1, <3>3 DEF Range
        <4>2. i + 1 \in DOMAIN messages /\ messages[i + 1] = m
          BY <1>6, <2>3, <4>1
        <4>3. QED
          BY <4>2 DEF Range
      <3>4. h \in Range(messages)
        <4>1. 1 \in DOMAIN messages
          BY <1>6, <2>2
        <4>2. QED
          BY <2>3, <4>1 DEF Range
      <3>5. QED
        BY <3>2, <3>3, <3>4
    <2>9. /\ \A i \in 1 .. L : i = L \/ (i \in 1 .. L - 1 /\ i + 1 \in 1 .. L)
          /\ \A i \in 1 .. E + 1 : i \in 1 .. E \/ i = E + 1
          /\ 1 \in 1 .. L
      BY <2>2
    <2>10. \A i \in DOMAIN messages' : messages'[i] \in Range(accepted')
      BY <1>3, <1>5, <1>6, <2>4, <2>6, <2>9
    <2>11. \A i \in DOMAIN evicted' : evicted'[i] \in Range(accepted')
      BY <1>3, <1>5, <1>6, <2>3, <2>5, <2>6, <2>9
    <2>12. \A i, j \in DOMAIN messages' : i < j => FirstIn(accepted', messages'[i], messages'[j])
      <3>. SUFFICES ASSUME NEW i \in 1 .. L, NEW j \in 1 .. L, i < j
                    PROVE  FirstIn(accepted', messages'[i], messages'[j])
        BY <2>6
      <3>1. i \in 1 .. L - 1 /\ i + 1 \in 1 .. L /\ messages'[i] = messages[i + 1]
        BY <2>4
      <3>2. CASE j = L
        BY <1>3, <1>5, <1>6, <2>4, <3>1, <3>2
      <3>3. CASE j # L
        <4>1. j \in 1 .. L - 1 /\ j + 1 \in 1 .. L /\ i + 1 < j + 1
          BY <3>3
        <4>2. messages'[j] = messages[j + 1]
          BY <2>4, <4>1
        <4>3. QED
          BY <1>5, <1>6, <3>1, <4>1, <4>2
      <3>4. QED
        BY <3>2, <3>3
    <2>13. \A i, j \in DOMAIN evicted' : i < j => FirstIn(accepted', evicted'[i], evicted'[j])
      <3>. SUFFICES ASSUME NEW i \in 1 .. E + 1, NEW j \in 1 .. E + 1, i < j
                    PROVE  FirstIn(accepted', evicted'[i], evicted'[j])
        BY <2>6
      <3>1. i \in 1 .. E /\ evicted'[i] = evicted[i]
        BY <2>5
      <3>2. CASE j \in 1 .. E
        BY <1>5, <1>6, <2>5, <3>1, <3>2
      <3>3. CASE j = E + 1
        <4>1. evicted'[j] = messages[1]
          BY <2>3, <2>5, <3>3
        <4>2. FirstIn(accepted', evicted[i], messages[1])
          BY <1>5, <1>6, <2>9, <3>1
        <4>3. QED
          BY <3>1, <4>1, <4>2
      <3>4. QED
        BY <2>9, <3>2, <3>3
    <2>14. \A i \in DOMAIN evicted', j \in DOMAIN messages' : FirstIn(accepted', evicted'[i], messages'[j])
      <3>. SUFFICES ASSUME NEW i \in 1 .. E + 1, NEW j \in 1 .. L
                    PROVE  FirstIn(accepted', evicted'[i], messages'[j])
        BY <2>6
      <3>1. evicted'[i] \in Range(accepted)
        BY <1>5, <1>6, <2>3, <2>5, <2>9
      <3>2. CASE j = L
        BY <1>3, <2>4, <3>1, <3>2
      <3>3. CASE j # L
        <4>1. j \in 1 .. L - 1 /\ j + 1 \in 1 .. L /\ messages'[j] = messages[j + 1] /\ 1 < j + 1
          BY <2>4, <3>3
        <4>2. CASE i \in 1 .. E
          BY <1>5, <1>6, <2>5, <4>1, <4>2
        <4>3. CASE i = E + 1
          <5>1. evicted'[i] = messages[1]
            BY <2>3, <2>5, <4>3
          <5>2. FirstIn(accepted', messages[1], messages[j + 1])
            BY <1>5, <1>6, <2>9, <4>1
          <5>3. QED
            BY <4>1, <5>1, <5>2
        <4>4. QED
          BY <2>9, <4>2, <4>3
      <3>4. QED
        BY <3>2, <3>3
    <2>15. \A i, j \in DOMAIN messages' : messages'[i] = messages'[j] => i = j
      <3>. SUFFICES ASSUME NEW i \in 1 .. L, NEW j \in 1 .. L, messages'[i] = messages'[j] PROVE i = j
        BY <2>6
      <3>1. CASE i = L \/ j = L
        BY <1>5, <1>6, <2>4, <2>9, <3>1
      <3>2. CASE i # L /\ j # L
        <4>1. messages[i + 1] = messages[j + 1] /\ i + 1 \in 1 .. L /\ j + 1 \in 1 .. L
          BY <2>4, <2>9, <3>2
        <4>2. i + 1 = j + 1
          BY <1>5, <1>6, <4>1
        <4>3. QED
          BY <4>2
      <3>3. QED
        BY <3>1, <3>2
    <2>16. InTurn'
      BY <1>4, <2>10, <2>11, <2>12, <2>13, <2>14, <2>15 DEF InTurn, IsInjective
    <2>17. \A m : m \in Range(messages') \/ m \in Range(evicted')
                   <=> m \in Range(messages) \/ m \in Range(evicted) \/ m = x
      BY <2>7, <2>8
    <2>18. \A m \in Range(messages') : m = x \/ m \in Range(messages)
      BY <2>7, <2>8
    <2>19. QED
      BY <2>2, <2>4, <2>5, <2>16, <2>17, <2>18 DEF Entered, S
  <1>9. QED
    BY <1>7, <1>8

-----------------------------------------------------------------------------
(* Route: what one publication, or none, does to the counts.               *)
LEMMA RouteCounts ==
  ASSUME RouterSizes, RouterInv, NEW x \in 1 .. MaxMessages, NEW o \in Outcome,
         Route(x, o)
  PROVE  /\ arrivals' \in [1 .. MaxMessages -> Nat] /\ unacked' \in [1 .. MaxMessages -> Nat]
         /\ \A m \in 1 .. MaxMessages :
              /\ m # x => arrivals'[m] = arrivals[m] /\ unacked'[m] = unacked[m]
              /\ arrivals[m] <= arrivals'[m] /\ arrivals'[m] <= MaxArrivals
         /\ \/ arrivals'[x] = arrivals[x] /\ unacked'[x] = unacked[x] /\ o.err # "nil"
            \/ arrivals'[x] = arrivals[x] + 1 /\ unacked'[x] = unacked[x] + 1 /\ o.err # "nil"
            \/ arrivals'[x] = arrivals[x] + 1 /\ unacked'[x] = unacked[x] /\ o.err = "nil"
  <1>1. /\ arrivals \in [1 .. MaxMessages -> Nat] /\ unacked \in [1 .. MaxMessages -> Nat]
        /\ \A m \in 1 .. MaxMessages : arrivals[m] <= MaxArrivals
    BY DEF RouterInv, RouterKinds
  <1>2. CASE publisher /\ Possible(x, o) /\ Published(<<x>>, <<o>>)
    <2>1. /\ arrivals' \in [1 .. MaxMessages -> Nat] /\ unacked' \in [1 .. MaxMessages -> Nat]
          /\ \A m \in 1 .. MaxMessages :
              /\ arrivals'[m] = IF Arrives(<<x>>, <<o>>, m) THEN arrivals[m] + 1 ELSE arrivals[m]
              /\ unacked'[m] = IF LosesAck(<<x>>, <<o>>, m) THEN unacked[m] + 1 ELSE unacked[m]
      BY <1>2, PublishedCounts
    <2>2. DOMAIN <<x>> = {1} /\ <<x>>[1] = x /\ <<o>>[1] = o
      OBVIOUS
    <2>3. \A m : /\ Arrives(<<x>>, <<o>>, m) <=> m = x /\ o.arrived
                 /\ LosesAck(<<x>>, <<o>>, m) <=> m = x /\ o.arrived /\ o.err # "nil"
      BY <2>2 DEF Arrives, LosesAck
    <2>4. (o.err = "nil" => o.arrived) /\ (o.arrived => arrivals[x] < MaxArrivals)
      BY <1>2 DEF Possible
    <2>5. o.arrived \in BOOLEAN
      BY DEF Outcome
    <2>6. \A m \in 1 .. MaxMessages :
            /\ m # x => arrivals'[m] = arrivals[m] /\ unacked'[m] = unacked[m]
            /\ arrivals[m] <= arrivals'[m]
      <3>. SUFFICES ASSUME NEW m \in 1 .. MaxMessages
                    PROVE  /\ m # x => arrivals'[m] = arrivals[m] /\ unacked'[m] = unacked[m]
                           /\ arrivals[m] <= arrivals'[m]
        OBVIOUS
      <3>1. m # x => arrivals'[m] = arrivals[m] /\ unacked'[m] = unacked[m]
        BY <2>1, <2>3
      <3>2. PICK a \in Nat : a = arrivals[m]
        BY <1>1
      <3>3. arrivals'[m] = a \/ arrivals'[m] = a + 1
        BY <2>1, <3>2
      <3>4. QED
        BY <3>1, <3>2, <3>3
    <2>7. CASE o.arrived
      <3>1. arrivals'[x] = arrivals[x] + 1 /\ arrivals[x] < MaxArrivals
        BY <2>1, <2>3, <2>4, <2>7
      <3>2. unacked'[x] = IF o.err # "nil" THEN unacked[x] + 1 ELSE unacked[x]
        BY <2>1, <2>3, <2>7
      <3>3. arrivals'[x] <= MaxArrivals
        <4>1. PICK a \in Nat, M \in Nat : a = arrivals[x] /\ M = MaxArrivals
          BY <1>1 DEF RouterSizes
        <4>2. a < M /\ arrivals'[x] = a + 1
          BY <3>1, <4>1
        <4>3. QED
          BY <4>1, <4>2
      <3>4. \A m \in 1 .. MaxMessages : arrivals'[m] <= MaxArrivals
        BY <1>1, <2>6, <3>3
      <3>5. QED
        BY <2>1, <2>6, <3>1, <3>2, <3>4
    <2>8. CASE ~o.arrived
      <3>1. arrivals'[x] = arrivals[x] /\ unacked'[x] = unacked[x] /\ o.err # "nil"
        BY <2>1, <2>3, <2>4, <2>8
      <3>2. QED
        BY <1>1, <2>1, <2>6, <3>1
    <2>9. QED
      BY <2>7, <2>8
  <1>3. CASE o = [arrived |-> FALSE, err |-> "error"] /\ UNCHANGED <<arrived, arrivals, unacked>>
    <2>1. o.err # "nil"
      BY <1>3
    <2>2. QED
      BY <1>1, <1>3, <2>1
  <1>4. QED
    BY <1>2, <1>3 DEF Route

(* A message is routed when it is new or timed out before: nothing accepted*)
(* carries its number and no arrival of it was acknowledged.               *)
LEMMA RouteStep ==
  ASSUME RouterSizes, RouterInv, NEW x \in 1 .. MaxMessages, NEW o \in Outcome,
         Route(x, o), routed' \in Nat, routed <= routed', routed' <= MaxMessages,
         x <= routed', \A m \in Nat : m > routed /\ m # x => m > routed',
         x \in timedOut \/ x > routed
  PROVE  RouterInv'
  <1>1. RouterKinds /\ InTurn /\ KeptOrGone /\ Counts
    BY DEF RouterInv
  <1>2. x \in 1 .. routed' /\ routed \in Nat
    BY <1>1 DEF RouterKinds
  <1>3. accepted \in Seq(1 .. routed) /\ Range(accepted) \subseteq 1 .. routed
    <2>1. accepted \in Seq(1 .. routed)
      BY <1>1 DEF RouterKinds
    <2>2. DOMAIN accepted = 1 .. Len(accepted)
      BY <2>1, LenProperties
    <2>3. \A i \in 1 .. Len(accepted) : accepted[i] \in 1 .. routed
      BY <2>1, ElementOfSeq
    <2>4. QED
      BY <2>1, <2>2, <2>3 DEF Range
  <1>4. x \notin Range(accepted)
    BY <1>1, <1>2, <1>3 DEF InTurn
  <1>15. \A m \in Range(accepted) : m \in 1 .. MaxMessages
    <2>1. \A m \in 1 .. routed : m \in 1 .. MaxMessages
      BY <1>1, <1>2 DEF RouterKinds, RouterSizes
    <2>2. QED
      BY <1>3, <2>1
  <1>5. \A m \in Range(messages) : m \in Range(accepted)
    BY <1>1 DEF InTurn, Range
  <1>6. arrivals[x] = unacked[x]
    BY <1>1 DEF Counts, Open
  <1>7. /\ arrivals' \in [1 .. MaxMessages -> Nat] /\ unacked' \in [1 .. MaxMessages -> Nat]
        /\ \A m \in 1 .. MaxMessages :
             /\ m # x => arrivals'[m] = arrivals[m] /\ unacked'[m] = unacked[m]
             /\ arrivals[m] <= arrivals'[m] /\ arrivals'[m] <= MaxArrivals
        /\ \/ arrivals'[x] = arrivals[x] /\ unacked'[x] = unacked[x] /\ o.err # "nil"
           \/ arrivals'[x] = arrivals[x] + 1 /\ unacked'[x] = unacked[x] + 1 /\ o.err # "nil"
           \/ arrivals'[x] = arrivals[x] + 1 /\ unacked'[x] = unacked[x] /\ o.err = "nil"
    BY RouteCounts
  <1>8. arrivals \in [1 .. MaxMessages -> Nat] /\ unacked \in [1 .. MaxMessages -> Nat]
    BY <1>1 DEF RouterKinds
  <1>9. publisher' \in BOOLEAN /\ UNCHANGED publisher
    BY <1>1 DEF Route, RouterKinds
  <1>10. \A m \in 1 .. routed : m \in 1 .. routed'
    BY <1>2
  (* The counts, once it is known which messages may still be published.   *)
  <1>11. ASSUME \A m \in 1 .. MaxMessages : Open(m)' => Open(m),
                o.err = "nil" => ~Open(x)'
         PROVE  Counts'
    <2>. SUFFICES ASSUME NEW m \in 1 .. MaxMessages
                  PROVE  /\ unacked'[m] <= arrivals'[m] /\ arrivals'[m] <= unacked'[m] + 1
                         /\ Open(m)' => arrivals'[m] = unacked'[m]
      BY DEF Counts
    <2>1. PICK a \in Nat, u \in Nat : a = arrivals[m] /\ u = unacked[m]
      BY <1>8
    <2>2. u <= a /\ a <= u + 1 /\ (Open(m) => a = u)
      BY <1>1, <2>1 DEF Counts
    <2>3. CASE m # x
      <3>1. arrivals'[m] = a /\ unacked'[m] = u
        BY <1>7, <2>1, <2>3
      <3>2. QED
        BY <1>11, <2>2, <3>1
    <2>4. CASE m = x
      <3>1. a = u
        BY <1>6, <2>1, <2>4
      <3>2. \/ arrivals'[m] = a /\ unacked'[m] = a
            \/ arrivals'[m] = a + 1 /\ unacked'[m] = a + 1
            \/ arrivals'[m] = a + 1 /\ unacked'[m] = a /\ ~Open(m)'
        BY <1>7, <1>11, <2>1, <2>4, <3>1
      <3>3. QED
        BY <3>2
    <2>5. QED
      BY <2>3, <2>4
  <1>12. CASE o.err = "timeout"
    <2>1. timedOut' = timedOut \cup {x} /\ UNCHANGED <<accepted, messages, evicted>>
      BY <1>12 DEF Route
    <2>2. RouterKinds'
      <3>1. messages \in Seq(1 .. routed') /\ evicted \in Seq(1 .. routed') /\ accepted \in Seq(1 .. routed')
        BY <1>1, <1>10 DEF RouterKinds
      <3>2. timedOut' \subseteq 1 .. routed'
        BY <1>1, <1>2, <1>10, <2>1 DEF RouterKinds
      <3>3. Len(messages) <= BufferSize
        BY <1>1 DEF RouterKinds
      <3>4. QED
        BY <1>7, <1>9, <2>1, <3>1, <3>2, <3>3 DEF RouterKinds
    <2>3. InTurn'
      BY <1>1, <1>4, <2>1 DEF InTurn
    <2>4. KeptOrGone'
      <3>. SUFFICES ASSUME NEW m \in Range(accepted)
                    PROVE  arrivals'[m] > 0 \/ m \in Range(messages) \/ m \in Range(evicted)
        BY <2>1 DEF KeptOrGone
      <3>1. m \in 1 .. MaxMessages
        BY <1>15
      <3>2. QED
        BY <1>1, <1>7, <1>8, <3>1 DEF KeptOrGone
    <2>5. \A m \in 1 .. MaxMessages : Open(m)' => Open(m)
      BY <1>2, <2>1 DEF Open
    <2>6. QED
      BY <1>11, <1>12, <2>2, <2>3, <2>4, <2>5 DEF RouterInv
  <1>13. CASE o.err # "timeout"
    <2>1. /\ accepted' = Append(accepted, x) /\ timedOut' = timedOut \ {x}
          /\ \/ o.err = "nil" /\ UNCHANGED <<messages, evicted>>
             \/ o.err = "error" /\ Add(x)
      BY <1>13 DEF Route
    <2>2. /\ accepted' \in Seq(1 .. routed')
          /\ Range(accepted') = Range(accepted) \cup {x}
          /\ \A m, n : FirstIn(accepted, m, n) => FirstIn(accepted', m, n)
      BY <1>2, <2>1, FirstStays
    <2>3. timedOut' \subseteq 1 .. routed' /\ \A m \in timedOut' : m \in timedOut /\ m # x
      BY <1>1, <1>10, <2>1 DEF RouterKinds
    <2>4. CASE o.err = "nil" /\ UNCHANGED <<messages, evicted>>
      <3>1. RouterKinds'
        <4>1. messages \in Seq(1 .. routed') /\ evicted \in Seq(1 .. routed') /\ Len(messages) <= BufferSize
          BY <1>1, <1>10 DEF RouterKinds
        <4>2. QED
          BY <1>7, <1>9, <2>2, <2>3, <2>4, <4>1 DEF RouterKinds
      <3>2. InTurn'
        BY <1>1, <2>2, <2>3, <2>4 DEF InTurn
      <3>3. KeptOrGone'
        <4>. SUFFICES ASSUME NEW m \in Range(accepted')
                      PROVE  arrivals'[m] > 0 \/ m \in Range(messages) \/ m \in Range(evicted)
          BY <2>4 DEF KeptOrGone
        <4>1. CASE m = x
          BY <1>7, <1>8, <2>4, <4>1
        <4>2. CASE m # x
          <5>1. m \in Range(accepted) /\ m \in 1 .. MaxMessages
            BY <1>15, <2>2, <4>2
          <5>2. QED
            BY <1>1, <1>7, <1>8, <5>1 DEF KeptOrGone
        <4>3. QED
          BY <4>1, <4>2
      <3>4. \A m \in 1 .. MaxMessages : Open(m)' => Open(m)
        BY <1>2, <2>3, <2>4 DEF Open
      <3>5. ~Open(x)'
        BY <1>2, <1>4, <1>5, <2>3, <2>4 DEF Open
      <3>6. QED
        BY <1>11, <3>1, <3>2, <3>3, <3>4, <3>5 DEF RouterInv
    <2>5. CASE o.err = "error" /\ Add(x)
      <3>1. Entered(x)
        BY <1>2, <1>4, <2>1, <2>3, <2>5, AddStep
      <3>2. RouterKinds'
        BY <1>7, <1>9, <2>2, <2>3, <3>1 DEF RouterKinds, Entered
      <3>3. KeptOrGone'
        <4>. SUFFICES ASSUME NEW m \in Range(accepted')
                      PROVE  arrivals'[m] > 0 \/ m \in Range(messages') \/ m \in Range(evicted')
          BY DEF KeptOrGone
        <4>1. CASE m = x
          BY <3>1, <4>1 DEF Entered
        <4>2. CASE m # x
          <5>1. m \in Range(accepted) /\ m \in 1 .. MaxMessages
            BY <1>15, <2>2, <4>2
          <5>2. arrivals[m] > 0 \/ m \in Range(messages) \/ m \in Range(evicted)
            BY <1>1, <5>1 DEF KeptOrGone
          <5>3. QED
            BY <1>7, <1>8, <3>1, <5>1, <5>2 DEF Entered
        <4>3. QED
          BY <4>1, <4>2
      <3>4. \A m \in 1 .. MaxMessages : Open(m)' => Open(m)
        <4>. SUFFICES ASSUME NEW m \in 1 .. MaxMessages, Open(m)' PROVE Open(m)
          OBVIOUS
        <4>1. m \in timedOut' \/ m \in Range(messages') \/ m > routed'
          BY DEF Open
        <4>2. m = x \/ m \in timedOut \/ m \in Range(messages) \/ m > routed
          BY <1>2, <2>3, <3>1, <4>1 DEF Entered
        <4>3. QED
          BY <4>2 DEF Open
      <3>5. QED
        BY <1>11, <2>5, <3>1, <3>2, <3>3, <3>4 DEF RouterInv, Entered
    <2>6. QED
      BY <2>1, <2>4, <2>5
  <1>14. QED
    BY <1>12, <1>13

(* Flush: what failed stays, in its order; what was acknowledged has       *)
(* arrived.                                                                *)
LEMMA FlushStep ==
  ASSUME RouterSizes, RouterInv, NEW outcome \in [DOMAIN messages -> Outcome],
         Flush(outcome)
  PROVE  RouterInv'
  <1>1. RouterKinds /\ InTurn /\ KeptOrGone /\ Counts
    BY DEF RouterInv
  <1>. DEFINE failed == {i \in DOMAIN messages : outcome[i].err # "nil"}
              S == 1 .. routed
  <1>2. /\ Published(messages, outcome)
        /\ \A i \in DOMAIN messages : Possible(messages[i], outcome[i])
        /\ messages' = AtPlaces(messages, failed)
        /\ UNCHANGED <<routed, publisher, accepted, timedOut, evicted>>
    BY DEF Flush, Failed
  <1>3. messages \in Seq(S) /\ Len(messages) <= BufferSize /\ BufferSize \in Nat /\ MaxArrivals \in Nat
    BY <1>1 DEF RouterKinds, RouterSizes
  <1>4. /\ messages' \in Seq(S) /\ Len(messages') <= Len(messages) /\ Picks(messages', messages, failed)
    <2>1. failed \in SUBSET DOMAIN messages
      OBVIOUS
    <2>. HIDE DEF failed, S
    <2>2. QED
      BY <1>2, <1>3, <2>1, AtPlacesPicks
  <1>5. PICK f \in [DOMAIN messages' -> failed] :
          /\ Increasing(f)
          /\ \A k \in DOMAIN messages' : messages'[k] = messages[f[k]]
          /\ \A p \in failed : \E k \in DOMAIN messages' : f[k] = p
    BY <1>4 DEF Picks
  <1>6. \A i \in DOMAIN messages : i \in failed <=> outcome[i].err # "nil"
    OBVIOUS
  <1>7. \A k \in DOMAIN messages' : f[k] \in DOMAIN messages /\ f[k] \in failed
    BY <1>5
  <1>. HIDE DEF failed
  <1>8. \A i, j \in DOMAIN messages' : i < j => f[i] < f[j]
    BY <1>5 DEF Increasing
  <1>9. Len(messages') <= BufferSize
    <2>1. PICK a \in Nat, b \in Nat : a = Len(messages) /\ b = Len(messages')
      BY <1>3, <1>4, LenProperties
    <2>2. QED
      BY <1>3, <1>4, <2>1
  <1>10. DOMAIN messages = 1 .. Len(messages) /\ DOMAIN messages' = 1 .. Len(messages')
         /\ Len(messages) \in Nat /\ Len(messages') \in Nat
    BY <1>3, <1>4, LenProperties
  <1>11. InTurn'
    <2>1. /\ \A i \in DOMAIN messages : messages[i] \in Range(accepted)
          /\ \A i, j \in DOMAIN messages : i < j => FirstIn(accepted, messages[i], messages[j])
          /\ \A i \in DOMAIN evicted, j \in DOMAIN messages : FirstIn(accepted, evicted[i], messages[j])
          /\ \A i, j \in DOMAIN messages : messages[i] = messages[j] => i = j
      BY <1>1 DEF InTurn, IsInjective
    <2>2. \A i \in DOMAIN messages' : messages'[i] \in Range(accepted)
      BY <1>5, <1>7, <2>1
    <2>3. \A i, j \in DOMAIN messages' : i < j => FirstIn(accepted, messages'[i], messages'[j])
      BY <1>5, <1>7, <1>8, <2>1
    <2>4. \A i \in DOMAIN evicted, j \in DOMAIN messages' : FirstIn(accepted, evicted[i], messages'[j])
      BY <1>5, <1>7, <2>1
    <2>5. \A i, j \in DOMAIN messages' : messages'[i] = messages'[j] => i = j
      <3>. SUFFICES ASSUME NEW i \in DOMAIN messages', NEW j \in DOMAIN messages', messages'[i] = messages'[j]
                    PROVE  i = j
        OBVIOUS
      <3>1. f[i] = f[j]
        BY <1>5, <1>7, <2>1
      <3>2. f[i] \in Nat /\ i \in Nat /\ j \in Nat
        BY <1>7, <1>10
      <3>3. ~(i < j) /\ ~(j < i)
        BY <1>8, <3>1, <3>2
      <3>4. QED
        BY <3>2, <3>3
    <2>6. /\ \A m \in timedOut : m \notin Range(accepted)
          /\ \A i \in DOMAIN evicted : evicted[i] \in Range(accepted)
          /\ \A i, j \in DOMAIN evicted : i < j => FirstIn(accepted, evicted[i], evicted[j])
      BY <1>1 DEF InTurn
    <2>7. QED
      BY <1>2, <2>2, <2>3, <2>4, <2>5, <2>6 DEF InTurn, IsInjective
  (* What arrived, and which arrivals were not acknowledged.               *)
  <1>12. /\ arrivals' \in [1 .. MaxMessages -> Nat] /\ unacked' \in [1 .. MaxMessages -> Nat]
         /\ \A m \in 1 .. MaxMessages :
              /\ arrivals'[m] = IF Arrives(messages, outcome, m) THEN arrivals[m] + 1 ELSE arrivals[m]
              /\ unacked'[m] = IF LosesAck(messages, outcome, m) THEN unacked[m] + 1 ELSE unacked[m]
    BY <1>2, PublishedCounts
  <1>13. \A i \in DOMAIN messages :
           /\ outcome[i].err = "nil" => outcome[i].arrived
           /\ outcome[i].arrived => arrivals[messages[i]] < MaxArrivals
    BY <1>2 DEF Possible
  <1>14. arrivals \in [1 .. MaxMessages -> Nat] /\ unacked \in [1 .. MaxMessages -> Nat]
         /\ \A m \in 1 .. MaxMessages : arrivals[m] <= MaxArrivals
    BY <1>1 DEF RouterKinds
  <1>15. \A m \in 1 .. MaxMessages : arrivals'[m] >= arrivals[m] /\ arrivals'[m] <= MaxArrivals
    <2>. SUFFICES ASSUME NEW m \in 1 .. MaxMessages
                  PROVE  arrivals'[m] >= arrivals[m] /\ arrivals'[m] <= MaxArrivals
      OBVIOUS
    <2>1. PICK a \in Nat, M \in Nat : a = arrivals[m] /\ M = MaxArrivals /\ a <= M
      BY <1>3, <1>14
    <2>2. CASE Arrives(messages, outcome, m)
      <3>1. a < M /\ arrivals'[m] = a + 1
        BY <1>12, <1>13, <2>1, <2>2 DEF Arrives
      <3>2. QED
        BY <2>1, <3>1
    <2>3. CASE ~Arrives(messages, outcome, m)
      <3>1. arrivals'[m] = a
        BY <1>12, <2>1, <2>3
      <3>2. QED
        BY <2>1, <3>1
    <2>4. QED
      BY <2>2, <2>3
  <1>16. RouterKinds'
    BY <1>1, <1>2, <1>4, <1>9, <1>12, <1>15 DEF RouterKinds
  <1>17. KeptOrGone'
    <2>. SUFFICES ASSUME NEW m \in Range(accepted)
                  PROVE  arrivals'[m] > 0 \/ m \in Range(messages') \/ m \in Range(evicted)
      BY <1>2 DEF KeptOrGone
    <2>1. m \in 1 .. MaxMessages
      <3>1. accepted \in Seq(S) /\ \A i \in S : i \in 1 .. MaxMessages
        BY <1>1 DEF RouterKinds, RouterSizes
      <3>. HIDE DEF S
      <3>2. DOMAIN accepted = 1 .. Len(accepted) /\ \A i \in 1 .. Len(accepted) : accepted[i] \in S
        BY <3>1, LenProperties, ElementOfSeq
      <3>3. QED
        BY <3>1, <3>2 DEF Range
    <2>2. arrivals[m] > 0 \/ m \in Range(messages) \/ m \in Range(evicted)
      BY <1>1 DEF KeptOrGone
    <2>3. CASE arrivals[m] > 0
      BY <1>12, <1>14, <1>15, <2>1, <2>3
    <2>4. CASE m \in Range(messages)
      <3>1. PICK i \in DOMAIN messages : messages[i] = m
        BY <2>4 DEF Range
      <3>2. CASE outcome[i].err = "nil"
        <4>1. arrivals'[m] = arrivals[m] + 1
          BY <1>12, <1>13, <2>1, <3>1, <3>2 DEF Arrives
        <4>2. QED
          BY <1>14, <2>1, <4>1
      <3>3. CASE outcome[i].err # "nil"
        <4>1. PICK k \in DOMAIN messages' : f[k] = i
          BY <1>5, <1>6, <3>3
        <4>2. messages'[k] = m
          BY <1>5, <3>1, <4>1
        <4>3. QED
          BY <4>2 DEF Range
      <3>4. QED
        BY <3>2, <3>3
    <2>5. QED
      BY <2>2, <2>3, <2>4
  <1>18. Counts'
    <2>. SUFFICES ASSUME NEW m \in 1 .. MaxMessages
                  PROVE  /\ unacked'[m] <= arrivals'[m] /\ arrivals'[m] <= unacked'[m] + 1
                         /\ Open(m)' => arrivals'[m] = unacked'[m]
      BY DEF Counts
    <2>1. PICK a \in Nat, u \in Nat : a = arrivals[m] /\ u = unacked[m]
      BY <1>14
    <2>2. u <= a /\ a <= u + 1 /\ (Open(m) => a = u)
      BY <1>1, <2>1 DEF Counts
    <2>3. \A i, j \in DOMAIN messages : messages[i] = m /\ messages[j] = m => i = j
      BY <1>1 DEF InTurn, IsInjective
    <2>4. Open(m)' => Open(m) /\ \A i \in DOMAIN messages : messages[i] = m => outcome[i].err # "nil"
      <3>. SUFFICES ASSUME Open(m)'
                    PROVE  Open(m) /\ \A i \in DOMAIN messages : messages[i] = m => outcome[i].err # "nil"
        OBVIOUS
      <3>1. m \in timedOut \/ m \in Range(messages') \/ m > routed
        BY <1>2 DEF Open
      <3>2. CASE m \in Range(messages')
        <4>1. PICK k \in DOMAIN messages' : messages'[k] = m
          BY <3>2 DEF Range
        <4>2. f[k] \in DOMAIN messages /\ messages[f[k]] = m /\ outcome[f[k]].err # "nil"
          BY <1>5, <1>6, <1>7, <4>1
        <4>3. m \in Range(messages)
          BY <4>2 DEF Range
        <4>4. QED
          BY <2>3, <4>2, <4>3 DEF Open
      <3>3. CASE m \notin Range(messages')
        <4>1. m \in timedOut \/ m > routed
          BY <3>1, <3>3
        <4>2. m \notin Range(messages)
          <5>1. \A i \in DOMAIN messages : messages[i] \in S
            BY <1>3, <1>10, ElementOfSeq
          <5>2. routed \in Nat /\ \A i \in DOMAIN messages : messages[i] \in Range(accepted)
            BY <1>1 DEF InTurn, RouterKinds
          <5>3. m \in timedOut => m \notin Range(accepted)
            BY <1>1 DEF InTurn
          <5>4. QED
            BY <4>1, <5>1, <5>2, <5>3 DEF Range
        <4>3. QED
          BY <4>1, <4>2 DEF Open, Range
      <3>4. QED
        BY <3>2, <3>3
    <2>5. CASE ~Arrives(messages, outcome, m)
      <3>1. ~LosesAck(messages, outcome, m)
        BY <2>5 DEF Arrives, LosesAck
      <3>2. arrivals'[m] = a /\ unacked'[m] = u
        BY <1>12, <2>1, <2>5, <3>1
      <3>3. QED
        BY <2>2, <2>4, <3>2
    <2>6. CASE Arrives(messages, outcome, m)
      <3>1. PICK i \in DOMAIN messages : messages[i] = m /\ outcome[i].arrived
        BY <2>6 DEF Arrives
      <3>2. Open(m) /\ a = u
        <4>1. m \in Range(messages)
          BY <3>1 DEF Range
        <4>2. QED
          BY <2>2, <4>1 DEF Open
      <3>3. arrivals'[m] = a + 1
        BY <1>12, <2>1, <2>6
      <3>4. CASE LosesAck(messages, outcome, m)
        <4>1. unacked'[m] = u + 1
          BY <1>12, <2>1, <3>4
        <4>2. QED
          BY <3>2, <3>3, <4>1
      <3>5. CASE ~LosesAck(messages, outcome, m)
        <4>1. unacked'[m] = u
          BY <1>12, <2>1, <3>5
        <4>2. outcome[i].err = "nil"
          BY <3>1, <3>5 DEF LosesAck
        <4>3. ~Open(m)'
          BY <2>4, <3>1, <4>2
        <4>4. QED
          BY <3>2, <3>3, <4>1, <4>3
      <3>6. QED
        BY <3>4, <3>5
    <2>7. QED
      BY <2>5, <2>6
  <1>19. QED
    BY <1>11, <1>16, <1>17, <1>18 DEF RouterInv

LEMMA RouterInitially == RouterSizes /\ RouterInit => RouterInv
  <1>. SUFFICES ASSUME RouterSizes, RouterInit PROVE RouterInv
    OBVIOUS
  <1>1. /\ routed = 0 /\ publisher \in BOOLEAN
        /\ messages = <<>> /\ evicted = <<>> /\ accepted = <<>> /\ timedOut = {}
        /\ arrivals = [m \in 1 .. MaxMessages |-> 0] /\ unacked = arrivals
    BY DEF RouterInit, Numbers
  <1>2. DOMAIN <<>> = {} /\ Range(<<>>) = {} /\ Len(<<>>) = 0
    BY DEF Range
  <1>3. RouterKinds
    BY <1>1, <1>2 DEF RouterKinds, RouterSizes
  <1>4. InTurn /\ KeptOrGone
    BY <1>1, <1>2 DEF InTurn, KeptOrGone, IsInjective
  <1>5. Counts
    BY <1>1 DEF Counts
  <1>6. QED
    BY <1>3, <1>4, <1>5 DEF RouterInv

LEMMA RouterSteps == RouterSizes /\ RouterInv /\ [RouterNext]_routerVars => RouterInv'
  <1>. SUFFICES ASSUME RouterSizes, RouterInv, [RouterNext]_routerVars PROVE RouterInv'
    OBVIOUS
  <1>1. routed \in Nat /\ routed <= MaxMessages /\ MaxMessages \in Nat /\ timedOut \subseteq 1 .. routed
    BY DEF RouterInv, RouterKinds, RouterSizes
  <1>2. ASSUME NEW defects \in Envelopes, NEW o \in Outcome, RouteNew(defects, o)
        PROVE  RouterInv'
    <2>1. routed < MaxMessages /\ routed' = routed + 1 /\ Route(routed + 1, o)
      BY <1>2 DEF RouteNew
    <2>2. /\ routed + 1 \in 1 .. MaxMessages /\ routed' \in Nat /\ routed <= routed'
          /\ routed' <= MaxMessages /\ routed + 1 <= routed' /\ routed + 1 > routed
          /\ \A m \in Nat : m > routed /\ m # routed + 1 => m > routed'
      BY <1>1, <2>1
    <2>. DEFINE x == routed + 1
    <2>. HIDE DEF x
    <2>3. RouterInv'
      BY <2>1, <2>2, RouteStep DEF x
    <2>4. QED
      BY <2>3
  <1>3. ASSUME NEW x \in Numbers, NEW o \in Outcome, RouteAgain(x, o)
        PROVE  RouterInv'
    <2>1. x \in timedOut /\ Route(x, o) /\ routed' = routed /\ x \in 1 .. MaxMessages
      BY <1>3 DEF RouteAgain, Numbers
    <2>2. x <= routed'
      BY <1>1, <2>1
    <2>3. QED
      BY <1>1, <2>1, <2>2, RouteStep
  <1>4. ASSUME NEW outcome \in [DOMAIN messages -> Outcome], Flush(outcome)
        PROVE  RouterInv'
    BY <1>4, FlushStep
  <1>5. CASE UNCHANGED routerVars
    BY <1>5 DEF routerVars, RouterInv, RouterKinds, InTurn, KeptOrGone, Counts, Open
  <1>6. QED
    BY <1>2, <1>3, <1>4, <1>5 DEF RouterNext

LEMMA RouterInvariant == RouterSpec => []RouterInv
  <1>1. RouterInit => RouterInv
    BY RouterInitially, SizesOfRouter
  <1>2. RouterInv /\ [RouterNext]_routerVars => RouterInv'
    BY RouterSteps, SizesOfRouter
  <1>3. QED
    BY <1>1, <1>2, PTL DEF RouterSpec

(* A message the Router answered with nil has reached NATS, waits in the   *)
(* buffer or was pushed out of it, and those left stand in the order they  *)
(* were accepted, after any Route and any partly failed Flush, for any     *)
(* buffer size, number of messages and number of arrivals.                 *)
THEOREM AcceptedStays == RouterSpec => []AcceptedIsKept
  <1>1. RouterInv => AcceptedIsKept
    <2>. SUFFICES ASSUME RouterInv PROVE AcceptedIsKept
      OBVIOUS
    <2>2. \A m, n : FirstIn(accepted, m, n) => Before(m, n)
      BY DEF FirstIn, Before
    <2>3. /\ \A i, j \in DOMAIN messages : i < j => FirstIn(accepted, messages[i], messages[j])
          /\ \A i, j \in DOMAIN evicted : i < j => FirstIn(accepted, evicted[i], evicted[j])
          /\ \A i \in DOMAIN evicted, j \in DOMAIN messages : FirstIn(accepted, evicted[i], messages[j])
      BY DEF RouterInv, InTurn
    <2>4. messages \in Seq(1 .. routed) /\ evicted \in Seq(1 .. routed)
      BY DEF RouterInv, RouterKinds
    <2>. DEFINE s == evicted \o messages
    <2>5. ASSUME NEW i \in DOMAIN s, NEW j \in DOMAIN s, i < j PROVE FirstIn(accepted, s[i], s[j])
      <3>1. /\ s \in Seq(1 .. routed) /\ Len(s) = Len(evicted) + Len(messages)
            /\ \A k \in 1 .. Len(evicted) + Len(messages) :
                 s[k] = IF k <= Len(evicted) THEN evicted[k] ELSE messages[k - Len(evicted)]
        BY <2>4, ConcatProperties
      <3>. HIDE DEF s
      <3>2. PICK e \in Nat, b \in Nat : /\ e = Len(evicted) /\ DOMAIN evicted = 1 .. e
                                         /\ b = Len(messages) /\ DOMAIN messages = 1 .. b
        BY <2>4, LenProperties
      <3>3. i \in 1 .. e + b /\ j \in 1 .. e + b
        BY <3>1, <3>2, <2>5, LenProperties
      <3>4. CASE j <= e
        <4>1. i \in 1 .. e /\ j \in 1 .. e /\ s[i] = evicted[i] /\ s[j] = evicted[j]
          BY <2>5, <3>1, <3>2, <3>3, <3>4
        <4>2. QED
          BY <2>3, <2>5, <3>2, <4>1
      <3>5. CASE i <= e /\ ~(j <= e)
        <4>1. i \in 1 .. e /\ j - e \in 1 .. b /\ s[i] = evicted[i] /\ s[j] = messages[j - e]
          BY <3>1, <3>2, <3>3, <3>5
        <4>2. QED
          BY <2>3, <3>2, <4>1
      <3>6. CASE ~(i <= e) /\ ~(j <= e)
        <4>1. i - e \in 1 .. b /\ j - e \in 1 .. b /\ i - e < j - e
          BY <2>5, <3>3, <3>6
        <4>2. s[i] = messages[i - e] /\ s[j] = messages[j - e]
          BY <3>1, <3>2, <3>3, <3>6
        <4>3. QED
          BY <2>3, <3>2, <4>1, <4>2
      <3>7. QED
        BY <2>5, <3>3, <3>4, <3>5, <3>6
    <2>6. \A m \in Range(accepted) : arrivals[m] > 0 \/ m \in Range(messages) \cup Range(evicted)
      BY DEF RouterInv, KeptOrGone
    <2>. HIDE DEF s
    <2>7. \A i, j \in DOMAIN s : i < j => Before(s[i], s[j])
      BY <2>2, <2>5
    <2>8. QED
      BY <2>6, <2>7 DEF AcceptedIsKept, s
  <1>2. QED
    BY <1>1, RouterInvariant, PTL

(* NATS never has a message once more than the publications that were      *)
(* answered with an error explain.                                         *)
THEOREM NeverTwiceAcknowledged == RouterSpec => []TwiceOnlyUnacked
  <1>1. RouterInv => TwiceOnlyUnacked
    BY DEF RouterInv, Counts, TwiceOnlyUnacked, Numbers
  <1>2. QED
    BY <1>1, RouterInvariant, PTL

(* The types of the Router's variables: the buffer keeps its bound and     *)
(* holds no message twice.                                                 *)
THEOREM RouterTypes == RouterSpec => []RouterTypeOK
  <1>1. RouterInv => RouterTypeOK
    <2>. SUFFICES ASSUME RouterInv PROVE RouterTypeOK
      OBVIOUS
    <2>1. RouterKinds /\ InTurn /\ Counts
      BY DEF RouterInv
    <2>2. \A s \in Seq(1 .. routed) : Range(s) \in SUBSET (1 .. routed)
      <3>. SUFFICES ASSUME NEW s \in Seq(1 .. routed), NEW i \in DOMAIN s PROVE s[i] \in 1 .. routed
        BY DEF Range
      <3>1. i \in 1 .. Len(s)
        BY LenProperties
      <3>2. QED
        BY <3>1, ElementOfSeq
    <2>3. {Range(messages), Range(evicted), Range(accepted), timedOut}
            \subseteq SUBSET (1 .. routed)
      BY <2>1, <2>2 DEF RouterKinds
    <2>4. IsInjective(messages)
      BY <2>1 DEF InTurn, IsInjective
    <2>5. ASSUME NEW m \in 1 .. MaxMessages
          PROVE  arrivals[m] \in 0 .. MaxArrivals /\ unacked[m] \in 0 .. MaxArrivals
      <3>1. PICK a \in Nat, u \in Nat : a = arrivals[m] /\ u = unacked[m]
        BY <2>1 DEF RouterKinds
      <3>2. u <= a /\ a <= MaxArrivals /\ MaxArrivals \in Nat
        BY <2>1, <3>1, RouterBoundsAssumption DEF Counts, RouterKinds
      <3>3. QED
        BY <3>1, <3>2
    <2>6. /\ arrivals \in [1 .. MaxMessages -> 0 .. MaxArrivals]
          /\ unacked \in [1 .. MaxMessages -> 0 .. MaxArrivals]
      BY <2>1, <2>5 DEF RouterKinds
    <2>7. routed \in 0 .. MaxMessages
      BY <2>1, RouterBoundsAssumption DEF RouterKinds
    <2>8. publisher \in BOOLEAN /\ Len(messages) <= BufferSize
      BY <2>1 DEF RouterKinds
    <2>9. QED
      BY <2>3, <2>4, <2>6, <2>7, <2>8 DEF RouterTypeOK, Numbers
  <1>2. QED
    BY <1>1, RouterInvariant, PTL
=============================================================================
