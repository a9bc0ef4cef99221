-------------------------- MODULE OrderPath_proofs --------------------------
(***************************************************************************)
(* Proofs about the order path: the circuit breaker against the history of *)
(* trades, for any limits and any number of trades, and the agreement of   *)
(* the three checkers of a signal, for any confidences.                    *)
(***************************************************************************)
EXTENDS OrderPath, SequenceTheorems, WellFoundedInduction, TLAPS

-----------------------------------------------------------------------------
(* Induction on the naturals, for a set rather than a predicate: from the  *)
(* least number principle, and that from the well-founded order on Nat.    *)
LEMMA LeastNumber ==
  ASSUME NEW T, T \subseteq Nat, T # {}
  PROVE  \E n \in T : \A m \in T : n <= m
  <1>. DEFINE R == OpToRel(<, Nat)
  <1>1. \A m, n \in Nat : m < n => <<m, n>> \in R
    BY DEF OpToRel
  <1>2. IsWellFoundedOn(R, Nat)
    BY NatLessThanWellFounded
  <1>. HIDE DEF R
  <1>3. PICK n \in T : \A m \in T : ~(<<m, n>> \in R)
    BY <1>2, WFMin
  <1>4. ASSUME NEW m \in T PROVE n <= m
    <2>1. m \in Nat /\ n \in Nat
      OBVIOUS
    <2>2. ~(m < n)
      BY <1>1, <1>3, <2>1
    <2>3. QED
      BY <2>1, <2>2
  <1>5. QED
    BY <1>4

LEMMA SetInduction ==
  ASSUME NEW S, 0 \in S, \A n \in Nat : n \in S => n + 1 \in S
  PROVE  \A n \in Nat : n \in S
  <1>. DEFINE T == Nat \ S
  <1>. SUFFICES ASSUME T # {} PROVE FALSE
    OBVIOUS
  <1>1. PICK n \in T : \A m \in T : n <= m
    BY LeastNumber
  <1>2. n # 0 /\ n - 1 \in Nat /\ n - 1 \notin T
    BY <1>1
  <1>3. QED
    BY <1>2

-----------------------------------------------------------------------------
(* A recursive sum exists, whatever is summed ...                          *)
LEMMA SumExists ==
  ASSUME NEW a, NEW N \in Nat
  PROVE  \E f : f = [i \in 0 .. N |-> IF i = 0 THEN 0 ELSE f[i - 1] + a[i]]
  <1>. DEFINE S == {n \in Nat : \E f : f = [i \in 0 .. n |-> IF i = 0 THEN 0 ELSE f[i - 1] + a[i]]}
  <1>1. 0 \in S
    <2>. DEFINE f == [i \in 0 .. 0 |-> 0]
    <2>1. f = [i \in 0 .. 0 |-> IF i = 0 THEN 0 ELSE f[i - 1] + a[i]]
      OBVIOUS
    <2>2. QED
      BY <2>1
  <1>2. ASSUME NEW n \in Nat, n \in S PROVE n + 1 \in S
    <2>1. PICK f : f = [i \in 0 .. n |-> IF i = 0 THEN 0 ELSE f[i - 1] + a[i]]
      BY <1>2
    <2>. DEFINE g == [i \in 0 .. n + 1 |-> IF i = n + 1 THEN f[n] + a[n + 1] ELSE f[i]]
    <2>2. \A i \in 0 .. n + 1 : g[i] = IF i = n + 1 THEN f[n] + a[n + 1] ELSE f[i]
      OBVIOUS
    <2>3. \A i \in 0 .. n : f[i] = IF i = 0 THEN 0 ELSE f[i - 1] + a[i]
      BY <2>1
    <2>4. \A i \in 0 .. n + 1 : g[i] = IF i = 0 THEN 0 ELSE g[i - 1] + a[i]
      <3>. HIDE DEF g
      <3>. SUFFICES ASSUME NEW i \in 0 .. n + 1
                    PROVE  g[i] = IF i = 0 THEN 0 ELSE g[i - 1] + a[i]
        OBVIOUS
      <3>1. CASE i = n + 1
        <4>1. i # 0 /\ i - 1 = n /\ n \in 0 .. n + 1 /\ n # n + 1
          BY <3>1
        <4>2. g[i] = f[n] + a[n + 1] /\ g[n] = f[n]
          BY <2>2, <3>1, <4>1
        <4>3. QED
          BY <3>1, <4>1, <4>2
      <3>2. CASE i = 0
        BY <2>2, <2>3, <3>2
      <3>3. CASE i # 0 /\ i # n + 1
        <4>1. i \in 0 .. n /\ i - 1 \in 0 .. n + 1 /\ i - 1 # n + 1
          BY <3>3
        <4>2. g[i] = f[i] /\ g[i - 1] = f[i - 1]
          BY <2>2, <3>3, <4>1
        <4>3. QED
          BY <2>3, <3>3, <4>1, <4>2
      <3>4. QED
        BY <3>1, <3>2, <3>3
    <2>5. g = [i \in 0 .. n + 1 |-> IF i = 0 THEN 0 ELSE g[i - 1] + a[i]]
      <3>1. g = [i \in 0 .. n + 1 |-> g[i]]
        OBVIOUS
      <3>. HIDE DEF g
      <3>2. QED
        BY <2>4, <3>1
    <2>. HIDE DEF g
    <2>6. \E h : h = [i \in 0 .. n + 1 |-> IF i = 0 THEN 0 ELSE h[i - 1] + a[i]]
      BY <2>5
    <2>7. QED
      BY <2>6
  <1>. HIDE DEF S
  <1>3. N \in S
    BY <1>1, <1>2, SetInduction
  <1>4. QED
    BY <1>3 DEF S

(* ... so LossUpTo is what its definition says.                            *)
LossOf(i) == IF IsLoss(i) THEN Abs(trades[i].n) ELSE 0

LossFacts ==
  /\ LossUpTo[0] = 0
  /\ \A i \in 1 .. MaxTrades : LossUpTo[i] = LossUpTo[i - 1] + LossOf(i)

LEMMA LossUpToDef == LossFacts
  <1>. DEFINE Def(f) == [i \in 0 .. MaxTrades |->
                          IF i = 0 THEN 0
                          ELSE f[i - 1] + IF IsLoss(i) THEN Abs(trades[i].n) ELSE 0]
              a == [i \in 0 .. MaxTrades |-> LossOf(i)]
  <1>1. \E f : f = Def(f)
    <2>1. PICK f : f = [i \in 0 .. MaxTrades |-> IF i = 0 THEN 0 ELSE f[i - 1] + a[i]]
      <3>. HIDE DEF a
      <3>1. QED
        BY SumExists, OrderBoundsAssumption
    <2>2. \A i \in 0 .. MaxTrades : a[i] = IF IsLoss(i) THEN Abs(trades[i].n) ELSE 0
      BY DEF LossOf
    <2>. HIDE DEF a
    <2>3. f = Def(f)
      BY <2>1, <2>2
    <2>4. QED
      BY <2>3
  <1>2. LossUpTo = CHOOSE f : f = Def(f)
    BY DEF LossUpTo
  <1>. HIDE DEF Def
  <1>3. LossUpTo = Def(LossUpTo)
    BY <1>1, <1>2
  <1>4. LossUpTo = [i \in 0 .. MaxTrades |->
                      IF i = 0 THEN 0
                      ELSE LossUpTo[i - 1] + IF IsLoss(i) THEN Abs(trades[i].n) ELSE 0]
    BY <1>3 DEF Def
  <1>5. QED
    BY <1>4, OrderBoundsAssumption DEF LossOf, LossFacts

-----------------------------------------------------------------------------
(* The breaker.  Its counter is the length of the run of losses at the end *)
(* of the history, its accumulator the sum of all of them, and as long as  *)
(* it has not tripped the counter is below its limit.                      *)
TrailingRun ==
  /\ consecutive_losses \in 0 .. MaxConsecutive /\ consecutive_losses <= Len(trades)
  /\ \A j \in Len(trades) - consecutive_losses + 1 .. Len(trades) : IsLoss(j)
  /\ consecutive_losses < Len(trades) => ~IsLoss(Len(trades) - consecutive_losses)
  /\ ~halted => consecutive_losses < MaxConsecutive

BreakerInv ==
  /\ trades \in Seq(Float) /\ Len(trades) <= MaxTrades
  /\ halted \in BOOLEAN
  /\ TrailingRun
  /\ daily_loss \in Nat /\ daily_loss = LossUpTo[Len(trades)]
  /\ BreakerMatchesHistory

(* Two sums of the same losses are equal.                                  *)
LEMMA SameSums ==
  ASSUME NEW f, NEW g, NEW n \in Nat, f[0] = g[0],
         \A i \in 1 .. n : f[i - 1] = g[i - 1] => f[i] = g[i]
  PROVE  \A i \in 0 .. n : f[i] = g[i]
  <1>. DEFINE S == {i \in Nat : i <= n => f[i] = g[i]}
  <1>1. 0 \in S
    OBVIOUS
  <1>2. ASSUME NEW i \in Nat, i \in S PROVE i + 1 \in S
    <2>1. CASE i + 1 <= n
      <3>1. i + 1 \in 1 .. n /\ (i + 1) - 1 = i /\ f[i] = g[i]
        BY <1>2, <2>1
      <3>2. f[i + 1] = g[i + 1]
        BY <3>1
      <3>3. QED
        BY <3>2
    <2>2. CASE ~(i + 1 <= n)
      BY <2>2
    <2>3. QED
      BY <2>1, <2>2
  <1>. HIDE DEF S
  <1>3. \A i \in Nat : i \in S
    BY <1>1, <1>2, SetInduction
  <1>4. QED
    BY <1>3 DEF S

LEMMA InitBreaker == Init => BreakerInv
  <1>. SUFFICES ASSUME Init PROVE BreakerInv
    OBVIOUS
  <1>1. trades = <<>> /\ Len(trades) = 0 /\ trades \in Seq(Float) /\ DOMAIN trades = {}
    BY DEF Init
  <1>2. BreakerMatchesHistory
    BY <1>1 DEF Init, BreakerMatchesHistory, Tripped
  <1>3. TrailingRun
    BY <1>1, ConfigAssumption DEF Init, TrailingRun
  <1>4. LossUpTo[0] = 0
    BY LossUpToDef DEF LossFacts
  <1>5. halted = FALSE /\ daily_loss = 0
    BY DEF Init
  <1>6. trades \in Seq(Float) /\ Len(trades) <= MaxTrades /\ daily_loss = LossUpTo[Len(trades)]
    BY <1>1, <1>4, <1>5, OrderBoundsAssumption
  <1>7. halted \in BOOLEAN /\ daily_loss \in Nat
    BY <1>5
  <1>8. QED
    BY <1>2, <1>3, <1>6, <1>7 DEF BreakerInv

LEMMA ResetPreserves == Reset => BreakerInv'
  <1>. SUFFICES ASSUME Reset PROVE BreakerInv'
    OBVIOUS
  <1>1. /\ trades' = <<>> /\ Len(trades') = 0 /\ trades' \in Seq(Float) /\ DOMAIN trades' = {}
        /\ consecutive_losses' = 0 /\ daily_loss' = 0 /\ halted' = FALSE
    BY DEF Reset
  <1>2. BreakerMatchesHistory'
    BY <1>1 DEF BreakerMatchesHistory, Tripped
  <1>3. TrailingRun'
    BY <1>1, ConfigAssumption DEF TrailingRun
  <1>a. LossFacts'
    BY LossUpToDef, PTL
  <1>4. LossUpTo'[0] = 0
    BY <1>a DEF LossFacts
  <1>5. trades' \in Seq(Float) /\ Len(trades') <= MaxTrades /\ daily_loss' = LossUpTo'[Len(trades')]
    BY <1>1, <1>4, OrderBoundsAssumption
  <1>6. halted' \in BOOLEAN /\ daily_loss' \in Nat
    BY <1>1
  <1>7. QED
    BY <1>2, <1>3, <1>5, <1>6 DEF BreakerInv

LEMMA RecordTradePreserves ==
  ASSUME BreakerInv, NEW pnl \in Float, RecordTrade(pnl)
  PROVE  BreakerInv'
  <1>. DEFINE n == Len(trades)
              c == consecutive_losses
              loss == Lt(pnl, Number(0))
              amount == IF loss THEN Abs(pnl.n) ELSE 0
              Lost(i) == Lt(trades'[i], Number(0))
              Added(i) == IF Lost(i) THEN Abs(trades'[i].n) ELSE 0
  <1>1. /\ trades \in Seq(Float) /\ n \in Nat /\ n < MaxTrades /\ ~halted /\ ~Tripped
        /\ c \in Nat /\ c <= n /\ c < MaxConsecutive /\ daily_loss \in Nat /\ daily_loss = LossUpTo[n]
    BY LenProperties, OrderBoundsAssumption, ConfigAssumption
    DEF BreakerInv, RecordTrade, TrailingRun, BreakerMatchesHistory
  <1>2. /\ trades' \in Seq(Float) /\ Len(trades') = n + 1 /\ DOMAIN trades' = 1 .. n + 1
        /\ trades'[n + 1] = pnl
        /\ \A i \in 1 .. n : trades'[i] = trades[i]
    BY <1>1 DEF RecordTrade
  <1>3. /\ \A i \in 1 .. n : Lost(i) <=> IsLoss(i)
        /\ Lost(n + 1) <=> loss
    BY <1>1, <1>2 DEF IsLoss
  <1>4. /\ \A i \in 1 .. n : Added(i) = LossOf(i)
        /\ Added(n + 1) = amount
    BY <1>1, <1>2, <1>3 DEF LossOf
  <1>5. amount \in Nat
    <2>1. pnl.n \in Int
      <3>1. CASE pnl \in [nan : {FALSE}, n : Amounts]
        BY <3>1, AmountsAssumption
      <3>2. CASE pnl = [nan |-> TRUE, n |-> 0]
        BY <3>2
      <3>3. QED
        BY <3>1, <3>2 DEF Float
    <2>2. QED
      BY <2>1 DEF Abs
  <1>a. LossFacts'
    BY LossUpToDef, PTL
  <1>6. /\ LossUpTo'[0] = 0
        /\ \A i \in 1 .. MaxTrades : LossUpTo'[i] = LossUpTo'[i - 1] + Added(i)
    BY <1>a DEF LossFacts, LossOf, IsLoss
  <1>. HIDE DEF amount
  <1>7. \A i \in 0 .. n : LossUpTo'[i] = LossUpTo[i]
    <2>. DEFINE f == LossUpTo'
                g == LossUpTo
    <2>1. f[0] = g[0]
      BY <1>6, LossUpToDef DEF LossFacts
    <2>2. ASSUME NEW i \in 1 .. n, f[i - 1] = g[i - 1] PROVE f[i] = g[i]
      <3>1. i \in 1 .. MaxTrades
        BY <1>1, OrderBoundsAssumption
      <3>2. QED
        BY <1>4, <1>6, <2>2, <3>1, LossUpToDef DEF LossFacts
    <2>. HIDE DEF f, g
    <2>3. \A i \in 0 .. n : f[i] = g[i]
      BY <1>1, <2>1, <2>2, SameSums
    <2>4. QED
      BY <2>3 DEF f, g
  <1>8. LossUpTo'[n + 1] = daily_loss + amount /\ daily_loss' = daily_loss + amount
    <2>1. n + 1 \in 1 .. MaxTrades /\ (n + 1) - 1 = n /\ n \in 0 .. n
      BY <1>1, OrderBoundsAssumption
    <2>2. LossUpTo'[n + 1] = LossUpTo'[n] + amount
      BY <1>4, <1>6, <2>1
    <2>3. daily_loss' = daily_loss + amount
      BY DEF RecordTrade, amount
    <2>4. QED
      BY <1>1, <1>7, <2>1, <2>2, <2>3
  <1>9. consecutive_losses' = IF loss THEN c + 1 ELSE 0
    BY DEF RecordTrade, Losses
  <1>10. halted' <=> loss /\ (consecutive_losses' >= MaxConsecutive \/ daily_loss' >= MaxLoss)
    BY DEF RecordTrade
  <1>11. halted' \in BOOLEAN
    BY DEF RecordTrade
  <1>. HIDE DEF loss
  <1>12. TrailingRun'
    <2>1. CASE loss
      <3>1. consecutive_losses' = c + 1 /\ c + 1 \in 0 .. MaxConsecutive /\ c + 1 <= n + 1
        BY <1>1, <1>9, <2>1, ConfigAssumption
      <3>2. ~halted' => c + 1 < MaxConsecutive
        BY <1>1, <1>10, <2>1, <3>1, ConfigAssumption
      <3>3. ASSUME NEW j \in (n + 1) - (c + 1) + 1 .. n + 1 PROVE Lost(j)
        <4>1. CASE j = n + 1
          BY <1>3, <2>1, <4>1
        <4>2. CASE j # n + 1
          <5>1. j \in n - c + 1 .. n /\ j \in 1 .. n
            BY <1>1, <3>3, <4>2
          <5>2. QED
            BY <1>3, <5>1 DEF BreakerInv, TrailingRun
        <4>3. QED
          BY <4>1, <4>2
      <3>4. ASSUME c + 1 < n + 1 PROVE ~Lost((n + 1) - (c + 1))
        <4>1. (n + 1) - (c + 1) = n - c /\ n - c \in 1 .. n /\ c < n
          BY <1>1, <3>4
        <4>2. ~IsLoss(n - c)
          BY <4>1 DEF BreakerInv, TrailingRun
        <4>3. QED
          BY <1>3, <4>1, <4>2
      <3>5. QED
        BY <1>2, <3>1, <3>2, <3>3, <3>4 DEF TrailingRun, IsLoss
    <2>2. CASE ~loss
      <3>1. consecutive_losses' = 0 /\ ~Lost(n + 1)
        BY <1>3, <1>9, <2>2
      <3>2. (n + 1) - 0 = n + 1
        BY <1>1
      <3>3. QED
        BY <1>1, <1>2, <3>1, <3>2, ConfigAssumption DEF TrailingRun, IsLoss
    <2>3. QED
      BY <2>1, <2>2
  <1>13. BreakerMatchesHistory'
    <2>. DEFINE Run(i) == i >= MaxConsecutive /\ \A j \in i - MaxConsecutive + 1 .. i : Lost(j)
    <2>1. Tripped' <=> \E i \in 1 .. n + 1 : Lost(i) /\ (Run(i) \/ LossUpTo'[i] >= MaxLoss)
      BY <1>2 DEF Tripped, IsLoss
    <2>2. ASSUME NEW i \in 1 .. n PROVE ~(Lost(i) /\ (Run(i) \/ LossUpTo'[i] >= MaxLoss))
      <3>1. DOMAIN trades = 1 .. n
        BY <1>1, LenProperties
      <3>2. ~(/\ IsLoss(i)
              /\ \/ i >= MaxConsecutive /\ \A j \in i - MaxConsecutive + 1 .. i : IsLoss(j)
                 \/ LossUpTo[i] >= MaxLoss)
        BY <1>1, <3>1 DEF Tripped
      <3>3. i >= MaxConsecutive => \A j \in i - MaxConsecutive + 1 .. i : j \in 1 .. n
        BY <1>1, ConfigAssumption
      <3>4. i \in 0 .. n
        BY <1>1
      <3>5. QED
        BY <1>3, <1>7, <3>2, <3>3, <3>4
    <2>3. Tripped' <=> loss /\ (Run(n + 1) \/ daily_loss' >= MaxLoss)
      <3>1. \A i \in 1 .. n + 1 : i = n + 1 \/ i \in 1 .. n
        BY <1>1
      <3>2. n + 1 \in 1 .. n + 1
        BY <1>1
      <3>. HIDE DEF Run
      <3>3. QED
        BY <1>3, <1>8, <2>1, <2>2, <3>1, <3>2
    <2>4. ASSUME loss PROVE Run(n + 1) <=> c + 1 >= MaxConsecutive
      <3>1. ASSUME c + 1 >= MaxConsecutive PROVE Run(n + 1)
        <4>1. MaxConsecutive = c + 1
          BY <1>1, <3>1, ConfigAssumption
        <4>2. consecutive_losses' = c + 1 /\ Len(trades') = n + 1
          BY <1>2, <1>9, <2>4
        <4>3. \A j \in (n + 1) - (c + 1) + 1 .. n + 1 : Lost(j)
          BY <1>12, <4>2 DEF TrailingRun, IsLoss
        <4>4. n + 1 >= c + 1
          BY <1>1
        <4>5. QED
          BY <4>1, <4>3, <4>4
      <3>2. ASSUME c + 1 < MaxConsecutive, Run(n + 1) PROVE FALSE
        <4>1. n + 1 >= MaxConsecutive /\ c < n
          BY <1>1, <3>2, ConfigAssumption
        <4>2. ~IsLoss(n - c)
          BY <4>1 DEF BreakerInv, TrailingRun
        <4>3. n - c \in 1 .. n /\ n - c \in (n + 1) - MaxConsecutive + 1 .. n + 1
          BY <1>1, <3>2, <4>1, ConfigAssumption
        <4>4. QED
          BY <1>3, <3>2, <4>2, <4>3
      <3>. HIDE DEF Run
      <3>3. QED
        BY <1>1, <3>1, <3>2, ConfigAssumption
    <2>. HIDE DEF Run
    <2>5. QED
      BY <1>9, <1>10, <2>3, <2>4 DEF BreakerMatchesHistory
  <1>14. QED
    <2>1. daily_loss' \in Nat /\ n + 1 <= MaxTrades
      BY <1>1, <1>5, <1>8, OrderBoundsAssumption
    <2>2. QED
      BY <1>2, <1>8, <1>11, <1>12, <1>13, <2>1 DEF BreakerInv

LEMMA BreakerUnchanged == BreakerInv /\ UNCHANGED breakerVars => BreakerInv'
  <1>. SUFFICES ASSUME BreakerInv, UNCHANGED breakerVars PROVE BreakerInv'
    OBVIOUS
  <1>1. /\ trades' = trades /\ halted' = halted /\ consecutive_losses' = consecutive_losses
        /\ daily_loss' = daily_loss
    BY DEF breakerVars
  <1>2. LossUpTo' = LossUpTo
    BY <1>1 DEF LossUpTo, IsLoss
  <1>3. Tripped' <=> Tripped
    BY <1>1, <1>2 DEF Tripped, IsLoss
  <1>4. QED
    BY <1>1, <1>2, <1>3 DEF BreakerInv, TrailingRun, BreakerMatchesHistory, IsLoss

-----------------------------------------------------------------------------
(* Signals.  Of the payloads only this is needed beyond what the checkers  *)
(* say themselves: a confidence is a number.                               *)
LEMMA ConfidenceIsNumber ==
  ASSUME NEW p \in Payload PROVE p.confidence \in Int
  <1>. DEFINE Numeric(q) == DOMAIN q = DOMAIN Field /\ q["confidence"] \in Int
  <1>1. "confidence" \in DOMAIN Field /\ Field["confidence"] = Confidences
    BY DEF Field
  <1>2. ASSUME NEW ps, \A q \in ps : Numeric(q), NEW r \in Near(ps) PROVE Numeric(r)
    <2>1. PICK q \in ps, f \in DOMAIN Field : r \in Changed(q, f)
      BY <1>2 DEF Near
    <2>2. PICK x \in Field[f] : r = [q EXCEPT ![f] = x]
      BY <2>1 DEF Changed
    <2>3. DOMAIN r = DOMAIN q /\ r["confidence"] = IF f = "confidence" THEN x ELSE q["confidence"]
      BY <1>1, <1>2, <2>1, <2>2
    <2>4. f = "confidence" => x \in Int
      BY <1>1, <2>2, ConfidencesAssumption
    <2>5. QED
      BY <1>2, <2>1, <2>3, <2>4
  <1>3. Numeric(Ordinary)
    BY DEF Ordinary, Field, One
  <1>. HIDE DEF Numeric
  <1>4. \A q \in Near({Ordinary}) : Numeric(q)
    BY <1>2, <1>3
  <1>5. Numeric(p)
    BY <1>2, <1>4 DEF Payload
  <1>6. QED
    BY <1>5 DEF Numeric

(* What SignalsAgree says of one event, and of one payload.                *)
PayloadAgrees(p, converted) ==
  /\ Creates(p) /\ p.symbol # "plain newline" /\ p.parameters # "not JSON" =>
       /\ converted # {}
       /\ \A event \in converted :
            /\ event.confidence_bps * 2 - p.confidence \in -1 .. 1
            /\ event.side = "buy" <=> p.direction = "LONG"
            /\ event.side = "sell" <=> p.direction = "SHORT"
  /\ converted # {} => from_json(p)
  /\ \A event \in converted : DomainValidates(event)

EventAgrees(e) == e.event.kind = "strategy_signal" => PayloadAgrees(e.event.payload, e.converted)

LEMMA Rounding ==
  ASSUME NEW n \in Int, InRange(n)
  PROVE  /\ confidence_bps(n) # {}
         /\ \A b \in confidence_bps(n) : b \in Int /\ b * 2 - n \in -1 .. 1 /\ b <= 10000
  <1>1. n >= 0 /\ n <= 20000
    BY DEF InRange, One
  <1>. DEFINE low == n \div 2
              high == (n + 1) \div 2
  <1>2. /\ low \in Int /\ (low * 2 = n \/ low * 2 = n - 1)
        /\ high \in Int /\ (high * 2 = n + 1 \/ high * 2 = n)
    BY <1>1
  <1>3. confidence_bps(n) = {low, high}
    BY <1>1 DEF confidence_bps
  <1>. HIDE DEF low, high
  <1>4. /\ low * 2 - n \in -1 .. 1 /\ low <= 10000
        /\ high * 2 - n \in -1 .. 1 /\ high <= 10000
    BY <1>1, <1>2
  <1>5. QED
    BY <1>2, <1>3, <1>4

(* The fields of the events try_from may give.                             *)
LEMMA EventFields ==
  ASSUME NEW id, NEW symbol, NEW type, NEW side, NEW S,
         NEW event \in { [strategy_id |-> id, symbol |-> symbol, signal_type |-> type,
                          side |-> side, confidence_bps |-> bps] : bps \in S }
  PROVE  /\ event.side = side /\ event.confidence_bps \in S
         /\ event.strategy_id = id /\ event.symbol = symbol /\ event.signal_type = type
  OBVIOUS

(* The agreement of Python, Go and Rust about one payload.                 *)
LEMMA OnePayloadAgrees ==
  ASSUME NEW p \in Payload
  PROVE  PayloadAgrees(p, IF BrokerValidates(p) THEN Converts(p) ELSE {})
  <1>. DEFINE converted == IF BrokerValidates(p) THEN Converts(p) ELSE {}
              all == { [strategy_id |-> p.source_agent, symbol |-> p.symbol,
                        signal_type |-> SignalTypeOf(p.direction), side |-> SideOf(p.direction),
                        confidence_bps |-> bps] : bps \in confidence_bps(p.confidence) }
  <1>1. p.confidence \in Int
    BY ConfidenceIsNumber
  <1>2. ASSUME converted # {}
        PROVE  /\ BrokerValidates(p) /\ Deserializes(p) /\ validate_contract(p)
               /\ converted = all
    BY <1>2 DEF Converts, try_from
  <1>3. ASSUME BrokerValidates(p), Deserializes(p), validate_contract(p), p.timestamp = "seconds Z"
        PROVE  converted = all
    BY <1>3 DEF Converts, try_from
  <1>4. ASSUME p.direction \in Direction
        PROVE  /\ SideOf(p.direction) = "buy" <=> p.direction = "LONG"
               /\ SideOf(p.direction) = "sell" <=> p.direction = "SHORT"
               /\ SignalTypeOf(p.direction) \in {"EntryLong", "EntryShort"}
                    => SideOf(p.direction) # "none"
    BY <1>4 DEF Direction, SideOf, SignalTypeOf
  <1>. HIDE DEF converted
  <1>5. ASSUME NEW event \in all
        PROVE  /\ event.side = SideOf(p.direction)
               /\ event.confidence_bps \in confidence_bps(p.confidence)
               /\ event.strategy_id = p.source_agent /\ event.symbol = p.symbol
               /\ event.signal_type = SignalTypeOf(p.direction)
    BY <1>5, EventFields
  <1>6. InRange(p.confidence) => all # {}
    <2>1. InRange(p.confidence) => \E bps : bps \in confidence_bps(p.confidence)
      BY <1>1, Rounding
    <2>2. QED
      BY <2>1, Zenon
  <1>. HIDE DEF all
  <1>7. ASSUME Creates(p), p.symbol # "plain newline", p.parameters # "not JSON"
        PROVE  /\ converted # {}
               /\ \A event \in converted :
                    /\ event.confidence_bps * 2 - p.confidence \in -1 .. 1
                    /\ event.side = "buy" <=> p.direction = "LONG"
                    /\ event.side = "sell" <=> p.direction = "SHORT"
    <2>1. BrokerValidates(p)
      BY <1>7 DEF Creates, PythonValidates, BrokerValidates
    <2>2. Deserializes(p) /\ validate_contract(p) /\ p.timestamp = "seconds Z"
      BY <1>7 DEF Creates, PythonValidates, Deserializes, validate_contract
    <2>3. p.direction \in Direction /\ InRange(p.confidence)
      BY <1>7 DEF Creates, PythonValidates
    <2>4. converted = all
      BY <1>3, <2>1, <2>2
    <2>5. QED
      BY <1>1, <1>4, <1>5, <1>6, <2>3, <2>4, Rounding
  <1>8. ASSUME converted # {} PROVE from_json(p)
    <2>1. BrokerValidates(p) /\ Deserializes(p) /\ validate_contract(p)
      BY <1>2, <1>8
    <2>2. QED
      BY <2>1 DEF BrokerValidates, Deserializes, validate_contract, from_json, PythonValidates
  <1>9. ASSUME NEW event \in converted PROVE DomainValidates(event)
    <2>1. event \in all /\ Deserializes(p) /\ validate_contract(p)
      BY <1>2, <1>9
    <2>2. /\ p.direction \in Direction /\ InRange(p.confidence)
          /\ p.source_agent = "name" /\ p.symbol = "plain"
      BY <2>1 DEF Deserializes, validate_contract
    <2>3. event.strategy_id # "empty" /\ event.symbol # "empty" /\ event.confidence_bps <= 10000
      BY <1>1, <1>5, <2>1, <2>2, Rounding
    <2>4. event.signal_type \in {"EntryLong", "EntryShort"} => event.side # "none"
      BY <1>4, <1>5, <2>1, <2>2
    <2>5. QED
      BY <2>3, <2>4 DEF DomainValidates
  <1>10. PayloadAgrees(p, converted)
    BY <1>7, <1>8, <1>9 DEF PayloadAgrees
  <1>11. QED
    BY <1>10 DEF converted

(* The events sent are a sequence, to which one is appended at a time.     *)
EventsInv == (\E S : events \in Seq(S)) /\ SignalsAgree

LEMMA EventAppended ==
  ASSUME EventsInv, NEW e, events' = Append(events, e), EventAgrees(e)
  PROVE  EventsInv'
  <1>1. PICK S : events \in Seq(S)
    BY DEF EventsInv
  <1>. DEFINE T == S \cup {e}
  <1>2. events \in Seq(T)
    <2>1. \A i \in 1 .. Len(events) : events[i] \in T
      BY <1>1, ElementOfSeq
    <2>2. events = [i \in 1 .. Len(events) |-> events[i]] /\ Len(events) \in Nat
      BY <1>1, LenProperties
    <2>3. events \in [1 .. Len(events) -> T]
      BY <2>1, <2>2
    <2>4. QED
      BY <2>2, <2>3, IsASeq
  <1>3. e \in T
    OBVIOUS
  <1>. HIDE DEF T
  <1>4. /\ events' \in Seq(T) /\ Len(events') = Len(events) + 1 /\ Len(events) \in Nat
        /\ events'[Len(events) + 1] = e
        /\ \A i \in 1 .. Len(events) : events'[i] = events[i]
    BY <1>2, <1>3
  <1>5. DOMAIN events = 1 .. Len(events) /\ DOMAIN events' = 1 .. Len(events) + 1
    BY <1>2, <1>4, LenProperties
  <1>6. \A i \in DOMAIN events : EventAgrees(events[i])
    BY DEF EventsInv, SignalsAgree, EventAgrees, PayloadAgrees
  <1>7. \A i \in DOMAIN events' : EventAgrees(events'[i])
    BY <1>4, <1>5, <1>6
  <1>8. SignalsAgree'
    BY <1>7 DEF SignalsAgree, EventAgrees, PayloadAgrees
  <1>9. QED
    BY <1>4, <1>8 DEF EventsInv

LEMMA EmitPreserves ==
  ASSUME EventsInv, NEW kind \in {"execution_outcome", "risk_assessment"}, NEW status,
         NEW amount, NEW pnl, Emit(kind, status, amount, pnl)
  PROVE  EventsInv'
  <1>. DEFINE event == [kind |-> kind, status |-> status, amount |-> amount, pnl |-> pnl]
              e == [event |-> event, accepted |-> BrokerAccepts(event)]
  <1>1. events' = Append(events, e)
    BY DEF Emit
  <1>2. e.event.kind # "strategy_signal"
    OBVIOUS
  <1>. HIDE DEF e
  <1>3. EventAgrees(e)
    BY <1>2 DEF EventAgrees
  <1>4. QED
    BY <1>1, <1>3, EventAppended

LEMMA PublishPreserves ==
  ASSUME EventsInv, NEW p \in Payload, PublishSignal(p) PROVE EventsInv'
  <1>. DEFINE converted == IF BrokerValidates(p) THEN Converts(p) ELSE {}
              e == [event |-> [kind |-> "strategy_signal", payload |-> p],
                    accepted |-> BrokerValidates(p), converted |-> converted]
  <1>1. events' = Append(events, e)
    BY DEF PublishSignal
  <1>2. PayloadAgrees(p, converted)
    BY OnePayloadAgrees
  <1>. HIDE DEF converted
  <1>3. e.event.payload = p /\ e.converted = converted
    OBVIOUS
  <1>. HIDE DEF e
  <1>4. EventAgrees(e)
    BY <1>2, <1>3 DEF EventAgrees
  <1>5. QED
    BY <1>1, <1>4, EventAppended

-----------------------------------------------------------------------------
(* The specification.                                                      *)
OtherInv ==
  /\ activation \in BOOLEAN
  /\ last \in [order : Order \cup {NoOrder.order}, status : OrderStatus]

IInv == BreakerInv /\ EventsInv /\ OtherInv

LEMMA InitIInv == Init => IInv
  <1>. SUFFICES ASSUME Init PROVE IInv
    OBVIOUS
  <1>1. events = <<>> /\ last = NoOrder /\ activation = FALSE
    BY DEF Init
  <1>2. EventsInv
    BY <1>1 DEF EventsInv, SignalsAgree
  <1>3. last \in [order : Order \cup {NoOrder.order}, status : OrderStatus]
    <2>1. NoOrder = [order |-> NoOrder.order, status |-> "none"]
      BY DEF NoOrder
    <2>2. QED
      BY <1>1, <2>1 DEF OrderStatus
  <1>4. OtherInv
    BY <1>1, <1>3 DEF OtherInv
  <1>5. QED
    BY <1>2, <1>4, InitBreaker DEF IInv

LEMMA AdmitOrderPreserves ==
  ASSUME IInv, NEW order \in Order, AdmitOrder(order) PROVE IInv'
  <1>1. UNCHANGED <<breakerVars, activation>>
    BY DEF AdmitOrder
  <1>2. BreakerInv'
    BY <1>1, BreakerUnchanged DEF IInv
  <1>3. EventsInv'
    <2>1. \/ Emit("risk_assessment", "block", Number(100), Number(0))
          \/ Emit("execution_outcome", "validated", order.quantity, Number(0))
          \/ Emit("execution_outcome", "rejected", order.quantity, Number(0))
      BY DEF AdmitOrder
    <2>2. QED
      BY <2>1, EmitPreserves DEF IInv
  <1>4. OtherInv'
    <2>1. \E status \in {"halted_by_circuit_breaker", "validated", "rejected"} :
            last' = [order |-> order, status |-> status]
      BY DEF AdmitOrder
    <2>2. QED
      BY <1>1, <2>1 DEF IInv, OtherInv, OrderStatus
  <1>5. QED
    BY <1>2, <1>3, <1>4 DEF IInv

LEMMA EventsUnchanged == EventsInv /\ UNCHANGED events => EventsInv'
  BY DEF EventsInv, SignalsAgree

LEMMA StepPreserves == IInv /\ [Next]_vars => IInv'
  <1>. SUFFICES ASSUME IInv, [Next]_vars PROVE IInv'
    OBVIOUS
  <1>1. BreakerInv /\ EventsInv /\ OtherInv
    BY DEF IInv
  <1>2. CASE UNCHANGED vars
    <2>1. UNCHANGED breakerVars /\ UNCHANGED <<events, activation, last>>
      BY <1>2 DEF vars, breakerVars
    <2>2. QED
      BY <1>1, <2>1, BreakerUnchanged, EventsUnchanged DEF IInv, OtherInv
  <1>3. ASSUME NEW pnl \in Float, RecordTrade(pnl) PROVE IInv'
    <2>1. UNCHANGED <<activation, last, events>>
      BY <1>3 DEF RecordTrade
    <2>2. QED
      BY <1>1, <1>3, <2>1, RecordTradePreserves, EventsUnchanged DEF IInv, OtherInv
  <1>4. CASE Reset
    <2>1. UNCHANGED <<activation, last, events>>
      BY <1>4 DEF Reset
    <2>2. QED
      BY <1>1, <1>4, <2>1, ResetPreserves, EventsUnchanged DEF IInv, OtherInv
  <1>5. ASSUME NEW on \in BOOLEAN, SwitchKill(on) PROVE IInv'
    <2>1. UNCHANGED <<breakerVars, last, events>> /\ activation' = on
      BY <1>5 DEF SwitchKill
    <2>2. QED
      BY <1>1, <2>1, BreakerUnchanged, EventsUnchanged DEF IInv, OtherInv
  <1>6. ASSUME NEW quantity \in Float, NEW pnl \in Float, NEW status \in {"filled", "cancelled"},
               SendOutcome(status, quantity, pnl)
        PROVE  IInv'
    <2>1. UNCHANGED <<breakerVars, activation, last>> /\ Emit("execution_outcome", status, quantity, pnl)
      BY <1>6 DEF SendOutcome
    <2>2. QED
      BY <1>1, <2>1, BreakerUnchanged, EmitPreserves DEF IInv, OtherInv
  <1>7. ASSUME NEW payload \in Payload, PublishSignal(payload) PROVE IInv'
    <2>1. UNCHANGED <<breakerVars, activation, last>>
      BY <1>7 DEF PublishSignal
    <2>2. QED
      BY <1>1, <1>7, <2>1, BreakerUnchanged, PublishPreserves DEF IInv, OtherInv
  <1>8. QED
    BY <1>2, <1>3, <1>4, <1>5, <1>6, <1>7, AdmitOrderPreserves DEF Next

LEMMA Invariance == Spec => []IInv
  BY InitIInv, StepPreserves, PTL DEF Spec

(* Every variable keeps its type.                                          *)
THEOREM TypeCorrect == Spec => []TypeOK
  <1>1. IInv => TypeOK
    <2>. SUFFICES ASSUME IInv PROVE TypeOK
      OBVIOUS
    <2>1. Range(trades) \subseteq Float
      <3>1. trades \in Seq(Float)
        BY DEF IInv, BreakerInv
      <3>2. QED
        BY <3>1, LenProperties, ElementOfSeq DEF Range
    <2>2. QED
      BY <2>1 DEF IInv, BreakerInv, TrailingRun, OtherInv, TypeOK
  <1>2. QED
    BY <1>1, Invariance, PTL

(* The breaker is halted exactly when the trades since the last reset hold *)
(* a run of losses or a sum of them at the limit: for any limits, any      *)
(* number of trades and any order of wins, losses and NaN among them.      *)
THEOREM BreakerIsExact == Spec => []BreakerMatchesHistory
  <1>1. IInv => BreakerMatchesHistory
    BY DEF IInv, BreakerInv
  <1>2. QED
    BY <1>1, Invariance, PTL

(* A signal create() made of values JSON has passes the three checkers     *)
(* with its direction, and with its confidence to the nearest basis point, *)
(* whichever way f64 takes a half; what Rust accepts, Python reads.        *)
THEOREM CheckersAgree == Spec => []SignalsAgree
  <1>1. IInv => SignalsAgree
    BY DEF IInv, EventsInv
  <1>2. QED
    BY <1>1, Invariance, PTL

(* Between the trip and the reset no order passes and no trade undoes it.  *)
THEOREM StaysHalted == Spec => HaltedUntilReset
  <1>. DEFINE Holds == (halted /\ trades' # <<>>) =>
                         /\ halted'
                         /\ last' = last \/ last'.status = "halted_by_circuit_breaker"
  <1>1. Next => Holds
    <2>. SUFFICES ASSUME Next, halted, trades' # <<>>
                  PROVE  halted' /\ (last' = last \/ last'.status = "halted_by_circuit_breaker")
      OBVIOUS
    <2>1. CASE \E order \in Order : AdmitOrder(order)
      BY <2>1 DEF AdmitOrder, breakerVars
    <2>2. ~\E pnl \in Float : RecordTrade(pnl)
      BY DEF RecordTrade
    <2>3. ~Reset
      BY DEF Reset
    <2>4. QED
      BY <2>1, <2>2, <2>3 DEF Next, SwitchKill, SendOutcome, PublishSignal, breakerVars
  <1>2. QED
    BY <1>1, PTL DEF Spec, HaltedUntilReset
=============================================================================
