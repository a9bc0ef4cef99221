----------------------- MODULE ExchangeAdapter_proofs -----------------------
(***************************************************************************)
(* Proofs about the exchange adapters, for any callers, symbols, burst,    *)
(* rate, window and number of connections.                                 *)
(***************************************************************************)
EXTENDS ExchangeAdapter, SequenceTheorems, TLAPS

-----------------------------------------------------------------------------
(* The arithmetic of the bucket.                                           *)
LEMMA MinOfTwo ==
  ASSUME NEW a \in Int, NEW b \in Int
  PROVE  Min({a, b}) = IF a <= b THEN a ELSE b
  <1>. DEFINE m == IF a <= b THEN a ELSE b
  <1>1. m \in {a, b} /\ \A y \in {a, b} : m <= y
    OBVIOUS
  <1>2. \A x \in {a, b} : (\A y \in {a, b} : x <= y) => x = m
    OBVIOUS
  <1>3. QED
    BY <1>1, <1>2 DEF Min

LEMMA FullIsNat == Full \in Nat
  BY BucketAssumption DEF Full

LEMMA Multiples ==
  /\ \A n \in Int : n * Cost \in Int /\ (n + 1) * Cost = n * Cost + Cost
  /\ 0 * Cost = 0
  /\ \A n \in Int : (n - Burst) * Cost = n * Cost - Full
  BY BucketAssumption DEF Full

(* What the bucket holds once it is refilled.                              *)
LEMMA LevelIs ==
  ASSUME units \in 0 .. Full, elapsed \in 0 .. Full
  PROVE  /\ Refilled = (IF Full <= units + elapsed THEN Full ELSE units + elapsed)
         /\ Refilled \in 0 .. Full
  <1>1. Full \in Int /\ units + elapsed \in Int
    BY FullIsNat
  <1>2. Refilled = IF Full <= units + elapsed THEN Full ELSE units + elapsed
    BY <1>1, MinOfTwo DEF Refilled
  <1>3. QED
    BY <1>2, FullIsNat

LEMMA LevelPrimed ==
  ASSUME units' \in 0 .. Full, elapsed' \in 0 .. Full
  PROVE  /\ Refilled' = (IF Full <= units' + elapsed' THEN Full ELSE units' + elapsed')
         /\ Refilled' \in 0 .. Full
  <1>1. Full' = Full
    BY DEF Full
  <1>2. Full \in Int /\ units' + elapsed' \in Int
    BY <1>1, FullIsNat
  <1>3. Refilled' = Min({Full, units' + elapsed'})
    BY <1>1 DEF Refilled, Min
  <1>4. Refilled' = IF Full <= units' + elapsed' THEN Full ELSE units' + elapsed'
    BY <1>2, <1>3, MinOfTwo
  <1>5. PICK u \in 0 .. Full, e \in 0 .. Full : u = units' /\ e = elapsed'
    OBVIOUS
  <1>6. Refilled' = IF Full <= u + e THEN Full ELSE u + e
    BY <1>4, <1>5
  <1>7. Refilled' \in 0 .. Full
    BY <1>6, FullIsNat
  <1>8. QED
    BY <1>4, <1>7

-----------------------------------------------------------------------------
(* The inductive invariant.                                                *)
Callings == [pc : {"idle", "read", "down"} \cup Holding, conn : 0 .. MaxConns]

Types ==
  /\ conn \in 0 .. MaxConns
  /\ connected \in BOOLEAN /\ restored \in BOOLEAN
  /\ lastSymbols \subseteq Symbols
  /\ gauge \in 0 .. 2
  /\ live \subseteq 1 .. conn
  /\ subs \in [Conns -> SUBSET Symbols]
  /\ units \in 0 .. Full /\ elapsed \in 0 .. Full
  /\ sent \in Seq(0 .. Window)
  /\ call \in [Callers -> Callings]

(* One caller holds the mutex; who dials may still dial.                   *)
Exclusive ==
  /\ \A c, d \in Callers : call[c].pc \in Holding /\ call[d].pc \in Holding => c = d
  /\ \A c \in Callers : call[c].pc = "dial" => conn < MaxConns

(* SubscriptionsRestored, also while the mutex is held for a dial.         *)
Subscribing == {"token", "wait", "write"}

Asked ==
  (\A c \in Callers : call[c].pc \notin Subscribing) /\ connected /\ conn \in live /\ restored
    => lastSymbols \subseteq subs[conn]

(* A token that is taken and not yet spent counts as spent.                *)
Debt == IF \E c \in Callers : call[c].pc = "write" THEN Cost ELSE 0

PaidFor(i) == (Len(sent) - i) * Cost + Debt + Refilled <= Full + sent[i]

Paid == \A i \in 1 .. Len(sent) : PaidFor(i)

AdapterInv == Types /\ Exclusive /\ Asked /\ Paid

-----------------------------------------------------------------------------
(* The call of c goes on at pc, or ends.                                   *)
LEMMA CallMoves ==
  ASSUME Types, NEW c \in Callers, NEW pc \in {"idle", "read", "down"} \cup Holding
  PROVE  /\ GoTo(c, pc) => /\ call' \in [Callers -> Callings] /\ call'[c].pc = pc
                           /\ \A d \in Callers : d # c => call'[d] = call[d]
         /\ Return(c) => /\ call' \in [Callers -> Callings] /\ call'[c].pc = "idle"
                         /\ \A d \in Callers : d # c => call'[d] = call[d]
  <1>1. call \in [Callers -> Callings]
    BY DEF Types
  <1>2. ASSUME GoTo(c, pc)
        PROVE  /\ call' \in [Callers -> Callings] /\ call'[c].pc = pc
               /\ \A d \in Callers : d # c => call'[d] = call[d]
    <2>. DEFINE k == [call[c] EXCEPT !.pc = pc]
    <2>1. k \in Callings /\ k.pc = pc
      BY <1>1 DEF Callings
    <2>2. call' = [call EXCEPT ![c] = k]
      BY <1>1, <1>2 DEF GoTo
    <2>. HIDE DEF k
    <2>3. QED
      BY <1>1, <2>1, <2>2
  <1>3. ASSUME Return(c)
        PROVE  /\ call' \in [Callers -> Callings] /\ call'[c].pc = "idle"
               /\ \A d \in Callers : d # c => call'[d] = call[d]
    <2>1. Idle \in Callings /\ Idle.pc = "idle"
      <3>1. MaxConns \in Nat
        BY AdapterBoundsAssumption
      <3>2. QED
        BY <3>1 DEF Idle, Callings
    <2>2. QED
      BY <1>1, <1>3, <2>1 DEF Return
  <1>4. QED
    BY <1>2, <1>3

(* What was paid stays paid while nothing is sent and no token is taken.   *)
LEMMA PaidStays ==
  ASSUME Types, Paid, UNCHANGED <<units, elapsed, sent>>,
         \A c \in Callers : call'[c].pc = "write" => call[c].pc = "write"
  PROVE  Paid'
  <1>1. Refilled' = Refilled
    BY DEF Refilled
  <1>2. Debt' \in Nat /\ Debt \in Nat /\ Debt' <= Debt
    BY BucketAssumption DEF Debt
  <1>3. Refilled \in 0 .. Full /\ Full \in Nat
    BY LevelIs, FullIsNat DEF Types
  <1>4. ASSUME NEW i \in 1 .. Len(sent)
        PROVE  (Len(sent) - i) * Cost + Debt' + Refilled <= Full + sent[i]
    <2>1. (Len(sent) - i) * Cost + Debt + Refilled <= Full + sent[i]
      BY DEF Paid, PaidFor
    <2>2. (Len(sent) - i) * Cost \in Int /\ sent[i] \in Int
      <3>1. sent \in Seq(0 .. Window)
        BY DEF Types
      <3>2. Len(sent) \in Nat /\ sent[i] \in 0 .. Window
        BY <3>1, ElementOfSeq, LenProperties
      <3>3. Len(sent) - i \in Int /\ sent[i] \in Int
        BY <3>2, AdapterBoundsAssumption
      <3>4. QED
        BY <3>3, Multiples
    <2>. DEFINE p == (Len(sent) - i) * Cost
    <2>. HIDE DEF p
    <2>3. QED
      BY <1>2, <1>3, <2>1, <2>2 DEF p
  <1>5. QED
    BY <1>1, <1>4 DEF Paid, PaidFor

(* The mutex passes from one holder to the next.                           *)
LEMMA ExclusiveStays ==
  ASSUME Types, Exclusive, NEW c \in Callers,
         \A d \in Callers : d # c => call'[d] = call[d],
         call[c].pc \in Holding \/ ~Locked \/ call'[c].pc \notin Holding,
         conn' = conn \/ call[c].pc = "dial",
         call'[c].pc = "dial" => conn' < MaxConns
  PROVE  Exclusive'
  <1>1. ASSUME NEW d \in Callers, NEW e \in Callers,
               call'[d].pc \in Holding, call'[e].pc \in Holding
        PROVE  d = e
    BY <1>1 DEF Exclusive, Locked
  <1>2. ASSUME NEW d \in Callers, call'[d].pc = "dial"
        PROVE  conn' < MaxConns
    <2>1. CASE d = c
      BY <1>2, <2>1
    <2>2. CASE d # c
      <3>1. call[d].pc = "dial" /\ conn < MaxConns
        BY <1>2, <2>2 DEF Exclusive
      <3>2. call[c].pc # "dial"
        BY <2>2, <3>1 DEF Exclusive, Holding
      <3>3. QED
        BY <3>1, <3>2
    <2>3. QED
      BY <2>1, <2>2
  <1>3. Holding' = Holding
    BY DEF Holding
  <1>4. QED
    BY <1>1, <1>2, <1>3 DEF Exclusive

-----------------------------------------------------------------------------
(* The steps, one lemma each.                                              *)

(* Connect and ReadFrame where they touch only the caller's own place.     *)
LEMMA CallerAlone ==
  ASSUME AdapterInv, NEW c \in Callers,
         BeginConnect(c) \/ DialFails(c) \/ BeginRead(c) \/ FrameRead(c)
  PROVE  AdapterInv'
  <1>. USE DEF AdapterInv
  <1>1. UNCHANGED <<conn, connected, lastSymbols, gauge, live, subs, restored, units, elapsed, sent>>
    BY DEF BeginConnect, DialFails, BeginRead, FrameRead, stateVars, exchangeVars, limiterVars
  <1>2. /\ call' \in [Callers -> Callings]
        /\ call'[c].pc \in {"idle", "dial", "read"}
        /\ call[c].pc \notin Subscribing
        /\ \A d \in Callers : d # c => call'[d] = call[d]
        /\ call'[c].pc = "dial" => conn < MaxConns /\ ~Locked
    <2>1. CASE BeginConnect(c)
      BY <2>1, CallMoves DEF BeginConnect, Holding, Subscribing
    <2>2. CASE DialFails(c)
      BY <2>2, CallMoves DEF DialFails, Holding, Subscribing
    <2>3. CASE BeginRead(c)
      <3>1. [pc |-> "read", conn |-> conn] \in Callings /\ call \in [Callers -> Callings]
        BY DEF Types, Callings
      <3>2. call' = [call EXCEPT ![c] = [pc |-> "read", conn |-> conn]] /\ call[c].pc = "idle"
        BY <2>3 DEF BeginRead
      <3>3. QED
        BY <3>1, <3>2 DEF Subscribing
    <2>4. CASE FrameRead(c)
      BY <2>4, CallMoves DEF FrameRead, Holding, Subscribing
    <2>5. QED
      BY <2>1, <2>2, <2>3, <2>4
  <1>3. Types'
    BY <1>1, <1>2 DEF Types, Conns, Full
  <1>4. Exclusive'
    BY <1>1, <1>2, ExclusiveStays DEF Holding
  <1>5. Asked'
    BY <1>1, <1>2 DEF Asked, Subscribing
  <1>6. Paid'
    BY <1>1, <1>2, PaidStays
  <1>7. QED
    BY <1>3, <1>4, <1>5, <1>6

LEMMA DialledStep ==
  ASSUME AdapterInv, NEW c \in Callers, Dialled(c)
  PROVE  AdapterInv'
  <1>. USE DEF AdapterInv
  <1>1. /\ call[c].pc = "dial" /\ conn' = conn + 1 /\ live' = live \cup {conn + 1}
        /\ connected' = TRUE /\ gauge' = 1
        /\ UNCHANGED <<lastSymbols, subs, restored, units, elapsed, sent>>
    BY DEF Dialled, limiterVars
  <1>2. /\ call' \in [Callers -> Callings]
        /\ \A d \in Callers : d # c => call'[d] = call[d]
        /\ \/ lastSymbols = {} /\ call'[c].pc = "idle"
           \/ call'[c].pc = "token"
    BY CallMoves DEF Dialled, Holding
  <1>3. conn < MaxConns
    BY <1>1 DEF Exclusive
  <1>4. Types'
    <2>1. conn' \in 0 .. MaxConns /\ live' \subseteq 1 .. conn'
      BY <1>1, <1>3, AdapterBoundsAssumption DEF Types
    <2>2. QED
      BY <1>1, <1>2, <2>1 DEF Types, Conns, Full
  <1>5. Exclusive'
    BY <1>1, <1>2, ExclusiveStays DEF Holding
  <1>6. Asked'
    BY <1>1, <1>2 DEF Asked, Subscribing
  <1>7. Paid'
    BY <1>1, <1>2, PaidStays
  <1>8. QED
    BY <1>4, <1>5, <1>6, <1>7

LEMMA SubscribeStep ==
  ASSUME AdapterInv, NEW c \in Callers, NEW symbols \in Requests, Subscribe(c, symbols)
  PROVE  AdapterInv'
  <1>. USE DEF AdapterInv
  <1>1. /\ ~Locked /\ lastSymbols' = symbols
        /\ UNCHANGED <<conn, connected, gauge, live, subs, restored, units, elapsed, sent>>
    BY DEF Subscribe, exchangeVars, limiterVars
  <1>2. /\ call' \in [Callers -> Callings]
        /\ \A d \in Callers : d # c => call'[d] = call[d]
        /\ call'[c].pc = "token"
    BY CallMoves DEF Subscribe, Holding
  <1>3. symbols \subseteq Symbols
    BY RequestsAssumption
  <1>4. Types'
    BY <1>1, <1>2, <1>3 DEF Types, Conns, Full
  <1>5. Exclusive'
    BY <1>1, <1>2, ExclusiveStays
  <1>6. Asked'
    BY <1>2 DEF Asked, Subscribing
  <1>7. Paid'
    BY <1>1, <1>2, PaidStays
  <1>8. QED
    BY <1>4, <1>5, <1>6, <1>7

(* Steps that end the subscription with an error.                          *)
LEMMA SubscriptionFails ==
  ASSUME AdapterInv, NEW c \in Callers, WaitCancelled(c) \/ WriteFails(c)
  PROVE  AdapterInv'
  <1>. USE DEF AdapterInv
  <1>1. /\ restored' = FALSE /\ live' \subseteq live
        /\ UNCHANGED <<conn, connected, lastSymbols, gauge, subs, units, elapsed, sent>>
    BY DEF WaitCancelled, WriteFails, stateVars, exchangeVars, limiterVars
  <1>2. /\ call' \in [Callers -> Callings]
        /\ \A d \in Callers : d # c => call'[d] = call[d]
        /\ call'[c].pc = "idle"
    BY CallMoves DEF WaitCancelled, WriteFails, Holding
  <1>3. Types'
    BY <1>1, <1>2 DEF Types, Conns, Full
  <1>4. Exclusive'
    BY <1>1, <1>2, ExclusiveStays DEF Holding
  <1>5. Asked'
    BY <1>1 DEF Asked
  <1>6. Paid'
    BY <1>1, <1>2, PaidStays
  <1>7. QED
    BY <1>3, <1>4, <1>5, <1>6

(* Steps after which less is alive or connected, outside the subscription. *)
LEMMA GoesDown ==
  ASSUME AdapterInv,
         \/ \E c \in Callers : ReadFails(c) \/ MarkDown(c)
         \/ Close
         \/ \E k \in Conns : Drop(k)
  PROVE  AdapterInv'
  <1>. USE DEF AdapterInv
  <1>1. /\ live' \subseteq live /\ connected' \in {connected, FALSE}
        /\ gauge' \in {gauge, 0, 2}
        /\ UNCHANGED <<conn, lastSymbols, subs, restored, units, elapsed, sent>>
    BY DEF ReadFails, MarkDown, Close, Drop, stateVars, exchangeVars, limiterVars
  <1>2. \/ call' = call
        \/ \E c \in Callers :
             /\ call' \in [Callers -> Callings]
             /\ \A d \in Callers : d # c => call'[d] = call[d]
             /\ call[c].pc \in {"read", "down"} /\ call'[c].pc \in {"idle", "down"}
    <2>1. ASSUME NEW c \in Callers, ReadFails(c)
          PROVE  /\ call' \in [Callers -> Callings]
                 /\ \A d \in Callers : d # c => call'[d] = call[d]
                 /\ call[c].pc \in {"read", "down"} /\ call'[c].pc \in {"idle", "down"}
      BY <2>1, CallMoves DEF ReadFails
    <2>2. ASSUME NEW c \in Callers, MarkDown(c)
          PROVE  /\ call' \in [Callers -> Callings]
                 /\ \A d \in Callers : d # c => call'[d] = call[d]
                 /\ call[c].pc \in {"read", "down"} /\ call'[c].pc \in {"idle", "down"}
      BY <2>2, CallMoves DEF MarkDown
    <2>3. ASSUME Close \/ \E k \in Conns : Drop(k)
          PROVE  call' = call
      BY <2>3 DEF Close, Drop
    <2>4. QED
      BY <2>1, <2>2, <2>3
  <1>3. call' \in [Callers -> Callings]
    BY <1>2 DEF Types
  <1>4. Types'
    <2>1. gauge' \in 0 .. 2 /\ live' \subseteq 1 .. conn
      BY <1>1 DEF Types
    <2>2. connected' \in BOOLEAN
      BY <1>1 DEF Types
    <2>3. QED
      BY <1>1, <1>3, <2>1, <2>2 DEF Types, Conns, Full
  <1>5. Exclusive'
    <2>1. CASE call' = call
      BY <1>1, <2>1 DEF Exclusive, Holding
    <2>2. CASE call' # call
      <3>1. PICK c \in Callers :
              /\ \A d \in Callers : d # c => call'[d] = call[d]
              /\ call[c].pc \in {"read", "down"} /\ call'[c].pc \in {"idle", "down"}
        BY <1>2, <2>2
      <3>2. QED
        BY <1>1, <3>1, ExclusiveStays DEF Holding
    <2>3. QED
      BY <2>1, <2>2
  <1>6. \A d \in Callers : call[d].pc \in Subscribing <=> call'[d].pc \in Subscribing
    BY <1>2 DEF Subscribing
  <1>7. Asked'
    <2>1. connected' => connected
      BY <1>1
    <2>2. QED
      BY <1>1, <1>6, <2>1 DEF Asked, Subscribing
  <1>8. \A d \in Callers : call'[d].pc = "write" => call[d].pc = "write"
    BY <1>2
  <1>9. Paid'
    BY <1>1, <1>8, PaidStays
  <1>10. QED
    BY <1>4, <1>5, <1>7, <1>9

(* A token pays for the message before it is sent.                         *)
LEMMA AllowStep ==
  ASSUME AdapterInv, NEW c \in Callers, Allow(c)
  PROVE  AdapterInv'
  <1>. USE DEF AdapterInv
  <1>1. /\ call[c].pc \in {"token", "wait"} /\ elapsed' = 0
        /\ UNCHANGED <<conn, connected, lastSymbols, gauge, live, subs, restored, sent>>
    BY DEF Allow, stateVars, exchangeVars
  <1>2. /\ Refilled \in 0 .. Full /\ Full \in Nat /\ Cost \in Nat /\ Cost <= Full
    <2>1. Cost \in Nat /\ Full \in Nat /\ Cost <= Full
      <3>1. Burst - 1 \in Nat /\ Cost \in Nat
        BY BucketAssumption
      <3>2. Full = (Burst - 1) * Cost + Cost
        BY BucketAssumption DEF Full
      <3>3. (Burst - 1) * Cost \in Nat
        BY <3>1
      <3>4. QED
        BY <3>1, <3>2, <3>3
    <2>2. QED
      BY <2>1, LevelIs DEF Types
  <1>3. /\ call' \in [Callers -> Callings]
        /\ \A d \in Callers : d # c => call'[d] = call[d]
        /\ \/ call'[c].pc = "write" /\ Refilled >= Cost /\ units' = Refilled - Cost
           \/ call'[c].pc = "wait" /\ units' = Refilled
    BY CallMoves DEF Allow, Holding
  <1>4. units' \in 0 .. Full /\ elapsed' \in 0 .. Full
    BY <1>1, <1>2, <1>3
  <1>5. Types'
    BY <1>1, <1>3, <1>4 DEF Types, Conns, Full
  <1>6. Exclusive'
    BY <1>1, <1>3, ExclusiveStays DEF Holding
  <1>7. Asked'
    BY <1>3 DEF Asked, Subscribing
  <1>8. Debt = 0
    <2>1. \A d \in Callers : call[d].pc # "write"
      BY <1>1 DEF Exclusive, Holding
    <2>2. QED
      BY <2>1 DEF Debt
  <1>9. Debt' + Refilled' = Refilled
    <2>1. Refilled' = units'
      <3>1. Refilled' = (IF Full <= units' + elapsed' THEN Full ELSE units' + elapsed')
        BY <1>4, LevelPrimed
      <3>2. PICK u \in 0 .. Full : u = units'
        BY <1>4
      <3>3. Refilled' = (IF Full <= u + 0 THEN Full ELSE u + 0)
        BY <1>1, <3>1, <3>2
      <3>4. u = (IF Full <= u + 0 THEN Full ELSE u + 0)
        BY FullIsNat
      <3>5. QED
        BY <3>2, <3>3, <3>4
    <2>2. CASE call'[c].pc = "write"
      <3>1. Debt' = Cost
        BY <2>2 DEF Debt
      <3>2. QED
        BY <1>2, <1>3, <2>1, <2>2, <3>1
    <2>3. CASE call'[c].pc # "write"
      <3>1. \A d \in Callers : call'[d].pc # "write"
        BY <1>1, <1>3, <2>3 DEF Exclusive, Holding
      <3>2. Debt' = 0
        BY <3>1 DEF Debt
      <3>3. QED
        BY <1>2, <1>3, <2>1, <2>3, <3>2
    <2>4. QED
      BY <2>2, <2>3
  <1>10. Paid'
    <2>1. ASSUME NEW i \in 1 .. Len(sent)
          PROVE  (Len(sent) - i) * Cost + Debt' + Refilled' <= Full + sent[i]
      <3>1. (Len(sent) - i) * Cost + Debt + Refilled <= Full + sent[i]
        BY DEF Paid, PaidFor
      <3>2. (Len(sent) - i) * Cost \in Int
        <4>1. Len(sent) \in Nat
          BY LenProperties DEF Types
        <4>2. QED
          BY <4>1, Multiples
      <3>3. Debt' \in Int /\ Refilled' \in Int
        <4>1. Debt' \in Int
          BY <1>2 DEF Debt
        <4>2. QED
          BY <1>2, <1>4, <4>1, LevelPrimed
      <3>. DEFINE p == (Len(sent) - i) * Cost
      <3>. HIDE DEF p
      <3>4. p \in Int /\ p + Refilled <= Full + sent[i]
        BY <1>2, <1>8, <3>1, <3>2 DEF p
      <3>5. p + (Debt' + Refilled') <= Full + sent[i]
        BY <1>9, <3>4
      <3>6. p + Debt' + Refilled' = p + (Debt' + Refilled')
        BY <3>3, <3>4
      <3>7. QED
        BY <3>5, <3>6 DEF p
    <2>2. QED
      BY <1>1, <2>1 DEF Paid, PaidFor, Full
  <1>11. QED
    BY <1>5, <1>6, <1>7, <1>10

(* The message is written; the debt is paid.                               *)
LEMMA WrittenStep ==
  ASSUME AdapterInv, NEW c \in Callers, Written(c)
  PROVE  AdapterInv'
  <1>. USE DEF AdapterInv
  <1>1. /\ call[c].pc = "write" /\ sent' = Append(sent, 0)
        /\ subs' = IF conn \in live THEN [subs EXCEPT ![conn] = @ \cup lastSymbols] ELSE subs
        /\ UNCHANGED <<conn, connected, lastSymbols, gauge, live, units, elapsed>>
    BY DEF Written, stateVars, limiterVars
  <1>2. restored' = TRUE
    BY DEF Written
  <1>3. /\ call' \in [Callers -> Callings]
        /\ \A d \in Callers : d # c => call'[d] = call[d]
        /\ call'[c].pc = "idle"
    BY CallMoves DEF Written, Holding
  <1>4. sent \in Seq(0 .. Window) /\ 0 \in 0 .. Window
    BY AdapterBoundsAssumption DEF Types
  <1>5. /\ sent' \in Seq(0 .. Window) /\ Len(sent') = Len(sent) + 1 /\ Len(sent) \in Nat
        /\ \A i \in 1 .. Len(sent) : sent'[i] = sent[i] /\ sent[i] \in 0 .. Window
        /\ sent'[Len(sent) + 1] = 0
    <2>1. Len(sent) \in Nat /\ \A i \in 1 .. Len(sent) : sent[i] \in 0 .. Window
      BY <1>4, LenProperties, ElementOfSeq
    <2>. DEFINE S == 0 .. Window
    <2>. HIDE DEF S
    <2>2. sent \in Seq(S) /\ 0 \in S
      BY <1>4 DEF S
    <2>3. /\ Append(sent, 0) \in Seq(S) /\ Len(Append(sent, 0)) = Len(sent) + 1
          /\ \A i \in 1 .. Len(sent) : Append(sent, 0)[i] = sent[i]
          /\ Append(sent, 0)[Len(sent) + 1] = 0
      BY <2>2, AppendProperties
    <2>4. QED
      BY <1>1, <2>1, <2>3 DEF S
  <1>6. conn \in live => subs' \in [Conns -> SUBSET Symbols] /\ lastSymbols \subseteq subs'[conn]
    <2>1. conn \in live => conn \in Conns
      BY AdapterBoundsAssumption DEF Types, Conns
    <2>2. QED
      BY <1>1, <2>1 DEF Types
  <1>7. Types'
    <2>1. subs' \in [Conns -> SUBSET Symbols]
      BY <1>1, <1>6 DEF Types
    <2>2. QED
      BY <1>1, <1>2, <1>3, <1>5, <2>1 DEF Types, Conns, Full
  <1>8. Exclusive'
    BY <1>1, <1>3, ExclusiveStays DEF Holding
  <1>9. Asked'
    BY <1>1, <1>6 DEF Asked
  <1>10. /\ Debt = Cost /\ Debt' = 0 /\ Refilled' = Refilled
         /\ Refilled \in 0 .. Full /\ Full \in Nat /\ Cost \in Nat
    <2>1. Debt = Cost
      BY <1>1 DEF Debt
    <2>2. \A d \in Callers : call'[d].pc # "write"
      BY <1>1, <1>3 DEF Exclusive, Holding
    <2>3. Debt' = 0
      BY <2>2 DEF Debt
    <2>4. Refilled' = Refilled
      BY <1>1 DEF Refilled
    <2>5. QED
      BY <2>1, <2>3, <2>4, LevelIs, FullIsNat, BucketAssumption DEF Types
  <1>11. Paid'
    <2>. DEFINE n == Len(sent)
    <2>1. ASSUME NEW i \in 1 .. n + 1
          PROVE  (n + 1 - i) * Cost + 0 + Refilled <= Full + sent'[i]
      <3>1. CASE i = n + 1
        <4>1. n + 1 - i = 0 /\ sent'[i] = 0
          BY <1>5, <3>1
        <4>2. QED
          BY <1>10, <4>1, Multiples
      <3>2. CASE i # n + 1
        <4>1. i \in 1 .. n /\ n + 1 - i = (n - i) + 1 /\ n - i \in Int
          BY <1>5, <3>2
        <4>2. (n - i) * Cost + Debt + Refilled <= Full + sent[i]
          BY <4>1 DEF Paid, PaidFor
        <4>3. (n + 1 - i) * Cost = (n - i) * Cost + Cost /\ (n - i) * Cost \in Int
          BY <4>1, Multiples
        <4>4. sent'[i] = sent[i] /\ sent[i] \in Int
          BY <1>5, <4>1, AdapterBoundsAssumption
        <4>. DEFINE p == (n - i) * Cost
        <4>. HIDE DEF p
        <4>5. p \in Int /\ p + Cost + Refilled <= Full + sent[i] /\ (n + 1 - i) * Cost = p + Cost
          BY <1>10, <4>2, <4>3 DEF p
        <4>6. QED
          BY <1>10, <4>4, <4>5
      <3>3. QED
        BY <3>1, <3>2
    <2>2. Full' = Full
      BY DEF Full
    <2>3. QED
      BY <1>5, <1>10, <2>1, <2>2 DEF Paid, PaidFor
  <1>12. QED
    BY <1>7, <1>8, <1>9, <1>11

(* A tick refills at most one unit and makes every message one tick older. *)
LEMMA TickStep ==
  ASSUME AdapterInv, Tick
  PROVE  AdapterInv'
  <1>. USE DEF AdapterInv
  <1>1. UNCHANGED <<conn, connected, lastSymbols, gauge, live, subs, restored, units, call>>
    BY DEF Tick, stateVars, exchangeVars
  <1>2. /\ units \in 0 .. Full /\ elapsed \in 0 .. Full /\ Full \in Nat
        /\ sent \in Seq(0 .. Window) /\ Window \in Nat /\ Len(sent) \in Nat
        /\ \A i \in 1 .. Len(sent) : sent[i] \in 0 .. Window
        /\ DOMAIN sent = 1 .. Len(sent)
    BY FullIsNat, AdapterBoundsAssumption, LenProperties, ElementOfSeq DEF Types
  <1>3. elapsed' = (IF Full <= elapsed + 1 THEN Full ELSE elapsed + 1)
    <2>1. elapsed' = Min({Full, elapsed + 1}) /\ elapsed + 1 \in Int /\ Full \in Int
      BY <1>2 DEF Tick
    <2>2. QED
      BY <2>1, MinOfTwo
  <1>4. elapsed' \in 0 .. Full /\ elapsed' <= elapsed + 1
    BY <1>2, <1>3
  <1>5. PICK n \in 0 .. Len(sent) :
          /\ \A i \in DOMAIN sent : i <= n <=> sent[i] >= Window
          /\ sent' = [i \in 1 .. Len(sent) - n |-> sent[i + n] + 1]
    BY DEF Tick
  <1>6. /\ sent' \in Seq(0 .. Window) /\ Len(sent') = Len(sent) - n
        /\ \A i \in 1 .. Len(sent) - n :
             i + n \in 1 .. Len(sent) /\ sent'[i] = sent[i + n] + 1
    <2>1. Len(sent) - n \in Nat
      BY <1>2
    <2>2. ASSUME NEW i \in 1 .. Len(sent) - n
          PROVE  /\ i + n \in 1 .. Len(sent) /\ sent'[i] = sent[i + n] + 1
                 /\ sent[i + n] + 1 \in 0 .. Window
      <3>1. i + n \in 1 .. Len(sent) /\ ~(i + n <= n)
        BY <1>2
      <3>2. sent[i + n] \in 0 .. Window /\ ~(sent[i + n] >= Window)
        BY <1>2, <1>5, <3>1
      <3>3. QED
        BY <1>2, <1>5, <3>1, <3>2
    <2>3. sent' \in [1 .. Len(sent) - n -> 0 .. Window]
      BY <1>5, <2>2
    <2>4. sent' \in Seq(0 .. Window) /\ Len(sent') = Len(sent) - n
      <3>. DEFINE m == Len(sent) - n
      <3>. HIDE DEF m
      <3>1. m \in Nat /\ sent' \in [1 .. m -> 0 .. Window]
        BY <2>1, <2>3 DEF m
      <3>. DEFINE S == 0 .. Window
      <3>. HIDE DEF S
      <3>2. PICK t : t = sent'
        OBVIOUS
      <3>3. t \in [1 .. m -> S]
        BY <3>1, <3>2 DEF S
      <3>4. t \in Seq(S)
        BY <3>1, <3>3, SeqDef
      <3>5. Len(t) \in Nat /\ DOMAIN t = 1 .. Len(t)
        BY <3>4, LenProperties
      <3>6. Len(t) = m
        BY <3>1, <3>3, <3>5
      <3>7. QED
        BY <3>2, <3>4, <3>6 DEF m, S
    <2>5. QED
      BY <2>2, <2>4
  <1>7. Types'
    BY <1>1, <1>4, <1>6 DEF Types, Conns, Full
  <1>8. Exclusive'
    BY <1>1 DEF Exclusive, Holding
  <1>9. Asked'
    BY <1>1 DEF Asked, Subscribing
  <1>10. Debt' = Debt /\ Debt \in Nat
    BY <1>1, BucketAssumption DEF Debt
  <1>11. Refilled' \in Int /\ Refilled \in Int /\ Refilled' <= Refilled + 1
    <2>1. PICK u \in 0 .. Full, e \in 0 .. Full :
            u = units' /\ u = units /\ e = elapsed' /\ e <= elapsed + 1
      BY <1>1, <1>2, <1>4
    <2>2. Refilled' = (IF Full <= u + e THEN Full ELSE u + e)
      BY <2>1, LevelPrimed
    <2>3. Refilled = (IF Full <= u + elapsed THEN Full ELSE u + elapsed)
      BY <1>2, <2>1, LevelIs
    <2>4. PICK x \in 0 .. Full : x = elapsed /\ e <= x + 1
      BY <1>2, <2>1
    <2>. DEFINE r == IF Full <= u + x THEN Full ELSE u + x
                q == IF Full <= u + e THEN Full ELSE u + e
    <2>5. q \in Int /\ r \in Int /\ q <= r + 1
      BY <2>4, FullIsNat
    <2>6. q = Refilled' /\ r = Refilled
      BY <2>2, <2>3, <2>4
    <2>. HIDE DEF q, r
    <2>7. QED
      BY <2>5, <2>6
  <1>12. Paid'
    <2>1. ASSUME NEW i \in 1 .. Len(sent')
          PROVE  (Len(sent') - i) * Cost + Debt + Refilled' <= Full + sent'[i]
      <3>. DEFINE j == i + n
      <3>1. /\ j \in 1 .. Len(sent) /\ sent'[i] = sent[j] + 1
            /\ Len(sent') - i = Len(sent) - j /\ Len(sent) - j \in Int
            /\ sent[j] \in Int
        BY <1>2, <1>6
      <3>. HIDE DEF j
      <3>2. (Len(sent) - j) * Cost + Debt + Refilled <= Full + sent[j]
        BY <3>1 DEF Paid, PaidFor
      <3>. DEFINE p == (Len(sent) - j) * Cost
      <3>3. p \in Int
        BY <3>1, Multiples
      <3>4. (Len(sent') - i) * Cost = p
        BY <3>1
      <3>. HIDE DEF p
      <3>5. p + Debt + Refilled <= Full + sent[j]
        BY <3>2 DEF p
      <3>6. p + Debt + Refilled' <= Full + (sent[j] + 1)
        <4>1. PICK q \in Int, r \in Int : q = Refilled' /\ r = Refilled /\ q <= r + 1
          BY <1>11
        <4>2. p + Debt + r <= Full + sent[j]
          BY <3>5, <4>1
        <4>3. p + Debt + q <= Full + (sent[j] + 1)
          <5>1. Debt \in Int /\ Full \in Int /\ sent[j] \in Int
            BY <1>10, <3>1, FullIsNat
          <5>2. QED
            BY <3>3, <4>1, <4>2, <5>1
        <4>4. QED
          BY <4>1, <4>3
      <3>7. QED
        BY <3>1, <3>4, <3>6
    <2>2. Full' = Full
      BY DEF Full
    <2>3. QED
      BY <1>10, <2>1, <2>2 DEF Paid, PaidFor
  <1>13. QED
    BY <1>7, <1>8, <1>9, <1>12

-----------------------------------------------------------------------------
(* The invariant holds at the start, and every step keeps it.              *)
LEMMA StartsRight == Init => AdapterInv
  <1>. SUFFICES ASSUME Init PROVE AdapterInv
    OBVIOUS
  <1>1. Types
    <2>1. MaxConns \in Nat /\ Full \in Nat
      BY AdapterBoundsAssumption, FullIsNat
    <2>2. Idle \in Callings
      BY <2>1 DEF Idle, Callings
    <2>3. call \in [Callers -> Callings]
      BY <2>2 DEF Init
    <2>4. sent \in Seq(0 .. Window)
      BY DEF Init
    <2>5. connected \in BOOLEAN /\ restored \in BOOLEAN
      BY DEF Init
    <2>6. QED
      BY <2>1, <2>3, <2>4, <2>5 DEF Init, Types
  <1>2. \A c \in Callers : call[c].pc = "idle"
    BY DEF Init, Idle
  <1>3. Exclusive /\ Asked
    BY <1>2 DEF Init, Exclusive, Asked, Holding
  <1>4. Paid
    BY DEF Init, Paid
  <1>5. QED
    BY <1>1, <1>3, <1>4 DEF AdapterInv

LEMMA StaysRight == AdapterInv /\ [Next]_vars => AdapterInv'
  <1>. SUFFICES ASSUME AdapterInv, [Next]_vars PROVE AdapterInv'
    OBVIOUS
  <1>1. ASSUME NEW c \in Callers, Step(c)
        PROVE  AdapterInv'
    BY <1>1, CallerAlone, DialledStep, SubscribeStep, AllowStep, SubscriptionFails,
       WrittenStep, GoesDown DEF Step
  <1>2. CASE Close \/ \E k \in Conns : Drop(k)
    BY <1>2, GoesDown
  <1>3. CASE Tick
    BY <1>3, TickStep
  <1>4. CASE UNCHANGED vars
    BY <1>4 DEF vars, AdapterInv, Types, Exclusive, Asked, Paid, PaidFor, Debt, Refilled,
                Holding, Subscribing, Full, Conns, Callings
  <1>5. QED
    BY <1>1, <1>2, <1>3, <1>4 DEF Next

LEMMA Always == Spec => []AdapterInv
  BY StartsRight, StaysRight, PTL DEF Spec

(* TypeCorrect: the adapter's state keeps its types, whatever the callers, *)
(* the exchange and the clock do.                                          *)
THEOREM TypeCorrect == Spec => []TypeOK
  <1>1. AdapterInv => TypeOK
    <2>. SUFFICES ASSUME AdapterInv PROVE TypeOK
      OBVIOUS
    <2>1. \A i \in DOMAIN sent : sent[i] \in 0 .. Window
      BY ElementOfSeq, LenProperties DEF AdapterInv, Types
    <2>2. {connected, restored} \subseteq BOOLEAN
      BY DEF AdapterInv, Types
    <2>3. QED
      BY <2>1, <2>2 DEF AdapterInv, Types, TypeOK, Callings
  <1>2. QED
    BY <1>1, Always, PTL

(* Restored: SubscriptionsRestored for any number of callers, connections  *)
(* and symbols: Connect subscribes the cached symbols again before the     *)
(* mutex is free.                                                          *)
THEOREM Restored == Spec => []SubscriptionsRestored
  <1>1. AdapterInv => SubscriptionsRestored
    BY DEF AdapterInv, Asked, SubscriptionsRestored, Locked, Holding, Subscribing
  <1>2. QED
    BY <1>1, Always, PTL

(* NeverTooFast: RateRespected for any burst and rate of the limiter, the  *)
(* messages that failed and the waits given up included.                   *)
THEOREM NeverTooFast == Spec => []RateRespected
  <1>1. AdapterInv => RateRespected
    <2>. SUFFICES ASSUME AdapterInv, NEW i \in DOMAIN sent
                  PROVE  (Len(sent) - i - Burst) * Cost <= sent[i]
      BY DEF RateRespected
    <2>1. sent \in Seq(0 .. Window)
      BY DEF AdapterInv, Types
    <2>2. i \in 1 .. Len(sent) /\ sent[i] \in Int /\ Len(sent) - i \in Int
      BY <2>1, ElementOfSeq, LenProperties, AdapterBoundsAssumption
    <2>3. (Len(sent) - i) * Cost + Debt + Refilled <= Full + sent[i]
      BY <2>2 DEF AdapterInv, Paid, PaidFor
    <2>4. Debt \in Nat /\ Refilled \in 0 .. Full /\ Full \in Nat
      BY BucketAssumption, FullIsNat, LevelIs DEF Debt, AdapterInv, Types
    <2>. DEFINE p == (Len(sent) - i) * Cost
    <2>5. p \in Int /\ (Len(sent) - i - Burst) * Cost = p - Full
      BY <2>2, Multiples
    <2>. HIDE DEF p
    <2>6. p + Debt + Refilled <= Full + sent[i]
      BY <2>3 DEF p
    <2>7. QED
      BY <2>2, <2>4, <2>5, <2>6
  <1>2. QED
    BY <1>1, Always, PTL
=============================================================================
