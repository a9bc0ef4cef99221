----------------------------- MODULE OrderPath -----------------------------
(***************************************************************************)
(* The path of an order through the Rust engine: the circuit breaker and   *)
(* the kill switch of core_engine/risk, OrderManager.admit_order of        *)
(* core_engine/execution, and the events it emits to the Go broker, which  *)
(* brings it strategy signals in turn.                                     *)
(*                                                                         *)
(* Amounts are f64 in the code: here integers and NaN, with which every    *)
(* comparison is false.  An order is its quantity, its type and its price. *)
(* Symbol and agent id are non-empty strings that nothing else looks at.   *)
(***************************************************************************)
EXTENDS StrategySignal, Sequences, SequencesExt

CONSTANTS
  MaxConsecutive,    \* max_consecutive_losses
  MaxLoss,           \* max_daily_loss_pct
  Amounts,           \* the integers quantities, prices and results are taken from
  MaxTrades,         \* bound: trades recorded between two resets
  MaxEvents          \* bound: events sent

ASSUME ConfigAssumption ==      \* CircuitBreakerConfig.validate
  MaxConsecutive \in Nat \ {0} /\ MaxLoss \in Nat
ASSUME AmountsAssumption == Amounts \subseteq Int
ASSUME OrderBoundsAssumption == MaxTrades \in Nat /\ MaxEvents \in Nat

VARIABLES
  consecutive_losses,
  daily_loss,        \* daily_loss_accumulator
  halted,
  trades,            \* history: the trades recorded since the last reset
  activation,        \* the kill switch is on
  last,              \* the order handed in last, and the answer to it
  events             \* the events sent to the broker, with its verdict

breakerVars == <<consecutive_losses, daily_loss, halted, trades>>
vars == <<consecutive_losses, daily_loss, halted, trades, activation, last, events>>

(* f64: a number or NaN.                                                   *)
Float == [nan : {FALSE}, n : Amounts] \cup {[nan |-> TRUE, n |-> 0]}
Number(n) == [nan |-> FALSE, n |-> n]
Lt(x, y) == ~x.nan /\ ~y.nan /\ x.n < y.n
Le(x, y) == ~x.nan /\ ~y.nan /\ x.n <= y.n

OrderType == {"market", "limit", "stop_limit", "stop_market"}

(* price is an Option: it means nothing where priced is FALSE.             *)
Order ==
  { o \in [quantity : Float, order_type : OrderType, priced : BOOLEAN, price : Float] :
      ~o.priced => o.price = Number(0) }

OrderStatus == {"none", "validated", "rejected", "halted_by_circuit_breaker"}

NoOrder == [order |-> [quantity |-> Number(0), order_type |-> "market",
                       priced |-> FALSE, price |-> Number(0)],
            status |-> "none"]

-----------------------------------------------------------------------------
(* CircuitBreaker.record_trade.                                            *)
Abs(n) == IF n < 0 THEN -n ELSE n

Losses(pnl) == IF Lt(pnl, Number(0)) THEN consecutive_losses + 1 ELSE 0

RecordTrade_SlipWin(pnl) ==      \* a win does not end the run of losses
  /\ ~halted /\ Len(trades) < MaxTrades
  /\ trades' = Append(trades, pnl)
  /\ consecutive_losses' = consecutive_losses + IF Lt(pnl, Number(0)) THEN 1 ELSE 0
  /\ daily_loss' = daily_loss + IF Lt(pnl, Number(0)) THEN Abs(pnl.n) ELSE 0
  /\ halted' = (Lt(pnl, Number(0)) /\ (consecutive_losses' >= MaxConsecutive
                                       \/ daily_loss' >= MaxLoss))
  /\ UNCHANGED <<activation, last, events>>

RecordTrade(pnl) ==
  /\ ~halted /\ Len(trades) < MaxTrades
  /\ trades' = Append(trades, pnl)
  /\ consecutive_losses' = Losses(pnl)
  /\ daily_loss' = daily_loss + IF Lt(pnl, Number(0)) THEN Abs(pnl.n) ELSE 0
  /\ halted' = (Lt(pnl, Number(0)) /\ (consecutive_losses' >= MaxConsecutive
                                       \/ daily_loss' >= MaxLoss))
  /\ UNCHANGED <<activation, last, events>>

Reset ==
  /\ consecutive_losses' = 0
  /\ daily_loss' = 0
  /\ halted' = FALSE
  /\ trades' = <<>>
  /\ UNCHANGED <<activation, last, events>>

(* KillSwitchManager.activate and deactivate.                              *)
SwitchKill(on) ==
  /\ activation' = on
  /\ UNCHANGED <<breakerVars, last, events>>

-----------------------------------------------------------------------------
(* Order.validate.                                                         *)
Validates(order) ==
  /\ ~Le(order.quantity, Number(0))
  /\ order.order_type \in {"limit", "stop_limit"} =>
       order.priced /\ ~Le(order.price, Number(0))

(* What the broker's envelope.Validate makes of an event.  serde writes    *)
(* an f64 with a fraction or an exponent (NaN as null); Go reads quantity  *)
(* and pnl into an int64, which takes neither, but takes null for zero.    *)
(* The amount of an event is a quantity, or the score of a risk event.     *)
ReadsAsInt64(x) == x.nan

BrokerAccepts(event) ==
  \/ /\ event.kind = "execution_outcome"
     /\ event.status \in {"filled", "rejected", "cancelled", "halted_by_circuit_breaker"}
     /\ ReadsAsInt64(event.amount) /\ ReadsAsInt64(event.pnl)
  \/ /\ event.kind = "risk_assessment"
     /\ event.status \in {"pass", "warn", "block"}
     /\ ~Lt(event.amount, Number(0)) /\ ~Lt(Number(10000), event.amount)

(* emit_execution_event, emit_risk_event and send_execution_outcome: a     *)
(* failure is logged and forgotten, so only the verdict is kept.           *)
Emit(kind, status, amount, pnl) ==
  LET event == [kind |-> kind, status |-> status, amount |-> amount, pnl |-> pnl]
  IN /\ Len(events) < MaxEvents
     /\ events' = Append(events, [event |-> event, accepted |-> BrokerAccepts(event)])

(* OrderManager.admit_order.                                               *)
AdmitOrder_SlipValidFirst(order) == \* the breaker is asked for bad orders only
  /\ \/ /\ Validates(order)
        /\ last' = [order |-> order, status |-> "validated"]
        /\ Emit("execution_outcome", "validated", order.quantity, Number(0))
     \/ /\ ~Validates(order)
        /\ last' = [order |-> order, status |-> IF halted THEN "halted_by_circuit_breaker"
                                                          ELSE "rejected"]
        /\ Emit("execution_outcome", "rejected", order.quantity, Number(0))
  /\ UNCHANGED <<breakerVars, activation>>

AdmitOrder(order) ==
  /\ \/ /\ halted
        /\ last' = [order |-> order, status |-> "halted_by_circuit_breaker"]
        /\ Emit("risk_assessment", "block", Number(100), Number(0))
     \/ /\ ~halted /\ Validates(order)
        /\ last' = [order |-> order, status |-> "validated"]
        /\ Emit("execution_outcome", "validated", order.quantity, Number(0))
     \/ /\ ~halted /\ ~Validates(order)
        /\ last' = [order |-> order, status |-> "rejected"]
        /\ Emit("execution_outcome", "rejected", order.quantity, Number(0))
  /\ UNCHANGED <<breakerVars, activation>>

(* send_execution_outcome by the code that saw the order end.              *)
SendOutcome(status, quantity, pnl) ==
  /\ Emit("execution_outcome", status, quantity, pnl)
  /\ UNCHANGED <<breakerVars, activation, last>>

(* A signal on its way through the broker to the strategy engine: none of  *)
(* the three keeps any state about it.                                     *)
PublishSignal(payload) ==
  /\ Len(events) < MaxEvents
  /\ events' = Append(events,
       [event |-> [kind |-> "strategy_signal", payload |-> payload],
        accepted |-> BrokerValidates(payload),
        converted |-> IF BrokerValidates(payload) THEN Converts(payload) ELSE {}])
  /\ UNCHANGED <<breakerVars, activation, last>>

-----------------------------------------------------------------------------
Init ==
  /\ consecutive_losses = 0
  /\ daily_loss = 0
  /\ halted = FALSE
  /\ trades = <<>>
  /\ activation = FALSE
  /\ last = NoOrder
  /\ events = <<>>

Next ==
  \/ \E pnl \in Float : RecordTrade(pnl)
  \/ Reset
  \/ \E on \in BOOLEAN : SwitchKill(on)
  \/ \E order \in Order : AdmitOrder(order)
  \/ \E quantity, pnl \in Float, status \in {"filled", "cancelled"} :
       SendOutcome(status, quantity, pnl)
  \/ \E payload \in Payload : PublishSignal(payload)

Spec == Init /\ [][Next]_vars

-----------------------------------------------------------------------------
(* The types of all variables.                                             *)
TypeOK ==
  /\ consecutive_losses \in 0 .. MaxConsecutive
  /\ daily_loss \in Nat
  /\ halted \in BOOLEAN /\ activation \in BOOLEAN
  /\ Range(trades) \subseteq Float
  /\ last \in [order : Order \cup {NoOrder.order}, status : OrderStatus]

(* The breaker against its reference: it is halted exactly when the trades *)
(* since the last reset hold a run of MaxConsecutive losses, or losses     *)
(* that add up to MaxLoss, wherever wins and NaN results lie between them. *)
IsLoss(i) == Lt(trades[i], Number(0))

LossUpTo[i \in 0 .. MaxTrades] ==
  IF i = 0 THEN 0
  ELSE LossUpTo[i - 1] + IF IsLoss(i) THEN Abs(trades[i].n) ELSE 0

Tripped ==
  \E i \in DOMAIN trades :
    /\ IsLoss(i)
    /\ \/ i >= MaxConsecutive /\ \A j \in i - MaxConsecutive + 1 .. i : IsLoss(j)
       \/ LossUpTo[i] >= MaxLoss

BreakerMatchesHistory == halted <=> Tripped

(* From the trade that trips the breaker to the reset, and no sooner, no   *)
(* order passes and no later trade talks the breaker out of it.            *)
HaltedUntilReset ==
  [][(halted /\ trades' # <<>>) =>
       /\ halted'
       /\ last' = last \/ last'.status = "halted_by_circuit_breaker"]_vars

(* One contract in three languages.  A signal create() made, unless its    *)
(* symbol ends in a newline or a parameter is a NaN or an infinity, passes *)
(* the broker and becomes a domain event that says the same, with a        *)
(* confidence nearest to the signal's; and whatever becomes a domain event *)
(* is one its validate() would accept, and a payload Python reads as well. *)
SignalsAgree ==
  \A i \in DOMAIN events :
    events[i].event.kind = "strategy_signal" =>
      LET p == events[i].event.payload
      IN /\ Creates(p) /\ p.symbol # "plain newline" /\ p.parameters # "not JSON" =>
              /\ events[i].converted # {}
              /\ \A event \in events[i].converted :
                   /\ event.confidence_bps * 2 - p.confidence \in -1 .. 1
                   /\ event.side = "buy" <=> p.direction = "LONG"
                   /\ event.side = "sell" <=> p.direction = "SHORT"
         /\ events[i].converted # {} => from_json(p)
         /\ \A event \in events[i].converted : DomainValidates(event)

(* What SignalsAgree would say without its exceptions, and the adapter's   *)
(* docstring claims with "identical validation rules".                     *)
CreatedIsAccepted ==
  \A i \in DOMAIN events :
    events[i].event.kind = "strategy_signal" /\ Creates(events[i].event.payload)
      => events[i].converted # {}

(* What the adapter says of itself and of Rust's contract_types, "Both     *)
(* enforce identical validation rules".                                    *)
IdenticalRules ==
  \A i \in DOMAIN events :
    events[i].event.kind = "strategy_signal" =>
      LET p == events[i].event.payload
      IN from_json(p) <=> Deserializes(p) /\ validate_contract(p)

(* What Order.validate's message says, "quantity must be > 0", of every    *)
(* order that passes.                                                      *)
AdmittedQuantityIsPositive ==
  last.status = "validated" => Lt(Number(0), last.order.quantity)

(* What the risk engine's specification says, "Kill Switch: if active ->   *)
(* BLOCK all signals".                                                     *)
KillSwitchBlocks == [][(activation /\ last' # last) => last'.status # "validated"]_vars

(* What the execution engine's integration test asserts of an outcome sent *)
(* to a running broker: it is accepted.                                    *)
OutcomesReachTheBroker ==
  \A i \in DOMAIN events :
    (events[i].event.kind = "execution_outcome" /\ events[i].event.status = "filled")
      => events[i].accepted

=============================================================================
