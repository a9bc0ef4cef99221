--------------------------- MODULE StrategySignal ---------------------------
(***************************************************************************)
(* A strategy signal and the three programs that each check it against     *)
(* strategy-signal-event-v1: the Python adapter that makes it              *)
(* (intelligence/strategy_intelligence/contract_adapter.py), the Go broker *)
(* that carries it (services/message_broker/internal/envelope), and the    *)
(* Rust engine that converts it (core_engine/strategy).                    *)
(*                                                                         *)
(* A payload is a JSON object; each field is the class of its value, as    *)
(* far as one of the three tells classes apart.  Confidence counts half    *)
(* basis points, so that the conversion to basis points has to round.      *)
(* Parameters are plain where they are absent or an object of JSON values, *)
(* "not JSON" where a value in them is a NaN or an infinity, which         *)
(* json.dumps writes as such, "other" where they are no object.            *)
(***************************************************************************)
EXTENDS Integers, FiniteSets

CONSTANT Confidences            \* numbers a confidence is taken from

ASSUME ConfidencesAssumption == Confidences \subseteq Int

One == 20000                    \* confidence 1.0

Direction == {"LONG", "SHORT", "FLAT"}

Field == [version      |-> {"1.0.0", "other"},
          event_id     |-> {"uuid", "text", "absent"},
          timestamp    |-> {"seconds Z", "other", "absent"},
          trace_id     |-> {"absent", "uuid", "text"},
          source_agent |-> {"name", "empty"},
          symbol       |-> {"plain", "plain newline", "other"},
          direction    |-> Direction \cup {"other"},
          form         |-> {"number", "text", "absent"},     \* of confidence
          confidence   |-> Confidences,
          regime       |-> {"known", "other"},
          parameters   |-> {"plain", "not JSON", "other", "null"},
          metadata     |-> {"absent", "strings", "mixed", "null"},
          extra        |-> {FALSE, TRUE}]                    \* an unknown field

(* Payloads that differ in at most n fields from one create() could make.  *)
Ordinary ==
  [version |-> "1.0.0", event_id |-> "uuid", timestamp |-> "seconds Z",
   trace_id |-> "absent", source_agent |-> "name", symbol |-> "plain",
   direction |-> "LONG", form |-> "number", confidence |-> One,
   regime |-> "known", parameters |-> "plain", metadata |-> "absent", extra |-> FALSE]

Changed(p, f) == { [p EXCEPT ![f] = x] : x \in Field[f] }

Near(ps) == UNION { Changed(p, f) : p \in ps, f \in DOMAIN Field }

Payload == Near(Near({Ordinary}))

-----------------------------------------------------------------------------
(* Python.  Signal.validate and StrategySignalEventV1.validate.  The       *)
(* pattern ends in $, which also matches before a final newline, and       *)
(* nothing looks at the timestamp or into the parameters or the metadata.  *)
InRange(n) == 0 <= n /\ n <= One

PythonValidates(p) ==
  /\ p.version = "1.0.0"
  /\ p.source_agent = "name"
  /\ p.event_id = "uuid"
  /\ p.trace_id \in {"absent", "uuid"}
  /\ p.symbol \in {"plain", "plain newline"}
  /\ p.direction \in Direction
  /\ InRange(p.confidence)
  /\ p.regime = "known"

(* from_json: float() also reads a string; an absent confidence is -1.     *)
from_json(p) ==
  /\ ~p.extra
  /\ p.form \in {"number", "text"}
  /\ PythonValidates(p)

(* create and to_json, called as their annotations say: the parameters are *)
(* a dict of anything, a NaN included.                                     *)
Creates(p) ==
  /\ ~p.extra /\ p.form = "number"
  /\ p.timestamp = "seconds Z" /\ p.trace_id = "absent"
  /\ p.parameters \in {"plain", "not JSON"} /\ p.metadata \in {"absent", "strings"}
  /\ PythonValidates(p)

-----------------------------------------------------------------------------
(* Go.  validateStrategySignalPayload: an absent field decodes to its zero *)
(* value, null to no map; ids are any text.                                *)
BrokerValidates_SlipBelowOne(p) ==      \* certainty is out of range
  /\ ~p.extra /\ p.form # "text"
  /\ p.parameters \in {"plain", "null"} /\ p.metadata # "mixed"
  /\ p.version = "1.0.0"
  /\ p.event_id # "absent" /\ p.timestamp # "absent"
  /\ p.source_agent = "name"
  /\ p.symbol = "plain" /\ p.direction \in Direction
  /\ p.form = "number" => 0 <= p.confidence /\ p.confidence < One
  /\ p.regime = "known"

BrokerValidates(p) ==
  /\ ~p.extra /\ p.form # "text"
  /\ p.parameters \in {"plain", "null"} /\ p.metadata # "mixed"
  /\ p.version = "1.0.0"
  /\ p.event_id # "absent" /\ p.timestamp # "absent"
  /\ p.source_agent = "name"
  /\ p.symbol = "plain" /\ p.direction \in Direction
  /\ p.form = "number" => InRange(p.confidence)
  /\ p.regime = "known"

-----------------------------------------------------------------------------
(* Rust.  What serde reads into contract_types' StrategySignalEventV1, and *)
(* validate_contract on what it has read.                                  *)
Deserializes(p) ==
  /\ ~p.extra
  /\ p.event_id = "uuid" /\ p.trace_id \in {"absent", "uuid"}
  /\ p.timestamp # "absent"
  /\ p.direction \in Direction /\ p.regime = "known"
  /\ p.form = "number"
  /\ p.parameters = "plain" /\ p.metadata \in {"absent", "strings"}

validate_contract(p) ==
  /\ p.version = "1.0.0"
  /\ p.source_agent = "name"
  /\ p.symbol = "plain"
  /\ InRange(p.confidence)

(* DomainEvent::try_from: the events it may give, none where it returns an *)
(* error.  The product with 10000.0 is one of f64: what is a half in       *)
(* decimal may come out just below it (0.50045 * 10000.0), so a half goes  *)
(* either way.  A cast of a negative number to u32 gives 0.                *)
confidence_bps(n) == IF n < 0 THEN {0} ELSE {n \div 2, (n + 1) \div 2}

SignalTypeOf(direction) ==
  CASE direction = "LONG"  -> "EntryLong"
    [] direction = "SHORT" -> "EntryShort"
    [] direction = "FLAT"  -> "NoSignal"

SideOf(direction) ==
  CASE direction = "LONG"  -> "buy"
    [] direction = "SHORT" -> "sell"
    [] direction = "FLAT"  -> "none"

try_from(p) ==
  IF validate_contract(p) /\ p.timestamp = "seconds Z"
  THEN { [strategy_id |-> p.source_agent, symbol |-> p.symbol,
          signal_type |-> SignalTypeOf(p.direction), side |-> SideOf(p.direction),
          confidence_bps |-> bps] : bps \in confidence_bps(p.confidence) }
  ELSE {}

Converts(p) == IF Deserializes(p) THEN try_from(p) ELSE {}

(* The domain event's own validate, which try_from does not call.          *)
DomainValidates(event) ==
  /\ event.strategy_id # "empty" /\ event.symbol # "empty"
  /\ event.confidence_bps <= 10000
  /\ event.signal_type \in {"EntryLong", "EntryShort"} => event.side # "none"

=============================================================================
