-------------------------- MODULE RestrictionGuard --------------------------
(***************************************************************************)
(* Layer 1 of atlas_agent/restriction_guard.py: the decision on a prompt   *)
(* before it is sent to a model.  A prompt is what the rules see of it:    *)
(* the categories of which a pattern matches, and how many of the scaffold *)
(* and of the implementation indicators do.                                *)
(***************************************************************************)
EXTENDS Integers, Sequences

(* In the order of contracts/schemas/ai/restriction-rules-v1.json.         *)
RestrictionCategory ==
  <<"hft_core", "execution_logic", "risk_systems", "trading_strategies">>

Category == {RestrictionCategory[i] : i \in DOMAIN RestrictionCategory}
NoCategory == "none"

Prompt == [matches : SUBSET Category, scaffold : Nat, implementation : Nat]

(* _load_rules: without the contract file no pattern matches anything.     *)
Seen(prompt, rules) ==
  IF rules THEN prompt ELSE [matches |-> {}, scaffold |-> 0, implementation |-> 0]

(* The first category of which a pattern matches.                          *)
detect_category(seen) ==
  LET hits == {i \in DOMAIN RestrictionCategory : RestrictionCategory[i] \in seen.matches}
  IN  IF hits = {} THEN NoCategory
      ELSE RestrictionCategory[CHOOSE i \in hits : \A j \in hits : i <= j]

classify_intent(seen) ==
  IF seen.implementation > 0 THEN "implementation"
  ELSE IF seen.scaffold >= 2 THEN "scaffold" ELSE "ambiguous"

(* check_request, without the log of decisions.  A prompt of no category   *)
(* counts as a scaffold.                                                   *)
check_request(prompt, rules) ==
  LET seen == Seen(prompt, rules)
      category == detect_category(seen)
      intent == IF category = NoCategory THEN "scaffold" ELSE classify_intent(seen)
  IN  [category |-> category, intent |-> intent, allowed |-> intent = "scaffold"]
=============================================================================
