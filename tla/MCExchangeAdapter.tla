-------------------------- MODULE MCExchangeAdapter --------------------------
(***************************************************************************)
(* Instance of ExchangeAdapter for TLC: two callers and two symbols, each  *)
(* subscribed in a list of its own.                                        *)
(***************************************************************************)
EXTENDS ExchangeAdapter

CONSTANTS s1, s2

MCSymbols == {s1, s2}
MCRequests == {{s1}, {s2}}
=============================================================================
