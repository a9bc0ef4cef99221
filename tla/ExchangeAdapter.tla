--------------------------- MODULE ExchangeAdapter ---------------------------
(***************************************************************************)
(* The exchange websocket adapters of the ingestion service                *)
(* (services/ingestion/internal/adapter): Connect, Subscribe, ReadFrame    *)
(* and Close of bybit.go, with the token bucket of ratelimit.go.  okx.go   *)
(* has the same code with other constants and skips pong frames while it   *)
(* reads.  Ping writes to the connection and changes no state.             *)
(*                                                                         *)
(* Callers are concurrent.  The adapter's mutex is held from the dial to   *)
(* the end of a (re)subscription, the wait for a token included, but not   *)
(* while a frame is read: ReadFrame works on the connection it found.      *)
(* A call begins when it gets the mutex, that is, when nobody holds it; of *)
(* the waits for it only the one inside a call is a stage (MarkDown).      *)
(* Connections are numbered in the order they are dialled.                 *)
(*                                                                         *)
(* Time is relative: one Tick is the limiter's poll interval, and every    *)
(* age stops at the value beyond which nothing depends on it.  A token is  *)
(* Cost units and the bucket gains one unit per Tick, so that a fraction   *)
(* of a token is a number of units.                                        *)
(***************************************************************************)
EXTENDS Integers, Sequences, FiniteSetsExt, FiniteSets

CONSTANTS
  Callers,           \* concurrent callers of the adapter
  Symbols,           \* what can be subscribed
  Requests,          \* the lists of symbols callers subscribe to
  Burst,             \* bybitSubscribeBurst: tokens the bucket holds
  Cost,              \* ticks per token: the inverse of bybitSubscribeRate
  Window,            \* the ticks for which a sent subscription is remembered
  MaxConns           \* bound: connections dialled

ASSUME BucketAssumption == Burst \in Nat \ {0} /\ Cost \in Nat \ {0}
ASSUME RequestsAssumption == Requests \subseteq SUBSET Symbols
ASSUME AdapterBoundsAssumption == {Window, MaxConns} \subseteq Nat

VARIABLES
  conn,              \* conn: the latest connection dialled, 0 before the first
  connected,         \* connected
  lastSymbols,       \* lastSymbols: what a reconnect subscribes again
  gauge,             \* metrics.ConnectionState
  live,              \* connections that neither side has closed
  subs,              \* what the exchange was asked for on every connection
  restored,          \* the latest subscribeLocked returned nil
  units,             \* RateLimiter.tokens, in units
  elapsed,           \* the time since RateLimiter.lastRefill
  sent,              \* the ages of the subscribe messages written, oldest first
  call               \* where every caller stands, and the connection it reads

limiterVars == <<units, elapsed>>
exchangeVars == <<live, subs>>
stateVars == <<conn, connected, lastSymbols, gauge>>
vars == <<conn, connected, lastSymbols, gauge, live, subs, restored, units,
          elapsed, sent, call>>

Conns == 1 .. MaxConns
Full == Burst * Cost

Idle == [pc |-> "idle", conn |-> 0]

(* The steps a caller takes while it holds the adapter's mutex.            *)
Holding == {"dial", "token", "wait", "write"}
Locked == \E c \in Callers : call[c].pc \in Holding

GoTo(c, pc) == call' = [call EXCEPT ![c].pc = pc]
Return(c) == call' = [call EXCEPT ![c] = Idle]

-----------------------------------------------------------------------------
(* Connect: dial under the mutex.  A new connection replaces the old one,  *)
(* which stays open, and the cached symbols are subscribed again.          *)
BeginConnect(c) ==
  /\ call[c].pc = "idle" /\ ~Locked
  /\ conn < MaxConns
  /\ GoTo(c, "dial")
  /\ UNCHANGED <<stateVars, exchangeVars, restored, limiterVars, sent>>

DialFails(c) ==
  /\ call[c].pc = "dial"
  /\ Return(c)
  /\ UNCHANGED <<stateVars, exchangeVars, restored, limiterVars, sent>>

Dialled_SlipForgets(c) ==               \* nothing is subscribed again
  /\ call[c].pc = "dial"
  /\ conn' = conn + 1
  /\ live' = live \cup {conn'}
  /\ connected' = TRUE
  /\ gauge' = 1
  /\ Return(c)
  /\ UNCHANGED <<lastSymbols, subs, restored, limiterVars, sent>>

Dialled(c) ==
  /\ call[c].pc = "dial"
  /\ conn' = conn + 1
  /\ live' = live \cup {conn'}
  /\ connected' = TRUE
  /\ gauge' = 1
  /\ \/ lastSymbols = {} /\ Return(c)
     \/ lastSymbols # {} /\ GoTo(c, "token")
  /\ UNCHANGED <<lastSymbols, subs, restored, limiterVars, sent>>

(* Subscribe: the symbols replace the cached ones before they are sent.    *)
(* Without a connection it returns an error and changes nothing.           *)
Subscribe(c, symbols) ==
  /\ call[c].pc = "idle" /\ ~Locked
  /\ connected /\ conn # 0
  /\ lastSymbols' = symbols
  /\ GoTo(c, "token")
  /\ UNCHANGED <<conn, connected, gauge, exchangeVars, restored, limiterVars, sent>>

-----------------------------------------------------------------------------
(* subscribeLocked: Allow and, once refused, Wait until a token is there   *)
(* or the context ends; then one message.  Allow refills even when it      *)
(* refuses.                                                                *)
Refilled_SlipNoCap == units + elapsed   \* the bucket has no bottom

Refilled_SlipWholeTokens ==             \* a fraction of a token is dropped
  Min({Full, units + (elapsed \div Cost) * Cost})

Refilled == Min({Full, units + elapsed})

Allow(c) ==
  /\ call[c].pc \in {"token", "wait"}
  /\ elapsed' = 0
  /\ \/ /\ Refilled >= Cost
        /\ units' = Refilled - Cost
        /\ GoTo(c, "write")
     \/ /\ Refilled < Cost
        /\ units' = Refilled
        /\ GoTo(c, "wait")
  /\ UNCHANGED <<stateVars, exchangeVars, restored, sent>>

WaitCancelled(c) ==
  /\ call[c].pc = "wait"
  /\ restored' = FALSE
  /\ Return(c)
  /\ UNCHANGED <<stateVars, exchangeVars, limiterVars, sent>>

(* A write to a connection the exchange has dropped may still return nil.  *)
Written(c) ==
  /\ call[c].pc = "write"
  /\ sent' = Append(sent, 0)
  /\ subs' = IF conn \in live
             THEN [subs EXCEPT ![conn] = @ \cup lastSymbols] ELSE subs
  /\ restored' = TRUE
  /\ Return(c)
  /\ UNCHANGED <<stateVars, live, limiterVars>>

(* The websocket library closes a connection on which a call failed.  In   *)
(* Connect and in Subscribe alike the adapter keeps it as connected.       *)
WriteFails(c) ==
  /\ call[c].pc = "write"
  /\ live' = live \ {conn}
  /\ restored' = FALSE
  /\ Return(c)
  /\ UNCHANGED <<stateVars, subs, limiterVars, sent>>

-----------------------------------------------------------------------------
(* ReadFrame: take the connection under the mutex, read without it, and    *)
(* take the mutex again only to mark the adapter down.                     *)
BeginRead(c) ==
  /\ call[c].pc = "idle" /\ ~Locked
  /\ conn # 0
  /\ call' = [call EXCEPT ![c] = [pc |-> "read", conn |-> conn]]
  /\ UNCHANGED <<stateVars, exchangeVars, restored, limiterVars, sent>>

(* A frame is returned with its trace id, which changes nothing here.      *)
FrameRead(c) ==
  /\ call[c].pc = "read"
  /\ call[c].conn \in live
  /\ Return(c)
  /\ UNCHANGED <<stateVars, exchangeVars, restored, limiterVars, sent>>

ReadFails(c) ==
  /\ call[c].pc = "read"
  /\ live' = live \ {call[c].conn}
  /\ GoTo(c, "down")
  /\ UNCHANGED <<stateVars, subs, restored, limiterVars, sent>>

(* connected belongs to whatever connection is there by now.               *)
MarkDown(c) ==
  /\ call[c].pc = "down" /\ ~Locked
  /\ connected' = FALSE
  /\ gauge' = 2
  /\ Return(c)
  /\ UNCHANGED <<conn, lastSymbols, exchangeVars, restored, limiterVars, sent>>

Close ==
  /\ ~Locked
  /\ connected /\ conn # 0
  /\ connected' = FALSE
  /\ gauge' = 0
  /\ live' = live \ {conn}
  /\ UNCHANGED <<conn, lastSymbols, subs, restored, limiterVars, sent, call>>

-----------------------------------------------------------------------------
(* The exchange or the network ends a connection.                          *)
Drop(k) ==
  /\ k \in live
  /\ live' = live \ {k}
  /\ UNCHANGED <<stateVars, subs, restored, limiterVars, sent, call>>

(* One tick later; of the messages sent the n oldest leave the window.     *)
Tick ==
  /\ elapsed' = Min({Full, elapsed + 1})
  /\ \E n \in 0 .. Len(sent) :
       /\ \A i \in DOMAIN sent : i <= n <=> sent[i] >= Window
       /\ sent' = [i \in 1 .. Len(sent) - n |-> sent[i + n] + 1]
  /\ UNCHANGED <<stateVars, exchangeVars, restored, units, call>>

-----------------------------------------------------------------------------
Init ==
  /\ conn = 0 /\ connected = FALSE /\ lastSymbols = {} /\ gauge = 0
  /\ live = {} /\ subs = [k \in Conns |-> {}]
  /\ restored = TRUE
  /\ units = Full /\ elapsed = 0              \* NewRateLimiter: a full bucket
  /\ sent = <<>>
  /\ call = [c \in Callers |-> Idle]

Step(c) ==
  \/ BeginConnect(c) \/ DialFails(c) \/ Dialled(c)
  \/ \E symbols \in Requests : Subscribe(c, symbols)
  \/ Allow(c) \/ WaitCancelled(c) \/ Written(c) \/ WriteFails(c)
  \/ BeginRead(c) \/ FrameRead(c) \/ ReadFails(c) \/ MarkDown(c)

Next ==
  \/ \E c \in Callers : Step(c)
  \/ Close
  \/ \E k \in Conns : Drop(k)
  \/ Tick

(* Dials and writes end, one way or the other; Go's mutex hands itself to  *)
(* a waiter that has been passed over, so MarkDown is strongly fair.       *)
(* Nothing promises that a frame arrives, or that a context is cancelled.  *)
Fairness ==
  /\ WF_vars(Tick)
  /\ \A c \in Callers :
       /\ WF_vars(DialFails(c) \/ Dialled(c))
       /\ WF_vars(Allow(c))
       /\ WF_vars(Written(c) \/ WriteFails(c))
       /\ SF_vars(MarkDown(c))

Spec == Init /\ [][Next]_vars /\ Fairness

-----------------------------------------------------------------------------
(* The types of the adapter's state.                                       *)
TypeOK ==
  /\ conn \in 0 .. MaxConns
  /\ {connected, restored} \subseteq BOOLEAN
  /\ lastSymbols \subseteq Symbols
  /\ gauge \in 0 .. 2
  /\ live \subseteq 1 .. conn
  /\ subs \in [Conns -> SUBSET Symbols]
  /\ units \in 0 .. Full /\ elapsed \in 0 .. Full
  /\ \A i \in DOMAIN sent : sent[i] \in 0 .. Window
  /\ call \in [Callers -> [pc : {"idle", "read", "down"} \cup Holding,
                           conn : 0 .. MaxConns]]

(* RateRespected: the subscribe messages on the wire in any stretch of     *)
(* time are at most the burst and what was refilled in it, and one more:   *)
(* a token may be taken long before the message it pays for is written.    *)
(* Callers wait, give up, reconnect and retry in between.                  *)
RateRespected ==
  \A i \in DOMAIN sent : (Len(sent) - i - Burst) * Cost <= sent[i]

(* SubscriptionsRestored: while the adapter says it is connected and the   *)
(* connection is alive, the exchange has been asked on it for everything   *)
(* the adapter would subscribe again, unless the latest attempt returned   *)
(* an error (bybit.go, D4).                                                *)
SubscriptionsRestored ==
  (~Locked /\ connected /\ conn \in live /\ restored) => lastSymbols \subseteq subs[conn]

(* CallReturns: a call that waits for a dial, a token, a write or, to      *)
(* report a read error, the mutex again, returns, however often the bucket *)
(* is found empty and however many other calls come first.                 *)
CallReturns ==
  \A c \in Callers : call[c].pc \notin {"idle", "read"} ~> call[c].pc = "idle"

-----------------------------------------------------------------------------
(* What the documentation says and the code does not keep.                 *)

(* DocumentedRate (okx.go line 8, "20 subscribe/unsubscribe per 10         *)
(* seconds"; bybit.go line 8, "10 ops/sec subscribe"): the messages of a   *)
(* window are at most what the sustained rate gives, rounded up.  The      *)
(* burst comes on top of it.                                               *)
DocumentedRate ==
  Cardinality({i \in DOMAIN sent : sent[i] < Window}) * Cost < Window + Cost

(* RecoversAll (bybit.go line 9, "State recovery with automatic            *)
(* re-subscribe"): what the exchange sent on an earlier connection it also *)
(* sends on the new one.  Subscribe replaces the cached symbols, so only   *)
(* the latest list comes back.                                             *)
RecoversAll ==
  (~Locked /\ connected /\ conn \in live /\ restored) =>
    \A k \in 1 .. conn : subs[k] \subseteq subs[conn]

(* DownMeansDead: the adapter reports "reconnecting" only for a connection *)
(* that is gone.  A late error of a read on an older connection marks the  *)
(* new one down, after which Close does nothing and the new connection     *)
(* stays open.                                                             *)
DownMeansDead == gauge = 2 => conn \notin live

(* ClosedStaysClosed: after Close the metric says disconnected until the   *)
(* next Connect.  The reader that Close interrupts sets it to reconnecting.*)
ClosedStaysClosed == [][gauge = 0 => gauge' # 2]_vars
=============================================================================
