--------------------------- MODULE RefdataBridge ---------------------------
(***************************************************************************)
(* The reference-data bridge and the store it feeds: two Redis subscribers *)
(* keep the newest snapshot and label per symbol, and a push loop sends to *)
(* Aegis what is newer than a watermark, while the subscribers go on       *)
(* receiving.  Aegis judges every item against its own clock and by what   *)
(* it already has; the answer names the rejected ones.                     *)
(*                                                                         *)
(* acceptedRegime is a history variable: the newest label Aegis ever       *)
(* accepted, which a restart of Aegis does not forget.                     *)
(***************************************************************************)
EXTENDS FeedClock

CONSTANTS Payloads,      \* snapshot messages of the sensory array, less their time
          Stamps,        \* the times it stamps them with
          Allowed,       \* the symbols of Aegis's limits file
          MaxBatch,      \* max_batch_snapshots
          StaleAfter,    \* snapshot_stale_after_s
          MaxRefAge,     \* max_ref_age_ms
          MaxRegimeAge   \* max_regime_age_ms

VARIABLES latest, latestRegimes,       \* the newest of each, by symbol
          pushedAsOf, pushedRegimeTs,  \* the watermarks, 0 when nothing was pushed
          push,                        \* the push under way
          prices, regimes,             \* what Aegis stores
          acceptedRegime

batchVars == <<latest, latestRegimes, pushedAsOf, pushedRegimeTs>>
aegisVars == <<prices, regimes, acceptedRegime>>
bridgeVars == <<batchVars, push, aegisVars>>

NoRegime == [symbol |-> "none", label |-> "REGIME_UNKNOWN", ts |-> 0,
             modelOf |-> "none", dataAt |-> 0]
NoSnapshot == [symbol |-> "none", ts |-> 0, is_stale |-> TRUE]
Idle == [pc |-> "idle", snapshots |-> {}, regimes |-> {}, rejected |-> {}]

Everywhere(v) == [s \in Symbols |-> v]

BridgeInit ==
  /\ latest = Everywhere(NoSnapshot) /\ latestRegimes = Everywhere(NoRegime)
  /\ pushedAsOf = Everywhere(0) /\ pushedRegimeTs = Everywhere(0)
  /\ push = Idle
  /\ prices = Everywhere(NoSnapshot) /\ regimes = Everywhere(NoRegime)
  /\ acceptedRegime = Everywhere(0)

-----------------------------------------------------------------------------
(* The subscribers.                                                        *)

(* parse_snapshot: a bad price or volume is refused; what the source calls *)
(* stale or warming up, and what is too old on arrival, is marked.         *)
parse_snapshot_data(p, ts) ==
  [symbol |-> p.symbol, ts |-> ts,
   is_stale |-> p.is_stale \/ p.warmup \/ now - ts < 0 \/ now - ts > StaleAfter]

record_snapshot(data) ==
  latest' = IF data.ts < latest[data.symbol].ts THEN latest
            ELSE [latest EXCEPT ![data.symbol] = data]

on_snapshot_message ==
  /\ \E p \in Payloads, ts \in Stamps :
       /\ ts <= now /\ p.ok
       /\ record_snapshot(parse_snapshot_data(p, ts))
  /\ UNCHANGED <<now, latestRegimes, pushedAsOf, pushedRegimeTs, push, aegisVars>>

(* parse_regime refuses a label without a time.                            *)
parse_regime(m) == m.ts > 0

record_regime(data) ==
  latestRegimes' = IF data.ts < latestRegimes[data.symbol].ts THEN latestRegimes
                   ELSE [latestRegimes EXCEPT ![data.symbol] = data]

on_regime_message(m) ==
  /\ IF parse_regime(m) THEN record_regime(m) ELSE UNCHANGED latestRegimes
  /\ UNCHANGED <<now, latest, pushedAsOf, pushedRegimeTs, push, aegisVars>>

-----------------------------------------------------------------------------
(* The push loop.                                                          *)

(* The oldest items first, up to the limit; equal times in any order.      *)
OldestFirst(due) ==
  {S \in SUBSET due :
     /\ Cardinality(S) = IF Cardinality(due) < MaxBatch THEN Cardinality(due) ELSE MaxBatch
     /\ \A x \in S, y \in due \ S : x.ts <= y.ts}

Due(items, watermark) ==
  {items[s] : s \in {t \in Symbols : items[t].ts > watermark[t]}}

build_batch ==
  {[pc |-> "sent", snapshots |-> S, regimes |-> R, rejected |-> {}] :
     S \in OldestFirst(Due(latest, pushedAsOf)),
     R \in OldestFirst(Due(latestRegimes, pushedRegimeTs))}

PushOnce ==
  /\ push = Idle
  /\ push' \in {b \in build_batch : b.snapshots # {} \/ b.regimes # {}}
  /\ UNCHANGED <<now, batchVars, aegisVars>>

(* PushReferenceData at Aegis: an item is stored if its symbol is allowed, *)
(* it is not too old, and it is strictly newer than what is there.         *)
Stored(item, maxAge, store) ==
  /\ item.symbol \in Allowed
  /\ now - item.ts <= maxAge
  /\ item.ts > store[item.symbol].ts

Taken(items, maxAge, store) == {x \in items : Stored(x, maxAge, store)}

Put(store, taken) ==
  [s \in Symbols |-> IF \E x \in taken : x.symbol = s
                     THEN CHOOSE x \in taken : x.symbol = s ELSE store[s]]
Accept(accepted, taken) ==
  [s \in Symbols |-> IF \E x \in taken : x.symbol = s /\ x.ts > accepted[s]
                     THEN (CHOOSE x \in taken : x.symbol = s).ts ELSE accepted[s]]

ingest ==
  /\ push.pc = "sent"
  /\ LET s == Taken(push.snapshots, MaxRefAge, prices)
         r == Taken(push.regimes, MaxRegimeAge, regimes)
     IN  /\ prices' = Put(prices, s)
         /\ regimes' = Put(regimes, r) /\ acceptedRegime' = Accept(acceptedRegime, r)
         /\ push' = [push EXCEPT !.pc = "answered",
                                 !.rejected = (push.snapshots \ s) \cup (push.regimes \ r)]
  /\ UNCHANGED <<now, batchVars>>

(* mark_applied: the watermark of a snapshot moves to the newest snapshot  *)
(* the bridge has by then, that of a label to the label that was pushed.   *)
applied_Latest(R) == {latestRegimes[r.symbol] : r \in R}  \* Slip: as for snapshots
applied(R) == R

mark_applied(S, R) ==
  /\ pushedAsOf' = [s \in Symbols |-> IF \E x \in S : x.symbol = s
                                      THEN latest[s].ts ELSE pushedAsOf[s]]
  /\ pushedRegimeTs' = [s \in Symbols |->
       IF \E x \in applied(R) : x.symbol = s /\ x.ts > pushedRegimeTs[s]
       THEN (CHOOSE x \in applied(R) : x.symbol = s).ts ELSE pushedRegimeTs[s]]

(* _parse_response: what is not rejected was applied.                      *)
Answer ==
  /\ push.pc = "answered" /\ push' = Idle
  /\ mark_applied(push.snapshots \ push.rejected, push.regimes \ push.rejected)
  /\ UNCHANGED <<now, latest, latestRegimes, aegisVars>>

PushFails_EndsLoop ==          \* Slip: the error ends the push task
  /\ push # Idle /\ push' = [push EXCEPT !.pc = "ended"]
  /\ UNCHANGED <<now, batchVars, aegisVars>>

(* PushError: the request or its answer was lost, or came too late.        *)
PushFails ==
  /\ push # Idle /\ push' = Idle
  /\ UNCHANGED <<now, batchVars, aegisVars>>

BridgeRestart ==
  /\ latest' = Everywhere(NoSnapshot) /\ latestRegimes' = Everywhere(NoRegime)
  /\ pushedAsOf' = Everywhere(0) /\ pushedRegimeTs' = Everywhere(0)
  /\ push' = Idle
  /\ UNCHANGED <<now, aegisVars>>

(* Aegis keeps reference data in memory only.                              *)
AegisRestart ==
  /\ prices' = Everywhere(NoSnapshot) /\ regimes' = Everywhere(NoRegime)
  /\ UNCHANGED <<now, batchVars, push, acceptedRegime>>
=============================================================================
