---------------------------- MODULE SimExecution ----------------------------
(***************************************************************************)
(* The simulated execution of one order against one bar.  A config c holds *)
(* the CostModel and the ExecutionConfig: fractions are in percent, and    *)
(* None stands for a rule that is switched off.  High and low of a bar     *)
(* serve only the square-root impact, which is left out.                   *)
(***************************************************************************)
EXTENDS SimPortfolio

CONSTANT None

ConfigOK(c) ==
  /\ c.initial_cash > 0
  /\ c.per_share >= 0 /\ c.rate >= 0 /\ c.min_commission >= 0
  /\ c.half_spread >= 0 /\ c.impact >= 0
  /\ c.latency >= 0 /\ c.jitter >= 0
  /\ 0 < c.participation /\ c.participation <= 100
  /\ c.collar # None => c.collar > 0
  /\ c.default_ttl # None => c.default_ttl > 0

IntentOK(i) ==
  /\ i.quantity > 0
  /\ i.price_limit # None => i.price_limit > 0
  /\ i.valid_for # None => i.valid_for > 0

reference_price(bar, c) == IF c.fill_price = "open" THEN bar.open ELSE bar.close

(* Half-spread and linear impact, in percent of the reference price.       *)
slippage_fraction(c, qty, volume) ==
  c.half_spread + (IF volume > 0 THEN (c.impact * qty) \div volume ELSE 0)

(* The price is formatted to PRICE_PLACES and never reaches zero.          *)
fill_price(c, o, bar, qty) ==
  LET sign == IF o.side = "BUY" THEN 1 ELSE -1
      slipped == (reference_price(bar, c)
                    * (100 + sign * slippage_fraction(c, qty, bar.volume))) \div 100
  IN  IF slipped > 1 THEN slipped ELSE 1

commission(c, qty, notional) ==
  LET fee == qty * c.per_share + (notional * c.rate) \div 100
  IN  IF fee > c.min_commission THEN fee ELSE c.min_commission

(* Why the inventory rules refuse the order for good, or "".               *)
validate_side(o, position, c) ==
  CASE o.side = "SELL" /\ position <= 0 -> "no_long_position"
    [] o.side = "SELL_SHORT" /\ ~c.allow_short -> "shorting_disabled"
    [] o.side = "SELL_SHORT" /\ c.allow_short /\ position > 0 -> "short_while_long"
    [] OTHER -> ""

max_quantity(o, position) ==
  IF o.side = "SELL" THEN Lesser(o.remaining, position) ELSE o.remaining

limit_ok(o, price) ==
  \/ o.price_limit = None
  \/ IF o.side = "BUY" THEN price <= o.price_limit ELSE price >= o.price_limit

outside_collar(o, ref, c) ==
  /\ c.collar # None
  /\ Absolute(ref - o.decision_price) * 100 > c.collar * o.decision_price

Refused(o, ts, why) ==
  [id |-> o.id, symbol |-> o.symbol, ts |-> ts, reason |-> why, quantity |-> o.remaining]

Waits(o) == [fill |-> <<>>, order |-> <<o>>, rejection |-> <<>>]
Rejects(o, ts, why) == [fill |-> <<>>, order |-> <<>>, rejection |-> <<Refused(o, ts, why)>>]

Remainder_Forgotten(o, qty) == <<>>
Remainder(o, qty) ==
  IF o.remaining > qty THEN <<[o EXCEPT !.remaining = @ - qty]>> ELSE <<>>

attempt_fill(o, bar, capacity, position, cash, c) ==
  LET ref == reference_price(bar, c)
      qty == Lesser(max_quantity(o, position), capacity)
      price == fill_price(c, o, bar, qty)
      fee == commission(c, qty, qty * price)
      short_of_cash == /\ c.enforce_cash /\ o.side = "BUY" /\ position >= 0
                       /\ cash < qty * price + fee
      fill == [id |-> o.id, symbol |-> o.symbol, side |-> o.side, qty |-> qty,
               price |-> price, fee |-> fee, ts |-> bar.ts, signal_ts |-> o.created,
               regime |-> o.regime]
  IN  CASE validate_side(o, position, c) # "" ->
             Rejects(o, bar.ts, validate_side(o, position, c))
        [] validate_side(o, position, c) = "" /\ outside_collar(o, ref, c) ->
             Rejects(o, bar.ts, "price_collar")
        [] OTHER ->
             IF qty <= 0 \/ ~limit_ok(o, price) THEN Waits(o)
             ELSE IF short_of_cash THEN Rejects(o, bar.ts, "insufficient_cash")
             ELSE [fill |-> <<fill>>, order |-> Remainder(o, qty), rejection |-> <<>>]
=============================================================================
