------------------------------ MODULE Controls ------------------------------
(***************************************************************************)
(* The pre-trade controls C01..C19 of Aegis (controls/*.rs, money.rs) as   *)
(* operators on a signal and a snapshot, and the decision they add up to.  *)
(*                                                                         *)
(* A signal is [sym, side, qty, limit, omega, regime, created, until];     *)
(* limit 0 is a market order.  A snapshot is                               *)
(*   [mode, now, kill, price, regime, acct, others, equity, rate, usual]:  *)
(* the values engine/mod.rs snapshot() collects.  A value that is missing  *)
(* (None) has time 0 (price, regime), day -1 (equity) or is -1 (others).   *)
(* C02 is the validation of the wire message; C07 passes for every signal  *)
(* that gets here, because a known signal id is answered before (and one   *)
(* whose record cannot be read is refused without any change of state).    *)
(***************************************************************************)
EXTENDS Integers, FiniteSets, KillLevels

CONSTANTS
  Allowed,        \* the keys of limits.symbols
  Caps,           \* [Allowed -> [qty, notional, position]]
  Unit,           \* NANOS_PER_UNIT
  BpsBase,        \* 10_000
  CollarBps, AdvBps, DrawdownBps, MaxGross,
  ShortSelling,   \* limits: short_selling_enabled
  OmegaMin,
  MinConfidence, Validated,     \* limits: regime.min_confidence, regime.allowed
  DayLength,      \* NANOS_PER_DAY
  Weekdays, SessionStart, SessionEnd,
  Skew, MaxSignalAge, MaxRefAge, MaxRegimeAge,
  \* the portfolio's own bounds
  MaxOpenOrders, MaxClosedOrders, ClosedRetention

INSTANCE Portfolio WITH MaxPosition <- 0

-----------------------------------------------------------------------------
(* money.rs: products round up, headroom rounds down.                      *)

mul_up(a, b) == (a * b + Unit - 1) \div Unit

bps_of_down(v, bps) == (v * bps) \div BpsBase

-----------------------------------------------------------------------------
(* C01, C03..C06: the gates.                                               *)

IsSell(sig) == sig.side # "buy"

is_risk_reducing(sig, acct) ==
  /\ pending(acct, FALSE) = 0 /\ pending(acct, TRUE) = 0
  /\ Abs(acct.pos + Signed(IsSell(sig), sig.qty)) < Abs(acct.pos)

C01Pass(sig, s) ==
  \/ s.kill = NORMAL
  \/ s.kill = SOFT /\ is_risk_reducing(sig, s.acct)
  \/ s.kill = LOGIC /\ is_risk_reducing(sig, s.acct) /\ s.mode = "release"

\* LOGIC holds a reducing order for a human.
C01Soft(sig, s) == s.kill = LOGIC /\ is_risk_reducing(sig, s.acct) /\ s.mode = "submit"

day_index(t) == t \div DayLength

\* The epoch was a Thursday (4).
weekday(t) == ((day_index(t) + 3) % 7) + 1

session_contains(t) ==
  /\ weekday(t) \in Weekdays
  /\ t % DayLength >= SessionStart /\ t % DayLength < SessionEnd

Expired(sig, t) ==
  \/ sig.until = 0 \/ t > sig.until
  \/ sig.created > t + Skew
  \/ t - sig.created > MaxSignalAge

-----------------------------------------------------------------------------
(* C08, C09: reference price and collar.                                   *)

StalePrice(s) ==
  \/ s.price.at = 0 \/ s.price.stale \/ s.price.mid <= 0
  \/ s.now - s.price.at > MaxRefAge
  \/ s.now - s.price.at < -Skew

allowed(s) == bps_of_down(s.price.mid, CollarBps)

\* The price an order carries: its limit, or the edge of the collar.
order_price(sig, s) ==
  IF sig.limit # 0 THEN sig.limit
  ELSE IF IsSell(sig) THEN s.price.mid - allowed(s) ELSE s.price.mid + allowed(s)

InCollar(sig, s) ==
  /\ s.price.at # 0 /\ s.price.mid > 0
  /\ Abs(order_price(sig, s) - s.price.mid) <= allowed(s)
  /\ order_price(sig, s) > 0

-----------------------------------------------------------------------------
(* C11..C15: notional, volume, position, gross exposure, drawdown.         *)

NotionalFits(sig, s) ==
  InCollar(sig, s) /\ mul_up(order_price(sig, s), sig.qty) <= Caps[sig.sym].notional

VolumeFits(sig, s) ==
  s.price.at # 0 /\ s.price.adv > 0 /\ sig.qty <= bps_of_down(s.price.adv, AdvBps)

Worst(sig, s) == worst_case_position(s.acct, IsSell(sig), sig.qty)

\* Slip: only the signal's own symbol counts.
GrossFits_Own(sig, s) ==
  /\ s.price.at # 0 /\ s.others # -1
  /\ mul_up(Worst(sig, s), s.price.mid) <= MaxGross

GrossFits(sig, s) ==
  /\ s.price.at # 0 /\ s.others # -1
  /\ mul_up(Worst(sig, s), s.price.mid) + s.others <= MaxGross

\* c15_drawdown and drawdown_breached: a limit that rounds to zero is breached.
Breached(eq) ==
  LET limit == bps_of_down(eq.start, DrawdownBps)
  IN  limit = 0 \/ eq.start - eq.current >= limit

-----------------------------------------------------------------------------
(* C18: the label Aegis holds itself, never the signal's own confidence.   *)

RegimeFits(sig, s) ==
  /\ s.regime.at # 0 /\ s.now - s.regime.at <= MaxRegimeAge
  /\ s.regime.confidence >= MinConfidence
  /\ s.regime.label # "unknown" /\ sig.regime = s.regime.label
  /\ s.regime.label \in Validated

-----------------------------------------------------------------------------
(* The pipeline.                                                           *)

Gates == <<"C01", "C03", "C04", "C05", "C06">>

GateFails(c, sig, s) ==
  \/ c = "C01" /\ ~C01Pass(sig, s) /\ ~C01Soft(sig, s)
  \/ c = "C03" /\ sig.sym \notin Allowed
  \/ c = "C04" /\ sig.side = "short" /\ ~ShortSelling
  \/ c = "C05" /\ ~session_contains(s.now)
  \/ c = "C06" /\ Expired(sig, s.now)

\* phase_one stops at the first hard failure.
phase_one(sig, s) ==
  {Gates[i] : i \in {j \in DOMAIN Gates :
                       /\ GateFails(Gates[j], sig, s)
                       /\ \A k \in 1..(j - 1) : ~GateFails(Gates[k], sig, s)}}

Limits == {"C08", "C09", "C10", "C11", "C12", "C13", "C14", "C15", "C16", "C17"}

SizeFails(c, sig, s) ==
  \/ c = "C10" /\ sig.qty > Caps[sig.sym].qty
  \/ c = "C11" /\ ~NotionalFits(sig, s)
  \/ c = "C12" /\ ~VolumeFits(sig, s)
  \/ c = "C13" /\ Worst(sig, s) > Caps[sig.sym].position
  \/ c = "C14" /\ ~GrossFits(sig, s)

RiskFails(c, sig, s) ==
  \/ c = "C15" /\ (s.equity.day = -1 \/ s.equity.start <= 0 \/ Breached(s.equity))
  \/ c = "C16" /\ ~s.rate
  \/ c = "C17" /\ sig.omega < OmegaMin

LimitFails(c, sig, s) ==
  \/ c = "C08" /\ StalePrice(s)
  \/ c = "C09" /\ ~InCollar(sig, s)
  \/ SizeFails(c, sig, s)
  \/ RiskFails(c, sig, s)

\* phase_two evaluates everything.
phase_two(sig, s) == {c \in Limits : LimitFails(c, sig, s)}

Hard(sig, s) == IF phase_one(sig, s) # {} THEN phase_one(sig, s) ELSE phase_two(sig, s)

\* The soft failures: C18 and C19 are what a releasing human decided.
Soft(sig, s) ==
  \/ C01Soft(sig, s)
  \/ s.mode = "submit" /\ ~(RegimeFits(sig, s) /\ s.usual)

\* evaluate and decide.
evaluate(sig, s) ==
  LET hard == Hard(sig, s)
  IN  IF hard = {"C17"} THEN "abstain"
      ELSE IF hard = {"C06"} THEN "expired"
      ELSE IF hard # {} THEN "rejected"
      ELSE IF Soft(sig, s) THEN "held"
      ELSE "approved"

=============================================================================
