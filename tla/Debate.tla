------------------------------- MODULE Debate -------------------------------
(***************************************************************************)
(* The adversarial debate of the cognitive core (zone A): what Blue, Red   *)
(* and the Judge make of the replies of their models, how a finished       *)
(* debate becomes a trade signal, and how large the order is.  A reply is  *)
(* what the model sent: a record of the expected shape, NoReply for an     *)
(* error, a timeout or an answer without text, Garbage for text that is    *)
(* not the JSON asked for.  Probabilities and omega count in parts of      *)
(* Unit.  Prompts, rationales and summaries are left out.                  *)
(***************************************************************************)
EXTENDS Integers

CONSTANTS Unit,             \* probability 1
          OmegaThreshold,   \* omega_threshold
          NoReply, Garbage  \* replies no schema accepts

ASSUME DebateAssumption ==
  /\ Unit \in Nat \ {0} /\ OmegaThreshold \in 0..Unit
  /\ 2 * OmegaThreshold >= Unit        \* OMEGA_THRESHOLD_FLOOR

SignalSide == {"SIDE_UNKNOWN", "BUY", "SELL", "SELL_SHORT"}

BlueThesis == [side : SignalSide, forced_completion : BOOLEAN]
RedChallenge == [forced_completion : BOOLEAN]

JudgeVerdict ==
  {v \in [side : SignalSide, omega : 0..Unit, p_success : 0..Unit, p_failure : 0..Unit,
          reward : Nat, risk : Nat, defaulted_abstain : BOOLEAN] :
     v.p_success + v.p_failure = Unit}

ASSUME ReplyAssumption ==
  \A r \in {NoReply, Garbage} : r \notin BlueThesis \cup RedChallenge \cup JudgeVerdict

expected_value_Difference(v) == v.reward - v.risk   \* Slip
expected_value(v) == v.p_success * v.reward - v.p_failure * v.risk

default_abstain ==
  [side |-> "SIDE_UNKNOWN", omega |-> 0, p_success |-> 0, p_failure |-> Unit,
   reward |-> 0, risk |-> 0, defaulted_abstain |-> TRUE]

ForcedBlue == [side |-> "SIDE_UNKNOWN", forced_completion |-> TRUE]
ForcedRed == [forced_completion |-> TRUE]

blue_unusable(blue) == blue.forced_completion \/ blue.side = "SIDE_UNKNOWN"

blue_step(reply) == IF reply \in BlueThesis THEN reply ELSE ForcedBlue

red_step(blue, reply) ==
  IF ~blue_unusable(blue) /\ reply \in RedChallenge THEN reply ELSE ForcedRed

(* Half of the threshold, rounded down: below it in any case.              *)
cap_degraded(v) ==
  LET cap == OmegaThreshold \div 2
  IN  IF v.omega <= cap THEN v ELSE [v EXCEPT !.omega = cap]

judge_step(blue, red, reply) ==
  IF blue_unusable(blue) \/ reply \notin JudgeVerdict THEN default_abstain
  ELSE IF red.forced_completion THEN cap_degraded(reply) ELSE reply

-----------------------------------------------------------------------------
(* A vol_scaled sizer has a budget, equity times risk per trade, and the   *)
(* notional one order may have as its cap.                                 *)
shares(sizer, price, vol, omega) ==
  IF price <= 0 \/ vol <= 0 \/ omega \notin 1..Unit THEN 0
  ELSE LET by_risk == (sizer.budget * omega) \div (price * vol * Unit)
           by_cap  == sizer.cap \div price
       IN  IF by_risk <= by_cap THEN by_risk ELSE by_cap

sized_quantity(sizer, fixed, market, verdict) ==
  IF sizer.kind = "fixed" THEN fixed
  ELSE shares(sizer, market.price, market.vol, verdict.omega)

abstain_reasons(blue, red, verdict, quantity) ==
  \/ blue.forced_completion \/ red.forced_completion
  \/ verdict.defaulted_abstain
  \/ verdict.omega < OmegaThreshold
  \/ verdict.side = "SIDE_UNKNOWN"
  \/ quantity <= 0
  \/ expected_value(verdict) <= 0

(* The verdict's numbers go into the signal; nobody reads them off an      *)
(* abstention, which carries the default ones here.                        *)
Signal(status, side, quantity, verdict) ==
  [status |-> status, side |-> side, quantity |-> quantity, verdict |-> verdict]

abstain_signal == Signal("SIGNAL_ABSTAIN", "SIDE_UNKNOWN", 0, default_abstain)

to_trade_signal(blue, red, verdict, quantity) ==
  IF abstain_reasons(blue, red, verdict, quantity) THEN abstain_signal
  ELSE Signal("SIGNAL_PENDING", verdict.side, quantity, verdict)

(* What TradeSignal refuses to be built without.                           *)
signal_invariants(s) ==
  /\ s.verdict.p_success + s.verdict.p_failure = Unit
  /\ IF s.status = "SIGNAL_ABSTAIN" THEN s.side = "SIDE_UNKNOWN" /\ s.quantity = 0
     ELSE s.side # "SIDE_UNKNOWN" /\ s.quantity > 0

(* Slip: the Judge answered, so the debate counts.                         *)
is_recordable_Judged(blue, red, verdict) == ~verdict.defaulted_abstain
is_recordable(blue, red, verdict) ==
  ~(verdict.defaulted_abstain \/ blue.forced_completion \/ red.forced_completion)

=============================================================================
