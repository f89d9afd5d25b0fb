------------------------- MODULE MC_CognitiveRunner -------------------------
EXTENDS CognitiveRunner

Tls(ca) == [ca |-> ca, cert |-> ca, key |-> ca, readable |-> TRUE]
Config(sink, protos, memo, emit, sizer, quantity, production, tls, halt) ==
  [sink |-> sink, motorProtos |-> protos, memory |-> memo, emitAbstain |-> emit,
   sizer |-> sizer, quantity |-> quantity, production |-> production,
   aegisTls |-> Tls(tls), motorTls |-> Tls(tls), haltEnv |-> halt, storeOpens |-> TRUE,
   symbols |-> {"AAA"}]

VolScaled == [kind |-> "vol_scaled", budget |-> 4, cap |-> 3]
Fixed == [kind |-> "fixed", budget |-> 0, cap |-> 0]

MCConfigs ==
  { Config("relay", TRUE, "required", FALSE, VolScaled, 0, TRUE, TRUE, "unset"),
    Config("relay", FALSE, "optional", TRUE, Fixed, 1, FALSE, FALSE, "false"),
    Config("log", FALSE, "off", FALSE, Fixed, 0, FALSE, FALSE, "unset"),
    Config("relay", TRUE, "off", FALSE, Fixed, 1, TRUE, FALSE, "unset") }

Snap(s, r, ok) ==
  [symbol |-> s, regime |-> r, age |-> 0, ok |-> ok, is_stale |-> FALSE,
   warmup |-> FALSE, price |-> 2, vol |-> 1]

MCMessages == {Snap("AAA", "CRISIS", TRUE)}

MCBlue == {[side |-> "BUY", forced_completion |-> FALSE],
           [side |-> "SIDE_UNKNOWN", forced_completion |-> FALSE]}
MCRed == {[forced_completion |-> FALSE]}
Verdict(side, omega, p, reward, risk) ==
  [side |-> side, omega |-> omega, p_success |-> p, p_failure |-> Unit - p,
   reward |-> reward, risk |-> risk, defaulted_abstain |-> FALSE]
MCJudge == {Verdict("BUY", 4, 3, 2, 1), Verdict("BUY", 4, 1, 2, 1),
            Verdict("BUY", 1, 3, 2, 1)}

MCSeeds == {[regimes |-> {"TRENDING_BULL"}]}
=============================================================================
