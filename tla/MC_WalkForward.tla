--------------------------- MODULE MC_WalkForward ---------------------------
EXTENDS WalkForward

MCAlphabet == <<"A", "B">>

MCBar(s, t, open, close, volume) ==
  [symbol |-> s, ts |-> t, open |-> open, close |-> close, volume |-> volume,
   regime |-> "REGIME_UNKNOWN"]

MCConfig ==
  [initial_cash |-> 3000, per_share |-> 1, rate |-> 1, min_commission |-> 5,
   half_spread |-> 1, impact |-> 4, latency |-> 0, jitter |-> 0,
   participation |-> 50, collar |-> None, default_ttl |-> None,
   fill_price |-> "close", allow_short |-> TRUE, enforce_cash |-> TRUE,
   omega |-> TRUE, regime_symbol |-> None]
MCLate == [MCConfig EXCEPT !.latency = 2, !.jitter = 1, !.default_ttl = 3,
                           !.collar = 15, !.allow_short = FALSE,
                           !.fill_price = "open", !.regime_symbol = "B"]

\* Rows are not in order; B trades on some of the instants only.
MCFive ==
  << MCBar("A", 2, 600, 640, 8), MCBar("A", 1, 600, 600, 4), MCBar("A", 3, 640, 700, 4),
     MCBar("A", 5, 520, 560, 2), MCBar("B", 2, 300, 300, 4), MCBar("B", 4, 300, 330, 4),
     MCBar("A", 4, 700, 500, 8) >>
MCEight ==
  [i \in 1..8 |-> MCBar("A", i, 600 + 20 * i, 600 + 20 * (i % 3), 6)]
    \o << MCBar("B", 2, 300, 300, 4), MCBar("B", 6, 300, 330, 4) >>
MCDoubled == MCFive \o << MCBar("B", 2, 300, 310, 4) >>

MCLabels == << [ts |-> 3, label |-> "CRISIS"], [ts |-> 1, label |-> "TRENDING_BULL"],
               [ts |-> 3, label |-> "LOW_VOL_CHOP"] >>

MCWfa == [train_size |-> 4, test_size |-> 2, step |-> 2, anchored |-> FALSE,
          embargo |-> 0, purge |-> 1, warmup |-> 1, min_regime_periods |-> 1]

MCCase(rows, ls, c, w) == [rows |-> rows, labels |-> ls, cfg |-> c, wfa |-> w]
MCCases ==
  { MCCase(MCFive, MCLabels, MCConfig, None),
    MCCase(MCFive, <<>>, MCLate, None),
    MCCase(MCDoubled, <<>>, MCConfig, None),
    MCCase(SubSeq(MCFive, 1, 1), <<>>, MCConfig, None),
    MCCase(MCEight, MCLabels, MCConfig, MCWfa),
    MCCase(MCEight, <<>>, MCConfig, [MCWfa EXCEPT !.anchored = TRUE, !.embargo = 1]),
    MCCase(MCEight, <<>>, MCConfig, [MCWfa EXCEPT !.step = 1]) }

MCIntent(s, side, q) ==
  [symbol |-> s, side |-> side, quantity |-> q, abstains |-> FALSE,
   price_limit |-> None, valid_for |-> None]

MCPlays ==
  { <<>>,
    << MCIntent("A", "BUY", 3) >>,
    << [MCIntent("A", "SELL", 2) EXCEPT !.price_limit = 560] >>,
    << MCIntent("A", "SELL_SHORT", 2) >>,
    << [MCIntent("A", "BUY", 1) EXCEPT !.valid_for = 2, !.abstains = TRUE],
       MCIntent("B", "BUY", 2),
       [MCIntent("B", "BUY", 1) EXCEPT !.valid_for = 1] >> }
=============================================================================
