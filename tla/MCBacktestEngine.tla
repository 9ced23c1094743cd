-------------------------- MODULE MCBacktestEngine --------------------------
(* Small instances of BacktestEngine for TLC.                              *)
EXTENDS BacktestEngine, TLC

FewPrices  == 0..3
SomePrices == 0..4
MorePrices == 0..7
OneAtr     == {1}
AtrOrNone  == {0, 1}
OneUnit    == {1}
Units      == {1, 2}
=============================================================================
