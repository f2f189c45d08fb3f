---------------------------- MODULE MCEventLoop ----------------------------
(* Small accounts for the event loop: two kinds of client orders, so that   *)
(* buys compete for cash and sells for shares.                              *)
EXTENDS EventLoop

MCNewOrders ==
  {[trade_side |-> "Buy", volume_entrust |-> 2, dprice_entrust |-> 2],
   [trade_side |-> "Sell", volume_entrust |-> 1, dprice_entrust |-> 1]}

MCFund == [available |-> 7, frozen |-> 0, market_value |-> 2, total_asset |-> 9]

\* Cash at the limit of the amounts, so that a sell overflows it.
StressFund == [available |-> 9, frozen |-> 0, market_value |-> 1, total_asset |-> 10]

\* Enough cash to pay every order twice: once frozen, once after a restart.
AmpleFund == [available |-> 20, frozen |-> 0, market_value |-> 2, total_asset |-> 22]

\* The minimum commission of the account, and an account that pays none.
MCCalculateFee(side, value) == 2
NoFee(side, value) == 0
=============================================================================
