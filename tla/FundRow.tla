------------------------------- MODULE FundRow -------------------------------
(***************************************************************************)
(* The fund row of the positions table and the PositionManager operations  *)
(* on it.  Amounts are unsigned words: MaxDValue stands for 2^64 - 1, and  *)
(* a sum above it is what the code's wrap-around tests refuse.  Each       *)
(* operation holds the row's lock throughout, so it is one value of type   *)
(* Fund in and one out; a refused operation returns the row it was given.  *)
(***************************************************************************)
EXTENDS Naturals

CONSTANT MaxDValue  \* the largest DValue

ASSUME MaxDValueAssumption == MaxDValue \in Nat

DValue == 0 .. MaxDValue

Fund == [available : DValue, frozen : DValue, market_value : DValue, total_asset : DValue]

Row(available, frozen, market_value, total_asset) ==
  [available |-> available, frozen |-> frozen,
   market_value |-> market_value, total_asset |-> total_asset]

\* A subtraction that stops at zero.
Less(a, b) == IF a < b THEN 0 ELSE a - b

-----------------------------------------------------------------------------
\* Fault: the balance is not looked at.
CanFreezeFundOverdrawn(f, amount) ==
  f.frozen + amount <= MaxDValue

CanFreezeFund(f, amount) ==
  /\ amount <= f.available
  /\ f.frozen + amount <= MaxDValue

FreezeFund(f, amount) ==
  Row(f.available - amount, f.frozen + amount, f.market_value, f.total_asset)

CanUnfreezeFund(f, amount) ==
  /\ amount <= f.frozen
  /\ f.available + amount <= MaxDValue

\* Fault: the amount is taken off frozen without being given back.
UnfreezeFundLosingCash(f, amount) ==
  Row(f.available, f.frozen - amount, f.market_value, f.total_asset)

UnfreezeFund(f, amount) ==
  Row(f.available + amount, f.frozen - amount, f.market_value, f.total_asset)

\* A buy trade of an order that has funds reserved: cost and fee leave frozen.
CanDeductFund(f, amount, fee) ==
  /\ amount + fee <= MaxDValue
  /\ amount + fee <= f.frozen
  /\ f.market_value + amount <= MaxDValue

\* Fault: the fee is left in frozen.
DeductFundWithoutFee(f, amount, fee) ==
  Row(f.available, f.frozen - amount, f.market_value + amount, Less(f.total_asset, fee))

DeductFund(f, amount, fee) ==
  Row(f.available, f.frozen - (amount + fee), f.market_value + amount, Less(f.total_asset, fee))

\* A buy trade of an order without a reservation: cost and fee leave available.
CanApplyBuyTradeFund(f, amount, fee) ==
  /\ amount + fee <= MaxDValue
  /\ amount + fee <= f.available
  /\ f.market_value + amount <= MaxDValue

ApplyBuyTradeFund(f, amount, fee) ==
  Row(f.available - (amount + fee), f.frozen, f.market_value + amount, Less(f.total_asset, fee))

\* A sell trade: the proceeds net of the fee reach available at once.
CanApplySellTradeFund(f, amount, fee) ==
  /\ amount >= fee => f.available + (amount - fee) <= MaxDValue
  /\ amount < fee => f.available >= fee - amount

ApplySellTradeFund(f, amount, fee) ==
  Row((f.available + amount) - fee, f.frozen, Less(f.market_value, amount), Less(f.total_asset, fee))
=============================================================================
