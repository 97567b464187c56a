-------------------------------- MODULE Money ------------------------------
(***************************************************************************)
(* The arithmetic of a payment: minor units (app/payments/money.py), the   *)
(* platform fee (app/fees/engine.py), the sandbox exchange's conversion    *)
(* (app/crypto/adapters/sandbox.py), and what may be paid out              *)
(* (app/payouts/eligibility.py).                                           *)
(*                                                                         *)
(* A Decimal is the natural number of its units: amounts in hundredths,    *)
(* percentages and rates in ten-thousandths, USDT in units of 10^-8.       *)
(***************************************************************************)
EXTENDS Integers

\* ROUND_HALF_UP of n / d to a whole number, for n >= 0.
RoundHalfUp(n, d) == (2 * n + d) \div (2 * d)

-----------------------------------------------------------------------------
(* Minor units                                                               *)

\* Minor units of a currency's unit: 10 ^ CURRENCY_EXPONENTS.
MinorUnits ==
  [ c \in { "AED", "CAD", "EUR", "GBP", "SAR", "USD" } |-> 100 ]

\* An amount is num / den units of the currency.
Decimal(num, den) == [ num |-> num, den |-> den ]

ToMinorUnits(amount, c) == RoundHalfUp(amount.num * MinorUnits[c], amount.den)

FromMinorUnits(minor, c) == Decimal(minor, MinorUnits[c])

-----------------------------------------------------------------------------
(* Fees                                                                      *)

PlatformPercent == 15000   \* 1.5 %

HundredPercent == 1000000

\* calculate_fee, with no fixed fee.
Fee(gross, percent) == RoundHalfUp(gross * percent, HundredPercent)

\* A mutant: the net amount is rounded by itself.
NetRounded(gross, percent) ==
  RoundHalfUp(gross * (HundredPercent - percent), HundredPercent)

Net(gross, percent) == gross - Fee(gross, percent)

-----------------------------------------------------------------------------
(* Conversion                                                                *)

Rate == [ SAR |-> 2667, USD |-> 10000, AED |-> 2723, EUR |-> 10800 ]

Quoted(c) == c \in DOMAIN Rate

\* Hundredths by ten-thousandths, to 8 places: nothing to round.
Converted(amount, c) == amount * Rate[c] * 100

-----------------------------------------------------------------------------
(* Payouts: an address is its first letter and its length.                   *)

NoAddress == [ first |-> "none", length |-> 0 ]

\* Trc20WalletProvider.validate_address
ValidAddressTRC20(address) ==
  address.first = "T" /\ address.length \in 30 .. 42

PayoutStatus(confirmed, configured, address) ==
  IF ~ confirmed \/ ~ configured THEN "PAYOUT_NOT_ELIGIBLE"
  ELSE IF address = NoAddress \/ address.first # "T"
          \/ ~ (30 =< address.length /\ address.length =< 42)
  THEN "PAYOUT_REQUIRES_REVIEW"
  ELSE "PAYOUT_PENDING"

=============================================================================
