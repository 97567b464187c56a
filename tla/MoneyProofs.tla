----------------------------- MODULE MoneyProofs ---------------------------
(***************************************************************************)
(* The arithmetic of payments, for amounts of any size.                    *)
(***************************************************************************)
EXTENDS Money, TLAPS

(***************************************************************************)
(* Rounding half up is off by no more than a half.                         *)
(***************************************************************************)
LEMMA Rounding ==
  ASSUME NEW n \in Nat, NEW d \in Nat \ {0}
  PROVE  /\ RoundHalfUp(n, d) \in Nat
         /\ 2 * d * RoundHalfUp(n, d) =< 2 * n + d
         /\ 2 * n + d < 2 * d * RoundHalfUp(n, d) + 2 * d
<1> DEFINE m == 2 * n + d
           k == 2 * d
           q == m \div k
<1>1. m \in Nat /\ k \in Nat \ {0}
  OBVIOUS
<1>2. \A a \in Nat, b \in Nat \ {0} :
        /\ a \div b \in Nat
        /\ b * (a \div b) =< a
        /\ a < b * (a \div b) + b
  BY SMT
<1>3. q \in Nat /\ k * q =< m /\ m < k * q + k
  BY <1>1, <1>2
<1> QED
  BY <1>3 DEF RoundHalfUp

(***************************************************************************)
(* to_minor_units gives back what from_minor_units was given, in every     *)
(* currency listed, all of which have two decimals (app/payments/money.py; *)
(* test_minor_units_round_trip has one case of it).                        *)
(***************************************************************************)
THEOREM RoundTrip ==
  ASSUME NEW minor \in Nat, NEW c \in DOMAIN MinorUnits
  PROVE  ToMinorUnits(FromMinorUnits(minor, c), c) = minor
<1>1. MinorUnits[c] = 100
  BY DEF MinorUnits
<1>2. ToMinorUnits(FromMinorUnits(minor, c), c) = RoundHalfUp(minor * 100, 100)
  BY <1>1 DEF ToMinorUnits, FromMinorUnits, Decimal
<1>3. RoundHalfUp(minor * 100, 100) = minor
  BY DEF RoundHalfUp
<1> QED
  BY <1>2, <1>3

(***************************************************************************)
(* Below 50 % the platform's fee never takes a whole payment, not even a   *)
(* hundredth, and fee and net amount add up.                               *)
(***************************************************************************)
THEOREM NetPositive ==
  ASSUME NEW gross \in Nat \ {0}, NEW percent \in Nat,
         2 * percent < HundredPercent
  PROVE  /\ Fee(gross, percent) \in Nat
         /\ Net(gross, percent) \in Nat \ {0}
         /\ Fee(gross, percent) + Net(gross, percent) = gross
<1> DEFINE product == gross * percent
           fee == Fee(gross, percent)
<1>1. product \in Nat
  OBVIOUS
<1>2. 2 * product < gross * HundredPercent
  BY DEF HundredPercent
<1>3. fee \in Nat /\ 2 * HundredPercent * fee =< 2 * product + HundredPercent
  BY <1>1, Rounding DEF Fee, HundredPercent
<1>4. fee < gross
  <2> HIDE DEF product, fee
  <2>1. 2 * HundredPercent * fee < (gross + 1) * HundredPercent
    BY <1>1, <1>2, <1>3 DEF HundredPercent
  <2>2. 2 * fee < gross + 1
    BY <2>1, <1>3 DEF HundredPercent
  <2> QED
    BY <2>2, <1>3
<1> QED
  BY <1>3, <1>4 DEF Net

(***************************************************************************)
(* What is converted stays positive.                                       *)
(***************************************************************************)
LEMMA ConversionPositive ==
  ASSUME NEW net \in Nat \ {0}, NEW c, Quoted(c)
  PROVE  Converted(net, c) > 0
<1>1. Rate[c] \in Nat \ {0}
  BY DEF Quoted, Rate
<1>2. net * Rate[c] \in Nat \ {0}
  BY <1>1
<1> QED
  BY <1>2 DEF Converted

(***************************************************************************)
(* A payout that is announced as pending goes to an address the TRC20      *)
(* adapter accepts: the rule is written twice, and says the same.          *)
(***************************************************************************)
THEOREM PendingPayoutIsPayable ==
  ASSUME NEW confirmed \in BOOLEAN, NEW configured \in BOOLEAN,
         NEW address \in [ first : STRING, length : Nat ],
         PayoutStatus(confirmed, configured, address) = "PAYOUT_PENDING"
  PROVE  ValidAddressTRC20(address)
  BY DEF PayoutStatus, ValidAddressTRC20

=============================================================================
