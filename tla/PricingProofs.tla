---- MODULE PricingProofs ----
(***************************************************************************)
(* Lemmas about the amounts of Domain, for every price, every rate, every  *)
(* denominator and every width of u64.                                     *)
(***************************************************************************)
EXTENDS Domain, TLAPS

(* A rate takes the whole number of lamports just below its exact value.   *)
LEMMA FeeAmountFloor ==
    ASSUME NEW amount \in Nat, NEW bps \in Nat
    PROVE  /\ FeeAmount(amount, bps) \in Nat
           /\ FeeAmount(amount, bps) * BpsDenominator <= amount * bps
           /\ amount * bps < (FeeAmount(amount, bps) + 1) * BpsDenominator
<1>1. BpsDenominator \in Nat \ {0} /\ amount * bps \in Nat
    BY DomainAssumption
<1>2. \A n \in Nat : LET q == n \div BpsDenominator IN
        q \in Nat /\ q * BpsDenominator <= n /\ n < (q + 1) * BpsDenominator
    BY <1>1
<1> QED BY <1>1, <1>2 DEF FeeAmount

(* Two rates that do not exceed the whole leave a remainder.               *)
LEMMA RatesLeaveRemainder ==
    ASSUME NEW price \in Nat, NEW fee_bps \in Nat, NEW royalty_bps \in Nat,
           fee_bps + royalty_bps <= BpsDenominator
    PROVE  FeeAmount(price, fee_bps) + FeeAmount(price, royalty_bps) <= price
<1> DEFINE fee == FeeAmount(price, fee_bps)
           royalty == FeeAmount(price, royalty_bps)
<1>1. /\ fee \in Nat /\ fee * BpsDenominator <= price * fee_bps
      /\ royalty \in Nat /\ royalty * BpsDenominator <= price * royalty_bps
    BY FeeAmountFloor
<1>2. BpsDenominator \in Nat \ {0}
    BY DomainAssumption
<1> HIDE DEF fee, royalty
<1>3. (fee + royalty) * BpsDenominator <= price * (fee_bps + royalty_bps)
    BY <1>1, <1>2
<1>4. price * (fee_bps + royalty_bps) <= price * BpsDenominator
    BY <1>2
<1>5. (fee + royalty) * BpsDenominator <= price * BpsDenominator
    BY <1>1, <1>2, <1>3, <1>4
<1>6. fee + royalty <= price
    BY <1>1, <1>2, <1>5
<1> QED BY <1>6 DEF fee, royalty

(* A price of the settlement range never overflows under a legal rate.     *)
LEMMA RangeNeverOverflows ==
    ASSUME NEW price \in Nat, NEW bps \in Nat,
           price <= MaxU64 \div BpsDenominator, bps <= BpsDenominator
    PROVE  FeeAmountOk(price, bps)
<1> DEFINE limit == MaxU64 \div BpsDenominator
<1>1. BpsDenominator \in Nat \ {0} /\ MaxU64 \in Nat
    BY DomainAssumption
<1>2. limit \in Nat /\ limit * BpsDenominator <= MaxU64
    BY <1>1
<1>3. price <= limit
    OBVIOUS
<1> HIDE DEF limit
<1>4. price * bps <= limit * BpsDenominator
    <2>1. price * bps <= price * BpsDenominator
        BY <1>1
    <2>2. price * BpsDenominator <= limit * BpsDenominator
        BY <1>1, <1>2, <1>3
    <2> QED BY <1>1, <1>2, <2>1, <2>2
<1> QED BY <1>1, <1>2, <1>4 DEF FeeAmountOk

(* The cap the program computes is the exact one, whatever the rounding: a *)
(* whole price is within it if and only if it exceeds the original price   *)
(* by no more than the markup.                                             *)
THEOREM CapExact ==
    ASSUME NEW price \in Nat, NEW original \in Nat, NEW markup \in Nat
    PROVE  price <= MaxResalePrice(original, markup)
              <=> price * BpsDenominator <= original * (BpsDenominator + markup)
<1> DEFINE fee == FeeAmount(original, markup)
           product == original * markup
<1>1. /\ original \in Nat /\ markup \in Nat /\ price \in Nat
      /\ BpsDenominator \in Nat \ {0}
    BY DomainAssumption
<1>2. /\ fee \in Nat /\ product \in Nat
      /\ fee * BpsDenominator <= product
      /\ product < (fee + 1) * BpsDenominator
    <2>1. original * markup \in Nat
        BY <1>1
    <2>2. /\ fee \in Nat
          /\ fee * BpsDenominator <= original * markup
          /\ original * markup < (fee + 1) * BpsDenominator
        BY <1>1, FeeAmountFloor
    <2> QED BY <2>1, <2>2
<1>3. original * (BpsDenominator + markup) = original * BpsDenominator + product
    BY <1>1
<1> HIDE DEF fee, product
<1>4. ASSUME price <= original + fee
      PROVE  price * BpsDenominator <= original * BpsDenominator + product
    <2>1. price * BpsDenominator <= (original + fee) * BpsDenominator
        BY <1>1, <1>2, <1>4
    <2> QED BY <1>1, <1>2, <2>1
<1>5. ASSUME price >= original + fee + 1
      PROVE  price * BpsDenominator > original * BpsDenominator + product
    <2>1. price * BpsDenominator >= (original + fee + 1) * BpsDenominator
        BY <1>1, <1>2, <1>5
    <2> QED BY <1>1, <1>2, <2>1
<1>6. price <= original + fee \/ price >= original + fee + 1
    BY <1>1, <1>2
<1>7. price <= original + fee
         <=> price * BpsDenominator <= original * BpsDenominator + product
    BY <1>1, <1>2, <1>4, <1>5, <1>6
<1> QED BY <1>3, <1>7 DEF fee, product, MaxResalePrice
=============================
