------------------------------ MODULE Pricing -------------------------------
(***************************************************************************)
(* What sending a parcel costs, and what its way back costs.  Money is in  *)
(* hundredths and weight in grams, the finest a quote is asked in, so what *)
(* the code rounds to two decimals is rounded to a whole number here.      *)
(***************************************************************************)
EXTENDS Integers

CONSTANT Rates  \* what ratesFromEnv reads

Zones == {"DHAKA_CITY", "DHAKA_SUBURB", "OUTSIDE_DHAKA"}
RouteType == {"CITY", "SUBURB", "NATIONAL"}
ServiceTier == {"STANDARD", "EXPRESS"}

(* base: the base fee of each route; included: the grams it covers; the    *)
(* two percentages are whole.                                              *)
PricingRates ==
  [base: [RouteType -> Nat], perKg: Nat, included: Nat, codPercent: Nat,
   express: Nat, returnPercent: Nat, minimum: Nat]

(* ratesFromEnv keeps any finite number; rates are taken not to be         *)
(* negative, and as fine as the amounts are.                               *)
ASSUME RatesAssumption == Rates \in PricingRates

QuotePayload == [from: Zones, to: Zones, tier: ServiceTier, weight: Nat, cod: Nat]

FeeBreakdown ==
  [route: RouteType, tier: ServiceTier, baseFee: Nat, weightFee: Nat, codFee: Nat,
   expressFee: Nat, total: Nat]

-----------------------------------------------------------------------------
routeFor(from, to) ==
  IF "OUTSIDE_DHAKA" \in {from, to} THEN "NATIONAL"
  ELSE IF {from, to} = {"DHAKA_CITY"} THEN "CITY"
  ELSE "SUBURB"

expressAvailable(route) == route # "NATIONAL"

(* Math.round, of a percentage: halves round up. *)
round2(amount, percent) == (amount * percent + 50) \div 100

Larger(a, b) == IF a > b THEN a ELSE b

(* The kilograms begun above the included weight. *)
chargeableKg(weight) == (Larger(0, weight - Rates.included) + 999) \div 1000

calculateDeliveryFee(payload) ==
  LET route == routeFor(payload.from, payload.to)
      base == Rates.base[route]
      weight == chargeableKg(payload.weight) * Rates.perKg
      cod == round2(payload.cod, Rates.codPercent)
      express == IF payload.tier = "EXPRESS" THEN Rates.express ELSE 0
  IN [route |-> route, tier |-> payload.tier, baseFee |-> base, weightFee |-> weight,
      codFee |-> cod, expressFee |-> express,
      total |-> Larger(Rates.minimum, base + weight + cod + express)]

(* A share of the charge for carrying it, not of the one for its cash. *)
calculateReturnFee(breakdown) ==
  round2(breakdown.baseFee + breakdown.weightFee + breakdown.expressFee, Rates.returnPercent)

-----------------------------------------------------------------------------
(* quote refuses an express parcel that leaves Dhaka. *)
Offered(payload) ==
  payload.tier = "EXPRESS" => expressAvailable(routeFor(payload.from, payload.to))

(* The quotes these payloads lead to, as ParcelOps has them: the cash, the *)
(* fee, and what the frozen breakdown says of the cash and of the way back.*)
QuotesFor(payloads) ==
  {LET breakdown == calculateDeliveryFee(payload) IN
     [cod |-> payload.cod, fee |-> breakdown.total, codFee |-> breakdown.codFee,
      back |-> calculateReturnFee(breakdown)] :
   payload \in {p \in payloads : Offered(p)}}

=============================================================================
