---------------------------- MODULE MCParcelFlow ----------------------------
(* One parcel, two couriers and two delivery codes, at the default rates   *)
(* but for a minimum fee of 70.  The payloads are a prepaid parcel, a COD  *)
(* parcel the minimum brings to the same total and a dearer COD parcel, so *)
(* an edit can change the cash, the fee, both, or neither; quote refuses   *)
(* the last one.                                                           *)
EXTENDS ParcelFlow, Pricing

MCRates ==
  [base |-> [CITY |-> 6000, SUBURB |-> 8000, NATIONAL |-> 12000],
   perKg |-> 2500, included |-> 1000, codPercent |-> 1, express |-> 5000,
   returnPercent |-> 50, minimum |-> 7000]

Payload(to, tier, weight, cod) ==
  [from |-> "DHAKA_CITY", to |-> to, tier |-> tier, weight |-> weight, cod |-> cod]

MCQuotes ==
  QuotesFor({Payload("DHAKA_CITY", "STANDARD", 1000, 0),
             Payload("DHAKA_CITY", "STANDARD", 1000, 50000),
             Payload("DHAKA_SUBURB", "EXPRESS", 2100, 70000),
             Payload("OUTSIDE_DHAKA", "EXPRESS", 1000, 0)})

=============================================================================
