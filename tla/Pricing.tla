-------------------------------- MODULE Pricing --------------------------------
(***************************************************************************)
(* The money of a document.  A request names a subtotal, a discount, a tax *)
(* rate and a deposit; the total is computed from them and is all that is  *)
(* stored: the subtotal a customer is shown, and the one the next partial  *)
(* edit starts from, is computed back from the total.                      *)
(*                                                                         *)
(* Amounts are whole cents, but the price of a line item may be finer and  *)
(* is in mills (a tenth of a cent).  Percent discounts are whole percents, *)
(* tax rates are in units of 1/TaxScale.                                   *)
(***************************************************************************)
EXTENDS Integers, Sequences

CONSTANTS
  Null,      \* a column or a field that is not set
  TaxScale   \* the units of a tax rate that make the rate 1

ASSUME TaxScaleAssumption == TaxScale \in Nat \ {0}

\* What the check of a request returns when it raises PricingValidationError
Refused == [refused |-> TRUE]

AbsOf(n) == IF n < 0 THEN -n ELSE n

\* n/d rounded to a whole number, a half away from zero (ROUND_HALF_UP)
HalfUp(n, d) ==
  LET rounded == AbsOf(n) \div AbsOf(d)
                 + (IF 2 * (AbsOf(n) % AbsOf(d)) >= AbsOf(d) THEN 1 ELSE 0)
  IN  IF (n < 0) = (d < 0) THEN rounded ELSE -rounded

Percent(amount, percent) == HalfUp(amount * percent, 100)

-------------------------------------------------------------------------------
(* Prices *)

\* What the price column keeps of a price: whole cents, still in mills
Kept(price) == IF price = Null THEN Null ELSE 10 * HalfUp(price, 10)

IsPriced(item) == item.price # Null

\* What the prices add up to, item by item
PriceSums(items) ==
  LET sum[n \in 0 .. Len(items)] ==
        IF n = 0
          THEN 0
          ELSE sum[n - 1] + (IF IsPriced(items[n]) THEN items[n].price ELSE 0)
  IN  sum

\* The sum of the priced items, in cents; the items without a price define none
LineSum(items) ==
  IF \A i \in DOMAIN items : ~IsPriced(items[i])
    THEN Null
    ELSE HalfUp(PriceSums(items)[Len(items)], 10)

\* Two amounts in cents that are more than a cent apart
Differs(a, b) == a # Null /\ b # Null /\ AbsOf(a - b) > 1

-------------------------------------------------------------------------------
(* From the subtotal to the total *)

ZeroIsNull(value) == IF value = 0 THEN Null ELSE value

\* normalize_pricing_input: p is what the request asks, its total_amount the subtotal
Normalized(p) ==
  LET value == ZeroIsNull(p.discount_value)
  IN  [p EXCEPT !.discount_value = value,
                !.discount_type = IF value = Null THEN Null ELSE @,
                !.tax_rate = ZeroIsNull(@),
                !.deposit_amount = ZeroIsNull(@)]

HasActivePricing(p) ==
  \E f \in {"discount_type", "tax_rate", "deposit_amount"} : p[f] # Null

OrZero(value) == IF value = Null THEN 0 ELSE value

Discount(p, subtotal) ==
  CASE p.discount_type = Null      -> 0
    [] p.discount_type = "fixed"   -> OrZero(p.discount_value)
    [] p.discount_type = "percent" -> Percent(subtotal, OrZero(p.discount_value))

Tax(p, taxable) == HalfUp(taxable * OrZero(p.tax_rate), TaxScale)

Total(p, subtotal) ==
  LET taxable == subtotal - Discount(p, subtotal)
  IN  IF subtotal = Null THEN Null ELSE taxable + Tax(p, taxable)

\* The rules a request may break
BreaksRules(raw, p) ==
  \/ p.discount_value # Null /\ p.discount_value < 0
  \/ p.deposit_amount # Null /\ p.deposit_amount < 0
  \/ (raw.discount_type = Null) # (raw.discount_value = Null)
  \/ p.discount_type = "percent" /\ p.discount_value > 100
  \/ p.tax_rate # Null /\ p.tax_rate \notin 0 .. TaxScale
  \/ HasActivePricing(p) /\ p.total_amount = Null
  \/ /\ p.total_amount # Null /\ p.discount_type # Null
     /\ Discount(p, p.total_amount) > p.total_amount
  \/ /\ {p.deposit_amount, p.total_amount} \cap {Null} = {}
     /\ p.deposit_amount > Total(p, p.total_amount)

\* What is stored when the pricing asked for passes the rules.  Without a
\* subtotal of its own the request takes the sum of the line items.
Validated(asked, lineSum) ==
  LET raw == [asked EXCEPT !.total_amount = IF @ = Null THEN lineSum ELSE @]
      p == Normalized(raw)
  IN  IF BreaksRules(raw, p)
        THEN Refused
        ELSE [p EXCEPT !.total_amount = Total(p, @)]

-------------------------------------------------------------------------------
(* And back *)

\* The subtotal of a stored document: total = (subtotal - discount) * (1 + tax)
Resolved(p, lineSum) ==
  LET scaled == p.total_amount * TaxScale
      taxed == TaxScale + OrZero(p.tax_rate)
      value == OrZero(p.discount_value)
  IN  CASE p.total_amount = Null        -> lineSum
        [] p.total_amount # Null /\ p.discount_type = Null ->
             HalfUp(scaled, taxed)
        [] p.total_amount # Null /\ p.discount_type = "fixed" ->
             HalfUp(scaled + value * taxed, taxed)
        [] p.total_amount # Null /\ p.discount_type = "percent" ->
             IF value = 100 THEN OrZero(lineSum)
                            ELSE HalfUp(100 * scaled, taxed * (100 - value))

\* The rows a customer reads: calculate_breakdown_from_persisted
Breakdown(p, lineSum) ==
  LET subtotal == Resolved(p, lineSum)
      discount == Discount(p, subtotal)
  IN  [subtotal |-> subtotal,
       discount |-> discount,
       tax |-> Tax(p, subtotal - discount),
       total |-> p.total_amount,
       balance |-> IF {p.total_amount, p.deposit_amount} \cap {Null} # {}
                     THEN p.total_amount ELSE p.total_amount - p.deposit_amount]
===============================================================================
