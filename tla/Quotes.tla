------------------------------- MODULE Quotes -------------------------------
(***************************************************************************)
(* The arithmetic of a price: base amount, charges, discount and tax, in   *)
(* whole paise, with every line the booking stores.                        *)
(***************************************************************************)
EXTENDS Integers, Sequences, Functions

CONSTANTS
    Bases,        \* base amounts of price rules
    Rates,        \* tax rates in basis points
    ChargeLists,  \* sequences of charges that apply
    PromoOffers   \* promotions, NoPromo among them

Whole == 10000    \* basis points

ASSUME QuotesAssumption ==
    /\ Bases \subseteq Nat /\ Rates \subseteq 0..Whole
    /\ ChargeLists \subseteq
          Seq([kind : {"FIXED", "PERCENT_OF_BASE"}, value : Nat, taxable : BOOLEAN])
    /\ PromoOffers \subseteq
          [type : {"NONE", "FLAT", "PERCENT"}, value : Nat, most : Nat, least : Nat]

VARIABLE quote    \* the quote last calculated, with what it was calculated from

-----------------------------------------------------------------------------
NoPromo == [type |-> "NONE", value |-> 0, most |-> 0, least |-> 0]
Unlimited == 0    \* max_discount_paise is null; min_order_paise is null or 0

\* Half away from zero.
ApplyBasisPoints(amount, bp) ==
    IF amount >= 0 THEN (amount * bp + Whole \div 2) \div Whole
    ELSE -((-amount * bp + Whole \div 2) \div Whole)

Smaller(x, y) == IF x <= y THEN x ELSE y
Larger(x, y) == IF x >= y THEN x ELSE y

ChargeAmount(base, charge) ==
    IF charge.kind = "FIXED" THEN charge.value ELSE ApplyBasisPoints(base, charge.value)

\* By place: the base amount, then the charges.
Amounts(base, charges) ==
    [k \in 0..Len(charges) |-> IF k = 0 THEN base ELSE ChargeAmount(base, charges[k])]

Taxed(charges) == {0} \cup {k \in 1..Len(charges) : charges[k].taxable}

\* The discount and the tax come last; but for the base amount, what comes to
\* nothing has no line.
Lines(base, charges, discount, tax) ==
    LET n == Len(charges)
        all == [k \in 0..(n + 2) |->
                  CASE k = n + 1 -> [type |-> "DISCOUNT", amount |-> -discount]
                    [] k = n + 2 -> [type |-> "TAX", amount |-> tax]
                    [] OTHER -> [type |-> IF k = 0 THEN "BASE" ELSE "CHARGE",
                                 amount |-> Amounts(base, charges)[k]]]
        shown == {k \in 0..(n + 2) : k = 0 \/ all[k].amount > 0
                                     \/ (k <= n + 1 /\ all[k].amount # 0)}
    IN  [k \in shown |-> all[k]]

\* Mutant: the discount may exceed what is taxed.
MutantDiscount(promo, subtotal, ceiling) ==
    IF promo.type = "FLAT" THEN promo.value ELSE ApplyBasisPoints(subtotal, promo.value)

\* evaluatePromotion: 0 when the promotion does not apply.
Discount(promo, subtotal, ceiling) ==
    LET asked == IF promo.type = "FLAT" THEN promo.value
                 ELSE ApplyBasisPoints(subtotal, promo.value)
        capped == IF promo.most = Unlimited THEN asked ELSE Smaller(asked, promo.most)
    IN IF promo.type = "NONE" \/ subtotal < promo.least THEN 0
       ELSE Larger(0, Smaller(capped, ceiling))

CalculateQuote(base, rate, charges, promo) ==
    LET amounts == Amounts(base, charges)
        subtotal == SumFunction(amounts)
        discountable == SumFunctionOnSet(amounts, Taxed(charges))
        discount == Discount(promo, subtotal, discountable)
        tax == ApplyBasisPoints(discountable - discount, rate)
    IN [lines |-> Lines(base, charges, discount, tax),
        rate |-> rate, promo |-> promo, discount |-> discount,
        taxable |-> discountable - discount, tax |-> tax, total |-> subtotal - discount + tax]

-----------------------------------------------------------------------------
QuotesInit ==
    \E base \in Bases, rate \in Rates : quote = CalculateQuote(base, rate, <<>>, NoPromo)

QuotesNext ==
    \E base \in Bases, rate \in Rates, charges \in ChargeLists, promo \in PromoOffers :
        quote' = CalculateQuote(base, rate, charges, promo)

QuotesSpec == QuotesInit /\ [][QuotesNext]_quote

-----------------------------------------------------------------------------
\* What the customer is shown adds up to what is charged, to the paisa ("every
\* line is kept so the booking stores exactly how the total was reached",
\* quote.ts:9): the lines sum to the total, nothing but a discount is negative,
\* the discount stays within its caps, and the tax is the exact tax rounded once.
QuoteAddsUp ==
    /\ SumFunction([k \in DOMAIN quote.lines |-> quote.lines[k].amount]) = quote.total
    /\ quote.total >= 0
    /\ \A k \in DOMAIN quote.lines :
           quote.lines[k].amount < 0 <=> quote.lines[k].type = "DISCOUNT"
    /\ quote.taxable >= 0 /\ quote.discount >= 0
    /\ quote.promo.most # Unlimited => quote.discount <= quote.promo.most
    /\ LET off == Whole * quote.tax - quote.taxable * quote.rate
       IN 2 * off <= Whole /\ -2 * off < Whole
=============================================================================
