----------------------------- MODULE OrderPricing -----------------------------
(***************************************************************************)
(* What a checkout charges, in cents: the campaign and the coupon          *)
(* (services/promotionEngine.js), their shares of each line, the tax       *)
(* snapshot whose gross becomes the order's total                          *)
(* (modules/invoicing/taxEngine.js, routes/payment.js), and the basket the *)
(* payment provider gets (services/paymentProviders.js).  Every line is a  *)
(* variant of its own; limits of use belong to OrderInventory.             *)
(***************************************************************************)
EXTENDS Naturals, Sequences, TLC

CONSTANTS
    LinePrice,        \* unit_price * quantity of a line
    MaxLines,         \* bound: lines of a cart
    Percent,          \* values of percentage campaigns and coupons
    Amount,           \* values of fixed ones
    Fee,              \* quotes of quoteCheckoutShipping
    GiftFee,          \* fees of a gift wrap
    MinimumSubtotal,  \* coupons.minimum_subtotal
    MaximumDiscount,  \* coupons.maximum_discount, of coupons that have one
    TaxRate           \* tax_rate, in percent

ASSUME PricingAssumption ==
    /\ LinePrice \cup Amount \cup Fee \cup GiftFee \subseteq Nat
    /\ Percent \subseteq 1..100
    /\ {MaxLines, MinimumSubtotal, MaximumDiscount, TaxRate} \subseteq Nat

VARIABLES
    checkout,  \* what the checkout is about
    pricing,   \* its prices
    charged    \* total and basket of the order it placed

priceVars == <<checkout, pricing, charged>>

Campaigns == [type : {"percentage"}, value : Percent] \cup [type : {"fixed"}, value : Amount \cup {0}]

Coupons ==
    LET Of(type, values) ==
            [type : {type}, value : values, capped : BOOLEAN,
             stacking : {"exclusive", "with_campaign", "best_discount"}]
    IN Of("percentage", Percent) \cup Of("fixed", Amount) \cup Of("free_shipping", {0})

NoCoupon == [type |-> "none"]
NoCheckoutYet == [lines |-> <<>>]
NothingCharged == [total |-> 0, basket |-> <<>>]
Refused == [st |-> "refused"]

Lesser(a, b) == IF a < b THEN a ELSE b
Less(a, b) == a - Lesser(a, b)
RoundedShare(n, part, whole) == (2 * n * part + whole) \div (2 * whole)
LinesTotal(lines, I) ==
    LET sum[i \in 0..Len(lines)] ==
            IF i = 0 THEN 0 ELSE sum[i - 1] + IF i \in I THEN lines[i] ELSE 0
    IN sum[Len(lines)]

-----------------------------------------------------------------------------
\* campaignDiscount of the campaign selectActiveCampaign found; a value of 0 is no campaign.
CampaignDiscount(campaign, subtotal) ==
    IF campaign.type = "percentage" THEN RoundedShare(subtotal, campaign.value, 100)
    ELSE Lesser(subtotal, campaign.value)

\* couponCandidate
CouponCandidate(coupon, eligibleSubtotal, fee) ==
    LET Cap(n) == IF coupon.capped THEN Lesser(n, MaximumDiscount) ELSE n
    IN [product |-> Lesser(eligibleSubtotal,
                      CASE coupon.type = "percentage" ->
                             Cap(RoundedShare(eligibleSubtotal, coupon.value, 100))
                        [] coupon.type = "fixed" -> Cap(coupon.value)
                        [] coupon.type = "free_shipping" -> 0),
        shipping |-> IF coupon.type = "free_shipping" THEN Cap(fee) ELSE 0]

\* The lines an amount is shared out among, and the one of them that takes the rest.
SharingLines(lines, I) == {i \in I : lines[i] > 0}
IsLastOf(S, i) == i \in S /\ \A k \in S : k <= i

\* Mutant of AllocateDiscount: the last line gets its rounded share too.
AllocateRounded(lines, amount, I) ==
    LET base == LinesTotal(lines, SharingLines(lines, I))
    IN [i \in DOMAIN lines |->
           IF i \in SharingLines(lines, I) THEN RoundedShare(amount, lines[i], base) ELSE 0]

\* allocateDiscount: rounded shares while something remains, the last line gets the rest.
AllocateDiscount(lines, amount, I) ==
    LET sharing == SharingLines(lines, I)
        base == LinesTotal(lines, sharing)
        Share(i, remaining) ==
            IF i \notin sharing THEN 0
            ELSE IF IsLastOf(sharing, i) THEN remaining
            ELSE Lesser(remaining, RoundedShare(amount, lines[i], base))
        left[i \in 0..Len(lines)] ==
            IF i = 0 THEN Lesser(amount, base)
            ELSE LET remaining == left[i - 1] IN remaining - Share(i, remaining)
    IN [i \in DOMAIN lines |-> Share(i, left[i - 1])]

\* How evaluatePromotions combines the campaign's discount c and the coupon's candidate.
Combine(stacking, subtotal, c, candidate) ==
    CASE stacking = "exclusive" ->
           [campaign |-> 0, product |-> candidate.product, shipping |-> candidate.shipping]
      [] stacking = "with_campaign" ->
           [campaign |-> c, product |-> Lesser(candidate.product, subtotal - c),
            shipping |-> candidate.shipping]
      [] stacking = "best_discount" ->
           IF candidate.product + candidate.shipping > c
           THEN [campaign |-> 0, product |-> candidate.product, shipping |-> candidate.shipping]
           ELSE [campaign |-> c, product |-> 0, shipping |-> 0]

\* evaluatePromotions: a coupon that misses the minimum, fits no line or takes nothing off is
\* an error.
EvaluatePromotions(x) ==
    LET subtotal == LinesTotal(x.lines, DOMAIN x.lines)
        c == CampaignDiscount(x.campaign, subtotal)
        candidate == IF x.coupon = NoCoupon THEN [product |-> 0, shipping |-> 0]
                     ELSE CouponCandidate(x.coupon, LinesTotal(x.lines, x.eligible), x.fee)
        off == IF x.coupon = NoCoupon THEN [campaign |-> c, product |-> 0, shipping |-> 0]
               ELSE Combine(x.coupon.stacking, subtotal, c, candidate)
        shares == AllocateDiscount(x.lines, off.campaign, DOMAIN x.lines)
        couponShares == AllocateDiscount(x.lines, off.product, x.eligible)
    IN IF x.coupon # NoCoupon /\ \/ subtotal < MinimumSubtotal
                                 \/ candidate.product + candidate.shipping = 0
       THEN Refused
       ELSE [st |-> "priced", off |-> off,
             shares |-> [i \in DOMAIN x.lines |-> shares[i] + couponShares[i]],
             shippingFee |-> x.fee - off.shipping,
             total |-> Less(subtotal, off.campaign + off.product) + x.fee - off.shipping]

-----------------------------------------------------------------------------
\* calculateTaxSnapshot: what is left of a line, discountByLine having clamped its discount,
\* and the tax the policy adds to an amount.
LineBase(lines, shares, i) == lines[i] - Lesser(shares[i], lines[i])
AddedTax(policy, n) == IF policy = "inclusive" THEN 0 ELSE RoundedShare(n, TaxRate, 100)

\* totals.gross, which is the total of the order
TaxedTotal(x, p) ==
    LET Gross(n) == n + AddedTax(x.policy, n)
        gross == [i \in DOMAIN x.lines |-> Gross(LineBase(x.lines, p.shares, i))]
    IN LinesTotal(gross, DOMAIN gross) + Gross(p.shippingFee) + Gross(x.gift)

\* buildBasketItems: what is left of each line and then the shipping, where anything is (a 0
\* stands for an item filtered out); the last of them takes what is missing from the total.
BasketItems(x, p, total) ==
    LET n == Len(x.lines)
        left == [i \in 1..(n + 1) |->
                    IF i > n THEN p.shippingFee ELSE LineBase(x.lines, p.shares, i)]
        items == SharingLines(left, DOMAIN left)
        sum == LinesTotal(left, DOMAIN left)
    IN [i \in DOMAIN left |-> IF IsLastOf(items, i) THEN Less(left[i] + total, sum) ELSE left[i]]

\* A checkout prices its cart and places the order.
PriceCheckout(x) ==
    /\ checkout' = x
    /\ pricing' = EvaluatePromotions(x)
    /\ charged' = IF pricing'.st = "refused" THEN NothingCharged
                  ELSE [total |-> TaxedTotal(x, pricing'),
                        basket |-> BasketItems(x, pricing', TaxedTotal(x, pricing'))]

-----------------------------------------------------------------------------
PricingInit == checkout = NoCheckoutYet /\ pricing = Refused /\ charged = NothingCharged

\* One checkout is enough: a second one reads nothing the first one wrote.
PricingNext ==
    /\ checkout = NoCheckoutYet
    /\ \E n \in 1..MaxLines :
         \E lines \in [1..n -> LinePrice], eligible \in SUBSET (1..n), campaign \in Campaigns,
            coupon \in Coupons \cup {NoCoupon}, fee \in Fee, gift \in GiftFee,
            policy \in {"inclusive", "exclusive"} :
           /\ coupon = NoCoupon => eligible = {}
           /\ PriceCheckout([lines |-> lines, eligible |-> eligible, campaign |-> campaign,
                             coupon |-> coupon, fee |-> fee, gift |-> gift,
                             policy |-> policy])

PricingSpec == PricingInit /\ [][PricingNext]_priceVars

-----------------------------------------------------------------------------
(* Properties *)

\* A checkout is refused or priced, and charges amounts.
PricingTypeOK ==
    /\ pricing.st \in {"refused", "priced"}
    /\ charged.total \in Nat /\ charged.basket \in Seq(Nat)

\* The discounts of a line that refunds, invoices and the basket read back, added up.
OverDiscounted == \E i \in DOMAIN checkout.lines : pricing.shares[i] > checkout.lines[i]

\* "refund allocation is deterministic, cent-exact and never exceeds a line"
\* (test/promotionEngine.test.js:40): no line is discounted by more than it costs.
NeverExceedsLine == pricing.st = "priced" => ~OverDiscounted

\* The shares of the lines add up to the product discount of the order; as long as none
\* exceeds its line, the order is charged what evaluatePromotions quoted, the wrap and the
\* added tax; unless nothing is left to list, the basket adds up to that; and a coupon that
\* is not exclusive never makes it more than the cart costs without the coupon.
PricesAgree ==
    pricing.st = "priced" =>
      LET x == checkout
          added == [i \in DOMAIN x.lines |->
                       AddedTax(x.policy, LineBase(x.lines, pricing.shares, i))]
          taxes == LinesTotal(added, DOMAIN added)
                     + AddedTax(x.policy, pricing.shippingFee) + AddedTax(x.policy, x.gift)
      IN /\ LinesTotal(pricing.shares, DOMAIN x.lines)
              = pricing.off.campaign + pricing.off.product
         /\ OverDiscounted \/ charged.total = pricing.total + x.gift + taxes
         /\ \/ \A i \in DOMAIN charged.basket : charged.basket[i] = 0
            \/ LinesTotal(charged.basket, DOMAIN charged.basket) = charged.total
         /\ x.coupon = NoCoupon \/ x.coupon.stacking = "exclusive"
              \/ pricing.total <= EvaluatePromotions([x EXCEPT !.coupon = NoCoupon]).total
=============================================================================
