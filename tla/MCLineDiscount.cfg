\* Carts of one or two lines of 100, half price campaigns and fixed coupons.
SPECIFICATION PricingSpec
CONSTANTS
    LinePrice = {100}
    MaxLines = 2
    Percent = {50}
    Amount = {100}
    Fee = {0}
    GiftFee = {0}
    MinimumSubtotal = 0
    MaximumDiscount = 100
    TaxRate = 20
INVARIANT NeverExceedsLine
\* One checkout is all there is.
CHECK_DEADLOCK FALSE
