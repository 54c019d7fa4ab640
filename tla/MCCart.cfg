SPECIFICATION CartSpec
CONSTANTS
    Cart = {c1, c2}
    NoCart = NoCart
    Checkout = {k1}
    NoCheckout = NoCheckout
    MaxQty = 1
    MaxVersion = 3
INVARIANT FailedCheckoutReturnsCart
CHECK_DEADLOCK FALSE
