\* The claim of a comment: the review count of a product never drifts.
SPECIFICATION ReviewSpec
CONSTANTS
    Author = {a1, a2}
    Voter = {v1}
    Answer = {}
    Clerk = {w1, w2}
INVARIANT RatingNeverDrifts
CHECK_DEADLOCK FALSE
