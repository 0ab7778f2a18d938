\* Two overlapping requests of a user on the pro tier, a month of three days of one hour.
CONSTANTS
    q1 = q1
    q2 = q2
    NoKey = NoKey
    NoTTL = NoTTL
    Requests = {q1, q2}
    Questions <- MCQuestions
    Configured <- MCConfigured
    Charges <- MCCharges
    MaxCharge = 39999800
    Tokens = 500
    Tiers = {"pro"}
    Days = 3
    DayLength = 1
    MaxFaults = 1
    MaxBlind = 1
SPECIFICATION FairSpec
INVARIANT OverspendBounded
INVARIANT BooksBalance
INVARIANT RouteSound
PROPERTY Renewed
