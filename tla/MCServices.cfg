SPECIFICATION ServicesSpec
CONSTANTS
    Alerts = {"back_in_stock", "price_drop"}
    TopPrice = 2
    Notifier = {w1, w2}
    NoMessage = NoMessage
    NotifyAttempts = 1
    NotifyRetry = 2
    MaxSignUps = 1
    MaxChoices = 3
    MaxNotifyFaults = 1
    ImportRow = {ir1, ir2}
    Importer = {w1, w2}
    NoImportRow = NoImportRow
    RowAttempts = 2
    MaxImportFaults = 2
    Analyst = {w1, w2}
    Editor = {e1}
    DraftAttempts = 2
    MaxDraftFaults = 1
    MaxForced = 1
    Call = {w1, w2, c3}
    NoCall = NoCall
    Body = {b1, b2}
    MonthlyQuota = 2
    MaxCallFaults = 2
    Session = {s1, s2}
    NoSession = NoSession
    Refresh = {w1, w2}
    MaxTokens = 3
    Key = {k1, k2, k3}
    NoKey = NoKey
    KeyAdmin = {w1, w2, ka3}
    Limit = {1, 2}
    Cart = {w1, w2}
    NoCart = NoCart
    Checkout = {w1, w2}
    NoCheckout = NoCheckout
    MaxQty = 1
    MaxVersion = 3
    MediaObject = {w1, w2}
    Resource = {p1}
    Cleaner = {w1, w2}
    JobAttempts = 2
    MaxMediaFaults = 1
    Shipment = {sh1, sh2}
    NoShipment = NoShipment
    Carrier = {w1, w2}
    Ordered = 2
    MaxOrderChanges = 1
    Org = {w1, w2}
    Host = {h1}
    NoHost = NoHost
    MaxDomains = 1
    MaxChallenges = 3
    Mailer = {w1, w2}
    MaxMails = 2
    MaxMailFaults = 2
    Plan = {p1}
    Granter = {w1, w2}
    Publisher = {w1, w2}
    MaxSubscriptions = 3
    MaxDrafts = 2
    MaxEdits = 1
    ThemeEditor = {w1, w2}
    Config = {b1, b2}
    NoConfig = NoConfig
    MaxThemeVersions = 4
    Author = {a1, a2}
    Voter = {v1, v2}
    Answer = {n1, n2}
    Clerk = {w1, w2}
    Account = {a1, a2}
    GuestOrder = {o1}
    Customer = {k1, k2}
    Address = {m1, m2, m3}
    NoAccount = NoAccount
    Claimant = {w1, w2}
    MaxClaims = 2
    CallbackEvent = {e1, e2}
    NoEvent = NoEvent
    Processor = {w1, w2}
    StockVariant = {v1, v2}
    Keeper = {w1, w2}
    MaxAvailable = 1
    Secret = {t1, t2}
    Passkey = {p1}
    CodeSet = {g1, g2}
    Challenge = {h1}
    Prover = {w1, w2}
    MaxStep = 1
    LinePrice = {3, 10}
    MaxLines = 3
    Percent = {10, 50}
    Amount = {5}
    Fee = {0, 4}
    GiftFee = {2}
    MinimumSubtotal = 4
    MaximumDiscount = 2
    TaxRate = 20
    Person = {o1, p1, p2}
    Founder = o1
    NoPerson = NoPerson
    Recruiter = {w1, w2}
    SeatLimits = {0, 2}
    MaxInvites = 2
    MaxAdded = 1
    MaxFiles = 2
    MaxContent = 2
    LegacyFile = {1}
    Migrator = {w1, w2}
    Tab = {w1, w2}
    NoTab = NoTab
    Request = {r1, r2}
    MaxPairs = 2
    DeskOrder = {w1, w2}
    NoDeskOrder = NoDeskOrder
    Target = {"processing", "shipped"}
    MaxMoves = 1
    MaxAddresses = 3
    Shopper = {w1, w2}
    NoShopper = NoShopper
    Transaction = {w1, w2}
    OrderId = {o1, o2}
    NumVariants = 2
    Stocked <- SharedVariants
    ProductId = {1, 2}
    ProductOf <- OwnProducts
    OrdersLimited = TRUE
    BatchLimit = 2
INVARIANTS
    ServicesTypes
    
    OptOutWins
    AppliedOnce
    ProductsAreAccountedFor
    CredentialsWorkOnce
    OneCurrentKey
    WithinPlan
    ActsAsSeen
    DeletedIsListed
    FulfilmentMatchesShipments
    HandOverIsProven
    SoldVersionsArePublished
    LiveThemeIsRecorded
    AggregatesMatchRows
    OneVerdict
    PricesAgree
    DeadlocksAreKnown
PROPERTIES
    HoldingsStay
CONSTRAINT FewSteps
SYMMETRY ServicesSymmetry
\* Quiet workers, an empty queue, a finished job, shoppers and administrators who stop.
CHECK_DEADLOCK FALSE
