\* Three submissions of one customer, two of them for one key or each for its own.
CONSTANTS
    alice = alice
    bob = bob
    pizza = pizza
    shop = shop
    Customers = {alice}
    Items = {pizza}
    MaxQuantity = 1
    MaxKeys = 3
    MaxAttempts = 3
    Shop = shop
    None = None
    NoAnswer = NoAnswer
    Error = Error
SPECIFICATION Spec
INVARIANTS
    TypeOK
    ConfirmedKeyIsRetired
    PatientCustomerLosesNoOrder
CHECK_DEADLOCK FALSE
