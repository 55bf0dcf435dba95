\* A retry after the cart was changed.
CONSTANTS
    alice = alice
    bob = bob
    pizza = pizza
    shop = shop
    Customers = {alice}
    Items = {pizza}
    MaxQuantity = 2
    MaxKeys = 2
    MaxAttempts = 2
    Shop = shop
    None = None
    NoAnswer = NoAnswer
    Error = Error
SPECIFICATION Spec
INVARIANT ConfirmedAsSubmitted
CHECK_DEADLOCK FALSE
