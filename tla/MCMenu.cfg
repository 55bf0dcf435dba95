\* The form: one product, two categories, two calls.  The catalog: one product of two sizes,
\* one category, two writes.  The cart: two pizzas of two sizes, a drink, two units, two
\* prices and one edit of the owner.
CONSTANTS
    k1 = k1
    k2 = k2
    a = a
    b = b
    c1 = c1
    p1 = p1
    d = d
    x = x
    ProductIds = {p1}
    CategoryIds = {a, b}
    Contents = {x}
    Calls = {k1, k2}
    Absent = Absent
    Products = {p1}
    CategoryKeys = {c1}
    Sizes = {a, b}
    Writes = {k1, k2}
    Nothing = Nothing
    Pizzas = {a, b}
    Drinks = {d}
    PizzaSizes = {1, 2}
    DefaultSize = 2
    Prices = {1, 2}
    MaxUnits = 2
    MaxEditions = 2
SPECIFICATION MCSpec
SYMMETRY MCSymmetry
INVARIANTS
    MenusTypeOK
    CategoriesFitTheirType
    MenuSettles
    MenuCanBeOrdered
    ChargedAsShown
CHECK_DEADLOCK FALSE
