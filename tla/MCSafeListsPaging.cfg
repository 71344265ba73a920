CONSTANTS
    Owner = {o1}
    Module = {m1, m2, m3, m4}
    Zero = Zero
    SENTINEL = SENTINEL
    Self = Self
    MaxOwners = 1
    PageSizes = {1, 2}
SPECIFICATION ListSpec
INVARIANT PagesComplete
