CONSTANTS
    Owner = {o1, o2, o3, o4}
    Module = {m1, m2, m3, m4}
    Zero = Zero
    SENTINEL = SENTINEL
    Self = Self
    MaxOwners = 4
    PageSizes = {0, 1, 2}
SPECIFICATION ListSpec
INVARIANTS OwnerRing ThresholdReachable GetOwnersExact OwnerRemovable WholePage PagesCompose PagesDistinct
PROPERTIES RegistrySpec ModuleSetSpec
SYMMETRY Symmetry
