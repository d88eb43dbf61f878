\* A damaged file gives each boot another UUID, for ever.
SPECIFICATION PersistentSpec
CONSTANTS
    Uuids = {u1, u2, u3, u4}
    Missing = Missing
    Torn = Torn
SYMMETRY UuidSymmetry
PROPERTIES
    UuidStable
