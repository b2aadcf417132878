SPECIFICATION FairFeederSpec
CONSTANTS
    i1 = i1
    i2 = i2
    i3 = i3
    i4 = i4
    i5 = i5
    Items = {i1, i2, i3, i4, i5}
    RecordsOf <- MCRecordsOf
    RaisesAt <- MCRaisesAt
    Forbidden = {i5}
    Invalid = {i4}
    OldFormat = {i2}
    BatchSize = 2
    Tries = 2
    Capacity = 2
INVARIANTS LostOnlyBehindRaising StoredInOrder
PROPERTIES EveryItemLeaves
