SPECIFICATION FairSpec
CONSTANTS
    MaxBoots = 3
INVARIANT StoreInv
PROPERTIES
    RequestServed
