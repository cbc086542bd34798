SPECIFICATION FairSpec
CONSTANTS
    Old = Old
    Mids = {1, 2, 3}
    Wrappers = {3}
    Hung = {1, 3}
    Suffixes = {"mac"}
INVARIANTS SplitOnlyWhenBlind RekeyIsWhole
PROPERTIES KeyedToAHub ResidualSettles
