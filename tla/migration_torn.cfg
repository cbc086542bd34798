SPECIFICATION Spec
CONSTANTS
    Old = Old
    Mids = {1, 2}
    Wrappers = {}
    Hung = {1, 2}
    Suffixes = {"mac"}
INVARIANTS InterruptedRunRecovers
