SPECIFICATION QeSpec
CONSTANTS
    EdColls = {e1, e2}
    Sayings = {s}
    NoSaying = NoSaying
    MaxTouched = 1
    MaxAsked = 1
INVARIANT UpdateHitsCountedCollection
