SPECIFICATION Spec
CONSTANT MAXFAULTS = 4
INVARIANTS
    ReadIsAnswered
    BlockIsHeld
PROPERTIES
    OnlyConfigSilences
