SPECIFICATION Spec
CONSTANTS
    Max = 3
    MaxRunes = 4
INVARIANT OnlyAudio
CHECK_DEADLOCK FALSE
