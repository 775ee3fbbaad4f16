\* Every input of up to three elements: which ones sanitizePath lets
\* through to the disk, against the containment rule of spec 4 and 8.
SPECIFICATION Spec
CONSTANTS
    ELEMS <- MCElems
    DOTDOT <- MCDotDot
    SENSITIVE <- MCSensitive
    BASE <- MCBase
    MaxLen = 3
    None = None
INVARIANT PathContainment
