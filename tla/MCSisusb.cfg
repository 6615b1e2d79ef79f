SPECIFICATION Spec
CONSTANTS
    Width = 2
    Height = 1
    StartRandr <- MCStart
    Rotations <- MCRotations
    Buffers = {b1, b2}
    Colours = {black, white}
    Ground = black
    Junk = junk
    NULL = NULL
INVARIANTS Mirrored InBounds RotationReported
PROPERTIES Shown
