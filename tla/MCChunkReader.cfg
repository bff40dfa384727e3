\* Chunks of up to three bytes; the buffer takes a little more than one of them.
SPECIFICATION Spec
CONSTANTS
    Bodies <- MCBodies
    BufBytes = 9
INVARIANTS
    InStep
    DrainedUnlessCut
    SoundUnlessCut
    StallsOnlyWhenWhole
