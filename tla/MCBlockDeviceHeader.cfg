CONSTANTS
    sector_size = 1024
    Images <- HeaderImages
    RotOffsets = {52, 4093}
    Builds = {"debug", "release"}
SPECIFICATION Spec
INVARIANTS
    HeaderReadsBack
