CONSTANTS
    sector_size = 1024
    Images <- AllImages
    RotOffsets = {52, 4093}
    Builds = {"debug", "release"}
SPECIFICATION Spec
INVARIANTS
    TypeOK
    AcceptedIsOneImage
    AcknowledgedReadsBack
    NoOversizedBlock
