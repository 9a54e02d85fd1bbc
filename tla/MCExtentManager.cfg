CONSTANTS
    ExtentIds = {e1, e2}
    Calls = {c1, c2}
    NoExtent = NoExtent
    extent_block_count = 3
    bitmap_block_count = 2
    k_block_data_size = 2
    U32 = 16
    OwnHeader <- CodecOutcome
SPECIFICATION Spec
SYMMETRY Symmetry
INVARIANTS
    TypeOK
    SlotOwner
    AckedIsDurable
    BitmapWriteThrough
    MapIsAcknowledged
    QueueIsPending
    SearchIsExhaustive
PROPERTIES
    HeaderOfUsedSlotKept
    ImplementsAllocation
