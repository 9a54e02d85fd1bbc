CONSTANTS
    ExtentIds = {e1, e2}
    Calls = {c1, c2}
    NoExtent = NoExtent
    extent_block_count = 2
    bitmap_block_count = 2
    k_block_data_size = 2
    U32 = 16
    OwnHeader = "PANCAKE_STORE_OK"
SPECIFICATION Spec
SYMMETRY Symmetry
INVARIANTS
    SlotOwner
    AckedIsDurable
    BitmapWriteThrough
    SearchIsExhaustive
PROPERTIES
    HeaderOfUsedSlotKept
    ImplementsAllocation
