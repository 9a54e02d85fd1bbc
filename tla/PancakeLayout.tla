---------------------------- MODULE PancakeLayout ----------------------------
(***************************************************************************)
(* PancakeLayout::BuildLayout (pancake_layout.cc): where each region of    *)
(* the device begins and how many blocks it has, in the unsigned           *)
(* arithmetic of the code.                                                 *)
(***************************************************************************)
EXTENDS Integers

CONSTANTS
    k_block_data_size,
    k_block_size,
    k_extent_block_size,
    k_start_padding_block_count,
    U32,                \* 2^32, the modulus of uint32_t
    U64                 \* 2^64, the modulus of uint64_t

ASSUME LayoutAssumption ==
    /\ k_block_data_size \in Nat \ {0}
    /\ k_block_size \in Nat \ {0}
    /\ k_block_data_size <= k_block_size
    /\ k_extent_block_size \in Nat \ {0}
    /\ k_start_padding_block_count \in Nat
    /\ U32 \in Nat \ {0}
    /\ U64 \in Nat \ {0}
    /\ k_start_padding_block_count + 2 + U32 <= U64
    /\ k_extent_block_size < U64

\* Blocks of the area in front of the first extent.
meta_blocks == k_extent_block_size \div k_block_size

extentBlockCount(device_size) == ((device_size \div k_block_data_size) - 1) % U32

\* Mutant of BitmapBlockCount: the block of the last, partly used entries is
\* forgotten.
BitmapBlockCountFloor(extents) == extents \div k_block_data_size

\* One byte per extent.
BitmapBlockCount(extents) ==
    (extents \div k_block_data_size) + (IF extents % k_block_data_size # 0 THEN 1 ELSE 0)

\* Mutant of BuildLayout: the backup of the super block is not counted.
BuildLayoutForgetsBackup(device_size) ==
    LET extents == extentBlockCount(device_size)
        super == k_start_padding_block_count
        bitmap == super + 1
        padding == bitmap + BitmapBlockCount(extents)
    IN  [super_block |-> [block_index |-> super, block_count |-> 1],
         super_block_backup |-> [block_index |-> super + 1, block_count |-> 1],
         extent_bit_map |-> [block_index |-> bitmap, block_count |-> BitmapBlockCount(extents)],
         padding_blocks |-> [block_index |-> padding,
                             block_count |-> (meta_blocks - padding) % U64],
         extent_blocks |-> [block_index |-> (padding + ((meta_blocks - padding) % U64)) % U64,
                            block_count |-> extents]]

BuildLayout(device_size) ==
    LET extents == extentBlockCount(device_size)
        super == k_start_padding_block_count
        backup == super + 1
        bitmap == backup + 1
        padding == bitmap + BitmapBlockCount(extents)
        padding_count == (meta_blocks - padding) % U64
    IN  [super_block |-> [block_index |-> super, block_count |-> 1],
         super_block_backup |-> [block_index |-> backup, block_count |-> 1],
         extent_bit_map |-> [block_index |-> bitmap, block_count |-> BitmapBlockCount(extents)],
         padding_blocks |-> [block_index |-> padding, block_count |-> padding_count],
         extent_blocks |-> [block_index |-> (padding + padding_count) % U64,
                            block_count |-> extents]]

\* The check at the head of PancakeExtentManager::Init on the counts of a
\* layout, with the product in uint32_t; the offsets it is given are products
\* of k_block_size.
ManagerAccepts(layout) ==
    layout.extent_blocks.block_count
        <= (layout.extent_bit_map.block_count * k_block_data_size) % U32

-----------------------------------------------------------------------------
(* Properties of a layout.                                                 *)

End(item) == item.block_index + item.block_count

\* The regions lie one after the other.
RegionsInOrder(layout) ==
    /\ k_start_padding_block_count <= layout.super_block.block_index
    /\ End(layout.super_block) <= layout.super_block_backup.block_index
    /\ End(layout.super_block_backup) <= layout.extent_bit_map.block_index
    /\ End(layout.extent_bit_map) <= layout.extent_blocks.block_index

\* The device is small enough for the bitmap to fit in front of the extents.
MetadataFits(device_size) ==
    k_start_padding_block_count + 2 + BitmapBlockCount(extentBlockCount(device_size))
        <= meta_blocks

\* The device is small enough for the number of extents, rounded up to whole
\* bitmap blocks, to fit in 32 bits.
CountsFit(device_size) ==
    /\ device_size >= k_block_data_size
    /\ device_size \div k_block_data_size + k_block_data_size <= U32
=============================================================================
