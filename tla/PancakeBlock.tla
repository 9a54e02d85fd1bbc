---------------------------- MODULE PancakeBlock ----------------------------
(***************************************************************************)
(* The on-device blocks of pancake_block.{h,cc}: what Serialize lays out   *)
(* and what Deserialize accepts.  A layout is a sequence of fields in the  *)
(* order the code appends or reads them; a block on the device is known by *)
(* the image each of its sectors comes from and by its damaged bytes.      *)
(*                                                                         *)
(* Byte values matter only where the code looks at them: the magic, the    *)
(* two length fields of the super block and the CRC.  Payload bytes are    *)
(* taken not to imitate the magic, and CRC32 to tell all contents apart.   *)
(***************************************************************************)
EXTENDS Integers, Sequences

CONSTANT sector_size    \* bytes the device writes atomically

ASSUME SectorAssumption == sector_size \in {512, 1024, 2048, 4096}

payload_size == 4064              \* k_block_data_size
k_block_footer_size == 32
k_block_size == payload_size + k_block_footer_size

OK == "PANCAKE_STORE_OK"
MagicIllegal == "DATANODE_STORAGE_BLOCK_MAGIC_ILLEGAL"
DataIllegal == "DATANODE_STORAGE_BLOCK_DATA_ILLEGAL"
CrcMismatch == "DATANODE_STORAGE_BLOCK_CRC_MISMATCH"

Kinds == {"SuperBlock", "BitMapBlock", "DataBlock", "JournalBlock", "ExtentHeaderBlock"}

\* What one Serialize produced, or the raw device ("Raw") before any write.
\* uuid and path are string lengths (0 for the blocks that have none), content
\* tells two images of one shape apart.
Image(kind, uuid, path, content) ==
    [kind |-> kind, uuid |-> uuid, path |-> path, content |-> content]

-----------------------------------------------------------------------------
(* Layouts: <<field, width in bytes>>.                                     *)

BlockFooter ==
    << <<"magic", 4>>, <<"version", 1>>, <<"flag", 1>>, <<"length", 2>>,
       <<"footer_extent_id", 8>>, <<"footer_reserved", 12>>, <<"crc", 4>> >>

JournalBlockFooter ==
    << <<"magic", 4>>, <<"version", 1>>, <<"flag", 1>>, <<"length", 2>>,
       <<"extent_id", 8>>, <<"transaction_id", 8>>, <<"commited_flag", 1>>,
       <<"reserved", 3>>, <<"crc", 4>> >>

\* The fields from create_time_ to crc_.
SuperBlockTail ==
    << <<"create_time", 8>>, <<"device_capacity", 8>>, <<"block_size", 8>>,
       <<"journal_block_count", 4>>, <<"extent_block_size", 8>>,
       <<"extent_block_count", 8>>,
       <<"extent_block_bitmap_start", 8>>, <<"extent_block_bitmap_end", 8>>,
       <<"trash_extent_block_bitmap_start", 8>>, <<"trash_extent_block_bitmap_end", 8>>,
       <<"journal_blocks_start", 8>>, <<"journal_blocks_end", 8>>,
       <<"extent_blocks_start", 8>>, <<"crc", 4>> >>

SuperBlockSerialize(uuid, path) ==
    << <<"magic", 4>>, <<"version", 1>>, <<"device_id", 8>>,
       <<"uuid_len", 2>>, <<"device_uuid", uuid>>,
       <<"path_len", 2>>, <<"device_path", path>> >> \o SuperBlockTail

\* Mutant of SuperBlockDeserialize: two fields of one width are read in the
\* wrong order.
SuperBlockDeserializeSwapped(uuid, path) ==
    << <<"magic", 4>>, <<"version", 1>>, <<"device_id", 8>>,
       <<"uuid_len", 2>>, <<"device_uuid", uuid>>,
       <<"path_len", 2>>, <<"device_path", path>>,
       <<"device_capacity", 8>>, <<"create_time", 8>> >> \o SubSeq(SuperBlockTail, 3, 14)

SuperBlockDeserialize(uuid, path) ==
    << <<"magic", 4>>, <<"version", 1>>, <<"device_id", 8>>,
       <<"uuid_len", 2>>, <<"device_uuid", uuid>>,
       <<"path_len", 2>>, <<"device_path", path>> >> \o SuperBlockTail

BitMapBlockSerialize == << <<"payload", payload_size>> >> \o BlockFooter

\* Mutant of BitMapBlockDeserialize: the reserved bytes of the footer are skipped.
BitMapBlockDeserializeShort ==
    << <<"payload", payload_size>> >> \o SubSeq(BlockFooter, 1, 5) \o << <<"crc", 4>> >>

BitMapBlockDeserialize == << <<"payload", payload_size>> >> \o BlockFooter

DataBlockSerialize == << <<"payload", payload_size>> >> \o BlockFooter

DataBlockDeserialize == << <<"payload", payload_size>> >> \o BlockFooter

\* reserved_ is appended twice.
JournalBlockSerialize ==
    << <<"payload", payload_size>> >> \o SubSeq(JournalBlockFooter, 1, 8)
        \o << <<"reserved", 3>>, <<"crc", 4>> >>

JournalBlockDeserialize == << <<"payload", payload_size>> >> \o JournalBlockFooter

\* The fields from device_id_ to the footer.
ExtentHeaderTail ==
    << <<"device_id", 8>>, <<"extent_id", 8>>, <<"extent_capacity", 4>>,
       <<"extent_phy_used", 4>>, <<"extent_logic_used", 4>>, <<"redundant_type", 1>>,
       <<"sealed", 1>>, <<"is_migrating", 1>>, <<"corrupted", 1>>,
       <<"bitmap_ext_index", 4>>, <<"reserved", 4020>> >> \o BlockFooter

ExtentHeaderSerialize ==
    << <<"magic", 4>>, <<"version", 1>>, <<"shard_id", 1>>,
       <<"data_shard_cnt", 1>>, <<"code_shard_cnt", 1>> >> \o ExtentHeaderTail

\* code_shard_cnt_ is not read.
ExtentHeaderDeserialize ==
    << <<"magic", 4>>, <<"version", 1>>, <<"shard_id", 1>>,
       <<"data_shard_cnt", 1>> >> \o ExtentHeaderTail

SerializeLayout(img) ==
    CASE img.kind = "SuperBlock" -> SuperBlockSerialize(img.uuid, img.path)
      [] img.kind = "BitMapBlock" -> BitMapBlockSerialize
      [] img.kind = "DataBlock" -> DataBlockSerialize
      [] img.kind = "JournalBlock" -> JournalBlockSerialize
      [] img.kind = "ExtentHeaderBlock" -> ExtentHeaderSerialize
      [] img.kind = "Raw" -> <<>>

DeserializeLayout(kind, uuid, path) ==
    CASE kind = "SuperBlock" -> SuperBlockDeserialize(uuid, path)
      [] kind = "BitMapBlock" -> BitMapBlockDeserialize
      [] kind = "DataBlock" -> DataBlockDeserialize
      [] kind = "JournalBlock" -> JournalBlockDeserialize
      [] kind = "ExtentHeaderBlock" -> ExtentHeaderDeserialize

\* Bytes of the first n fields of a layout.
Bytes(layout, n) ==
    LET sum[k \in 0 .. n] == IF k = 0 THEN 0 ELSE sum[k - 1] + layout[k][2]
    IN  sum[n]

\* The fields of a layout with the offset each begins at.
Fields(layout) ==
    {[name |-> layout[n][1], at |-> Bytes(layout, n - 1), width |-> layout[n][2]] :
        n \in 1 .. Len(layout)}

\* Bytes that Serialize returns: the super block is padded with zeros.
SerializedSize(img) ==
    LET layout == SerializeLayout(img)
        size == Bytes(layout, Len(layout))
    IN  IF img.kind = "SuperBlock" /\ size < k_block_size THEN k_block_size ELSE size

-----------------------------------------------------------------------------
(* Deserialize on a device block.                                          *)

Sectors == 0 .. (k_block_size \div sector_size) - 1
Sector(byte) == byte \div sector_size

\* The image that bytes first..last come from, all of them intact.
FromImage(img, block, rot, first, last) ==
    /\ \A s \in Sector(first) .. Sector(last) : block[s] = img
    /\ \A byte \in rot : byte < first \/ byte > last

\* The field that is read is a field that was written, at the same place.
ReadsField(img, block, rot, f) ==
    /\ FromImage(img, block, rot, f.at, f.at + f.width - 1)
    /\ f \in Fields(SerializeLayout(img))

\* read_data, the checks of the magic and of the lengths in the order the
\* fields come, and the CRC over all that lies before it.  A length that is
\* not the one written may be too long for the block or misplace the rest.
Deserialize(kind, block, rot) ==
    LET img == block[0]
        fields == Fields(DeserializeLayout(kind, img.uuid, img.path))
        crc == CHOOSE f \in fields : f.name = "crc"
        Named(names) == {f \in fields : f.name \in names}
        IsMagic(f) == \E s \in Sectors : ReadsField(block[s], block, rot, f)
    IN  IF \E f \in Named({"magic"}) : ~IsMagic(f) THEN {MagicIllegal}
        ELSE IF \E f \in Named({"uuid_len", "path_len"}) : ~ReadsField(img, block, rot, f)
             THEN {DataIllegal, CrcMismatch}
        ELSE IF crc \in Fields(SerializeLayout(img))
                /\ FromImage(img, block, rot, 0, crc.at + 3) THEN {OK}
        ELSE {CrcMismatch}

\* A block all of whose sectors come from one write.
Whole(img) == [s \in Sectors |-> img]

\* What DelExtent gets when it reads back a header that AddExtent wrote.
OwnHeaderOutcome ==
    Deserialize("ExtentHeaderBlock", Whole(Image("ExtentHeaderBlock", 0, 0, 1)), {})
=============================================================================
