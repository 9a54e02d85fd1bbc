------------------------- MODULE PancakeBlockDevice -------------------------
(***************************************************************************)
(* One block of the device under PancakeIO::WriteAt: images of all kinds   *)
(* are serialized and written over each other, a write may stop after any  *)
(* sector, and bytes rot.  The properties say what the Deserialize of each *)
(* block can then make of it.                                              *)
(***************************************************************************)
EXTENDS PancakeBlock

CONSTANTS
    Images,         \* the images that are written
    RotOffsets,     \* bound: the bytes that may rot
    Builds          \* "debug" checks assert(), "release" (NDEBUG) does not

\* A uuid is a file name and a path one that open() takes, so NAME_MAX and
\* PATH_MAX bound them.
ASSUME ImageAssumption ==
    /\ \A img \in Images :
         img.kind \in Kinds /\ img.uuid \in 0 .. 255 /\ img.path \in 0 .. 4095
    /\ RotOffsets \subseteq 0 .. k_block_size - 1
    /\ Builds \subseteq {"debug", "release"}

Raw == Image("Raw", 0, 0, 0)

ReadAtFailed == "DATANODE_STORAGE_IO_READ_AT_FAILED"
WriteAtFailed == "DATANODE_STORAGE_IO_WRITE_AT_FAILED"
NotBlockAligned == "DATANODE_STORAGE_NOT_BLOCK_ALIGNED"

VARIABLES
    build,      \* the build that is running
    block,      \* sector -> the image it was last written from
    rot,        \* the bytes that have changed since
    answer      \* of the last write: an ErrorCode, "none", or "assert"

vars == <<build, block, rot, answer>>

TypeOK ==
    /\ build \in Builds
    /\ block \in [Sectors -> Images \cup {Raw}]
    /\ rot \subseteq RotOffsets
    /\ answer \in {OK, WriteAtFailed, NotBlockAligned, "none", "assert"}

Init ==
    /\ build \in Builds
    /\ block = Whole(Raw)
    /\ rot = {}
    /\ answer = "none"

\* Mutant of IsBlockAlign: every size passes.
AnyAlign(size) == TRUE

IsBlockAlign(size) == size % k_block_size = 0

\* Every Serialize ends in assert(result.size() == k_block_size).
SerializeAsserts(img) == build = "debug" /\ SerializedSize(img) # k_block_size

Abort(img) ==
    /\ answer # "assert"
    /\ SerializeAsserts(img)
    /\ answer' = "assert"
    /\ UNCHANGED <<build, block, rot>>

WriteRefused(img) ==
    /\ answer # "assert"
    /\ ~SerializeAsserts(img)
    /\ ~IsBlockAlign(SerializedSize(img))
    /\ answer' = NotBlockAligned
    /\ UNCHANGED <<build, block, rot>>

\* Mutant of WriteAt: a failed write is answered with the code of ReadAt.
WriteAtTellsRead(img, n) ==
    /\ answer # "assert"
    /\ ~SerializeAsserts(img)
    /\ IsBlockAlign(SerializedSize(img))
    /\ block' = [s \in Sectors |-> IF s < n THEN img ELSE block[s]]
    /\ rot' = {byte \in rot : Sector(byte) >= n}
    /\ answer' = IF \A s \in Sectors : s < n THEN OK ELSE ReadAtFailed
    /\ UNCHANGED build

\* The device wrote the first n sectors of the image: all of them, or the
\* length returned by dma_write is short or it threw, with nothing or some of it
\* written.
WriteAt(img, n) ==
    /\ answer # "assert"
    /\ ~SerializeAsserts(img)
    /\ IsBlockAlign(SerializedSize(img))
    /\ block' = [s \in Sectors |-> IF s < n THEN img ELSE block[s]]
    /\ rot' = {byte \in rot : Sector(byte) >= n}
    /\ answer' = IF \A s \in Sectors : s < n THEN OK ELSE WriteAtFailed
    /\ UNCHANGED build

Rot(byte) ==
    /\ byte \notin rot
    /\ rot' = rot \cup {byte}
    /\ UNCHANGED <<build, block, answer>>

\* The process is started again after an assertion failed.
Restart ==
    /\ answer = "assert"
    /\ answer' = "none"
    /\ UNCHANGED <<build, block, rot>>

Next ==
    \/ \E img \in Images :
         \/ Abort(img)
         \/ WriteRefused(img)
         \/ \E n \in {0} \cup {s + 1 : s \in Sectors} : WriteAt(img, n)
    \/ \E byte \in RotOffsets : Rot(byte)
    \/ Restart

Spec == Init /\ [][Next]_vars

-----------------------------------------------------------------------------
(* Properties.                                                             *)

\* Their Deserialize looks at the footer only, and the footer does not say
\* what the block is.
FooterOnly == {"BitMapBlock", "DataBlock", "JournalBlock"}

\* A block that some Deserialize accepts, after torn writes and rot, is one
\* image that was written, never a mixture of two: all that is decoded comes
\* from it, field by field as written when its kind is the kind that is read.
\* The footer-only kinds accept any image with a footer (an extent header
\* passes as a bitmap block); a super block is accepted as nothing else, and
\* nothing else as a super block or an extent header.
AcceptedIsOneImage ==
    \A kind \in Kinds :
        OK \in Deserialize(kind, block, rot) =>
            \E s \in Sectors :
                LET img == block[s]
                    written == Fields(SerializeLayout(img))
                IN  /\ \/ kind = img.kind
                       \/ kind \in FooterOnly /\ img.kind # "SuperBlock"
                    /\ \A f \in Fields(DeserializeLayout(kind, img.uuid, img.path)) :
                         /\ FromImage(img, block, rot, f.at, f.at + f.width - 1)
                         /\ kind = img.kind => f \in written

\* A super, bitmap or data block whose write was answered OK, and that has not
\* rotted since, is accepted by its own Deserialize.
AcknowledgedReadsBack ==
    answer = OK /\ rot = {} =>
        \A s \in Sectors :
            block[s].kind \in {"SuperBlock", "BitMapBlock", "DataBlock"} =>
                Deserialize(block[s].kind, block, rot) = {OK}

\* "rep_shard_cnt" stands over the same field in Serialize and in Deserialize:
\* an extent header whose write was answered OK is accepted when it is read.
HeaderReadsBack ==
    answer = OK /\ rot = {} =>
        \A s \in Sectors :
            block[s].kind = "ExtentHeaderBlock" =>
                Deserialize(block[s].kind, block, rot) = {OK}

\* A serialized block of another size than k_block_size never reaches the
\* device, where it would run into the next block.
NoOversizedBlock ==
    \A s \in Sectors : block[s] # Raw => SerializedSize(block[s]) = k_block_size
=============================================================================
