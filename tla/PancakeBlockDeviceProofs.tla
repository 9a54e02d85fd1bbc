----------------------- MODULE PancakeBlockDeviceProofs -----------------------
(***************************************************************************)
(* Theorems about PancakeBlockDevice, for all sets of images with names    *)
(* that a file system takes, all bytes that rot, sectors of every size and *)
(* both builds.                                                            *)
(***************************************************************************)
EXTENDS PancakeBlockDevice, PancakeBlockProofs

\* A write that was answered OK has left one image in all sectors.
AnsweredIsWhole == answer = OK => \E img \in Images : block = Whole(img)

\* The inductive invariant.  An answer of OK says nothing of the device by itself:
\* that all sectors come from the write that was answered has to be carried along.
DeviceInv == TypeOK /\ NoOversizedBlock /\ AnsweredIsWhole

\* The images that are written have kinds and lengths, and are not the raw device.
LEMMA ImagesAreImages ==
    /\ \A img \in Images : /\ img.kind \in Kinds /\ img.uuid \in Nat /\ img.path \in Nat
                           /\ img # Raw /\ img.uuid + img.path < 4351
    /\ \A img \in Images \cup {Raw} : IsImage(img)
<1> DEFINE Uuids == 0 .. 255
           Paths == 0 .. 4095
<1>1. \A uuid \in Uuids, path \in Paths : uuid \in Nat /\ path \in Nat /\ uuid + path < 4351
  OBVIOUS
<1>2. \A img \in Images : img.kind \in Kinds /\ img.uuid \in Uuids /\ img.path \in Paths
  BY ImageAssumption
<1> HIDE DEF Uuids, Paths
<1>3. Raw.kind = "Raw" /\ Raw.uuid = 0 /\ Raw.path = 0
  BY DEF Raw, Image
<1>4. "Raw" \notin Kinds
  BY DEF Kinds
<1>5. \A img \in Images : /\ img.kind \in Kinds /\ img.uuid \in Nat /\ img.path \in Nat
                          /\ img # Raw /\ img.uuid + img.path < 4351
  BY <1>1, <1>2, <1>3, <1>4
<1> QED BY <1>3, <1>5 DEF IsImage

\* The sizes that Serialize returns are below two blocks, so only a whole block
\* passes IsBlockAlign.
LEMMA AlignedIsWhole ==
    ASSUME NEW img \in Images, IsBlockAlign(SerializedSize(img))
    PROVE  SerializedSize(img) = k_block_size
<1>1. /\ img.kind \in Kinds /\ img.uuid \in Nat /\ img.path \in Nat
      /\ img.uuid + img.path < 4351
  BY ImagesAreImages
<1>2. k_block_size = 4096
  BY DEF k_block_size, payload_size, k_block_footer_size
<1>3. SerializedSize(img) \in Nat /\ 4096 <= SerializedSize(img) /\ SerializedSize(img) < 8192
  BY <1>1, SerializedSizes
<1>4. ASSUME NEW n \in Nat, 4096 <= n, n < 8192, n % 4096 = 0 PROVE n = 4096
  BY <1>4
<1> QED BY <1>2, <1>3, <1>4 DEF IsBlockAlign

\* The invariant holds at first, and along every step.
LEMMA DeviceInvariant == Spec => []DeviceInv
<1>1. Init => DeviceInv
  <2> SUFFICES ASSUME Init PROVE DeviceInv
    OBVIOUS
  <2>1. TypeOK
    BY DEF Init, TypeOK, Whole
  <2>2. NoOversizedBlock
    BY DEF Init, NoOversizedBlock, Whole
  <2>3. AnsweredIsWhole
    BY DEF Init, AnsweredIsWhole, OK
  <2> QED BY <2>1, <2>2, <2>3 DEF DeviceInv
<1>2. DeviceInv /\ [Next]_vars => DeviceInv'
  <2> SUFFICES ASSUME DeviceInv, [Next]_vars PROVE DeviceInv'
    OBVIOUS
  <2> USE DEF DeviceInv
  <2>1. ASSUME NEW img \in Images, Abort(img) \/ WriteRefused(img) PROVE DeviceInv'
    BY <2>1 DEF Abort, WriteRefused, TypeOK, NoOversizedBlock, AnsweredIsWhole, OK, NotBlockAligned
  <2>2. ASSUME NEW img \in Images, NEW n \in Int, WriteAt(img, n) PROVE DeviceInv'
    <3>1. TypeOK'
      BY <2>2 DEF WriteAt, TypeOK
    <3>2. NoOversizedBlock'
      BY <2>2, AlignedIsWhole DEF WriteAt, NoOversizedBlock, TypeOK
    <3>3. AnsweredIsWhole'
      BY <2>2 DEF WriteAt, AnsweredIsWhole, Whole, OK, WriteAtFailed
    <3> QED BY <3>1, <3>2, <3>3
  <2>3. ASSUME NEW byte \in RotOffsets, Rot(byte) PROVE DeviceInv'
    BY <2>3 DEF Rot, TypeOK, NoOversizedBlock, AnsweredIsWhole
  <2>4. ASSUME Restart PROVE DeviceInv'
    BY <2>4 DEF Restart, TypeOK, NoOversizedBlock, AnsweredIsWhole, OK
  <2>5. CASE UNCHANGED vars
    BY <2>5 DEF vars, TypeOK, NoOversizedBlock, AnsweredIsWhole
  <2> QED BY <2>1, <2>2, <2>3, <2>4, <2>5 DEF Next
<1> QED BY <1>1, <1>2, PTL DEF Spec

\* Sectors hold images that were written, or nothing, and WriteAt answers one of
\* its codes.
THEOREM DeviceTypeCorrect == Spec => []TypeOK
BY DeviceInvariant, PTL DEF DeviceInv

\* IsBlockAlign keeps every block of another size than k_block_size off the device.
THEOREM NoOversizedBlockHolds == Spec => []NoOversizedBlock
BY DeviceInvariant, PTL DEF DeviceInv

\* A super, bitmap or data block that WriteAt answered OK, and that has not rotted,
\* is accepted by its own Deserialize.
THEOREM AcknowledgedReadsBackHolds == Spec => []AcknowledgedReadsBack
<1>1. DeviceInv => AcknowledgedReadsBack
  <2> SUFFICES ASSUME DeviceInv, answer = OK, rot = {}, NEW s \in Sectors,
                      block[s].kind \in {"SuperBlock", "BitMapBlock", "DataBlock"}
               PROVE  Deserialize(block[s].kind, block, rot) = {OK}
    BY DEF AcknowledgedReadsBack
  <2>1. PICK img \in Images : block = Whole(img)
    BY DEF DeviceInv, AnsweredIsWhole
  <2>2. block[s] = img
    BY <2>1 DEF Whole
  <2>3. img.uuid \in Nat /\ img.path \in Nat /\ SerializedSize(img) = k_block_size
    BY <2>2, ImagesAreImages DEF DeviceInv, NoOversizedBlock
  <2> QED BY <2>1, <2>2, <2>3, WholeIsAccepted
<1> QED BY <1>1, DeviceInvariant, PTL

\* What any Deserialize accepts, after whatever torn writes and rot, is decoded
\* from one image, and not from one of another shape than the kind that is read.
THEOREM AcceptedIsOneImageHolds == Spec => []AcceptedIsOneImage
<1>1. DeviceInv => AcceptedIsOneImage
  <2> SUFFICES ASSUME DeviceInv, NEW kind \in Kinds, OK \in Deserialize(kind, block, rot)
               PROVE  LET img == block[0]
                          written == Fields(SerializeLayout(img))
                      IN  /\ \/ kind = img.kind
                             \/ kind \in FooterOnly /\ img.kind # "SuperBlock"
                          /\ \A f \in Fields(DeserializeLayout(kind, img.uuid, img.path)) :
                               /\ FromImage(img, block, rot, f.at, f.at + f.width - 1)
                               /\ kind = img.kind => f \in written
    <3>1. 0 \in Sectors
      BY SectorOrder
    <3> QED BY <3>1 DEF AcceptedIsOneImage
  <2> DEFINE img == block[0]
  <2>1. block[0] \in Images \cup {Raw} /\ rot \in SUBSET Int
    <3>1. RotOffsets \subseteq Int
      BY ImageAssumption DEF k_block_size, payload_size, k_block_footer_size
    <3>2. block \in [Sectors -> Images \cup {Raw}] /\ rot \subseteq RotOffsets /\ 0 \in Sectors
      BY SectorOrder DEF DeviceInv, TypeOK
    <3> QED BY <3>1, <3>2
  <2>2. IsImage(block[0])
    BY <2>1, ImagesAreImages
  <2>3. /\ \/ kind = img.kind /\ kind \in {"SuperBlock", "BitMapBlock", "DataBlock"}
           \/ /\ kind \in {"BitMapBlock", "DataBlock", "JournalBlock"}
              /\ img.kind \in {"BitMapBlock", "DataBlock", "ExtentHeaderBlock"}
        /\ \A f \in Fields(DeserializeLayout(kind, img.uuid, img.path)) :
             FromImage(img, block, rot, f.at, f.at + f.width - 1)
    BY <2>1, <2>2, AcceptedImage
  <2>4. ASSUME kind = img.kind
        PROVE  DeserializeLayout(kind, img.uuid, img.path) = SerializeLayout(img)
    BY <2>3, <2>4 DEF DeserializeLayout, SerializeLayout, SuperBlockSerialize, SuperBlockDeserialize,
         BitMapBlockSerialize, BitMapBlockDeserialize, DataBlockSerialize, DataBlockDeserialize
  <2> QED BY <2>3, <2>4 DEF FooterOnly
<1> QED BY <1>1, DeviceInvariant, PTL
=============================================================================
