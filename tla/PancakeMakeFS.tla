---------------------------- MODULE PancakeMakeFS ----------------------------
(***************************************************************************)
(* Pancake::MakeFS (pancake.cc) with the device functions it asks          *)
(* (device.cc).  The answers of the operating system are inputs.  As the   *)
(* code stands, MakeFS computes the layout and writes nothing.             *)
(***************************************************************************)
EXTENDS PancakeLayout

CONSTANTS
    DeviceSizes,        \* bound: sizes in bytes that a device may report
    k_min_device_size

ASSUME SizesAssumption == DeviceSizes \subseteq Nat /\ k_min_device_size \in Nat

OK == "PANCAKE_STORE_OK"
CodeError == "PANCAKE_STORE_CODE_ERROR"
FileNotExist == "DATANODE_DEVICE_FILE_NOT_EXIST"
FileSystemError == "DATANODE_DEVICE_FILE_SYSTEM_ERROR"
AlreadyMounted == "DATANODE_DEVICE_ALREADY_MOUNTED"
TooSmall == "DATANODE_STORAGE_DEVICE_CAPACITY_TOO_SMALL"
OpenFailed == "DATANODE_STORAGE_DEVICE_OPEN_FAILED"

NoLayout == <<>>
NoSize == -1

VARIABLES
    device_capacity_,   \* of the Pancake object
    layout,             \* the local pancake_layout of a MakeFS in flight or done
    stage,              \* "idle", or "open" while co_await pancake_io.Init
    answer              \* of the last MakeFS

vars == <<device_capacity_, layout, stage, answer>>

TypeOK ==
    /\ device_capacity_ \in DeviceSizes \cup {0}
    /\ layout = NoLayout \/ layout = BuildLayout(device_capacity_)
    /\ stage \in {"idle", "open"}
    /\ answer \in {OK, CodeError, FileNotExist, FileSystemError, AlreadyMounted,
                   TooSmall, OpenFailed, "none"}

Init ==
    /\ device_capacity_ = 0
    /\ layout = NoLayout
    /\ stage = "idle"
    /\ answer = "none"

\* What the operating system tells IsDeviceMounted, GetDeviceUUID and
\* GetDeviceSize: an error, or a value.  A /sys file that cannot be opened is
\* NoSize; one that holds no number reads as 0.
IsDeviceMounted == {FileNotExist, "mounted", "unmounted"}
GetDeviceUUID == {FileNotExist, FileSystemError, OK}
GetDeviceSize == {NoSize, 0} \cup DeviceSizes

\* The checks in front of the layout, in their order; OK to go on.
Check(is_pancake, mounted, uuid, size) ==
    IF ~is_pancake THEN CodeError
    ELSE IF mounted = FileNotExist THEN FileNotExist
    ELSE IF mounted = "mounted" THEN AlreadyMounted
    ELSE IF uuid # OK THEN uuid
    ELSE IF size = NoSize THEN FileNotExist
    ELSE IF size < k_min_device_size THEN TooSmall
    ELSE OK

MakeFSRefused(is_pancake, mounted, uuid, size) ==
    /\ stage = "idle"
    /\ Check(is_pancake, mounted, uuid, size) # OK
    /\ answer' = Check(is_pancake, mounted, uuid, size)
    /\ layout' = NoLayout
    /\ UNCHANGED <<device_capacity_, stage>>

\* Mutant of MakeFS: the capacity is not noted.
MakeFSForgetsCapacity(is_pancake, mounted, uuid, size) ==
    /\ stage = "idle"
    /\ Check(is_pancake, mounted, uuid, size) = OK
    /\ layout' = BuildLayout(size)
    /\ stage' = "open"
    /\ answer' = "none"
    /\ UNCHANGED device_capacity_

\* The capacity is noted and the layout built before the device is opened.
MakeFS(is_pancake, mounted, uuid, size) ==
    /\ stage = "idle"
    /\ Check(is_pancake, mounted, uuid, size) = OK
    /\ device_capacity_' = size
    /\ layout' = BuildLayout(size)
    /\ stage' = "open"
    /\ answer' = "none"

\* pancake_io.Init has failed: the capacity stays noted.
OpenDeviceFailed ==
    /\ stage = "open"
    /\ stage' = "idle"
    /\ answer' = OpenFailed
    /\ layout' = NoLayout
    /\ UNCHANGED device_capacity_

\* The device is open; the loop over the extent blocks writes nothing.
OpenDevice ==
    /\ stage = "open"
    /\ stage' = "idle"
    /\ answer' = OK
    /\ UNCHANGED <<device_capacity_, layout>>

Next ==
    \/ \E is_pancake \in BOOLEAN, mounted \in IsDeviceMounted,
          uuid \in GetDeviceUUID, size \in GetDeviceSize :
            \/ MakeFSRefused(is_pancake, mounted, uuid, size)
            \/ MakeFS(is_pancake, mounted, uuid, size)
    \/ OpenDeviceFailed
    \/ OpenDevice

Spec == Init /\ [][Next]_vars

-----------------------------------------------------------------------------
(* Properties.                                                             *)

\* The layout of a MakeFS that was answered OK is one PancakeExtentManager's
\* Init accepts, as long as the extent count fits in 32 bits: the bitmap area
\* has an entry for every extent block, the last bitmap block being partly used.
MadeLayoutIsAccepted ==
    answer = OK /\ CountsFit(device_capacity_) => ManagerAccepts(layout)

\* The regions of the layout lie in the order the header shows, none reaching into
\* the next, exactly on the devices whose bitmap fits in front of the extents: on
\* a larger one the padding count wraps (pancake_layout.cc 39) and the extents begin
\* inside the bitmap.
MadeRegionsInOrder ==
    answer = OK => (RegionsInOrder(layout) <=> MetadataFits(device_capacity_))
=============================================================================
