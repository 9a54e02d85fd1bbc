-------------------------- MODULE ExtentAllocation --------------------------
(***************************************************************************)
(* What the extent manager promises, with no locks, no awaits and no       *)
(* device writes: each extent block ("slot") has at most one owner, an     *)
(* extent is placed at most once in the life of a manager object, and all  *)
(* that the object knows is gone when the process stops.                   *)
(***************************************************************************)
CONSTANTS
    ExtentIds,      \* extent ids a caller may use
    Slots,          \* indexes of the extent blocks of the device
    NoExtent        \* owner of a free slot

VARIABLES
    owner,          \* slot -> the extent that lives there, or NoExtent
    known           \* extents this manager object has ever placed

vars == <<owner, known>>

Init ==
    /\ owner = [i \in Slots |-> NoExtent]
    /\ known = {}

\* A successful AddExtent: an extent not yet placed gets a free slot.
Allocate(id, i) ==
    /\ id \notin known
    /\ owner[i] = NoExtent
    /\ owner' = [owner EXCEPT ![i] = id]
    /\ known' = known \cup {id}

\* A successful DelExtent: the slot is free again, but the extent stays known,
\* so its id is not placed a second time.
Release(i) ==
    /\ owner[i] # NoExtent
    /\ owner' = [owner EXCEPT ![i] = NoExtent]
    /\ UNCHANGED known

\* The process stops and the manager object is lost.
Forget ==
    /\ owner' = [i \in Slots |-> NoExtent]
    /\ known' = {}

Next ==
    \/ \E id \in ExtentIds, i \in Slots : Allocate(id, i)
    \/ \E i \in Slots : Release(i)
    \/ Forget

Spec == Init /\ [][Next]_vars
=============================================================================
