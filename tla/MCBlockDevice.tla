---------------------------- MODULE MCBlockDevice ----------------------------
(* PancakeBlockDevice for TLC.  uuids have the 36 characters of a file      *)
(* system uuid; 3939 is the longest path for which the super block fits.    *)
EXTENDS PancakeBlockDevice

\* Two super blocks that end in the first sector and beyond it, the longest
\* one and one that is a byte too long, and a block of every other kind.
AllImages ==
    {Image("SuperBlock", 36, path, 1) : path \in {8, 1500, 3939, 3940}}
        \cup {Image("SuperBlock", 36, 1500, 2)}
        \cup {Image(kind, 0, 0, 1) : kind \in Kinds \ {"SuperBlock"}}

\* Blocks of the kinds that AddExtent writes.
HeaderImages == {Image(kind, 0, 0, 1) : kind \in {"ExtentHeaderBlock", "BitMapBlock"}}
=============================================================================
