-------------------------- MODULE PancakeBlockProofs --------------------------
(***************************************************************************)
(* Theorems about PancakeBlock, for every block on the device: where the   *)
(* fields of each layout lie, what Deserialize accepts, and that it never  *)
(* accepts an extent header.                                               *)
(*                                                                         *)
(* An offset is a sum over the fields in front of it, which Bytes computes *)
(* by a recursive function.  SetInduction, induction stated for a set of   *)
(* numbers, gives its equations; FieldEnds then lets the sum of a layout   *)
(* be read off a table of the ends of its fields.                          *)
(***************************************************************************)
EXTENDS PancakeBlock, TLAPS, WellFoundedInduction

-----------------------------------------------------------------------------
(* Induction over the natural numbers.                                     *)

\* A set of natural numbers that is not empty has a least member.
LEMMA LeastNatural ==
    ASSUME NEW S, S \subseteq Nat, S # {}
    PROVE  \E m \in S : \A k \in S : m <= k
<1> DEFINE R == OpToRel(<, Nat)
<1>1. PICK m \in S : \A k \in S : ~(<<k, m>> \in R)
  <2>1. IsWellFoundedOn(R, Nat)
    BY NatLessThanWellFounded, Zenon
  <2> HIDE DEF R
  <2> QED BY <2>1, WFMin
<1>2. \A k \in S : <<k, m>> \in Nat \X Nat
  OBVIOUS
<1>3. \A k \in S : ~(k < m)
  BY <1>1, <1>2 DEF OpToRel
<1> QED BY <1>3

\* A set with 0 that has the successor of each of its numbers has all of them.
LEMMA SetInduction ==
    ASSUME NEW S, 0 \in S, \A n \in Nat : n \in S => n + 1 \in S
    PROVE  Nat \subseteq S
<1> SUFFICES ASSUME Nat \ S # {} PROVE FALSE
  OBVIOUS
<1>1. PICK m \in Nat \ S : \A k \in Nat \ S : m <= k
  BY LeastNatural
<1>2. m # 0 /\ m - 1 \in Nat /\ m - 1 \in S
  BY <1>1
<1> QED BY <1>2

\* f is the function that Bytes defines: the bytes of the first 0, 1, ..., n fields.
IsSum(layout, n, f) ==
    f = [k \in 0 .. n |-> IF k = 0 THEN 0 ELSE f[k - 1] + layout[k][2]]

\* There is one, for every number of fields.
LEMMA SumExists ==
    ASSUME NEW layout, NEW n \in Nat
    PROVE  \E f : IsSum(layout, n, f)
<1> DEFINE S == {m \in Nat : \E f : IsSum(layout, m, f)}
<1>1. 0 \in S
  <2>1. IsSum(layout, 0, [k \in 0 .. 0 |-> 0])
    BY DEF IsSum
  <2> QED BY <2>1
<1>2. ASSUME NEW m \in Nat, m \in S PROVE m + 1 \in S
  <2>1. PICK f : IsSum(layout, m, f)
    BY <1>2
  <2> DEFINE g == [k \in 0 .. m + 1 |-> IF k = m + 1 THEN f[m] + layout[m + 1][2] ELSE f[k]]
  <2>2. g = [k \in 0 .. m + 1 |-> IF k = 0 THEN 0 ELSE g[k - 1] + layout[k][2]]
    BY <2>1 DEF IsSum
  <2> HIDE DEF g
  <2>3. IsSum(layout, m + 1, g)
    BY <2>2 DEF IsSum
  <2> QED BY <2>3
<1> HIDE DEF S
<1>3. Nat \subseteq S
  BY <1>1, <1>2, SetInduction
<1> QED BY <1>3 DEF S

\* Two of them, for different numbers of fields, agree as far as both go.
LEMMA SumsAgree ==
    ASSUME NEW layout, NEW m \in Nat, NEW n \in Nat, NEW f, NEW g,
           IsSum(layout, m, f), IsSum(layout, n, g)
    PROVE  \A k \in Nat : k <= m /\ k <= n => f[k] = g[k]
<1> DEFINE S == {k \in Nat : k <= m /\ k <= n => f[k] = g[k]}
<1>1. /\ \A k \in 0 .. m : f[k] = IF k = 0 THEN 0 ELSE f[k - 1] + layout[k][2]
      /\ \A k \in 0 .. n : g[k] = IF k = 0 THEN 0 ELSE g[k - 1] + layout[k][2]
  BY DEF IsSum
<1>2. 0 \in S
  BY <1>1
<1>3. ASSUME NEW k \in Nat, k \in S PROVE k + 1 \in S
  BY <1>1, <1>3
<1> HIDE DEF S
<1>4. Nat \subseteq S
  BY <1>2, <1>3, SetInduction
<1> QED BY <1>4 DEF S

\* The equations of Bytes: n + 1 fields take the width of the last of them more
\* than n fields.
LEMMA BytesStep ==
    ASSUME NEW layout, NEW n \in Nat
    PROVE  /\ Bytes(layout, 0) = 0
           /\ Bytes(layout, n + 1) = Bytes(layout, n) + layout[n + 1][2]
<1> DEFINE sum(m) == CHOOSE f : IsSum(layout, m, f)
<1>1. \A m \in Nat : Bytes(layout, m) = sum(m)[m]
  BY DEF Bytes, IsSum
<1>2. \A m \in Nat : IsSum(layout, m, sum(m))
  BY SumExists
<1> HIDE DEF sum
<1>3. \A m \in Nat : \A k \in 0 .. m : sum(m)[k] = IF k = 0 THEN 0 ELSE sum(m)[k - 1] + layout[k][2]
  BY <1>2 DEF IsSum
<1>4. sum(n)[n] = sum(n + 1)[n]
  BY <1>2, SumsAgree
<1>5. sum(0)[0] = 0 /\ sum(n + 1)[n + 1] = sum(n + 1)[n] + layout[n + 1][2]
  BY <1>3
<1> QED BY <1>1, <1>4, <1>5

\* The same, read backwards.
LEMMA BytesBack ==
    ASSUME NEW layout
    PROVE  /\ Bytes(layout, 0) = 0
           /\ \A n \in Nat \ {0} : Bytes(layout, n) = Bytes(layout, n - 1) + layout[n][2]
<1>1. ASSUME NEW n \in Nat \ {0} PROVE Bytes(layout, n) = Bytes(layout, n - 1) + layout[n][2]
  <2>1. n - 1 \in Nat /\ (n - 1) + 1 = n
    OBVIOUS
  <2> QED BY <2>1, BytesStep
<1> QED BY <1>1, BytesStep

\* When the widths are natural numbers so are the sums, and none is larger than
\* the sum of all.
LEMMA BytesNat ==
    ASSUME NEW layout, NEW n \in Nat, \A k \in 1 .. n : layout[k][2] \in Nat
    PROVE  \A m \in 0 .. n : Bytes(layout, m) \in Nat /\ Bytes(layout, m) <= Bytes(layout, n)
<1> DEFINE S == {m \in Nat : m <= n => Bytes(layout, m) \in Nat}
           T == {m \in Nat : m <= n => Bytes(layout, n - m) <= Bytes(layout, n)}
<1>1. Nat \subseteq S
  <2>1. 0 \in S
    BY BytesStep
  <2>2. ASSUME NEW m \in Nat, m \in S PROVE m + 1 \in S
    BY <2>2, BytesStep
  <2> HIDE DEF S
  <2> QED BY <2>1, <2>2, SetInduction
<1>2. \A m \in 0 .. n : Bytes(layout, m) \in Nat
  BY <1>1
<1>3. Nat \subseteq T
  <2>1. 0 \in T
    BY <1>2
  <2>2. ASSUME NEW m \in Nat, m \in T PROVE m + 1 \in T
    <3> SUFFICES ASSUME m + 1 <= n PROVE Bytes(layout, n - (m + 1)) <= Bytes(layout, n)
      OBVIOUS
    <3> DEFINE k == n - (m + 1)
    <3>1. k \in Nat /\ k + 1 = n - m /\ k + 1 \in 1 .. n
      OBVIOUS
    <3> HIDE DEF k
    <3>2. Bytes(layout, k + 1) = Bytes(layout, k) + layout[k + 1][2]
      BY <3>1, BytesStep
    <3>3. /\ Bytes(layout, k) \in Nat /\ Bytes(layout, k + 1) \in Nat /\ Bytes(layout, n) \in Nat
          /\ layout[k + 1][2] \in Nat
      BY <3>1, <1>2
    <3>4. Bytes(layout, k + 1) <= Bytes(layout, n)
      BY <2>2, <3>1
    <3>5. Bytes(layout, k) <= Bytes(layout, n)
      BY <3>2, <3>3, <3>4
    <3> QED BY <3>5 DEF k
  <2> HIDE DEF T
  <2> QED BY <2>1, <2>2, SetInduction
<1>4. ASSUME NEW m \in 0 .. n PROVE Bytes(layout, m) <= Bytes(layout, n)
  <2>1. n - m \in Nat /\ n - m \in T /\ n - m <= n /\ n - (n - m) = m
    BY <1>3
  <2> QED BY <2>1
<1> QED BY <1>2, <1>4

-----------------------------------------------------------------------------
(* Fields and their places.                                                *)

\* The crc and the magic are four bytes wide in every layout.
Crc(at) == [name |-> "crc", at |-> at, width |-> 4]
Magic(at) == [name |-> "magic", at |-> at, width |-> 4]

\* The layouts of the code have one crc, their last field, at this offset.
EndsInCrc(layout, at) ==
    /\ Len(layout) \in Nat \ {0}
    /\ \A n \in 1 .. Len(layout) : layout[n][2] \in Nat
    /\ \A n \in 1 .. Len(layout) : layout[n][1] = "crc" <=> n = Len(layout)
    /\ layout[Len(layout)][2] = 4
    /\ Bytes(layout, Len(layout) - 1) = at

\* Such a layout has no field behind its crc, so that a CRC over all that lies in
\* front of it is over the whole block.
LEMMA CrcField ==
    ASSUME NEW layout, NEW at, EndsInCrc(layout, at)
    PROVE  /\ at \in Nat
           /\ Crc(at) \in Fields(layout)
           /\ \A f \in Fields(layout) : f.name = "crc" => f = Crc(at)
           /\ \A f \in Fields(layout) : /\ f.at \in Nat /\ f.width \in Nat
                                        /\ f.at + f.width <= at + 4
           /\ Bytes(layout, Len(layout)) = at + 4
<1> DEFINE len == Len(layout)
           Field(n) == [name |-> layout[n][1], at |-> Bytes(layout, n - 1), width |-> layout[n][2]]
<1>1. /\ len \in Nat /\ len # 0
      /\ \A n \in 1 .. len : layout[n][2] \in Nat
      /\ \A n \in 1 .. len : layout[n][1] = "crc" <=> n = len
      /\ layout[len][2] = 4
      /\ Bytes(layout, len - 1) = at
  BY DEF EndsInCrc
<1>2. Fields(layout) = {Field(n) : n \in 1 .. len}
  BY DEF Fields
<1> HIDE DEF len
<1>3. \A m \in 0 .. len : Bytes(layout, m) \in Nat /\ Bytes(layout, m) <= Bytes(layout, len)
  BY <1>1, BytesNat
<1>4. \A n \in 1 .. len : Bytes(layout, n) = Bytes(layout, n - 1) + layout[n][2]
  <2> TAKE n \in 1 .. len
  <2>1. n - 1 \in Nat /\ (n - 1) + 1 = n
    BY <1>1
  <2> QED BY <2>1, BytesStep
<1>5. Bytes(layout, len) = at + 4 /\ at \in Nat
  <2>1. len \in 1 .. len /\ len - 1 \in 0 .. len
    BY <1>1
  <2> QED BY <1>1, <1>3, <1>4, <2>1
<1>6. Crc(at) \in Fields(layout)
  <2>1. len \in 1 .. len
    BY <1>1
  <2>2. Crc(at) = Field(len)
    BY <1>1, <2>1 DEF Crc
  <2> QED BY <1>2, <2>1, <2>2
<1>7. ASSUME NEW f \in Fields(layout)
      PROVE  /\ f.name = "crc" => f = Crc(at)
             /\ f.at \in Nat /\ f.width \in Nat /\ f.at + f.width <= at + 4
  <2>1. PICK n \in 1 .. len : f = Field(n)
    BY <1>2
  <2>2. f.name = "crc" => f = Crc(at)
    BY <1>1, <2>1 DEF Crc
  <2>3. n - 1 \in 0 .. len /\ n \in 0 .. len /\ layout[n][2] \in Nat
    BY <1>1
  <2>4. f.at = Bytes(layout, n - 1) /\ f.width = layout[n][2]
    BY <2>1
  <2> QED BY <1>3, <1>4, <1>5, <2>2, <2>3, <2>4
<1>8. Bytes(layout, Len(layout)) = at + 4
  BY <1>5 DEF len
<1> QED BY <1>5, <1>6, <1>7, <1>8

\* The field in one place of a layout.
Field(layout, n) ==
    [name |-> layout[n][1], at |-> Bytes(layout, n - 1), width |-> layout[n][2]]

\* Every place has a field,
LEMMA FieldOf ==
    ASSUME NEW layout, NEW n \in 1 .. Len(layout)
    PROVE  Field(layout, n) \in Fields(layout)
BY DEF Fields, Field

\* and every field a place.
LEMMA FieldIndex ==
    ASSUME NEW layout, NEW f \in Fields(layout), NEW len, Len(layout) = len
    PROVE  \E n \in 1 .. len : f = Field(layout, n)
BY DEF Fields, Field

\* The end of every field, from a table of them: each ends its own width
\* behind the one in front.
AreEnds(ends, layout, len) ==
    /\ len \in Nat \ {0}
    /\ ends[1] = layout[1][2]
    /\ \A n \in 1 .. len : layout[n][2] \in Nat
    /\ \A n \in 2 .. len : ends[n] = ends[n - 1] + layout[n][2]

\* Such a table has the ends that Bytes computes.
LEMMA FieldEnds ==
    ASSUME NEW ends, NEW layout, NEW len, AreEnds(ends, layout, len)
    PROVE  \A n \in 1 .. len : Bytes(layout, n) = ends[n]
<1> USE DEF AreEnds
<1> DEFINE S == {n \in Nat : n + 1 <= len => Bytes(layout, n + 1) = ends[n + 1]}
<1>1. 0 \in S
  <2>1. Bytes(layout, 1) = Bytes(layout, 0) + layout[1][2] /\ Bytes(layout, 0) = 0
    BY BytesBack
  <2> QED BY <2>1
<1>2. ASSUME NEW n \in Nat, n \in S PROVE n + 1 \in S
  <2> SUFFICES ASSUME (n + 1) + 1 <= len PROVE Bytes(layout, (n + 1) + 1) = ends[(n + 1) + 1]
    OBVIOUS
  <2>1. Bytes(layout, (n + 1) + 1) = Bytes(layout, n + 1) + layout[(n + 1) + 1][2]
    BY BytesStep
  <2>2. ends[(n + 1) + 1] = ends[n + 1] + layout[(n + 1) + 1][2]
    <3>1. (n + 1) + 1 \in 2 .. len /\ ((n + 1) + 1) - 1 = n + 1
      OBVIOUS
    <3> QED BY <3>1
  <2> QED BY <1>2, <2>1, <2>2
<1> HIDE DEF S
<1>3. Nat \subseteq S
  BY <1>1, <1>2, SetInduction
<1>4. ASSUME NEW n \in 1 .. len PROVE Bytes(layout, n) = ends[n]
  <2>1. n - 1 \in S /\ n - 1 \in Nat /\ (n - 1) + 1 = n
    BY <1>3
  <2> QED BY <2>1 DEF S
<1> QED BY <1>4

-----------------------------------------------------------------------------
(* The layouts.                                                            *)

\* The super block, with a uuid of u bytes and a path of p bytes: its crc is not at
\* the end of the block but right behind the fields.
LEMMA SuperLayout ==
    ASSUME NEW u \in Nat, NEW p \in Nat
    PROVE  LET layout == SuperBlockSerialize(u, p)
           IN  /\ EndsInCrc(layout, 117 + u + p)
               /\ Magic(0) \in Fields(layout)
               /\ \A f \in Fields(layout) : f.name = "magic" => f.at = 0
               /\ \E f \in Fields(layout) : f.name = "uuid_len"
<1> DEFINE layout == SuperBlockSerialize(u, p)
           m == 17 + u + p
           ends == <<4, 5, 13, 15, 15 + u, 17 + u, m, m + 8, m + 16, m + 24, m + 28, m + 36,
                     m + 44, m + 52, m + 60, m + 68, m + 76, m + 84, m + 92, m + 100, m + 104>>
<1>1. /\ Len(layout) = 21
      /\ \A n \in 1 .. 21 : layout[n][1] = "crc" <=> n = 21
      /\ \A n \in 1 .. 21 : layout[n][1] = "magic" <=> n = 1
      /\ layout[4][1] = "uuid_len"
      /\ layout[1][2] = 4 /\ layout[21][2] = 4
  BY DEF SuperBlockSerialize, SuperBlockTail
<1>2. /\ ends[1] = layout[1][2] /\ ends[20] = 117 + u + p
      /\ \A n \in 1 .. 21 : layout[n][2] \in Nat
      /\ AreEnds(ends, layout, 21)
  BY DEF AreEnds, SuperBlockSerialize, SuperBlockTail
<1> HIDE DEF layout, ends
<1>3. Bytes(layout, 0) = 0 /\ Bytes(layout, 20) = 117 + u + p
  <2>1. \A n \in 1 .. 21 : Bytes(layout, n) = ends[n]
    BY <1>2, FieldEnds
  <2> QED BY <1>2, <2>1, BytesBack
<1>4. EndsInCrc(layout, 117 + u + p)
  BY <1>1, <1>2, <1>3 DEF EndsInCrc
<1>5. Magic(0) \in Fields(layout)
  <2>1. 1 \in 1 .. Len(layout)
    BY <1>1
  <2>2. Field(layout, 1) = Magic(0)
    BY <1>1, <1>3 DEF Field, Magic
  <2> QED BY <2>1, <2>2, FieldOf
<1>6. ASSUME NEW f \in Fields(layout), f.name = "magic" PROVE f.at = 0
  <2>1. PICK n \in 1 .. 21 : f = Field(layout, n)
    BY <1>1, FieldIndex
  <2> QED BY <1>1, <1>3, <1>6, <2>1 DEF Field
<1>7. \E f \in Fields(layout) : f.name = "uuid_len"
  <2>1. 4 \in 1 .. Len(layout)
    BY <1>1
  <2>2. Field(layout, 4).name = "uuid_len"
    BY <1>1 DEF Field
  <2> QED BY <2>1, <2>2, FieldOf
<1> QED BY <1>4, <1>5, <1>6, <1>7 DEF layout

\* A payload and the footer, as bitmap and data blocks are written and read.
LEMMA FooterLayout ==
    LET layout == << <<"payload", payload_size>> >> \o BlockFooter
    IN  /\ EndsInCrc(layout, 4092)
        /\ Magic(4064) \in Fields(layout)
        /\ \A f \in Fields(layout) : f.name = "magic" => f.at = 4064
<1> DEFINE layout == << <<"payload", payload_size>> >> \o BlockFooter
           ends == <<4064, 4068, 4069, 4070, 4072, 4080, 4092, 4096>>
<1>1. /\ Len(layout) = 8
      /\ \A n \in 1 .. 8 : layout[n][1] = "crc" <=> n = 8
      /\ \A n \in 1 .. 8 : layout[n][1] = "magic" <=> n = 2
      /\ layout[2][2] = 4 /\ layout[8][2] = 4
  BY DEF BlockFooter
<1>2. /\ ends[1] = layout[1][2] /\ ends[1] = 4064 /\ ends[7] = 4092
      /\ \A n \in 1 .. 8 : layout[n][2] \in Nat
      /\ AreEnds(ends, layout, 8)
  BY DEF AreEnds, BlockFooter, payload_size
<1> HIDE DEF layout, ends
<1>3. Bytes(layout, 1) = 4064 /\ Bytes(layout, 7) = 4092
  <2>1. \A n \in 1 .. 8 : Bytes(layout, n) = ends[n]
    BY <1>2, FieldEnds
  <2> QED BY <1>2, <2>1
<1>4. EndsInCrc(layout, 4092)
  BY <1>1, <1>2, <1>3 DEF EndsInCrc
<1>5. Magic(4064) \in Fields(layout)
  <2>1. 2 \in 1 .. Len(layout)
    BY <1>1
  <2>2. Field(layout, 2) = Magic(4064)
    BY <1>1, <1>3 DEF Field, Magic
  <2> QED BY <2>1, <2>2, FieldOf
<1>6. ASSUME NEW f \in Fields(layout), f.name = "magic" PROVE f.at = 4064
  <2>1. PICK n \in 1 .. 8 : f = Field(layout, n)
    BY <1>1, FieldIndex
  <2> QED BY <1>1, <1>3, <1>6, <2>1 DEF Field
<1> QED BY <1>4, <1>5, <1>6 DEF layout

\* A journal block is written with its crc three bytes too late, reserved_ being
\* appended twice,
LEMMA JournalSerializeLayout ==
    /\ EndsInCrc(JournalBlockSerialize, 4095)
    /\ \A f \in Fields(JournalBlockSerialize) : f.name = "magic" => f.at = 4064
<1> DEFINE layout == JournalBlockSerialize
           ends == <<4064, 4068, 4069, 4070, 4072, 4080, 4088, 4089, 4092, 4095, 4099>>
<1>1. /\ Len(layout) = 11
      /\ \A n \in 1 .. 11 : layout[n][1] = "crc" <=> n = 11
      /\ \A n \in 1 .. 11 : layout[n][1] = "magic" <=> n = 2
      /\ layout[11][2] = 4
  BY DEF JournalBlockSerialize, JournalBlockFooter
<1>2. /\ ends[1] = layout[1][2] /\ ends[1] = 4064 /\ ends[10] = 4095
      /\ \A n \in 1 .. 11 : layout[n][2] \in Nat
      /\ AreEnds(ends, layout, 11)
  BY DEF AreEnds, JournalBlockSerialize, JournalBlockFooter, payload_size
<1> HIDE DEF layout, ends
<1>3. Bytes(layout, 1) = 4064 /\ Bytes(layout, 10) = 4095
  <2>1. \A n \in 1 .. 11 : Bytes(layout, n) = ends[n]
    BY <1>2, FieldEnds
  <2> QED BY <1>2, <2>1
<1>4. EndsInCrc(layout, 4095)
  BY <1>1, <1>2, <1>3 DEF EndsInCrc
<1>5. ASSUME NEW f \in Fields(layout), f.name = "magic" PROVE f.at = 4064
  <2>1. PICK n \in 1 .. 11 : f = Field(layout, n)
    BY <1>1, FieldIndex
  <2> QED BY <1>1, <1>3, <1>5, <2>1 DEF Field
<1> QED BY <1>4, <1>5 DEF layout

\* and read with its crc in the last four bytes.
LEMMA JournalDeserializeLayout ==
    /\ EndsInCrc(JournalBlockDeserialize, 4092)
    /\ Magic(4064) \in Fields(JournalBlockDeserialize)
<1> DEFINE layout == JournalBlockDeserialize
           ends == <<4064, 4068, 4069, 4070, 4072, 4080, 4088, 4089, 4092, 4096>>
<1>1. /\ Len(layout) = 10
      /\ \A n \in 1 .. 10 : layout[n][1] = "crc" <=> n = 10
      /\ layout[2][1] = "magic" /\ layout[2][2] = 4 /\ layout[10][2] = 4
  BY DEF JournalBlockDeserialize, JournalBlockFooter
<1>2. /\ ends[1] = layout[1][2] /\ ends[1] = 4064 /\ ends[9] = 4092
      /\ \A n \in 1 .. 10 : layout[n][2] \in Nat
      /\ AreEnds(ends, layout, 10)
  BY DEF AreEnds, JournalBlockDeserialize, JournalBlockFooter, payload_size
<1> HIDE DEF layout, ends
<1>3. Bytes(layout, 1) = 4064 /\ Bytes(layout, 9) = 4092
  <2>1. \A n \in 1 .. 10 : Bytes(layout, n) = ends[n]
    BY <1>2, FieldEnds
  <2> QED BY <1>2, <2>1
<1>4. EndsInCrc(layout, 4092)
  BY <1>1, <1>2, <1>3 DEF EndsInCrc
<1>5. Magic(4064) \in Fields(layout)
  <2>1. 2 \in 1 .. Len(layout)
    BY <1>1
  <2>2. Field(layout, 2) = Magic(4064)
    BY <1>1, <1>3 DEF Field, Magic
  <2> QED BY <2>1, <2>2, FieldOf
<1> QED BY <1>4, <1>5 DEF layout

\* An extent header is written with its footer in the last 32 bytes,
LEMMA HeaderSerializeLayout ==
    LET layout == ExtentHeaderSerialize
    IN  /\ EndsInCrc(layout, 4092)
        /\ Magic(0) \in Fields(layout)
        /\ \A f \in Fields(layout) : /\ f.name = "magic" => f.at \in {0, 4064}
                                     /\ f.name # "uuid_len"
<1> DEFINE layout == ExtentHeaderSerialize
           ends == <<4, 5, 6, 7, 8, 16, 24, 28, 32, 36, 37, 38, 39, 40, 44, 4064,
                     4068, 4069, 4070, 4072, 4080, 4092, 4096>>
<1>1. /\ Len(layout) = 23
      /\ \A n \in 1 .. 23 : layout[n][1] = "crc" <=> n = 23
      /\ \A n \in 1 .. 23 : layout[n][1] = "magic" <=> n \in {1, 17}
      /\ \A n \in 1 .. 23 : layout[n][1] # "uuid_len"
      /\ layout[1][2] = 4 /\ layout[23][2] = 4
  BY DEF ExtentHeaderSerialize, ExtentHeaderTail, BlockFooter
<1>2. /\ ends[1] = layout[1][2] /\ ends[16] = 4064 /\ ends[22] = 4092
      /\ \A n \in 1 .. 23 : layout[n][2] \in Nat
      /\ AreEnds(ends, layout, 23)
  BY DEF AreEnds, ExtentHeaderSerialize, ExtentHeaderTail, BlockFooter
<1> HIDE DEF layout, ends
<1>3. Bytes(layout, 0) = 0 /\ Bytes(layout, 16) = 4064 /\ Bytes(layout, 22) = 4092
  <2>1. \A n \in 1 .. 23 : Bytes(layout, n) = ends[n]
    BY <1>2, FieldEnds
  <2> QED BY <1>2, <2>1, BytesBack
<1>4. EndsInCrc(layout, 4092)
  BY <1>1, <1>2, <1>3 DEF EndsInCrc
<1>5. Magic(0) \in Fields(layout)
  <2>1. 1 \in 1 .. Len(layout)
    BY <1>1
  <2>2. Field(layout, 1) = Magic(0)
    BY <1>1, <1>3 DEF Field, Magic
  <2> QED BY <2>1, <2>2, FieldOf
<1>6. ASSUME NEW f \in Fields(layout)
      PROVE  (f.name = "magic" => f.at \in {0, 4064}) /\ f.name # "uuid_len"
  <2>1. PICK n \in 1 .. 23 : f = Field(layout, n)
    BY <1>1, FieldIndex
  <2>2. f.name = layout[n][1] /\ f.at = Bytes(layout, n - 1)
    BY <2>1 DEF Field
  <2> QED BY <1>1, <1>3, <2>2
<1> QED BY <1>4, <1>5, <1>6 DEF layout

\* and read one byte too early, code_shard_cnt_ not being read.
LEMMA HeaderDeserializeLayout ==
    /\ EndsInCrc(ExtentHeaderDeserialize, 4091)
    /\ Magic(4063) \in Fields(ExtentHeaderDeserialize)
<1> DEFINE layout == ExtentHeaderDeserialize
           ends == <<4, 5, 6, 7, 15, 23, 27, 31, 35, 36, 37, 38, 39, 43, 4063,
                     4067, 4068, 4069, 4071, 4079, 4091, 4095>>
<1>1. /\ Len(layout) = 22
      /\ \A n \in 1 .. 22 : layout[n][1] = "crc" <=> n = 22
      /\ layout[16][1] = "magic" /\ layout[16][2] = 4 /\ layout[22][2] = 4
  BY DEF ExtentHeaderDeserialize, ExtentHeaderTail, BlockFooter
<1>2. /\ ends[1] = layout[1][2] /\ ends[15] = 4063 /\ ends[21] = 4091
      /\ \A n \in 1 .. 22 : layout[n][2] \in Nat
      /\ AreEnds(ends, layout, 22)
  BY DEF AreEnds, ExtentHeaderDeserialize, ExtentHeaderTail, BlockFooter
<1> HIDE DEF layout, ends
<1>3. Bytes(layout, 15) = 4063 /\ Bytes(layout, 21) = 4091
  <2>1. \A n \in 1 .. 22 : Bytes(layout, n) = ends[n]
    BY <1>2, FieldEnds
  <2> QED BY <1>2, <2>1
<1>4. EndsInCrc(layout, 4091)
  BY <1>1, <1>2, <1>3 DEF EndsInCrc
<1>5. Magic(4063) \in Fields(layout)
  <2>1. 16 \in 1 .. Len(layout)
    BY <1>1
  <2>2. Field(layout, 16) = Magic(4063)
    BY <1>1, <1>3 DEF Field, Magic
  <2> QED BY <2>1, <2>2, FieldOf
<1> QED BY <1>4, <1>5 DEF layout

\* Where each kind of block has its crc, as it is written and as it is read.
WrittenCrcAt(img) ==
    CASE img.kind = "SuperBlock" -> 117 + img.uuid + img.path
      [] img.kind = "JournalBlock" -> 4095
      [] OTHER -> 4092

\* The same, as Deserialize reads it with the lengths it finds in the block.
ReadCrcAt(kind, uuid, path) ==
    CASE kind = "SuperBlock" -> 117 + uuid + path
      [] kind = "ExtentHeaderBlock" -> 4091
      [] OTHER -> 4092

\* Every kind of block is written with its crc there,
LEMMA SerializedCrc ==
    ASSUME NEW img, img.kind \in Kinds, img.uuid \in Nat, img.path \in Nat
    PROVE  EndsInCrc(SerializeLayout(img), WrittenCrcAt(img))
<1>1. CASE img.kind = "SuperBlock"
  BY <1>1, SuperLayout DEF SerializeLayout, WrittenCrcAt
<1>2. CASE img.kind = "BitMapBlock"
  BY <1>2, FooterLayout DEF SerializeLayout, WrittenCrcAt, BitMapBlockSerialize
<1>3. CASE img.kind = "DataBlock"
  BY <1>3, FooterLayout DEF SerializeLayout, WrittenCrcAt, DataBlockSerialize
<1>4. CASE img.kind = "JournalBlock"
  BY <1>4, JournalSerializeLayout DEF SerializeLayout, WrittenCrcAt
<1>5. CASE img.kind = "ExtentHeaderBlock"
  BY <1>5, HeaderSerializeLayout DEF SerializeLayout, WrittenCrcAt
<1> QED BY <1>1, <1>2, <1>3, <1>4, <1>5 DEF Kinds

\* and read there.
LEMMA DeserializedCrc ==
    ASSUME NEW kind \in Kinds, NEW uuid \in Nat, NEW path \in Nat
    PROVE  EndsInCrc(DeserializeLayout(kind, uuid, path), ReadCrcAt(kind, uuid, path))
<1>1. CASE kind = "SuperBlock"
  <2>1. SuperBlockDeserialize(uuid, path) = SuperBlockSerialize(uuid, path)
    BY DEF SuperBlockDeserialize, SuperBlockSerialize
  <2> QED BY <1>1, <2>1, SuperLayout DEF DeserializeLayout, ReadCrcAt
<1>2. CASE kind = "BitMapBlock"
  BY <1>2, FooterLayout DEF DeserializeLayout, ReadCrcAt, BitMapBlockDeserialize
<1>3. CASE kind = "DataBlock"
  BY <1>3, FooterLayout DEF DeserializeLayout, ReadCrcAt, DataBlockDeserialize
<1>4. CASE kind = "JournalBlock"
  BY <1>4, JournalDeserializeLayout DEF DeserializeLayout, ReadCrcAt
<1>5. CASE kind = "ExtentHeaderBlock"
  BY <1>5, HeaderDeserializeLayout DEF DeserializeLayout, ReadCrcAt
<1> QED BY <1>1, <1>2, <1>3, <1>4, <1>5 DEF Kinds

\* The size of what Serialize returns.  It is the block size but for a journal
\* block, three bytes longer, and a super block with very long names.
LEMMA SerializedSizes ==
    ASSUME NEW img, img.kind \in Kinds, img.uuid \in Nat, img.path \in Nat
    PROVE  SerializedSize(img) =
               CASE img.kind = "SuperBlock" ->
                        IF img.uuid + img.path <= 3975 THEN 4096 ELSE 121 + img.uuid + img.path
                 [] img.kind = "JournalBlock" -> 4099
                 [] OTHER -> 4096
<1> DEFINE layout == SerializeLayout(img)
           size == Bytes(layout, Len(layout))
<1>1. size = WrittenCrcAt(img) + 4
  BY SerializedCrc, CrcField
<1>2. SerializedSize(img) = IF img.kind = "SuperBlock" /\ size < 4096 THEN 4096 ELSE size
  BY DEF SerializedSize, k_block_size, payload_size, k_block_footer_size
<1> HIDE DEF size
<1> QED BY <1>1, <1>2 DEF WrittenCrcAt, Kinds

-----------------------------------------------------------------------------
(* What Deserialize accepts.                                               *)

\* Bytes lie in sectors in their order, and the bytes of a block in its sectors.
LEMMA SectorOrder ==
    /\ \A b, c \in Int : b <= c => Sector(b) <= Sector(c)
    /\ \A b \in Int : Sector(b) \in Int
    /\ \A b \in 0 .. k_block_size - 1 : Sector(b) \in Sectors
    /\ Sector(0) = 0 /\ 0 \in Sectors
<1>1. CASE sector_size = 512
  BY <1>1 DEF Sector, Sectors, k_block_size, payload_size, k_block_footer_size
<1>2. CASE sector_size = 1024
  BY <1>2 DEF Sector, Sectors, k_block_size, payload_size, k_block_footer_size
<1>3. CASE sector_size = 2048
  BY <1>3 DEF Sector, Sectors, k_block_size, payload_size, k_block_footer_size
<1>4. CASE sector_size = 4096
  BY <1>4 DEF Sector, Sectors, k_block_size, payload_size, k_block_footer_size
<1> QED BY <1>1, <1>2, <1>3, <1>4, SectorAssumption

\* When a block comes from one image up to some byte, each part of it in front does.
LEMMA FromImagePart ==
    ASSUME NEW img, NEW block, NEW rot \in SUBSET Int, NEW last \in Int,
           FromImage(img, block, rot, 0, last),
           NEW a \in Nat, NEW b \in Int, b <= last
    PROVE  FromImage(img, block, rot, a, b)
<1>1. Sector(0) <= Sector(a) /\ Sector(b) <= Sector(last)
  BY SectorOrder
<1>2. Sector(0) \in Int /\ Sector(a) \in Int /\ Sector(b) \in Int /\ Sector(last) \in Int
  BY SectorOrder
<1>3. \A s \in Sector(a) .. Sector(b) : s \in Sector(0) .. Sector(last)
  BY <1>1, <1>2
<1> QED BY <1>3 DEF FromImage

\* Then a field that begins there, and is read as one that some image has, is one
\* that this image has.
LEMMA ReadFromImage ==
    ASSUME NEW img, NEW block, NEW rot, NEW last \in Int,
           FromImage(img, block, rot, 0, last),
           NEW f, f.at \in Nat, f.at <= last, f.width \in Nat \ {0},
           NEW s \in Sectors, ReadsField(block[s], block, rot, f)
    PROVE  f \in Fields(SerializeLayout(img))
<1>1. /\ Sector(0) <= Sector(f.at) /\ Sector(f.at) <= Sector(last)
      /\ Sector(f.at) <= Sector(f.at + f.width - 1)
  BY SectorOrder
<1>2. Sector(0) \in Int /\ Sector(f.at) \in Int /\ Sector(last) \in Int /\ Sector(f.at + f.width - 1) \in Int
  BY SectorOrder
<1>3. Sector(f.at) \in Sector(0) .. Sector(last) /\ Sector(f.at) \in Sector(f.at) .. Sector(f.at + f.width - 1)
  BY <1>1, <1>2
<1>4. block[Sector(f.at)] = img /\ block[Sector(f.at)] = block[s]
  BY <1>3 DEF ReadsField, FromImage
<1> QED BY <1>4 DEF ReadsField

\* The blocks that pass all the tests of Deserialize: the magic comes from any
\* image, the lengths and all that is in front of the crc from the first one.
Accepts(kind, block, rot) ==
    LET img == block[0]
        fields == Fields(DeserializeLayout(kind, img.uuid, img.path))
        at == ReadCrcAt(kind, img.uuid, img.path)
    IN  /\ \A f \in fields : f.name = "magic" => \E s \in Sectors : ReadsField(block[s], block, rot, f)
        /\ \A f \in fields : f.name \in {"uuid_len", "path_len"} => ReadsField(img, block, rot, f)
        /\ Crc(at) \in Fields(SerializeLayout(img))
        /\ FromImage(img, block, rot, 0, at + 3)

\* Deserialize answers OK to these blocks and to no others, and to these nothing
\* else.
LEMMA DeserializeOutcome ==
    ASSUME NEW kind \in Kinds, NEW block, NEW rot, block[0].uuid \in Nat, block[0].path \in Nat
    PROVE  /\ OK \in Deserialize(kind, block, rot) => Accepts(kind, block, rot)
           /\ Accepts(kind, block, rot) => Deserialize(kind, block, rot) = {OK}
<1> DEFINE img == block[0]
           fields == Fields(DeserializeLayout(kind, img.uuid, img.path))
           at == ReadCrcAt(kind, img.uuid, img.path)
           crc == CHOOSE f \in fields : f.name = "crc"
           Named(names) == {f \in fields : f.name \in names}
           IsMagic(f) == \E s \in Sectors : ReadsField(block[s], block, rot, f)
<1>1. Crc(at) \in fields /\ \A f \in fields : f.name = "crc" => f = Crc(at)
  BY DeserializedCrc, CrcField
<1>2. Crc(at).name = "crc" /\ Crc(at).at = at
  BY DEF Crc
<1>3. crc = Crc(at)
  <2> HIDE DEF fields, at
  <2> QED BY <1>1, <1>2
<1>4. Deserialize(kind, block, rot) =
          IF \E f \in Named({"magic"}) : ~IsMagic(f) THEN {MagicIllegal}
          ELSE IF \E f \in Named({"uuid_len", "path_len"}) : ~ReadsField(img, block, rot, f)
               THEN {DataIllegal, CrcMismatch}
          ELSE IF crc \in Fields(SerializeLayout(img))
                  /\ FromImage(img, block, rot, 0, crc.at + 3) THEN {OK}
          ELSE {CrcMismatch}
  BY DEF Deserialize
<1>5. Accepts(kind, block, rot) <=>
          /\ \A f \in fields : f.name = "magic" => IsMagic(f)
          /\ \A f \in fields : f.name \in {"uuid_len", "path_len"} => ReadsField(img, block, rot, f)
          /\ crc \in Fields(SerializeLayout(img))
          /\ FromImage(img, block, rot, 0, crc.at + 3)
  <2>1. crc.at = at
    BY <1>2, <1>3
  <2> HIDE DEF crc
  <2> QED BY <1>3, <2>1 DEF Accepts
<1> HIDE DEF img, fields, at, crc, IsMagic
<1>6. OK \notin {MagicIllegal} /\ OK \notin {DataIllegal, CrcMismatch} /\ OK \notin {CrcMismatch}
  BY DEF OK, MagicIllegal, DataIllegal, CrcMismatch
<1> QED BY <1>4, <1>5, <1>6

\* What a sector of the device comes from.
IsImage(img) ==
    /\ img.kind \in Kinds \cup {"Raw"}
    /\ img.uuid \in Nat
    /\ img.path \in Nat

\* What is accepted comes from the one image in its first sector, all the fields that
\* are decoded included; and as which kind an image can be accepted.  A magic is
\* looked for where the kind that is read has it, and the crc has to be there too.
LEMMA AcceptedImage ==
    ASSUME NEW kind \in Kinds, NEW block, NEW rot \in SUBSET Int,
           IsImage(block[0]), OK \in Deserialize(kind, block, rot)
    PROVE  LET img == block[0]
           IN  /\ \/ kind = img.kind /\ kind \in {"SuperBlock", "BitMapBlock", "DataBlock"}
                  \/ /\ kind \in {"BitMapBlock", "DataBlock", "JournalBlock"}
                     /\ img.kind \in {"BitMapBlock", "DataBlock", "ExtentHeaderBlock"}
               /\ \A f \in Fields(DeserializeLayout(kind, img.uuid, img.path)) :
                    FromImage(img, block, rot, f.at, f.at + f.width - 1)
<1> DEFINE img == block[0]
           read == Fields(DeserializeLayout(kind, img.uuid, img.path))
           written == Fields(SerializeLayout(img))
           at == ReadCrcAt(kind, img.uuid, img.path)
<1>1. /\ img.kind \in Kinds \cup {"Raw"} /\ img.uuid \in Nat /\ img.path \in Nat
  BY DEF IsImage
<1>2. /\ \A f \in read : f.name = "magic" => \E s \in Sectors : ReadsField(block[s], block, rot, f)
      /\ \A f \in read : f.name \in {"uuid_len", "path_len"} => ReadsField(img, block, rot, f)
      /\ Crc(at) \in written
      /\ FromImage(img, block, rot, 0, at + 3)
  BY <1>1, DeserializeOutcome DEF Accepts
<1>3. /\ at \in Nat
      /\ \A f \in read : f.at \in Nat /\ f.width \in Nat /\ f.at + f.width <= at + 4
  BY <1>1, DeserializedCrc, CrcField
<1>4. img.kind \in Kinds
  <2>1. ASSUME img.kind = "Raw" PROVE FALSE
    <3>1. written = {}
      BY <2>1 DEF SerializeLayout, Fields
    <3> QED BY <1>2, <3>1
  <2> QED BY <1>1, <2>1
<1>5. at = WrittenCrcAt(img)
  <2>1. Crc(at).name = "crc" /\ Crc(at).at = at /\ Crc(WrittenCrcAt(img)).at = WrittenCrcAt(img)
    BY DEF Crc
  <2>2. \A f \in written : f.name = "crc" => f = Crc(WrittenCrcAt(img))
    BY <1>1, <1>4, SerializedCrc, CrcField
  <2> QED BY <1>2, <2>1, <2>2
<1> HIDE DEF at
<1>6. \A f \in read : FromImage(img, block, rot, f.at, f.at + f.width - 1)
  <2> TAKE f \in read
  <2>1. f.at \in Nat /\ f.at + f.width - 1 \in Int /\ f.at + f.width - 1 <= at + 3 /\ at + 3 \in Int
    BY <1>3
  <2> QED BY <1>2, <2>1, FromImagePart
<1>7. \A offset \in Nat : Magic(offset) \in read => Magic(offset) \in written
  <2> SUFFICES ASSUME NEW offset \in Nat, Magic(offset) \in read PROVE Magic(offset) \in written
    OBVIOUS
  <2> DEFINE f == Magic(offset)
  <2>1. f.name = "magic" /\ f.at = offset /\ f.width = 4
    BY DEF Magic
  <2>2. PICK s \in Sectors : ReadsField(block[s], block, rot, f)
    BY <1>2, <2>1
  <2> HIDE DEF f
  <2>3. f.at \in Nat /\ f.width \in Nat \ {0} /\ f.at <= at + 3 /\ at + 3 \in Int
    <3>1. f \in read
      BY DEF f
    <3> QED BY <1>3, <2>1, <3>1
  <2>4. f \in written
    BY <1>2, <2>2, <2>3, ReadFromImage
  <2> QED BY <2>4 DEF f
<1>8. \A offset : Magic(offset).name = "magic" /\ Magic(offset).at = offset
  BY DEF Magic
<1>9. CASE kind = "SuperBlock"
  <2>1. read = Fields(SuperBlockSerialize(img.uuid, img.path))
    BY <1>9 DEF DeserializeLayout, SuperBlockDeserialize, SuperBlockSerialize
  <2>2. Magic(0) \in written
    BY <1>1, <1>7, <2>1, SuperLayout
  <2>3. ASSUME img.kind \in {"BitMapBlock", "DataBlock"} PROVE FALSE
    <3>1. \A f \in written : f.name = "magic" => f.at = 4064
      BY <2>3, FooterLayout DEF SerializeLayout, BitMapBlockSerialize, DataBlockSerialize
    <3> QED BY <1>8, <2>2, <3>1
  <2>4. ASSUME img.kind = "JournalBlock" PROVE FALSE
    <3>1. \A f \in written : f.name = "magic" => f.at = 4064
      BY <2>4, JournalSerializeLayout DEF SerializeLayout
    <3> QED BY <1>8, <2>2, <3>1
  <2>5. ASSUME img.kind = "ExtentHeaderBlock" PROVE FALSE
    <3>1. \A f \in written : f.name # "uuid_len"
      BY <2>5, HeaderSerializeLayout DEF SerializeLayout
    <3>2. PICK f \in read : f.name = "uuid_len"
      BY <1>1, <2>1, SuperLayout
    <3> QED BY <1>2, <3>1, <3>2 DEF ReadsField
  <2>6. kind = img.kind
    BY <1>4, <1>9, <2>3, <2>4, <2>5 DEF Kinds
  <2> QED BY <1>6, <1>9, <2>6
<1>10. CASE kind = "ExtentHeaderBlock"
  <2>1. Magic(4063) \in written /\ at = 4091
    BY <1>7, <1>10, HeaderDeserializeLayout DEF DeserializeLayout, at, ReadCrcAt
  <2>2. img.kind = "SuperBlock"
    BY <1>4, <1>5, <2>1 DEF WrittenCrcAt, Kinds
  <2>3. \A f \in written : f.name = "magic" => f.at = 0
    BY <1>1, <2>2, SuperLayout DEF SerializeLayout
  <2> QED BY <1>8, <2>1, <2>3
<1>11. CASE kind \in {"BitMapBlock", "DataBlock", "JournalBlock"}
  <2>1. Magic(4064) \in written
    BY <1>7, <1>11, FooterLayout, JournalDeserializeLayout
        DEF DeserializeLayout, BitMapBlockDeserialize, DataBlockDeserialize
  <2>2. at = 4092
    BY <1>11 DEF at, ReadCrcAt
  <2>3. img.kind # "JournalBlock"
    BY <1>5, <2>2 DEF WrittenCrcAt
  <2>4. ASSUME img.kind = "SuperBlock" PROVE FALSE
    <3>1. \A f \in written : f.name = "magic" => f.at = 0
      BY <1>1, <2>4, SuperLayout DEF SerializeLayout
    <3> QED BY <1>8, <2>1, <3>1
  <2>5. img.kind \in {"BitMapBlock", "DataBlock", "ExtentHeaderBlock"}
    BY <1>4, <2>3, <2>4 DEF Kinds
  <2> QED BY <1>6, <1>11, <2>5
<1> QED BY <1>9, <1>10, <1>11 DEF Kinds

\* A block written from one image and not damaged is that image at every place.
LEMMA WholeIsImage ==
    ASSUME NEW img, NEW a \in Nat, NEW b \in Int, b <= k_block_size - 1
    PROVE  FromImage(img, Whole(img), {}, a, b)
<1> DEFINE last == k_block_size - 1
<1>1. last \in 0 .. k_block_size - 1 /\ last \in Int
  BY DEF k_block_size, payload_size, k_block_footer_size
<1>2. /\ Sector(0) <= Sector(a) /\ Sector(b) <= Sector(last)
      /\ Sector(a) \in Int /\ Sector(b) \in Int /\ Sector(last) \in Int
      /\ Sector(0) = 0 /\ Sector(last) \in Sectors
  BY <1>1, SectorOrder
<1>3. k_block_size \div sector_size \in Int
  BY SectorAssumption DEF k_block_size, payload_size, k_block_footer_size
<1>4. \A s \in Sector(a) .. Sector(b) : s \in Sectors
  BY <1>2, <1>3 DEF Sectors
<1> QED BY <1>4 DEF FromImage, Whole

\* Serialize and Deserialize of the super, bitmap and data block agree: what one of
\* them wrote as a whole is accepted, if it has the size of a block.
LEMMA WholeIsAccepted ==
    ASSUME NEW img, img.kind \in {"SuperBlock", "BitMapBlock", "DataBlock"},
           img.uuid \in Nat, img.path \in Nat, SerializedSize(img) = k_block_size
    PROVE  Deserialize(img.kind, Whole(img), {}) = {OK}
<1> DEFINE kind == img.kind
           block == Whole(img)
           at == ReadCrcAt(kind, img.uuid, img.path)
           fields == Fields(SerializeLayout(img))
<1>1. 0 \in Sectors /\ block[0] = img /\ kind \in Kinds
  BY SectorOrder DEF Whole, Kinds
<1>2. Fields(DeserializeLayout(kind, img.uuid, img.path)) = fields
  BY DEF DeserializeLayout, SerializeLayout, SuperBlockSerialize, SuperBlockDeserialize,
         BitMapBlockSerialize, BitMapBlockDeserialize, DataBlockSerialize, DataBlockDeserialize
<1>3. /\ at \in Nat /\ Crc(at) \in fields
      /\ \A f \in fields : f.at \in Nat /\ f.width \in Nat /\ f.at + f.width <= at + 4
  BY <1>1, <1>2, DeserializedCrc, CrcField
<1>4. at + 4 <= k_block_size /\ k_block_size \in Nat
  BY <1>1, SerializedSizes DEF ReadCrcAt, k_block_size, payload_size, k_block_footer_size
<1> HIDE DEF at, fields
<1>5. \A f \in fields : ReadsField(img, block, {}, f)
  <2> TAKE f \in fields
  <2>1. f.at \in Nat /\ f.at + f.width - 1 \in Int /\ f.at + f.width - 1 <= k_block_size - 1
    BY <1>3, <1>4
  <2> QED BY <2>1, WholeIsImage DEF ReadsField, fields
<1>6. FromImage(img, block, {}, 0, at + 3)
  BY <1>3, <1>4, WholeIsImage
<1>7. Accepts(kind, block, {})
  <2> HIDE DEF block, kind
  <2> QED BY <1>1, <1>2, <1>3, <1>5, <1>6 DEF Accepts, at, fields
<1> QED BY <1>1, <1>7, DeserializeOutcome

\* ExtentHeaderBlock::Deserialize accepts no block whatever, torn, damaged or whole:
\* it looks for the magic of the footer at byte 4063, where no Serialize puts one.
THEOREM HeaderIsNeverAccepted ==
    ASSUME NEW block, NEW rot \in SUBSET Int, IsImage(block[0])
    PROVE  OK \notin Deserialize("ExtentHeaderBlock", block, rot)
<1>1. "ExtentHeaderBlock" \in Kinds
  BY DEF Kinds
<1> QED BY <1>1, AcceptedImage

\* What DelExtent gets when it reads a header that AddExtent wrote: the magic is
\* illegal, on a device with sectors of any size.
THEOREM OwnHeaderIsRejected == OwnHeaderOutcome = {MagicIllegal}
<1> DEFINE img == Image("ExtentHeaderBlock", 0, 0, 1)
           block == Whole(img)
           f == Magic(4063)
<1>1. \A s \in Sectors : block[s] = img
  BY DEF Whole
<1>2. SerializeLayout(img) = ExtentHeaderSerialize
  BY DEF SerializeLayout, Image
<1>3. f.name = "magic" /\ f.at = 4063
  BY DEF Magic
<1> HIDE DEF f
<1>4. f \notin Fields(SerializeLayout(img))
  BY <1>2, <1>3, HeaderSerializeLayout
<1>5. \A s \in Sectors : ~ReadsField(block[s], block, {}, f)
  BY <1>1, <1>4 DEF ReadsField
<1>6. f \in Fields(DeserializeLayout("ExtentHeaderBlock", block[0].uuid, block[0].path))
  BY HeaderDeserializeLayout DEF DeserializeLayout, f
<1> QED BY <1>3, <1>5, <1>6 DEF OwnHeaderOutcome, Deserialize
=============================================================================
