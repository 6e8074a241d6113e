-------------------------------- MODULE MCFat --------------------------------
(***************************************************************************)
(* Two disks of sectors of four bytes, entries of two, names of two        *)
(* characters and one.  Disk 1 has a FAT12 volume with clusters of two     *)
(* sectors and, behind it, a FAT32 volume with clusters of one and a       *)
(* directory without a last entry; disk 2 a FAT16 volume whose clusters    *)
(* are larger than the disk buffer, with a hidden file, and, behind an     *)
(* unused entry of its partition table, another that is not mounted; disk  *)
(* 3 a partition without the signature and a FAT16 volume whose root area  *)
(* has two clusters and entries in both.  Files and directories have       *)
(* several clusters, out of order.                                         *)
(***************************************************************************)
EXTENDS Fat, TLC

\* Names, as the disk has them and as a person writes them.
A == <<"A", " ", "X">>      AX  == <<"A", ".", "X">>
B == <<"B", " ", " ">>      BN  == <<"B">>        BX == <<"B", ".", "X">>
P == <<"P", " ", "B">>      PB  == <<"P", ".", "B">>
F == <<"F", "F", "X">>      FFX == <<"F", "F", ".", "X">>
Dot == <<".", " ", " ">>    DotDot == <<".", ".", " ">>

Slot0(mark, name, attr, first, size) ==
    <<[mark |-> mark, name |-> name, attr |-> attr, first |-> first, size |-> size], 0>>
Live(name, attr, first, size) == Slot0("live", name, attr, first, size)
Deleted  == Slot0("free", A, {}, 2, 3)
LongName == Slot0("live", A, {"ro", "hid", "sys", "vol"}, 0, 0)
Final    == Slot0("last", Dot, {}, 0, 0)
Data(f, n) == [k \in 1 .. n |-> 100 * f + k]
Part(f, from, n) == [k \in 1 .. n |-> 100 * f + from + k]
Zeros(n) == [k \in 1 .. n |-> 0]

\* A volume as a formatter writes it: boot sector, FATs, root area, clusters.
Next0(v, i) == IF i \in DOMAIN v.next THEN v.next[i] ELSE 0
Byte12(e, o, r) == CASE r = 0 -> e % 256
                     [] r = 1 -> (e \div 256) + (o % 16) * 16
                     [] r = 2 -> o \div 16
Byte32(e, r) == CASE r = 0 -> e % 256
                  [] r = 1 -> (e \div 256) % 256
                  [] r = 2 -> (e \div 65536) % 256
                  [] r = 3 -> (e \div 16777216) + 160
FatByte(v, k) ==
    CASE v.kind = "FAT12" ->
           Byte12(Next0(v, 2 * (k \div 3)), Next0(v, 2 * (k \div 3) + 1), k % 3)
      [] v.kind = "FAT16" ->
           IF k % 2 = 0 THEN Next0(v, k \div 2) % 256 ELSE Next0(v, k \div 2) \div 256
      [] v.kind = "FAT32" -> Byte32(Next0(v, k \div 4), k % 4)
Boot(v) == <<[fs_type |-> v.kind, boot_sig |-> 41, rsvd_sector_count |-> v.rsvd, fat_size |-> v.fat_size,
              num_fats |-> v.fats, root_ent_count |-> Len(v.root) \div 2,
              sectors_per_cluster |-> v.spc, root_cluster |-> v.root_cluster]>>
Format(v) ==
    LET fat == [k \in 1 .. v.fat_size * SectorSize |-> FatByte(v, k - 1)]
    IN  Boot(v) \o Zeros(v.rsvd * SectorSize - 1)
          \o (IF v.fats = 2 THEN fat \o fat ELSE fat) \o v.root \o v.data

Dir == [dir |-> TRUE, attr |-> {}, data |-> <<>>]
Reg(data) == [dir |-> FALSE, attr |-> {}, data |-> data]
Flagged(a, data) == [dir |-> FALSE, attr |-> {a}, data |-> data]

\* The clusters of V12 are 2 to 7; A.X lies in 2, 5, 3, the directory B in 4, 6.
V12 == [kind |-> "FAT12", rsvd |-> 1, fats |-> 1, fat_size |-> 3, spc |-> 2, root_cluster |-> 0,
        root |-> Live(A, {}, 2, 19) \o Deleted \o Live(B, {"dir"}, 4, 0) \o Final,
        next |-> 2 :> 5 @@ 5 :> 3 @@ 3 :> 4095 @@ 4 :> 6 @@ 6 :> 4088 @@ 7 :> 4095,
        data |-> Part(1, 0, 8) \o (Part(1, 16, 3) \o Zeros(5))
                  \o (Live(Dot, {"dir"}, 4, 0) \o Live(DotDot, {"dir"}, 0, 0) \o LongName \o Deleted)
                  \o Part(1, 8, 8)
                  \o (Live(P, {}, 7, 8) \o Live(F, {}, 0, 0) \o Final \o Final)
                  \o Part(2, 0, 8)]
T12 == <<>> :> Dir @@ <<AX>> :> Reg(Data(1, 19)) @@ <<BN>> :> Dir
         @@ <<BN, PB>> :> Reg(Data(2, 8)) @@ <<BN, FFX>> :> Reg(<<>>)

\* Clusters 2 to 7 of one sector; the root lies in 3, 2, 6, A.X in 5, 4; B is full.
V32 == [kind |-> "FAT32", rsvd |-> 1, fats |-> 2, fat_size |-> 8, spc |-> 1, root_cluster |-> 3,
        root |-> <<>>,
        next |-> 3 :> 2 @@ 2 :> 6 @@ 6 :> 268435448 @@ 5 :> 4 @@ 4 :> 268435455 @@ 7 :> 268435455,
        data |-> (Deleted \o Live(A, {}, 5, 5)) \o (Live(B, {"vol"}, 0, 0) \o LongName)
                  \o (Part(3, 4, 1) \o Zeros(3)) \o Part(3, 0, 4)
                  \o (Live(B, {"dir"}, 7, 0) \o Final)
                  \o (Live(Dot, {"dir"}, 7, 0) \o Live(DotDot, {"dir"}, 0, 0))]
T32 == <<>> :> Dir @@ <<AX>> :> Reg(Data(3, 5)) @@ <<BN>> :> Dir

\* Clusters 2 to 4 of four sectors; P.B is hidden.
V16 == [kind |-> "FAT16", rsvd |-> 1, fats |-> 1, fat_size |-> 3, spc |-> 4, root_cluster |-> 0,
        root |-> Live(A, {}, 2, 20) \o Live(P, {"hid"}, 3, 2) \o Live(B, {"arc"}, 0, 0) \o Final
                  \o Final \o Final \o Final \o Final,
        next |-> 2 :> 4 @@ 4 :> 65535 @@ 3 :> 65528,
        data |-> Part(4, 0, 16) \o (Part(5, 0, 2) \o Zeros(14)) \o (Part(4, 16, 4) \o Zeros(12))]
T16 == <<>> :> Dir @@ <<AX>> :> Reg(Data(4, 20)) @@ <<PB>> :> Flagged("hid", Data(5, 2))
         @@ <<BN>> :> Reg(<<>>)

\* As V16, with a read-only program, and P.B behind the first cluster of the root.
VLong == [V16 EXCEPT !.root =
            Live(A, {}, 2, 16) \o Live(F, {"ro"}, 3, 2) \o Live(B, {"dir"}, 4, 0) \o Deleted
              \o Deleted \o LongName \o Deleted \o Deleted
              \o Live(P, {}, 3, 2) \o Final \o Final \o Final \o Final \o Final \o Final \o Final,
            !.next = 2 :> 65535 @@ 3 :> 65528 @@ 4 :> 65535,
            !.data = Part(6, 0, 16) \o (Part(7, 0, 2) \o Zeros(14))
                       \o (Live(Dot, {"dir"}, 4, 0) \o Live(DotDot, {"dir"}, 0, 0)
                            \o Live(F, {}, 3, 2) \o Final \o Final \o Final \o Final \o Final)]
TLong == <<>> :> Dir @@ <<AX>> :> Reg(Data(6, 16)) @@ <<FFX>> :> Flagged("ro", Data(7, 2))
           @@ <<BN>> :> Dir @@ <<BN, FFX>> :> Reg(Data(7, 2)) @@ <<PB>> :> Reg(Data(7, 2))

Boot0(type, sig) == <<[fs_type |-> type, boot_sig |-> sig]>> \o Zeros(11)

Entry0(used, first, last) == [used |-> used, first |-> first, last |-> last]

MCDisks ==
    <<[bytes |-> (Zeros(8) \o Format(V12) \o Format(V32)),
       gpt   |-> <<Entry0(TRUE, 2, 19), Entry0(TRUE, 20, 42)>>,
       trees |-> <<T12, T32>>],
      [bytes |-> (Zeros(4) \o Boot0("other", 41) \o Format(V16) \o Format(V12)),
       gpt   |-> <<Entry0(TRUE, 1, 3), Entry0(TRUE, 4, 23), Entry0(FALSE, 0, 0), Entry0(TRUE, 24, 41)>>,
       trees |-> <<T16>>],
      [bytes |-> (Zeros(4) \o Boot0("FAT16", 0) \o Format(VLong)),
       gpt   |-> <<Entry0(TRUE, 1, 3), Entry0(TRUE, 4, 27)>>,
       trees |-> <<TLong>>]>>

\* For the runs that look for what an enumeration leaves out.
MCFull == SubSeq(MCDisks, 1, 1)
MCFlagged == SubSeq(MCDisks, 2, 2)
MCLongRoot == SubSeq(MCDisks, 3, 3)

MCPaths == {<<>>, <<AX>>, <<BN>>, <<PB>>, <<BX>>, <<AX, BN>>, <<BN, <<>>>>, <<BN, PB>>,
            <<BN, <<>>, PB>>, <<BN, <<".">>, PB>>, <<BN, FFX>>, <<BN, <<".", ".">>, AX>>}
MCBox == <<"X">>
MCModes == {{"r"}, {"r", "x"}, {"w"}}
MCSegments == {[off |-> 0, filesz |-> 5, memsz |-> 7], [off |-> 3, filesz |-> 9, memsz |-> 9],
               [off |-> 2, filesz |-> 30, memsz |-> 30]}
=============================================================================
