-------------------------------- MODULE Fat --------------------------------
(***************************************************************************)
(* Files on disk, from the partition table to the bytes a program gets:    *)
(* fs/gpt.rs, fs/fat/mod.rs, File::seek and read of fs/mod.rs, the read    *)
(* loop of rtlib's File and the one that loads a segment of a program.     *)
(* The disk is a sequence of bytes: of numbers in a FAT, of data in a      *)
(* file; a directory entry or a boot sector is the value at its first      *)
(* byte.  Descriptors and handles are Files.tla's, the disk's own path is  *)
(* Storage.tla's: a task has its file for itself here, and the disk does   *)
(* not change, for the driver cannot write.                                *)
(***************************************************************************)
EXTENDS Integers, SequencesExt

CONSTANTS
    Disks,          \* bound: the disks, see MCFat.tla
    SectorSize,
    DirEntrySize,   \* 32 bytes
    CACHE_SIZE,     \* of a BufferedDiskIO: 4096 bytes
    Body, Ext,      \* characters of a short name before and after the dot: 8, 3
    Box,            \* the extension of a program's name: "BOX"
    Chunk,          \* load_segment reads 512 bytes at a time
    Paths, Modes,   \* bound: what is opened, and how
    Buffers,        \* bound: sizes of a program's buffers
    Moves,          \* bound: where a program seeks to
    Segments,       \* bound: segments [off, filesz, memsz] of a program
    None

ASSUME FatAssumption ==
    /\ {SectorSize, DirEntrySize, CACHE_SIZE, Body, Ext, Chunk} \subseteq Nat \ {0}
    /\ Buffers \subseteq Nat \ {0} /\ Moves \subseteq Nat
    /\ Len(Box) = Ext

VARIABLES
    disk,       \* one of Disks: its bytes, its partition table, what is on it
    vols,       \* the mounted volumes, FAT_VOLUMES by part_index
    file,       \* what open answered: [vol, path, mode, res], res a FATFile or an error
    rd_offset,  \* of rtlib's File
    call,       \* the read or load in progress, or how the last one ended
    got,        \* the bytes it has put into its buffer
    listed      \* what the last enumeration answered

vars == <<disk, vols, file, rd_offset, call, got, listed>>

Disk(a) == disk.bytes[a + 1]

Init == /\ \E i \in DOMAIN Disks : disk = Disks[i]
        /\ vols = <<>> /\ file = None /\ rd_offset = 0
        /\ call = None /\ got = <<>> /\ listed = None

-----------------------------------------------------------------------------
(* Mounting                                                                *)

Ok(x)  == [ok |-> TRUE, val |-> x]
Err(e) == [ok |-> FALSE, val |-> e]

\* A volume's geometry, from its boot sector; FAT32 has no root area.
Mounted(first) ==
    LET bs == Disk(first * SectorSize)
        fat_start == bs.rsvd_sector_count
        fat_sectors == bs.fat_size * bs.num_fats
        root_start == fat_start + fat_sectors
        root_sectors == (DirEntrySize * bs.root_ent_count + SectorSize - 1) \div SectorSize
    IN  [kind |-> bs.fs_type, first_lba |-> first,
         cluster_size |-> bs.sectors_per_cluster * SectorSize,
         fat_start |-> fat_start, root_start |-> root_start,
         root_size |-> root_sectors * SectorSize,
         root_cluster |-> IF bs.fs_type = "FAT32" THEN bs.root_cluster ELSE 0,
         data_start |-> root_start + root_sectors]

\* The name disk{d}.{p} of a mount point is this partition's only, so that the
\* panic for a name that is taken cannot happen.
Mountable(part) ==
    LET bs == Disk(part.first * SectorSize)
    IN  /\ part.last - part.first > 2
        /\ bs.fs_type \in {"FAT12", "FAT16", "FAT32"}
        /\ bs.boot_sig = 41

\* The loop over the partition table stays at an unused entry once it meets one.
Partitions ==
    LET gpt == disk.gpt
        unused == {i \in DOMAIN gpt : ~gpt[i].used}
    IN  SubSeq(gpt, 1, IF unused = {} THEN Len(gpt) ELSE Min(unused) - 1)

Mount == /\ vols = <<>>
         /\ LET parts == SelectSeq(Partitions, Mountable)
            IN  vols' = [i \in DOMAIN parts |-> Mounted(parts[i].first)]
         /\ UNCHANGED <<disk, file, rd_offset, call, got, listed>>

-----------------------------------------------------------------------------
(* Clusters                                                                *)

\* load_fat_entry: entries of twelve bits lie in one byte and a half, across
\* sectors, those of FAT32 use 28 of their bits.
FatEntry(v, i) ==
    LET base == (v.first_lba + v.fat_start) * SectorSize
        b(k) == Disk(base + k)
    IN  CASE v.kind = "FAT12" ->
               IF i % 2 = 0
               THEN b(i + i \div 2) + (b(i + i \div 2 + 1) % 16) * 256
               ELSE b(i + i \div 2) \div 16 + b(i + i \div 2 + 1) * 16
          [] v.kind = "FAT16" -> b(2 * i) + b(2 * i + 1) * 256
          [] v.kind = "FAT32" -> b(4 * i) + b(4 * i + 1) * 256 + b(4 * i + 2) * 65536
                                   + (b(4 * i + 3) % 16) * 16777216

\* fat_entry_from_value: whatever is no link ends the chain.
Links(v) == CASE v.kind = "FAT12" -> 2 .. 4086
              [] v.kind = "FAT16" -> 2 .. 65526
              [] v.kind = "FAT32" -> 2 .. 268435446

RECURSIVE Chain(_, _)
Chain(v, c) ==
    LET next == FatEntry(v, c)
    IN  <<c>> \o (IF next \in Links(v) THEN Chain(v, next) ELSE <<>>)

\* A FATFile; cluster 0 stands for the root area of FAT12 and FAT16.
FromDirEntry(v, dir) ==
    [dir |-> dir, list |-> IF dir.first = 0 THEN <<>> ELSE Chain(v, dir.first)]

FromRoot(v) ==
    FromDirEntry(v, [mark |-> "live", name |-> <<>>, attr |-> {"dir"},
                     first |-> v.root_cluster, size |-> 0])

IsDirectory(f) == "dir" \in f.dir.attr
IsWritable(f) == "ro" \notin f.dir.attr
IsExecutable(f) == ~IsDirectory(f) /\ IsSuffix(Box, f.dir.name)

Capacity(v, f) == IF f.dir.first = 0 THEN v.root_size ELSE Len(f.list) * v.cluster_size

\* The bytes of a file at an offset, from one cluster; the root area is taken
\* for one cluster.  A BufferedDiskIO serves no more than it holds.
Bytes(v, f, off, len) ==
    LET sector == IF f.dir.first = 0 THEN v.root_start
                  ELSE v.data_start + (f.list[off \div v.cluster_size + 1] - 2)
                                        * (v.cluster_size \div SectorSize)
        addr == (v.first_lba + sector) * SectorSize + (off % v.cluster_size)
    IN  IF len > CACHE_SIZE - (addr % SectorSize) THEN Err("NotIssued")
        ELSE Ok([k \in 1 .. len |-> Disk(addr + k - 1)])

ToEof(f, off, n) == IF ~IsDirectory(f) /\ off + n > f.dir.size THEN f.dir.size - off ELSE n

\* Broken variant: a read goes on behind its cluster.
ReadIntAcross(v, f, off, n) ==
    IF off >= Capacity(v, f) THEN Err("OutOfBoundIO") ELSE Bytes(v, f, off, ToEof(f, off, n))

\* read_int: at most to the end of the file and of the cluster.
ReadInt(v, f, off, n) ==
    IF off >= Capacity(v, f) THEN Err("OutOfBoundIO")
    ELSE Bytes(v, f, off, Min({ToEof(f, off, n), v.cluster_size - (off % v.cluster_size)}))

-----------------------------------------------------------------------------
(* Directories                                                             *)

\* sfn_match: j is the next character of the name asked for, 0 after a mismatch.
Matches(name, sfn) ==
    LET Next1(j, i) ==
          LET dst == IF j > Len(sfn) THEN " " ELSE sfn[j]
          IN  CASE j = 0 -> 0
                [] j # 0 /\ name[i] = dst -> j + 1
                [] j # 0 /\ name[i] # dst ->
                     IF ~(name[i] = " " /\ dst = ".") THEN 0
                     ELSE IF i < Body + Ext /\ name[i + 1] # " " THEN j + 1 ELSE j
    IN  FoldLeft(Next1, 1, [i \in 1 .. Body + Ext |-> i]) # 0

Slot(v, f, k) == ReadInt(v, f, k * DirEntrySize, DirEntrySize)

\* The slots before the last entry, and whether there is one: a scan that gets
\* to the end of the directory's clusters ends with read_int's error.
End(v, f) ==
    Min({k \in 0 .. Capacity(v, f) \div DirEntrySize :
           ~Slot(v, f, k).ok \/ Slot(v, f, k).val[1].mark = "last"})

Terminated(v, f) == Slot(v, f, End(v, f)).ok

\* Broken variant: the entries of deleted files count.
EntriesDeleted(v, f) ==
    LET all == [k \in 1 .. End(v, f) |-> Slot(v, f, k - 1).val[1]]
    IN  SelectSeq(all, LAMBDA e : e.attr \cap {"ro", "hid", "sys", "vol"} = {})

\* An entry with one of the four attributes of a long name is passed over.
Entries(v, f) ==
    LET all == [k \in 1 .. End(v, f) |-> Slot(v, f, k - 1).val[1]]
    IN  SelectSeq(all, LAMBDA e : e.mark = "live" /\ e.attr \cap {"ro", "hid", "sys", "vol"} = {})

FindChildByName(v, f, sfn) ==
    LET hits == SelectSeq(Entries(v, f), LAMBDA e : Matches(e.name, sfn))
    IN  IF hits # <<>> THEN Ok(hits[1])
        ELSE IF Terminated(v, f) THEN Err("InvalidPath") ELSE Slot(v, f, End(v, f))

\* from_path: an empty name ends the path, and a name below a regular file is ignored.
FromPath(v, path) ==
    LET empty == {i \in DOMAIN path : path[i] = <<>>}
        nodes == IF empty = {} THEN path ELSE SubSeq(path, 1, Min(empty) - 1)
        Walk(cur, sfn) ==
          IF ~cur.ok THEN cur
          ELSE IF ~IsDirectory(cur.val) THEN cur
          ELSE LET dent == FindChildByName(v, cur.val, sfn)
               IN  IF dent.ok THEN Ok(FromDirEntry(v, dent.val)) ELSE dent
    IN  FoldLeft(Walk, Ok(FromRoot(v)), nodes)

-----------------------------------------------------------------------------
(* A program's file                                                        *)

Idle == ~ (call # None /\ call.st = "on")
Opened == file # None /\ file.res.ok
File == file.res.val
Ended(st) == [call EXCEPT !.st = st]

Open(i, path, mode) ==
    /\ file = None
    /\ LET f == FromPath(vols[i], path)
           denied == \/ "w" \in mode /\ ~IsWritable(f.val)
                     \/ "x" \in mode /\ ~IsExecutable(f.val)
       IN  file' = [vol |-> i, path |-> path, mode |-> mode,
                    res |-> IF f.ok /\ denied THEN Err("NotAllowed") ELSE f]
    /\ UNCHANGED <<disk, vols, rd_offset, call, got, listed>>

\* File::close; a failed open left no file.
Close ==
    /\ Idle /\ file # None
    /\ file' = None /\ rd_offset' = 0
    /\ call' = None /\ got' = <<>> /\ listed' = None
    /\ UNCHANGED <<disk, vols>>

\* Enum, which the driver answers from the directory's entries.
Enum == /\ Idle /\ Opened /\ listed = None
        /\ LET v == vols[file.vol]
               f == File
           IN  listed' = IF ~IsDirectory(f) THEN Err("InvalidOp")
                         ELSE IF ~Terminated(v, f) THEN Slot(v, f, End(v, f))
                         ELSE Ok(Entries(v, f))
        /\ UNCHANGED <<disk, vols, file, rd_offset, call, got>>

\* The system call Read, or load_segment's seek and read: one seek from the
\* start, which refuses the end of the file, and one read.
SysRead(off, n) ==
    IF off >= File.dir.size THEN Err("InvalidArgument")
    ELSE IF "r" \notin file.mode THEN Err("NotAllowed")
    ELSE IF IsDirectory(File) THEN Err("InvalidOp")
    ELSE ReadInt(vols[file.vol], File, off, n)

\* rtlib's File::read; behind the end of the file size - rd_offset wraps, and
\* the buffer's length is the smaller.
Read(n) ==
    LET size == File.dir.size
    IN  /\ Idle /\ Opened
        /\ call' = [st |-> "on", by |-> "read", from |-> rd_offset, len |-> n,
                    want |-> IF rd_offset <= size THEN Min({n, size - rd_offset}) ELSE n]
        /\ got' = <<>>
        /\ UNCHANGED <<disk, vols, file, rd_offset, listed>>

Fread ==
    /\ call # None /\ call.st = "on" /\ call.by = "read"
    /\ LET r == SysRead(rd_offset, call.len - Len(got))
       IN  IF Len(got) >= call.want
           THEN call' = Ended("ok") /\ UNCHANGED <<got, rd_offset>>
           ELSE IF ~r.ok
           THEN call' = Ended(r.val) /\ UNCHANGED <<got, rd_offset>>
           ELSE /\ got' = got \o r.val
                /\ rd_offset' = rd_offset + Len(r.val)
                /\ UNCHANGED call
    /\ UNCHANGED <<disk, vols, file, listed>>

\* rtlib's File::seek, whatever its origin: any position from 0 on.
Seek(to) ==
    /\ Idle /\ Opened
    /\ rd_offset' = to
    /\ call' = None /\ got' = <<>>
    /\ UNCHANGED <<disk, vols, file, listed>>

\* load_segment, on the kernel's own File of the program.
Load(s) ==
    /\ Idle /\ Opened /\ "r" \in file.mode
    /\ call' = [st |-> "on", by |-> "load", from |-> s.off, len |-> s.memsz, want |-> s.filesz]
    /\ got' = <<>>
    /\ UNCHANGED <<disk, vols, file, rd_offset, listed>>

LoadChunk ==
    /\ call # None /\ call.st = "on" /\ call.by = "load"
    /\ LET left == call.want - Len(got)
           r == SysRead(call.from + Len(got), Min({Chunk, left}))
       IN  IF left = 0
           THEN /\ got' = got \o [k \in 1 .. call.len - Len(got) |-> 0]
                /\ call' = Ended("ok")
           ELSE IF ~r.ok
           THEN call' = Ended(r.val) /\ UNCHANGED got
           ELSE got' = got \o r.val /\ UNCHANGED call
    /\ UNCHANGED <<disk, vols, file, rd_offset, listed>>

Next == \/ Mount
        \/ \E i \in DOMAIN vols, p \in Paths, m \in Modes : Open(i, p, m)
        \/ Close
        \/ Enum
        \/ \E n \in Buffers : Read(n)
        \/ Fread
        \/ \E n \in Moves : Seek(n)
        \/ \E s \in Segments : Load(s)
        \/ LoadChunk

Spec == Init /\ [][Next]_vars

-----------------------------------------------------------------------------
(* What is on the disk, which the properties compare with                  *)

Tree(i) == disk.trees[i]

\* Where a path leads; "." leads nowhere.
Lead(path) ==
    SelectSeq(path, LAMBDA n : n \notin {<<>>, <<".">>})

\* A short name as a person writes it.
Dotted(name) ==
    LET Trim(s) == SelectSeq(s, LAMBDA c : c # " ")
        ext == Trim(SubSeq(name, Body + 1, Body + Ext))
    IN  Trim(SubSeq(name, 1, Body)) \o (IF ext = <<>> THEN <<>> ELSE <<".">> \o ext)

\* The paths that mean one file: from_path ignores what follows an empty name
\* or a regular file, and sfn_match lets an entry without an extension answer to
\* its name with any, "." to ".." among them.
Clear(i, path) ==
    LET at == Lead(path)
    IN  /\ \A k \in DOMAIN path : /\ path[k] = <<>> => k = Len(path)
                                  /\ path[k] # <<".", ".">>
        /\ \A p \in DOMAIN Tree(i) : IsStrictPrefix(p, at) => Tree(i)[p].dir
        /\ \A k \in DOMAIN at, p \in DOMAIN Tree(i) :
              ~(/\ Len(p) = k /\ Front(p) = SubSeq(at, 1, k - 1)
                /\ IsPrefix(Last(p) \o <<".">>, at[k]))

\* Whether a file may be opened this way: a read-only one not for writing, and
\* only a regular file with a program's extension to be run.
Permits(i, at, mode) ==
    LET node == Tree(i)[at]
    IN  /\ "w" \in mode => "ro" \notin node.attr
        /\ "x" \in mode => ~node.dir /\ IsSuffix(<<".">> \o Box, Last(at))

\* A file that open answers is the one that the disk has at the path, and
\* refused is only a mode that the file does not permit: across deleted entries,
\* long names, directories of several clusters, names with dots.
PathsLead ==
    file # None /\ Clear(file.vol, file.path) =>
      LET at == Lead(file.path)
          node == Tree(file.vol)[at]
      IN  /\ file.res.ok =>
               /\ at \in DOMAIN Tree(file.vol) /\ Permits(file.vol, at, file.mode)
               /\ IsDirectory(File) = node.dir /\ File.dir.size = Len(node.data)
          /\ ~file.res.ok /\ file.res.val = "NotAllowed" =>
               at \in DOMAIN Tree(file.vol) /\ ~Permits(file.vol, at, file.mode)

Children(i, at) == {p \in DOMAIN Tree(i) : p # <<>> /\ Front(p) = at}

\* The entries listed but "." and "..".
Shown == SelectSeq(listed.val, LAMBDA e : e.name[1] # ".")
ShownNames == {Dotted(Shown[k].name) : k \in DOMAIN Shown}

\* An enumeration shows no file that the directory does not have, none twice,
\* with the size and kind that it has, and leaves out none that can be opened.
ListsTrue ==
    listed # None /\ Clear(file.vol, file.path) /\ listed.ok =>
      LET at == Lead(file.path)
      IN  /\ Cardinality(ShownNames) = Len(Shown)
          /\ \A k \in DOMAIN Shown :
                LET p == Append(at, Dotted(Shown[k].name))
                IN  /\ p \in Children(file.vol, at)
                    /\ Tree(file.vol)[p].dir = ("dir" \in Shown[k].attr)
                    /\ Len(Tree(file.vol)[p].data) = Shown[k].size
          /\ \A p \in Children(file.vol, at) :
                FromPath(vols[file.vol], p).ok => Last(p) \in ShownNames

\* An enumeration shows all the files of the directory, as File::enumerate says
\* and the flags of a DirectoryEntry expect.  It does not: entries that are
\* read-only, hidden or system files are taken for long names; a root area is
\* read from its first cluster again behind it; a directory that fills its
\* clusters to the last entry is an error.
ListsAll ==
    listed # None /\ Clear(file.vol, file.path) /\ IsDirectory(File) =>
        listed.ok /\ ShownNames = {Last(p) : p \in Children(file.vol, Lead(file.path))}

\* What a read has put into the buffer is the file's data from where it
\* started, whatever clusters and sectors it lies in; a read that ends well
\* has filled the buffer or got to the end of the file, and one within the file
\* fails only if clusters are larger than the disk buffer.  The same of a
\* segment of a program, followed by zeros.
ReadsFile ==
    call # None /\ Clear(file.vol, file.path) /\ ~IsDirectory(File) =>
      LET data == Tree(file.vol)[Lead(file.path)].data
          upto == Min({Len(data), call.from + (IF call.by = "read" THEN call.len ELSE call.want)})
          read == SubSeq(data, call.from + 1, upto)
          zeros == [k \in 1 .. call.len - Len(read) |-> 0]
      IN  /\ IF call.st = "ok" THEN got = read \o (IF call.by = "read" THEN <<>> ELSE zeros)
             ELSE IsPrefix(got, read)
          /\ call.by = "read" => rd_offset = call.from + Len(got)
          /\ call.st \notin {"on", "ok"} =>
               \/ call.from + call.want > Len(data)
               \/ "r" \notin file.mode
               \/ vols[file.vol].cluster_size > CACHE_SIZE
=============================================================================
