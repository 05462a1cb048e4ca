------------------------------- MODULE Fat32 -------------------------------
(***************************************************************************)
(* The reader of src/fs/fat32.c: fat32_mount(), fat32_read(), and the      *)
(* directory walk that fat32_open(), fat32_ls() and fat32_cd() share, over *)
(* the one-sector FAT cache and a block device that may fail.  A sector's  *)
(* content is named by its LBA, and nobody writes the medium.  Bytes are   *)
(* counted in sectors.                                                     *)
(***************************************************************************)
EXTENDS Integers, Sequences, SequencesExt

CONSTANTS MaxCluster,         \* clusters are numbered 2..MaxCluster
          EntriesPerSector,   \* FAT entries in a sector: 128
          SectorsPerCluster,  \* vol->sectors_per_cluster
          FirstLba, Reserved, NumFats,   \* of the partition, as it is on the medium
          MaxSectors,         \* bound: the largest max_bytes of a call
          Outcomes,           \* what sd_read_block() may do, see blkdev_read
          None

ASSUME Fat32Assumption ==
  /\ MaxCluster \in Nat /\ MaxCluster >= 2
  /\ EntriesPerSector \in Nat \ {0} /\ SectorsPerCluster \in Nat \ {0}
  /\ {FirstLba, Reserved, NumFats} \subseteq Nat \ {0}
  /\ MaxSectors \in Nat /\ None \notin Nat
  /\ Outcomes \subseteq {"ok", "early", "late"} /\ "ok" \in Outcomes

VARIABLES
  medium,         \* "fat32", or what fat32_mount() refuses in the table of
                  \* partitions or in the boot record
  fat,            \* the FAT on the volume
  vol,            \* the fat32_vol_t, None before it is mounted
  fat_cache,      \* the LBA whose content the buffer holds
  fat_cache_lba,
  op,             \* "none", "mount", "read" or "walk": the call in progress
  first,          \* its first cluster
  max,            \* the sectors it asks for
  cluster, s,     \* its locals
  copied,         \* the LBAs of the sectors copied to dst, in order
  ret             \* what the last call returned, None during a call

disk_vars == <<medium, fat>>
cache_vars == <<fat_cache, fat_cache_lba>>
fat_vars == <<disk_vars, vol, cache_vars, op, first, max, cluster, s, copied, ret>>

Cluster == 2..MaxCluster
EOC == MaxCluster + 1       \* stands for 0x0FFFFFF8 and above

\* q lists the clusters of a file in order: each names the next, the last one
\* holds the end mark.
IsFile(f, q) ==
  /\ q # <<>>
  /\ \A i \in 1..Len(q)-1 : f[q[i]] = q[i+1]
  /\ f[q[Len(q)]] = EOC

FilesFrom(f, c) == {q \in SeqOf(Cluster, MaxCluster-1) : IsFile(f, q) /\ q[1] = c}
Chain(f, c) == CHOOSE q \in FilesFrom(f, c) : TRUE

\* A consistent volume: every cluster in use has at most one predecessor and
\* leads to the end of a file; entries 0 and 1 hold the media type and a marker.
Volume ==
  {f \in [0..MaxCluster -> {0, EOC} \cup Cluster] :
     /\ f[0] = EOC /\ f[1] = EOC
     /\ f[2] # 0 /\ \A c \in Cluster : f[c] # 2     \* the root directory
     /\ \A c, d \in Cluster : f[c] = f[d] /\ f[c] \in Cluster => c = d
     /\ \A c \in Cluster : f[c] # 0 => FilesFrom(f, c) # {}}

Heads(f) == {c \in Cluster : f[c] # 0 /\ \A d \in Cluster : f[d] # c}

-----------------------------------------------------------------------------
\* The medium: partition table, reserved sectors, copies of the FAT, clusters.
FatSize == MaxCluster \div EntriesPerSector + 1
FirstFat == FirstLba + Reserved
FirstData == FirstFat + NumFats * FatSize

\* The entry of cluster c, if the sector at lba is of a FAT.
EntryIn(lba, c) ==
  LET n == ((lba - FirstFat) % FatSize) * EntriesPerSector + (c % EntriesPerSector)
  IN  IF lba \in FirstFat..(FirstData - 1) /\ n \in DOMAIN fat THEN fat[n] ELSE 0

\* What fat32_mount() makes of it.
DataAfterOneFat(start) == start + FatSize
DataAfterFats(start) == start + NumFats * FatSize
Mounted == LET start == FirstLba + Reserved
           IN  [fat_start_lba |-> start, data_start_lba |-> DataAfterFats(start)]

cluster_to_lba(c) == vol.data_start_lba + (c - 2) * SectorsPerCluster
FatLba(c) == vol.fat_start_lba + c \div EntriesPerSector

(* blkdev_read(): sd_read_block() succeeds, fails before it has drained the *)
(* FIFO into the buffer, or fails afterwards, waiting for INT_DATA_DONE.   *)
Succeeds(o) == o = "ok"
Fills(o)    == o \in {"ok", "late"}

\* fat_cache_read()
HitOnceRead(lba) == fat_cache_lba # None
Hit(lba) == lba = fat_cache_lba
TagFirst(o, lba) == lba
TagAfter(o, lba) == IF Hit(lba) \/ ~Succeeds(o) THEN fat_cache_lba ELSE lba
BufferAfter(o, lba) == IF Hit(lba) \/ ~Fills(o) THEN fat_cache ELSE lba

\* fat_next_cluster(), given the outcome of the read it may need.
NextCluster(o, c) ==
  IF Hit(FatLba(c)) \/ Succeeds(o) THEN EntryIn(BufferAfter(o, FatLba(c)), c)
  ELSE 0

-----------------------------------------------------------------------------
FatInit ==
  /\ \/ medium = "fat32" /\ fat \in Volume
     \/ medium \in {"no partition", "bad sector size"} /\ fat = <<>>
  /\ vol = None
  /\ fat_cache = None
  /\ fat_cache_lba = None
  /\ op = "none"
  /\ first = 0 /\ max = 0 /\ cluster = 0 /\ s = 0
  /\ copied = <<>>
  /\ ret = None

Call(o, c, n) ==
  /\ op = "none"
  /\ op' = o
  /\ first' = c /\ cluster' = c
  /\ max' = n
  /\ s' = 0
  /\ copied' = <<>>
  /\ ret' = None
  /\ UNCHANGED <<disk_vars, vol, cache_vars>>

Return(r) ==
  /\ op' = "none"
  /\ ret' = r
  /\ UNCHANGED <<disk_vars, cache_vars, first, max, cluster, s, copied>>

-----------------------------------------------------------------------------
(* fat32_mount(): the partition table, then the volume's boot record.      *)
mount_mbr(o) ==
  /\ op = "mount" /\ s = 0
  /\ IF Succeeds(o) /\ medium # "no partition"
     THEN s' = 1 /\ UNCHANGED <<disk_vars, vol, cache_vars, op, first, max, cluster,
                                copied, ret>>
     ELSE Return(-1) /\ UNCHANGED vol

mount_vbr(o) ==
  /\ op = "mount" /\ s = 1
  /\ IF Succeeds(o) /\ medium # "bad sector size"
     THEN Return(0) /\ vol' = Mounted
     ELSE Return(-1) /\ UNCHANGED vol

-----------------------------------------------------------------------------
\* The inner loop of fat32_read(): a sector is read and copied.
MoreSectors == s < SectorsPerCluster /\ (op = "read" => Len(copied) < max)
MoreClusters == op # "mount" /\ cluster < EOC /\ (op = "read" => Len(copied) < max)

\* The call is between two sectors: s = 0 before the test of the outer loop.
InCluster == op \in {"read", "walk"} /\ (s > 0 \/ MoreClusters)

fat32_read_sector(o) ==
  /\ op = "read" /\ InCluster /\ MoreSectors
  /\ \/ /\ Succeeds(o)
        /\ copied' = Append(copied, cluster_to_lba(cluster) + s)
        /\ s' = s + 1
        /\ UNCHANGED <<disk_vars, vol, cache_vars, op, first, max, cluster, ret>>
     \/ ~Succeeds(o) /\ Return(-1) /\ UNCHANGED vol

\* The inner loop of a directory walk: the sector ends the directory or holds
\* the name (the walk returns), or the walk goes on.
walk_sector(o) ==
  /\ op = "walk" /\ InCluster /\ MoreSectors
  /\ \/ /\ Succeeds(o)
        /\ s' = s + 1
        /\ UNCHANGED <<disk_vars, vol, cache_vars, op, first, max, cluster,
                       copied, ret>>
     \/ Succeeds(o) /\ (\E r \in {0, -1} : Return(r)) /\ UNCHANGED vol
     \/ ~Succeeds(o) /\ Return(-1) /\ UNCHANGED vol

\* After the inner loop, even when nothing remains to be read.
follow_chain(o) ==
  /\ InCluster /\ ~MoreSectors
  /\ cluster' = NextCluster(o, cluster)
  /\ fat_cache' = BufferAfter(o, FatLba(cluster))
  /\ fat_cache_lba' = TagAfter(o, FatLba(cluster))
  /\ s' = 0
  /\ UNCHANGED <<disk_vars, vol, op, first, max, copied, ret>>

\* The outer loop is over.
finish ==
  /\ op \in {"read", "walk"} /\ s = 0 /\ ~MoreClusters
  /\ Return(IF op = "read" THEN Len(copied) ELSE -1)
  /\ UNCHANGED vol

\* The sector that the call in progress has to read next, if any.
Wanted ==
  CASE op = "mount" -> IF s = 0 THEN 0 ELSE FirstLba
    [] InCluster /\ MoreSectors -> cluster_to_lba(cluster) + s
    [] InCluster /\ ~MoreSectors /\ ~Hit(FatLba(cluster)) -> FatLba(cluster)
    [] OTHER -> None

ReadingStep(o) ==
  \/ mount_mbr(o) \/ mount_vbr(o)
  \/ fat32_read_sector(o)
  \/ walk_sector(o)
  \/ follow_chain(o)

Step(o) == ReadingStep(o) \/ finish

\* The volume is mounted before anything else is asked of it.
NewCall ==
  \/ vol = None /\ Call("mount", 0, 0)
  \/ /\ vol # None
     /\ \E c \in Heads(fat) :
          \/ \E n \in 0..MaxSectors : Call("read", c, n)
          \/ Call("walk", c, 0)

FatNext == NewCall \/ \E o \in Outcomes : Step(o)

FatSpec == FatInit /\ [][FatNext]_fat_vars

-----------------------------------------------------------------------------
(* Properties.                                                             *)

\* The buffer holds the sector that fat_cache_lba names: a failed read, which
\* leaves the buffer alone, does not change the name either.
CacheCoherent == fat_cache_lba # None => fat_cache = fat_cache_lba

\* The sectors of the file that starts at c, in file order.
Sectors(c) ==
  LET At(n) == Chain(fat, c)[(n-1) \div SectorsPerCluster + 1]
  IN  [n \in 1..Len(Chain(fat, c)) * SectorsPerCluster |->
         FirstData + (At(n) - 2) * SectorsPerCluster + ((n-1) % SectorsPerCluster)]

\* fat32_read() copies the file's sectors in file order and without a gap,
\* across cluster and FAT sector boundaries, until an error of the FAT sends it
\* astray; and it returns short of max_bytes only at the end of the file.
CopiesInOrder ==
  first \in Cluster /\ (\A i \in DOMAIN copied : copied[i] >= FirstData) =>
    /\ IsPrefix(copied, Sectors(first))
    /\ op = "none" /\ ret # None /\ ret >= 0 =>
         Len(copied) = max \/ copied = Sectors(first)

\* Every call on a consistent volume returns, whatever reads fail on its way:
\* the chain that is followed ends, also after fat_next_cluster() has returned 0.
CallReturns == op # "none" ~> op = "none"

\* src/fs/fat32.c:80, fat_next_cluster(): "Returns the next cluster number, 0x0FFFFFFF
\* for end-of-chain, or 0 on error."  Refuted: a read that fails while it waits
\* for INT_DATA_DONE has already filled fat_cache, which fat_cache_lba still
\* calls by its old name; the next lookup there takes an entry of the wrong
\* sector.
NextClusterOrZero ==
  [][cluster' # cluster /\ op = op' /\ op # "none"
       => cluster' \in {0, fat[cluster]}]_fat_vars

=============================================================================
