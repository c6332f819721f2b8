----------------------------- MODULE BootSector -----------------------------
(***************************************************************************)
(* fat32_read_boot (fat32_vfs.c): from sector 0 of a device, a partition   *)
(* table or a boot sector itself, to the layout of the file system, and    *)
(* where fat32_cls.c then looks for clusters and FAT entries.              *)
(*                                                                         *)
(* A disk is [sig, direct, parts, boot]: whether sector 0 has the 0xAA55   *)
(* signature and is a FAT32 boot sector, the four partitions by system_id  *)
(* and relative_sector, and the boot sectors by their places.  In a boot   *)
(* sector infoOK says that FSInfo can be read and has its signatures.      *)
(***************************************************************************)
EXTENDS Integers, FiniteSetsExt

CONSTANT SectorSize    \* bytes_per_sector, and the unit of bread

Unknown == -1          \* 0xFFFFFFFF

\* fat32_log2
Log2(n) == Max({k \in 0 .. 24 : 2 ^ k <= n})

\* A power of 2, with room for an entry of the FAT
ASSUME SectorAssumption == SectorSize \in 4 .. 4096 /\ SectorSize = 2 ^ Log2(SectorSize)

FatPartitions(disk) == {i \in 0 .. 3 : disk.parts[i].id \in {11, 12}}

\* What is on a disk: boot sectors at least where fat32_read_boot looks for
\* them, with any numbers in them
IsDisk(disk) ==
    /\ disk.direct \in BOOLEAN
    /\ disk.direct => 0 \in DOMAIN disk.boot
    /\ \A i \in 0 .. 3 : disk.parts[i].start \in Nat
    /\ \A i \in FatPartitions(disk) : disk.parts[i].start \in DOMAIN disk.boot
    /\ \A o \in DOMAIN disk.boot :
         /\ disk.boot[o].spc \in Nat /\ disk.boot[o].reserved \in Nat
         /\ disk.boot[o].nfats \in Nat /\ disk.boot[o].fatsize \in Nat
         /\ disk.boot[o].total \in Nat /\ disk.boot[o].fsinfo \in Nat

\* part_to_use: the one requested, or else the first FAT32 partition; -1: none
PartToUse(disk, part) ==
    IF part \in 0 .. 3 THEN part
    ELSE IF FatPartitions(disk) = {} THEN -1 ELSE Min(FatPartitions(disk))

\* fsi_partition_offset.  A boot sector in sector 0 is used whatever partition
\* was asked for.
PartitionOffset(disk, part) ==
    IF disk.direct THEN 0 ELSE disk.parts[PartToUse(disk, part)].start

\* EINVAL otherwise
BootUsable(disk, part) ==
    /\ disk.sig
    /\ disk.direct \/ PartToUse(disk, part) \in FatPartitions(disk)
    /\ disk.boot[PartitionOffset(disk, part)].sig

\* Mutant: the partition's place is not added to the start of the data.
LayoutUnshifted(disk, part) ==
    LET o == PartitionOffset(disk, part)
        br == disk.boot[o]
        data == br.reserved + br.nfats * br.fatsize
    IN [offset |-> o, fatStart |-> o + br.reserved, fatSize |-> br.fatsize,
        numFats |-> br.nfats, dataStart |-> data, spc |-> br.spc,
        spcShift |-> Log2(br.spc), count |-> (br.total - data) \div br.spc,
        fsinfo |-> o + br.fsinfo,
        free |-> IF br.infoOK THEN br.free ELSE Unknown]

\* The cached parameters; the FSInfo sector is optional.
Layout(disk, part) ==
    LET o == PartitionOffset(disk, part)
        br == disk.boot[o]
        data == br.reserved + br.nfats * br.fatsize
    IN [offset |-> o, fatStart |-> o + br.reserved, fatSize |-> br.fatsize,
        numFats |-> br.nfats, dataStart |-> data + o, spc |-> br.spc,
        spcShift |-> Log2(br.spc), count |-> (br.total - data) \div br.spc,
        fsinfo |-> o + br.fsinfo,
        free |-> IF br.infoOK THEN br.free ELSE Unknown]

\* fat32_cluster_to_sector
ClusterToSector(l, c) == l.dataStart + (c - 2) * 2 ^ l.spcShift

\* fat32_rmw_cluster: the sector of the entry of c in copy k of the FAT
FatSector(l, c, k) == l.fatStart + (4 * c) \div 2 ^ Log2(SectorSize) + k * l.fatSize

----------------------------------------------------------------------------
(* What a formatter makes *)

\* A boot sector that a formatter writes: sectors_per_cluster is a power of 2,
\* there is room for a cluster, each FAT holds an entry for every cluster that
\* fits, and FSInfo is a reserved sector.
WellFormed(br) ==
    LET data == br.reserved + br.nfats * br.fatsize
    IN /\ br.spc > 0 /\ br.spc = 2 ^ Log2(br.spc) /\ br.nfats > 0 /\ br.fsinfo \in 1 .. br.reserved - 1
       /\ data + br.spc <= br.total
       /\ 4 * ((br.total - data) \div br.spc + 2) <= br.fatsize * SectorSize

\* On such a disk the clusters and FAT entries that fat32_cls.c computes lie
\* where they should: one after the other, FAT copies behind the reserved
\* sectors, clusters behind the FATs, all within the partition that was asked
\* for, with no cluster left out at the end.
LayoutSound(disk, part, l) ==
    LET o == IF disk.direct THEN 0
             ELSE disk.parts[IF part \in 0 .. 3 THEN part ELSE Min(FatPartitions(disk))].start
        br == disk.boot[o]
        lastFat == o + br.reserved + br.nfats * br.fatsize
        end == o + br.total
    IN WellFormed(br) =>
        /\ \A c \in 2 .. l.count + 1 :
             /\ ClusterToSector(l, c) >= lastFat /\ ClusterToSector(l, c) + br.spc <= end
             /\ c > 2 => ClusterToSector(l, c) = ClusterToSector(l, c - 1) + br.spc
             /\ \A k \in 0 .. br.nfats - 1 :
                  FatSector(l, c, k) - o - br.reserved - k * br.fatsize \in 0 .. br.fatsize - 1
        /\ ClusterToSector(l, l.count + 2) + br.spc > end
        /\ l.fsinfo \in o + 1 .. o + br.reserved - 1
=============================================================================
