------------------------------ MODULE MCMount ------------------------------
(* A few processes, vnodes and references for Mount, and three disks: a     *)
(* file system without partitions, one with two FAT32 partitions of         *)
(* different layout behind one of another type, and one with none.  Any     *)
(* partition is asked for, or the first with FAT32.                         *)
EXTENDS Mount

CONSTANTS t1, t2, v1, v2, v3, v4

\* Sectors have 16 bytes, so a FAT sector holds 4 entries.
Boot(spc, reserved, nfats, fatsize, total, infoOK) ==
    [sig |-> TRUE, spc |-> spc, reserved |-> reserved, nfats |-> nfats, fatsize |-> fatsize,
     total |-> total, fsinfo |-> 1, infoOK |-> infoOK, free |-> 3]

NoPart == [id |-> 0, start |-> 0]

DirectDisk == [sig |-> TRUE, direct |-> TRUE, parts |-> [i \in 0 .. 3 |-> NoPart],
               boot |-> [s \in {0} |-> Boot(1, 2, 1, 2, 10, FALSE)]]

PartDisk == [sig |-> TRUE, direct |-> FALSE,
             parts |-> [i \in 0 .. 3 |-> CASE i = 0 -> [id |-> 131, start |-> 1]
                                           [] i = 1 -> [id |-> 12, start |-> 4]
                                           [] i = 3 -> [id |-> 11, start |-> 30]
                                           [] OTHER -> NoPart],
             boot |-> [s \in {4, 30} |-> IF s = 4 THEN Boot(4, 3, 2, 2, 25, TRUE)
                                        ELSE Boot(2, 2, 1, 1, 8, TRUE)]]

OtherDisk == [PartDisk EXCEPT !.parts = [i \in 0 .. 3 |-> NoPart]]

Disks == {DirectDisk, PartDisk, OtherDisk}
Parts == -1 .. 3

\* Nothing reads the layout again once the file system is mounted, and it does
\* not change.
View == <<IF fsi.state = "live" THEN <<"live", fsi.root>> ELSE fsi,
          device, vp, refs, op, failed, old>>
=============================================================================
