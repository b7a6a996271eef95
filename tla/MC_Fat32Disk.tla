---------------------------- MODULE MC_Fat32Disk ----------------------------
\* TLC instance of Fat32Disk, with the real layout and the real size of the
\* application; the host takes the first free clusters, the last one of the
\* disk and the first one the disk does not have.
EXTENDS Fat32Disk

LastOnDisk == STORAGE_BLK_NBR - FirstData + 1

MC_Clusters == {Nxt_Free, Nxt_Free + 1, LastOnDisk, LastOnDisk + 1}
MC_Chains == {{Nxt_Free}, {Nxt_Free + 1, LastOnDisk}, {LastOnDisk + 1}}

=============================================================================
