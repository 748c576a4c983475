--------------------------- MODULE MCFormatSession ---------------------------
(* Instances of FormatSession for TLC with the real constants of the program: *)
(* sticks of 2 MB (too small to partition), 34 MB (the wipe of the partition  *)
(* head just spares the GPT backup), 128 MB (F2FS: it does not), a size whose *)
(* FAT32 comes out full, about 1 GB and about 70 GB; NTFS, the three FATs and *)
(* F2FS, the smallest and the largest cluster.  The other instance is that of *)
(* the run on one question.                                                   *)
EXTENDS FormatSession

MCSticks == {4000, 65569, 262144, 299616, 2000000, 140000000}
MCJobs == [pt : 0 .. 2, fs : {0, 1, 2, 3, 8}, cluster : {4096, 65536}]

MCLargeSticks == {2000000}
MCFat16Jobs == [pt : {1}, fs : {2}, cluster : {4096}]
=============================================================================
