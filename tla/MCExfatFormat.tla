--------------------------- MODULE MCExfatFormat ----------------------------
(***************************************************************************)
(* Volumes for TLC: each size just around a border of the layout.          *)
(***************************************************************************)
EXTENDS ExfatFormat

\* Too small; just too small and just large enough for a directory; a FAT
\* that ends with a sector; 1 GB with many entries; 64 GB with a FAT of
\* several erase blocks.
MCVolumes ==
    {<<100, 4096>>, <<175, 4096>>, <<176, 4096>>, <<8192, 8192>>, <<2097152, 4096>>,
     <<524288, 32768>>, <<511, 65536>>, <<512, 65536>>, <<640, 65536>>,
     <<16384, 65536>>, <<125045424, 65536>>}

=============================================================================
