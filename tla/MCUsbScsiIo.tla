---------------------------- MODULE MCUsbScsiIo ----------------------------
(* Instance of UsbScsiIo for TLC: three sectors of two units, a cache of   *)
(* two sectors, payloads whose neighbouring units differ.                  *)
EXTENDS UsbScsiIo

MCVal == 0 .. 2
MCInitialDisks == {[a \in Addr |-> 0]}
MCPayloads == {[i \in 0 .. MaxCount - 1 |-> 1 + (i % 2)],
               [i \in 0 .. MaxCount - 1 |-> 2 - (i % 2)]}
MCPartitions == {<<1, 1, 2>>}
MCLengths == {0, 2, 3, 6}
MCSeeks == {-1, 1}
=============================================================================
