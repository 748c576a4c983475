--------------------------- MODULE WriteBackStore ---------------------------
(***************************************************************************)
(* What the block I/O of usb_scsi.cpp promises a formatting engine, with   *)
(* the cache, the sectors and the commands abstracted away.  A unit of the *)
(* volume changes only because a write request that covers it is open, or  *)
(* becomes Unknown because it was still pending when a command failed.     *)
(***************************************************************************)
CONSTANTS Addr, Val, Unknown

VARIABLES
    img,      \* what a reader would be given, or Unknown
    pending,  \* units accepted but not yet given to the stick
    open      \* units the write request in progress has still to accept

storeVars == <<img, pending, open>>

StoreInit == img \in [Addr -> Val] /\ pending = {} /\ open = {}

\* A request begins, or ends with or without having been accepted in full.
Frame == open' \subseteq Addr /\ UNCHANGED <<img, pending>>

\* Part of the open request is taken over; nothing else changes.
Take == \E A \in SUBSET open :
    /\ img' \in [Addr -> Val \cup {Unknown}]
    /\ \A a \in Addr : IF a \in A THEN img'[a] \in Val ELSE img'[a] = img[a]
    /\ pending' \in {pending, pending \cup A}
    /\ open' = open \ A

\* Everything pending goes to the stick, or all of it is in doubt.
Drain ==
    /\ \/ img' = img
       \/ img' = [a \in Addr |-> IF a \in pending THEN Unknown ELSE img[a]]
    /\ pending' = {}
    /\ UNCHANGED open

\* A direct write fails: part of the open request is in doubt.
Spoil == \E A \in SUBSET open :
    /\ img' = [a \in Addr |-> IF a \in A THEN Unknown ELSE img[a]]
    /\ open' = {}
    /\ UNCHANGED pending

StoreNext == Frame \/ Take \/ Drain \/ Spoil

StoreSpec == StoreInit /\ [][StoreNext]_storeVars

=============================================================================
