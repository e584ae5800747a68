------------------------------- MODULE Drivers -------------------------------
(***************************************************************************)
(* The display, the block device and the printing of numbers.  They share  *)
(* no state, so a behaviour of the one next to the others says no more     *)
(* than each does alone: one of the three is chosen and acts.              *)
(***************************************************************************)
EXTENDS Display, Storage, Numbers

VARIABLE device

vars == <<displayVars, storageVars, numberVars, device>>

Init ==
    /\ DisplayInit /\ StorageInit /\ NumbersInit
    /\ device \in {"display", "storage", "writer"}

Next ==
    /\ UNCHANGED device
    /\ \/ device = "display" /\ DisplayNext /\ UNCHANGED <<storageVars, numberVars>>
       \/ device = "storage" /\ StorageNext /\ UNCHANGED <<displayVars, numberVars>>
       \/ device = "writer" /\ NumbersNext /\ UNCHANGED <<displayVars, storageVars>>

Spec == Init /\ [][Next]_vars
=============================================================================
