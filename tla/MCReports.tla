------------------------------ MODULE MCReports ------------------------------
(* The disk monitor and the scores, one after the other: as long as the     *)
(* report is the ideal one, the disk monitor moves.                         *)
EXTENDS DiskMonitor, Scores

vars == <<diskvars, info, focus>>

Init == DiskInit /\ ScoresInit

Fresh == at = [d \in Disks |-> <<>>] /\ \A d \in Disks : ops[d] = New(0)

Next ==
    \/ info = Ideal /\ focus = "disk_info" /\ DiskNext /\ UNCHANGED <<info, focus>>
    \/ Fresh /\ ScoresNext /\ UNCHANGED diskvars

Spec == Init /\ [][Next]_vars
==============================================================================
