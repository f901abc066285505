------------------------------ MODULE MCDevices ------------------------------
(***************************************************************************)
(* The instance TLC checks of Terminal and of Disk.  What the keyboard and *)
(* the disk do is not related, so a behaviour is one of the terminal or    *)
(* one of the disk; the other stays in an initial state.                   *)
(***************************************************************************)
EXTENDS Terminal, Disk

CONSTANTS keyboard, network, t1, t2
VARIABLE part

DevicesInit ==
    /\ part \in {"terminal", "disk"}
    /\ Init /\ (part # "terminal" => cpu = t1)
    /\ DiskInit /\ (part # "disk" => extent = DiskSize)

DevicesNext ==
    \/ part = "terminal" /\ Next /\ UNCHANGED <<part, diskVars>>
    \/ part = "disk" /\ DiskNext /\ UNCHANGED <<part, vars>>

(* Fairness is that of Terminal.  The disk thread runs as long as it has   *)
(* counts.                                                                 *)
DevicesSpec ==
    /\ DevicesInit /\ [][DevicesNext]_<<part, vars, diskVars>>
    /\ part = "terminal" => Fairness
    /\ WF_diskVars(part = "disk" /\ disk_poll)
==============================================================================
