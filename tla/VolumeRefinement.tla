-------------------------- MODULE VolumeRefinement --------------------------
(***************************************************************************)
(* The provisioner keeps the promise of VolumeLifecycle for every claim    *)
(* on every node, with any number of workers, whatever restarts, is read   *)
(* from a stale cache or fails, but for two cases.  A provisioning that    *)
(* is still under way when another worker deletes the volume of the same   *)
(* claim can make the storage again between the deletion's destroy and     *)
(* the removal of the object; and the ZFS and Btrfs drivers take a failed  *)
(* check for a volume that is gone.                                        *)
(***************************************************************************)
EXTENDS Provisioner

\* The places of a volume: a claim's, on each node.
Places == Nodes \X Uids

\* What an observer of a node sees of the objects that name it, and its storage.
Objects ==
    [x \in Places |-> IF pv[x[2]].node = x[1] THEN pv[x[2]].phase ELSE "absent"]
Stored == {x \in Places : Present(x[1], PathOf[x[2]])}

Promised == INSTANCE VolumeLifecycle
    WITH Volumes <- Places, object <- Objects, storage <- Stored

\* Every step of the provisioner is a step of VolumeLifecycle or changes nothing
\* that it speaks of.
Lifecycle == Promised!Spec
=============================================================================
