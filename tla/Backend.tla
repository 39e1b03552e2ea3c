------------------------------ MODULE Backend ------------------------------
(***************************************************************************)
(* What the nodes' filesystems hold, and the commands the storage drivers  *)
(* run on them: pkg/driver/zfs, pkg/driver/btrfs and pkg/driver/dir.       *)
(*                                                                         *)
(* A volume (ZFS dataset, Btrfs subvolume or directory) is reduced to      *)
(* whose data it holds: the claim it was created for, or Foreign when it   *)
(* was there before.  Create and Delete of a driver are several commands   *)
(* with nothing that makes them one, so every command is an operator of    *)
(* its own, and the module that runs them decides what happens in between. *)
(* Quota, ownership, mode, properties and encryption are attributes of a   *)
(* volume that no property of this module tells apart; the drivers only    *)
(* log a failure to set them on a new volume.                              *)
(*                                                                         *)
(* Paths may lie below one another (tank/db/redis/0 below tank/db/redis),  *)
(* and then commands on the one reach the other.                           *)
(***************************************************************************)
EXTENDS Naturals, FiniteSets

CONSTANTS
    Nodes,        \* the nodes, each with a filesystem of its own
    Paths,        \* dataset names / mount paths
    Below,        \* the pairs <<p, q>> of paths with q below p
    Uids,         \* the claims a volume may be created for (PVC UIDs)
    Foreign,      \* the data of a volume this provisioner did not create
    NoVol         \* nothing exists at a path

Kinds == {"zfs", "btrfs", "dir"}
Owners == Uids \cup {Foreign}

ASSUME BackendAssumption ==
    /\ Below \subseteq Paths \X Paths
    /\ Foreign \notin Uids
    /\ NoVol \notin Owners

VARIABLES
    vol,          \* whose data each path of each node holds
    kept          \* the data preserved by snapshot-before-delete

backendVars == <<vol, kept>>

BackendTypeOK ==
    /\ vol \in [Nodes -> [Paths -> Owners \cup {NoVol}]]
    /\ kept \subseteq Owners

-----------------------------------------------------------------------------
(* Faulty variants of the commands below, none of them part of the         *)
(* specification: each one shows that some property can be violated.       *)

\* mkdir instead of "btrfs subvolume create": an existing target is fine.
CreateSucceedsLikeMkdir(kind, n, p, u) ==
    /\ vol' = IF vol[n][p] = NoVol THEN [vol EXCEPT ![n][p] = u] ELSE vol
    /\ UNCHANGED kept

\* The quarantine name is computed, but the rename is left out.
PreserveSucceedsEmpty(kind, n, p) ==
    /\ vol[n][p] # NoVol
    /\ vol' = IF kind = "btrfs" THEN vol ELSE [vol EXCEPT ![n][p] = NoVol]
    /\ UNCHANGED kept

\* The destroy command runs in the background and its result is not awaited.
DestroySucceedsLater(kind, n, p) ==
    /\ vol[n][p] # NoVol \/ kind = "dir"
    /\ UNCHANGED backendVars

-----------------------------------------------------------------------------

Present(n, p) == vol[n][p] # NoVol

\* What a recursive command on p reaches, and the paths p lies below.
Within(p) == {q \in Paths : q = p \/ <<p, q>> \in Below}
Above(p) == {q \in Paths : <<q, p>> \in Below}

\* The filesystem of n without the volumes at S, and with one at p that holds
\* x, the missing ones above it made along with it.
Emptied(n, S) ==
    [vol EXCEPT ![n] = [q \in Paths |-> IF q \in S THEN NoVol ELSE vol[n][q]]]

Filled(n, p, x) ==
    [vol EXCEPT ![n] =
        [q \in Paths |-> IF q = p THEN x
                         ELSE IF q \in Above(p) /\ vol[n][q] = NoVol THEN Foreign
                         ELSE vol[n][q]]]

\* What Exists answers when its command (zfs list, btrfs subvolume show, stat)
\* works, and when it does not: only the directory driver reports the failure,
\* the others take every error for "does not exist".
ExistsAnswer(n, p) == IF Present(n, p) THEN "yes" ELSE "no"
ExistsFailedAnswer(kind) == IF kind = "dir" THEN "error" ELSE "no"

\* "btrfs subvolume create" makes no parents, and no target that exists.
CreateRefused(kind, n, p) ==
    /\ kind = "btrfs"
    /\ Present(n, p) \/ \E q \in Above(p) : ~Present(n, q)
    /\ UNCHANGED backendVars

\* The create command exits with success.  "zfs create -p" and MkdirAll do so,
\* changing nothing, when the target exists already.
CreateSucceeds(kind, n, p, u) ==
    /\ kind = "btrfs" => ~Present(n, p) /\ \A q \in Above(p) : Present(n, q)
    /\ vol' = IF Present(n, p) THEN vol ELSE Filled(n, p, u)
    /\ UNCHANGED kept

\* The create command fails, having done nothing, some or all of its work
\* ("zfs create" also fails when it cannot mount the dataset it created).
CreateFails(kind, n, p, u) ==
    /\ \/ UNCHANGED vol
       \/ /\ ~Present(n, p)
          /\ kind = "btrfs" => \A q \in Above(p) : Present(n, q)
          /\ vol' \in {Filled(n, p, NoVol), Filled(n, p, u)}
    /\ UNCHANGED kept

\* Snapshot-before-delete: ZFS and directories are renamed away with all below
\* them, Btrfs takes a read-only snapshot of the one subvolume beside it.
PreserveSucceeds(kind, n, p) ==
    /\ Present(n, p)
    /\ IF kind = "btrfs"
       THEN kept' = kept \cup {vol[n][p]} /\ UNCHANGED vol
       ELSE /\ kept' = kept \cup ({vol[n][q] : q \in Within(p)} \ {NoVol})
            /\ vol' = Emptied(n, Within(p))

\* It fails, having done nothing or all of its work ("zfs rename" also fails
\* when it cannot mount the dataset it renamed), or there is nothing to preserve.
PreserveFails(kind, n, p) ==
    \/ UNCHANGED backendVars
    \/ kind # "dir" /\ PreserveSucceeds(kind, n, p)

\* "btrfs subvolume delete" refuses a subvolume with subvolumes in it.
Holds(kind, n, p) ==
    kind = "btrfs" /\ \E q \in Within(p) \ {p} : Present(n, q)

\* The destroy command exits with success; RemoveAll also when nothing exists.
\* "zfs destroy -r" and RemoveAll take everything below with them.
DestroySucceeds(kind, n, p) ==
    /\ Present(n, p) \/ kind = "dir"
    /\ ~Holds(kind, n, p)
    /\ vol' = Emptied(n, Within(p))
    /\ UNCHANGED kept

\* "zfs destroy" and "btrfs subvolume delete" refuse a target that is missing.
DestroyRefused(kind, n, p) ==
    /\ \/ ~Present(n, p) /\ kind # "dir"
       \/ Holds(kind, n, p)
    /\ UNCHANGED backendVars

\* The destroy command fails, having done nothing, some or all of its work.
DestroyFails(kind, n, p) ==
    /\ \/ UNCHANGED vol
       \/ /\ ~Holds(kind, n, p)
          /\ \E S \in SUBSET Within(p) :
                /\ p \in S => S = Within(p)
                /\ vol' = Emptied(n, S)
    /\ UNCHANGED kept
=============================================================================
