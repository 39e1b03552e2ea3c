--------------------------- MODULE MCProvisioner ---------------------------
(***************************************************************************)
(* Instances of the provisioner for TLC.  The claims have the names that   *)
(* the README's examples give theirs, in one namespace, and PathTemplate   *)
(* says where their volumes are put.                                       *)
(***************************************************************************)
EXTENDS VolumeRefinement, PathTemplate, TLC

CONSTANTS n1, n2, w1, w2, ua, ub, fast

\* Workers of one node are interchangeable.
WorkerSymmetry == Permutations(Workers)

\* Two nodes with one worker each are interchangeable, together.
NodeSymmetry == {(n1 :> n2) @@ (n2 :> n1) @@ (w1 :> w2) @@ (w2 :> w1)}

\* "data-redis-0" and "logs-redis-0", as the two claim templates of one
\* StatefulSet generate them, and a claim of its own.
Data == <<"data", "redis", "0">>
Logs == <<"logs", "redis", "0">>
Redis == <<"redis">>

JustData == {Data}
DataAndLogs == {Data, Logs}
DataAndRedis == {Data, Redis}

EachData == [u \in Uids |-> Data]
EachTemplate ==
    [u \in Uids |-> IF u = ua THEN Data ELSE Logs]
EachRedis == [u \in Uids |-> IF u = ua THEN Data ELSE Redis]

ByDefault == [u \in Uids |-> DefaultPath("databases", NameOf[u])]
ByExample == [u \in Uids |-> ExamplePath("databases", NameOf[u])]

\* The claims' paths, and the parents they lie below.
PathsMC == UNION {{SubSeq(PathOf[u], 1, k) : k \in 1..Len(PathOf[u])} : u \in Uids}
BelowMC == {pq \in Paths \X Paths : LiesBelow(pq[2], pq[1])}
ItemsMC == Nodes \X (Names \cup Uids)

OnFirstNode == [w \in Workers |-> n1]
OnePerNode == [w \in Workers |-> IF w = w1 THEN n1 ELSE n2]

OneClass == [u \in Uids |-> fast]
AllDir == [c \in Classes |-> "dir"]
AllZfs == [c \in Classes |-> "zfs"]
AllBtrfs == [c \in Classes |-> "btrfs"]
AnyNode == [c \in Classes |-> NoNode]
FirstNode == [c \in Classes |-> n1]

\* Nothing exists at first, or somebody has made the parents, as Btrfs needs it.
None == {}
Parents == Nodes \X (Paths \ {PathOf[u] : u \in Uids})
=============================================================================
