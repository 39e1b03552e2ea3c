-------------------------- MODULE VolumeLifecycle --------------------------
(***************************************************************************)
(* What the provisioner promises about a volume, seen from outside: its    *)
(* object in the API and its storage come and go in one order only.  The   *)
(* storage is there before the object and for as long as somebody may use  *)
(* it; it goes once the volume is Released, and the object goes last, so   *)
(* that there is always a record of what is left to clean up.              *)
(***************************************************************************)
CONSTANT Volumes

VARIABLES
    object,       \* the phase of each volume's object, "absent" without one
    storage       \* the volumes that have storage

vars == <<object, storage>>

Phases == {"absent", "Available", "Bound", "Released"}

TypeOK ==
    /\ object \in [Volumes -> Phases]
    /\ storage \subseteq Volumes

\* Storage that was there before may be adopted.
Init ==
    /\ object = [v \in Volumes |-> "absent"]
    /\ storage \subseteq Volumes

Turn(v, from, to) ==
    /\ object[v] \in from
    /\ object' = [object EXCEPT ![v] = to]
    /\ UNCHANGED storage

\* Storage is made only for a volume that has no object yet.
Prepare(v) ==
    /\ object[v] = "absent" /\ v \notin storage
    /\ storage' = storage \cup {v}
    /\ UNCHANGED object

\* The object appears only once there is storage.
Publish(v) == v \in storage /\ Turn(v, {"absent"}, "Available")

Bind(v) == Turn(v, {"Available"}, "Bound")

Release(v) == Turn(v, {"Available", "Bound"}, "Released")

\* The storage of a volume that nobody can use any more is taken away.
Clear(v) ==
    /\ object[v] = "Released" /\ v \in storage
    /\ storage' = storage \ {v}
    /\ UNCHANGED object

\* The object goes only when there is no storage left.
Withdraw(v) == v \notin storage /\ Turn(v, {"Released"}, "absent")

Next ==
    \E v \in Volumes :
        \/ Prepare(v) \/ Publish(v) \/ Bind(v) \/ Release(v) \/ Clear(v) \/ Withdraw(v)

Spec == Init /\ [][Next]_vars
=============================================================================
