--------------------------- MODULE MCVolumeState ---------------------------
(***************************************************************************)
(* A claim with three files, the second a link, UIDs of two bits, and      *)
(* declarations that say nothing; a quota, a property and an owner (that   *)
(* only fits modulo the width) for all files; the owner -1 and a mode; a   *)
(* quota that does not parse; and a property alone.                        *)
(***************************************************************************)
EXTENDS VolumeState

CONSTANT w1

TheClaim == "claim"

Undeclared == [owner |-> NoOwner, mode |-> NoMode, recursive |-> FALSE]

Plain == [quota |-> NoQuota, files |-> Undeclared, props |-> {}]
Full == [quota |-> "1Gi", props |-> {"sync"},
         files |-> [owner |-> 5, mode |-> NoMode, recursive |-> TRUE]]
Keep == [quota |-> NoQuota, props |-> {},
         files |-> [owner |-> -1, mode |-> "0750", recursive |-> FALSE]]
Synced == [quota |-> NoQuota, files |-> Undeclared, props |-> {"sync"}]
Bad == [quota |-> BadQuota, files |-> Undeclared, props |-> {}]

AllConfs == {Full, Keep, Bad}
TwoConfs == {Plain, Full}
PropertyOrNot == {Plain, Synced}

TreeMC == [e \in 1..3 |-> [owner |-> 0, mode |-> "0755"]]
=============================================================================
