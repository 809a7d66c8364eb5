--------------------------- MODULE ExclusiveLease ---------------------------
(***************************************************************************)
(* What the Fabric promises about activation, with no registry, worker or  *)
(* residency in sight: one lease, held by at most one adapter, granted     *)
(* under the epoch of the moment, and never passed from one adapter or one *)
(* attempt to another without being revoked in between.                    *)
(***************************************************************************)
EXTENDS Integers

CONSTANTS
    Fences,     \* what a lease may be granted on
    None        \* nobody holds the lease

VARIABLES
    holder,     \* the fence of the current lease, or None
    epoch       \* the current epoch

leaseVars == <<holder, epoch>>

Init == holder = None /\ epoch = 0

Grant(f) ==
    /\ f.epoch = epoch
    /\ holder # None => holder.adapter = f.adapter /\ holder.attempt = f.attempt
    /\ holder' = f
    /\ UNCHANGED epoch

Revoke ==
    /\ holder' = None
    /\ UNCHANGED epoch

NewEpoch ==
    /\ epoch' > epoch
    /\ UNCHANGED holder

Next == (\E f \in Fences : Grant(f)) \/ Revoke \/ NewEpoch

Spec == Init /\ [][Next]_leaseVars

=============================================================================
