----------------------------- MODULE Lifecycle -----------------------------
(***************************************************************************)
(* The guarded adapter lifecycle: the states of LifecycleState and the     *)
(* allow-list of lifecycle.cpp.  lifecycle_can_transition is the table     *)
(* itself; Lifecycle::transition_to takes exactly the steps it allows,     *)
(* while Lifecycle::set_state overwrites the state without consulting it.  *)
(***************************************************************************)

LifecycleStates ==
    {"declared", "validating", "valid", "loading", "loaded", "ready",
     "active", "deactivating", "migrating", "stale", "invalidated",
     "evicting", "evicted", "failed", "retired"}

\* The successors the allow-list gives each state.
Allowed ==
    [s \in LifecycleStates |->
       CASE s = "declared"     -> {"declared", "validating", "evicting",
                                   "invalidated", "retired", "failed"}
         [] s = "validating"   -> {"valid", "declared", "stale",
                                   "invalidated", "retired", "failed"}
         [] s = "valid"        -> {"valid", "validating", "loading", "stale",
                                   "invalidated", "evicting", "evicted",
                                   "retired", "failed"}
         [] s = "loading"      -> {"loaded", "ready", "stale", "invalidated",
                                   "evicting", "failed", "evicted"}
         [] s = "loaded"       -> {"ready", "loaded", "loading", "stale",
                                   "invalidated", "evicting", "failed"}
         [] s = "ready"        -> {"active", "ready", "loaded", "migrating",
                                   "stale", "invalidated", "evicting",
                                   "failed"}
         [] s = "active"       -> {"deactivating", "migrating", "stale",
                                   "invalidated", "failed", "evicting"}
         [] s = "deactivating" -> {"ready", "active", "stale", "invalidated",
                                   "evicting", "failed"}
         [] s = "migrating"    -> {"ready", "active", "stale", "invalidated",
                                   "evicting", "failed"}
         [] s = "stale"        -> {"validating", "loading", "evicting",
                                   "invalidated", "failed", "retired"}
         [] s = "invalidated"  -> {"declared", "loading", "evicting",
                                   "retired", "failed"}
         [] s = "evicting"     -> {"evicted", "invalidated", "failed",
                                   "retired"}
         [] s = "evicted"      -> {"declared", "retired", "failed"}
         [] s = "failed"       -> {"declared", "validating", "retired",
                                   "evicting", "invalidated"}
         [] s = "retired"      -> {"retired"}]

\* lifecycle_can_transition(from, to)
CanTransition(from, to) == to \in Allowed[from]

=============================================================================
