----------------------------- MODULE Migration ------------------------------
(***************************************************************************)
(* MigrationStateMachine (migration.hpp, migration.cpp): the phases through *)
(* which an adapter's state moves from one worker to another.  The object  *)
(* may be used again after reset(), for a plan of the same destructiveness. *)
(***************************************************************************)
EXTENDS Naturals

CONSTANT MaxAttempts    \* bound: calls of reset()

ASSUME MigrationAssumption == MaxAttempts \in Nat

VARIABLES
    phase,          \* phase_
    destructive,    \* destructive_, fixed when the object is made
    passed,         \* history: the phases this attempt has been in
    attempts        \* history: number of calls of reset()

migrationVars == <<phase, destructive, passed, attempts>>

MigrationPhases ==
    {"not_started", "source_validated", "destination_reserved",
     "transferring", "verifying", "destination_ready", "authority_promoted",
     "source_retired", "source_released", "aborted"}

IsTerminal(p) == p \in {"aborted", "source_released"}

\* The next phase of a migration that goes well.
Following ==
    [not_started          |-> "source_validated",
     source_validated     |-> "destination_reserved",
     destination_reserved |-> "transferring",
     transferring         |-> "verifying",
     verifying            |-> "destination_ready",
     destination_ready    |-> "authority_promoted",
     authority_promoted   |-> "source_retired",
     source_retired       |-> "source_released"]

\* Fault: the shortcut is open to every plan.
ShortcutForAll(next) == phase = "verifying" /\ next = "authority_promoted"

\* A destructive plan may promote the destination while it is verified.
Shortcut(next) ==
    destructive /\ phase = "verifying" /\ next = "authority_promoted"

CanAdvance(next) ==
    /\ ~IsTerminal(phase)
    /\ \/ next = Following[phase]
       \/ next = "aborted"
       \/ Shortcut(next)

\* A refused request changes nothing, so it is no step.
Advance(next) ==
    /\ CanAdvance(next)
    /\ phase' = next
    /\ passed' = passed \cup {next}
    /\ UNCHANGED <<destructive, attempts>>

Reset ==
    /\ attempts < MaxAttempts
    /\ phase' = "not_started"
    /\ passed' = {"not_started"}
    /\ attempts' = attempts + 1
    /\ UNCHANGED destructive

MigrationInit ==
    /\ phase = "not_started"
    /\ destructive \in BOOLEAN
    /\ passed = {"not_started"}
    /\ attempts = 0

MigrationNext ==
    \/ \E next \in MigrationPhases : Advance(next)
    \/ Reset

MigrationSpec == MigrationInit /\ [][MigrationNext]_migrationVars

-----------------------------------------------------------------------------

SourceRevoked == {"source_retired", "source_released"}

\* The comment above the class: "The source is not revoked before the
\* destination is proven valid, unless the plan explicitly requires destructive
\* movement."  Whatever was requested, in however many attempts, the source is
\* given up only in an attempt that validated it, moved it, verified it and
\* promoted the destination, and a plan that is not destructive has seen the
\* destination ready as well.
SourceOutlivesProof ==
    passed \cap SourceRevoked # {} =>
      /\ {"source_validated", "destination_reserved", "transferring",
          "verifying", "authority_promoted"} \subseteq passed
      /\ ~destructive => "destination_ready" \in passed

=============================================================================
