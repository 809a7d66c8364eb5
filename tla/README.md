# A TLA+ verification of Adapter Fabric

Adapter Fabric is a control plane for model adapters: a coordinator keeps the
canonical registry and decides which adapter may execute, workers hold adapter
bytes that die with their process, and clients drive both over framed TCP. This
directory holds TLA+ modules translated from the C++ sources, TLC
configurations that check them on small instances, and TLAPS proofs for every
size. Line numbers of every definition are in `PROJECT.json` ("map").

## 1. Inventory of the system

| Component | State | Operations | Used by |
|---|---|---|---|
| `Fabric` (`fabric.cpp`) | epoch, generation counters, adapters, compositions, workers, authority records, residencies, `active_fence_`, `current_attempt_`, invalidation log, capacity | `register_adapter`, `advance_epoch`, `register_worker`, `create_instance`, `check_fence`, `bind_authority`, `invalidate`, `evict`, `pin`, `unpin`, `on_worker_down`, `on_worker_restart`, `publish_composition`, `snapshot`, `recover`, `validate`, `reuse_safe` | coordinator under `state_mc_`; `af_cli` directly |
| `AuthorityFence` (`authority.hpp`) | everything an activation is bound to | `check_fence`; `validate_authority` (tests only) | Fabric |
| `Generation` (`generation.hpp`) | a 64-bit counter | `next` (saturating) | everywhere |
| `Lifecycle` (`lifecycle.cpp`) | one of 15 states | `transition_to` (allow-list), `set_state` (no check) | authority records |
| `CapacityAccountant` (`capacity.cpp`) | limits, usage, reservations per owner | `reserve`, `release`, `adjust`, `set_limit` | coordinator |
| `CoordinatorServer` (`coordinator.cpp`) | worker slots, pending requests, request counter, one thread per connection | `process_control` (17 requests), `forward_to_worker`, registration, answers, clean-up, `stop` | clients and workers |
| `WorkerService` (`worker.cpp`) | boot id, local residency | `connect_and_register`, `handle_command`, `run` | coordinator |
| transport (`transport.cpp`) | a socket, `write_lock_` | `send_frame`, `recv_frame` | coordinator, worker |
| protocol codec (`protocol.cpp`, `BinWriter`, `BinReader`) | the reader's position | encode and decode of messages and fences | coordinator, worker |
| `Uuid`, `Rng` | the state of one generator per process, fixed seed | `generate` | `create_instance`, `build` |
| `CompositionBuilder` | members | `add`, `build` | `publish_composition` |
| `MigrationStateMachine` | phase | `advance`, `reset` | tests, examples |
| compatibility | none | `evaluate_compatibility` | `validate` |
| persistence | none | snapshot codec | `snapshot`/`recover` |

Interaction. A client request runs on its connection's thread in
`process_control`. It enters the Fabric under `state_mc_`, leaves it, forwards a
command to the worker's socket with no lock held, waits on a condition variable
for the answer, and enters the Fabric again. The worker connection's own thread
hands answers to waiters through `pending_` and, when the socket closes, clears
the slot, aborts the pending requests and calls `on_worker_down`, in three
separate critical sections.

Where it is hard: state read before a forward and used after it; a worker that
dies or comes back (under another boot or the same one) while its old
connection is still being cleaned up; answers and aborts racing with waiters;
old fences presented again; a shutdown while requests are under way; frames that
are written by several threads, in pieces, and abandoned half way; lengths read
from bytes; a recovered process that repeats its predecessor's ids; counters at
their limits; one of several steps failing. `PROJECT.json` lists these as hazards, each at its line.

What makes each part correct: at most one activation, and the records of it
agree (Fabric); outdated fences are refused for ever (fence, generations);
usage equals what owners hold and never exceeds the limit (capacity); an
activation never outlives its worker's boot and is granted on a current fence
only, answers go to the right waiter, reservations belong to existing instances,
every request is answered, a shutdown ends and leaves nothing behind
(coordinator); a connection is a queue of whole messages (transport); decode
gives back what was encoded and accepts nothing else (codec); a report is true of
the generation it names (compatibility); the source is kept until the destination
is proven (migration).

## 2. Modules

| Module | Models |
|---|---|
| `Lifecycle` | the lifecycle states and the allow-list |
| `Fabric` | class `Fabric`: one action per operation |
| `ExclusiveLease` | abstract specification: one lease with an epoch |
| `Capacity` | `CapacityAccountant`, counters modulo `WordSize` |
| `Coordinator` | `CoordinatorServer` with its threads, the wires and the worker processes; extends `Fabric`, instantiates `Capacity` |
| `Composition` | `CompositionBuilder`: which lists may be published, and what is frozen |
| `Recovery` | `publish_composition`, `snapshot`, the checks of `deserialize_snapshot`, `recover`; extends `Fabric`, uses `Composition` |
| `Channel` | abstract specification: one direction of a connection as a queue of messages |
| `Framing` | `TcpSocket::send_frame` and `recv_frame`, byte by byte |
| `Codec` | `BinWriter`, `BinReader` and the codecs of messages and fences |
| `Compatibility` | `evaluate_compatibility`, `Fabric::validate`, `explain_compatibility` |
| `Migration` | `MigrationStateMachine` |
| `MCFabric`, `MCCoordinator`, `MCRecovery`, `MCFraming`, `MCParts` | constants, symmetry and exploration bounds for TLC |
| `Sums` | lemmas: finite-set induction by a minimal counterexample, and what a sum over a function does when one entry changes |
| `FabricProofs`, `CapacityProofs`, `CoordinatorProofs`, `RecoveryProofs`, `FramingProofs`, `CodecProofs` | theorems about the module each is named after |
| `DecisionProofs` | theorems about `Migration` and `Compatibility` |

### Fabric

Variables have the names of the C++ members. Maps are total functions with
`None` for an absent key. A `Fabric` is not thread safe and is only used under a
lock or by one thread, so each operation is one atomic action. `FenceCurrent(f)`
is `check_fence(f)` returning `authorized`; a refused or throwing operation
changes nothing and is no step. `MarkReady`, `SetReady` and `Deactivate` are the
writes that callers make through the pointers `residency()` and
`authority_record()` hand out (`af_cli deactivate` clears `active` but not
`active_fence_`). The `Presented` fences are arbitrary: nothing assumes that a
caller is up to date.

Abstractions: ids are model values; of a descriptor only generation, revision
and footprint are kept; the fence's `composition` and `node` are never read by
the code and are left out; the invalidation log is the set of adapters it names;
instance ids are numbered in the order in which they are drawn. `ReuseSafe` is
`reuse_safe` and `ValidateAuthority` the free function `validate_authority`.

### Coordinator

Each critical section of `coordinator.cpp` is one action, so everything that can
happen between two of them is a behaviour of the model:

* a control thread moves `idle -> create -> forward -> send -> wait/failed ->
  (settle) -> idle` (`CtlX`, `LoadCreate`, `Lookup`, `Send`/`SendFails`,
  `FinishX`, `SettleLoad`);
* a worker connection's thread moves `none -> slotted -> reading -> closing ->
  aborted -> gone` (`Connect`, `RegisterState`, `HandleReply`, `Hangup`,
  `AbortPending`, `MarkDown`), by way of `leaving` when `shutdown_` is set;
* a worker process moves `none -> joining -> up -> dead` (`Connect`, `Join`,
  `HandleCommand`, `Die`, `Disconnected`);
* the main thread waits for `ctl_shutdown` and then joins all threads in `stop`
  (`CtlShutdown`, `Stop`). Nothing wakes a thread that is blocked in
  `recv_frame`: it leaves after one more frame, or when its peer goes
  (`ClientLeaves`).

`Send` publishes the pending entry and writes the frame in one step: an abort
between the two reaches the same states as an abort just after. A frame to a
dead process may vanish or make `send_frame` fail; frames a process sent before
it died may be lost. Frames on one connection arrive whole and in order, which is
what `Framing` shows of the transport. A worker never runs twice at once, but may restart with the same boot id
(`--seed`). A client uses an instance id only after the reply that carried it.
Requests that change nothing (refused fences, `ctl_validate`, `ctl_list`,
`ctl_snapshot`, `ctl_capacity`, `ping`) are no steps.

### Composition and Recovery

`Recovery` adds to `Fabric` the compositions, the part of a descriptor they read
(`manifest`: base model, target modules, and whether `read_desc` takes the
fields nothing here looks at) and `file`, the one snapshot that
somebody keeps. `Save` keeps a new one; `Damage` is a write cut short or altered
bytes, which the checksum finds. `StartRecovered` is the end of a process, a new
one with a fresh `Fabric`, and `recover` from the file, in one step because
nobody sees the fresh `Fabric` in between (`af_cli recover`, `ex_persist`);
`StartEmpty` is the same when the reader throws. The file may be arbitrarily
old. Ids of instances and compositions are draws from `Rng::instance()`, whose
seed is a constant: `NextDraw` counts them, and every process starts from the
first one. `build` draws the id before it looks for conflicts, so a list it
refuses still uses up a draw; a list `add` refuses does not. `Readable` is
`deserialize_snapshot` not throwing: `WithinCaps` are its limits on adapters,
compositions, members, workers and target modules, which only the reader has
(`MaxCount` stands for 100000), and `conforms` stands for its checks of
enumerators and format version and of the lengths of shapes, dependencies,
capabilities and constraints. The reader's limits on the lists of a worker record
are left out: nobody fills these lists.

### Framing and Channel

`Framing` is one direction of a connection: threads of the coordinator that call
`send_frame` on one socket, a buffer of a few bytes, and a worker that calls
`recv_frame` in its loop. A byte is known by what it is a byte of, and moves
alone, so `::send` and `::recv` transfer any number of them. A send may fail
after any byte (`SendError`): the lock is released, the socket stays in use, and
the rest of the frame is missing from the stream. A header that is put together
from bytes of different frames stands for any length. `Messages` is the
refinement mapping: `sent` grows with the first byte of a frame, `delivered` when
`recv_frame` returns it.

### Codec

`WriteOrder` and `ReadOrder` are the two lists of fields in `encode_*` and
`decode_*`. `Arrive` puts before the reader what was encoded, or the same bytes
cut, lengthened or with one byte replaced, either under the old checksum or under
one that fits, or any of the bytes in `Foreign` under their own checksum.
`ReadNext` reads one field with the checks of `BinReader`. Integers are little
endian with `Base` in place of 256: `Shifted` is the loop of `v >> (8 * i)`,
`Number` puts the bytes together again, and `Written` is `buf_` after each field.
`Holds` says what a field can hold; the length of a text fits a `u32`, as
`recv_frame` refuses frames of more than 64 MiB.

### Compatibility and Migration

`Compatibility` keeps the descriptor that is registered and the last report.
`Factors` is the list `evaluate_compatibility` builds, in order; `Fits` says of
each of these eight factors what it means without the order and the report;
what README.md:63-67 names beside them the code does not compare. `Migration` has the
phase and, as history, the phases the current attempt has been in.

Definitions introduced by "Fault:" are wrong variants of the definition after
them. They are used by no specification; substituting one for the definition it
precedes must make a property fail.

## 3. What TLC checks

| Run | Shows |
|---|---|
| `fabric` | `SingleActivation`, `ActivationAgrees`, `GenerationsDistinct`, `NoStaleReplay`, `AttemptPinned`, `ReuseUnambiguous` and `ImplementsLease` |
| `parts` | capacity: `UsageConserved`; `SoundBooksStaySound`: only a `set_limit` below the usage can break the books. Migration: `SourceOutlivesProof`. Compatibility: `VerdictOfGeneration`, `RefusalExplained`. Codec: `RoundTrip`, `AcceptsCanonical`, `NeverPastEnd` |
| `framing` | `ImplementsChannel`: the byte stream implements the queue; `RefusedForCause`, `CallReturns`, `SentArrives` |
| `coordinator` | `AuthorityOnLiveBoot`, `GrantIsCurrent`, `AnswersCorrelated`, `ReservationsBacked` |
| `recovery` | `ReadableWithinCaps`: the reader refuses nothing that the registry computed itself, only what is above a cap or came in with a descriptor; `CompositionsCoherent`, `CountersAhead` |
| `coordinator_live` | under fairness `AnsweredWhileServed`, `DeadWorkerRevoked`, `LeavesAfterFrame`, `StopReturns`; and `StoppedClean` |

Each of these runs but the liveness run also checks the type invariant of its
module (`parts` that of `Capacity`; the state of the other three parts has no
arithmetic that could leave its type).

Six runs each show that the code does not do what a document or comment says
(quotations in `PROJECT.json`, "findings"):

| Run | The code |
|---|---|
| `invalidated_replay` | accepts the fence it has just invalidated |
| `late_load_ack` | marks an instance ready after its worker was cleaned up |
| `stale_after_recovery` | accepts, after recovery from an older snapshot, a fence that was out of date before the crash |
| `reused_ids` | gives a new composition, after recovery, the id of a recovered one and overwrites it |
| `forward_hang` | waits for ever when the abort came before the pending entry |
| `load_over_active` | refuses every adapter for a conflict after the active one was loaded again, although none is active |

Other differences met while modelling, each visible in one action and without a
run of its own:

* ARCHITECTURE.md:13, "`ACTIVE` requires a fully current `AuthorityFence`":
  `AdvanceEpoch` and `RegisterAdapter` leave an active record as it is.
* README.md:85-87, "failure before commit rolls back partial state": `LoadCreate`
  has replaced the authority record when the worker's answer fails, and
  `FinishOther` puts nothing back.
* ARCHITECTURE.md:57, "`ctl_deactivate`/`ctl_evict` release execution authority":
  `FinishDeactivate` sets the lifecycle and leaves `active` and `active_fence_`.
* README.md:63-67: compatibility is said to be validated also against adapter
  revision, artifact generation, architecture, tensor shapes, composition
  constraints and policy generation. `Factors` has none of them, because
  `evaluate_compatibility` compares none of them: `VerdictOfGeneration` is about
  the eight factors of the code, not about the list of the document.
* README.md:87, "Capacity accounting proves no overcommit": `FinishLoad` marks an
  instance ready although its reservation was refused, so that more can be ready
  than the device holds. `ReservationsBacked` is about what is charged.
* capacity.hpp:21, reserve "Rejects overcommit": once `SetLimit` has gone below
  the usage, `limit - used` wraps and `CanReserve` holds for almost any number of bytes.
* coordinator.hpp:42, `abort_pending_for_worker(worker_id)`: `AbortPending` fails
  the requests that wait for every worker, with "worker disconnected".
* persistence.hpp:93, a snapshot is "the durable canonical state that must
  survive restart": with 100001 adapters, or a descriptor `read_desc` does not
  take, the registry is saved and cannot be recovered.
* README.md:88, "no eviction of protected/active state": `active_refs` is never
  incremented, so `CanEvict` holds for the instance of an active adapter.
* adapter.hpp, "READY requires VALID": `ValidationFactor` is never a rejection,
  and nothing else reads `validation`.
* protocol.hpp, "Strict deterministic codec": any byte but 0 is a true `ok`, and
  any byte a message type (`AcceptsCanonical` states the exception).

### Bounds, and why they are enough

* `fabric`: two adapters (contention), one worker with two boots (restart), two
  attempts (retry), generations up to 2 (so that a re-registration and
  saturation both happen), two instances, epoch up to 1. The constraint
  `FewMarks` expands a state while the epoch, the invalidated adapters and the
  ready or pinned instances add up to at most one: those marks matter to the
  properties one at a time, and the theorems of section 4 hold without it.
  Adapters, boots and attempts are symmetric.
* `parts`: one of the four parts per behaviour. Three owners and six-valued
  counters, so sums and differences wrap. Migration: all paths, three attempts.
  Compatibility: descriptors that differ from a good one in up to two factors,
  five targets, two registrations. Codec: three-valued bytes (so that a flag can
  be neither 0 nor 1), numbers of two bytes at 0 and at their largest value,
  texts and payloads with and without bytes, every single alteration of each
  encoding, and nine other sequences of bytes, some of which are accepted.
* `framing`: two writers, three calls, payloads of one and two bytes and one
  above the cap, two-byte headers and checksums, a buffer of three bytes, less
  than any frame: every frame is sent in pieces, and two abandoned frames and a
  whole one can meet in the stream.
* `coordinator`: two control threads, one worker, two connections (a death and
  a return, under the same or another boot), three forwarded requests, two
  instances and room for one: every pair of load, activation and eviction
  overlaps with the end and the return of the worker. The constraint
  `NotAllAtOnce` leaves out the states that have used up all requests, all
  instances and all connections together. One epoch advance, one pin; no
  shutdown, which `coordinator_live` has together with all operations of one
  thread. Clients, boots and attempts are symmetric.
* `recovery`: two adapters with four manifests: two that do not conflict with
  each other, one of another base model that conflicts with itself and has more
  targets than the reader takes, and one the reader refuses for another reason.
  Lists of one or two members, a cap of two on every count, generations up to 3,
  two-valued byte counters so that the total wraps, one file. The constraint
  `FewOperations` expands a state while epoch, instances, ids drawn or
  compositions, workers, invalidated adapters and, counted twice, adapters with
  one of the last two manifests add up to at most two, enough for a crash while
  an adapter is active and for a composition on either side of a recovery.
* `load_over_active`: two adapters and three requests of one client.
* `coordinator_live`: no symmetry, one client, two connections, two requests, a
  shutdown at any moment.

### Fairness

`ServerFairness` is weak fairness for each control thread, each connection
thread and each worker process: every one is an operating-system thread that
takes a step when it is able to, and none waits for a lock another holds across
a blocking call. Nothing is assumed of clients (they need not send requests), of
workers starting, or of workers dying. The main thread returns from `stop` when
all joins can (`WF_vars(Stop)`). In `Framing` a thread inside `send_frame` and
the receiver's loop go on when they can; no send need fail and no connection
break. `StopReturns` supposes that the peers go and that no request is sent after
the clean-up of its connection, the case of `forward_hang`. `AnsweredWhileServed` is restricted to
connections that have not aborted yet; without the restriction it is
`RequestReturns`, which fails.

## 4. What is proved

Each theorem holds for all values of the constants: any number of adapters,
workers, clients, connections, owners, writers, members of a composition or list
elements, bytes of any width and number, and any bounds. Every invariant that a passing run checks has one; so
have all action properties and both refinements.

| Module | Theorems |
|---|---|
| `FabricProofs` | `TypeCorrect`, `ActivationAgreement`, `Exclusivity`, `AttemptStability`, `LeaseRefinement`, `GenerationsUnique`, `StaleFenceRejected`, `ReuseSafety` |
| `CapacityProofs` | `CapacityTypeCorrect`, `Conservation`, `BooksStaySound` |
| `CoordinatorProofs` | `ServerTypeCorrect`, `ServerKeepsRegistry`, `ServerLeaseRefinement`, `ServerRejectsStale`, `PromotionIsCurrent`, `NoOrphanActivation`, `CorrelationSafe`, `ShutdownClean`, `NoCapacityLeak` |
| `RecoveryProofs` | `RecoveryTypeCorrect`, `SavedWithinCapsIsReadable`, `CountersStayAhead`, `CompositionsStayCoherent` |
| `FramingProofs` | `FramingTypeCorrect`, `RefusalsHaveCause`, `FramingIsChannel` |
| `CodecProofs` | `DecodeInvertsEncode`, `AcceptedIsCanonical`, `ReadsStayInside` |
| `DecisionProofs` | `VerdictsAreTrue`, `RefusalsAreExplained`, `SourceKept` |

### The arguments

**Fabric.** `ActivationAgrees` is the inductive invariant. `SingleActivation`
alone is not inductive: `bind_authority` looks only at `active_fence_`, so a
second active record is excluded only because every active record's fence *is*
`active_fence_` and names its own adapter. Two lemmas carry the rest:
`OnlyBindGrants` (every step but `bind_authority` keeps or ends activations) and
`BindEffect` (`bind_authority` leaves its adapter as the only active one, and a
holder it renews has the same attempt). `NoStaleReplay` needs
`GenerationsBounded`, that the counter is never behind a generation it handed
out; `ReuseUnambiguous` needs that a record with authority has the attempt in
`current_attempt_` and names an instance of its own adapter. All step lemmas are
about `FabricStep`, the union of what any user of a `Fabric` does to it, and not
about `Next`, so that the coordinator and a recovering process can use them.

**Capacity.** `UsageConserved` is inductive once the sum over owners is known to
change by as much as one entry does (`Sums`, for any finite set of owners). The
books stay sound because `reserve` and `adjust` compare before they add: under a
limit below `WordSize` no addition wraps.

**Coordinator.** Every step is a `FabricStep` or leaves the Fabric alone, so the
theorems about the Fabric carry over. The rest needs what the threads know:

* `ServerSound`: what a control thread has on its stack by its place in
  `process_control`; a request id is drawn by one thread, and while it waits its
  entry is in `pending_`; commands reach `handle_command` only behind the one
  acknowledgement of the registration, so no frame is read as another kind;
* `FramesSound` and `PendingSound`, for `AnswersCorrelated`: what travels under
  a request id is the command of the thread that drew it or an answer to that
  command, and every entry in `pending_` belongs to a waiting thread;
* `StopSound`, for `StoppedClean`: a worker counts as connected only while some
  connection of it is served, and `stop` joins all of them;
* `ReservationsSound`, for `ReservationsBacked`: an instance whose load is under
  way belongs to one load only and holds nothing until that load is settled.
  Without this a late acknowledgement could reserve twice, or for an instance
  that was evicted.

`GrantIsCurrent` needs no invariant of the threads beyond their types, only that
the records of the Fabric agree: the check that counts is the one
`bind_authority` makes itself.

**Recovery.** A recovered process is as sound as the file it read, and the file
may be arbitrarily old. The invariant (`Durable`) is therefore stated of a
snapshot, and said of the registry and of the kept file alike: each generation is
below the counter *of the same snapshot*, and each composition agrees with the
registry of the same snapshot. `ReadableWithinCaps` follows: generations are never
0, and sizes and digests are those `build` computed of the members; the caps and
the descriptors that callers bring are its premises, because nothing in the code
establishes them. That the kept file is sound is what an invariant
about the running process only would miss.

**Framing.** `FramingSound` says that while the link is up, what the receiver has
in hand followed by what is in the buffer is cut up into nonempty beginnings of
the frames of the messages that were sent and not delivered, in order; a writer
that is still sending holds the lock and owns the last piece; and every other
piece is a whole frame, unless a send was abandoned. So
without an abandoned send `recv_frame` meets whole frames only and refuses none
within its cap; after one, a frame put together from the pieces of several is
recognised by its checksum, and what is delivered stays a prefix of what was sent.

**Codec.** None of the three properties is inductive: they say what is true at
the end of the payload, or of fields without saying where they lie. `CodecSound`
says it of every position:

* `Log`: the fields read so far are the first ones of `ReadOrder`, each with a
  value its form can hold;
* `Canonical`: writing those fields again gives exactly as many bytes as have been
  read, equal to them but for a flag. This holds of any bytes at all, so at the
  end of the payload it is `AcceptsCanonical`, and `pos` never passes the end;
* `Faithful`, while the bytes are those of an encoder: the payload is
  `Encode(kind, value)` and `pos` is where the next field of `value` begins. So no
  check of the reader can fail, and what it takes is what was written.

The step from one position to the next rests on what the loops compute, which is
proved by induction for every width: `NumberOfLittleEndian` and
`LittleEndianOfNumber` (each undoes the other, for numbers that fit and for all
bytes), `FixedReads`, `TextReads` (what is made of bytes is written as those
bytes) and `FixedReadsBack`, `TextReadsBack` (what was written is read as it
was). The loops are recursive functions on `0..w`; `FiniteRecursion` shows that
such functions exist and `SetInduction` replaces the induction theorems of the
library, which take an operator as a parameter. `OrderOnce`, that no field is
listed twice, is needed to find a field again by its name.

**Compatibility.** A report about the generation that is registered was evaluated
on the descriptor that is registered, because a generation is given to one
registration only. The lemmas compute where each factor is in the list for any
number of capabilities and dependencies (`FactorsShape`), that it is rejected
exactly when it does not fit (`FactorsMatch`), and that the place in the
order of evaluation grows with the place in the list (`PlaceGrows`), so that the
first rejection is the first misfit.

**Migration.** Each phase implies the phases that must have been passed before
it; the reset starts the list again.

### What the proofs assume

Only the named assumptions of the modules, which TLC evaluates on every run:
bounds are natural numbers, `Nil`, `None`, `Nothing` and `Damaged` are no ordinary
values, presented fences are fences (`Fabric`); a word has at least one value
and the owners are finite (`Capacity`); the limit of the device fits its counter
and `None` is no operation, connection or answer (`Coordinator`); a manifest has
a base model, a sequence of target modules and the flag `conforms`, and `None` and
`Damaged` are no manifest, composition or snapshot (`Recovery`); payloads and
headers are not empty (`Framing`); the lists of a descriptor hold target
modules, dependencies and capabilities (`Compatibility`); a byte has at least two
values, widths are positive, the values that are encoded can be held by their
fields and foreign bytes are bytes (`Codec`).

### Only model-checked

* All liveness (`AnsweredWhileServed`, `DeadWorkerRevoked`, `LeavesAfterFrame`,
  `StopReturns`, `CallReturns`, `SentArrives`): proofs under fairness need
  `ENABLED`, which the prover does not handle.
* The six runs that show a violation: a counterexample needs no proof.

## 5. Not modelled

* The byte layout of descriptors, compositions and snapshots: the same primitives
  as `Codec`, some forty fields; `Recovery` models which values the reader
  refuses. Floating-point fields.
* The arithmetic of FNV-1a and splitmix64, and the text form of ids: pure
  functions; hashes are taken to have no collisions.
* Explanations other than that of a compatibility report: they turn a given
  reason into text and JSON.
* CUDA kernels, proof drivers, benchmarks and argument parsing: device arithmetic,
  scripts over the modelled operations, and I/O.
* `Lifecycle::transition_to`: no caller outside the tests.
* Frames that no encoder of this program wrote, at the level of the coordinator:
  neither it nor a worker sends any. `Codec` shows what decode makes of them.
* A second worker in the runs of `Coordinator`: the state space is beyond five
  minutes. The theorems hold for any number of workers.

## 6. Plan

Done: all modules of section 2, and the proofs of section 4.

Left, should the code grow: the byte layout of descriptors and compositions as
further kinds of `Codec`, whose lemmas are about any list of fields; a second
worker in the liveness run, once requests are aborted per worker; and
`ReadableWithinCaps` without its premises, once the registry has the limits of the reader.
