--------------------------- MODULE DecisionProofs ---------------------------
(***************************************************************************)
(* Proofs about the two parts that decide what may happen to an adapter    *)
(* and keep no state of the fabric: a migration gives up its source only   *)
(* in an attempt that has proven the destination, for any number of        *)
(* attempts, and a compatibility report says what its factors mean, for    *)
(* any descriptors and targets, lists of any length, and any number of     *)
(* registrations between validate and the use of the report.               *)
(***************************************************************************)
EXTENDS Migration, Compatibility, SequenceTheorems, WellFoundedInduction, TLAPS

-----------------------------------------------------------------------------
(* Migration.                                                              *)

\* The phases an attempt must have been in before it can be in phase p: the
\* destination may be skipped by a destructive plan, nothing else by any.
Behind ==
    [not_started          |-> {},
     source_validated     |-> {"not_started"},
     destination_reserved |-> {"source_validated"},
     transferring         |-> {"source_validated", "destination_reserved"},
     verifying            |-> {"source_validated", "destination_reserved",
                               "transferring"},
     destination_ready    |-> {"source_validated", "destination_reserved",
                               "transferring", "verifying"},
     authority_promoted   |-> {"source_validated", "destination_reserved",
                               "transferring", "verifying"},
     source_retired       |-> {"source_validated", "destination_reserved",
                               "transferring", "verifying",
                               "authority_promoted"},
     source_released      |-> {"source_validated", "destination_reserved",
                               "transferring", "verifying",
                               "authority_promoted"},
     aborted              |-> {}]

\* The inductive invariant: the history of an attempt is what its phase says,
\* and what was given up was given up for cause (also if it is aborted then).
MigrationTypeOK ==
    /\ phase \in MigrationPhases
    /\ destructive \in BOOLEAN
    /\ passed \in SUBSET MigrationPhases

MigrationSound ==
    /\ MigrationTypeOK
    /\ phase \in passed
    /\ Behind[phase] \subseteq passed
    /\ ~destructive /\ phase \in {"authority_promoted"} \cup SourceRevoked
         => "destination_ready" \in passed
    /\ SourceOutlivesProof

LEMMA AdvanceSound ==
    ASSUME MigrationSound, NEW next \in MigrationPhases, Advance(next)
    PROVE  MigrationSound'
<1>1. /\ phase \in MigrationPhases /\ destructive \in BOOLEAN
      /\ passed \subseteq MigrationPhases
  BY DEF MigrationSound, MigrationTypeOK
<1>2. /\ phase' = next /\ passed' = passed \cup {next}
      /\ destructive' = destructive
  BY DEF Advance
<1>3. MigrationTypeOK' /\ phase' \in passed'
  BY <1>1, <1>2 DEF MigrationTypeOK
<1>4. ~IsTerminal(phase) /\ (\/ next = Following[phase]
                             \/ next = "aborted"
                             \/ Shortcut(next))
  BY DEF Advance, CanAdvance
<1>5. Behind[next] \subseteq passed'
  BY <1>1, <1>2, <1>4
     DEF MigrationSound, Behind, Following, Shortcut, IsTerminal,
         MigrationPhases
<1>6. ~destructive /\ next \in {"authority_promoted"} \cup SourceRevoked
        => "destination_ready" \in passed'
  BY <1>1, <1>2, <1>4
     DEF MigrationSound, Following, Shortcut, IsTerminal, MigrationPhases,
         SourceRevoked
<1>7. SourceOutlivesProof'
  <2>1. CASE next \notin SourceRevoked
    BY <1>2, <2>1 DEF MigrationSound, SourceOutlivesProof
  <2>2. CASE next \in SourceRevoked
    BY <1>2, <1>5, <1>6, <2>2 DEF SourceOutlivesProof, SourceRevoked, Behind
  <2> QED
    BY <2>1, <2>2
<1> QED
  BY <1>2, <1>3, <1>5, <1>6, <1>7 DEF MigrationSound

LEMMA FreshSound ==
    ASSUME phase = "not_started", passed = {"not_started"},
           destructive \in BOOLEAN
    PROVE  MigrationSound
BY DEF MigrationSound, MigrationTypeOK, MigrationPhases, Behind,
   SourceRevoked, SourceOutlivesProof

\* The source is not revoked before the destination is proven valid: whatever
\* sequence of advance() and reset() callers try, source_retired is reached
\* only past validation, transfer, verification and promotion, and by a plan
\* that is not destructive only past destination_ready.
THEOREM SourceKept == MigrationSpec => []SourceOutlivesProof
<1>1. MigrationInit => MigrationSound
  BY FreshSound DEF MigrationInit
<1>2. MigrationSound /\ [MigrationNext]_migrationVars => MigrationSound'
  <2> SUFFICES ASSUME MigrationSound, [MigrationNext]_migrationVars
               PROVE  MigrationSound'
    OBVIOUS
  <2>1. CASE \E next \in MigrationPhases : Advance(next)
    BY <2>1, AdvanceSound
  <2>2. CASE Reset
    BY <2>2 DEF Reset, MigrationSound, MigrationTypeOK, MigrationPhases,
       Behind, SourceRevoked, SourceOutlivesProof
  <2>3. CASE UNCHANGED migrationVars
    BY <2>3 DEF migrationVars, MigrationSound, MigrationTypeOK,
       SourceOutlivesProof
  <2> QED
    BY <2>1, <2>2, <2>3 DEF MigrationNext
<1>3. MigrationSound => SourceOutlivesProof
  BY DEF MigrationSound
<1> QED
  BY <1>1, <1>2, <1>3, PTL DEF MigrationSpec

-----------------------------------------------------------------------------
(* The list of factors: where each one is, and what it says.               *)

Status == {"accepted", "rejected", "missing"}
Names == {"base_model", "base_model_revision", "targets", "rank", "dtype",
          "device_capability", "dependency", "dependencies", "artifact",
          "validation"}
Factor == [name : Names, status : Status]

\* A factor is one record, which passes or fails.
Passes(f, name) == f \in Factor /\ f.name = name /\ f.status # "rejected"
Fails(f, name) == f \in Factor /\ f.name = name /\ f.status = "rejected"

LEMMA Verdicts ==
    ASSUME NEW name \in Names
    PROVE  \E f, g \in Factor :
             /\ Accepted(name) = <<f>> /\ Passes(f, name)
             /\ Rejected(name) = <<g>> /\ Fails(g, name)
<1>1. PICK f \in Factor : f = [name |-> name, status |-> "accepted"]
  BY DEF Factor, Status, Names
<1>2. PICK g \in Factor : g = [name |-> name, status |-> "rejected"]
  BY DEF Factor, Status, Names
<1>3. f.name = name /\ f.status = "accepted" /\ g.name = name /\ g.status = "rejected"
  BY <1>1, <1>2
<1>4. Accepted(name) = <<f>> /\ Rejected(name) = <<g>>
  BY <1>1, <1>2 DEF Accepted, Rejected
<1> QED
  BY <1>3, <1>4 DEF Passes, Fails

\* What the single factors before the capabilities decide.
IdOk(a, b) == a = b /\ a # Nil

TargetsOk(d) ==
    /\ d.targets # <<>>
    /\ \A i \in DOMAIN d.targets :
         0 \notin {d.targets[i].in_features, d.targets[i].out_features}

RankOk(d) == d.kind \in {"lora", "generic"} => d.rank > 0

DtypeOk(d, t) ==
    \/ d.dtype \in {"f16", "bf16"} /\ HalfSupported(t)
    \/ d.dtype = "f32"

\* One element at the end of a list.
LEMMA ConcatOne ==
    ASSUME NEW s \in Seq(Factor), NEW f \in Factor
    PROVE  /\ s \o <<f>> \in Seq(Factor) /\ Len(s \o <<f>>) = Len(s) + 1
           /\ (s \o <<f>>)[Len(s) + 1] = f
           /\ \A i \in 1..Len(s) : (s \o <<f>>)[i] = s[i]
<1>0. PICK n \in Nat : n = Len(s)
  OBVIOUS
<1>1. /\ <<f>> \in Seq(Factor) /\ Len(<<f>>) = 1 /\ <<f>>[1] = f
  OBVIOUS
<1>2. PICK o : o = <<f>>
  OBVIOUS
<1>3. o \in Seq(Factor) /\ Len(o) = 1 /\ o[1] = f
  BY <1>1, <1>2
<1>4. s \o o \in Seq(Factor) /\ Len(s \o o) = n + 1
      /\ \A i \in 1..(n + 1) : (s \o o)[i] = IF i <= n THEN s[i] ELSE o[i - n]
  <2>1. /\ Len(s \o o) = Len(s) + Len(o)
        /\ \A i \in 1..(Len(s) + Len(o)) :
             (s \o o)[i] = IF i <= Len(s) THEN s[i] ELSE o[i - Len(s)]
    BY <1>3, ConcatProperties
  <2>2. s \o o \in Seq(Factor)
    BY <1>3, ConcatProperties
  <2> QED
    BY <1>0, <1>3, <2>1, <2>2
<1>5. (n + 1) - n = 1 /\ n + 1 \in 1..(n + 1) /\ ~(n + 1 <= n)
  OBVIOUS
<1>6. (s \o o)[n + 1] = f
  BY <1>3, <1>4, <1>5
<1>7. \A i \in 1..n : (s \o o)[i] = s[i]
  BY <1>4
<1> QED
  BY <1>0, <1>2, <1>4, <1>6, <1>7

\* The five factors before the capabilities.
HeadFactors(d, t) ==
    IdFactor("base_model", d.base_model, t.base_model)
    \o IdFactor("base_model_revision", d.base_model_revision,
                t.base_model_revision)
    \o TargetsFactor(d) \o RankFactor(d) \o DtypeFactor(d, t)

LEMMA HeadShape ==
    ASSUME NEW d, NEW t
    PROVE  LET h == HeadFactors(d, t) IN
           /\ h \in Seq(Factor) /\ Len(h) = 5
           /\ (IdOk(d.base_model, t.base_model) => Passes(h[1], "base_model"))
           /\ (~IdOk(d.base_model, t.base_model) => Fails(h[1], "base_model"))
           /\ (IdOk(d.base_model_revision, t.base_model_revision) => Passes(h[2], "base_model_revision"))
           /\ (~IdOk(d.base_model_revision, t.base_model_revision) => Fails(h[2], "base_model_revision"))
           /\ (TargetsOk(d) => Passes(h[3], "targets"))
           /\ (~TargetsOk(d) => Fails(h[3], "targets"))
           /\ (RankOk(d) => Passes(h[4], "rank"))
           /\ (~RankOk(d) => Fails(h[4], "rank"))
           /\ (DtypeOk(d, t) => Passes(h[5], "dtype"))
           /\ (~DtypeOk(d, t) => Fails(h[5], "dtype"))
<1>1. PICK f1 \in Factor :
        IdFactor("base_model", d.base_model, t.base_model) = <<f1>>
        /\ (IdOk(d.base_model, t.base_model) => Passes(f1, "base_model"))
           /\ (~IdOk(d.base_model, t.base_model) => Fails(f1, "base_model"))
  <2>1. /\ IdOk(d.base_model, t.base_model) =>
             IdFactor("base_model", d.base_model, t.base_model) = Accepted("base_model")
        /\ ~IdOk(d.base_model, t.base_model) =>
             IdFactor("base_model", d.base_model, t.base_model) = Rejected("base_model")
    BY DEF IdFactor, IdOk, Judged
  <2>2. PICK f, g \in Factor :
          /\ Accepted("base_model") = <<f>> /\ Passes(f, "base_model")
          /\ Rejected("base_model") = <<g>> /\ Fails(g, "base_model")
    BY Verdicts DEF Names
  <2>3. CASE IdOk(d.base_model, t.base_model)
    BY <2>1, <2>2, <2>3 DEF Passes, Fails
  <2>4. CASE ~IdOk(d.base_model, t.base_model)
    BY <2>1, <2>2, <2>4 DEF Passes, Fails
  <2> QED
    BY <2>3, <2>4
<1>2. PICK f2 \in Factor :
        IdFactor("base_model_revision", d.base_model_revision,
                 t.base_model_revision) = <<f2>>
        /\ (IdOk(d.base_model_revision, t.base_model_revision) => Passes(f2, "base_model_revision"))
           /\ (~IdOk(d.base_model_revision, t.base_model_revision) => Fails(f2, "base_model_revision"))
  <2>1. /\ IdOk(d.base_model_revision, t.base_model_revision) =>
             IdFactor("base_model_revision", d.base_model_revision,
                 t.base_model_revision) = Accepted("base_model_revision")
        /\ ~IdOk(d.base_model_revision, t.base_model_revision) =>
             IdFactor("base_model_revision", d.base_model_revision,
                 t.base_model_revision) = Rejected("base_model_revision")
    BY DEF IdFactor, IdOk, Judged
  <2>2. PICK f, g \in Factor :
          /\ Accepted("base_model_revision") = <<f>> /\ Passes(f, "base_model_revision")
          /\ Rejected("base_model_revision") = <<g>> /\ Fails(g, "base_model_revision")
    BY Verdicts DEF Names
  <2>3. CASE IdOk(d.base_model_revision, t.base_model_revision)
    BY <2>1, <2>2, <2>3 DEF Passes, Fails
  <2>4. CASE ~IdOk(d.base_model_revision, t.base_model_revision)
    BY <2>1, <2>2, <2>4 DEF Passes, Fails
  <2> QED
    BY <2>3, <2>4
<1>3. PICK f3 \in Factor :
        TargetsFactor(d) = <<f3>>
        /\ (TargetsOk(d) => Passes(f3, "targets"))
           /\ (~TargetsOk(d) => Fails(f3, "targets"))
  <2>1. /\ TargetsOk(d) =>
             TargetsFactor(d) = Accepted("targets")
        /\ ~TargetsOk(d) =>
             TargetsFactor(d) = Rejected("targets")
    BY DEF TargetsFactor, TargetsOk, Judged
  <2>2. PICK f, g \in Factor :
          /\ Accepted("targets") = <<f>> /\ Passes(f, "targets")
          /\ Rejected("targets") = <<g>> /\ Fails(g, "targets")
    BY Verdicts DEF Names
  <2>3. CASE TargetsOk(d)
    BY <2>1, <2>2, <2>3 DEF Passes, Fails
  <2>4. CASE ~TargetsOk(d)
    BY <2>1, <2>2, <2>4 DEF Passes, Fails
  <2> QED
    BY <2>3, <2>4
<1>4. PICK f4 \in Factor :
        RankFactor(d) = <<f4>>
        /\ (RankOk(d) => Passes(f4, "rank"))
           /\ (~RankOk(d) => Fails(f4, "rank"))
  <2>1. /\ RankOk(d) =>
             RankFactor(d) = Accepted("rank")
        /\ ~RankOk(d) =>
             RankFactor(d) = Rejected("rank")
    BY DEF RankFactor, RankOk, Judged
  <2>2. PICK f, g \in Factor :
          /\ Accepted("rank") = <<f>> /\ Passes(f, "rank")
          /\ Rejected("rank") = <<g>> /\ Fails(g, "rank")
    BY Verdicts DEF Names
  <2>3. CASE RankOk(d)
    BY <2>1, <2>2, <2>3 DEF Passes, Fails
  <2>4. CASE ~RankOk(d)
    BY <2>1, <2>2, <2>4 DEF Passes, Fails
  <2> QED
    BY <2>3, <2>4
<1>5. PICK f5 \in Factor :
        DtypeFactor(d, t) = <<f5>>
        /\ (DtypeOk(d, t) => Passes(f5, "dtype"))
           /\ (~DtypeOk(d, t) => Fails(f5, "dtype"))
  <2>1. /\ DtypeOk(d, t) =>
             DtypeFactor(d, t) = Accepted("dtype")
        /\ ~DtypeOk(d, t) =>
             DtypeFactor(d, t) = Rejected("dtype")
    BY DEF DtypeFactor, DtypeOk, Judged
  <2>2. PICK f, g \in Factor :
          /\ Accepted("dtype") = <<f>> /\ Passes(f, "dtype")
          /\ Rejected("dtype") = <<g>> /\ Fails(g, "dtype")
    BY Verdicts DEF Names
  <2>3. CASE DtypeOk(d, t)
    BY <2>1, <2>2, <2>3 DEF Passes, Fails
  <2>4. CASE ~DtypeOk(d, t)
    BY <2>1, <2>2, <2>4 DEF Passes, Fails
  <2> QED
    BY <2>3, <2>4
<1> DEFINE s1 == <<f1>>
           s2 == s1 \o <<f2>>
           s3 == s2 \o <<f3>>
           s4 == s3 \o <<f4>>
           s5 == s4 \o <<f5>>
<1>6. s1 \in Seq(Factor) /\ Len(s1) = 1 /\ s1[1] = f1
  OBVIOUS
<1>7. /\ s2 \in Seq(Factor) /\ Len(s2) = 2
      /\ s2[1] = f1 /\ s2[2] = f2
  <2> HIDE DEF s1
  <2>1. 1 \in Nat /\ 2 \in Nat /\ 2 = 1 + 1 /\ 1 \in 1..1
    OBVIOUS
  <2>2. /\ s2 \in Seq(Factor) /\ Len(s2) = Len(s1) + 1 /\ s2[Len(s1) + 1] = f2
        /\ \A i \in 1..Len(s1) : s2[i] = s1[i]
    BY <1>6, ConcatOne
  <2> HIDE DEF s2
  <2> QED
    BY <1>6, <2>1, <2>2
<1>8. /\ s3 \in Seq(Factor) /\ Len(s3) = 3
      /\ s3[1] = f1 /\ s3[2] = f2 /\ s3[3] = f3
  <2> HIDE DEF s2
  <2>1. 2 \in Nat /\ 3 \in Nat /\ 3 = 2 + 1 /\ 1 \in 1..2 /\ 2 \in 1..2
    OBVIOUS
  <2>2. /\ s3 \in Seq(Factor) /\ Len(s3) = Len(s2) + 1 /\ s3[Len(s2) + 1] = f3
        /\ \A i \in 1..Len(s2) : s3[i] = s2[i]
    BY <1>7, ConcatOne
  <2> HIDE DEF s3
  <2> QED
    BY <1>7, <2>1, <2>2
<1>9. /\ s4 \in Seq(Factor) /\ Len(s4) = 4
      /\ s4[1] = f1 /\ s4[2] = f2 /\ s4[3] = f3 /\ s4[4] = f4
  <2> HIDE DEF s3
  <2>1. 3 \in Nat /\ 4 \in Nat /\ 4 = 3 + 1 /\ 1 \in 1..3 /\ 2 \in 1..3 /\ 3 \in 1..3
    OBVIOUS
  <2>2. /\ s4 \in Seq(Factor) /\ Len(s4) = Len(s3) + 1 /\ s4[Len(s3) + 1] = f4
        /\ \A i \in 1..Len(s3) : s4[i] = s3[i]
    BY <1>8, ConcatOne
  <2> HIDE DEF s4
  <2> QED
    BY <1>8, <2>1, <2>2
<1>10. /\ s5 \in Seq(Factor) /\ Len(s5) = 5
      /\ s5[1] = f1 /\ s5[2] = f2 /\ s5[3] = f3 /\ s5[4] = f4 /\ s5[5] = f5
  <2> HIDE DEF s4
  <2>1. 4 \in Nat /\ 5 \in Nat /\ 5 = 4 + 1 /\ 1 \in 1..4 /\ 2 \in 1..4 /\ 3 \in 1..4 /\ 4 \in 1..4
    OBVIOUS
  <2>2. /\ s5 \in Seq(Factor) /\ Len(s5) = Len(s4) + 1 /\ s5[Len(s4) + 1] = f5
        /\ \A i \in 1..Len(s4) : s5[i] = s4[i]
    BY <1>9, ConcatOne
  <2> HIDE DEF s5
  <2> QED
    BY <1>9, <2>1, <2>2
<1>11. HeadFactors(d, t) = s5
  BY <1>1, <1>2, <1>3, <1>4, <1>5 DEF HeadFactors
<1> HIDE DEF s5
<1> QED
  BY <1>1, <1>2, <1>3, <1>4, <1>5, <1>10, <1>11

\* The capabilities: at least one factor, rejected where one is not satisfied.
LEMMA CapabilityShape ==
    ASSUME NEW d \in Descriptors, NEW t
    PROVE  LET c == CapabilityFactors(d, t) IN
           /\ c \in Seq(Factor) /\ Len(c) >= 1
           /\ \A i \in 1..Len(c) :
                c[i].status = "rejected" =>
                  /\ c[i].name = "device_capability"
                  /\ \E j \in DOMAIN d.capabilities : ~Satisfied(d.capabilities[j], t)
           /\ \A j \in DOMAIN d.capabilities : ~Satisfied(d.capabilities[j], t) =>
                \E i \in 1..Len(c) : c[i].status = "rejected"
<1> DEFINE c == CapabilityFactors(d, t)
           cs == d.capabilities
<1>1. cs \in Seq(RuntimeCapability)
  BY DescriptorAssumption
<1>2. CASE cs = <<>>
  <2>1. PICK f \in Factor : f = [name |-> "device_capability", status |-> "missing"]
    BY DEF Factor, Status, Names
  <2>2. c = <<f>>
    BY <1>2, <2>1 DEF CapabilityFactors, Missing
  <2>3. c \in Seq(Factor) /\ Len(c) = 1 /\ c[1] = f
    BY <2>2
  <2>4. f.status # "rejected"
    BY <2>1
  <2>5. DOMAIN cs = {}
    BY <1>2
  <2> HIDE DEF c, cs
  <2>6. \A i \in 1..Len(c) : c[i] = f
    BY <2>3
  <2>7. 1 >= 1
    OBVIOUS
  <2> QED
    BY <2>3, <2>4, <2>5, <2>6, <2>7 DEF c, cs
<1>3. CASE cs # <<>>
  <2>1. PICK n \in Nat : n = Len(cs) /\ DOMAIN cs = 1..n /\ n >= 1
    BY <1>1, <1>3
  <2>3. PICK f, g \in Factor :
          /\ Accepted("device_capability") = <<f>> /\ Passes(f, "device_capability")
          /\ Rejected("device_capability") = <<g>> /\ Fails(g, "device_capability")
    BY Verdicts DEF Names
  <2>4. c = [j \in 1..n |-> Judged("device_capability", Satisfied(cs[j], t))[1]]
    BY <1>3, <2>1 DEF CapabilityFactors
  <2>5. \A j \in 1..n : /\ Satisfied(cs[j], t) => c[j] = f
                        /\ ~Satisfied(cs[j], t) => c[j] = g
    <3> SUFFICES ASSUME NEW j \in 1..n
                 PROVE  /\ Satisfied(cs[j], t) => c[j] = f
                        /\ ~Satisfied(cs[j], t) => c[j] = g
      OBVIOUS
    <3>1. c[j] = Judged("device_capability", Satisfied(cs[j], t))[1]
      BY <2>4
    <3>2. <<f>>[1] = f /\ <<g>>[1] = g
      OBVIOUS
    <3> HIDE DEF c, cs
    <3> QED
      BY <2>3, <3>1, <3>2 DEF Judged
  <2> HIDE DEF c, cs
  <2>6. c \in [1..n -> Factor]
    BY <2>4, <2>5
  <2>7. c \in Seq(Factor) /\ Len(c) = n
    BY <2>6
  <2>8. \A j \in 1..n : c[j].name = "device_capability"
                        /\ (c[j].status = "rejected" <=> ~Satisfied(cs[j], t))
    BY <2>3, <2>5 DEF Passes, Fails
  <2> QED
    BY <2>1, <2>7, <2>8 DEF c, cs
<1> QED
  BY <1>2, <1>3

\* The dependencies: at least one factor, rejected where a version is missing.
LEMMA DependencyShape ==
    ASSUME NEW d \in Descriptors
    PROVE  LET e == DependencyFactors(d) IN
           /\ e \in Seq(Factor) /\ Len(e) >= 1
           /\ \A i \in 1..Len(e) :
                e[i].status = "rejected" =>
                  /\ e[i].name = "dependency"
                  /\ \E j \in DOMAIN d.dependencies : d.dependencies[j].version = ""
           /\ \A j \in DOMAIN d.dependencies : d.dependencies[j].version = "" =>
                \E i \in 1..Len(e) : e[i].status = "rejected"
<1> DEFINE e == DependencyFactors(d)
           ds == d.dependencies
<1>1. ds \in Seq(Dependency)
  BY DescriptorAssumption
<1>2. CASE ds = <<>>
  <2>1. PICK f \in Factor : f = [name |-> "dependencies", status |-> "accepted"]
    BY DEF Factor, Status, Names
  <2>2. e = <<f>>
    BY <1>2, <2>1 DEF DependencyFactors, Accepted
  <2>3. e \in Seq(Factor) /\ Len(e) = 1 /\ e[1] = f
    BY <2>2
  <2>4. f.status # "rejected"
    BY <2>1
  <2>5. DOMAIN ds = {}
    BY <1>2
  <2> HIDE DEF e, ds
  <2>6. \A i \in 1..Len(e) : e[i] = f
    BY <2>3
  <2>7. 1 >= 1
    OBVIOUS
  <2> QED
    BY <2>3, <2>4, <2>5, <2>6, <2>7 DEF e, ds
<1>3. CASE ds # <<>>
  <2>1. PICK n \in Nat : n = Len(ds) /\ DOMAIN ds = 1..n /\ n >= 1
    BY <1>1, <1>3
  <2>3. PICK f, g \in Factor :
          /\ Accepted("dependency") = <<f>> /\ Passes(f, "dependency")
          /\ Rejected("dependency") = <<g>> /\ Fails(g, "dependency")
    BY Verdicts DEF Names
  <2>4. e = [j \in 1..n |-> Judged("dependency", ds[j].version # "")[1]]
    BY <1>3, <2>1 DEF DependencyFactors
  <2>5. \A j \in 1..n : /\ ds[j].version # "" => e[j] = f
                        /\ ds[j].version = "" => e[j] = g
    <3> SUFFICES ASSUME NEW j \in 1..n
                 PROVE  /\ ds[j].version # "" => e[j] = f
                        /\ ds[j].version = "" => e[j] = g
      OBVIOUS
    <3>1. e[j] = Judged("dependency", ds[j].version # "")[1]
      BY <2>4
    <3>2. <<f>>[1] = f /\ <<g>>[1] = g
      OBVIOUS
    <3> HIDE DEF e, ds
    <3> QED
      BY <2>3, <3>1, <3>2 DEF Judged
  <2> HIDE DEF e, ds
  <2>6. e \in [1..n -> Factor]
    BY <2>4, <2>5
  <2>7. e \in Seq(Factor) /\ Len(e) = n
    BY <2>6
  <2>8. \A j \in 1..n : e[j].name = "dependency"
                        /\ (e[j].status = "rejected" <=> ds[j].version = "")
    BY <2>3, <2>5 DEF Passes, Fails
  <2> QED
    BY <2>1, <2>7, <2>8 DEF e, ds
<1> QED
  BY <1>2, <1>3

\* Two lists, one after the other.
LEMMA ConcatTwo ==
    ASSUME NEW s \in Seq(Factor), NEW r \in Seq(Factor)
    PROVE  /\ s \o r \in Seq(Factor) /\ Len(s \o r) = Len(s) + Len(r)
           /\ \A i \in 1..Len(s) : (s \o r)[i] = s[i]
           /\ \A i \in 1..Len(r) : (s \o r)[Len(s) + i] = r[i]
<1>1. PICK n \in Nat : n = Len(s)
  OBVIOUS
<1>2. PICK m \in Nat : m = Len(r)
  OBVIOUS
<1>3. /\ s \o r \in Seq(Factor) /\ Len(s \o r) = n + m
      /\ \A i \in 1..(n + m) : (s \o r)[i] = IF i <= n THEN s[i] ELSE r[i - n]
  BY <1>1, <1>2, ConcatProperties
<1>4. \A i \in 1..n : (s \o r)[i] = s[i]
  BY <1>3
<1>5. ASSUME NEW i \in 1..m
      PROVE  (s \o r)[n + i] = r[i]
  <2>1. n + i \in 1..(n + m) /\ ~(n + i <= n) /\ (n + i) - n = i
    OBVIOUS
  <2> QED
    BY <1>3, <2>1
<1> QED
  BY <1>1, <1>2, <1>3, <1>4, <1>5

\* Where the factors are: the head h, c capabilities cs, e dependencies es, then
\* the artifact and the validation.
LaidOut(F, h, cs, es, d, c, e) ==
    /\ c = Len(cs) /\ e = Len(es)
    /\ F \in Seq(Factor) /\ Len(F) = 7 + c + e
    /\ \A i \in 1..5 : F[i] = h[i]
    /\ \A i \in 1..c : F[5 + i] = cs[i]
    /\ \A i \in 1..e : F[5 + c + i] = es[i]
    /\ d.artifact_digest # "" => Passes(F[6 + c + e], "artifact")
    /\ d.artifact_digest = "" => Fails(F[6 + c + e], "artifact")
    /\ F[7 + c + e].status # "rejected"

LEMMA FactorsShape ==
    ASSUME NEW d \in Descriptors, NEW t
    PROVE  \E c, e \in Nat :
             LaidOut(Factors(d, t), HeadFactors(d, t), CapabilityFactors(d, t),
                     DependencyFactors(d), d, c, e)
<1> DEFINE h == HeadFactors(d, t)
           cs == CapabilityFactors(d, t)
           es == DependencyFactors(d)
           F == Factors(d, t)
<1>1. h \in Seq(Factor) /\ Len(h) = 5
  BY HeadShape
<1>2. cs \in Seq(Factor) /\ es \in Seq(Factor)
  BY CapabilityShape, DependencyShape
<1>3. PICK c \in Nat : c = Len(cs)
  BY <1>2
<1>4. PICK e \in Nat : e = Len(es)
  BY <1>2
<1>5. PICK a \in Factor :
        /\ ArtifactFactor(d) = <<a>>
        /\ d.artifact_digest # "" => Passes(a, "artifact")
        /\ d.artifact_digest = "" => Fails(a, "artifact")
  <2>1. PICK f, g \in Factor :
          /\ Accepted("artifact") = <<f>> /\ Passes(f, "artifact")
          /\ Rejected("artifact") = <<g>> /\ Fails(g, "artifact")
    BY Verdicts DEF Names
  <2>2. CASE d.artifact_digest # ""
    BY <2>1, <2>2 DEF ArtifactFactor, Judged
  <2>3. CASE d.artifact_digest = ""
    BY <2>1, <2>3 DEF ArtifactFactor, Judged
  <2> QED
    BY <2>2, <2>3
<1>6. PICK v \in Factor : ValidationFactor(d) = <<v>> /\ v.status # "rejected"
  <2>1. PICK f, g \in Factor :
          /\ Accepted("validation") = <<f>> /\ Passes(f, "validation")
          /\ Rejected("validation") = <<g>> /\ Fails(g, "validation")
    BY Verdicts DEF Names
  <2>2. PICK m \in Factor : m = [name |-> "validation", status |-> "missing"]
    BY DEF Factor, Status, Names
  <2>3. Missing("validation") = <<m>> /\ m.status # "rejected"
    BY <2>2 DEF Missing
  <2>4. CASE d.validation = "valid"
    BY <2>1, <2>4 DEF ValidationFactor, Passes
  <2>5. CASE d.validation # "valid"
    BY <2>3, <2>5 DEF ValidationFactor
  <2> QED
    BY <2>4, <2>5
<1> DEFINE s6 == h \o cs
           s7 == s6 \o es
           s8 == s7 \o <<a>>
           s9 == s8 \o <<v>>
<1>7. F = s9
  BY <1>5, <1>6 DEF Factors, HeadFactors
<1> HIDE DEF h, cs, es, F
<1>8. /\ s6 \in Seq(Factor) /\ Len(s6) = 5 + c
      /\ \A i \in 1..5 : s6[i] = h[i]
      /\ \A i \in 1..c : s6[5 + i] = cs[i]
  <2>1. /\ s6 \in Seq(Factor) /\ Len(s6) = Len(h) + Len(cs)
        /\ \A i \in 1..Len(h) : s6[i] = h[i]
        /\ \A i \in 1..Len(cs) : s6[Len(h) + i] = cs[i]
    BY <1>1, <1>2, ConcatTwo
  <2> HIDE DEF s6
  <2> QED
    BY <1>1, <1>3, <2>1
<1> HIDE DEF s6
<1>9. /\ s7 \in Seq(Factor) /\ Len(s7) = 5 + c + e
      /\ \A i \in 1..(5 + c) : s7[i] = s6[i]
      /\ \A i \in 1..e : s7[5 + c + i] = es[i]
  <2>1. /\ s7 \in Seq(Factor) /\ Len(s7) = Len(s6) + Len(es)
        /\ \A i \in 1..Len(s6) : s7[i] = s6[i]
        /\ \A i \in 1..Len(es) : s7[Len(s6) + i] = es[i]
    BY <1>2, <1>8, ConcatTwo
  <2> HIDE DEF s7
  <2> QED
    BY <1>4, <1>8, <2>1
<1> HIDE DEF s7
<1>10. /\ s8 \in Seq(Factor) /\ Len(s8) = (5 + c + e) + 1
       /\ \A i \in 1..(5 + c + e) : s8[i] = s7[i]
       /\ s8[(5 + c + e) + 1] = a
  BY <1>9, ConcatOne
<1> HIDE DEF s8
<1>11. /\ s9 \in Seq(Factor) /\ Len(s9) = (6 + c + e) + 1
       /\ \A i \in 1..(6 + c + e) : s9[i] = s8[i]
       /\ s9[(6 + c + e) + 1] = v
  <2>1. Len(s8) = 6 + c + e
    BY <1>10
  <2> QED
    BY <1>10, <2>1, ConcatOne
<1> HIDE DEF s9
<1>12. s9[7 + c + e] = v /\ s9[6 + c + e] = a /\ Len(s9) = 7 + c + e
  <2>1. (6 + c + e) + 1 = 7 + c + e /\ (5 + c + e) + 1 = 6 + c + e
        /\ 6 + c + e \in 1..(6 + c + e)
    OBVIOUS
  <2> QED
    BY <1>10, <1>11, <2>1
<1>13. \A i \in 1..5 : s9[i] = h[i]
  <2>1. \A i \in 1..5 : i \in 1..(5 + c) /\ i \in 1..(5 + c + e) /\ i \in 1..(6 + c + e)
    OBVIOUS
  <2> QED
    BY <1>8, <1>9, <1>10, <1>11, <2>1
<1>14. \A i \in 1..c : s9[5 + i] = cs[i]
  <2>1. \A i \in 1..c : 5 + i \in 1..(5 + c) /\ 5 + i \in 1..(5 + c + e)
                        /\ 5 + i \in 1..(6 + c + e)
    OBVIOUS
  <2> QED
    BY <1>8, <1>9, <1>10, <1>11, <2>1
<1>15. \A i \in 1..e : s9[5 + c + i] = es[i]
  <2>1. \A i \in 1..e : 5 + c + i \in 1..(5 + c + e) /\ 5 + c + i \in 1..(6 + c + e)
    OBVIOUS
  <2> QED
    BY <1>9, <1>10, <1>11, <2>1
<1> QED
  <2>1. LaidOut(F, h, cs, es, d, c, e)
    BY <1>3, <1>4, <1>5, <1>6, <1>7, <1>11, <1>12, <1>13, <1>14, <1>15 DEF LaidOut
  <2> QED
    BY <2>1 DEF h, cs, es, F

-----------------------------------------------------------------------------
(* What a factor decides is what the factor is about.                      *)

\* A product of naturals is positive when neither factor is zero.
LEMMA PositiveProduct ==
    ASSUME NEW a \in Nat, NEW b \in Nat
    PROVE  a * b > 0 <=> 0 \notin {a, b}
<1>1. CASE a = 0
  BY <1>1
<1>2. CASE b = 0
  BY <1>2
<1>3. CASE a # 0 /\ b # 0
  BY <1>3
<1> QED
  BY <1>1, <1>2, <1>3

LEMMA TargetsMeaning ==
    ASSUME NEW d \in Descriptors, NEW t
    PROVE  Fits("targets", d, t) <=> TargetsOk(d)
<1>1. Fits("targets", d, t) <=>
        /\ Len(d.targets) > 0
        /\ \A m \in ToSet(d.targets) : m.in_features * m.out_features > 0
  BY DEF Fits
<1>2. PICK s \in Seq(TargetModule) : s = d.targets
  BY DescriptorAssumption
<1>3. Len(s) > 0 <=> s # <<>>
  OBVIOUS
<1>4. \A i \in DOMAIN s : s[i].in_features \in Nat /\ s[i].out_features \in Nat
  <2>1. \A i \in DOMAIN s : s[i] \in TargetModule
    OBVIOUS
  <2> QED
    BY <2>1 DEF TargetModule
<1>5. \A i \in DOMAIN s : s[i].in_features * s[i].out_features > 0
                          <=> 0 \notin {s[i].in_features, s[i].out_features}
  BY <1>4, PositiveProduct
<1>6. ToSet(s) = {s[i] : i \in DOMAIN s}
  BY DEF ToSet
<1>7. (\A m \in ToSet(s) : m.in_features * m.out_features > 0) <=>
        \A i \in DOMAIN s : s[i].in_features * s[i].out_features > 0
  BY <1>6, Zenon
<1> QED
  BY <1>1, <1>2, <1>3, <1>5, <1>7 DEF TargetsOk

LEMMA CapabilityMeaning ==
    ASSUME NEW d \in Descriptors, NEW t
    PROVE  Fits("device_capability", d, t) <=>
             \A j \in DOMAIN d.capabilities : Satisfied(d.capabilities[j], t)
<1> DEFINE Offered(c) == {t.runtime_capabilities[n] :
                            n \in DOMAIN t.runtime_capabilities \cap {c.name}}
           Suits(c) == Offered(c) \subseteq {c.value} /\ (c.required => Offered(c) # {})
<1>1. Fits("device_capability", d, t) <=> \A c \in ToSet(d.capabilities) : Suits(c)
  BY DEF Fits
<1>2. PICK s \in Seq(RuntimeCapability) : s = d.capabilities
  BY DescriptorAssumption
<1>3. ASSUME NEW c \in RuntimeCapability
      PROVE  Suits(c) <=> Satisfied(c, t)
  <2>1. c.required \in BOOLEAN
    BY DEF RuntimeCapability
  <2>2. CASE c.name \in DOMAIN t.runtime_capabilities
    <3>1. Offered(c) = {t.runtime_capabilities[c.name]}
      BY <2>2
    <3> QED
      BY <2>2, <3>1 DEF Satisfied
  <2>3. CASE c.name \notin DOMAIN t.runtime_capabilities
    <3>1. Offered(c) = {}
      BY <2>3
    <3> QED
      BY <2>1, <2>3, <3>1 DEF Satisfied
  <2> QED
    BY <2>2, <2>3
<1>4. \A j \in DOMAIN s : s[j] \in RuntimeCapability
  OBVIOUS
<1>5. ToSet(s) = {s[i] : i \in DOMAIN s}
  BY DEF ToSet
<1> HIDE DEF Suits
<1>6. (\A c \in ToSet(s) : Suits(c)) <=> \A j \in DOMAIN s : Suits(s[j])
  BY <1>5, Zenon
<1>7. (\A j \in DOMAIN s : Suits(s[j])) <=> \A j \in DOMAIN s : Satisfied(s[j], t)
  BY <1>3, <1>4
<1> QED
  BY <1>1, <1>2, <1>6, <1>7

LEMMA DependencyMeaning ==
    ASSUME NEW d, NEW t
    PROVE  Fits("dependency", d, t) <=>
             \A j \in DOMAIN d.dependencies : d.dependencies[j].version # ""
<1>1. Fits("dependency", d, t) <=> "" \notin {x.version : x \in ToSet(d.dependencies)}
  BY DEF Fits
<1>2. PICK s : s = d.dependencies
  OBVIOUS
<1>3. ToSet(s) = {s[i] : i \in DOMAIN s}
  BY DEF ToSet
<1>4. "" \notin {x.version : x \in ToSet(s)} <=>
        \A j \in DOMAIN s : s[j].version # ""
  BY <1>3
<1> QED
  BY <1>1, <1>2, <1>4

LEMMA SingleMeaning ==
    ASSUME NEW d, NEW t
    PROVE  /\ Fits("base_model", d, t) <=> IdOk(d.base_model, t.base_model)
           /\ Fits("base_model_revision", d, t) <=>
                IdOk(d.base_model_revision, t.base_model_revision)
           /\ Fits("rank", d, t) <=> RankOk(d)
           /\ Fits("dtype", d, t) <=> DtypeOk(d, t)
           /\ Fits("artifact", d, t) <=> d.artifact_digest # ""
<1>1. /\ Fits("base_model", d, t) <=> IdOk(d.base_model, t.base_model)
      /\ Fits("base_model_revision", d, t) <=>
           IdOk(d.base_model_revision, t.base_model_revision)
      /\ Fits("artifact", d, t) <=> d.artifact_digest # ""
  BY DEF Fits, IdOk
<1>2. Fits("rank", d, t) <=> RankOk(d)
  BY DEF Fits, RankOk
<1>3. Fits("dtype", d, t) <=> DtypeOk(d, t)
  <2>1. Fits("dtype", d, t) <=>
          \/ d.dtype = "f32"
          \/ /\ d.dtype \in {"f16", "bf16"}
             /\ <<"fp16", "supported">> \in
                  {<<n, t.runtime_capabilities[n]>> :
                     n \in DOMAIN t.runtime_capabilities}
    BY DEF Fits
  <2>2. <<"fp16", "supported">> \in
          {<<n, t.runtime_capabilities[n]>> : n \in DOMAIN t.runtime_capabilities}
        <=> HalfSupported(t)
    BY DEF HalfSupported
  <2> QED
    BY <2>1, <2>2 DEF DtypeOk
<1> QED
  BY <1>1, <1>2, <1>3

-----------------------------------------------------------------------------
(* The first rejection is the first thing that does not fit.               *)

\* The place in FactorOrder of the i-th factor, with c capabilities and e
\* dependencies; the last factor, the validation, is never rejected.
Place(i, c, e) ==
    IF i <= 5 THEN i
    ELSE IF i <= 5 + c THEN 6
    ELSE IF i <= 5 + c + e THEN 7
    ELSE IF i = 6 + c + e THEN 8
    ELSE 9

LEMMA PlaceGrows ==
    ASSUME NEW c \in Nat, NEW e \in Nat, NEW i \in Nat, NEW j \in Nat, i <= j
    PROVE  Place(i, c, e) <= Place(j, c, e)
BY DEF Place

LEMMA OrderOfFactors ==
    /\ DOMAIN FactorOrder = 1..8
    /\ FactorOrder[1] = "base_model" /\ FactorOrder[2] = "base_model_revision"
    /\ FactorOrder[3] = "targets" /\ FactorOrder[4] = "rank"
    /\ FactorOrder[5] = "dtype" /\ FactorOrder[6] = "device_capability"
    /\ FactorOrder[7] = "dependency" /\ FactorOrder[8] = "artifact"
BY DEF FactorOrder

\* The i-th factor of F is a rejection.
RejectedAt(F, i) == i \in 1..Len(F) /\ F[i].status = "rejected"

\* Everything that does not fit has a rejection at its place, and nothing else.
Matching(F, c, e, d, t) ==
    /\ \A i \in 1..Len(F) : RejectedAt(F, i) =>
         /\ Place(i, c, e) \in 1..8
         /\ F[i].name = FactorOrder[Place(i, c, e)]
         /\ ~Fits(FactorOrder[Place(i, c, e)], d, t)
    /\ \A k \in 1..8 : ~Fits(FactorOrder[k], d, t) =>
         \E i \in 1..Len(F) : RejectedAt(F, i) /\ Place(i, c, e) = k

LEMMA FactorsMatch ==
    ASSUME NEW d \in Descriptors, NEW t
    PROVE  /\ Factors(d, t) \in Seq(Factor)
           /\ \E c, e \in Nat : Matching(Factors(d, t), c, e, d, t)
<1> DEFINE h == HeadFactors(d, t)
           cs == CapabilityFactors(d, t)
           es == DependencyFactors(d)
           F == Factors(d, t)
<1>0. PICK c, e \in Nat : LaidOut(F, h, cs, es, d, c, e)
  BY FactorsShape
<1>1. /\ c = Len(cs) /\ e = Len(es)
      /\ F \in Seq(Factor) /\ Len(F) = 7 + c + e
      /\ \A i \in 1..5 : F[i] = h[i]
      /\ \A i \in 1..c : F[5 + i] = cs[i]
      /\ \A i \in 1..e : F[5 + c + i] = es[i]
      /\ d.artifact_digest # "" => Passes(F[6 + c + e], "artifact")
      /\ d.artifact_digest = "" => Fails(F[6 + c + e], "artifact")
      /\ F[7 + c + e].status # "rejected"
  BY <1>0 DEF LaidOut
<1>2. /\ (IdOk(d.base_model, t.base_model) => Passes(h[1], "base_model"))
      /\ (~IdOk(d.base_model, t.base_model) => Fails(h[1], "base_model"))
      /\ (IdOk(d.base_model_revision, t.base_model_revision) => Passes(h[2], "base_model_revision"))
      /\ (~IdOk(d.base_model_revision, t.base_model_revision) => Fails(h[2], "base_model_revision"))
      /\ (TargetsOk(d) => Passes(h[3], "targets"))
      /\ (~TargetsOk(d) => Fails(h[3], "targets"))
      /\ (RankOk(d) => Passes(h[4], "rank"))
      /\ (~RankOk(d) => Fails(h[4], "rank"))
      /\ (DtypeOk(d, t) => Passes(h[5], "dtype"))
      /\ (~DtypeOk(d, t) => Fails(h[5], "dtype"))
  BY HeadShape
<1>3. /\ \A i \in 1..Len(cs) :
           cs[i].status = "rejected" =>
             /\ cs[i].name = "device_capability"
             /\ \E j \in DOMAIN d.capabilities : ~Satisfied(d.capabilities[j], t)
      /\ \A j \in DOMAIN d.capabilities : ~Satisfied(d.capabilities[j], t) =>
           \E i \in 1..Len(cs) : cs[i].status = "rejected"
  BY CapabilityShape
<1>4. /\ \A i \in 1..Len(es) :
           es[i].status = "rejected" =>
             /\ es[i].name = "dependency"
             /\ \E j \in DOMAIN d.dependencies : d.dependencies[j].version = ""
      /\ \A j \in DOMAIN d.dependencies : d.dependencies[j].version = "" =>
           \E i \in 1..Len(es) : es[i].status = "rejected"
  BY DependencyShape
<1> HIDE DEF h, cs, es, F
<1>5. /\ \A i \in 1..c : F[5 + i].status = "rejected" =>
           F[5 + i].name = "device_capability" /\ ~Fits("device_capability", d, t)
      /\ ~Fits("device_capability", d, t) =>
           \E i \in 1..c : F[5 + i].status = "rejected"
  <2>1. /\ \A i \in 1..c : cs[i].status = "rejected" =>
             cs[i].name = "device_capability" /\ ~Fits("device_capability", d, t)
        /\ ~Fits("device_capability", d, t) =>
             \E i \in 1..c : cs[i].status = "rejected"
    <3>1. c = Len(cs)
      BY <1>1
    <3>2. Fits("device_capability", d, t) <=>
            \A j \in DOMAIN d.capabilities : Satisfied(d.capabilities[j], t)
      BY CapabilityMeaning
    <3> QED
      BY <1>3, <3>1, <3>2
  <2>2. \A i \in 1..c : F[5 + i] = cs[i]
    BY <1>1
  <2> QED
    BY <2>1, <2>2
<1>6. /\ \A i \in 1..e : F[5 + c + i].status = "rejected" =>
           F[5 + c + i].name = "dependency" /\ ~Fits("dependency", d, t)
      /\ ~Fits("dependency", d, t) =>
           \E i \in 1..e : F[5 + c + i].status = "rejected"
  <2>1. /\ \A i \in 1..e : es[i].status = "rejected" =>
             es[i].name = "dependency" /\ ~Fits("dependency", d, t)
        /\ ~Fits("dependency", d, t) =>
             \E i \in 1..e : es[i].status = "rejected"
    <3>1. e = Len(es)
      BY <1>1
    <3>2. Fits("dependency", d, t) <=>
            \A j \in DOMAIN d.dependencies : d.dependencies[j].version # ""
      BY DependencyMeaning
    <3> QED
      BY <1>4, <3>1, <3>2
  <2>2. \A i \in 1..e : F[5 + c + i] = es[i]
    BY <1>1
  <2> QED
    BY <2>1, <2>2
<1>7. \A i \in 1..5 : /\ F[i].name = FactorOrder[i]
                      /\ F[i].status = "rejected" <=> ~Fits(FactorOrder[i], d, t)
  <2>1. \A i \in 1..5 : F[i] = h[i]
    BY <1>1
  <2>2. /\ h[1].name = "base_model"
        /\ h[1].status = "rejected" <=> ~Fits("base_model", d, t)
    BY <1>2, SingleMeaning DEF Passes, Fails
  <2>3. /\ h[2].name = "base_model_revision"
        /\ h[2].status = "rejected" <=> ~Fits("base_model_revision", d, t)
    BY <1>2, SingleMeaning DEF Passes, Fails
  <2>4. /\ h[3].name = "targets"
        /\ h[3].status = "rejected" <=> ~Fits("targets", d, t)
    BY <1>2, TargetsMeaning DEF Passes, Fails
  <2>5. /\ h[4].name = "rank"
        /\ h[4].status = "rejected" <=> ~Fits("rank", d, t)
    BY <1>2, SingleMeaning DEF Passes, Fails
  <2>6. /\ h[5].name = "dtype"
        /\ h[5].status = "rejected" <=> ~Fits("dtype", d, t)
    BY <1>2, SingleMeaning DEF Passes, Fails
  <2>7. \A i \in 1..5 : i = 1 \/ i = 2 \/ i = 3 \/ i = 4 \/ i = 5
    OBVIOUS
  <2> QED
    BY <2>1, <2>2, <2>3, <2>4, <2>5, <2>6, <2>7, OrderOfFactors
<1>8. /\ F[6 + c + e].name = "artifact"
      /\ F[6 + c + e].status = "rejected" <=> ~Fits("artifact", d, t)
  BY <1>1, SingleMeaning DEF Passes, Fails
<1>9. ASSUME NEW i \in 1..Len(F), RejectedAt(F, i)
      PROVE  /\ Place(i, c, e) \in 1..8
             /\ F[i].name = FactorOrder[Place(i, c, e)]
             /\ ~Fits(FactorOrder[Place(i, c, e)], d, t)
  <2>0. i \in 1..(7 + c + e) /\ F[i].status = "rejected"
    BY <1>1, <1>9 DEF RejectedAt
  <2>1. CASE i \in 1..5
    <3>1. Place(i, c, e) = i /\ i \in 1..8
      BY <2>1 DEF Place
    <3> QED
      BY <1>7, <2>0, <2>1, <3>1
  <2>2. CASE i \in 6..(5 + c)
    <3>1. Place(i, c, e) = 6
      BY <2>2 DEF Place
    <3>2. PICK j \in 1..c : i = 5 + j
      <4>1. i - 5 \in 1..c /\ i = 5 + (i - 5)
        BY <2>2
      <4> QED
        BY <4>1
    <3> QED
      BY <1>5, <2>0, <3>1, <3>2, OrderOfFactors
  <2>3. CASE i \in (6 + c)..(5 + c + e)
    <3>1. Place(i, c, e) = 7
      BY <2>3 DEF Place
    <3>2. PICK j \in 1..e : i = 5 + c + j
      <4>1. i - (5 + c) \in 1..e /\ i = 5 + c + (i - (5 + c))
        BY <2>3
      <4> QED
        BY <4>1
    <3>3. F[5 + c + j].status = "rejected"
      BY <2>0, <3>2
    <3>4. F[5 + c + j].name = "dependency" /\ ~Fits("dependency", d, t)
      BY <1>6, <3>3
    <3> QED
      BY <3>1, <3>2, <3>4, OrderOfFactors
  <2>4. CASE i = 6 + c + e
    <3>1. Place(i, c, e) = 8
      BY <2>4 DEF Place
    <3> QED
      BY <1>8, <2>0, <2>4, <3>1, OrderOfFactors
  <2>5. i # 7 + c + e
    BY <1>1, <2>0
  <2>6. i \in 1..5 \/ i \in 6..(5 + c) \/ i \in (6 + c)..(5 + c + e) \/ i = 6 + c + e
    BY <2>0, <2>5
  <2> QED
    BY <2>1, <2>2, <2>3, <2>4, <2>6
<1>10. ASSUME NEW k \in 1..8, ~Fits(FactorOrder[k], d, t)
       PROVE  \E i \in 1..Len(F) : RejectedAt(F, i) /\ Place(i, c, e) = k
  <2>0. Len(F) = 7 + c + e
    BY <1>1
  <2>1. CASE k \in 1..5
    <3>1. Place(k, c, e) = k /\ k \in 1..(7 + c + e)
      BY <2>1 DEF Place
    <3>2. F[k].status = "rejected"
      BY <1>7, <1>10, <2>1
    <3> QED
      BY <2>0, <3>1, <3>2 DEF RejectedAt
  <2>2. CASE k = 6
    <3>1. PICK i \in 1..c : F[5 + i].status = "rejected"
      BY <1>5, <1>10, <2>2, OrderOfFactors
    <3>2. Place(5 + i, c, e) = 6 /\ 5 + i \in 1..(7 + c + e)
      BY DEF Place
    <3> QED
      BY <2>0, <2>2, <3>1, <3>2 DEF RejectedAt
  <2>3. CASE k = 7
    <3>1. PICK i \in 1..e : F[5 + c + i].status = "rejected"
      BY <1>6, <1>10, <2>3, OrderOfFactors
    <3>2. Place(5 + c + i, c, e) = 7 /\ 5 + c + i \in 1..(7 + c + e)
      BY DEF Place
    <3> QED
      BY <2>0, <2>3, <3>1, <3>2 DEF RejectedAt
  <2>4. CASE k = 8
    <3>1. F[6 + c + e].status = "rejected"
      BY <1>8, <1>10, <2>4, OrderOfFactors
    <3>2. Place(6 + c + e, c, e) = 8 /\ 6 + c + e \in 1..(7 + c + e)
      BY DEF Place
    <3> QED
      BY <2>0, <2>4, <3>1, <3>2 DEF RejectedAt
  <2> QED
    BY <2>1, <2>2, <2>3, <2>4
<1>11. Matching(F, c, e, d, t)
  BY <1>9, <1>10 DEF Matching
<1> QED
  BY <1>1, <1>11 DEF F

LEMMA LeastExists ==
    ASSUME NEW T, T \subseteq Nat, T # {}
    PROVE  \E x \in T : \A y \in T : x <= y
<1> DEFINE R == OpToRel(<, Nat)
<1>1. IsWellFoundedOn(R, Nat)
  BY NatLessThanWellFounded
<1>2. \E x \in T : \A y \in T : ~(<<y, x>> \in R)
  <2> HIDE DEF R
  <2> QED
    BY <1>1, WFMin
<1>3. PICK x \in T : \A y \in T : ~(<<y, x>> \in R)
  BY <1>2
<1>4. ASSUME NEW y \in T
      PROVE  x <= y
  <2>1. x \in Nat /\ y \in Nat
    OBVIOUS
  <2>2. y < x => <<y, x>> \in R
    BY <2>1 DEF OpToRel
  <2>3. ~(y < x)
    <3> HIDE DEF R
    <3> QED
      BY <1>3, <2>2
  <2> QED
    BY <2>1, <2>3
<1> QED
  BY <1>4

LeastOf(S) == CHOOSE x \in S : \A y \in S : x <= y

LEMMA LeastIs ==
    ASSUME NEW T, T \subseteq Nat, T # {}
    PROVE  LeastOf(T) \in T /\ \A y \in T : LeastOf(T) <= y
BY LeastExists DEF LeastOf

\* first_rejection_reason finds the first rejection.
LEMMA FirstFound ==
    ASSUME NEW F \in Seq(Factor)
    PROVE  /\ ~HasRejections(F) => FirstRejection(F) = 0
           /\ HasRejections(F) =>
                /\ RejectedAt(F, FirstRejection(F))
                /\ \A i \in 1..Len(F) : RejectedAt(F, i) => FirstRejection(F) <= i
<1> DEFINE I == {i \in 1..Len(F) : F[i].status = "rejected"}
<1>1. FirstRejection(F) = IF I # {} THEN LeastOf(I) ELSE 0
  BY DEF FirstRejection, SelectInSeq, Min, LeastOf
<1>2. HasRejections(F) <=> I # {}
  BY DEF HasRejections
<1>3. I \subseteq Nat
  OBVIOUS
<1>4. \A i \in 1..Len(F) : RejectedAt(F, i) <=> i \in I
  BY DEF RejectedAt
<1>5. \A i \in I : i \in 1..Len(F)
  OBVIOUS
<1> HIDE DEF I
<1>6. CASE I # {}
  BY <1>1, <1>2, <1>3, <1>4, <1>5, <1>6, LeastIs
<1> QED
  BY <1>1, <1>2, <1>6

\* What does not fit, by place in the order of evaluation.
Unfit(d, t) == {k \in DOMAIN FactorOrder : ~Fits(FactorOrder[k], d, t)}

LEMMA RejectionsAreUnfit ==
    ASSUME NEW d \in Descriptors, NEW t
    PROVE  HasRejections(Factors(d, t)) <=> Unfit(d, t) # {}
<1>1. PICK F : F = Factors(d, t)
  OBVIOUS
<1>2. PICK c, e \in Nat : Matching(F, c, e, d, t)
  BY <1>1, FactorsMatch
<1>3. F \in Seq(Factor)
  BY <1>1, FactorsMatch
<1>4. HasRejections(F) <=> \E i \in 1..Len(F) : RejectedAt(F, i)
  BY <1>3 DEF HasRejections, RejectedAt
<1>5. Unfit(d, t) = {k \in 1..8 : ~Fits(FactorOrder[k], d, t)}
  BY OrderOfFactors DEF Unfit
<1>6. (\E i \in 1..Len(F) : RejectedAt(F, i)) => Unfit(d, t) # {}
  BY <1>2, <1>5 DEF Matching
<1>7. Unfit(d, t) # {} => \E i \in 1..Len(F) : RejectedAt(F, i)
  BY <1>2, <1>5 DEF Matching
<1> QED
  BY <1>1, <1>4, <1>6, <1>7

LEMMA FirstIsLeast ==
    ASSUME NEW d \in Descriptors, NEW t, Unfit(d, t) # {}
    PROVE  LET F == Factors(d, t)
               i == FirstRejection(F)
           IN  /\ i \in DOMAIN F /\ F[i].status # "accepted"
               /\ F[i].name = FactorOrder[LeastOf(Unfit(d, t))]
<1>1. PICK F : F = Factors(d, t)
  OBVIOUS
<1>2. PICK c, e \in Nat : Matching(F, c, e, d, t)
  BY <1>1, FactorsMatch
<1>3. F \in Seq(Factor) /\ HasRejections(F)
  BY <1>1, FactorsMatch, RejectionsAreUnfit
<1>4. PICK i : i = FirstRejection(F)
  OBVIOUS
<1>5. RejectedAt(F, i) /\ \A j \in 1..Len(F) : RejectedAt(F, j) => i <= j
  BY <1>3, <1>4, FirstFound
<1>6. i \in 1..Len(F) /\ F[i].status = "rejected"
  BY <1>5 DEF RejectedAt
<1>7. PICK U : U = Unfit(d, t)
  OBVIOUS
<1>8. U = {k \in 1..8 : ~Fits(FactorOrder[k], d, t)}
  BY <1>7, OrderOfFactors DEF Unfit
<1>9. PICK p : p = Place(i, c, e)
  OBVIOUS
<1>10. p \in 1..8 /\ F[i].name = FactorOrder[p] /\ ~Fits(FactorOrder[p], d, t)
  BY <1>2, <1>5, <1>6, <1>9 DEF Matching
<1>11. p \in U
  BY <1>8, <1>10
<1>12. ASSUME NEW k \in U
       PROVE  p <= k
  <2>1. k \in 1..8 /\ ~Fits(FactorOrder[k], d, t)
    BY <1>8
  <2>2. PICK j \in 1..Len(F) : RejectedAt(F, j) /\ Place(j, c, e) = k
    BY <1>2, <2>1 DEF Matching
  <2>3. i <= j
    BY <1>5, <2>2
  <2>4. i \in Nat /\ j \in Nat
    BY <1>3, <1>6
  <2> QED
    BY <1>9, <2>2, <2>3, <2>4, PlaceGrows
<1>13. LeastOf(U) = p
  <2>1. U \subseteq Nat
    BY <1>8
  <2>2. U # {}
    BY <1>11
  <2>3. LeastOf(U) \in U /\ \A y \in U : LeastOf(U) <= y
    BY <2>1, <2>2, LeastIs
  <2>4. LeastOf(U) <= p /\ p <= LeastOf(U) /\ LeastOf(U) \in Nat /\ p \in Nat
    BY <1>11, <1>12, <2>1, <2>3
  <2> QED
    BY <2>4
<1>14. DOMAIN F = 1..Len(F)
  BY <1>3
<1> QED
  BY <1>1, <1>4, <1>6, <1>7, <1>10, <1>13, <1>14

-----------------------------------------------------------------------------
(* The registry and the reports.                                           *)

\* A report is about a generation that was registered, and one about the
\* generation that is registered now was evaluated on what is registered now.
CompatibilitySound ==
    /\ generation \in Nat
    /\ descriptor \in Descriptors \cup {Nothing}
    /\ report # Nothing =>
         /\ report.adapter_generation \in Nat
         /\ report.adapter_generation <= generation
         /\ report.adapter_generation = generation =>
              /\ descriptor \in Descriptors
              /\ report = Evaluate(descriptor, generation, asked)

LEMMA CompatibilityInitSound == CompatibilityInit => CompatibilitySound
BY DEF CompatibilityInit, CompatibilitySound

LEMMA CompatibilityStepSound ==
    CompatibilitySound /\ [CompatibilityNext]_compatibilityVars => CompatibilitySound'
<1> SUFFICES ASSUME CompatibilitySound, [CompatibilityNext]_compatibilityVars
             PROVE  CompatibilitySound'
  OBVIOUS
<1>1. ASSUME NEW d \in Descriptors, RegisterRevision(d)
      PROVE  CompatibilitySound'
  <2>1. /\ descriptor' = d /\ generation' = generation + 1
        /\ asked' = asked /\ report' = report
    BY <1>1 DEF RegisterRevision
  <2>2. generation' \in Nat /\ descriptor' \in Descriptors
    BY <2>1 DEF CompatibilitySound
  <2>3. report # Nothing => /\ report.adapter_generation \in Nat
                            /\ report.adapter_generation <= generation + 1
                            /\ report.adapter_generation # generation + 1
    BY DEF CompatibilitySound
  <2> QED
    BY <2>1, <2>2, <2>3 DEF CompatibilitySound
<1>2. ASSUME NEW t \in Targets, Validate(t)
      PROVE  CompatibilitySound'
  <2>1. /\ asked' = t /\ descriptor' = descriptor /\ generation' = generation
        /\ report' = IF descriptor = Nothing THEN Nothing
                     ELSE Evaluate(descriptor, generation, t)
    BY <1>2 DEF Validate, Stamped
  <2>2. CASE descriptor = Nothing
    BY <2>1, <2>2 DEF CompatibilitySound
  <2>3. CASE descriptor # Nothing
    <3>1. descriptor \in Descriptors /\ generation \in Nat /\ generation <= generation
      BY <2>3 DEF CompatibilitySound
    <3>2. report' = Evaluate(descriptor, generation, t)
      BY <2>1, <2>3
    <3>3. report'.adapter_generation = generation
      BY <3>2 DEF Evaluate
    <3>4. Evaluate(descriptor, generation, asked)' = Evaluate(descriptor, generation, t)
      BY <2>1
    <3> QED
      BY <2>1, <3>1, <3>2, <3>3, <3>4 DEF CompatibilitySound
  <2> QED
    BY <2>2, <2>3
<1>3. CASE UNCHANGED compatibilityVars
  <2>1. /\ descriptor' = descriptor /\ generation' = generation
        /\ asked' = asked /\ report' = report
    BY <1>3 DEF compatibilityVars
  <2>2. Evaluate(descriptor, generation, asked)' = Evaluate(descriptor, generation, asked)
    BY <2>1
  <2> QED
    BY <2>1, <2>2 DEF CompatibilitySound
<1> QED
  BY <1>1, <1>2, <1>3 DEF CompatibilityNext

\* A report about the registered generation is its evaluation.
LEMMA ReportIsCurrent ==
    ASSUME CompatibilitySound, report # Nothing, report.adapter_generation = generation
    PROVE  /\ descriptor \in Descriptors
           /\ report.factors = Factors(descriptor, asked)
           /\ report.compatible = ~HasRejections(Factors(descriptor, asked))
           /\ report.summary = FirstRejection(Factors(descriptor, asked))
<1>1. descriptor \in Descriptors /\ report = Evaluate(descriptor, generation, asked)
  BY DEF CompatibilitySound
<1> QED
  BY <1>1 DEF Evaluate

\* The verdict of validate is true of the generation the report names: the
\* adapter is compatible exactly when every factor of evaluate_compatibility
\* fits, for descriptors with lists of any length and any registrations between.
THEOREM VerdictsAreTrue == CompatibilitySpec => []VerdictOfGeneration
<1>1. ASSUME CompatibilitySound
      PROVE  VerdictOfGeneration
  <2> SUFFICES ASSUME report # Nothing, report.adapter_generation = generation
               PROVE  report.compatible <=>
                        \A name \in ToSet(FactorOrder) : Fits(name, descriptor, asked)
    BY DEF VerdictOfGeneration
  <2>1. descriptor \in Descriptors
        /\ report.compatible = ~HasRejections(Factors(descriptor, asked))
    BY <1>1, ReportIsCurrent
  <2>2. HasRejections(Factors(descriptor, asked)) <=> Unfit(descriptor, asked) # {}
    BY <2>1, RejectionsAreUnfit
  <2>3. Unfit(descriptor, asked) = {} <=>
          \A k \in DOMAIN FactorOrder : Fits(FactorOrder[k], descriptor, asked)
    BY DEF Unfit
  <2>4. ToSet(FactorOrder) = {FactorOrder[k] : k \in DOMAIN FactorOrder}
    BY DEF ToSet
  <2>5. (\A name \in ToSet(FactorOrder) : Fits(name, descriptor, asked)) <=>
          \A k \in DOMAIN FactorOrder : Fits(FactorOrder[k], descriptor, asked)
    BY <2>4, Zenon
  <2> QED
    BY <2>1, <2>2, <2>3, <2>5
<1> QED
  BY <1>1, CompatibilityInitSound, CompatibilityStepSound, PTL DEF CompatibilitySpec

\* A refusal is explained by the first factor, in the order of evaluation, that
\* does not fit, and explain_compatibility lists it; an adapter that fits has
\* an empty first_rejection_reason.
THEOREM RefusalsAreExplained == CompatibilitySpec => []RefusalExplained
<1>1. ASSUME CompatibilitySound
      PROVE  RefusalExplained
  <2> SUFFICES ASSUME report # Nothing, report.adapter_generation = generation
               PROVE  IF Unfit(descriptor, asked) = {} THEN report.summary = 0
                      ELSE /\ report.summary \in Reasons(report)
                           /\ report.factors[report.summary].name =
                                FactorOrder[LeastOf(Unfit(descriptor, asked))]
    BY DEF RefusalExplained, Unfit, LeastOf
  <2>1. /\ descriptor \in Descriptors
        /\ report.factors = Factors(descriptor, asked)
        /\ report.summary = FirstRejection(Factors(descriptor, asked))
    BY <1>1, ReportIsCurrent
  <2>2. CASE Unfit(descriptor, asked) = {}
    <3>1. ~HasRejections(Factors(descriptor, asked))
      BY <2>1, <2>2, RejectionsAreUnfit
    <3>2. Factors(descriptor, asked) \in Seq(Factor)
      BY <2>1, FactorsMatch
    <3> QED
      BY <2>1, <2>2, <3>1, <3>2, FirstFound
  <2>3. CASE Unfit(descriptor, asked) # {}
    <3>1. /\ report.summary \in DOMAIN report.factors
          /\ report.factors[report.summary].status # "accepted"
          /\ report.factors[report.summary].name =
               FactorOrder[LeastOf(Unfit(descriptor, asked))]
      BY <2>1, <2>3, FirstIsLeast
    <3> QED
      BY <2>3, <3>1 DEF Reasons
  <2> QED
    BY <2>2, <2>3
<1> QED
  BY <1>1, CompatibilityInitSound, CompatibilityStepSound, PTL DEF CompatibilitySpec

=============================================================================
