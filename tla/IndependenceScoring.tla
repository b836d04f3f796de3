------------------------- MODULE IndependenceScoring -------------------------
(***************************************************************************)
(* The coverage algorithm: the frozen list of protection layers, the paths *)
(* from causes to consequences, the deduplication by independence key and  *)
(* the score.  The module evaluates every list of layers that can be built *)
(* up to MaxRows, one layer more at each step, in every order: the order   *)
(* of the list is the database's and must not matter.                      *)
(*                                                                         *)
(* Effectiveness is counted in parts of Full, protection in parts of       *)
(* Whole, and both are exact; the code's float64 differs from that where   *)
(* Residuals says so.  Wording, the score steps and the snapshot's other   *)
(* fields decide nothing and are left out.                                 *)
(***************************************************************************)
EXTENDS LayerExpiry, Sequences, Functions, Ordering

CONSTANTS
    Ids,             \* ids of the scenario's safeguards, numbers
    GroupKeys,       \* independence keys as stored, numbers in their order
    Blank,           \* the key that was nothing but spaces
    Effectiveness,   \* in parts of Full
    Full,            \* an effectiveness of 1
    Whole,           \* a protection of 1
    Verifications,   \* dates a layer may have been verified at
    Interval,        \* test_interval_days, in ticks
    TicksPerSecond,
    Times,           \* times at which the evaluation may be asked for
    Statements,      \* records: what one says in lower case, and its spelling
    Texts,           \* cause and consequence columns: lists of statements
    Unspecified,     \* what stands for an empty text
    Risks,           \* likelihood * severity
    MaxRows          \* bound: layers of one scenario

ASSUME ScoringAssumption ==
    /\ Ids \subseteq Nat /\ GroupKeys \subseteq Nat /\ Risks \subseteq Nat \ {0}
    /\ Full \in Nat \ {0} /\ Effectiveness \subseteq 1 .. Full /\ Whole \in Nat \ {0}
    /\ TicksPerSecond \in Nat \ {0} /\ Interval \in Nat \ {0}
    /\ Interval % TicksPerSecond = 0
    /\ Times \subseteq Nat /\ Verifications \subseteq Nat \cup {None} /\ None \notin Nat
    /\ Texts \subseteq Seq(Statements)
    /\ MaxRows \in Nat

\* Whole can be divided by Full once for every layer.
ASSUME ExactnessAssumption == Whole = Full ^ MaxRows

VARIABLES
    rows,            \* what ListByScenario returns
    cause,           \* the scenario's two texts
    consequence,
    now,             \* when the evaluation is asked for
    result           \* what Evaluate makes of it

vars == <<rows, cause, consequence, now, result>>

Layers == [id            : Ids,
           key           : GroupKeys,
           effectiveness : Effectiveness,
           interval      : {Interval},
           state         : {"active", "invalid"},
           verifiedAt    : Verifications]

-----------------------------------------------------------------------------
(* Snapshot *)

Truncate(t) == (t \div TicksPerSecond) * TicksPerSecond

ByKey(g, h) == g.key < h.key \/ (g.key = h.key /\ g.id < h.id)

Frozen(g) == [g EXCEPT !.verifiedAt = IF @ = None THEN None ELSE Truncate(@)]

\* Mutant: the reference time keeps its fraction of a second.
SnapshotUntruncated(list, t) ==
    LET frozen == [i \in DOMAIN list |-> Frozen(list[i])]
    IN [reference |-> t, safeguards |-> Sorted(frozen, DOMAIN frozen, ByKey)]

NewSnapshot(list, t) ==
    LET frozen == [i \in DOMAIN list |-> Frozen(list[i])]
    IN [reference |-> Truncate(t), safeguards |-> Sorted(frozen, DOMAIN frozen, ByKey)]

-----------------------------------------------------------------------------
(* Paths *)

\* Mutant: statements that differ in case only count as two.
SplitCaseSensitive(text) ==
    LET new == {i \in DOMAIN text : \A j \in 1 .. i - 1 : text[j] # text[i]}
        kept == InOrder(new, <)
    IN IF text = <<>> THEN <<Unspecified>> ELSE [n \in DOMAIN kept |-> text[kept[n]]]

\* The statements of a text, the first spelling of each.
SplitStatements(text) ==
    LET new == {i \in DOMAIN text : \A j \in 1 .. i - 1 : text[j].lower # text[i].lower}
        kept == InOrder(new, <)
    IN IF text = <<>> THEN <<Unspecified>> ELSE [n \in DOMAIN kept |-> text[kept[n]]]

\* Every cause with every consequence, cause by cause.
Paths(causes, consequences) ==
    LET per == Len(consequences)
    IN [n \in 1 .. Len(causes) * per |->
          [cause       |-> causes[1 + ((n - 1) \div per)].lower,
           consequence |-> consequences[1 + ((n - 1) % per)].lower]]

-----------------------------------------------------------------------------
(* Deduplication *)

\* The filters of ResolveIndependence and ineligibleReason.
Eligible(g, reference) ==
    /\ g.key # Blank
    /\ g.state = "active"
    /\ g.effectiveness \in 1 .. Full
    /\ g.verifiedAt # None
    /\ g.interval > 0
    /\ ~Lapsed(g.verifiedAt, g.interval, reference)

\* Mutant: of one group the latest layer counts.
LatestFirst(g, h) == g.id > h.id

Stronger(g, h) ==
    g.effectiveness > h.effectiveness
       \/ (g.effectiveness = h.effectiveness /\ g.id < h.id)

\* Mutant: the groups are not kept apart.
GroupAll(list, eligible, key) == eligible

\* The indices of the layers with one key.
Group(list, eligible, key) == {i \in eligible : list[i].key = key}

IdsOf(list) == [i \in DOMAIN list |-> list[i].id]

\* Mutant: a group's last layer is dropped without a word.
ExplainedButLast(group) ==
    [kept    |-> Head(group).id,
     ignored |-> IdsOf(SubSeq(group, 2, Len(group) - 1))]

\* What the result says of a group with several layers.
Explained(group) ==
    [kept |-> Head(group).id, ignored |-> IdsOf(Tail(group))]

ById(g, h) == g.id < h.id

ResolveIndependence(list, reference) ==
    LET eligible == {i \in DOMAIN list : Eligible(list[i], reference)}
        keys == InOrder({list[i].key : i \in eligible}, <)
        ranked == [k \in DOMAIN keys |->
                     Sorted(list, Group(list, eligible, keys[k]), Stronger)]
        several == InOrder({k \in DOMAIN keys : Len(ranked[k]) > 1}, <)
    IN [retained     |-> [k \in DOMAIN keys |-> Head(ranked[k])],
        deduplicated |-> [n \in DOMAIN several |-> Explained(ranked[several[n]])],
        rejected     |-> IdsOf(Sorted(list, DOMAIN list \ eligible, ById))]

-----------------------------------------------------------------------------
(* Score *)

\* What the retained layers, each independent of the others, let through.
Remaining(list) ==
    LET ordered == Sorted(list, DOMAIN list, ByKey)
        left[n \in 0 .. Len(list)] ==
           IF n = 0 THEN Whole
           ELSE (left[n - 1] * (Full - ordered[n].effectiveness)) \div Full
    IN left[Len(list)]

\* combined >= coveredThreshold
Covered(remaining) == 2 * remaining <= Whole

CeilDiv(a, b) == (a + b - 1) \div b

AtLeastOne(x) == IF x < 1 THEN 1 ELSE x

\* Mutant: the residual risk is rounded down.
ResidualsFloored(initial, remaining) == {AtLeastOne((initial * remaining) \div Whole)}

\* The residual risks float64 can yield: where the exact product is a whole
\* number, the computed one may lie just above it and is rounded up once more
\* (0.7 of 20 is left 7, not 6).
Residuals(initial, remaining) ==
    LET exact == CeilDiv(initial * remaining, Whole)
    IN {AtLeastOne(exact)} \cup
       (IF remaining \in 1 .. Whole - 1 /\ (initial * remaining) % Whole = 0
        THEN {exact + 1} ELSE {})

\* RiskRank, as 1 for low to 4 for critical.
RiskRank(risk) ==
    IF risk >= 20 THEN 4 ELSE IF risk >= 12 THEN 3 ELSE IF risk >= 6 THEN 2 ELSE 1

\* Every path has the same layers, so all are covered or none.
UncoveredPaths(paths, remaining) == IF Covered(remaining) THEN <<>> ELSE paths

Evaluate(snapshot, causeText, consequenceText) ==
    LET independence == ResolveIndependence(snapshot.safeguards, snapshot.reference)
        remaining == Remaining(independence.retained)
        paths == Paths(SplitStatements(causeText), SplitStatements(consequenceText))
    IN [retained     |-> IdsOf(independence.retained),
        deduplicated |-> independence.deduplicated,
        rejected     |-> independence.rejected,
        remaining    |-> remaining,
        paths        |-> paths,
        uncovered    |-> UncoveredPaths(paths, remaining)]

-----------------------------------------------------------------------------
Init ==
    /\ rows = <<>>
    /\ cause \in Texts /\ consequence \in Texts
    /\ now \in Times
    /\ result = Evaluate(NewSnapshot(<<>>, now), cause, consequence)

\* One layer more in the list, evaluated anew.
Evaluation(layer) ==
    /\ Len(rows) < MaxRows
    /\ layer.id \notin {g.id : g \in Range(rows)}
    /\ rows' = Append(rows, layer)
    /\ result' = Evaluate(NewSnapshot(rows', now), cause, consequence)
    /\ UNCHANGED <<cause, consequence, now>>

Next == \E layer \in Layers : Evaluation(layer)

Spec == Init /\ [][Next]_vars

-----------------------------------------------------------------------------
(* Properties *)

Present == Range(rows)

\* What may count: the layers effective, by the model's own predicate, at the
\* second of the evaluation, with a key.
Countable ==
    {g \in Present : g.key # Blank /\ IsEffectiveAt(g, now - (now % TicksPerSecond))}

Ignored == UNION {Range(d.ignored) : d \in Range(result.deduplicated)}

\* Inputs and results are well formed, whatever the list; nothing is listed
\* twice.
TypeOK ==
    /\ rows \in Seq(Layers) /\ Len(rows) <= MaxRows
    /\ result.remaining \in 0 .. Whole
    /\ Range(result.retained) \cup Range(result.rejected) \subseteq Ids
    /\ IsInjective(result.retained) /\ IsInjective(result.rejected)

\* Every layer of the scenario is accounted for exactly once: it counts, it is
\* named as a duplicate of a layer that counts, or it is rejected.
EveryLayerAccounted ==
    /\ {g.id : g \in Present} =
          Range(result.retained) \cup Ignored \cup Range(result.rejected)
    /\ Range(result.retained) \cap Ignored = {}
    /\ Range(result.rejected) \cap (Range(result.retained) \cup Ignored) = {}
    /\ \A d \in Range(result.deduplicated) : d.kept \in Range(result.retained)

\* The scoring's own filter on the truncated snapshot agrees with the model's
\* IsEffectiveAt on the stored row, up to the fraction of a second that the
\* freeze cuts off.
RejectsTheIneffective ==
    Range(result.rejected) = {g.id : g \in Present \ Countable}

\* Whatever the order of the list, each key contributes once, by the strongest
\* of its layers and among equals by the lowest id.
OneContributionPerKey ==
    Range(result.retained) =
       {g.id : g \in {h \in Countable :
           \A other \in Countable \ {h} : other.key = h.key =>
              \/ other.effectiveness < h.effectiveness
              \/ other.effectiveness = h.effectiveness /\ other.id > h.id}}

\* What a text says, apart from its spelling.
Said(text) == IF text = <<>> THEN {Unspecified.lower} ELSE {s.lower : s \in Range(text)}

\* Each pair of a cause and a consequence is one path, however often and in
\* whatever spelling the texts repeat them; a path is uncovered when the
\* layers stop less than half, so always when none counts.
UncoveredPathsReported ==
    /\ Range(result.paths) =
          {[cause |-> a, consequence |-> b] : a \in Said(cause), b \in Said(consequence)}
    /\ Len(result.paths) = Cardinality(Range(result.paths))
    /\ result.paths # <<>>
    /\ result.uncovered = IF 2 * result.remaining <= Whole THEN <<>> ELSE result.paths
    /\ Countable = {} => result.uncovered = result.paths

\* The residual risk is never understated, by float64 at most one too high,
\* and never above the initial risk.
ResidualRiskSound ==
    \A initial \in Risks : \A x \in Residuals(initial, result.remaining) :
        /\ x * Whole >= initial * result.remaining
        /\ x \in 1 .. initial
        /\ x > 1 => (x - 2) * Whole < initial * result.remaining
        /\ RiskRank(x) <= RiskRank(initial)

\* Registering one layer more never makes the scenario look worse: protection
\* does not fall, covered paths stay covered, the residual risk does not rise.
LayersOnlyHelp ==
    [][/\ result'.remaining <= result.remaining
       /\ Len(result'.uncovered) <= Len(result.uncovered)
       /\ result'.remaining < result.remaining =>
            \A initial \in Risks :
               \A x \in Residuals(initial, result.remaining),
                  y \in Residuals(initial, result'.remaining) : y <= x]_vars

-----------------------------------------------------------------------------
(* The inductive invariant *)

\* No two layers share an id, and the result is that of the list as it stands.
IInv ==
    /\ rows \in Seq(Layers) /\ Len(rows) <= MaxRows
    /\ \A i, j \in DOMAIN rows : rows[i].id = rows[j].id => i = j
    /\ cause \in Texts /\ consequence \in Texts /\ now \in Times
    /\ result = Evaluate(NewSnapshot(rows, now), cause, consequence)
=============================================================================
