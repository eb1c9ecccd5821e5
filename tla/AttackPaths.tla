---------------------------- MODULE AttackPaths -----------------------------
(***************************************************************************)
(* Attack paths and ATT&CK coverage of an engagement (attack/graph.py,     *)
(* attack/mapping.py, attack/coverage.py): correlated findings laid out    *)
(* along the kill chain, and the matrix of the techniques they enable, as  *)
(* both views follow the findings being reported and refuted.              *)
(***************************************************************************)
EXTENDS Integers, Sequences, FiniteSetsExt, SequencesExt

CONSTANTS
    Observations,    \* findings: [group, asset, severity (0..4), risk, cwe, category]
    CweToAttack,     \* CWE -> sequence of techniques
    OwaspToAttack,   \* OWASP category -> sequence of techniques
    TacticOf,        \* technique -> position of its tactic on the kill chain
    Impacts,         \* the positions of the tactics that achieve something
    AssetKey,        \* asset -> its comparable host key (_norm)
    Jewels,          \* the sets of critical assets the inventory may hold
    ShownPaths,      \* max_paths
    MaxObserved      \* bound: findings

ASSUME AttackPathsAssumption ==
    /\ \A f \in Observations : f.severity \in 0..4 /\ f.risk \in Int
    /\ \A c \in DOMAIN CweToAttack : CweToAttack[c] \in Seq(STRING)
    /\ \A c \in DOMAIN OwaspToAttack : OwaspToAttack[c] \in Seq(STRING)
    /\ IsFiniteSet(DOMAIN TacticOf) /\ \A t \in DOMAIN TacticOf : TacticOf[t] \in Nat
    /\ ShownPaths \in Nat \ {0} /\ MaxObserved \in Nat

VARIABLES
    observed,        \* the engagement's findings, in order: [finding, refuted]
    jewels           \* _crown_jewels

pathVars == <<observed, jewels>>

PathTypeOK ==
    /\ observed \in Seq([finding : Observations, refuted : BOOLEAN])
    /\ Len(observed) <= MaxObserved
    /\ jewels \in Jewels

PathInit == observed = << >> /\ jewels \in Jewels

Observe(finding) ==
    /\ Len(observed) < MaxObserved
    /\ observed' = Append(observed, [finding |-> finding, refuted |-> FALSE])
    /\ UNCHANGED jewels

\* A finding is set to false_positive, or back.
Refute(i) ==
    /\ observed' = [observed EXCEPT ![i].refuted = ~@]
    /\ UNCHANGED jewels

PathNext ==
    \/ \E finding \in Observations : Observe(finding)
    \/ \E i \in 1..Len(observed) : Refute(i)

PathSpec == PathInit /\ [][PathNext]_pathVars

-----------------------------------------------------------------------------
(***************************************************************************)
(* Techniques of a finding, and the matrix (coverage.py).                  *)
(***************************************************************************)

Mapped(table, entry) == IF entry \in DOMAIN table THEN table[entry] ELSE << >>

\* The CWE's techniques come first, then the category's.
Listed(finding) ==
    Mapped(CweToAttack, finding.cwe) \o Mapped(OwaspToAttack, finding.category)

\* techniques_for: those of the catalogue, each once, where it is first named.
TechniquesFor(finding) == {t \in DOMAIN TacticOf : Contains(Listed(finding), t)}

\* attack_coverage leaves out refuted findings only if they are informational.
Covered ==
    {i \in 1..Len(observed) : ~(observed[i].refuted /\ observed[i].finding.severity = 0)}

\* technique |-> the number of findings it is counted for, and the worst severity of them.
Coverage ==
    LET of(t) == {i \in Covered : t \in TechniquesFor(observed[i].finding)}
    IN  [t \in {tech \in DOMAIN TacticOf : of(tech) # {}} |->
           [count |-> Cardinality(of(t)), worst |-> Max({observed[i].finding.severity : i \in of(t)})]]

-----------------------------------------------------------------------------
(***************************************************************************)
(* Paths (graph.py).                                                       *)
(***************************************************************************)

\* The findings paths are built from, and the ones of a group.
Standing == {i \in 1..Len(observed) : ~observed[i].refuted}
GroupOf(group) == {i \in Standing : observed[i].finding.group = group}

\* The pairs of a finding and one of its techniques that serve a tactic.
Serving(group, tactic) ==
    {s \in GroupOf(group) \X DOMAIN TacticOf :
        TacticOf[s[2]] = tactic /\ s[2] \in TechniquesFor(observed[s[1]].finding)}

Outranks(f, g) == f.severity > g.severity \/ (f.severity = g.severity /\ f.risk > g.risk)

\* Where the finding first names the technique.
Nth(s) == LET named == Listed(observed[s[1]].finding)
          IN  Min({n \in 1..Len(named) : named[n] = s[2]})
Earlier(s, t) == s[1] < t[1] \/ (s[1] = t[1] /\ Nth(s) < Nth(t))

\* A seeded fault: the first finding of a tactic stays, whatever comes after it.
FirstServing(candidates) ==
    CHOOSE s \in candidates : \A t \in candidates \ {s} : Earlier(s, t)

Preferred(s, t) ==
    LET f == observed[s[1]].finding  g == observed[t[1]].finding
    IN  Outranks(f, g) \/ (~Outranks(g, f) /\ Earlier(s, t))

\* The best finding of a tactic: the highest severity, then risk, then the first.
Best(candidates) ==
    CHOOSE s \in candidates : \A t \in candidates \ {s} : Preferred(s, t)

TacticsOf(group) == {tactic \in Range(TacticOf) : Serving(group, tactic) # {}}

StepBy(best, tactic) ==
    [tactic |-> tactic, technique |-> best[2], finding |-> best[1],
     severity |-> observed[best[1]].finding.severity]

\* The elements of a finite set in a strict order.
SortedBy(S, before(_, _)) ==
    CHOOSE s \in [1..Cardinality(S) -> S] : \A m, n \in DOMAIN s : m < n => before(s[m], s[n])

\* One step for each tactic, in chain order.
StepsAlong(group, tactics) ==
    [n \in DOMAIN tactics |-> StepBy(Best(Serving(group, tactics[n])), tactics[n])]

\* A step counts its severity's weight, and 6.
Weight(steps) ==
    LET by(v) == Cardinality({n \in DOMAIN steps : steps[n].severity = v})
    IN  6 * Len(steps) + 1 * by(0) + 5 * by(1) + 12 * by(2) + 25 * by(3) + 40 * by(4)

PathAlong(group, steps) ==
    LET reaches == \E n \in DOMAIN steps : steps[n].tactic \in Impacts
        worst == Max({steps[n].severity : n \in DOMAIN steps})
        asset == observed[Min(GroupOf(group))].finding.asset
        crown == AssetKey[asset] \in {AssetKey[jewel] : jewel \in jewels}
                     \/ (reaches /\ worst = 4)
    IN  [target |-> asset, group |-> group, steps |-> steps, reaches |-> reaches,
         crown |-> crown, worst |-> worst,
         score |-> Weight(steps) + (IF reaches THEN 30 ELSE 0) + (IF crown THEN 40 ELSE 0)]

\* The path of a group that serves a tactic at all.
PathOf(group) == PathAlong(group, StepsAlong(group, SortedBy(TacticsOf(group), <)))

AllPaths ==
    {PathOf(group) : group \in {g \in {f.group : f \in Observations} : TacticsOf(g) # {}}}

\* The order of the list: the score, then the worst severity, then first come.
Precedes(p, q) ==
    \/ p.score > q.score
    \/ p.score = q.score /\ p.worst > q.worst
    \/ /\ p.score = q.score /\ p.worst = q.worst
       /\ Min(GroupOf(p.group)) < Min(GroupOf(q.group))

\* A seeded fault: the list is cut before it is sorted.
FirstPaths ==
    LET come == SortedBy(AllPaths, LAMBDA p, q : Min(GroupOf(p.group)) < Min(GroupOf(q.group)))
    IN  SubSeq(come, 1, IF Len(come) < ShownPaths THEN Len(come) ELSE ShownPaths)

BuildPaths ==
    LET sorted == SortedBy(AllPaths, Precedes)
    IN  SubSeq(sorted, 1, IF Len(sorted) < ShownPaths THEN Len(sorted) ELSE ShownPaths)

\* The place in the list of shortest_path_to_impact, 0 for none: the fewest steps,
\* the worst severity among those, and the first of these.
ShortestToImpact(paths) ==
    LET impactful == {n \in DOMAIN paths : paths[n].reaches}
        before(m, n) ==
            \/ Len(paths[m].steps) < Len(paths[n].steps)
            \/ Len(paths[m].steps) = Len(paths[n].steps) /\ paths[m].worst > paths[n].worst
            \/ /\ Len(paths[m].steps) = Len(paths[n].steps)
               /\ paths[m].worst = paths[n].worst /\ m < n
    IN  IF impactful = {} THEN 0
        ELSE CHOOSE n \in impactful : \A m \in impactful \ {n} : before(n, m)

-----------------------------------------------------------------------------
\* Of a list of paths and a matrix, that they leave out nothing that stands.
ShowTheWorst(paths, matrix) ==
    LET enabled(group) == {e \in GroupOf(group) \X DOMAIN TacticOf :
                              e[2] \in TechniquesFor(observed[e[1]].finding)}
        shown == {paths[n].group : n \in DOMAIN paths}
    IN  /\ \A n \in DOMAIN paths :
             LET path == paths[n]
             IN  /\ \A e \in enabled(path.group) : \E k \in DOMAIN path.steps :
                      /\ path.steps[k].tactic = TacticOf[e[2]]
                      /\ path.steps[k].severity >= observed[e[1]].finding.severity
                 /\ \A k \in DOMAIN path.steps :
                      /\ <<path.steps[k].finding, path.steps[k].technique>>
                             \in enabled(path.group)
                      /\ k > 1 => path.steps[k - 1].tactic < path.steps[k].tactic
                      /\ path.steps[k].technique \in DOMAIN matrix
                      /\ matrix[path.steps[k].technique].worst >= path.steps[k].severity
        /\ \A i \in Standing :
             LET group == observed[i].finding.group
             IN  \/ group \in shown \/ enabled(group) = {}
                 \/ /\ Len(paths) = ShownPaths
                    /\ \A n \in DOMAIN paths : paths[n].score >= PathOf(group).score
        /\ ShortestToImpact(paths) = 0 =>
               \A n \in DOMAIN paths : \A k \in DOMAIN paths[n].steps :
                   paths[n].steps[k].tactic \notin Impacts

\* A path shows the worst of what stands: for every tactic a standing finding of
\* its group enables, one step, in chain order, by a finding of the group no
\* standing one is worse than, and counted with its technique in the matrix.  A
\* group is left out only if the list is full of paths that score as high, and
\* the shortest path to impact is missing only if no path shown has an impact.
PathsShowTheWorst == ShowTheWorst(BuildPaths, Coverage)

=============================================================================
