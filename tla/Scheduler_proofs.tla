-------------------------- MODULE Scheduler_proofs --------------------------
(***************************************************************************)
(* Proofs about Scheduler, for every finite set of jobs and every graph:   *)
(* the groups are a topological order and as early as can be, the verdict  *)
(* is right, the path in the error is a cycle of the graph, and every step *)
(* brings the end nearer.                                                  *)
(***************************************************************************)
EXTENDS Scheduler, TLAPS, FiniteSetTheorems, SequenceTheorems, WellFoundedInduction

-----------------------------------------------------------------------------
(* Counting entries of a dependency list.                                  *)

LEMMA OccurrencesType ==
    ASSUME dependsOn \in [Jobs -> Seq(Names)], NEW j \in Jobs, NEW S
    PROVE  /\ IsFiniteSet({k \in DOMAIN dependsOn[j] : dependsOn[j][k] \in S})
           /\ Occurrences(j, S) \in Nat
<1>1. DOMAIN dependsOn[j] = 1 .. Len(dependsOn[j]) /\ Len(dependsOn[j]) \in Nat
  OBVIOUS
<1>2. IsFiniteSet(DOMAIN dependsOn[j])
  BY <1>1, FS_Interval
<1>3. IsFiniteSet({k \in DOMAIN dependsOn[j] : dependsOn[j][k] \in S})
  BY <1>2, FS_Subset
<1>. QED
  BY <1>3, FS_CardinalityType DEF Occurrences

(* A count of zero means that no dependency is in the set.                 *)
LEMMA NoOccurrence ==
    ASSUME dependsOn \in [Jobs -> Seq(Names)], NEW j \in Jobs, NEW S
    PROVE  Occurrences(j, S) = 0 <=> DepsOf(j) \cap S = {}
<1>1. Occurrences(j, S) = 0 <=> {k \in DOMAIN dependsOn[j] : dependsOn[j][k] \in S} = {}
  BY OccurrencesType, FS_EmptySet DEF Occurrences
<1>. QED
  BY <1>1 DEF DepsOf

(* Counts add over disjoint sets: what taking the ready jobs off relies on.*)
LEMMA OccurrencesSplit ==
    ASSUME dependsOn \in [Jobs -> Seq(Names)], NEW j \in Jobs, NEW S, NEW T, T \subseteq S
    PROVE  Occurrences(j, S \ T) = Occurrences(j, S) - Occurrences(j, T)
<1>. DEFINE At(X) == {k \in DOMAIN dependsOn[j] : dependsOn[j][k] \in X}
<1>1. IsFiniteSet(At(S \ T)) /\ IsFiniteSet(At(T))
  BY OccurrencesType
<1>2. At(S \ T) \cup At(T) = At(S) /\ At(S \ T) \cap At(T) = {}
  OBVIOUS
<1>3. Cardinality(At(S)) = Cardinality(At(S \ T)) + Cardinality(At(T)) - Cardinality({})
  BY <1>1, <1>2, FS_Union
<1>4. Cardinality({}) = 0
  BY FS_EmptySet
<1>5. Occurrences(j, S) = Cardinality(At(S)) /\ Occurrences(j, T) = Cardinality(At(T))
      /\ Occurrences(j, S \ T) = Cardinality(At(S \ T))
  BY DEF Occurrences
<1>6. Occurrences(j, S) \in Nat /\ Occurrences(j, T) \in Nat /\ Occurrences(j, S \ T) \in Nat
  BY OccurrencesType
<1>. QED
  BY <1>3, <1>4, <1>5, <1>6

(* With known names, a job's list is counted whole by its length.          *)
LEMMA OccurrencesAll ==
    ASSUME dependsOn \in [Jobs -> Seq(Names)], NEW j \in Jobs, DepsOf(j) \subseteq Jobs
    PROVE  Occurrences(j, Jobs) = Len(dependsOn[j])
<1>1. {k \in DOMAIN dependsOn[j] : dependsOn[j][k] \in Jobs} = 1 .. Len(dependsOn[j])
  BY DEF DepsOf
<1>2. Len(dependsOn[j]) \in Nat
  OBVIOUS
<1>3. Cardinality(1 .. Len(dependsOn[j])) = Len(dependsOn[j])
  BY <1>2, FS_Interval
<1>. QED
  BY <1>1, <1>3 DEF Occurrences

-----------------------------------------------------------------------------
(* One level of Kahn's algorithm keeps the invariant.                      *)
LEMMA LevelKept ==
    ASSUME KahnInv, Level
    PROVE  KahnInv'
<1>. DEFINE n == Len(groups)
<1>1. /\ pc = "kahn" /\ pc' = "kahn" /\ Ready # {} /\ dependsOn' = dependsOn
      /\ groups' = Append(groups, Ready)
      /\ Remaining' = Remaining \ Ready
      /\ inDegree' = [j \in Remaining \ Ready |-> Decremented(j)]
  BY DEF Level, Remaining
<1>2. /\ dependsOn \in [Jobs -> Seq(Names)] /\ groups \in Seq(SUBSET Jobs) /\ n \in Nat
      /\ Ready \subseteq Remaining /\ Remaining \subseteq Jobs
      /\ inDegree \in [Remaining -> Int]
      /\ \A j \in Jobs : DepsOf(j) \subseteq Jobs
      /\ \A j \in Remaining : inDegree[j] = Occurrences(j, Remaining)
  BY <1>1 DEF KahnInv, Ready
<1>3. /\ groups' \in Seq(SUBSET Jobs) /\ Len(groups') = n + 1
      /\ DOMAIN groups' = 1 .. n + 1 /\ DOMAIN groups = 1 .. n
      /\ groups'[n + 1] = Ready
      /\ \A g \in 1 .. n : groups'[g] = groups[g]
  BY <1>1, <1>2
<1>4. \A j \in Jobs : DepsOf(j)' = DepsOf(j)
  BY <1>1 DEF DepsOf
<1>5. /\ inDegree' \in [Remaining' -> Int]
      /\ \A j \in Remaining' : inDegree'[j] = Occurrences(j, Remaining')
  <2>1. ASSUME NEW j \in Remaining \ Ready
        PROVE  /\ Decremented(j) = Occurrences(j, Remaining \ Ready)
               /\ Decremented(j) \in Int
    <3>1. j \in Jobs /\ inDegree[j] = Occurrences(j, Remaining)
      BY <1>2, <2>1
    <3>2. Occurrences(j, Remaining \ Ready) = Occurrences(j, Remaining) - Occurrences(j, Ready)
      BY <1>2, <3>1, OccurrencesSplit
    <3>3. Occurrences(j, Remaining \ Ready) \in Nat
      BY <1>2, <3>1, OccurrencesType
    <3>. QED
      BY <3>1, <3>2, <3>3 DEF Decremented
  <2>. QED
    BY <1>1, <2>1
<1>6. GroupsPartition'
  <2>1. /\ \A g, h \in 1 .. n : g # h => groups[g] \cap groups[h] = {}
        /\ \A g \in 1 .. n : groups[g] # {} /\ groups[g] \cap Remaining = {}
        /\ Jobs = Remaining \cup UNION {groups[g] : g \in 1 .. n}
    BY <1>3 DEF KahnInv, GroupsPartition, GroupIndices
  <2>2. \A g, h \in 1 .. n + 1 : g # h => groups'[g] \cap groups'[h] = {}
    <3>1. \A g \in 1 .. n + 1 : g \in 1 .. n \/ g = n + 1
      BY <1>2
    <3>. QED
      BY <1>2, <1>3, <2>1, <3>1
  <2>3. \A g \in 1 .. n + 1 : groups'[g] # {} /\ groups'[g] \cap Remaining' = {}
    <3>1. \A g \in 1 .. n + 1 : g \in 1 .. n \/ g = n + 1
      BY <1>2
    <3>. QED
      BY <1>1, <1>2, <1>3, <2>1, <3>1
  <2>4. Jobs = Remaining' \cup UNION {groups'[g] : g \in 1 .. n + 1}
    <3>1. UNION {groups'[g] : g \in 1 .. n + 1} = Ready \cup UNION {groups[g] : g \in 1 .. n}
      <4>1. \A g \in 1 .. n + 1 : g \in 1 .. n \/ g = n + 1
        BY <1>2
      <4>2. 1 .. n \subseteq 1 .. n + 1 /\ n + 1 \in 1 .. n + 1
        BY <1>2
      <4>. QED
        BY <1>3, <4>1, <4>2
    <3>. QED
      BY <1>1, <1>2, <2>1, <3>1
  <2>. QED
    BY <1>3, <2>2, <2>3, <2>4 DEF GroupsPartition, GroupIndices
<1>7. GroupsTopological'
  <2>1. ASSUME NEW g \in 1 .. n, NEW j \in groups[g], NEW d \in DepsOf(j)
        PROVE  \E h \in 1 .. n + 1 : h < g /\ d \in groups'[h]
    <3>1. PICK h \in 1 .. n : h < g /\ d \in groups[h]
      BY <1>3, <2>1 DEF KahnInv, GroupsTopological, GroupIndices
    <3>. QED
      BY <1>2, <1>3, <3>1
  <2>2. ASSUME NEW j \in Ready, NEW d \in DepsOf(j)
        PROVE  \E h \in 1 .. n + 1 : h < n + 1 /\ d \in groups'[h]
    <3>1. d \notin Remaining /\ d \in Jobs
      BY <1>2, <2>2, NoOccurrence DEF Ready
    <3>2. PICK h \in 1 .. n : d \in groups[h]
      BY <1>3, <3>1 DEF KahnInv, GroupsPartition, GroupIndices
    <3>. QED
      BY <1>2, <1>3, <3>2
  <2>3. \A g \in 1 .. n + 1 : g \in 1 .. n \/ g = n + 1
    BY <1>2
  <2>4. \A g \in 1 .. n + 1 : groups'[g] \subseteq Jobs
    BY <1>3
  <2>. QED
    BY <1>3, <1>4, <2>1, <2>2, <2>3, <2>4 DEF GroupsTopological, GroupIndices
<1>8. Len(groups') <= Cardinality(Jobs \ Remaining')
  <2>. DEFINE D == Jobs \ Remaining
  <2>1. IsFiniteSet(D) /\ IsFiniteSet(Ready)
    BY <1>2, SchedulerAssumption, FS_Subset
  <2>2. Jobs \ Remaining' = D \cup Ready /\ D \cap Ready = {}
    BY <1>1, <1>2
  <2>3. Cardinality(D \cup Ready) = Cardinality(D) + Cardinality(Ready) - Cardinality({})
    BY <2>1, <2>2, FS_Union
  <2>4. Cardinality({}) = 0 /\ Cardinality(Ready) # 0
    BY <1>1, <2>1, FS_EmptySet
  <2>5. Cardinality(Ready) \in Nat /\ Cardinality(D) \in Nat
    BY <2>1, FS_CardinalityType
  <2>6. n <= Cardinality(D)
    BY Zenon DEF KahnInv
  <2>7. Cardinality(Jobs \ Remaining') = Cardinality(D) + Cardinality(Ready)
    <3>1. Cardinality(Jobs \ Remaining') = Cardinality(D \cup Ready)
      BY <2>2, Zenon
    <3>2. Cardinality(D \cup Ready) = Cardinality(D) + Cardinality(Ready) - 0
      BY <2>3, <2>4
    <3>. HIDE DEF D
    <3>. QED
      BY <3>1, <3>2, <2>5
  <2>8. Cardinality(Ready) >= 1
    BY <2>4, <2>5
  <2>. HIDE DEF D, n
  <2>. QED
    BY <1>2, <1>3, <2>5, <2>6, <2>7, <2>8
<1>9. (/\ \A j \in Jobs : DepsOf(j) \subseteq Jobs
       /\ \A j \in Remaining : inDegree[j] = Occurrences(j, Remaining))'
  BY <1>1, <1>2, <1>4, <1>5 DEF Occurrences
<1>10. (dependsOn \in [Jobs -> Seq(Names)] /\ Remaining \subseteq Jobs)'
  BY <1>1, <1>2
<1>11. pc' = "kahn"
  BY <1>1
<1>. HIDE DEF n
<1>. QED
  BY <1>3, <1>5, <1>6, <1>7, <1>8, <1>9, <1>10, <1>11 DEF KahnInv

LEMMA KahnInit == Init => KahnInv
<1>. SUFFICES ASSUME Init PROVE KahnInv
  OBVIOUS
<1>1. /\ dependsOn \in [Jobs -> Seq(Names)] /\ pc = "start" /\ groups = <<>>
      /\ inDegree = [j \in Jobs |-> Len(dependsOn[j])]
  BY SchedulerAssumption DEF Init
<1>2. Remaining = Jobs /\ inDegree \in [Remaining -> Int]
      /\ \A j \in Jobs : inDegree[j] = Len(dependsOn[j])
  BY <1>1 DEF Remaining
<1>3. groups \in Seq(SUBSET Jobs) /\ DOMAIN groups = {} /\ Len(groups) = 0
  BY <1>1
<1>4. GroupsPartition /\ GroupsTopological
  BY <1>2, <1>3 DEF GroupsPartition, GroupsTopological, GroupIndices
<1>5. Len(groups) <= Cardinality(Jobs \ Remaining)
  <2>1. Jobs \ Remaining = {}
    BY <1>2
  <2>2. Cardinality(Jobs \ Remaining) = 0
    BY <2>1, FS_EmptySet
  <2>. QED
    BY <1>3, <2>2
<1>. QED
  BY <1>1, <1>2, <1>3, <1>4, <1>5 DEF KahnInv

(* The other steps leave the map and the groups alone, and move pc only    *)
(* where the invariant allows it.                                          *)
LEMMA KahnKept == KahnInv /\ [Next]_vars => KahnInv'
<1>. SUFFICES ASSUME KahnInv, [Next]_vars PROVE KahnInv'
  OBVIOUS
<1>1. CASE Level
  BY <1>1, LevelKept
<1>. DEFINE Same == UNCHANGED <<dependsOn, inDegree, groups>>
            Searching == {"search", "rebuild", "cycle"}
            Fixed == /\ dependsOn \in [Jobs -> Seq(Names)]
                     /\ Remaining \subseteq Jobs /\ inDegree \in [Remaining -> Int]
                     /\ groups \in Seq(SUBSET Jobs)
                     /\ GroupsPartition /\ GroupsTopological
                     /\ Len(groups) <= Cardinality(Jobs \ Remaining)
            Counted == /\ \A j \in Jobs : DepsOf(j) \subseteq Jobs
                       /\ \A j \in Remaining : inDegree[j] = Occurrences(j, Remaining)
<1>2. ASSUME Same
      PROVE  /\ Fixed'
             /\ Counted => Counted'
             /\ Remaining' = Remaining /\ Ready' = Ready
  <2>1. /\ Remaining' = Remaining /\ Ready' = Ready
        /\ \A j \in Jobs : DepsOf(j)' = DepsOf(j)
        /\ \A j \in Jobs : Occurrences(j, Remaining)' = Occurrences(j, Remaining)
    BY <1>2 DEF Remaining, Ready, DepsOf, Occurrences
  <2>2. GroupsPartition' /\ GroupsTopological'
    <3>1. GroupsPartition /\ GroupsTopological /\ groups \in Seq(SUBSET Jobs)
      BY DEF KahnInv
    <3>2. \A g \in DOMAIN groups : groups[g] \subseteq Jobs
      BY <3>1
    <3>3. GroupsPartition'
      BY <1>2, <2>1, <3>1 DEF GroupsPartition, GroupIndices
    <3>4. \A g \in DOMAIN groups : \A j \in groups[g] : DepsOf(j)' = DepsOf(j)
      BY <2>1, <3>2
    <3>5. groups' = groups
      BY <1>2
    <3>6. GroupsTopological'
      BY <3>1, <3>4, <3>5 DEF GroupsTopological, GroupIndices
    <3>. QED
      BY <3>3, <3>6
  <2>. QED
    BY <1>2, <2>1, <2>2 DEF KahnInv
<1>3. CASE UnknownName
  <2>1. Same /\ pc' = "unknown"
    BY <1>3 DEF UnknownName, kahnVars
  <2>. QED
    BY <1>2, <2>1 DEF KahnInv
<1>4. CASE NamesKnown
  <2>1. /\ Same /\ pc = "start" /\ pc' = "kahn"
        /\ \A j \in Jobs : DepsOf(j) \subseteq Jobs
    BY <1>4 DEF NamesKnown, kahnVars
  <2>2. /\ Remaining = Jobs /\ dependsOn \in [Jobs -> Seq(Names)]
        /\ \A j \in Jobs : inDegree[j] = Len(dependsOn[j])
    BY <2>1 DEF KahnInv
  <2>3. Counted
    BY <2>1, <2>2, OccurrencesAll
  <2>. QED
    BY <1>2, <2>1, <2>3 DEF KahnInv
<1>5. CASE Scheduled
  <2>1. Same /\ pc = "kahn" /\ pc' = "scheduled" /\ Remaining = {}
    BY <1>5 DEF Scheduled, kahnVars
  <2>. QED
    BY <1>2, <2>1 DEF KahnInv
<1>6. CASE Stuck
  <2>1. Same /\ pc = "kahn" /\ pc' = "search" /\ Remaining # {} /\ Ready = {}
    BY <1>6 DEF Stuck, kahnVars
  <2>. QED
    BY <1>2, <2>1 DEF KahnInv
<1>7. CASE Search
  <2>1. Same /\ pc \in Searching /\ pc' \in Searching
    BY <1>7 DEF Search, Root, Return, Rebuild, Report, Descend, PassBy, CloseCycle,
                LookAt, kahnVars
  <2>. QED
    BY <1>2, <2>1 DEF KahnInv
<1>8. CASE Finished \/ UNCHANGED vars
  <2>1. Same /\ pc' = pc
    BY <1>8 DEF Finished, vars, kahnVars
  <2>. QED
    BY <1>2, <2>1 DEF KahnInv
<1>. QED
  BY <1>1, <1>3, <1>4, <1>5, <1>6, <1>7, <1>8 DEF Next, Kahn

THEOREM KahnInvariant == Spec => []KahnInv
  BY KahnInit, KahnKept, PTL DEF Spec

(* Whatever the graph, repeated dependencies included, the groups built so *)
(* far put each job after all the jobs it depends on.                      *)
THEOREM GroupsAreTopological == Spec => []GroupsTopological
<1>1. KahnInv => GroupsTopological
  BY DEF KahnInv
<1>. QED
  BY KahnInvariant, <1>1, PTL

THEOREM GroupsArePartition == Spec => []GroupsPartition
<1>1. KahnInv => GroupsPartition
  BY DEF KahnInv
<1>. QED
  BY KahnInvariant, <1>1, PTL

(* What is ready after a level was not before it: the level had one of its *)
(* dependencies.                                                           *)
ReadyTight ==
    groups # <<>> => \A j \in Ready : DepsOf(j) \cap groups[Len(groups)] # {}

(* Each job is in the first group its dependencies allow, with any lists   *)
(* of dependencies and repetitions in them.                                *)
THEOREM GroupsAreTight == Spec => []GroupsTight
<1>1. Init => GroupsTight /\ ReadyTight
  BY DEF Init, GroupsTight, ReadyTight, GroupIndices
<1>2. KahnInv /\ KahnInv' /\ GroupsTight /\ ReadyTight /\ [Next]_vars
         => GroupsTight' /\ ReadyTight'
  <2>. SUFFICES ASSUME KahnInv, KahnInv', GroupsTight, ReadyTight, [Next]_vars
                PROVE  GroupsTight' /\ ReadyTight'
    OBVIOUS
  <2>1. CASE Level
    <3>. DEFINE n == Len(groups)
    <3>1. /\ pc = "kahn" /\ pc' = "kahn" /\ dependsOn' = dependsOn
          /\ groups' = Append(groups, Ready)
          /\ Remaining' = Remaining \ Ready
      BY <2>1 DEF Level, Remaining
    <3>2. /\ groups \in Seq(SUBSET Jobs) /\ n \in Nat
          /\ DOMAIN groups = 1 .. n /\ DOMAIN groups' = 1 .. n + 1
          /\ groups'[n + 1] = Ready /\ Len(groups') = n + 1
          /\ \A g \in 1 .. n : groups'[g] = groups[g]
      <4>1. groups \in Seq(SUBSET Jobs) /\ Ready \in SUBSET Jobs
        BY DEF KahnInv, Ready
      <4>. QED
        BY <3>1, <4>1
    <3>3. \A j \in Jobs : DepsOf(j)' = DepsOf(j)
      BY <3>1 DEF DepsOf
    <3>4. GroupsTight'
      <4>. SUFFICES ASSUME NEW g \in 1 .. n + 1, g # 1, NEW j \in groups'[g]
                    PROVE  DepsOf(j) \cap groups'[g - 1] # {} /\ DepsOf(j)' = DepsOf(j)
        BY <3>2 DEF GroupsTight, GroupIndices
      <4>1. j \in Jobs /\ g - 1 \in 1 .. n
        BY <3>2 DEF KahnInv, Ready
      <4>2. CASE g \in 1 .. n
        BY <3>2, <3>3, <4>1, <4>2 DEF GroupsTight, GroupIndices
      <4>3. CASE g = n + 1
        <5>1. groups # <<>> /\ j \in Ready /\ g - 1 = n
          BY <3>2, <4>1, <4>3
        <5>. QED
          BY <3>2, <3>3, <4>1, <5>1 DEF ReadyTight
      <4>. QED
        BY <3>2, <4>2, <4>3
    <3>5. ReadyTight'
      <4>. SUFFICES ASSUME NEW j \in Ready'
                    PROVE  (DepsOf(j) \cap groups[Len(groups)])' # {}
        BY DEF ReadyTight
      <4>1. /\ j \in Remaining /\ j \notin Ready /\ j \in Jobs
            /\ inDegree'[j] = 0 /\ j \in Remaining'
        BY <3>1 DEF Ready, KahnInv
      <4>2. /\ inDegree[j] = Occurrences(j, Remaining) /\ inDegree[j] # 0
            /\ dependsOn \in [Jobs -> Seq(Names)]
        BY <3>1, <4>1 DEF KahnInv, Ready
      <4>3. DepsOf(j) \cap Remaining # {}
        BY <4>1, <4>2, NoOccurrence
      <4>4. inDegree'[j] = Occurrences(j, Remaining)'
        BY <3>1, <4>1 DEF KahnInv
      <4>5. Occurrences(j, Remaining)' = Occurrences(j, Remaining')
        BY <3>1 DEF Occurrences
      <4>6. DepsOf(j) \cap Remaining' = {}
        BY <4>1, <4>2, <4>4, <4>5, NoOccurrence
      <4>. QED
        BY <3>1, <3>2, <3>3, <4>1, <4>3, <4>6
    <3>. QED
      BY <3>4, <3>5
  <2>2. CASE ~Level
    <3>1. UNCHANGED <<dependsOn, inDegree, groups>>
      BY <2>2 DEF Next, Kahn, Search, Finished, UnknownName, NamesKnown, Scheduled, Stuck, Root,
         Return, Rebuild, Report, Descend, PassBy, CloseCycle, vars, kahnVars
    <3>2. Ready' = Ready /\ \A j : DepsOf(j)' = DepsOf(j)
      BY <3>1 DEF Ready, Remaining, DepsOf
    <3>. QED
      BY <3>1, <3>2 DEF GroupsTight, ReadyTight, GroupIndices
  <2>. QED
    BY <2>1, <2>2
<1>. QED
  BY KahnInvariant, <1>1, <1>2, PTL DEF Spec

-----------------------------------------------------------------------------
(* The verdict.                                                            *)

(* A non-empty set of numbers has a least element.                         *)
LEMMA LeastNatural ==
    ASSUME NEW T \in SUBSET Nat, T # {}
    PROVE  \E x \in T : \A y \in T : x <= y
<1>1. PICK x \in T : \A y \in T : ~(<<y, x>> \in OpToRel(<, Nat))
  BY WFMin, NatLessThanWellFounded
<1>2. \A y \in T : ~(y < x)
  BY <1>1 DEF OpToRel
<1>. QED
  BY <1>2

(* Full groups rank the jobs: the graph has no cycle.                      *)
LEMMA ScheduledIsAcyclic ==
    ASSUME KahnInv, pc = "scheduled"
    PROVE  Acyclic
<1>. DEFINE n == Len(groups)
            rank == [j \in Jobs |-> CHOOSE g \in 1 .. n : j \in groups[g]]
<1>1. groups \in Seq(SUBSET Jobs) /\ n \in Nat /\ DOMAIN groups = 1 .. n
      /\ Remaining = {} /\ \A j \in Jobs : DepsOf(j) \subseteq Jobs
  BY DEF KahnInv
<1>2. \A j \in Jobs : \E g \in 1 .. n : j \in groups[g]
  BY <1>1 DEF KahnInv, GroupsPartition, GroupIndices
<1>3. \A j \in Jobs : rank[j] \in 1 .. n /\ j \in groups[rank[j]]
  BY <1>2
<1>4. \A j \in Jobs : \A g \in 1 .. n : j \in groups[g] => g = rank[j]
  BY <1>1, <1>3 DEF KahnInv, GroupsPartition, GroupIndices
<1>5. ASSUME NEW j \in Jobs, NEW d \in DepsOf(j)
      PROVE  rank[d] < rank[j]
  <2>1. PICK h \in 1 .. n : h < rank[j] /\ d \in groups[h]
    BY <1>1, <1>3, <1>5 DEF KahnInv, GroupsTopological, GroupIndices
  <2>. QED
    BY <1>1, <1>4, <1>5, <2>1
<1>6. n <= Cardinality(Jobs) /\ Cardinality(Jobs) \in Nat
  <2>1. Jobs \ Remaining = Jobs
    BY <1>1
  <2>2. n <= Cardinality(Jobs \ Remaining)
    BY Zenon DEF KahnInv
  <2>. QED
    BY <2>1, <2>2, SchedulerAssumption, FS_CardinalityType
<1>7. rank \in [Jobs -> 1 .. Cardinality(Jobs)]
  BY <1>1, <1>3, <1>6
<1>. HIDE DEF rank
<1>. QED
  BY <1>5, <1>7 DEF Acyclic

(* When no job is ready, each one left waits for another one left, and the *)
(* lowest-ranked of them would contradict any ranking.                     *)
LEMMA StuckIsCyclic ==
    ASSUME KahnInv, pc \in {"search", "rebuild", "cycle"}
    PROVE  ~Acyclic
<1>. SUFFICES ASSUME NEW rank \in [Jobs -> 1 .. Cardinality(Jobs)],
                     \A j \in Jobs : \A d \in DepsOf(j) : rank[d] < rank[j]
              PROVE  FALSE
  BY DEF Acyclic
<1>1. /\ Remaining # {} /\ Ready = {} /\ Remaining \subseteq Jobs
      /\ dependsOn \in [Jobs -> Seq(Names)]
      /\ \A j \in Remaining : inDegree[j] = Occurrences(j, Remaining)
  BY DEF KahnInv
<1>2. \A j \in Remaining : DepsOf(j) \cap Remaining # {}
  BY <1>1, NoOccurrence DEF Ready
<1>. DEFINE T == {rank[j] : j \in Remaining}
<1>3. Cardinality(Jobs) \in Nat
  BY SchedulerAssumption, FS_CardinalityType
<1>4. T \in SUBSET Nat /\ T # {}
  BY <1>1, <1>3
<1>5. PICK x \in T : \A y \in T : x <= y
  BY <1>4, LeastNatural
<1>6. PICK j \in Remaining : x = rank[j]
  OBVIOUS
<1>7. PICK d \in Remaining : d \in DepsOf(j)
  BY <1>2
<1>8. rank[d] < rank[j] /\ rank[d] \in T
  BY <1>1, <1>7
<1>9. rank[d] \in Nat /\ rank[j] \in Nat
  BY <1>1, <1>3
<1>. QED
  BY <1>5, <1>6, <1>8, <1>9

(* Schedule accepts only graphs without a cycle and takes the error path   *)
(* of findCycle only on graphs with one.                                   *)
THEOREM VerdictIsRight == Spec => []VerdictRight
<1>1. KahnInv => VerdictRight
  BY ScheduledIsAcyclic, StuckIsCyclic DEF VerdictRight
<1>. QED
  BY KahnInvariant, <1>1, PTL

-----------------------------------------------------------------------------
(* The search.                                                             *)

Frames == [node : Jobs, rest : SUBSET Jobs]
Depth   == Len(stack)
Nodes   == [i \in 1 .. Depth |-> stack[i].node]
Rests   == [i \in 1 .. Depth |-> stack[i].rest]

(* What the maps of findCycle hold.                                        *)
SearchTyped ==
    /\ color \in [Jobs -> {"white", "gray", "black"}]
    /\ parent \in [Jobs -> Jobs \cup {none}]
    /\ stack \in Seq(Frames)
    /\ pc # "search" => stack = <<>>
    /\ pc \in {"start", "unknown", "kahn", "scheduled"} => Whites = Jobs

(* The calls of dfs are a path of the graph over distinct gray jobs, and   *)
(* parent leads back along it.                                             *)
StackIsPath ==
    /\ \A j \in Jobs : color[j] = "gray" <=> \E i \in 1 .. Depth : Nodes[i] = j
    /\ \A i, k \in 1 .. Depth : Nodes[i] = Nodes[k] => i = k
    /\ \A i \in 1 .. Depth - 1 :
          Nodes[i + 1] \in DepsOf(Nodes[i]) /\ parent[Nodes[i + 1]] = Nodes[i]

(* A dependency a call has looked at is black, or the call above it; and   *)
(* no job that Kahn's algorithm left is ever black.                        *)
LookedAt ==
    /\ \A i \in 1 .. Depth : Rests[i] \subseteq DepsOf(Nodes[i])
    /\ \A i \in 1 .. Depth : \A d \in DepsOf(Nodes[i]) :
          \/ d \in Rests[i]
          \/ color[d] = "black"
          \/ i < Depth /\ d = Nodes[i + 1]
    /\ \A j \in Remaining : color[j] # "black"

(* c is a cycle, each job depending on the next one and each but the first *)
(* with its predecessor for parent.                                        *)
IsCycle(c) ==
    /\ c \in Seq(Jobs) /\ Len(c) > 0
    /\ \A i, k \in 1 .. Len(c) : c[i] = c[k] => i = k
    /\ \A i \in 1 .. Len(c) - 1 : c[i + 1] \in DepsOf(c[i]) /\ parent[c[i + 1]] = c[i]
    /\ c[1] \in DepsOf(c[Len(c)])

(* The rebuilding loop has walked the cycle c backwards down to m + 1.     *)
Rebuilding(c, m) ==
    /\ cur = c[m]
    /\ path = [k \in 1 .. Len(c) - m + 1 |-> IF k = 1 THEN c[1] ELSE c[Len(c) + 2 - k]]

PathIsCycle ==
    /\ Len(path) > 1 /\ path[1] = path[Len(path)]
    /\ \A k \in 1 .. Len(path) - 1 : path[k + 1] \in DepsOf(path[k])
    /\ \A k, l \in 1 .. Len(path) - 1 : path[k] = path[l] => k = l

SearchInv ==
    /\ SearchTyped
    /\ pc = "search" => StackIsPath /\ LookedAt
    /\ pc = "rebuild" => \E c : IsCycle(c) /\ \E m \in 1 .. Len(c) : Rebuilding(c, m)
    /\ pc = "cycle" => PathIsCycle

(* Each job that Kahn's algorithm left waits for another one.              *)
LEMMA LeftWaits ==
    ASSUME KahnInv, pc \in {"search", "rebuild", "cycle"}, NEW j \in Remaining
    PROVE  DepsOf(j) \cap Remaining # {}
<1>1. /\ Ready = {} /\ j \in Jobs /\ dependsOn \in [Jobs -> Seq(Names)]
      /\ inDegree[j] = Occurrences(j, Remaining)
  BY DEF KahnInv
<1>. QED
  BY <1>1, NoOccurrence DEF Ready

LEMMA LeastIsMember ==
    ASSUME NEW T \in SUBSET Jobs, T # {}
    PROVE  Least(T) \in T
<1>1. T \in SUBSET Nat
  BY SchedulerAssumption
<1>2. \E x \in T : \A y \in T : x <= y
  BY <1>1, LeastNatural
<1>. QED
  BY <1>2 DEF Least

(* A call of dfs on a white job, from the loop over the names.             *)
LEMMA RootKept ==
    ASSUME KahnInv, SearchInv, Root
    PROVE  SearchInv'
<1>. DEFINE r == Least(Whites)
<1>1. /\ pc = "search" /\ pc' = "search" /\ stack = <<>> /\ r \in Jobs /\ color[r] = "white"
  <2>1. Whites \in SUBSET Jobs /\ Whites # {}
    BY DEF Root, Whites
  <2>. QED
    BY <2>1, LeastIsMember DEF Root, Whites
<1>. HIDE DEF r
<1>2. /\ DepsOf(r) \subseteq Jobs
  BY <1>1 DEF KahnInv
<1>3. /\ stack' = <<[node |-> r, rest |-> DepsOf(r)]>>
      /\ color' = [color EXCEPT ![r] = "gray"]
      /\ parent' = parent /\ dependsOn' = dependsOn /\ inDegree' = inDegree
  BY <1>1 DEF Root, Push, r, kahnVars
<1>4. \A j : DepsOf(j)' = DepsOf(j)
  BY <1>3 DEF DepsOf
<1>5. /\ SearchTyped /\ \A j \in Jobs : color[j] # "gray"
      /\ \A j \in Remaining : color[j] # "black" /\ j \in Jobs
  BY <1>1 DEF SearchInv, StackIsPath, LookedAt, Depth, KahnInv
<1>6. SearchTyped'
  <2>1. [node |-> r, rest |-> DepsOf(r)] \in Frames
    BY <1>1, <1>2 DEF Frames
  <2>. QED
    BY <1>1, <1>3, <1>5, <2>1 DEF SearchTyped
<1>7. Depth' = 1 /\ Nodes'[1] = r /\ Rests'[1] = DepsOf(r)
  <2>1. Depth' = 1
    BY <1>3 DEF Depth
  <2>. QED
    BY <1>3, <2>1 DEF Nodes, Rests
<1>8. StackIsPath'
  BY <1>1, <1>3, <1>5, <1>7 DEF StackIsPath, SearchTyped
<1>9. LookedAt'
  BY <1>1, <1>3, <1>4, <1>5, <1>7 DEF LookedAt, SearchTyped, Remaining
<1>. QED
  BY <1>1, <1>6, <1>8, <1>9 DEF SearchInv

(* The calls on the stack.                                                 *)
LEMMA StackTyped ==
    ASSUME stack \in Seq(Frames)
    PROVE  /\ Depth \in Nat /\ (stack # <<>> => Depth > 0)
           /\ \A i \in 1 .. Depth :
                 /\ stack[i] \in Frames
                 /\ Nodes[i] = stack[i].node /\ Nodes[i] \in Jobs
                 /\ Rests[i] = stack[i].rest /\ Rests[i] \in SUBSET Jobs
<1>1. Depth \in Nat /\ (stack # <<>> => Depth > 0)
  BY DEF Depth
<1>2. \A i \in 1 .. Depth : stack[i] \in Frames
  BY DEF Depth
<1>3. \A f \in Frames : f.node \in Jobs /\ f.rest \in SUBSET Jobs
  BY DEF Frames
<1>. QED
  BY <1>1, <1>2, <1>3 DEF Nodes, Rests

(* What every look at a dependency shares: the stack is not empty, and dep *)
(* is a dependency of its top that has not been looked at.                 *)
LEMMA LookedAtDep ==
    ASSUME KahnInv, SearchInv, NEW dep, LookAt(dep)
    PROVE  /\ pc = "search" /\ Depth \in Nat /\ Depth > 0 /\ Top = stack[Depth]
           /\ dep \in Jobs /\ dep \in DepsOf(Nodes[Depth]) /\ dep \in Rests[Depth]
<1>1. /\ pc = "search" /\ stack # <<>> /\ Top.rest # {} /\ dep = Least(Top.rest)
      /\ stack \in Seq(Frames) /\ LookedAt /\ Top = stack[Depth]
  BY DEF LookAt, SearchInv, SearchTyped, Top, Depth
<1>2. /\ Depth \in Nat /\ Depth > 0 /\ Depth \in 1 .. Depth
  BY <1>1, StackTyped
<1>3. Rests[Depth] = Top.rest /\ Top.rest \in SUBSET Jobs
  BY <1>1, <1>2, StackTyped
<1>4. dep \in Top.rest
  BY <1>1, <1>3, LeastIsMember
<1>. QED
  BY <1>1, <1>2, <1>3, <1>4 DEF LookedAt

(* The stack after the top has looked at dep.                              *)
LEMMA DropTopIsShorter ==
    ASSUME KahnInv, SearchInv, NEW dep, LookAt(dep)
    PROVE  /\ DropTop(dep) \in Seq(Frames) /\ Len(DropTop(dep)) = Depth
           /\ \A i \in 1 .. Depth : DropTop(dep)[i].node = Nodes[i]
           /\ \A i \in 1 .. Depth - 1 : DropTop(dep)[i].rest = Rests[i]
           /\ DropTop(dep)[Depth].rest = Rests[Depth] \ {dep}
<1>. DEFINE top == [stack[Depth] EXCEPT !.rest = @ \ {dep}]
<1>1. /\ Depth \in Nat /\ Depth > 0 /\ stack \in Seq(Frames)
      /\ \A i \in 1 .. Depth : stack[i] \in Frames
  BY LookedAtDep, StackTyped DEF SearchInv, SearchTyped
<1>2. top \in Frames /\ top.node = stack[Depth].node /\ top.rest = stack[Depth].rest \ {dep}
  BY <1>1 DEF Frames
<1>3. DropTop(dep) = [stack EXCEPT ![Depth] = top]
  BY <1>1 DEF DropTop, Depth
<1>. HIDE DEF top
<1>4. DropTop(dep) \in Seq(Frames) /\ Len(DropTop(dep)) = Depth
  BY <1>1, <1>2, <1>3 DEF Depth
<1>5. /\ DropTop(dep)[Depth] = top
      /\ \A i \in 1 .. Depth : i # Depth => DropTop(dep)[i] = stack[i]
  BY <1>1, <1>3 DEF Depth
<1>6. \A i \in 1 .. Depth : Nodes[i] = stack[i].node /\ Rests[i] = stack[i].rest
  BY <1>1, StackTyped
<1>7. /\ \A i \in 1 .. Depth : DropTop(dep)[i].node = stack[i].node
      /\ \A i \in 1 .. Depth - 1 : DropTop(dep)[i].rest = stack[i].rest
      /\ DropTop(dep)[Depth].rest = stack[Depth].rest \ {dep}
  BY <1>1, <1>2, <1>5
<1>8. Depth \in 1 .. Depth /\ \A i \in 1 .. Depth - 1 : i \in 1 .. Depth
  BY <1>1
<1>. QED
  BY <1>4, <1>6, <1>7, <1>8

(* A dependency that was finished before is passed by.                     *)
LEMMA PassByKept ==
    ASSUME KahnInv, SearchInv, NEW dep, PassBy(dep)
    PROVE  SearchInv'
<1>1. /\ LookAt(dep) /\ color[dep] = "black" /\ stack' = DropTop(dep)
      /\ UNCHANGED <<dependsOn, pc, color, parent, inDegree>>
  BY DEF PassBy, kahnVars
<1>2. /\ pc = "search" /\ Depth \in Nat /\ Depth > 0
      /\ SearchTyped /\ StackIsPath /\ LookedAt
  BY <1>1, LookedAtDep DEF SearchInv
<1>3. /\ stack' \in Seq(Frames) /\ Depth' = Depth /\ Nodes' = Nodes
      /\ Rests' = [i \in 1 .. Depth |->
                      IF i = Depth THEN Rests[Depth] \ {dep} ELSE Rests[i]]
  <2>1. stack' \in Seq(Frames) /\ Depth' = Depth
    BY <1>1, DropTopIsShorter DEF Depth
  <2>2. \A i \in 1 .. Depth : stack'[i].node = stack[i].node
    BY <1>1, DropTopIsShorter DEF Nodes
  <2>3. ASSUME NEW i \in 1 .. Depth
        PROVE  stack'[i].rest = IF i = Depth THEN Rests[Depth] \ {dep} ELSE Rests[i]
    <3>1. stack'[Depth].rest = Rests[Depth] \ {dep}
      BY <1>1, DropTopIsShorter
    <3>2. \A k \in 1 .. Depth - 1 : stack'[k].rest = Rests[k]
      BY <1>1, DropTopIsShorter
    <3>3. CASE i = Depth
      BY <3>1, <3>3
    <3>4. CASE i \in 1 .. Depth - 1
      BY <1>2, <3>2, <3>4
    <3>. QED
      BY <1>2, <3>3, <3>4
  <2>. QED
    BY <2>1, <2>2, <2>3 DEF Nodes, Rests
<1>4. \A j : DepsOf(j)' = DepsOf(j)
  BY <1>1 DEF DepsOf
<1>5. SearchTyped'
  BY <1>1, <1>2, <1>3 DEF SearchTyped, Frames
<1>6. StackIsPath'
  BY <1>1, <1>2, <1>3, <1>4 DEF StackIsPath
<1>7. LookedAt'
  <2>1. \A i \in 1 .. Depth : Rests'[i] \subseteq Rests[i]
    BY <1>2, <1>3
  <2>2. ASSUME NEW i \in 1 .. Depth, NEW d \in Rests[i], d # dep
        PROVE  d \in Rests'[i]
    BY <1>3, <2>2
  <2>. QED
    BY <1>1, <1>2, <1>3, <1>4, <2>1, <2>2 DEF LookedAt, Remaining
<1>. QED
  BY <1>1, <1>2, <1>5, <1>6, <1>7 DEF SearchInv

(* A white dependency is called.                                           *)
LEMMA DescendKept ==
    ASSUME KahnInv, SearchInv, NEW dep, Descend(dep)
    PROVE  SearchInv'
<1>1. /\ LookAt(dep) /\ color[dep] = "white"
      /\ stack' = Append(DropTop(dep), [node |-> dep, rest |-> DepsOf(dep)])
      /\ color' = [color EXCEPT ![dep] = "gray"]
      /\ parent' = [parent EXCEPT ![dep] = Nodes[Depth]]
      /\ UNCHANGED <<dependsOn, pc, inDegree>>
  <2>1. LookAt(dep)
    BY DEF Descend
  <2>2. Top.node = Nodes[Depth]
    BY <2>1, LookedAtDep, StackTyped DEF SearchInv, SearchTyped
  <2>. QED
    BY <2>2 DEF Descend, kahnVars
<1>2. /\ pc = "search" /\ Depth \in Nat /\ Depth > 0
      /\ dep \in Jobs /\ dep \in DepsOf(Nodes[Depth]) /\ dep \in Rests[Depth]
      /\ \A i \in 1 .. Depth : Nodes[i] \in Jobs
      /\ SearchTyped /\ StackIsPath /\ LookedAt
  BY <1>1, LookedAtDep, StackTyped DEF SearchInv, SearchTyped
<1>3. DepsOf(dep) \subseteq Jobs
  BY <1>2 DEF KahnInv
<1>. DEFINE call == [node |-> dep, rest |-> DepsOf(dep)]
<1>4. call \in Frames
  BY <1>2, <1>3 DEF Frames
<1>5. /\ stack' \in Seq(Frames) /\ Depth' = Depth + 1
      /\ Nodes'[Depth + 1] = dep /\ Rests'[Depth + 1] = DepsOf(dep)
      /\ \A i \in 1 .. Depth : Nodes'[i] = Nodes[i]
      /\ \A i \in 1 .. Depth - 1 : Rests'[i] = Rests[i]
      /\ Rests'[Depth] = Rests[Depth] \ {dep}
  <2>. HIDE DEF call
  <2>1. /\ DropTop(dep) \in Seq(Frames) /\ Len(DropTop(dep)) = Depth
        /\ stack' = Append(DropTop(dep), call) /\ call \in Frames
    BY <1>1, <1>4, DropTopIsShorter DEF call
  <2>2. stack' \in Seq(Frames) /\ Len(stack') = Depth + 1 /\ stack'[Depth + 1] = call
        /\ \A i \in 1 .. Depth : stack'[i] = DropTop(dep)[i]
    BY <1>2, <2>1
  <2>3. Depth' = Depth + 1
    BY <2>2 DEF Depth
  <2>4. \A i \in 1 .. Depth + 1 : Nodes'[i] = stack'[i].node /\ Rests'[i] = stack'[i].rest
    BY <2>3 DEF Nodes, Rests
  <2>5. Nodes'[Depth + 1] = dep /\ Rests'[Depth + 1] = DepsOf(dep)
    BY <1>2, <2>2, <2>4 DEF call
  <2>6. \A i \in 1 .. Depth : Nodes'[i] = DropTop(dep)[i].node /\ Rests'[i] = DropTop(dep)[i].rest
    BY <1>2, <2>2, <2>4
  <2>. QED
    BY <1>1, <1>2, <2>2, <2>3, <2>5, <2>6, DropTopIsShorter
<1>6. \A i \in 1 .. Depth : Rests'[i] \subseteq Rests[i] /\ \A d \in Rests[i] : d # dep => d \in Rests'[i]
  BY <1>2, <1>5
<1>7. dep \notin Rests'[Depth] /\ \A i \in 1 .. Depth : Nodes'[i] = Nodes[i]
  BY <1>5
<1>8. /\ \A j : DepsOf(j)' = DepsOf(j)
      /\ \A i \in 1 .. Depth : Nodes[i] # dep
  BY <1>1, <1>2 DEF StackIsPath, DepsOf
<1>9. SearchTyped'
  BY <1>1, <1>2, <1>5 DEF SearchTyped
<1>10. StackIsPath'
  <2>1. ASSUME NEW j \in Jobs
        PROVE  color'[j] = "gray" <=> \E i \in 1 .. Depth + 1 : Nodes'[i] = j
    <3>1. CASE j = dep
      BY <1>1, <1>2, <1>5, <3>1 DEF SearchTyped
    <3>2. CASE j # dep
      <4>1. color'[j] = color[j]
        BY <1>1, <1>2, <3>2 DEF SearchTyped
      <4>2. (\E i \in 1 .. Depth + 1 : Nodes'[i] = j) <=> \E i \in 1 .. Depth : Nodes[i] = j
        BY <1>2, <1>5, <3>2
      <4>. QED
        BY <1>2, <4>1, <4>2 DEF StackIsPath
    <3>. QED
      BY <3>1, <3>2
  <2>2. ASSUME NEW i \in 1 .. Depth + 1, NEW k \in 1 .. Depth + 1, Nodes'[i] = Nodes'[k]
        PROVE  i = k
    <3>1. CASE i = Depth + 1 \/ k = Depth + 1
      BY <1>2, <1>5, <1>8, <2>2, <3>1
    <3>2. CASE i \in 1 .. Depth /\ k \in 1 .. Depth
      BY <1>2, <1>5, <2>2, <3>2 DEF StackIsPath
    <3>. QED
      BY <1>2, <3>1, <3>2
  <2>3. ASSUME NEW i \in 1 .. Depth
        PROVE  Nodes'[i + 1] \in DepsOf(Nodes'[i]) /\ parent'[Nodes'[i + 1]] = Nodes'[i]
    <3>1. CASE i = Depth
      BY <1>1, <1>2, <1>5, <1>6, <1>7, <3>1 DEF SearchTyped
    <3>2. CASE i # Depth
      <4>1. i \in 1 .. Depth - 1 /\ i + 1 \in 1 .. Depth
        BY <1>2, <3>2
      <4>2. /\ Nodes'[i + 1] = Nodes[i + 1] /\ Nodes'[i] = Nodes[i] /\ Nodes[i + 1] # dep
            /\ Nodes[i + 1] \in DepsOf(Nodes[i]) /\ parent[Nodes[i + 1]] = Nodes[i]
        BY <1>2, <1>7, <1>8, <4>1 DEF StackIsPath
      <4>. QED
        BY <1>1, <1>2, <4>1, <4>2 DEF SearchTyped
    <3>. QED
      BY <3>1, <3>2
  <2>. QED
    BY <1>2, <1>5, <1>8, <2>1, <2>2, <2>3 DEF StackIsPath
<1>11. LookedAt'
  <2>1. \A i \in 1 .. Depth + 1 : Rests'[i] \subseteq DepsOf(Nodes'[i])
    BY <1>2, <1>5, <1>6, <1>7 DEF LookedAt
  <2>2. ASSUME NEW i \in 1 .. Depth + 1, NEW d \in DepsOf(Nodes'[i])
        PROVE  \/ d \in Rests'[i]
               \/ color'[d] = "black"
               \/ i < Depth + 1 /\ d = Nodes'[i + 1]
    <3>1. CASE i = Depth + 1
      BY <1>5, <2>2, <3>1
    <3>2. CASE i = Depth
      <4>1. d \in Rests[Depth] \/ color[d] = "black"
        BY <1>2, <1>7, <2>2, <3>2 DEF LookedAt
      <4>. QED
        BY <1>1, <1>2, <1>5, <1>6, <1>7, <3>2, <4>1 DEF SearchTyped
    <3>3. CASE i \notin {Depth, Depth + 1}
      <4>1. i \in 1 .. Depth /\ i + 1 \in 1 .. Depth /\ i < Depth
        BY <1>2, <3>3
      <4>2. d \in Rests[i] \/ color[d] = "black" \/ d = Nodes[i + 1]
        BY <1>2, <1>7, <2>2, <4>1 DEF LookedAt
      <4>. QED
        BY <1>1, <1>2, <1>5, <1>6, <1>7, <2>2, <4>1, <4>2 DEF SearchTyped
    <3>. QED
      BY <3>1, <3>2, <3>3
  <2>3. \A j \in Remaining : color'[j] # "black"
    BY <1>1, <1>2 DEF LookedAt, SearchTyped
  <2>. QED
    BY <1>1, <1>2, <1>5, <1>8, <2>1, <2>2, <2>3 DEF LookedAt, Remaining
<1>. QED
  BY <1>1, <1>2, <1>9, <1>10, <1>11 DEF SearchInv

(* A call that has looked at all its dependencies returns: its job is      *)
(* black, so it is none of those that Kahn's algorithm left.               *)
LEMMA ReturnKept ==
    ASSUME KahnInv, SearchInv, Return
    PROVE  SearchInv'
<1>1. /\ pc = "search" /\ stack # <<>> /\ SearchTyped /\ StackIsPath /\ LookedAt
      /\ UNCHANGED <<dependsOn, pc, parent, inDegree>> /\ stack' = Front(stack)
  BY DEF Return, SearchInv, kahnVars
<1>2. /\ Depth \in Nat /\ Depth > 0
      /\ \A i \in 1 .. Depth : stack[i] \in Frames /\ Nodes[i] \in Jobs
  BY <1>1, StackTyped DEF SearchTyped
<1>3. /\ Rests[Depth] = {} /\ color' = [color EXCEPT ![Nodes[Depth]] = "black"]
  <2>1. Rests[Depth] = Top.rest /\ Nodes[Depth] = Top.node
    BY <1>1, <1>2, StackTyped DEF SearchTyped, Top, Depth
  <2>. QED
    BY <2>1 DEF Return
<1>4. /\ stack' \in Seq(Frames) /\ Depth' = Depth - 1
      /\ \A i \in 1 .. Depth - 1 : Nodes'[i] = Nodes[i] /\ Rests'[i] = Rests[i]
  <2>1. stack' = SubSeq(stack, 1, Depth - 1) /\ stack \in Seq(Frames) /\ Depth - 1 \in 0 .. Depth
    BY <1>1, <1>2 DEF SearchTyped, Depth, Front
  <2>2. /\ stack' \in Seq(Frames) /\ Len(stack') = Depth - 1
        /\ \A i \in 1 .. Depth - 1 : stack'[i] = stack[i]
    <3>. DEFINE n == Depth - 1
    <3>1. n \in Nat /\ \A i \in 1 .. n : stack[i] \in Frames
      BY <1>2
    <3>. HIDE DEF n
    <3>2. /\ SubSeq(stack, 1, n) \in Seq(Frames)
          /\ Len(SubSeq(stack, 1, n)) = IF 1 <= n THEN n - 1 + 1 ELSE 0
          /\ \A i \in 1 .. n - 1 + 1 : SubSeq(stack, 1, n)[i] = stack[1 + i - 1]
      BY <3>1, SubSeqProperties
    <3>3. /\ SubSeq(stack, 1, n) \in Seq(Frames) /\ Len(SubSeq(stack, 1, n)) = n
          /\ \A i \in 1 .. n : SubSeq(stack, 1, n)[i] = stack[i]
      BY <3>1, <3>2
    <3>. QED
      BY <2>1, <3>3 DEF n
  <2>3. Depth' = Depth - 1
    BY <2>2 DEF Depth
  <2>. QED
    BY <1>2, <2>2, <2>3 DEF Nodes, Rests
<1>5. \A j : DepsOf(j)' = DepsOf(j)
  BY <1>1 DEF DepsOf
<1>6. \A d \in DepsOf(Nodes[Depth]) : color[d] = "black"
  BY <1>1, <1>2, <1>3 DEF LookedAt
<1>7. Nodes[Depth] \notin Remaining
  BY <1>1, <1>6, LeftWaits DEF LookedAt
<1>8. \A i \in 1 .. Depth - 1 : Nodes'[i] = Nodes[i]
  BY <1>4
<1>9. SearchTyped'
  BY <1>1, <1>2, <1>3, <1>4 DEF SearchTyped
<1>10. StackIsPath'
  <2>1. ASSUME NEW j \in Jobs
        PROVE  color'[j] = "gray" <=> \E i \in 1 .. Depth - 1 : Nodes[i] = j
    <3>1. CASE j = Nodes[Depth]
      BY <1>1, <1>2, <1>3, <3>1 DEF SearchTyped, StackIsPath
    <3>2. CASE j # Nodes[Depth]
      BY <1>1, <1>2, <1>3, <3>2 DEF SearchTyped, StackIsPath
    <3>. QED
      BY <3>1, <3>2
  <2>2. \A i, k \in 1 .. Depth - 1 : Nodes[i] = Nodes[k] => i = k
    BY <1>1, <1>2 DEF StackIsPath
  <2>3. \A i \in 1 .. Depth - 2 : /\ Nodes'[i + 1] = Nodes[i + 1] /\ Nodes'[i] = Nodes[i]
                                /\ Nodes[i + 1] \in DepsOf(Nodes[i])
                                /\ parent[Nodes[i + 1]] = Nodes[i]
    BY <1>1, <1>2, <1>8 DEF StackIsPath
  <2>4. Depth' - 1 = Depth - 2 /\ parent' = parent /\ Depth' = Depth - 1
    BY <1>1, <1>2, <1>4
  <2>5. \A j \in Jobs : color'[j] = "gray" <=> \E i \in 1 .. Depth' : Nodes'[i] = j
    <3>1. \A j : (\E i \in 1 .. Depth - 1 : Nodes[i] = j) <=> \E i \in 1 .. Depth - 1 : Nodes'[i] = j
      BY <1>8
    <3>. QED
      BY <2>1, <2>4, <3>1
  <2>6. \A i, k \in 1 .. Depth' : Nodes'[i] = Nodes'[k] => i = k
    BY <1>8, <2>2, <2>4
  <2>7. \A i \in 1 .. Depth' - 1 :
            Nodes'[i + 1] \in DepsOf(Nodes[i])' /\ parent'[Nodes'[i + 1]] = Nodes'[i]
    <3>1. ASSUME NEW i \in 1 .. Depth - 2
          PROVE  Nodes'[i + 1] \in DepsOf(Nodes[i])' /\ parent'[Nodes'[i + 1]] = Nodes'[i]
      <4>1. /\ Nodes'[i + 1] = Nodes[i + 1] /\ Nodes'[i] = Nodes[i]
            /\ Nodes[i + 1] \in DepsOf(Nodes[i]) /\ parent[Nodes[i + 1]] = Nodes[i]
        BY <2>3
      <4>2. DepsOf(Nodes[i])' = DepsOf(Nodes'[i])
        BY <1>1 DEF DepsOf
      <4>. QED
        BY <2>4, <4>1, <4>2
    <3>. QED
      BY <2>4, <3>1
  <2>. QED
    BY <2>5, <2>6, <2>7 DEF StackIsPath
<1>11. LookedAt'
  <2>1. \A j \in Remaining : j \in Jobs /\ color'[j] # "black"
    BY <1>1, <1>2, <1>3, <1>7 DEF LookedAt, SearchTyped, KahnInv
  <2>2. ASSUME NEW i \in 1 .. Depth - 1, NEW d \in DepsOf(Nodes[i])
        PROVE  \/ d \in Rests[i]
               \/ color'[d] = "black"
               \/ i < Depth - 1 /\ d = Nodes[i + 1]
    BY <1>1, <1>2, <1>3, <2>2 DEF LookedAt, SearchTyped, KahnInv
  <2>3. \A i \in 1 .. Depth - 1 : i < Depth - 1 => Nodes'[i + 1] = Nodes[i + 1]
    BY <1>2, <1>8
  <2>. QED
    BY <1>1, <1>2, <1>4, <1>5, <1>8, <2>1, <2>2, <2>3 DEF LookedAt, Remaining
<1>. QED
  BY <1>1, <1>9, <1>10, <1>11 DEF SearchInv

(* A gray dependency is on the stack, and what lies above it is the cycle. *)
LEMMA CloseCycleKept ==
    ASSUME KahnInv, SearchInv, NEW dep, CloseCycle(dep)
    PROVE  SearchInv'
<1>1. /\ LookAt(dep) /\ color[dep] = "gray" /\ pc' = "rebuild" /\ stack' = <<>>
      /\ parent' = [parent EXCEPT ![dep] = Nodes[Depth]]
      /\ path' = <<dep>> /\ cur' = Nodes[Depth]
      /\ UNCHANGED <<dependsOn, color, inDegree>>
  <2>1. LookAt(dep)
    BY DEF CloseCycle
  <2>2. Top.node = Nodes[Depth]
    BY <2>1, LookedAtDep, StackTyped DEF SearchInv, SearchTyped
  <2>. QED
    BY <2>2 DEF CloseCycle, kahnVars
<1>2. /\ Depth \in Nat /\ Depth > 0 /\ dep \in Jobs /\ dep \in DepsOf(Nodes[Depth])
      /\ \A i \in 1 .. Depth : Nodes[i] \in Jobs
      /\ SearchTyped /\ StackIsPath
  BY <1>1, LookedAtDep, StackTyped DEF SearchInv, SearchTyped
<1>3. PICK b \in 1 .. Depth : Nodes[b] = dep
  BY <1>1, <1>2 DEF StackIsPath
<1>4. PICK n \in Nat : n = Depth - b + 1
  BY <1>2, <1>3
<1>5. /\ n > 0 /\ Depth = b + n - 1
      /\ \A i \in 1 .. n : b + i - 1 \in 1 .. Depth
      /\ \A i \in 1 .. n - 1 : b + i - 1 \in 1 .. Depth - 1 /\ b + (i + 1) - 1 = (b + i - 1) + 1
  BY <1>2, <1>3, <1>4
<1>6. PICK c : /\ c \in Seq(Jobs) /\ Len(c) = n
               /\ \A i \in 1 .. n : c[i] = Nodes[b + i - 1]
  <2>. DEFINE d == [i \in 1 .. n |-> Nodes[b + i - 1]]
  <2>1. d \in [1 .. n -> Jobs]
    BY <1>2, <1>5
  <2>2. d \in Seq(Jobs) /\ Len(d) = n
    BY <2>1
  <2>. QED
    BY <2>2
<1>7. /\ c[1] = dep /\ c[n] = Nodes[Depth]
      /\ \A i \in 1 .. n - 1 : c[i] = Nodes[b + i - 1] /\ c[i + 1] = Nodes[(b + i - 1) + 1]
  BY <1>2, <1>3, <1>5, <1>6
<1>8. \A i, k \in 1 .. n : c[i] = c[k] => i = k
  <2>1. ASSUME NEW i \in 1 .. n, NEW k \in 1 .. n, c[i] = c[k]
        PROVE  b + i - 1 = b + k - 1
    <3>1. b + i - 1 \in 1 .. Depth /\ b + k - 1 \in 1 .. Depth
      BY <1>5
    <3>2. Nodes[b + i - 1] = Nodes[b + k - 1]
      BY <1>6, <2>1
    <3>. QED
      BY <1>2, <3>1, <3>2, Zenon DEF StackIsPath
  <2>. QED
    BY <1>3, <2>1
<1>9. ASSUME NEW i \in 1 .. n - 1
      PROVE  c[i + 1] \in DepsOf(c[i]) /\ parent'[c[i + 1]] = c[i]
  <2>1. c[i + 1] \in DepsOf(c[i]) /\ parent[c[i + 1]] = c[i]
    BY <1>2, <1>5, <1>7 DEF StackIsPath
  <2>2. i + 1 \in 1 .. n /\ 1 \in 1 .. n /\ i + 1 # 1
    BY <1>5
  <2>3. c[i + 1] # dep /\ c[i + 1] \in Jobs
    BY <1>6, <1>7, <1>8, <2>2
  <2>. QED
    BY <1>1, <1>2, <2>1, <2>3 DEF SearchTyped
<1>10. \A j : DepsOf(j)' = DepsOf(j)
  BY <1>1 DEF DepsOf
<1>11. IsCycle(c)'
  BY <1>2, <1>5, <1>6, <1>7, <1>8, <1>9, <1>10 DEF IsCycle
<1>12. Rebuilding(c, n)'
  <2>1. path' = [k \in 1 .. n - n + 1 |-> IF k = 1 THEN c[1] ELSE c[n + 2 - k]]
    <3>1. n - n + 1 = 1
      OBVIOUS
    <3>2. path' = [k \in 1 .. 1 |-> c[1]]
      BY <1>1, <1>7
    <3>. QED
      BY <3>1, <3>2
  <2>. QED
    BY <1>1, <1>6, <1>7, <2>1 DEF Rebuilding
<1>13. n \in 1 .. Len(c)
  BY <1>5, <1>6
<1>14. SearchTyped'
  BY <1>1, <1>2 DEF SearchTyped, Whites, Frames
<1>. QED
  BY <1>1, <1>11, <1>12, <1>13, <1>14 DEF SearchInv

(* The loop adds the job it is at and goes to its parent, the one before.  *)
LEMMA RebuildKept ==
    ASSUME SearchInv, Rebuild
    PROVE  SearchInv'
<1>1. /\ pc = "rebuild" /\ cur # path[1] /\ path' = Append(path, cur) /\ cur' = parent[cur]
      /\ UNCHANGED <<dependsOn, pc, color, parent, stack>>
  BY DEF Rebuild, dfsVars
<1>2. PICK c : IsCycle(c) /\ \E m \in 1 .. Len(c) : Rebuilding(c, m)
  BY <1>1 DEF SearchInv
<1>3. PICK m \in 1 .. Len(c) : Rebuilding(c, m)
  BY <1>2
<1>. DEFINE n == Len(c)
<1>4. n \in Nat /\ n > 0 /\ m \in 1 .. n /\ c \in Seq(Jobs) /\ path[1] = c[1] /\ cur = c[m]
  BY <1>2, <1>3 DEF IsCycle, Rebuilding
<1>5. m - 1 \in 1 .. n /\ m - 1 \in 1 .. n - 1 /\ (m - 1) + 1 = m
  BY <1>1, <1>4
<1>6. cur' = c[m - 1]
  BY <1>1, <1>2, <1>4, <1>5 DEF IsCycle
<1>7. path' = [k \in 1 .. n - (m - 1) + 1 |-> IF k = 1 THEN c[1] ELSE c[n + 2 - k]]
  <2>. DEFINE l == n - m + 1
  <2>1. l \in Nat /\ l > 0 /\ n - (m - 1) + 1 = l + 1 /\ n + 2 - (l + 1) = m
    <3>1. n \in Nat /\ m \in 1 .. n
      BY <1>4
    <3>. HIDE DEF n
    <3>. QED
      BY <3>1
  <2>2. path = [k \in 1 .. l |-> IF k = 1 THEN c[1] ELSE c[n + 2 - k]]
    BY <1>3 DEF Rebuilding
  <2>. HIDE DEF l
  <2>3. path \in Seq({c[i] : i \in Int}) /\ Len(path) = l
    BY <2>1, <2>2, <1>4
  <2>4. path' = [k \in 1 .. l + 1 |-> IF k = l + 1 THEN c[m] ELSE path[k]]
    <3>1. path' = Append(path, c[m])
      BY <1>1, <1>4
    <3>. QED
      BY <2>1, <2>3, <3>1
  <2>5. ASSUME NEW k \in 1 .. l + 1
        PROVE  path'[k] = IF k = 1 THEN c[1] ELSE c[n + 2 - k]
    <3>1. CASE k = l + 1
      BY <2>1, <2>4, <3>1
    <3>2. CASE k \in 1 .. l
      BY <2>1, <2>2, <2>4, <3>2
    <3>. QED
      BY <2>1, <3>1, <3>2
  <2>. QED
    BY <2>1, <2>4, <2>5
<1>8. Rebuilding(c, m - 1)'
  BY <1>6, <1>7 DEF Rebuilding
<1>9. IsCycle(c)'
  BY <1>1, <1>2 DEF IsCycle, DepsOf
<1>10. SearchTyped'
  BY <1>1 DEF SearchInv, SearchTyped, Whites
<1>. QED
  BY <1>1, <1>5, <1>8, <1>9, <1>10 DEF SearchInv

(* Reversed, what the loop has gathered is the cycle in its own direction. *)
LEMMA ReportKept ==
    ASSUME SearchInv, Report
    PROVE  SearchInv'
<1>1. /\ pc = "rebuild" /\ pc' = "cycle" /\ cur = path[1]
      /\ path' = Reverse(Append(path, path[1]))
      /\ UNCHANGED <<dependsOn, color, parent, stack>>
  BY DEF Report, dfsVars
<1>2. PICK c : IsCycle(c) /\ \E m \in 1 .. Len(c) : Rebuilding(c, m)
  BY <1>1 DEF SearchInv
<1>3. PICK m \in 1 .. Len(c) : Rebuilding(c, m)
  BY <1>2
<1>. DEFINE n == Len(c)
<1>4. n \in Nat /\ n > 0 /\ m \in 1 .. n /\ c \in Seq(Jobs) /\ path[1] = c[1] /\ cur = c[m]
  BY <1>2, <1>3 DEF IsCycle, Rebuilding
<1>5. m = 1
  BY <1>1, <1>2, <1>4 DEF IsCycle
<1>. HIDE DEF n
<1>6. path = [k \in 1 .. n |-> IF k = 1 THEN c[1] ELSE c[n + 2 - k]]
  BY <1>3, <1>4, <1>5 DEF Rebuilding, n
<1>7. path \in Seq({c[i] : i \in Int}) /\ Len(path) = n
  BY <1>4, <1>6
<1>. DEFINE walk == Append(path, path[1])
<1>8. /\ Len(walk) = n + 1 /\ walk[1] = c[1] /\ walk[n + 1] = c[1]
      /\ \A k \in 2 .. n : walk[k] = c[n + 2 - k]
  BY <1>4, <1>6, <1>7
<1>9. path' = Reverse(walk)
  BY <1>1
<1>. HIDE DEF walk
<1>10. path' = [i \in 1 .. Len(walk) |-> walk[(Len(walk) - i) + 1]]
  BY <1>9, Zenon DEF Reverse
<1>11. Len(path') = n + 1 /\ path'[n + 1] = c[1] /\ \A i \in 1 .. n : path'[i] = c[i]
  <2>1. Len(path') = n + 1
    BY <1>4, <1>8, <1>10
  <2>2. path'[n + 1] = c[1]
    BY <1>4, <1>8, <1>10
  <2>3. ASSUME NEW i \in 1 .. n
        PROVE  path'[i] = c[i]
    <3>1. path'[i] = walk[n + 2 - i]
      BY <1>4, <1>8, <1>10
    <3>2. CASE i = 1
      BY <1>4, <1>8, <3>1, <3>2
    <3>3. CASE i # 1
      <4>1. n + 2 - i \in 2 .. n /\ n + 2 - (n + 2 - i) = i
        BY <1>4, <3>3
      <4>. QED
        BY <1>8, <3>1, <4>1
    <3>. QED
      BY <3>2, <3>3
  <2>. QED
    BY <2>1, <2>2, <2>3
<1>12. /\ \A i, k \in 1 .. n : c[i] = c[k] => i = k
       /\ \A i \in 1 .. n - 1 : c[i + 1] \in DepsOf(c[i])
       /\ c[1] \in DepsOf(c[n])
  BY <1>2 DEF IsCycle, n
<1>13. \A j : DepsOf(j)' = DepsOf(j)
  BY <1>1 DEF DepsOf
<1>14. PathIsCycle'
  <2>1. ASSUME NEW k \in 1 .. n
        PROVE  path'[k + 1] \in DepsOf(path'[k])
    <3>1. CASE k = n
      BY <1>4, <1>11, <1>12, <3>1
    <3>2. CASE k # n
      <4>1. k \in 1 .. n - 1 /\ k + 1 \in 1 .. n
        BY <1>4, <3>2
      <4>. QED
        BY <1>11, <1>12, <4>1
    <3>. QED
      BY <3>1, <3>2
  <2>2. \A k, l \in 1 .. n : path'[k] = path'[l] => k = l
    BY <1>11, <1>12
  <2>3. n + 1 > 1 /\ (n + 1) - 1 = n /\ path'[1] = c[1]
    BY <1>4, <1>11
  <2>. QED
    BY <1>11, <1>13, <2>1, <2>2, <2>3 DEF PathIsCycle
<1>15. SearchTyped'
  BY <1>1 DEF SearchInv, SearchTyped, Whites
<1>. QED
  BY <1>1, <1>14, <1>15 DEF SearchInv

(* Kahn's algorithm leaves the maps of findCycle as they were made.        *)
LEMMA KahnKeepsSearch ==
    ASSUME KahnInv, SearchInv, Kahn
    PROVE  SearchInv'
<1>1. /\ pc \in {"start", "kahn"} /\ UNCHANGED <<dfsVars, pathVars, dependsOn>>
      /\ pc' \in {"unknown", "kahn", "scheduled", "search"}
  BY DEF Kahn, UnknownName, NamesKnown, Level, Scheduled, Stuck
<1>2. SearchTyped /\ stack = <<>> /\ Whites = Jobs
  BY <1>1 DEF SearchInv, SearchTyped
<1>3. SearchTyped'
  BY <1>1, <1>2 DEF SearchTyped, dfsVars, Whites
<1>4. Depth' = 0 /\ \A j \in Jobs : color'[j] = "white"
  BY <1>1, <1>2 DEF Depth, dfsVars, Whites
<1>5. StackIsPath'
  BY <1>4 DEF StackIsPath
<1>6. CASE pc' = "search"
  <2>1. Remaining' \subseteq Jobs
    BY <1>1, <1>6 DEF Kahn, UnknownName, NamesKnown, Level, Scheduled, Stuck, kahnVars, KahnInv, Remaining
  <2>2. LookedAt'
    BY <1>4, <2>1 DEF LookedAt
  <2>. QED
    BY <1>3, <1>5, <1>6, <2>2 DEF SearchInv
<1>7. CASE pc' # "search"
  BY <1>1, <1>3, <1>7 DEF SearchInv
<1>. QED
  BY <1>6, <1>7

LEMMA SearchStutter ==
    ASSUME SearchInv, UNCHANGED vars
    PROVE  SearchInv'
<1>1. UNCHANGED <<dependsOn, pc, inDegree, color, parent, stack, path, cur>>
  BY DEF vars, kahnVars, dfsVars, pathVars
<1>2. /\ Depth' = Depth /\ Nodes' = Nodes /\ Rests' = Rests /\ Whites' = Whites
      /\ Remaining' = Remaining /\ \A j : DepsOf(j)' = DepsOf(j)
  BY <1>1 DEF Depth, Nodes, Rests, Whites, Remaining, DepsOf
<1>3. SearchTyped' = SearchTyped /\ StackIsPath' = StackIsPath /\ LookedAt' = LookedAt
  BY <1>1, <1>2 DEF SearchTyped, StackIsPath, LookedAt
<1>4. PathIsCycle' = PathIsCycle
  BY <1>1, <1>2 DEF PathIsCycle
<1>5. ASSUME NEW c, IsCycle(c), NEW m \in 1 .. Len(c), Rebuilding(c, m)
      PROVE  IsCycle(c)' /\ Rebuilding(c, m)'
  BY <1>1, <1>2, <1>5 DEF IsCycle, Rebuilding
<1>. QED
  BY <1>1, <1>3, <1>4, <1>5 DEF SearchInv

LEMMA SearchInvariant == Spec => []SearchInv
<1>1. Init => SearchInv
  BY DEF Init, SearchInv, SearchTyped, Whites, Frames
<1>2. KahnInv /\ SearchInv /\ [Next]_vars => SearchInv'
  <2>. SUFFICES ASSUME KahnInv, SearchInv, [Next]_vars
                PROVE  SearchInv'
    OBVIOUS
  <2>1. CASE Kahn
    BY <2>1, KahnKeepsSearch
  <2>2. CASE Root \/ Return \/ Rebuild \/ Report
    BY <2>2, RootKept, ReturnKept, RebuildKept, ReportKept
  <2>3. ASSUME NEW dep \in Jobs, Descend(dep) \/ PassBy(dep) \/ CloseCycle(dep)
        PROVE  SearchInv'
    BY <2>3, DescendKept, PassByKept, CloseCycleKept
  <2>4. CASE UNCHANGED vars
    BY <2>4, SearchStutter
  <2>. QED
    BY <2>1, <2>2, <2>3, <2>4 DEF Next, Search, Finished
<1>. QED
  BY KahnInvariant, <1>1, <1>2, PTL DEF Spec

(* The path that findCycle reports is a cycle of the graph, and the search *)
(* never ends without one: a job that Kahn's algorithm left is never       *)
(* black, so as long as no cycle is found one of them is white.            *)
THEOREM ReportedCycleIsReal == Spec => []CycleIsReal
<1>1. KahnInv /\ SearchInv => CycleIsReal
  <2>. SUFFICES ASSUME KahnInv, SearchInv
                PROVE  CycleIsReal
    OBVIOUS
  <2>1. pc = "cycle" => PathIsCycle
    BY DEF SearchInv
  <2>2. ASSUME pc = "search", stack = <<>>
        PROVE  Whites # {}
    <3>1. PICK j \in Remaining : j \in Jobs
      BY <2>2 DEF KahnInv
    <3>2. color[j] # "black"
      BY <2>2, <3>1 DEF SearchInv, LookedAt
    <3>3. Depth = 0
      BY <2>2 DEF Depth
    <3>4. color[j] # "gray"
      BY <2>2, <3>1, <3>3 DEF SearchInv, StackIsPath
    <3>5. color[j] = "white"
      BY <3>1, <3>2, <3>4 DEF SearchInv, SearchTyped
    <3>. QED
      BY <3>1, <3>5 DEF Whites
  <2>. QED
    BY <2>1, <2>2 DEF CycleIsReal, PathIsCycle
<1>. QED
  BY KahnInvariant, SearchInvariant, <1>1, PTL

-----------------------------------------------------------------------------
(* Every step counts.                                                      *)

(* What Budget counts but the stage.                                       *)
NothingGrows ==
    /\ Remaining' \subseteq Remaining /\ Whites' \subseteq Whites
    /\ Unfinished' \subseteq Unfinished /\ Unlooked' \subseteq Unlooked
    /\ Unwalked' \subseteq Unwalked

SomethingShrinks ==
    \/ Remaining' # Remaining \/ Whites' # Whites \/ Unfinished' # Unfinished
    \/ Unlooked' # Unlooked \/ Unwalked' # Unwalked

StepCounts == NothingGrows /\ Stage' <= Stage /\ (Stage' < Stage \/ SomethingShrinks)

LEMMA StageType == Stage \in Nat
  BY DEF Stage

(* A part of a finite set counts no more, and less when it is not all.     *)
LEMMA FewerLeft ==
    ASSUME NEW S, IsFiniteSet(S), NEW T, T \subseteq S
    PROVE  /\ Cardinality(T) \in Nat /\ Cardinality(S) \in Nat
           /\ Cardinality(T) <= Cardinality(S)
           /\ T # S => Cardinality(T) < Cardinality(S)
<1>1. IsFiniteSet(T) /\ Cardinality(T) <= Cardinality(S)
      /\ (Cardinality(S) = Cardinality(T) => S = T)
  BY FS_Subset
<1>2. Cardinality(T) \in Nat /\ Cardinality(S) \in Nat
  BY <1>1, FS_CardinalityType
<1>. QED
  BY <1>1, <1>2

LEMMA BudgetIsFinite ==
    ASSUME KahnInv
    PROVE  /\ IsFiniteSet(Remaining) /\ IsFiniteSet(Whites) /\ IsFiniteSet(Unfinished)
           /\ IsFiniteSet(Unlooked) /\ IsFiniteSet(Unwalked)
<1>1. IsFiniteSet(Jobs) /\ IsFiniteSet(Jobs \X Jobs)
  BY SchedulerAssumption, FS_Product
<1>2. /\ Remaining \subseteq Jobs /\ Whites \subseteq Jobs /\ Unfinished \subseteq Jobs
      /\ Unlooked \subseteq Jobs \X Jobs /\ Unwalked \subseteq Jobs
  BY DEF KahnInv, Whites, Unfinished, Unlooked, Unwalked
<1>. QED
  BY <1>1, <1>2, FS_Subset

LEMMA CountingStep ==
    ASSUME KahnInv, StepCounts
    PROVE  Budget' < Budget
<1>. DEFINE Lower(x, y) == x \in Nat /\ y \in Nat /\ x <= y
<1>1. /\ Lower(Cardinality(Remaining'), Cardinality(Remaining))
      /\ (Remaining' # Remaining => Cardinality(Remaining') < Cardinality(Remaining))
  BY BudgetIsFinite, FewerLeft DEF StepCounts, NothingGrows
<1>2. /\ Lower(Cardinality(Whites'), Cardinality(Whites))
      /\ (Whites' # Whites => Cardinality(Whites') < Cardinality(Whites))
  BY BudgetIsFinite, FewerLeft DEF StepCounts, NothingGrows
<1>3. /\ Lower(Cardinality(Unfinished'), Cardinality(Unfinished))
      /\ (Unfinished' # Unfinished => Cardinality(Unfinished') < Cardinality(Unfinished))
  BY BudgetIsFinite, FewerLeft DEF StepCounts, NothingGrows
<1>4. /\ Lower(Cardinality(Unlooked'), Cardinality(Unlooked))
      /\ (Unlooked' # Unlooked => Cardinality(Unlooked') < Cardinality(Unlooked))
  BY BudgetIsFinite, FewerLeft DEF StepCounts, NothingGrows
<1>5. /\ Lower(Cardinality(Unwalked'), Cardinality(Unwalked))
      /\ (Unwalked' # Unwalked => Cardinality(Unwalked') < Cardinality(Unwalked))
  BY BudgetIsFinite, FewerLeft DEF StepCounts, NothingGrows
<1>6. Stage \in Nat /\ Stage' \in Nat /\ Stage' <= Stage /\ (Stage' < Stage \/ SomethingShrinks)
  BY StageType DEF StepCounts, Stage
<1>. QED
  BY <1>1, <1>2, <1>3, <1>4, <1>5, <1>6 DEF Budget, SomethingShrinks

(* The pairs not looked at, in terms of the calls on the stack.            *)
LEMMA UnlookedMembers ==
    ASSUME stack \in Seq(Frames)
    PROVE  \A j, d : <<j, d>> \in Unlooked <=>
               /\ j \in Jobs /\ d \in Jobs /\ d \in DepsOf(j)
               /\ color[j] = "white" \/ \E k \in 1 .. Depth : Nodes[k] = j /\ d \in Rests[k]
<1>1. DOMAIN stack = 1 .. Depth
  BY DEF Depth
<1>2. \A k \in 1 .. Depth : stack[k].node = Nodes[k] /\ stack[k].rest = Rests[k]
  BY StackTyped
<1>. QED
  BY <1>1, <1>2 DEF Unlooked

LEMMA UnlookedAfter ==
    ASSUME stack' \in Seq(Frames)
    PROVE  \A j, d : <<j, d>> \in Unlooked' <=>
               /\ j \in Jobs /\ d \in Jobs /\ d \in DepsOf(j)'
               /\ color'[j] = "white" \/ \E k \in 1 .. Depth' : Nodes'[k] = j /\ d \in Rests'[k]
<1>1. DOMAIN stack' = 1 .. Depth'
  BY DEF Depth
<1>2. \A k \in 1 .. Depth' : stack'[k].node = Nodes'[k] /\ stack'[k].rest = Rests'[k]
  BY DEF Nodes, Rests
<1>. QED
  BY <1>1, <1>2 DEF Unlooked

(* The loops of Schedule: a pass takes its group off, the rest moves on.   *)
LEMMA KahnCounts ==
    ASSUME KahnInv, Kahn
    PROVE  StepCounts
<1>1. UNCHANGED <<dependsOn, color, parent, stack, path, cur>>
  BY DEF Kahn, UnknownName, NamesKnown, Level, Scheduled, Stuck, dfsVars, pathVars
<1>2. UNCHANGED <<Whites, Unfinished, Unlooked, Unwalked>>
  BY <1>1 DEF Whites, Unfinished, Unlooked, Unwalked, DepsOf
<1>3. CASE Level
  <2>1. Remaining' = Remaining \ Ready /\ Ready # {} /\ Ready \subseteq Remaining /\ pc' = pc
    BY <1>3 DEF Level, Remaining, Ready
  <2>2. Stage' = Stage /\ Stage \in Nat
    BY <2>1 DEF Stage
  <2>. QED
    BY <1>2, <2>1, <2>2 DEF StepCounts, NothingGrows, SomethingShrinks
<1>4. CASE ~Level
  <2>1. /\ inDegree' = inDegree
        /\ \/ pc = "start" /\ pc' \in {"unknown", "kahn"}
           \/ pc = "kahn" /\ pc' \in {"scheduled", "search"}
    BY <1>4 DEF Kahn, UnknownName, NamesKnown, Scheduled, Stuck, kahnVars
  <2>2. Remaining' = Remaining
    BY <2>1 DEF Remaining
  <2>3. Stage' < Stage /\ Stage' <= Stage
    BY <2>1 DEF Stage
  <2>. QED
    BY <1>2, <2>2, <2>3 DEF StepCounts, NothingGrows
<1>. QED
  BY <1>3, <1>4

(* A step of the search that turns one job gray or black, or looks at a    *)
(* dependency, whatever it does to the stack.                              *)
LEMMA SearchStepCounts ==
    ASSUME UNCHANGED <<dependsOn, pc, inDegree, path>>,
           Whites' \subseteq Whites, Unfinished' \subseteq Unfinished,
           Unlooked' \subseteq Unlooked,
           Whites' # Whites \/ Unfinished' # Unfinished \/ Unlooked' # Unlooked
    PROVE  StepCounts
<1>1. Remaining' = Remaining /\ Unwalked' = Unwalked /\ Stage' = Stage /\ Stage \in Nat
  BY DEF Remaining, Unwalked, Stage
<1>. QED
  BY <1>1 DEF StepCounts, NothingGrows, SomethingShrinks

LEMMA RootCounts ==
    ASSUME KahnInv, SearchInv, SearchInv', Root
    PROVE  StepCounts
<1>. DEFINE r == Least(Whites)
<1>1. r \in Jobs /\ color[r] = "white"
  <2>1. Whites \in SUBSET Jobs /\ Whites # {}
    BY DEF Root, Whites
  <2>. QED
    BY <2>1, LeastIsMember DEF Whites
<1>. HIDE DEF r
<1>2. /\ stack' = <<[node |-> r, rest |-> DepsOf(r)]>> /\ stack = <<>>
      /\ color' = [color EXCEPT ![r] = "gray"]
      /\ UNCHANGED <<dependsOn, pc, inDegree, path>>
  BY DEF Root, Push, r, kahnVars, pathVars
<1>3. color \in [Jobs -> {"white", "gray", "black"}] /\ stack \in Seq(Frames) /\ stack' \in Seq(Frames)
  BY DEF SearchInv, SearchTyped
<1>4. Depth' = 1 /\ Nodes'[1] = r
  <2>1. Depth' = 1
    BY <1>2 DEF Depth
  <2>. QED
    BY <1>2, <2>1 DEF Nodes
<1>5. Whites' \subseteq Whites /\ Whites' # Whites /\ Unfinished' \subseteq Unfinished
  BY <1>1, <1>2, <1>3 DEF Whites, Unfinished
<1>6. Unlooked' \subseteq Unlooked
  <2>. SUFFICES ASSUME NEW j \in Jobs, NEW d \in Jobs, <<j, d>> \in Unlooked'
                PROVE  <<j, d>> \in Unlooked
    BY DEF Unlooked
  <2>1. /\ d \in DepsOf(j)'
        /\ color'[j] = "white" \/ \E k \in 1 .. Depth' : Nodes'[k] = j
    BY <1>3, UnlookedAfter
  <2>2. d \in DepsOf(j)
    BY <1>2, <2>1 DEF DepsOf
  <2>3. color[j] = "white"
    BY <1>1, <1>2, <1>3, <1>4, <2>1
  <2>. QED
    BY <1>3, <2>2, <2>3, UnlookedMembers
<1>. QED
  BY <1>2, <1>5, <1>6, SearchStepCounts

LEMMA DescendCounts ==
    ASSUME KahnInv, SearchInv, SearchInv', NEW dep, Descend(dep)
    PROVE  StepCounts
<1>1. /\ LookAt(dep) /\ color[dep] = "white"
      /\ stack' = Append(DropTop(dep), [node |-> dep, rest |-> DepsOf(dep)])
      /\ color' = [color EXCEPT ![dep] = "gray"]
      /\ UNCHANGED <<dependsOn, pc, inDegree, path>>
  BY DEF Descend, kahnVars, pathVars
<1>2. Depth \in Nat /\ Depth > 0 /\ dep \in Jobs
  BY <1>1, LookedAtDep
<1>3. color \in [Jobs -> {"white", "gray", "black"}] /\ stack \in Seq(Frames) /\ stack' \in Seq(Frames)
  BY DEF SearchInv, SearchTyped
<1>4. /\ Len(DropTop(dep)) = Depth /\ DropTop(dep) \in Seq(Frames)
      /\ \A k \in 1 .. Depth : DropTop(dep)[k].node = Nodes[k] /\ DropTop(dep)[k].rest \subseteq Rests[k]
  BY <1>1, <1>2, DropTopIsShorter
<1>5. /\ Depth' = Depth + 1 /\ Nodes'[Depth + 1] = dep
      /\ \A k \in 1 .. Depth : Nodes'[k] = Nodes[k] /\ Rests'[k] \subseteq Rests[k]
  <2>1. /\ Len(stack') = Depth + 1 /\ stack'[Depth + 1].node = dep
        /\ \A k \in 1 .. Depth : stack'[k] = DropTop(dep)[k]
    BY <1>1, <1>2, <1>4
  <2>2. Depth' = Depth + 1
    BY <2>1 DEF Depth
  <2>3. \A k \in 1 .. Depth + 1 : Nodes'[k] = stack'[k].node /\ Rests'[k] = stack'[k].rest
    BY <2>2 DEF Nodes, Rests
  <2>. QED
    BY <1>2, <1>4, <2>1, <2>2, <2>3
<1>6. Whites' \subseteq Whites /\ Whites' # Whites /\ Unfinished' \subseteq Unfinished
  BY <1>1, <1>2, <1>3 DEF Whites, Unfinished
<1>7. Unlooked' \subseteq Unlooked
  <2>. SUFFICES ASSUME NEW j \in Jobs, NEW d \in Jobs, <<j, d>> \in Unlooked'
                PROVE  <<j, d>> \in Unlooked
    BY DEF Unlooked
  <2>1. /\ d \in DepsOf(j)'
        /\ color'[j] = "white" \/ \E k \in 1 .. Depth' : Nodes'[k] = j /\ d \in Rests'[k]
    BY <1>3, UnlookedAfter
  <2>2. d \in DepsOf(j)
    BY <1>1, <2>1 DEF DepsOf
  <2>3. CASE j = dep \/ color'[j] = "white"
    <3>1. color[j] = "white"
      BY <1>1, <1>2, <1>3, <2>3
    <3>. QED
      BY <1>3, <2>2, <3>1, UnlookedMembers
  <2>4. CASE j # dep /\ color'[j] # "white"
    <3>1. \E k \in 1 .. Depth : Nodes[k] = j /\ d \in Rests[k]
      BY <1>2, <1>5, <2>1, <2>4
    <3>. QED
      BY <1>3, <2>2, <3>1, UnlookedMembers
  <2>. QED
    BY <2>3, <2>4
<1>. QED
  BY <1>1, <1>6, <1>7, SearchStepCounts

LEMMA PassByCounts ==
    ASSUME KahnInv, SearchInv, SearchInv', NEW dep, PassBy(dep)
    PROVE  StepCounts
<1>1. /\ LookAt(dep) /\ stack' = DropTop(dep)
      /\ UNCHANGED <<dependsOn, pc, inDegree, path, color>>
  BY DEF PassBy, kahnVars, pathVars
<1>2. /\ Depth \in Nat /\ Depth > 0 /\ dep \in Jobs /\ dep \in DepsOf(Nodes[Depth])
      /\ dep \in Rests[Depth] /\ pc = "search"
  BY <1>1, LookedAtDep
<1>3. stack \in Seq(Frames) /\ stack' \in Seq(Frames) /\ StackIsPath
  BY <1>2 DEF SearchInv, SearchTyped
<1>4. /\ Depth' = Depth
      /\ \A k \in 1 .. Depth : Nodes'[k] = Nodes[k] /\ Rests'[k] \subseteq Rests[k]
      /\ Rests'[Depth] = Rests[Depth] \ {dep}
  <2>1. Depth' = Depth
    BY <1>1, DropTopIsShorter DEF Depth
  <2>2. \A k \in 1 .. Depth : Nodes'[k] = DropTop(dep)[k].node /\ Rests'[k] = DropTop(dep)[k].rest
    BY <1>1, <2>1 DEF Nodes, Rests
  <2>3. \A k \in 1 .. Depth : DropTop(dep)[k].node = Nodes[k] /\ DropTop(dep)[k].rest \subseteq Rests[k]
    BY <1>1, <1>2, DropTopIsShorter
  <2>. QED
    BY <1>1, <1>2, <2>1, <2>2, <2>3, DropTopIsShorter
<1>5. Whites' = Whites /\ Unfinished' = Unfinished
  BY <1>1 DEF Whites, Unfinished
<1>6. Unlooked' \subseteq Unlooked
  <2>. SUFFICES ASSUME NEW j \in Jobs, NEW d \in Jobs, <<j, d>> \in Unlooked'
                PROVE  <<j, d>> \in Unlooked
    BY DEF Unlooked
  <2>1. /\ d \in DepsOf(j)'
        /\ color'[j] = "white" \/ \E k \in 1 .. Depth' : Nodes'[k] = j /\ d \in Rests'[k]
    BY <1>3, UnlookedAfter
  <2>2. d \in DepsOf(j)
    BY <1>1, <2>1 DEF DepsOf
  <2>3. color[j] = "white" \/ \E k \in 1 .. Depth : Nodes[k] = j /\ d \in Rests[k]
    BY <1>1, <1>4, <2>1
  <2>. QED
    BY <1>3, <2>2, <2>3, UnlookedMembers
<1>7. Unlooked' # Unlooked
  <2>. DEFINE top == Nodes[Depth]
  <2>1. top \in Jobs /\ Depth \in 1 .. Depth
    BY <1>2, <1>3, StackTyped
  <2>2. <<top, dep>> \in Unlooked
    BY <1>2, <1>3, <2>1, UnlookedMembers
  <2>3. color[top] = "gray" /\ \A k \in 1 .. Depth : Nodes[k] = top => k = Depth
    BY <1>3, <2>1 DEF StackIsPath
  <2>4. color'[top] # "white" /\ ~ \E k \in 1 .. Depth' : Nodes'[k] = top /\ dep \in Rests'[k]
    BY <1>1, <1>4, <2>3
  <2>5. <<top, dep>> \notin Unlooked'
    BY <1>3, <2>4, UnlookedAfter
  <2>. QED
    BY <2>2, <2>5
<1>. QED
  BY <1>1, <1>5, <1>6, <1>7, SearchStepCounts

LEMMA ReturnCounts ==
    ASSUME KahnInv, SearchInv, SearchInv', Return
    PROVE  StepCounts
<1>1. /\ pc = "search" /\ stack # <<>> /\ stack' = Front(stack)
      /\ color' = [color EXCEPT ![Top.node] = "black"]
      /\ UNCHANGED <<dependsOn, pc, inDegree, path>>
  BY DEF Return, kahnVars, pathVars
<1>2. /\ stack \in Seq(Frames) /\ stack' \in Seq(Frames) /\ StackIsPath
      /\ color \in [Jobs -> {"white", "gray", "black"}]
  BY <1>1 DEF SearchInv, SearchTyped
<1>3. /\ Depth \in Nat /\ Depth > 0 /\ Top.node = Nodes[Depth]
      /\ Nodes[Depth] \in Jobs /\ color[Nodes[Depth]] = "gray"
  <2>1. Depth \in Nat /\ Depth > 0
    BY <1>1, <1>2, StackTyped
  <2>2. Depth \in 1 .. Depth
    BY <2>1
  <2>3. Top.node = Nodes[Depth] /\ Nodes[Depth] \in Jobs
    BY <1>2, <2>2, StackTyped DEF Top, Depth
  <2>. QED
    BY <1>2, <2>1, <2>2, <2>3 DEF StackIsPath
<1>4. /\ Depth' = Depth - 1
      /\ \A k \in 1 .. Depth - 1 : Nodes'[k] = Nodes[k] /\ Rests'[k] = Rests[k]
  <2>. DEFINE n == Depth - 1
  <2>1. n \in Nat /\ stack' = SubSeq(stack, 1, n) /\ \A i \in 1 .. n : stack[i] \in Frames
    BY <1>1, <1>2, <1>3, StackTyped DEF Front, Depth
  <2>. HIDE DEF n
  <2>3. /\ Len(SubSeq(stack, 1, n)) = IF 1 <= n THEN n - 1 + 1 ELSE 0
        /\ \A i \in 1 .. n - 1 + 1 : SubSeq(stack, 1, n)[i] = stack[1 + i - 1]
    BY <2>1, SubSeqProperties
  <2>4. Len(stack') = n /\ \A k \in 1 .. n : stack'[k] = stack[k]
    BY <2>1, <2>3
  <2>5. Len(stack') = Depth - 1 /\ \A k \in 1 .. Depth - 1 : stack'[k] = stack[k]
    BY <2>4 DEF n
  <2>2. Depth' = Depth - 1
    BY <2>5 DEF Depth
  <2>. QED
    BY <1>3, <2>5, <2>2 DEF Nodes, Rests
<1>5. Whites' \subseteq Whites /\ Unfinished' \subseteq Unfinished /\ Unfinished' # Unfinished
  BY <1>1, <1>2, <1>3 DEF Whites, Unfinished
<1>6. Unlooked' \subseteq Unlooked
  <2>. SUFFICES ASSUME NEW j \in Jobs, NEW d \in Jobs, <<j, d>> \in Unlooked'
                PROVE  <<j, d>> \in Unlooked
    BY DEF Unlooked
  <2>1. /\ d \in DepsOf(j)'
        /\ color'[j] = "white" \/ \E k \in 1 .. Depth' : Nodes'[k] = j /\ d \in Rests'[k]
    BY <1>2, UnlookedAfter
  <2>2. d \in DepsOf(j)
    BY <1>1, <2>1 DEF DepsOf
  <2>3. color[j] = "white" \/ \E k \in 1 .. Depth : Nodes[k] = j /\ d \in Rests[k]
    <3>1. CASE color'[j] = "white"
      BY <1>1, <1>2, <1>3, <3>1
    <3>2. ASSUME NEW k \in 1 .. Depth - 1, Nodes'[k] = j /\ d \in Rests'[k]
          PROVE  \E i \in 1 .. Depth : Nodes[i] = j /\ d \in Rests[i]
      BY <1>3, <1>4, <3>2
    <3>. QED
      BY <1>4, <2>1, <3>1, <3>2
  <2>. QED
    BY <1>2, <2>2, <2>3, UnlookedMembers
<1>. QED
  BY <1>1, <1>5, <1>6, SearchStepCounts

(* No path is begun before a cycle is found.                               *)
PathUnbegun == pc \notin {"rebuild", "cycle"} => path = <<>>

LEMMA PathIsUnbegun == Spec => []PathUnbegun
<1>1. Init => PathUnbegun
  BY DEF Init, PathUnbegun
<1>2. PathUnbegun /\ [Next]_vars => PathUnbegun'
  BY DEF PathUnbegun, Next, Kahn, Search, Finished, UnknownName, NamesKnown, Level, Scheduled,
         Stuck, Root, Return, Rebuild, Report, Descend, PassBy, CloseCycle, LookAt, vars,
         pathVars
<1>. QED
  BY <1>1, <1>2, PTL DEF Spec

(* The search ends with the cycle, of which one job is walked to.          *)
LEMMA CloseCycleCounts ==
    ASSUME KahnInv, SearchInv, SearchInv', PathUnbegun, NEW dep, CloseCycle(dep)
    PROVE  StepCounts
<1>1. /\ LookAt(dep) /\ pc' = "rebuild" /\ stack' = <<>> /\ path' = <<dep>>
      /\ UNCHANGED <<dependsOn, color, inDegree>>
  BY DEF CloseCycle, kahnVars
<1>2. pc = "search" /\ path = <<>>
  BY <1>1 DEF LookAt, PathUnbegun
<1>3. stack \in Seq(Frames) /\ stack' \in Seq(Frames) /\ Depth' = 0
  BY <1>1 DEF SearchInv, SearchTyped, Depth
<1>4. /\ UNCHANGED <<Whites, Unfinished, Remaining>> /\ Unwalked' \subseteq Unwalked
      /\ Stage' < Stage /\ Stage' <= Stage
  BY <1>1, <1>2 DEF Whites, Unfinished, Remaining, Unwalked, Stage
<1>5. Unlooked' \subseteq Unlooked
  <2>. SUFFICES ASSUME NEW j \in Jobs, NEW d \in Jobs, <<j, d>> \in Unlooked'
                PROVE  <<j, d>> \in Unlooked
    BY DEF Unlooked
  <2>1. /\ d \in DepsOf(j)'
        /\ color'[j] = "white" \/ \E k \in 1 .. Depth' : Nodes'[k] = j /\ d \in Rests'[k]
    BY <1>3, UnlookedAfter
  <2>2. d \in DepsOf(j) /\ color[j] = "white"
    BY <1>1, <1>3, <2>1 DEF DepsOf
  <2>. QED
    BY <1>3, <2>2, UnlookedMembers
<1>. QED
  BY <1>4, <1>5 DEF StepCounts, NothingGrows

(* The rebuilding loop goes to a job of the cycle it has not been to.      *)
LEMMA RebuildCounts ==
    ASSUME SearchInv, Rebuild
    PROVE  StepCounts
<1>1. /\ pc = "rebuild" /\ cur # path[1] /\ path' = Append(path, cur)
      /\ UNCHANGED <<dependsOn, pc, inDegree, color, parent, stack>>
  BY DEF Rebuild, dfsVars, kahnVars
<1>2. PICK c : IsCycle(c) /\ \E m \in 1 .. Len(c) : Rebuilding(c, m)
  BY <1>1 DEF SearchInv
<1>3. PICK m \in 1 .. Len(c) : Rebuilding(c, m)
  BY <1>2
<1>. DEFINE n == Len(c)
            l == n - m + 1
<1>4. n \in Nat /\ m \in 1 .. n /\ c \in Seq(Jobs) /\ cur = c[m] /\ cur \in Jobs
      /\ \A i, k \in 1 .. n : c[i] = c[k] => i = k
  BY <1>2, <1>3 DEF IsCycle, Rebuilding
<1>5. path = [k \in 1 .. l |-> IF k = 1 THEN c[1] ELSE c[n + 2 - k]] /\ l \in Nat /\ l > 0
  BY <1>3, <1>4 DEF Rebuilding
<1>6. \A k \in 1 .. l : path[k] # cur
  <2>. SUFFICES ASSUME NEW k \in 1 .. l PROVE path[k] # cur
    OBVIOUS
  <2>1. CASE k = 1
    BY <1>1, <2>1
  <2>2. CASE k # 1
    <3>1. path[k] = c[n + 2 - k] /\ n + 2 - k \in 1 .. n /\ n + 2 - k # m
      BY <1>4, <1>5, <2>2
    <3>. QED
      BY <1>4, <3>1
  <2>. QED
    BY <2>1, <2>2
<1>. HIDE DEF l
<1>7. DOMAIN path = 1 .. l /\ path \in Seq({c[i] : i \in Int} \cup {cur}) /\ Len(path) = l
  <2>1. \A k \in 1 .. l : path[k] \in {c[i] : i \in Int}
    BY <1>4, <1>5
  <2>. QED
    BY <1>5, <2>1
<1>8. /\ DOMAIN path' = 1 .. l + 1 /\ path'[l + 1] = cur
      /\ \A k \in 1 .. l : path'[k] = path[k]
  BY <1>1, <1>5, <1>7
<1>9. Unwalked' \subseteq Unwalked /\ cur \in Unwalked /\ cur \notin Unwalked'
  <2>1. \A k \in 1 .. l : k \in 1 .. l + 1
    BY <1>5
  <2>2. l + 1 \in 1 .. l + 1
    BY <1>5
  <2>3. {path[k] : k \in DOMAIN path} \subseteq {path'[k] : k \in DOMAIN path'}
    BY <1>7, <1>8, <2>1
  <2>4. cur \in {path'[k] : k \in DOMAIN path'} /\ cur \notin {path[k] : k \in DOMAIN path}
    BY <1>6, <1>7, <1>8, <2>2
  <2>. QED
    BY <1>4, <2>3, <2>4 DEF Unwalked
<1>10. UNCHANGED <<Whites, Unfinished, Remaining, Unlooked>> /\ Stage' = Stage /\ Stage \in Nat
  BY <1>1 DEF Whites, Unfinished, Remaining, Unlooked, DepsOf, Stage
<1>. QED
  BY <1>9, <1>10 DEF StepCounts, NothingGrows, SomethingShrinks

(* The report has all the jobs of the path it reverses.                    *)
LEMMA ReportCounts ==
    ASSUME SearchInv, Report
    PROVE  StepCounts
<1>1. /\ pc = "rebuild" /\ pc' = "cycle"
      /\ path' = Reverse(Append(path, path[1]))
      /\ UNCHANGED <<dependsOn, inDegree, color, parent, stack>>
  BY DEF Report, dfsVars, kahnVars
<1>2. PICK c : IsCycle(c) /\ \E m \in 1 .. Len(c) : Rebuilding(c, m)
  BY <1>1 DEF SearchInv
<1>3. PICK m \in 1 .. Len(c) : Rebuilding(c, m)
  BY <1>2
<1>4. PICK l \in Nat : DOMAIN path = 1 .. l /\ l > 0 /\ path = [k \in 1 .. l |-> path[k]]
  <2>1. Len(c) \in Nat /\ m \in 1 .. Len(c)
    BY <1>2 DEF IsCycle
  <2>2. Len(c) - m + 1 \in Nat /\ Len(c) - m + 1 > 0
    BY <2>1
  <2>. QED
    BY <1>3, <2>2 DEF Rebuilding
<1>5. path \in Seq({path[k] : k \in 1 .. l}) /\ Len(path) = l
  BY <1>4
<1>. DEFINE walk == Append(path, path[1])
<1>6. Len(walk) = l + 1 /\ \A k \in 1 .. l : walk[k] = path[k]
  BY <1>4, <1>5
<1>. HIDE DEF walk
<1>7. path' = [i \in 1 .. Len(walk) |-> walk[(Len(walk) - i) + 1]]
  BY <1>1, Zenon DEF Reverse, walk
<1>8. ASSUME NEW k \in 1 .. l
      PROVE  \E i \in DOMAIN path' : path'[i] = path[k]
  <2>1. l + 2 - k \in 1 .. l + 1 /\ (l + 1 - (l + 2 - k)) + 1 = k
    BY <1>4
  <2>. DEFINE i == l + 2 - k
  <2>2. i \in 1 .. Len(walk) /\ (Len(walk) - i) + 1 = k
    BY <1>4, <1>6, <2>1
  <2>. HIDE DEF i
  <2>3. i \in DOMAIN path' /\ path'[i] = walk[(Len(walk) - i) + 1]
    BY <1>7, <2>2
  <2>4. path'[i] = path[k]
    BY <1>6, <2>2, <2>3
  <2>. QED
    BY <2>3, <2>4
<1>9. Unwalked' \subseteq Unwalked
  BY <1>4, <1>8 DEF Unwalked
<1>10. /\ UNCHANGED <<Whites, Unfinished, Remaining, Unlooked>>
       /\ Stage' < Stage /\ Stage' <= Stage
  BY <1>1 DEF Whites, Unfinished, Remaining, Unlooked, DepsOf, Stage
<1>. QED
  BY <1>9, <1>10 DEF StepCounts, NothingGrows

(* Every step of Schedule takes something off what is before it: it makes  *)
(* at most 4 + 4n + e of them for n jobs and e dependencies, whatever the  *)
(* graph; with ReportedCycleIsReal, whose second half says that the search *)
(* can always go on, all that Termination adds is that a step is taken.    *)
THEOREM ScheduleRunsDown == Spec => [](Budget \in Nat) /\ EveryStepCounts
<1>. DEFINE Counts == NothingGrows /\ Budget' < Budget
<1>1. KahnInv /\ SearchInv /\ SearchInv' /\ PathUnbegun /\ [Next]_vars => [Counts]_vars
  <2>. SUFFICES ASSUME KahnInv, SearchInv, SearchInv', PathUnbegun, Next, ~UNCHANGED vars
                PROVE  StepCounts
    BY CountingStep DEF StepCounts
  <2>1. CASE Kahn
    BY <2>1, KahnCounts
  <2>2. CASE Root \/ Return \/ Rebuild \/ Report
    BY <2>2, RootCounts, ReturnCounts, RebuildCounts, ReportCounts
  <2>3. ASSUME NEW dep \in Jobs, Descend(dep) \/ PassBy(dep) \/ CloseCycle(dep)
        PROVE  StepCounts
    BY <2>3, DescendCounts, PassByCounts, CloseCycleCounts
  <2>. QED
    BY <2>1, <2>2, <2>3 DEF Next, Search, Finished
<1>2. [Counts]_vars => [/\ Remaining' \subseteq Remaining /\ Whites' \subseteq Whites
                        /\ Unfinished' \subseteq Unfinished /\ Unlooked' \subseteq Unlooked
                        /\ Unwalked' \subseteq Unwalked
                        /\ Budget' < Budget]_vars
  BY DEF NothingGrows
<1>3. KahnInv => Budget \in Nat
  BY BudgetIsFinite, FS_CardinalityType, StageType DEF Budget
<1>. QED
  BY KahnInvariant, SearchInvariant, PathIsUnbegun, <1>1, <1>2, <1>3, PTL DEF Spec, EveryStepCounts
=============================================================================
