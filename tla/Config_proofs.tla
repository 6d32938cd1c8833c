---------------------------- MODULE Config_proofs ----------------------------
(***************************************************************************)
(* Validate accepts what can run and rejects nothing else, the path in its *)
(* message is a cycle, ToPipeline merges the environments and every step   *)
(* brings the end nearer, for any jobs, any lists of dependencies and any  *)
(* order in which Go walks the map.                                        *)
(***************************************************************************)
EXTENDS Config, FiniteSetTheorems, SequenceTheorems, TLAPS

LEMMA ConfigFacts ==
    ASSUME config \in Configs
    PROVE  /\ Jobs \subseteq Names /\ IsFiniteSet(Jobs) /\ none \notin Jobs
           /\ Cardinality(Jobs) \in Nat
           /\ \A j \in Jobs : /\ config.jobs[j].dependsOn \in Seq(Names)
                              /\ config.jobs[j].steps \in Seq(Range(config.jobs[j].steps))
  <1>1. Jobs \subseteq Names
    BY ConfigAssumption DEF Jobs
  <1>2. IsFiniteSet(Jobs)
    BY <1>1, ConfigAssumption, FS_Subset
  <1>3. Cardinality(Jobs) \in Nat
    BY <1>2, FS_CardinalityType
  <1> QED
    BY <1>1, <1>2, <1>3, ConfigAssumption DEF Jobs

(* What Complaint lets through can run, and what it stops cannot.          *)
LEMMA ComplaintIsFair ==
    ASSUME config \in Configs, NEW j \in Jobs
    PROVE  Complaint(j) = "none" <=> Runnable(j)
  <1> DEFINE job == config.jobs[j]
  <1>1. PICK n \in Nat : DOMAIN job.steps = 1 .. n
    BY ConfigFacts
  <1>2. ASSUME BadSteps(job.steps) = {}, NEW i \in DOMAIN job.steps, NEW k \in DOMAIN job.steps,
               i # k, job.steps[i].name = job.steps[k].name
        PROVE  job.steps[i].name = unnamed
    <2>1. CASE i < k
      BY <2>1, <1>1, <1>2 DEF BadSteps, Repeats
    <2>2. CASE k < i
      BY <2>2, <1>1, <1>2 DEF BadSteps, Repeats
    <2> QED
      BY <2>1, <2>2, <1>1, <1>2
  <1>3. ASSUME BadSteps(job.steps) = {}
        PROVE  \A i \in DOMAIN job.steps : job.steps[i].run
    BY <1>3 DEF BadSteps
  <1>4. ASSUME BadSteps(job.steps) # {}, Runnable(j)
        PROVE  FALSE
    <2>1. PICK i \in DOMAIN job.steps : ~job.steps[i].run \/ Repeats(job.steps, i)
      BY <1>4 DEF BadSteps
    <2>2. Repeats(job.steps, i)
      BY <2>1, <1>4 DEF Runnable
    <2>3. PICK k \in 1 .. i - 1 : job.steps[k].name = job.steps[i].name
      BY <2>2 DEF Repeats
    <2>4. job.steps[i].name # unnamed
      BY <2>2 DEF Repeats
    <2> QED
      BY <2>3, <2>4, <1>4, <1>1 DEF Runnable
  <1>5. StepComplaint(job.steps) # "none"
    BY DEF StepComplaint
  <1>6. Complaint(j) = "none" <=> /\ job.image /\ job.steps # <<>>
                                  /\ BadSteps(job.steps) = {}
                                  /\ DepsOf(j) \subseteq Jobs
    BY <1>5 DEF Complaint
  <1>7. ASSUME Complaint(j) = "none" PROVE Runnable(j)
    BY <1>7, <1>6, <1>2, <1>3 DEF Runnable
  <1>8. ASSUME Runnable(j) PROVE Complaint(j) = "none"
    BY <1>8, <1>6, <1>4 DEF Runnable
  <1> QED
    BY <1>7, <1>8

(* A configuration does not change under Validate's hands.                 *)
LEMMA ConfigFixed ==
    ASSUME config' = config
    PROVE  /\ Jobs' = Jobs /\ Ranks' = Ranks
           /\ \A j : DepsOf(j)' = DepsOf(j)
           /\ \A j : Runnable(j)' <=> Runnable(j)
           /\ \A rank : IsTopological(rank)' <=> IsTopological(rank)
           /\ Acyclic' <=> Acyclic
  <1>1. Jobs' = Jobs
    BY DEF Jobs
  <1>2. \A j : DepsOf(j)' = DepsOf(j)
    BY DEF DepsOf
  <1>3. Ranks' = Ranks
    BY <1>1 DEF Ranks
  <1>4. \A j : Runnable(j)' <=> Runnable(j)
    BY <1>1, <1>2 DEF Runnable
  <1>5. \A rank : IsTopological(rank)' <=> IsTopological(rank)
    BY <1>1, <1>2 DEF IsTopological
  <1>6. Acyclic' <=> Acyclic
    BY <1>3, <1>5 DEF Acyclic
  <1> QED
    BY <1>1, <1>2, <1>3, <1>4, <1>5, <1>6

(* The part of the invariant that only the search disturbs.                *)
SearchInv ==
    /\ StackInv
    /\ StackDescends
    /\ \E rank \in [Jobs -> Nat] : RanksVisited(rank)

SearchTypes ==
    /\ state \in [Jobs -> {"unvisited", "inStack", "visited"}]
    /\ stack \in Seq([job : Jobs, at : Nat \ {0}])

LEMMA Unmoved ==
    ASSUME config' = config, UNCHANGED searchVars, SearchInv, SearchTypes
    PROVE  SearchInv' /\ SearchTypes' /\ Visited' = Visited
  <1>0. /\ config' = config /\ state' = state /\ stack' = stack
        /\ Jobs' = Jobs /\ Ranks' = Ranks
        /\ \A j : DepsOf(j)' = DepsOf(j)
        /\ \A rank : IsTopological(rank)' <=> IsTopological(rank)
    BY ConfigFixed DEF searchVars
  <1>1. Visited' = Visited
    BY <1>0 DEF Visited
  <1>2. StackInv'
    BY <1>0 DEF SearchInv, StackInv, Frame
  <1>3. StackDescends'
    BY <1>0 DEF SearchInv, StackDescends
  <1>4. \A rank : RanksVisited(rank) => RanksVisited(rank)'
    BY <1>0, <1>1 DEF RanksVisited
  <1>5. SearchTypes'
    BY <1>0 DEF SearchTypes
  <1>6. (\E rank \in [Jobs -> Nat] : RanksVisited(rank))'
    BY <1>0, <1>4 DEF SearchInv
  <1> QED
    BY <1>1, <1>2, <1>3, <1>5, <1>6 DEF SearchInv

LEMMA Regroup ==
    ConfigInv <=> /\ config \in Configs
                  /\ todo \subseteq Jobs
                  /\ SearchTypes /\ SearchInv /\ WalkInv /\ VerdictInv
  BY DEF ConfigInv, SearchTypes, SearchInv

LEMMA ConfigInvInit == Init => ConfigInv
  <1> SUFFICES ASSUME Init PROVE ConfigInv
    OBVIOUS
  <1>1. /\ config \in Configs /\ stack = <<>> /\ pc = "start" /\ todo = Jobs
        /\ state = [j \in Jobs |-> "unvisited"]
    BY DEF Init, Jobs
  <1>2. Visited = {}
    BY <1>1 DEF Visited
  <1>3. SearchTypes
    BY <1>1 DEF SearchTypes
  <1>4. StackInv /\ StackDescends
    BY <1>1 DEF StackInv, StackDescends
  <1>5. [j \in Jobs |-> 0] \in [Jobs -> Nat] /\ RanksVisited([j \in Jobs |-> 0])
    BY <1>2 DEF RanksVisited
  <1>6. WalkInv /\ VerdictInv
    BY <1>1 DEF WalkInv, VerdictInv, Errors
  <1> QED
    BY <1>1, <1>3, <1>4, <1>5, <1>6, Regroup DEF SearchInv

(* A call puts a job the search has not seen on top of the chain.          *)
LEMMA CallKeeps ==
    ASSUME ConfigInv, config' = config, NEW j \in Jobs, state[j] = "unvisited", Call(j),
           stack # <<>> => Top.at \in DOMAIN TopDeps /\ TopDeps[Top.at] = j
    PROVE  SearchInv' /\ SearchTypes' /\ Visited' = Visited
  <1> DEFINE n == Len(stack)
  <1>c. /\ state' = [state EXCEPT ![j] = "inStack"]
        /\ stack' = Append(stack, [job |-> j, at |-> 1])
    BY DEF Call
  <1>0. /\ Jobs' = Jobs /\ Ranks' = Ranks
        /\ \A i : DepsOf(i)' = DepsOf(i)
        /\ \A rank : IsTopological(rank)' <=> IsTopological(rank)
    BY ConfigFixed
  <1>1. StackInv /\ StackDescends /\ SearchTypes /\ config \in Configs
    BY Regroup DEF SearchInv
  <1>2. /\ n \in Nat /\ Len(stack') = n + 1
        /\ \A k \in 1 .. n : stack'[k] = stack[k] /\ stack[k] \in [job : Jobs, at : Nat \ {0}]
        /\ stack'[n + 1] = [job |-> j, at |-> 1]
        /\ DOMAIN stack = 1 .. n /\ DOMAIN stack' = 1 .. n + 1
    <2> DEFINE F     == [job : Jobs, at : Nat \ {0}]
               frame == [job |-> j, at |-> 1]
    <2>1. stack \in Seq(F) /\ stack' = Append(stack, frame)
      BY <1>1, <1>c DEF SearchTypes
    <2> HIDE DEF F, frame
    <2>2. \A k \in 1 .. Len(stack) : stack[k] \in F
      BY <2>1
    <2>3. /\ Len(stack) \in Nat /\ Len(stack') = Len(stack) + 1
          /\ \A k \in 1 .. Len(stack) : stack'[k] = stack[k]
          /\ stack'[Len(stack) + 1] = frame
          /\ DOMAIN stack = 1 .. Len(stack) /\ DOMAIN stack' = 1 .. Len(stack) + 1
      BY <2>1
    <2> QED
      BY <2>2, <2>3 DEF F, frame
  <1> HIDE DEF n
  <1>3. SearchTypes'
    BY <1>0, <1>1, <1>c DEF SearchTypes
  <1>4. /\ \A i \in Jobs : i # j => state'[i] = state[i]
        /\ state'[j] = "inStack"
    BY <1>1, <1>c DEF SearchTypes
  <1>5. Visited' = Visited
    BY <1>0, <1>4 DEF Visited
  <1>6. \A k \in 1 .. n : stack[k].job # j /\ state[stack[k].job] = "inStack"
    BY <1>1, <1>2 DEF StackInv
  <1>7. n # 0 => /\ stack[n].job \in Jobs /\ j \in DepsOf(stack[n].job)
                 /\ stack[n].at \in DOMAIN config.jobs[stack[n].job].dependsOn
                 /\ config.jobs[stack[n].job].dependsOn[stack[n].at] = j
    <2> SUFFICES ASSUME n # 0 PROVE stack # <<>> /\ n \in 1 .. n
      BY <1>2 DEF Top, TopDeps, DepsOf, n
    <2> QED
      BY <1>2
  <1>8. StackInv'
    <2>1. \A k \in DOMAIN stack' : state'[stack'[k].job] = "inStack"
      BY <1>2, <1>4, <1>6
    <2>2. ASSUME NEW i \in Jobs, state'[i] = "inStack"
          PROVE  \E k \in DOMAIN stack' : stack'[k].job = i
      <3>1. CASE i = j
        BY <3>1, <1>2
      <3>2. CASE i # j
        <4>1. PICK k \in 1 .. n : stack[k].job = i
          BY <3>2, <2>2, <1>1, <1>2, <1>4 DEF StackInv
        <4> QED
          BY <4>1, <1>2
      <3> QED
        BY <3>1, <3>2
    <2>3. \A k, l \in DOMAIN stack' : k # l => stack'[k].job # stack'[l].job
      <3>1. \A k, l \in 1 .. n : k # l => stack[k].job # stack[l].job
        BY <1>1, <1>2 DEF StackInv
      <3> QED
        BY <3>1, <1>2, <1>6
    <2>4. ASSUME NEW k \in DOMAIN stack', NEW i \in DOMAIN Frame(k)', i < stack'[k].at
          PROVE  state'[Frame(k)'[i]] = "visited"
      <3>1. CASE k = n + 1
        <4>1. Frame(k)' = config.jobs[j].dependsOn /\ stack'[k].at = 1
          BY <3>1, <1>2 DEF Frame
        <4>2. config.jobs[j].dependsOn \in Seq(Names)
          BY <1>1, ConfigFacts
        <4> QED
          BY <4>1, <4>2, <2>4
      <3>2. CASE k \in 1 .. n
        <4>1. Frame(k)' = Frame(k) /\ stack'[k].at = stack[k].at
          BY <3>2, <1>2 DEF Frame
        <4>2. state[Frame(k)[i]] = "visited"
          BY <4>1, <2>4, <3>2, <1>1, <1>2 DEF StackInv
        <4> QED
          BY <4>1, <4>2, <1>1, <1>c DEF SearchTypes
      <3> QED
        BY <3>1, <3>2, <1>2
    <2>5. ASSUME NEW k \in DOMAIN stack', k < Len(stack')
          PROVE  /\ stack'[k].at \in DOMAIN Frame(k)'
                 /\ Frame(k)'[stack'[k].at] = stack'[k + 1].job
      <3>1. k \in 1 .. n
        BY <2>5, <1>2
      <3>2. Frame(k)' = Frame(k) /\ stack'[k].at = stack[k].at
        BY <3>1, <1>2 DEF Frame
      <3>3. CASE k = n
        BY <3>1, <3>2, <3>3, <1>2, <1>7 DEF Frame
      <3>4. CASE k # n
        <4>1. k < n /\ k + 1 \in 1 .. n
          BY <3>1, <3>4, <1>2
        <4> QED
          BY <4>1, <3>1, <3>2, <1>1, <1>2 DEF StackInv
      <3> QED
        BY <3>3, <3>4
    <2>6. \A i \in Jobs' : state'[i] = "inStack" => \E k \in DOMAIN stack' : stack'[k].job = i
      BY <2>2, <1>0
    <2> QED
      BY <2>1, <2>3, <2>4, <2>5, <2>6 DEF StackInv
  <1>9. StackDescends'
    <2> SUFFICES ASSUME NEW rank \in Ranks, IsTopological(rank),
                        NEW k \in 1 .. n + 1, NEW l \in 1 .. n + 1, k < l
                 PROVE  rank[stack'[l].job] < rank[stack'[k].job]
      BY <1>0, <1>2 DEF StackDescends
    <2>1. \A i \in Jobs : rank[i] \in Int
      BY DEF Ranks
    <2>2. ASSUME NEW p \in 1 .. n, NEW q \in 1 .. n, p < q
          PROVE  rank[stack[q].job] < rank[stack[p].job]
      BY <2>2, <1>1, <1>2 DEF StackDescends
    <2>3. CASE l \in 1 .. n
      BY <2>2, <2>3, <1>2
    <2>4. CASE l = n + 1
      <3>1. k \in 1 .. n /\ n # 0 /\ n \in 1 .. n
        BY <2>4, <1>2
      <3>2. rank[j] < rank[stack[n].job]
        BY <3>1, <1>7 DEF IsTopological
      <3>3. rank[stack[n].job] <= rank[stack[k].job]
        <4>1. CASE k = n
          BY <4>1, <3>1, <2>1, <1>2
        <4>2. CASE k < n
          BY <4>2, <3>1, <2>1, <2>2, <1>2
        <4> QED
          BY <4>1, <4>2, <3>1, <1>2
      <3>4. rank[j] < rank[stack[k].job]
        BY <3>1, <3>2, <3>3, <2>1, <1>2
      <3> QED
        BY <3>1, <3>4, <2>4, <1>2
    <2> QED
      BY <2>3, <2>4, <1>2
  <1>10. (\E rank \in [Jobs -> Nat] : RanksVisited(rank))'
    <2>1. PICK rank \in [Jobs -> Nat] : RanksVisited(rank)
      BY Regroup DEF SearchInv
    <2>2. RanksVisited(rank)'
      BY <2>1, <1>0, <1>5 DEF RanksVisited
    <2> QED
      BY <2>2, <1>0
  <1> QED
    BY <1>3, <1>5, <1>8, <1>9, <1>10 DEF SearchInv

(* In the search every dependency is a job: the first walk has seen to it. *)
LEMMA DepsAreJobs ==
    ASSUME ConfigInv, pc = "search"
    PROVE  \A j \in Jobs : DepsOf(j) \subseteq Jobs
  BY DEF ConfigInv, WalkInv, Runnable

(* The chain may lose its top, and the loop of the new top moves on.       *)
LEMMA AdvanceKeeps ==
    ASSUME ConfigInv, pc = "search", config' = config, SearchTypes',
           NEW m \in 0 .. Len(stack), Len(stack') = m,
           \A k \in 1 .. m : stack'[k].job = stack[k].job,
           \A k \in 1 .. m : k # m => stack'[k].at = stack[k].at,
           m # 0 => stack'[m].at = stack[m].at + 1,
           m # 0 => stack[m].at \in DOMAIN Frame(m)
                    /\ state'[Frame(m)[stack[m].at]] = "visited",
           \A j \in Jobs : state[j] = "visited" => state'[j] = "visited",
           \A j \in Jobs : state'[j] = "inStack" <=> \E k \in 1 .. m : stack[k].job = j
    PROVE  StackInv' /\ StackDescends'
  <1>0. /\ Jobs' = Jobs /\ Ranks' = Ranks
        /\ \A i : DepsOf(i)' = DepsOf(i)
        /\ \A rank : IsTopological(rank)' <=> IsTopological(rank)
    BY ConfigFixed
  <1>1. StackInv /\ StackDescends /\ SearchTypes /\ config \in Configs
    BY Regroup DEF SearchInv
  <1>2. /\ DOMAIN stack = 1 .. Len(stack) /\ DOMAIN stack' = 1 .. m /\ Len(stack) \in Nat
        /\ \A k \in DOMAIN stack : stack[k] \in [job : Jobs, at : Nat \ {0}]
    <2> DEFINE F == [job : Jobs, at : Nat \ {0}]
    <2>1. stack \in Seq(F) /\ stack' \in Seq(F)
      BY <1>0, <1>1 DEF SearchTypes
    <2> HIDE DEF F
    <2>2. /\ DOMAIN stack = 1 .. Len(stack) /\ DOMAIN stack' = 1 .. m /\ Len(stack) \in Nat
          /\ \A k \in DOMAIN stack : stack[k] \in F
      BY <2>1
    <2> QED
      BY <2>2 DEF F
  <1>3. \A k \in 1 .. m : k \in DOMAIN stack /\ stack[k].job \in Jobs /\ stack[k].at \in Nat
    BY <1>2
  <1>4. \A k \in 1 .. m : Frame(k)' = Frame(k)
    BY DEF Frame
  <1>5. ASSUME NEW k \in 1 .. m, NEW i \in DOMAIN Frame(k)
        PROVE  Frame(k)[i] \in Jobs
    <2>1. Frame(k)[i] \in DepsOf(stack[k].job)
      BY <1>5 DEF Frame, DepsOf
    <2> QED
      BY <2>1, <1>3, DepsAreJobs
  <1>6. StackInv'
    <2>1. \A k \in DOMAIN stack' : state'[stack'[k].job] = "inStack"
      BY <1>2, <1>3
    <2>2. \A j \in Jobs' : state'[j] = "inStack" => \E k \in DOMAIN stack' : stack'[k].job = j
      <3>1. ASSUME NEW j \in Jobs, state'[j] = "inStack"
            PROVE  \E k \in 1 .. m : stack'[k].job = j
        <4>1. PICK k \in 1 .. m : stack[k].job = j
          BY <3>1
        <4> QED
          BY <4>1
      <3> QED
        BY <3>1, <1>0, <1>2
    <2>3. \A k, l \in DOMAIN stack' : k # l => stack'[k].job # stack'[l].job
      BY <1>1, <1>2, <1>3 DEF StackInv
    <2>4. ASSUME NEW k \in 1 .. m, NEW i \in DOMAIN Frame(k), i < stack'[k].at
          PROVE  state'[Frame(k)[i]] = "visited"
      <3>1. CASE i < stack[k].at
        BY <3>1, <1>1, <1>3, <1>5 DEF StackInv
      <3>2. CASE ~(i < stack[k].at)
        <4>1. config.jobs[stack[k].job].dependsOn \in Seq(Names)
          BY <1>1, <1>3, ConfigFacts
        <4>2. i \in Nat
          BY <4>1 DEF Frame
        <4>3. k = m /\ m # 0
          BY <2>4, <3>2
        <4>4. i = stack[m].at
          BY <2>4, <3>2, <4>2, <4>3, <1>3
        <4> QED
          BY <4>3, <4>4
      <3> QED
        BY <3>1, <3>2
    <2>5. \A k \in DOMAIN stack' : \A i \in DOMAIN Frame(k)' :
              i < stack'[k].at => state'[Frame(k)'[i]] = "visited"
      BY <2>4, <1>2, <1>4
    <2>6. ASSUME NEW k \in 1 .. m, k < m
          PROVE  stack'[k].at \in DOMAIN Frame(k) /\ Frame(k)[stack'[k].at] = stack'[k + 1].job
      <3>1. k \in DOMAIN stack /\ k < Len(stack) /\ k # m /\ k + 1 \in 1 .. m
        BY <2>6, <1>2
      <3> QED
        BY <3>1, <1>1 DEF StackInv
    <2>7. \A k \in DOMAIN stack' : k < Len(stack') =>
              stack'[k].at \in DOMAIN Frame(k)' /\ Frame(k)'[stack'[k].at] = stack'[k + 1].job
      BY <2>6, <1>2, <1>4
    <2> QED
      BY <2>1, <2>2, <2>3, <2>5, <2>7 DEF StackInv
  <1>7. StackDescends'
    BY <1>0, <1>1, <1>2, <1>3 DEF StackDescends
  <1> QED
    BY <1>6, <1>7

LEMMA PassByKeeps ==
    ASSUME ConfigInv, NEW dep, PassBy(dep)
    PROVE  SearchInv' /\ SearchTypes' /\ Visited' = Visited
  <1>0. config' = config /\ state' = state /\ pc = "search" /\ Jobs' = Jobs /\ stack # <<>>
    BY ConfigFixed DEF PassBy, LookingAt
  <1>1. StackInv /\ SearchTypes
    BY Regroup DEF SearchInv
  <1>2. stack' = [stack EXCEPT ![Len(stack)].at = @ + 1]
    BY <1>0 DEF PassBy, Advance
  <1>3. /\ Len(stack) \in Nat \ {0} /\ DOMAIN stack = 1 .. Len(stack)
        /\ \A k \in DOMAIN stack : stack[k] \in [job : Jobs, at : Nat \ {0}]
    <2> DEFINE F == [job : Jobs, at : Nat \ {0}]
    <2>1. stack \in Seq(F)
      BY <1>1 DEF SearchTypes
    <2> HIDE DEF F
    <2>2. /\ Len(stack) \in Nat \ {0} /\ DOMAIN stack = 1 .. Len(stack)
          /\ \A k \in DOMAIN stack : stack[k] \in F
      BY <2>1, <1>0
    <2> QED
      BY <2>2 DEF F
  <1>4. /\ stack' \in Seq([job : Jobs, at : Nat \ {0}]) /\ Len(stack') = Len(stack)
        /\ \A k \in 1 .. Len(stack) : stack'[k].job = stack[k].job
        /\ \A k \in 1 .. Len(stack) : k # Len(stack) => stack'[k].at = stack[k].at
        /\ stack'[Len(stack)].at = stack[Len(stack)].at + 1
    <2> DEFINE F   == [job : Jobs, at : Nat \ {0}]
               new == [stack[Len(stack)] EXCEPT !.at = @ + 1]
    <2>1. new \in F /\ new.job = stack[Len(stack)].job /\ new.at = stack[Len(stack)].at + 1
      BY <1>3
    <2>2. stack \in Seq(F) /\ stack' = [stack EXCEPT ![Len(stack)] = new]
      BY <1>1, <1>2 DEF SearchTypes
    <2> HIDE DEF F, new
    <2>3. stack' \in Seq(F) /\ Len(stack') = Len(stack)
      BY <2>1, <2>2, <1>3
    <2>4. \A k \in DOMAIN stack : stack'[k] = IF k = Len(stack) THEN new ELSE stack[k]
      BY <2>2, <1>3
    <2>5. stack' \in Seq([job : Jobs, at : Nat \ {0}])
      BY <2>3 DEF F
    <2>6. \A k \in 1 .. Len(stack) : stack'[k].job = stack[k].job
      BY <2>1, <2>4, <1>3
    <2>7. \A k \in 1 .. Len(stack) : k # Len(stack) => stack'[k].at = stack[k].at
      BY <2>4, <1>3
    <2>8. stack'[Len(stack)].at = stack[Len(stack)].at + 1
      BY <2>1, <2>4, <1>3
    <2> QED
      BY <2>3, <2>5, <2>6, <2>7, <2>8
  <1>5. Len(stack) \in 0 .. Len(stack)
    BY <1>3
  <1>6. /\ stack[Len(stack)].at \in DOMAIN Frame(Len(stack))
        /\ state'[Frame(Len(stack))[stack[Len(stack)].at]] = "visited"
    <2>1. config.jobs[stack[Len(stack)].job].dependsOn \in Seq(Names)
      <3>1. config \in Configs /\ stack[Len(stack)].job \in Jobs
        BY <1>3, Regroup
      <3> QED
        BY <3>1, ConfigFacts
    <2> QED
      BY <2>1, <1>0, <1>3 DEF PassBy, LookingAt, Top, TopDeps, Frame
  <1>7. \A j \in Jobs : state'[j] = "inStack" <=> \E k \in 1 .. Len(stack) : stack[k].job = j
    BY <1>0, <1>1, <1>3 DEF StackInv
  <1>8. SearchTypes'
    BY <1>0, <1>1, <1>4 DEF SearchTypes
  <1>9. StackInv' /\ StackDescends'
    <2>1. \A j \in Jobs : state[j] = "visited" => state'[j] = "visited"
      BY <1>0
    <2>2. config' = config /\ pc = "search"
      BY <1>0
    <2> HIDE DEF ConfigInv
    <2> QED
      BY <2>1, <2>2, <1>4, <1>5, <1>6, <1>7, <1>8, AdvanceKeeps, Zenon
  <1>10. Visited' = Visited
    BY <1>0 DEF Visited
  <1>11. (\E rank \in [Jobs -> Nat] : RanksVisited(rank))'
    <2>1. PICK rank \in [Jobs -> Nat] : RanksVisited(rank)
      BY Regroup DEF SearchInv
    <2>2. RanksVisited(rank)'
      BY <2>1, <1>0, <1>10, ConfigFixed DEF RanksVisited
    <2> QED
      BY <2>2, <1>0
  <1> QED
    BY <1>8, <1>9, <1>10, <1>11 DEF SearchInv

(* A job that is left goes on top of the ranking of the visited ones: all  *)
(* its dependencies are there already.                                     *)
LEMMA LeavingRanks ==
    ASSUME ConfigInv, pc = "search", NEW j \in Jobs, state[j] # "visited",
           DepsOf(j) \subseteq Visited,
           config' = config, state' = [state EXCEPT ![j] = "visited"]
    PROVE  (\E rank \in [Jobs -> Nat] : RanksVisited(rank))'
  <1> DEFINE size == Cardinality(Visited)
  <1>0. Jobs' = Jobs /\ \A i : DepsOf(i)' = DepsOf(i)
    BY ConfigFixed
  <1>1. Visited' = Visited \cup {j} /\ j \notin Visited /\ Visited \subseteq Jobs
    BY <1>0, Regroup DEF Visited, SearchTypes
  <1>2. IsFiniteSet(Visited)
    BY <1>1, ConfigFacts, FS_Subset, Regroup
  <1>3. size \in Nat /\ Cardinality(Visited \cup {j}) = size + 1
    BY <1>1, <1>2, FS_CardinalityType, FS_AddElement
  <1>4. PICK rank \in [Jobs -> Nat] : RanksVisited(rank)
    BY Regroup DEF SearchInv
  <1> HIDE DEF size
  <1>5. PICK next \in [Jobs -> Nat] :
               next[j] = size + 1 /\ \A i \in Visited : next[i] = rank[i]
    <2>1. [rank EXCEPT ![j] = size + 1] \in [Jobs -> Nat]
      BY <1>3
    <2> QED
      BY <2>1, <1>1
  <1>6. \A i \in Visited : /\ rank[i] \in 1 .. size
                           /\ \A d \in DepsOf(i) : d \in Visited /\ rank[d] < rank[i]
    BY <1>4 DEF RanksVisited, size
  <1>7. ASSUME NEW i \in Visited \cup {j}
        PROVE  /\ next[i] \in 1 .. size + 1
               /\ \A d \in DepsOf(i) : d \in Visited \cup {j} /\ next[d] < next[i]
    <2>1. CASE i = j
      BY <2>1, <1>3, <1>5, <1>6
    <2>2. CASE i \in Visited
      BY <2>2, <1>3, <1>5, <1>6
    <2> QED
      BY <2>1, <2>2
  <1>8. RanksVisited(next)'
    BY <1>0, <1>1, <1>3, <1>7 DEF RanksVisited, size
  <1> QED
    BY <1>0, <1>5, <1>8

LEMMA ReturnKeeps ==
    ASSUME ConfigInv, Return
    PROVE  SearchInv' /\ SearchTypes'
  <1> DEFINE n == Len(stack)
             j == stack[n].job
             m == n - 1
             F == [job : Jobs, at : Nat \ {0}]
  <1>0. /\ config' = config /\ pc = "search" /\ Jobs' = Jobs /\ stack # <<>>
        /\ state' = [state EXCEPT ![j] = "visited"]
        /\ stack' = Advance(SubSeq(stack, 1, m))
    BY ConfigFixed DEF Return, Top, Front
  <1>1. StackInv /\ SearchTypes /\ config \in Configs
    BY Regroup DEF SearchInv
  <1>s. stack \in Seq(F)
    BY <1>1 DEF SearchTypes
  <1>2. n \in Nat \ {0} /\ DOMAIN stack = 1 .. n
    <2> HIDE DEF F
    <2> QED
      BY <1>s, <1>0
  <1>a. /\ n \in 1 .. n /\ m \in Nat
        /\ \A k \in 1 .. m : k \in 1 .. n /\ k # n
        /\ \A k \in 1 .. n : k = n \/ k \in 1 .. m
    <2>1. n \in Nat \ {0}
      BY <1>2
    <2> HIDE DEF n
    <2> QED
      BY <2>1
  <1>3. \A k \in 1 .. n : stack[k] \in F
    <2> HIDE DEF F, j, m
    <2> QED
      BY <1>s, <1>2
  <1>4. j \in Jobs /\ state[j] = "inStack" /\ \A k \in 1 .. m : stack[k].job # j
    <2> QED
      BY <1>a, <1>1, <1>2, <1>3 DEF StackInv
  <1>5. DepsOf(j) \subseteq Visited
    <2>1. config.jobs[j].dependsOn \in Seq(Names)
      BY <1>1, <1>4, ConfigFacts
    <2>2. \A i \in DOMAIN config.jobs[j].dependsOn : i < stack[n].at
      BY <2>1, <1>2, <1>3 DEF Return, Top, TopDeps
    <2>3. \A i \in DOMAIN config.jobs[j].dependsOn : state[config.jobs[j].dependsOn[i]] = "visited"
      BY <2>2, <1>1, <1>2 DEF StackInv, Frame
    <2>4. DepsOf(j) \subseteq Jobs
      BY <1>0, <1>4, DepsAreJobs
    <2> QED
      BY <2>3, <2>4 DEF DepsOf, Visited
  <1>6. (\E rank \in [Jobs -> Nat] : RanksVisited(rank))'
    <2>1. state[j] # "visited"
      BY <1>4
    <2> HIDE DEF j
    <2> QED
      BY <2>1, <1>0, <1>4, <1>5, LeavingRanks
  <1>7. m \in 0 .. n /\ (m = 0 \/ m \in 1 .. n)
    BY <1>2
  <1>8. /\ stack' \in Seq(F) /\ Len(stack') = m
        /\ \A k \in 1 .. m : stack'[k].job = stack[k].job
        /\ \A k \in 1 .. m : k # m => stack'[k].at = stack[k].at
        /\ m # 0 => stack'[m].at = stack[m].at + 1
    <2> DEFINE front == SubSeq(stack, 1, m)
    <2>1. /\ front \in Seq(F) /\ Len(front) = m
          /\ \A k \in 1 .. m : front[k] = stack[k]
      <3> HIDE DEF F, j
      <3> QED
        BY <1>s, <1>2
    <2>2. CASE m = 0
      <3> HIDE DEF F, j
      <3>1. front = <<>>
        <4>1. front \in Seq(F) /\ Len(front) = 0
          BY <2>1, <2>2
        <4> HIDE DEF front, m, n
        <4> QED
          BY <4>1
      <3>2. stack' = <<>>
        BY <3>1, <1>0 DEF Advance
      <3>3. stack' \in Seq(F) /\ Len(stack') = 0
        BY <3>2
      <3> HIDE DEF m
      <3> QED
        BY <3>3, <2>2
    <2>3. CASE m # 0
      <3> DEFINE new == [stack[m] EXCEPT !.at = @ + 1]
      <3>1. m \in 1 .. m /\ m \in 1 .. n
        BY <2>3, <1>2
      <3>2. stack[m] \in F
        BY <3>1, <1>3
      <3>3. new \in F /\ new.job = stack[m].job /\ new.at = stack[m].at + 1
        BY <3>2
      <3>4. front # <<>> /\ front[m] = stack[m]
        <4> HIDE DEF F
        <4> QED
          BY <2>1, <2>3, <3>1
      <3>5. stack' = [front EXCEPT ![m] = new]
        <4>1. stack' = [front EXCEPT ![Len(front)].at = @ + 1]
          BY <3>4, <1>0 DEF Advance
        <4> HIDE DEF front, F
        <4> QED
          BY <4>1, <3>4, <2>1
      <3> HIDE DEF F, new, front, j, m
      <3>6. stack' \in Seq(F) /\ Len(stack') = m
        BY <3>1, <3>3, <3>5, <2>1
      <3>7. \A k \in 1 .. m : stack'[k] = IF k = m THEN new ELSE stack[k]
        BY <3>5, <2>1
      <3> QED
        BY <3>1, <3>3, <3>6, <3>7
    <2> QED
      BY <2>2, <2>3
  <1>9. SearchTypes'
    <2>1. state' \in [Jobs -> {"unvisited", "inStack", "visited"}]
      BY <1>0, <1>1 DEF SearchTypes
    <2>2. stack' \in Seq([job : Jobs, at : Nat \ {0}])
      BY <1>8
    <2> QED
      BY <2>1, <2>2, <1>0 DEF SearchTypes
  <1>10. m # 0 => /\ stack[m].at \in DOMAIN Frame(m)
                  /\ state'[Frame(m)[stack[m].at]] = "visited"
    <2> SUFFICES ASSUME m # 0
                 PROVE  stack[m].at \in DOMAIN Frame(m) /\ state'[Frame(m)[stack[m].at]] = "visited"
      OBVIOUS
    <2>1. m \in DOMAIN stack /\ m < Len(stack) /\ m + 1 = n
      BY <1>2, <1>7
    <2>2. stack[m].at \in DOMAIN Frame(m) /\ Frame(m)[stack[m].at] = j
      BY <2>1, <1>1 DEF StackInv
    <2>3. state'[j] = "visited"
      BY <1>0, <1>1, <1>4 DEF SearchTypes
    <2> QED
      BY <2>2, <2>3
  <1>11. ASSUME NEW i \in Jobs
         PROVE  /\ state[i] = "visited" => state'[i] = "visited"
                /\ state'[i] = "inStack" <=> \E k \in 1 .. m : stack[k].job = i
    <2>1. state'[i] = IF i = j THEN "visited" ELSE state[i]
      BY <1>0, <1>1 DEF SearchTypes
    <2>2. state[i] = "inStack" <=> \E k \in 1 .. n : stack[k].job = i
      BY <1>1, <1>2 DEF StackInv
    <2> QED
      BY <2>1, <2>2, <1>a, <1>4
  <1>12. StackInv' /\ StackDescends'
    <2> HIDE DEF F, j, m
    <2>1. config' = config /\ pc = "search" /\ m \in 0 .. Len(stack)
      BY <1>0, <1>7
    <2> QED
      BY <2>1, <1>8, <1>9, <1>10, <1>11, AdvanceKeeps, Zenon
  <1> QED
    BY <1>6, <1>9, <1>12 DEF SearchInv

(* An edge back into the chain leaves no ranking of the jobs.              *)
LEMMA BackEdgeIsCycle ==
    ASSUME ConfigInv, NEW dep \in Jobs, LookingAt(dep), state[dep] = "inStack"
    PROVE  ~Acyclic
  <1> SUFFICES ASSUME NEW rank \in Ranks, IsTopological(rank)
               PROVE  FALSE
    BY DEF Acyclic
  <1> DEFINE n == Len(stack)
  <1>1. StackInv /\ StackDescends /\ stack \in Seq([job : Jobs, at : Nat \ {0}])
        /\ config \in Configs /\ stack # <<>>
    BY Regroup DEF SearchInv, SearchTypes, LookingAt
  <1>2. n \in Nat \ {0} /\ DOMAIN stack = 1 .. n /\ \A k \in 1 .. n : stack[k].job \in Jobs
        /\ stack[n].at \in Nat \ {0}
    <2> DEFINE F == [job : Jobs, at : Nat \ {0}]
    <2> HIDE DEF F
    <2>1. n \in Nat \ {0} /\ DOMAIN stack = 1 .. n
      BY <1>1
    <2>2. stack \in Seq(F)
      BY <1>1 DEF F
    <2>3. \A k \in 1 .. n : stack[k] \in F
      BY <2>1, <2>2
    <2> QED
      BY <2>1, <2>3 DEF F
  <1>3. PICK k \in 1 .. n : stack[k].job = dep
    BY <1>1, <1>2 DEF StackInv
  <1>4. dep \in DepsOf(stack[n].job)
    <2>1. stack[n].job \in Jobs
      BY <1>2
    <2>2. config.jobs[stack[n].job].dependsOn \in Seq(Names)
      BY <2>1, <1>1, ConfigFacts
    <2> QED
      BY <2>2, <1>2 DEF LookingAt, Top, TopDeps, DepsOf
  <1>5. rank[dep] < rank[stack[n].job]
    BY <1>2, <1>4 DEF IsTopological
  <1>6. rank[dep] \in Int /\ rank[stack[n].job] \in Int
    BY <1>2 DEF Ranks
  <1>7. CASE k = n
    BY <1>3, <1>5, <1>6, <1>7
  <1>8. CASE k # n
    <2>1. k \in DOMAIN stack /\ n \in DOMAIN stack /\ k < n
      <3>1. n \in Nat \ {0} /\ DOMAIN stack = 1 .. n /\ k \in 1 .. n
        BY <1>2
      <3> HIDE DEF n
      <3> QED
        BY <3>1, <1>8
    <2>2. rank[stack[n].job] < rank[dep]
      BY <2>1, <1>1, <1>3 DEF StackDescends
    <2> QED
      BY <2>2, <1>5, <1>6
  <1> QED
    BY <1>7, <1>8

(* The steps that are not the search's own.                                *)
LEMMA OtherStepsKeep ==
    ASSUME ConfigInv, config' = config, UNCHANGED searchVars,
           todo' \subseteq Jobs, WalkInv', VerdictInv'
    PROVE  ConfigInv'
  <1>1. SearchInv' /\ SearchTypes'
    BY Regroup, Unmoved
  <1>2. config' \in Configs /\ todo' \subseteq Jobs'
    BY Regroup, ConfigFixed
  <1> QED
    BY <1>1, <1>2 DEF ConfigInv, SearchInv, SearchTypes

LEMMA SearchStepsKeep ==
    ASSUME ConfigInv, pc = "search", UNCHANGED <<config, pc, todo>>,
           SearchInv', SearchTypes'
    PROVE  ConfigInv'
  <1>1. WalkInv'
    <2>1. \A j \in Jobs' \ todo' : Runnable(j)'
      BY Regroup, ConfigFixed DEF WalkInv
    <2> QED
      BY <2>1, Regroup DEF WalkInv, Errors
  <1>2. VerdictInv'
    BY DEF VerdictInv
  <1>3. config' \in Configs /\ todo' \subseteq Jobs'
    BY Regroup, ConfigFixed
  <1> QED
    BY <1>1, <1>2, <1>3 DEF ConfigInv, SearchInv, SearchTypes

LEMMA ConfigInvStep == ConfigInv /\ [Next]_vars => ConfigInv'
  <1> SUFFICES ASSUME ConfigInv, [Next]_vars PROVE ConfigInv'
    OBVIOUS
  <1>0. /\ config \in Configs /\ todo \subseteq Jobs /\ WalkInv /\ VerdictInv
    BY Regroup
  <1>1. config' = config
    BY DEF Next, Validate, DetectCycles, CheckPipeline, CheckJob, StartSearch, GoTo, Root,
           Descend, PassBy, CloseCycle, Return, Rebuild, Report, Accept,
           NewPipelineFromConfig, Finished, vars
  <1>2. /\ Jobs' = Jobs /\ (Acyclic' <=> Acyclic)
        /\ \A j : Runnable(j)' <=> Runnable(j)
    BY <1>1, ConfigFixed
  <1>3. CASE CheckPipeline
    <2>1. UNCHANGED <<searchVars, todo>> /\ pc = "start" /\ pc' \in {"noName", "noJobs", "jobs"}
      BY <1>3 DEF CheckPipeline, GoTo
    <2>2. WalkInv' /\ VerdictInv'
      BY <2>1, <1>0, <1>2 DEF WalkInv, VerdictInv, Errors, searchVars
    <2> QED
      BY <2>1, <2>2, <1>0, <1>1, OtherStepsKeep
  <1>4. CASE StartSearch
    <2>1. UNCHANGED <<searchVars, todo>> /\ todo = {} /\ pc = "jobs" /\ pc' = "search"
      BY <1>4 DEF StartSearch, GoTo
    <2>2. WalkInv' /\ VerdictInv'
      BY <2>1, <1>0, <1>2 DEF WalkInv, VerdictInv, Errors
    <2> QED
      BY <2>1, <2>2, <1>0, <1>1, OtherStepsKeep
  <1>5. ASSUME NEW j \in Jobs, CheckJob(j) PROVE ConfigInv'
    <2>1. UNCHANGED searchVars /\ pc = "jobs" /\ j \in todo
      BY <1>5 DEF CheckJob, GoTo
    <2>2. CASE Complaint(j) = "none"
      <3>1. todo' = todo \ {j} /\ pc' = "jobs" /\ Runnable(j)
        BY <1>5, <2>2, <1>0, ComplaintIsFair DEF CheckJob, GoTo
      <3>2. WalkInv' /\ VerdictInv'
        BY <2>1, <3>1, <1>0, <1>2 DEF WalkInv, VerdictInv, Errors, searchVars
      <3> QED
        BY <2>1, <3>1, <3>2, <1>0, <1>1, OtherStepsKeep
    <2>3. CASE Complaint(j) # "none"
      <3>1. todo' = todo /\ pc' = Complaint(j) /\ ~Runnable(j)
        BY <1>5, <2>3, <1>0, ComplaintIsFair DEF CheckJob, GoTo
      <3>2. Complaint(j) \in Errors \ {"noName", "noJobs", "cycle"}
        BY <2>3 DEF Complaint, StepComplaint, Errors
      <3>3. WalkInv' /\ VerdictInv'
        BY <2>1, <3>1, <3>2, <1>0, <1>2 DEF WalkInv, VerdictInv, Errors, searchVars
      <3> QED
        BY <2>1, <3>1, <3>3, <1>0, <1>1, OtherStepsKeep
    <2> QED
      BY <2>2, <2>3
  <1>6. CASE NewPipelineFromConfig
    <2>1. UNCHANGED <<searchVars, todo>> /\ pc = "accepted" /\ pc' = "converted"
      BY <1>6 DEF NewPipelineFromConfig
    <2>2. WalkInv'
      BY <2>1, <1>0, <1>2 DEF WalkInv, Errors
    <2>3. VerdictInv'
      BY <2>1, <1>0, <1>2 DEF VerdictInv, Visited, searchVars
    <2> QED
      BY <2>1, <2>2, <2>3, <1>0, <1>1, OtherStepsKeep
  <1>7. CASE Accept
    <2>1. /\ UNCHANGED <<searchVars, todo>> /\ pc = "search" /\ pc' = "accepted"
          /\ stack = <<>> /\ Unvisited = {}
      BY <1>7 DEF Accept, GoTo
    <2>2. WalkInv'
      BY <2>1, <1>0, <1>2 DEF WalkInv, Errors
    <2>3. Visited = Jobs
      BY <2>1, Regroup DEF SearchInv, SearchTypes, StackInv, Unvisited, Visited
    <2>4. VerdictInv'
      BY <2>1, <2>3, <1>0, <1>2 DEF VerdictInv, Visited, searchVars
    <2> QED
      BY <2>1, <2>2, <2>4, <1>0, <1>1, OtherStepsKeep
  <1>8. CASE Rebuild \/ Report
    <2>1. /\ UNCHANGED <<searchVars, todo>>
          /\ pc = "rebuild" /\ pc' \in {"rebuild", "cycle"}
      BY <1>8 DEF Rebuild, Report
    <2>2. WalkInv' /\ VerdictInv'
      BY <2>1, <1>0, <1>2 DEF WalkInv, VerdictInv, Errors
    <2> QED
      BY <2>1, <2>2, <1>0, <1>1, OtherStepsKeep
  <1>9. ASSUME NEW dep \in Jobs, CloseCycle(dep) PROVE ConfigInv'
    <2>1. UNCHANGED <<searchVars, todo>> /\ pc = "search" /\ pc' = "rebuild" /\ ~Acyclic
      BY <1>9, BackEdgeIsCycle DEF CloseCycle, LookingAt
    <2>2. WalkInv' /\ VerdictInv'
      BY <2>1, <1>0, <1>2 DEF WalkInv, VerdictInv, Errors
    <2> QED
      BY <2>1, <2>2, <1>0, <1>1, OtherStepsKeep
  <1>10. ASSUME NEW j \in Jobs, Root(j) PROVE ConfigInv'
    <2>1. /\ UNCHANGED <<config, pc, todo>> /\ pc = "search" /\ Call(j) /\ stack = <<>>
          /\ state[j] = "unvisited"
      BY <1>10 DEF Root, Unvisited
    <2> QED
      BY <2>1, CallKeeps, SearchStepsKeep
  <1>11. ASSUME NEW dep \in Jobs, Descend(dep) PROVE ConfigInv'
    <2>1. /\ UNCHANGED <<config, pc, todo>> /\ pc = "search" /\ Call(dep)
          /\ state[dep] = "unvisited" /\ LookingAt(dep) /\ stack # <<>>
      BY <1>11 DEF Descend, LookingAt
    <2>2. Top.at \in DOMAIN TopDeps /\ TopDeps[Top.at] = dep
      <3>1. Top.job \in Jobs /\ Top.at \in Nat \ {0}
        <4> DEFINE F == [job : Jobs, at : Nat \ {0}]
        <4>1. stack \in Seq(F)
          BY Regroup DEF SearchTypes
        <4>2. Top \in F
          <5> HIDE DEF F
          <5> QED
            BY <2>1, <4>1 DEF Top
        <4> QED
          BY <4>2
      <3>2. TopDeps \in Seq(Names)
        BY <3>1, <1>0, ConfigFacts DEF TopDeps
      <3> QED
        BY <2>1, <3>1, <3>2 DEF LookingAt
    <2> QED
      BY <2>1, <2>2, CallKeeps, SearchStepsKeep
  <1>12. ASSUME NEW dep \in Jobs, PassBy(dep) PROVE ConfigInv'
    <2>1. UNCHANGED <<config, pc, todo>> /\ pc = "search"
      BY <1>12 DEF PassBy, LookingAt
    <2> QED
      BY <2>1, <1>12, PassByKeeps, SearchStepsKeep
  <1>13. CASE Return
    <2>1. UNCHANGED <<config, pc, todo>> /\ pc = "search"
      BY <1>13 DEF Return
    <2> QED
      BY <2>1, <1>13, ReturnKeeps, SearchStepsKeep
  <1>14. CASE UNCHANGED vars
    <2>1. UNCHANGED <<searchVars, todo, pc>>
      BY <1>14 DEF vars
    <2>2. WalkInv'
      BY <2>1, <1>0, <1>2 DEF WalkInv, Errors, searchVars
    <2>3. VerdictInv'
      BY <2>1, <1>0, <1>2 DEF VerdictInv, Visited, searchVars
    <2> QED
      BY <2>1, <2>2, <2>3, <1>0, <1>1, OtherStepsKeep
  <1> QED
    BY <1>3, <1>4, <1>5, <1>6, <1>7, <1>8, <1>9, <1>10, <1>11, <1>12, <1>13, <1>14
    DEF Next, Validate, DetectCycles, Finished

(* ConfigInv holds in every state of Validate.                             *)
THEOREM ConfigInvariant == Spec => []ConfigInv
  <1> QED
    BY ConfigInvInit, ConfigInvStep, PTL DEF Spec

(* A configuration that Validate accepts has only jobs that can run, and   *)
(* dependencies that exist and can be ranked.                              *)
THEOREM AcceptedCanRun == Spec => []AcceptsOnlyRunnable
  <1>1. ConfigInv => AcceptsOnlyRunnable
    <2> SUFFICES ASSUME ConfigInv, pc \in {"accepted", "converted"}
                 PROVE  (\A j \in Jobs : Runnable(j)) /\ Acyclic
      BY DEF AcceptsOnlyRunnable
    <2>1. \A j \in Jobs : Runnable(j)
      BY Regroup DEF WalkInv
    <2>2. Visited = Jobs
      BY Regroup DEF VerdictInv
    <2>3. PICK rank \in [Jobs -> Nat] : RanksVisited(rank)
      BY Regroup DEF SearchInv
    <2>4. rank \in Ranks /\ IsTopological(rank)
      BY <2>2, <2>3 DEF RanksVisited, Ranks, IsTopological
    <2> QED
      BY <2>1, <2>4 DEF Acyclic
  <1> QED
    BY <1>1, ConfigInvariant, PTL

(* A configuration that Validate rejects over a job has a job that cannot  *)
(* run, and one it rejects over a cycle cannot be ranked.                  *)
THEOREM RejectedHasFault == Spec => []RejectsOnlyFaulty
  <1>1. ConfigInv => RejectsOnlyFaulty
    BY Regroup DEF WalkInv, VerdictInv, RejectsOnlyFaulty
  <1> QED
    BY <1>1, ConfigInvariant, PTL

-----------------------------------------------------------------------------
(* The environments.                                                       *)

LEMMA MergeFacts ==
    ASSUME NEW f, NEW g
    PROVE  /\ DOMAIN MergeEnv(f, g) = DOMAIN f \cup DOMAIN g
           /\ \A v \in DOMAIN f \cup DOMAIN g :
                 MergeEnv(f, g)[v] = IF v \in DOMAIN g THEN g[v] ELSE f[v]
  BY DEF MergeEnv

(* What the converted pipeline holds.                                      *)
EnvInv ==
    pc = "converted" =>
        \A j \in Jobs : \A k \in DOMAIN config.jobs[j].steps :
            pipeline[j].steps[k] = StepEnv(j, k)

(* Each step of a converted pipeline sees every variable set around it,    *)
(* with the value set nearest to it.                                       *)
THEOREM EnvIsMerged == Spec => []NearestEnvWins
  <1>1. Init => EnvInv
    BY DEF Init, EnvInv
  <1>2. EnvInv /\ [Next]_vars => EnvInv'
    <2> SUFFICES ASSUME EnvInv, [Next]_vars PROVE EnvInv'
      OBVIOUS
    <2>1. CASE NewPipelineFromConfig
      <3>1. /\ pipeline' = [j \in Jobs |->
                  [env   |-> JobEnv(j),
                   steps |-> [k \in DOMAIN config.jobs[j].steps |-> StepEnv(j, k)]]]
            /\ config' = config
        BY <2>1 DEF NewPipelineFromConfig
      <3>2. Jobs' = Jobs /\ \A j, k : StepEnv(j, k)' = StepEnv(j, k)
        BY <3>1 DEF Jobs, StepEnv, JobEnv, MergeEnv
      <3>3. \A j \in Jobs : \A k \in DOMAIN config.jobs[j].steps :
               pipeline'[j].steps[k] = StepEnv(j, k)
        BY <3>1
      <3> QED
        BY <3>1, <3>2, <3>3 DEF EnvInv
    <2>2. CASE pc' # "converted"
      BY <2>2 DEF EnvInv
    <2>3. CASE ~NewPipelineFromConfig /\ pc' = "converted"
      <3>1. UNCHANGED vars
        <4>1. \A j \in Jobs : Complaint(j) # "converted"
          BY DEF Complaint, StepComplaint
        <4>2. \A j \in Jobs : ~CheckJob(j)
          BY <2>3, <4>1 DEF CheckJob, GoTo
        <4>3. ~CheckPipeline /\ ~StartSearch
          BY <2>3 DEF CheckPipeline, StartSearch, GoTo
        <4>4. ~(Return \/ Rebuild \/ Report \/ Accept)
          BY <2>3 DEF Return, Rebuild, Report, Accept, GoTo
        <4>5. ASSUME NEW j \in Jobs, Root(j) \/ Descend(j) \/ PassBy(j) \/ CloseCycle(j)
              PROVE  FALSE
          BY <2>3, <4>5 DEF Root, Descend, PassBy, CloseCycle, LookingAt
        <4> QED
          BY <2>3, <4>2, <4>3, <4>4, <4>5 DEF Next, Validate, DetectCycles, Finished
      <3>2. /\ pc' = pc /\ config' = config /\ pipeline' = pipeline /\ Jobs' = Jobs
            /\ \A j, k : StepEnv(j, k)' = StepEnv(j, k)
        BY <3>1 DEF vars, Jobs, StepEnv, JobEnv, MergeEnv
      <3> QED
        BY <3>2 DEF EnvInv
    <2> QED
      BY <2>1, <2>2, <2>3
  <1>3. EnvInv => NearestEnvWins
    <2> SUFFICES ASSUME EnvInv, pc = "converted", NEW j \in Jobs,
                        NEW k \in DOMAIN config.jobs[j].steps
                 PROVE  LET own    == config.jobs[j].steps[k].env
                            job    == config.jobs[j].env
                            outer  == config.env
                            merged == pipeline[j].steps[k]
                        IN  /\ DOMAIN merged = DOMAIN own \cup DOMAIN job \cup DOMAIN outer
                            /\ \A v \in DOMAIN merged :
                                 \/ v \in DOMAIN own /\ merged[v] = own[v]
                                 \/ v \in DOMAIN job \ DOMAIN own /\ merged[v] = job[v]
                                 \/ v \notin DOMAIN own \cup DOMAIN job /\ merged[v] = outer[v]
      BY DEF NearestEnvWins
    <2> DEFINE own   == config.jobs[j].steps[k].env
               job   == config.jobs[j].env
               outer == config.env
               inner == MergeEnv(outer, job)
    <2>1. pipeline[j].steps[k] = MergeEnv(inner, own)
      BY DEF EnvInv, StepEnv, JobEnv
    <2> HIDE DEF own, job, outer
    <2>2. /\ DOMAIN inner = DOMAIN outer \cup DOMAIN job
          /\ \A v \in DOMAIN outer \cup DOMAIN job :
                inner[v] = IF v \in DOMAIN job THEN job[v] ELSE outer[v]
      BY MergeFacts
    <2> HIDE DEF inner
    <2>3. /\ DOMAIN MergeEnv(inner, own) = DOMAIN inner \cup DOMAIN own
          /\ \A v \in DOMAIN inner \cup DOMAIN own :
                MergeEnv(inner, own)[v] = IF v \in DOMAIN own THEN own[v] ELSE inner[v]
      BY MergeFacts
    <2> QED
      BY <2>1, <2>2, <2>3 DEF own, job, outer
  <1> QED
    BY <1>1, <1>2, <1>3, PTL DEF Spec

-----------------------------------------------------------------------------
(* The path in the message.                                                *)

Frames == [job : Jobs, at : Nat \ {0}]
Depth  == Len(stack)
Chain  == [k \in 1 .. Depth |-> stack[k].job]

(* parent leads from each call of dfs back to the one that made it.        *)
ParentsLead ==
    /\ parent \in [Jobs -> Jobs \cup {none}]
    /\ pc = "search" => \A k \in 1 .. Depth - 1 : parent[Chain[k + 1]] = Chain[k]

(* c is a cycle, each job depending on the next one and each but the first *)
(* with its predecessor for parent.                                        *)
IsCycle(c) ==
    /\ c \in Seq(Jobs) /\ Len(c) > 0
    /\ \A i, k \in 1 .. Len(c) : c[i] = c[k] => i = k
    /\ \A i \in 1 .. Len(c) - 1 : c[i + 1] \in DepsOf(c[i]) /\ parent[c[i + 1]] = c[i]
    /\ c[1] \in DepsOf(c[Len(c)])

(* The rebuilding loop has walked the cycle c backwards down to m, and not *)
(* to the first job unless there is no other.                              *)
Rebuilding(c, m) ==
    /\ m \in 1 .. Len(c) /\ (m = 1 => Len(c) = 1)
    /\ cur = c[m]
    /\ path = [k \in 1 .. Len(c) - m + 2 |-> IF k = 1 THEN c[1] ELSE c[Len(c) + 2 - k]]

PathInv ==
    /\ ParentsLead
    /\ pc = "rebuild" => \E c, m : IsCycle(c) /\ Rebuilding(c, m)
    /\ PathNamesCycle

LEMMA ChainTyped ==
    ASSUME ConfigInv
    PROVE  /\ stack \in Seq(Frames) /\ Depth \in Nat /\ DOMAIN stack = 1 .. Depth
           /\ stack # <<>> => Depth > 0
           /\ \A k \in 1 .. Depth :
                 stack[k] \in Frames /\ Chain[k] = stack[k].job /\ Chain[k] \in Jobs
  <1>1. stack \in Seq(Frames)
    BY Regroup DEF SearchTypes, Frames
  <1>2. /\ Depth \in Nat /\ DOMAIN stack = 1 .. Depth /\ (stack # <<>> => Depth > 0)
        /\ \A k \in 1 .. Depth : stack[k] \in Frames
    BY <1>1 DEF Depth
  <1>3. \A f \in Frames : f.job \in Jobs
    BY DEF Frames
  <1> QED
    BY <1>1, <1>2, <1>3 DEF Chain

(* The calls on the stack are distinct, are the jobs in the stack, and     *)
(* each depends on the next.                                               *)
LEMMA ChainIsPath ==
    ASSUME ConfigInv
    PROVE  /\ \A j \in Jobs : state[j] = "inStack" <=> \E k \in 1 .. Depth : Chain[k] = j
           /\ \A k, l \in 1 .. Depth : Chain[k] = Chain[l] => k = l
           /\ \A k \in 1 .. Depth - 1 : Chain[k + 1] \in DepsOf(Chain[k])
  <1>1. StackInv
    BY Regroup DEF SearchInv
  <1>2. /\ DOMAIN stack = 1 .. Depth /\ Depth \in Nat
        /\ \A k \in 1 .. Depth : Chain[k] = stack[k].job /\ Chain[k] \in Jobs
    BY ChainTyped
  <1>3. \A j \in Jobs : state[j] = "inStack" <=> \E k \in 1 .. Depth : Chain[k] = j
    BY <1>1, <1>2 DEF StackInv
  <1>4. \A k, l \in 1 .. Depth : Chain[k] = Chain[l] => k = l
    BY <1>1, <1>2 DEF StackInv
  <1>5. ASSUME NEW k \in 1 .. Depth - 1
        PROVE  Chain[k + 1] \in DepsOf(Chain[k])
    <2>1. k \in 1 .. Depth /\ k + 1 \in 1 .. Depth /\ k < Depth
      BY <1>2
    <2>2. stack[k].at \in DOMAIN Frame(k) /\ Frame(k)[stack[k].at] = stack[k + 1].job
      BY <1>1, <1>2, <2>1 DEF StackInv, Depth
    <2> QED
      BY <1>2, <2>1, <2>2 DEF Frame, DepsOf
  <1> QED
    BY <1>3, <1>4, <1>5

(* What a look at a dependency finds.                                      *)
LEMMA LooksAtDep ==
    ASSUME ConfigInv, NEW dep, LookingAt(dep)
    PROVE  /\ pc = "search" /\ Depth > 0 /\ dep \in Jobs
           /\ Top.job = Chain[Depth] /\ dep \in DepsOf(Chain[Depth])
  <1>1. /\ pc = "search" /\ stack # <<>> /\ Top = stack[Depth]
        /\ Top.at <= Len(TopDeps) /\ dep = TopDeps[Top.at]
        /\ TopDeps = config.jobs[Top.job].dependsOn
    BY DEF LookingAt, Top, TopDeps, Depth
  <1>2. /\ Depth \in Nat /\ Depth > 0 /\ Top \in Frames
        /\ Chain[Depth] = Top.job /\ Chain[Depth] \in Jobs
    BY <1>1, ChainTyped
  <1>3. Top.at \in Nat \ {0}
    BY <1>2 DEF Frames
  <1>4. TopDeps \in Seq(Names)
    BY <1>1, <1>2, Regroup, ConfigFacts
  <1>5. dep \in DepsOf(Chain[Depth])
    <2>1. Top.at \in DOMAIN TopDeps
      BY <1>1, <1>3, <1>4
    <2> QED
      BY <1>1, <1>2, <2>1 DEF DepsOf
  <1> QED
    BY <1>1, <1>2, <1>5, DepsAreJobs

(* The loop of a call moves on by one position, those below it stay.       *)
LEMMA AdvanceMoves ==
    ASSUME NEW s \in Seq(Frames)
    PROVE  /\ Len(Advance(s)) = Len(s) /\ DOMAIN Advance(s) = 1 .. Len(s)
           /\ \A k \in 1 .. Len(s) : Advance(s)[k].job = s[k].job
           /\ \A k \in 1 .. Len(s) : Advance(s)[k].at = IF k = Len(s) THEN s[k].at + 1 ELSE s[k].at
  <1>1. CASE s = <<>>
    BY <1>1 DEF Advance
  <1>2. CASE s # <<>>
    <2> DEFINE n   == Len(s)
               new == [s[n] EXCEPT !.at = @ + 1]
    <2>1. n \in Nat /\ n > 0 /\ s[n] \in Frames /\ s[n] = s[Len(s)]
      BY <1>2
    <2>2. Advance(s) = [s EXCEPT ![n] = new]
      BY <1>2 DEF Advance
    <2>3. new.job = s[n].job /\ new.at = s[n].at + 1
      BY <2>1 DEF Frames
    <2> HIDE DEF new
    <2>4. /\ Len(Advance(s)) = n /\ DOMAIN Advance(s) = 1 .. n
          /\ \A k \in 1 .. n : Advance(s)[k] = IF k = n THEN new ELSE s[k]
      BY <2>1, <2>2
    <2> QED
      BY <2>3, <2>4
  <1> QED
    BY <1>1, <1>2

(* A step that only shortens the chain, or not even that.                  *)
LEMMA ShorterChain ==
    ASSUME ConfigInv, ParentsLead, pc = "search", UNCHANGED <<config, pc, parent>>,
           NEW m \in Nat, m <= Depth, Len(stack') = m,
           \A k \in 1 .. m : stack'[k].job = stack[k].job
    PROVE  ParentsLead'
  <1>1. Depth' = m /\ Jobs' = Jobs
    BY DEF Depth, Jobs
  <1>2. \A k \in 1 .. m : Chain'[k] = Chain[k]
    <2>1. \A k \in 1 .. m : Chain'[k] = stack'[k].job
      BY <1>1 DEF Chain
    <2>2. \A k \in 1 .. m : k \in 1 .. Depth
      BY ChainTyped
    <2> QED
      BY <2>1, <2>2, ChainTyped
  <1>3. ASSUME NEW k \in 1 .. m - 1
        PROVE  parent[Chain'[k + 1]] = Chain'[k]
    <2>1. k \in 1 .. Depth - 1 /\ k \in 1 .. m /\ k + 1 \in 1 .. m
      BY ChainTyped
    <2>2. parent[Chain[k + 1]] = Chain[k]
      BY <2>1 DEF ParentsLead
    <2> QED
      BY <1>2, <2>1, <2>2
  <1> QED
    BY <1>1, <1>3 DEF ParentsLead

LEMMA ReturnParents ==
    ASSUME ConfigInv, ParentsLead, Return
    PROVE  ParentsLead'
  <1> DEFINE n     == Depth - 1
             front == SubSeq(stack, 1, n)
  <1>1. /\ pc = "search" /\ UNCHANGED <<config, pc, parent>> /\ stack # <<>>
        /\ stack' = Advance(front)
    BY DEF Return, Front, Depth
  <1>2. n \in Nat /\ n <= Depth /\ \A k \in 1 .. n : stack[k] \in Frames
    BY <1>1, ChainTyped
  <1> HIDE DEF n
  <1>3. /\ front \in Seq(Frames) /\ Len(front) = n
        /\ \A k \in 1 .. n : front[k] = stack[k]
    <2>1. /\ front \in Seq(Frames) /\ Len(front) = IF 1 <= n THEN n - 1 + 1 ELSE 0
          /\ \A k \in 1 .. n - 1 + 1 : front[k] = stack[1 + k - 1]
      BY <1>2, SubSeqProperties
    <2> QED
      BY <1>2, <2>1
  <1> HIDE DEF front
  <1>4. Len(stack') = n /\ \A k \in 1 .. n : stack'[k].job = stack[k].job
    BY <1>1, <1>3, AdvanceMoves
  <1> QED
    BY <1>1, <1>2, <1>4, ShorterChain

LEMMA PassByParents ==
    ASSUME ConfigInv, ParentsLead, NEW dep, PassBy(dep)
    PROVE  ParentsLead'
  <1>1. /\ pc = "search" /\ UNCHANGED <<config, pc, parent>> /\ stack' = Advance(stack)
    BY DEF PassBy, LookingAt
  <1>2. Len(stack') = Depth /\ \A k \in 1 .. Depth : stack'[k].job = stack[k].job
    BY <1>1, ChainTyped, AdvanceMoves DEF Depth
  <1>3. Depth \in Nat /\ Depth <= Depth
    BY ChainTyped
  <1> QED
    BY <1>1, <1>2, <1>3, ShorterChain

(* The job called hangs from the top; those below keep their parents.      *)
LEMMA DescendParents ==
    ASSUME ConfigInv, ParentsLead, NEW dep, Descend(dep)
    PROVE  ParentsLead'
  <1>1. /\ LookingAt(dep) /\ state[dep] = "unvisited"
        /\ UNCHANGED <<config, pc>>
        /\ parent' = [parent EXCEPT ![dep] = Top.job]
        /\ stack' = Append(stack, [job |-> dep, at |-> 1])
    BY DEF Descend, Call
  <1>2. /\ pc = "search" /\ Depth \in Nat /\ Depth > 0 /\ dep \in Jobs /\ Jobs' = Jobs
        /\ Top.job = Chain[Depth] /\ Chain[Depth] \in Jobs
    BY <1>1, LooksAtDep, ChainTyped DEF Jobs
  <1>3. /\ Depth' = Depth + 1 /\ Chain'[Depth + 1] = dep
        /\ \A k \in 1 .. Depth : Chain'[k] = Chain[k]
    <2> DEFINE call == [job |-> dep, at |-> 1]
    <2>1. call \in Frames /\ call.job = dep /\ stack' = Append(stack, call)
      BY <1>1, <1>2 DEF Frames
    <2> HIDE DEF call
    <2>2. /\ Len(stack') = Depth + 1 /\ stack'[Depth + 1] = call
          /\ \A k \in 1 .. Depth : stack'[k] = stack[k]
      BY <2>1, ChainTyped DEF Depth
    <2>3. Depth' = Depth + 1
      BY <2>2 DEF Depth
    <2>4. \A k \in 1 .. Depth + 1 : Chain'[k] = stack'[k].job
      BY <2>3 DEF Chain
    <2> QED
      BY <1>2, <2>1, <2>2, <2>3, <2>4, ChainTyped
  <1>4. \A k \in 1 .. Depth : Chain[k] # dep
    BY <1>1, <1>2, ChainIsPath
  <1>5. parent' \in [Jobs -> Jobs \cup {none}]
    BY <1>1, <1>2 DEF ParentsLead
  <1>6. ASSUME NEW k \in 1 .. Depth
        PROVE  parent'[Chain'[k + 1]] = Chain'[k]
    <2>1. CASE k = Depth
      BY <1>1, <1>2, <1>3, <2>1 DEF ParentsLead
    <2>2. CASE k # Depth
      <3>1. k \in 1 .. Depth - 1 /\ k + 1 \in 1 .. Depth
        BY <1>2, <2>2
      <3>2. Chain'[k + 1] = Chain[k + 1] /\ Chain'[k] = Chain[k] /\ Chain[k + 1] # dep
        BY <1>3, <1>4, <3>1
      <3>3. parent[Chain[k + 1]] = Chain[k]
        BY <1>2, <3>1 DEF ParentsLead
      <3>4. Chain[k + 1] \in Jobs
        BY <3>1, ChainTyped
      <3> QED
        BY <1>1, <3>2, <3>3, <3>4 DEF ParentsLead
    <2> QED
      BY <2>1, <2>2
  <1> QED
    BY <1>2, <1>3, <1>5, <1>6 DEF ParentsLead

LEMMA RootParents ==
    ASSUME ConfigInv, ParentsLead, NEW j \in Jobs, Root(j)
    PROVE  ParentsLead'
  <1>1. /\ stack' = <<[job |-> j, at |-> 1]>> /\ UNCHANGED <<config, parent>>
    BY DEF Root, Call
  <1>2. Depth' = 1 /\ Jobs' = Jobs
    BY <1>1 DEF Depth, Jobs
  <1> QED
    BY <1>1, <1>2 DEF ParentsLead

(* A dependency on the stack closes a cycle: it and what lies above it.    *)
LEMMA CloseCycleFinds ==
    ASSUME ConfigInv, ParentsLead, NEW dep, CloseCycle(dep)
    PROVE  \E c, m : IsCycle(c)' /\ Rebuilding(c, m)'
  <1>1. /\ LookingAt(dep) /\ state[dep] = "inStack"
        /\ path' = <<dep, Chain[Depth]>> /\ cur' = Chain[Depth]
        /\ UNCHANGED <<config, parent>>
    <2>1. LookingAt(dep)
      BY DEF CloseCycle
    <2>2. Top.job = Chain[Depth]
      BY <2>1, LooksAtDep
    <2> QED
      BY <2>2 DEF CloseCycle, searchVars
  <1>2. /\ pc = "search" /\ Depth \in Nat /\ Depth > 0 /\ dep \in Jobs
        /\ dep \in DepsOf(Chain[Depth]) /\ \A k \in 1 .. Depth : Chain[k] \in Jobs
    BY <1>1, LooksAtDep, ChainTyped
  <1>3. PICK b \in 1 .. Depth : Chain[b] = dep
    BY <1>1, <1>2, ChainIsPath
  <1>4. PICK n \in Nat : n = Depth - b + 1
    BY <1>2, <1>3
  <1>5. /\ n > 0 /\ Depth = b + n - 1
        /\ \A i \in 1 .. n : b + i - 1 \in 1 .. Depth
        /\ \A i \in 1 .. n - 1 :
              b + i - 1 \in 1 .. Depth - 1 /\ b + (i + 1) - 1 = (b + i - 1) + 1
    BY <1>2, <1>3, <1>4
  <1>6. PICK c : /\ c \in Seq(Jobs) /\ Len(c) = n
                 /\ \A i \in 1 .. n : c[i] = Chain[b + i - 1]
    <2> DEFINE d == [i \in 1 .. n |-> Chain[b + i - 1]]
    <2>1. d \in [1 .. n -> Jobs]
      BY <1>2, <1>5
    <2>2. d \in Seq(Jobs) /\ Len(d) = n /\ \A i \in 1 .. n : d[i] = Chain[b + i - 1]
      BY <2>1
    <2> HIDE DEF d
    <2> QED
      BY <2>2
  <1>7. /\ c[1] = dep /\ c[n] = Chain[Depth]
        /\ \A i \in 1 .. n - 1 : c[i] = Chain[b + i - 1] /\ c[i + 1] = Chain[(b + i - 1) + 1]
    BY <1>2, <1>3, <1>5, <1>6
  <1>8. \A i, k \in 1 .. n : c[i] = c[k] => i = k
    <2>1. ASSUME NEW i \in 1 .. n, NEW k \in 1 .. n, c[i] = c[k]
          PROVE  b + i - 1 = b + k - 1
      <3>1. b + i - 1 \in 1 .. Depth /\ b + k - 1 \in 1 .. Depth
        BY <1>5
      <3>2. Chain[b + i - 1] = Chain[b + k - 1]
        BY <1>6, <2>1
      <3> QED
        BY <3>1, <3>2, ChainIsPath, Zenon
    <2> QED
      BY <1>3, <2>1
  <1>9. \A i \in 1 .. n - 1 : c[i + 1] \in DepsOf(c[i]) /\ parent[c[i + 1]] = c[i]
    BY <1>2, <1>5, <1>7, ChainIsPath DEF ParentsLead
  <1>10. Jobs' = Jobs /\ parent' = parent /\ \A j : DepsOf(j)' = DepsOf(j)
    BY <1>1, ConfigFixed
  <1>11. IsCycle(c)'
    BY <1>2, <1>5, <1>6, <1>7, <1>8, <1>9, <1>10 DEF IsCycle
  <1>12. Rebuilding(c, n)'
    <2>1. path' = [k \in 1 .. 2 |-> IF k = 1 THEN c[1] ELSE c[n]]
      BY <1>1, <1>7
    <2>2. n - n + 2 = 2 /\ n + 2 - 2 = n
      OBVIOUS
    <2>3. path' = [k \in 1 .. n - n + 2 |-> IF k = 1 THEN c[1] ELSE c[n + 2 - k]]
      BY <2>1, <2>2
    <2>4. n \in 1 .. n /\ (n = 1 => Len(c) = 1)
      BY <1>5, <1>6
    <2> QED
      BY <1>1, <1>6, <1>7, <2>3, <2>4 DEF Rebuilding
  <1> QED
    BY <1>11, <1>12

(* The loop adds the parent of the job it is at: the one before it.        *)
LEMMA RebuildWalks ==
    ASSUME Rebuild, NEW c, NEW m, IsCycle(c), Rebuilding(c, m)
    PROVE  IsCycle(c)' /\ Rebuilding(c, m - 1)'
  <1> DEFINE n == Len(c)
  <1>1. /\ cur # path[1] /\ parent[cur] # path[1]
        /\ cur' = parent[cur] /\ path' = Append(path, parent[cur])
        /\ UNCHANGED <<config, parent>>
    BY DEF Rebuild, AtCycleStart, searchVars
  <1>2. n \in Nat /\ n > 0 /\ m \in 1 .. n /\ c \in Seq(Jobs) /\ cur = c[m] /\ path[1] = c[1]
    BY DEF IsCycle, Rebuilding
  <1>3. m - 1 \in 1 .. n - 1 /\ (m - 1) + 1 = m
    BY <1>1, <1>2
  <1>4. parent[cur] = c[m - 1]
    BY <1>2, <1>3 DEF IsCycle
  <1>5. m - 1 # 1 /\ m - 1 \in 1 .. n
    BY <1>1, <1>2, <1>3, <1>4
  <1>6. path' = [k \in 1 .. n - (m - 1) + 2 |-> IF k = 1 THEN c[1] ELSE c[n + 2 - k]]
    <2> DEFINE l == n - m + 2
    <2>1. l \in Nat /\ l > 1 /\ n - (m - 1) + 2 = l + 1 /\ n + 2 - (l + 1) = m - 1
      BY <1>2
    <2>2. path = [k \in 1 .. l |-> IF k = 1 THEN c[1] ELSE c[n + 2 - k]]
      BY DEF Rebuilding
    <2> HIDE DEF l
    <2>3. path \in Seq({c[i] : i \in Int}) /\ Len(path) = l
      BY <1>2, <2>1, <2>2
    <2>4. path' = [k \in 1 .. l + 1 |-> IF k = l + 1 THEN c[m - 1] ELSE path[k]]
      <3>1. path' = Append(path, c[m - 1])
        BY <1>1, <1>4
      <3> QED
        BY <2>1, <2>3, <3>1
    <2>5. ASSUME NEW k \in 1 .. l + 1
          PROVE  path'[k] = IF k = 1 THEN c[1] ELSE c[n + 2 - k]
      <3>1. CASE k = l + 1
        BY <2>1, <2>4, <3>1
      <3>2. CASE k \in 1 .. l
        BY <2>1, <2>2, <2>4, <3>2
      <3> QED
        BY <2>1, <3>1, <3>2
    <2> QED
      BY <2>1, <2>4, <2>5
  <1>7. Rebuilding(c, m - 1)'
    BY <1>1, <1>4, <1>5, <1>6 DEF Rebuilding
  <1>8. IsCycle(c)'
    <2>1. Jobs' = Jobs /\ \A j : DepsOf(j)' = DepsOf(j)
      BY <1>1, ConfigFixed
    <2> QED
      BY <1>1, <2>1 DEF IsCycle
  <1> QED
    BY <1>7, <1>8

(* Reversed, the path is the cycle from its second job round to its first. *)
LEMMA ReportNames ==
    ASSUME Report, NEW c, NEW m, IsCycle(c), Rebuilding(c, m)
    PROVE  PathNamesCycle'
  <1> DEFINE n == Len(c)
  <1>1. /\ cur = path[1] \/ parent[cur] = path[1]
        /\ path' = Reverse(path) /\ config' = config
    BY DEF Report, AtCycleStart
  <1>2. n \in Nat /\ n > 0 /\ m \in 1 .. n /\ c \in Seq(Jobs) /\ cur = c[m] /\ path[1] = c[1]
        /\ (m = 1 => n = 1)
    BY DEF IsCycle, Rebuilding
  <1>3. /\ \A i, k \in 1 .. n : c[i] = c[k] => i = k
        /\ \A i \in 1 .. n - 1 : c[i + 1] \in DepsOf(c[i]) /\ parent[c[i + 1]] = c[i]
        /\ c[1] \in DepsOf(c[n])
    BY DEF IsCycle
  <1>4. \A j : DepsOf(j)' = DepsOf(j)
    BY <1>1, ConfigFixed
  <1>5. path' = [i \in 1 .. Len(path) |-> path[(Len(path) - i) + 1]]
    BY <1>1, Zenon DEF Reverse
  <1>6. path = [k \in 1 .. n - m + 2 |-> IF k = 1 THEN c[1] ELSE c[n + 2 - k]]
    BY DEF Rebuilding
  <1> HIDE DEF n
  <1>7. CASE n = 1
    <2>1. m = 1 /\ n - m + 2 = 2 /\ n + 2 - 2 = 1
      BY <1>2, <1>7
    <2>2. Len(path) = 2 /\ path[1] = c[1] /\ path[2] = c[1]
      BY <1>6, <2>1
    <2>3. Len(path') = 2 /\ path'[1] = c[1] /\ path'[2] = c[1]
      BY <1>5, <2>2
    <2> QED
      BY <1>3, <1>4, <1>7, <2>3 DEF PathNamesCycle
  <1>8. CASE n # 1
    <2>1. m = 2
      <3>1. m - 1 \in 1 .. n - 1 /\ (m - 1) + 1 = m /\ m - 1 \in 1 .. n /\ 1 \in 1 .. n
        BY <1>2, <1>8
      <3>2. parent[cur] = c[m - 1] /\ cur # c[1]
        BY <1>2, <1>3, <3>1
      <3> QED
        BY <1>1, <1>2, <1>3, <3>1, <3>2
    <2>2. n - m + 2 = n /\ n > 1
      BY <1>2, <1>8, <2>1
    <2>3. Len(path) = n /\ \A k \in 1 .. n : path[k] = IF k = 1 THEN c[1] ELSE c[n + 2 - k]
      BY <1>2, <1>6, <2>2
    <2>4. Len(path') = n /\ DOMAIN path' = 1 .. n
      BY <1>2, <1>5, <2>3
    <2>5. path'[n] = c[1]
      BY <1>2, <1>5, <2>2, <2>3
    <2>6. ASSUME NEW i \in 1 .. n - 1
          PROVE  path'[i] = c[i + 1]
      <3>1. path'[i] = path[n - i + 1]
        BY <1>2, <1>5, <2>3
      <3>2. n - i + 1 \in 1 .. n /\ n - i + 1 # 1 /\ n + 2 - (n - i + 1) = i + 1
        BY <1>2
      <3> QED
        BY <2>3, <3>1, <3>2
    <2>7. IsInjective(path')
      <3>1. ASSUME NEW i \in 1 .. n, NEW k \in 1 .. n, path'[i] = path'[k]
            PROVE  i = k
        <4>1. CASE i = n \/ k = n
          BY <1>2, <1>3, <2>2, <2>5, <2>6, <3>1, <4>1
        <4>2. CASE i \in 1 .. n - 1 /\ k \in 1 .. n - 1
          <5>1. i + 1 \in 1 .. n /\ k + 1 \in 1 .. n /\ c[i + 1] = c[k + 1]
            BY <1>2, <2>6, <3>1, <4>2
          <5> QED
            BY <1>3, <4>2, <5>1
        <4> QED
          BY <1>2, <4>1, <4>2
      <3> QED
        BY <2>4, <3>1 DEF IsInjective
    <2>8. ASSUME NEW k \in 1 .. n
          PROVE  path'[(k % n) + 1] \in DepsOf(path'[k])
      <3>1. CASE k = n
        <4>1. k % n = 0
          BY <1>2, <3>1
        <4>2. path'[1] = c[2]
          <5>1. 1 \in 1 .. n - 1 /\ 1 + 1 = 2
            BY <1>2, <2>2
          <5> QED
            BY <2>6, <5>1
        <4>3. c[2] \in DepsOf(c[1])
          BY <1>2, <1>3, <2>2
        <4> QED
          BY <2>5, <3>1, <4>1, <4>2, <4>3
      <3>2. CASE k = n - 1
        <4>1. k % n = k /\ k \in 1 .. n - 1 /\ k + 1 = n
          BY <1>2, <2>2, <3>2
        <4>2. path'[k] = c[n]
          BY <2>6, <4>1
        <4> QED
          BY <1>3, <2>5, <4>1, <4>2
      <3>3. CASE k \in 1 .. n - 2
        <4>1. k % n = k /\ k \in 1 .. n - 1 /\ k + 1 \in 1 .. n - 1 /\ (k + 1) + 1 \in 1 .. n
          BY <1>2, <3>3
        <4>2. path'[k] = c[k + 1] /\ path'[k + 1] = c[(k + 1) + 1]
          BY <2>6, <4>1
        <4> QED
          BY <1>3, <4>1, <4>2
      <3> QED
        BY <1>2, <3>1, <3>2, <3>3
    <2> QED
      BY <1>4, <2>2, <2>4, <2>7, <2>8 DEF PathNamesCycle
  <1> QED
    BY <1>7, <1>8

LEMMA PathInvariant == Spec => []PathInv
  <1>1. Init => PathInv
    BY DEF Init, PathInv, ParentsLead, PathNamesCycle, Jobs
  <1>2. ConfigInv /\ PathInv /\ [Next]_vars => PathInv'
    <2> SUFFICES ASSUME ConfigInv, PathInv, [Next]_vars PROVE PathInv'
      OBVIOUS
    <2>1. CASE Validate
      <3>1. UNCHANGED <<config, parent, stack>> /\ stack = <<>> /\ pc' \notin {"rebuild", "cycle"}
        <4>1. \A j \in Jobs : Complaint(j) \notin {"rebuild", "cycle"}
          BY DEF Complaint, StepComplaint
        <4>2. pc \in {"start", "jobs"} /\ UNCHANGED <<config, parent, stack>>
          BY <2>1 DEF Validate, CheckPipeline, CheckJob, StartSearch, GoTo, searchVars
        <4>3. stack = <<>>
          BY <4>2, Regroup DEF WalkInv
        <4>4. pc' \notin {"rebuild", "cycle"}
          BY <2>1, <4>1 DEF Validate, CheckPipeline, CheckJob, StartSearch, GoTo
        <4> QED
          BY <4>2, <4>3, <4>4
      <3>2. Depth' = 0 /\ Jobs' = Jobs
        BY <3>1 DEF Depth, Jobs
      <3> QED
        BY <3>1, <3>2 DEF PathInv, ParentsLead, PathNamesCycle
    <2>2. ASSUME NEW j \in Jobs, Root(j) \/ Descend(j) \/ PassBy(j)
          PROVE  PathInv'
      <3>1. pc = "search" /\ pc' = "search"
        BY <2>2 DEF Root, Descend, PassBy, LookingAt
      <3> QED
        BY <2>2, <3>1, RootParents, DescendParents, PassByParents DEF PathInv, PathNamesCycle
    <2>3. CASE Return
      <3>1. pc' = "search"
        BY <2>3 DEF Return
      <3> QED
        BY <2>3, <3>1, ReturnParents DEF PathInv, PathNamesCycle
    <2>4. ASSUME NEW j \in Jobs, CloseCycle(j)
          PROVE  PathInv'
      <3>1. pc' = "rebuild" /\ parent' = parent /\ Jobs' = Jobs
        BY <2>4 DEF CloseCycle, searchVars, Jobs
      <3>2. \E c, m : IsCycle(c)' /\ Rebuilding(c, m)'
        BY <2>4, CloseCycleFinds DEF PathInv
      <3> QED
        BY <3>1, <3>2 DEF PathInv, ParentsLead, PathNamesCycle
    <2>5. CASE Rebuild
      <3>1. pc = "rebuild" /\ pc' = "rebuild" /\ parent' = parent /\ Jobs' = Jobs
        BY <2>5 DEF Rebuild, searchVars, Jobs
      <3>2. PICK c, m : IsCycle(c) /\ Rebuilding(c, m)
        BY <3>1 DEF PathInv
      <3>3. IsCycle(c)' /\ Rebuilding(c, m - 1)'
        BY <2>5, <3>2, RebuildWalks
      <3> QED
        BY <3>1, <3>3 DEF PathInv, ParentsLead, PathNamesCycle
    <2>6. CASE Report
      <3>1. pc = "rebuild" /\ pc' = "cycle" /\ parent' = parent /\ Jobs' = Jobs
        BY <2>6 DEF Report, searchVars, Jobs
      <3>2. PICK c, m : IsCycle(c) /\ Rebuilding(c, m)
        BY <3>1 DEF PathInv
      <3> QED
        BY <2>6, <3>1, <3>2, ReportNames DEF PathInv, ParentsLead
    <2>7. CASE Accept \/ NewPipelineFromConfig
      <3>1. pc' \notin {"search", "rebuild", "cycle"} /\ parent' = parent /\ Jobs' = Jobs
        BY <2>7 DEF Accept, NewPipelineFromConfig, GoTo, searchVars, Jobs
      <3> QED
        BY <3>1 DEF PathInv, ParentsLead, PathNamesCycle
    <2>8. CASE UNCHANGED vars
      <3>1. UNCHANGED <<config, pc, parent, stack, path, cur>> /\ Jobs' = Jobs
        BY <2>8 DEF vars, searchVars, pathVars, Jobs
      <3>2. Depth' = Depth /\ Chain' = Chain /\ \A j : DepsOf(j)' = DepsOf(j)
        BY <3>1, ConfigFixed DEF Depth, Chain
      <3>3. \A c, m : IsCycle(c) /\ Rebuilding(c, m) => IsCycle(c)' /\ Rebuilding(c, m)'
        BY <3>1, <3>2 DEF IsCycle, Rebuilding
      <3> QED
        BY <3>1, <3>2, <3>3 DEF PathInv, ParentsLead, PathNamesCycle
    <2> QED
      BY <2>1, <2>2, <2>3, <2>4, <2>5, <2>6, <2>7, <2>8 DEF Next, DetectCycles, Finished
  <1> QED
    BY ConfigInvariant, <1>1, <1>2, PTL DEF Spec

(* The jobs in the message of a cycle, read in a circle, each depend on    *)
(* the next, and no job is in it twice.                                    *)
THEOREM PathIsCycle == Spec => []PathNamesCycle
  <1>1. PathInv => PathNamesCycle
    BY DEF PathInv
  <1> QED
    BY PathInvariant, <1>1, PTL

-----------------------------------------------------------------------------
(* Every step counts.                                                      *)

(* What Budget counts but the stage.                                       *)
NothingGrows ==
    /\ todo' \subseteq todo /\ Unvisited' \subseteq Unvisited
    /\ Unfinished' \subseteq Unfinished /\ Unlooked' \subseteq Unlooked
    /\ Unwalked' \subseteq Unwalked

SomethingShrinks ==
    \/ todo' # todo \/ Unvisited' # Unvisited \/ Unfinished' # Unfinished
    \/ Unlooked' # Unlooked \/ Unwalked' # Unwalked

StepCounts == NothingGrows /\ Stage' <= Stage /\ (Stage' < Stage \/ SomethingShrinks)

LEMMA StageType == Stage \in Nat
  BY DEF Stage

(* A part of a finite set counts no more, and less when it is not all.     *)
LEMMA FewerLeft ==
    ASSUME NEW S, IsFiniteSet(S), NEW T, T \subseteq S
    PROVE  /\ Cardinality(T) \in Nat /\ Cardinality(S) \in Nat
           /\ Cardinality(T) <= Cardinality(S)
           /\ T # S => Cardinality(T) < Cardinality(S)
  <1>1. IsFiniteSet(T) /\ Cardinality(T) <= Cardinality(S)
        /\ (Cardinality(S) = Cardinality(T) => S = T)
    BY FS_Subset
  <1>2. Cardinality(T) \in Nat /\ Cardinality(S) \in Nat
    BY <1>1, FS_CardinalityType
  <1> QED
    BY <1>1, <1>2

LEMMA BudgetIsFinite ==
    ASSUME ConfigInv
    PROVE  /\ IsFiniteSet(todo) /\ IsFiniteSet(Unvisited) /\ IsFiniteSet(Unfinished)
           /\ IsFiniteSet(Unlooked) /\ IsFiniteSet(Unwalked)
  <1>1. IsFiniteSet(Jobs)
    BY ConfigFacts, Regroup
  <1>2. /\ todo \subseteq Jobs /\ Unvisited \subseteq Jobs /\ Unfinished \subseteq Jobs
        /\ Unwalked \subseteq Jobs
    BY DEF ConfigInv, Unvisited, Unfinished, Unwalked
  <1> DEFINE Of(j) == {j} \X NotPassed(j)
             Parts == {Of(j) : j \in Jobs}
  <1>3. ASSUME NEW j \in Jobs
        PROVE  IsFiniteSet(Of(j))
    <2>1. config.jobs[j].dependsOn \in Seq(Names)
      BY <1>3, ConfigFacts, Regroup
    <2>2. /\ DOMAIN config.jobs[j].dependsOn = 1 .. Len(config.jobs[j].dependsOn)
          /\ Len(config.jobs[j].dependsOn) \in Nat
      BY <2>1
    <2>3. IsFiniteSet(DOMAIN config.jobs[j].dependsOn)
      BY <2>2, FS_Interval
    <2>4. NotPassed(j) \subseteq DOMAIN config.jobs[j].dependsOn
      BY DEF NotPassed
    <2>5. IsFiniteSet(NotPassed(j))
      BY <2>3, <2>4, FS_Subset
    <2>6. IsFiniteSet({j})
      BY FS_Singleton
    <2> QED
      BY <2>5, <2>6, FS_Product
  <1> HIDE DEF Of
  <1>4. IsFiniteSet(Parts)
    <2> DEFINE f == [j \in Jobs |-> Of(j)]
    <2>1. f \in Surjection(Jobs, Parts)
      BY DEF Surjection
    <2> QED
      BY <1>1, <2>1, FS_Surjection
  <1>5. IsFiniteSet(UNION Parts)
    <2>1. \A T \in Parts : IsFiniteSet(T)
      BY <1>3
    <2> HIDE DEF Parts
    <2> QED
      BY <1>4, <2>1, FS_UNION
  <1>6. Unlooked = UNION Parts
    BY DEF Unlooked, Of
  <1> QED
    BY <1>1, <1>2, <1>5, <1>6, FS_Subset

LEMMA CountingStep ==
    ASSUME ConfigInv, StepCounts
    PROVE  Budget' < Budget
  <1> DEFINE Lower(x, y) == x \in Nat /\ y \in Nat /\ x <= y
  <1>1. /\ Lower(Cardinality(todo'), Cardinality(todo))
        /\ (todo' # todo => Cardinality(todo') < Cardinality(todo))
    BY BudgetIsFinite, FewerLeft DEF StepCounts, NothingGrows
  <1>2. /\ Lower(Cardinality(Unvisited'), Cardinality(Unvisited))
        /\ (Unvisited' # Unvisited => Cardinality(Unvisited') < Cardinality(Unvisited))
    BY BudgetIsFinite, FewerLeft DEF StepCounts, NothingGrows
  <1>3. /\ Lower(Cardinality(Unfinished'), Cardinality(Unfinished))
        /\ (Unfinished' # Unfinished => Cardinality(Unfinished') < Cardinality(Unfinished))
    BY BudgetIsFinite, FewerLeft DEF StepCounts, NothingGrows
  <1>4. /\ Lower(Cardinality(Unlooked'), Cardinality(Unlooked))
        /\ (Unlooked' # Unlooked => Cardinality(Unlooked') < Cardinality(Unlooked))
    BY BudgetIsFinite, FewerLeft DEF StepCounts, NothingGrows
  <1>5. /\ Lower(Cardinality(Unwalked'), Cardinality(Unwalked))
        /\ (Unwalked' # Unwalked => Cardinality(Unwalked') < Cardinality(Unwalked))
    BY BudgetIsFinite, FewerLeft DEF StepCounts, NothingGrows
  <1>6. Stage \in Nat /\ Stage' \in Nat /\ Stage' <= Stage /\ (Stage' < Stage \/ SomethingShrinks)
    BY StageType DEF StepCounts, Stage
  <1> QED
    BY <1>1, <1>2, <1>3, <1>4, <1>5, <1>6 DEF Budget, SomethingShrinks

(* What is not passed, read at a position.                                 *)
Waits(j, i) ==
    /\ i \in DOMAIN config.jobs[j].dependsOn
    /\ \/ state[j] = "unvisited"
       \/ \E k \in DOMAIN stack : stack[k].job = j /\ stack[k].at <= i

(* What the search does not set aside it has not gained.                   *)
LEMMA UnlookedKept ==
    ASSUME config' = config,
           \A j \in Jobs : \A i : Waits(j, i)' => Waits(j, i)
    PROVE  Unlooked' \subseteq Unlooked
  <1>1. Jobs' = Jobs
    BY DEF Jobs
  <1>2. \A j \in Jobs : NotPassed(j)' \subseteq NotPassed(j)
    BY DEF NotPassed, Waits
  <1> QED
    BY <1>1, <1>2 DEF Unlooked

(* A step that leaves the search alone.                                    *)
LEMMA StillSearch ==
    ASSUME UNCHANGED <<config, searchVars>>
    PROVE  UNCHANGED <<Unvisited, Unfinished, Unlooked>>
  <1>1. Jobs' = Jobs /\ state' = state /\ stack' = stack /\ config' = config
    BY DEF searchVars, Jobs
  <1>2. Unvisited' = Unvisited /\ Unfinished' = Unfinished
    BY <1>1 DEF Unvisited, Unfinished
  <1>3. \A j : NotPassed(j)' = NotPassed(j)
    BY <1>1 DEF NotPassed
  <1>4. Unlooked' = Unlooked
    BY <1>1, <1>3 DEF Unlooked
  <1> QED
    BY <1>2, <1>4

LEMMA ValidateCounts ==
    ASSUME ConfigInv, Validate
    PROVE  StepCounts
  <1>1. UNCHANGED <<config, searchVars, path>>
    BY DEF Validate, CheckPipeline, CheckJob, StartSearch, GoTo, pathVars
  <1>2. UNCHANGED <<Unvisited, Unfinished, Unlooked, Unwalked>>
    BY <1>1, StillSearch DEF Unwalked, Jobs
  <1>3. CASE CheckPipeline \/ StartSearch
    <2>1. /\ todo' = todo
          /\ \/ pc = "start" /\ pc' \in {"noName", "noJobs", "jobs"}
             \/ pc = "jobs" /\ pc' = "search"
      BY <1>3 DEF CheckPipeline, StartSearch, GoTo
    <2>2. Stage' < Stage /\ Stage' <= Stage
      BY <2>1 DEF Stage
    <2> QED
      BY <1>2, <2>1, <2>2 DEF StepCounts, NothingGrows
  <1>4. ASSUME NEW j \in Jobs, CheckJob(j)
        PROVE  StepCounts
    <2>1. CASE Complaint(j) = "none"
      <3>1. /\ pc = "jobs" /\ pc' = "jobs" /\ todo' = todo \ {j} /\ j \in todo
        BY <1>4, <2>1 DEF CheckJob, GoTo
      <3>2. Stage' = Stage /\ Stage \in Nat
        BY <3>1 DEF Stage
      <3> QED
        BY <1>2, <3>1, <3>2 DEF StepCounts, NothingGrows, SomethingShrinks
    <2>2. CASE Complaint(j) # "none"
      <3>1. Complaint(j) \in {"noImage", "noSteps", "duplicateStep", "noRun", "unknownDep"}
        BY <2>2 DEF Complaint, StepComplaint
      <3>2. pc = "jobs" /\ pc' = Complaint(j) /\ todo' = todo
        BY <1>4, <2>2 DEF CheckJob, GoTo
      <3>3. Stage' < Stage /\ Stage' <= Stage
        BY <3>1, <3>2 DEF Stage
      <3> QED
        BY <1>2, <3>2, <3>3 DEF StepCounts, NothingGrows
    <2> QED
      BY <2>1, <2>2
  <1> QED
    BY <1>3, <1>4 DEF Validate

(* A step of the search that sees one more job, finishes one or passes a   *)
(* position, whatever it does to the stack.                                *)
LEMMA SearchStepCounts ==
    ASSUME UNCHANGED <<config, pc, todo, path>>,
           Unvisited' \subseteq Unvisited, Unfinished' \subseteq Unfinished,
           Unlooked' \subseteq Unlooked,
           Unvisited' # Unvisited \/ Unfinished' # Unfinished \/ Unlooked' # Unlooked
    PROVE  StepCounts
  <1>1. Unwalked' = Unwalked /\ Stage' = Stage /\ Stage \in Nat
    BY DEF Unwalked, Stage, Jobs
  <1> QED
    BY <1>1 DEF StepCounts, NothingGrows, SomethingShrinks

LEMMA CallCounts ==
    ASSUME ConfigInv, NEW j \in Jobs, state[j] = "unvisited", Call(j),
           UNCHANGED <<config, pc, todo, path>>
    PROVE  StepCounts
  <1>1. /\ state' = [state EXCEPT ![j] = "inStack"]
        /\ stack' = Append(stack, [job |-> j, at |-> 1])
        /\ state \in [Jobs -> {"unvisited", "inStack", "visited"}] /\ Jobs' = Jobs
    BY DEF Call, ConfigInv, Jobs
  <1>2. Unvisited' \subseteq Unvisited /\ Unvisited' # Unvisited /\ Unfinished' \subseteq Unfinished
    BY <1>1 DEF Unvisited, Unfinished
  <1>3. /\ Depth \in Nat /\ DOMAIN stack = 1 .. Depth /\ DOMAIN stack' = 1 .. Depth + 1
        /\ stack'[Depth + 1].job = j
        /\ \A k \in 1 .. Depth : stack'[k] = stack[k]
    BY <1>1, ChainTyped DEF Depth
  <1>4. ASSUME NEW l \in Jobs, NEW i, Waits(l, i)'
        PROVE  Waits(l, i)
    <2>1. i \in DOMAIN config.jobs[l].dependsOn
      BY <1>4 DEF Waits
    <2>2. CASE l = j
      BY <2>1, <2>2 DEF Waits
    <2>3. CASE state'[l] = "unvisited"
      <3>1. state[l] = "unvisited"
        BY <1>1, <2>3
      <3> QED
        BY <2>1, <3>1 DEF Waits
    <2>4. CASE l # j /\ state'[l] # "unvisited"
      <3>1. PICK k \in 1 .. Depth + 1 : stack'[k].job = l /\ stack'[k].at <= i
        BY <1>3, <1>4, <2>4 DEF Waits
      <3>2. k \in 1 .. Depth
        BY <1>3, <2>4, <3>1
      <3> QED
        BY <1>3, <2>1, <3>1, <3>2 DEF Waits
    <2> QED
      BY <2>2, <2>3, <2>4
  <1>5. Unlooked' \subseteq Unlooked
    BY <1>4, UnlookedKept
  <1> QED
    BY <1>2, <1>5, SearchStepCounts

(* Calls that stay on the stack, their loops where they were or further.   *)
LEMMA MovingOnKeeps ==
    ASSUME ConfigInv, config' = config, NEW m \in Nat, m <= Depth,
           DOMAIN stack' = 1 .. m,
           \A k \in 1 .. m : stack'[k].job = stack[k].job,
           \A k \in 1 .. m : stack'[k].at \in {stack[k].at, stack[k].at + 1},
           \A j \in Jobs : state'[j] = "unvisited" => state[j] = "unvisited"
    PROVE  Unlooked' \subseteq Unlooked
  <1>1. ASSUME NEW j \in Jobs, NEW i, Waits(j, i)'
        PROVE  Waits(j, i)
    <2>1. i \in DOMAIN config.jobs[j].dependsOn
      BY <1>1 DEF Waits
    <2>2. CASE state'[j] = "unvisited"
      BY <2>1, <2>2 DEF Waits
    <2>3. CASE state'[j] # "unvisited"
      <3>1. PICK k \in 1 .. m : stack'[k].job = j /\ stack'[k].at <= i
        BY <1>1, <2>3 DEF Waits
      <3>2. Depth \in Nat /\ DOMAIN stack = 1 .. Depth /\ k \in 1 .. Depth /\ stack[k] \in Frames
        BY ChainTyped
      <3>3. config.jobs[j].dependsOn \in Seq(Names)
        BY ConfigFacts, Regroup
      <3>4. i \in Nat /\ stack[k].at \in Nat
        BY <2>1, <3>2, <3>3 DEF Frames
      <3>5. stack[k].at <= i /\ stack[k].job = j
        BY <3>1, <3>4
      <3> QED
        BY <2>1, <3>2, <3>5 DEF Waits
    <2> QED
      BY <2>2, <2>3
  <1> QED
    BY <1>1, UnlookedKept

LEMMA PassByCounts ==
    ASSUME ConfigInv, NEW dep, PassBy(dep)
    PROVE  StepCounts
  <1>1. /\ LookingAt(dep) /\ stack' = Advance(stack)
        /\ UNCHANGED <<config, pc, todo, state, path>>
    BY DEF PassBy, pathVars
  <1>2. /\ Depth \in Nat /\ Depth > 0 /\ stack \in Seq(Frames) /\ DOMAIN stack = 1 .. Depth
        /\ \A k \in 1 .. Depth : stack[k] \in Frames
    BY <1>1, LooksAtDep, ChainTyped
  <1>3. /\ DOMAIN stack' = 1 .. Depth
        /\ \A k \in 1 .. Depth : stack'[k].job = stack[k].job
        /\ \A k \in 1 .. Depth : stack'[k].at = IF k = Depth THEN stack[k].at + 1 ELSE stack[k].at
    BY <1>1, <1>2, AdvanceMoves DEF Depth
  <1>4. Unvisited' = Unvisited /\ Unfinished' = Unfinished /\ Jobs' = Jobs
    BY <1>1 DEF Unvisited, Unfinished, Jobs
  <1>5. Unlooked' \subseteq Unlooked
    <2>1. \A k \in 1 .. Depth : stack'[k].at \in {stack[k].at, stack[k].at + 1}
      BY <1>3
    <2>2. Depth <= Depth
      BY <1>2
    <2> QED
      BY <1>1, <1>2, <1>3, <2>1, <2>2, MovingOnKeeps
  <1>6. Unlooked' # Unlooked
    <2>0. Depth \in 1 .. Depth /\ stack[Depth].job \in Jobs /\ stack[Depth].at \in Nat \ {0}
      BY <1>2 DEF Frames
    <2>1. PICK j \in Jobs, i \in Nat \ {0} : j = stack[Depth].job /\ i = stack[Depth].at
      BY <2>0
    <2>2. Top = stack[Depth] /\ TopDeps = config.jobs[j].dependsOn /\ i <= Len(TopDeps)
      BY <1>1, <2>1 DEF LookingAt, Top, TopDeps, Depth
    <2>3. config.jobs[j].dependsOn \in Seq(Names)
      BY <2>1, ConfigFacts, Regroup
    <2>4. i \in DOMAIN config.jobs[j].dependsOn /\ i <= i
      BY <2>1, <2>2, <2>3
    <2>5. i \in NotPassed(j)
      BY <1>2, <2>0, <2>1, <2>4 DEF NotPassed
    <2>6. /\ state[j] = "inStack"
          /\ \A k \in 1 .. Depth : stack[k].job = j => k = Depth
      <3>1. \A k \in 1 .. Depth : Chain[k] = stack[k].job
        BY ChainTyped
      <3> QED
        BY <2>0, <2>1, <3>1, ChainIsPath
    <2>7. ~(i + 1 <= i)
      BY <2>1
    <2>8. i \notin NotPassed(j)'
      <3>1. state'[j] # "unvisited"
        BY <1>1, <2>6
      <3>2. \A k \in DOMAIN stack' : stack'[k].job = j => stack'[k].at = i + 1
        BY <1>3, <2>1, <2>6
      <3> QED
        BY <2>7, <3>1, <3>2 DEF NotPassed
    <2>9. <<j, i>> \in Unlooked /\ <<j, i>> \notin Unlooked'
      BY <1>4, <2>1, <2>5, <2>8 DEF Unlooked
    <2> QED
      BY <2>9
  <1> QED
    BY <1>1, <1>4, <1>5, <1>6, SearchStepCounts

LEMMA ReturnCounts ==
    ASSUME ConfigInv, Return
    PROVE  StepCounts
  <1> DEFINE n     == Depth - 1
             front == SubSeq(stack, 1, n)
  <1>1. /\ pc = "search" /\ UNCHANGED <<config, pc, todo, path>> /\ stack # <<>>
        /\ stack' = Advance(front) /\ Top = stack[Depth]
        /\ state' = [state EXCEPT ![Top.job] = "visited"]
    BY DEF Return, Front, Depth, Top, pathVars
  <1>2. /\ n \in Nat /\ n <= Depth /\ \A k \in 1 .. n : stack[k] \in Frames
        /\ Depth \in 1 .. Depth /\ Chain[Depth] = Top.job /\ Top.job \in Jobs
    BY <1>1, ChainTyped
  <1>3. state[Top.job] = "inStack" /\ state \in [Jobs -> {"unvisited", "inStack", "visited"}]
    BY <1>2, ChainIsPath DEF ConfigInv
  <1> HIDE DEF n
  <1>4. /\ front \in Seq(Frames) /\ Len(front) = n
        /\ \A k \in 1 .. n : front[k] = stack[k]
    <2>1. /\ front \in Seq(Frames) /\ Len(front) = IF 1 <= n THEN n - 1 + 1 ELSE 0
          /\ \A k \in 1 .. n - 1 + 1 : front[k] = stack[1 + k - 1]
      BY <1>2, SubSeqProperties
    <2> QED
      BY <1>2, <2>1
  <1> HIDE DEF front
  <1>5. /\ DOMAIN stack' = 1 .. n
        /\ \A k \in 1 .. n : stack'[k].job = stack[k].job
        /\ \A k \in 1 .. n : stack'[k].at \in {stack[k].at, stack[k].at + 1}
    BY <1>1, <1>4, AdvanceMoves
  <1>6. Unfinished' \subseteq Unfinished /\ Unfinished' # Unfinished /\ Unvisited' \subseteq Unvisited
    <2>1. Jobs' = Jobs
      BY <1>1 DEF Jobs
    <2> QED
      BY <1>1, <1>2, <1>3, <2>1 DEF Unvisited, Unfinished
  <1>7. \A j \in Jobs : state'[j] = "unvisited" => state[j] = "unvisited"
    BY <1>1, <1>2, <1>3
  <1>8. Unlooked' \subseteq Unlooked
    BY <1>1, <1>2, <1>5, <1>7, MovingOnKeeps
  <1> QED
    BY <1>1, <1>6, <1>8, SearchStepCounts

(* No path is begun before a cycle is found.                               *)
PathUnbegun == pc \notin {"rebuild", "cycle"} => path = <<>>

LEMMA PathIsUnbegun == Spec => []PathUnbegun
  <1>1. Init => PathUnbegun
    BY DEF Init, PathUnbegun
  <1>2. PathUnbegun /\ [Next]_vars => PathUnbegun'
    <2> SUFFICES ASSUME PathUnbegun, [Next]_vars PROVE PathUnbegun'
      OBVIOUS
    <2>1. CASE Validate
      <3>1. path' = path /\ pc \in {"start", "jobs"}
        BY <2>1 DEF Validate, CheckPipeline, CheckJob, StartSearch, GoTo, pathVars
      <3> QED
        BY <3>1 DEF PathUnbegun
    <2>2. CASE DetectCycles
      BY <2>2 DEF PathUnbegun, DetectCycles, Return, Rebuild, Report, Accept, Root, Descend, PassBy,
                  CloseCycle, LookingAt, GoTo, pathVars
    <2>3. CASE NewPipelineFromConfig \/ UNCHANGED vars
      BY <2>3 DEF PathUnbegun, NewPipelineFromConfig, vars, pathVars
    <2> QED
      BY <2>1, <2>2, <2>3 DEF Next, Finished
  <1> QED
    BY <1>1, <1>2, PTL DEF Spec

(* The rebuilding loop goes to a job that is not in the path.              *)
LEMMA RebuildCounts ==
    ASSUME PathInv, Rebuild
    PROVE  StepCounts
  <1>1. /\ pc = "rebuild" /\ UNCHANGED <<config, searchVars, pc, todo>>
        /\ path' = Append(path, parent[cur]) /\ cur # path[1] /\ parent[cur] # path[1]
    BY DEF Rebuild, AtCycleStart
  <1>2. PICK c, m : IsCycle(c) /\ Rebuilding(c, m)
    BY <1>1 DEF PathInv
  <1> DEFINE n == Len(c)
             l == n - m + 2
             next == parent[cur]
  <1>3. /\ n \in Nat /\ m \in 1 .. n /\ c \in Seq(Jobs) /\ cur = c[m] /\ path[1] = c[1]
        /\ \A i, k \in 1 .. n : c[i] = c[k] => i = k
    BY <1>2 DEF IsCycle, Rebuilding
  <1>4. m - 1 \in 1 .. n /\ m - 1 \in 1 .. n - 1 /\ (m - 1) + 1 = m
    BY <1>1, <1>3
  <1>5. next = c[m - 1] /\ next \in Jobs
    <2>1. parent[c[(m - 1) + 1]] = c[m - 1]
      BY <1>2, <1>4 DEF IsCycle
    <2>2. c[m - 1] \in Jobs
      BY <1>3, <1>4
    <2> QED
      BY <1>3, <1>4, <2>1, <2>2
  <1>6. path = [k \in 1 .. l |-> IF k = 1 THEN c[1] ELSE c[n + 2 - k]] /\ l \in Nat /\ l > 0
    BY <1>2, <1>3 DEF Rebuilding
  <1>7. \A k \in 1 .. l : path[k] # next
    <2> SUFFICES ASSUME NEW k \in 1 .. l PROVE path[k] # next
      OBVIOUS
    <2>1. CASE k = 1
      BY <1>1, <2>1
    <2>2. CASE k # 1
      <3>1. path[k] = c[n + 2 - k] /\ n + 2 - k \in 1 .. n /\ n + 2 - k # m - 1
        BY <1>3, <1>6, <2>2
      <3> QED
        BY <1>3, <1>4, <1>5, <3>1
    <2> QED
      BY <2>1, <2>2
  <1> HIDE DEF l, next
  <1>8. DOMAIN path = 1 .. l /\ path \in Seq({c[i] : i \in Int} \cup {next}) /\ Len(path) = l
    <2>1. \A k \in 1 .. l : path[k] \in {c[i] : i \in Int}
      BY <1>3, <1>6
    <2> QED
      BY <1>6, <2>1
  <1>9. /\ DOMAIN path' = 1 .. l + 1 /\ path'[l + 1] = next
        /\ \A k \in 1 .. l : path'[k] = path[k]
    <2>1. path' = Append(path, next)
      BY <1>1 DEF next
    <2> QED
      BY <1>6, <1>8, <2>1
  <1>10. Unwalked' \subseteq Unwalked /\ next \in Unwalked /\ next \notin Unwalked'
    <2>1. (\A k \in 1 .. l : k \in 1 .. l + 1) /\ l + 1 \in 1 .. l + 1 /\ Jobs' = Jobs
      BY <1>1, <1>6 DEF Jobs
    <2>2. {path[k] : k \in DOMAIN path} \subseteq {path'[k] : k \in DOMAIN path'}
      BY <1>8, <1>9, <2>1
    <2>3. next \in {path'[k] : k \in DOMAIN path'} /\ next \notin {path[k] : k \in DOMAIN path}
      BY <1>7, <1>8, <1>9, <2>1
    <2> QED
      BY <1>5, <2>1, <2>2, <2>3 DEF Unwalked
  <1>11. UNCHANGED <<Unvisited, Unfinished, Unlooked>> /\ Stage' = Stage /\ Stage \in Nat
    BY <1>1, StillSearch DEF Stage
  <1> QED
    BY <1>1, <1>10, <1>11 DEF StepCounts, NothingGrows, SomethingShrinks

(* The report has all the jobs of the path it reverses.                    *)
LEMMA ReportCounts ==
    ASSUME PathInv, Report
    PROVE  StepCounts
  <1>1. /\ pc = "rebuild" /\ pc' = "cycle" /\ path' = Reverse(path)
        /\ UNCHANGED <<config, searchVars, todo>>
    BY DEF Report
  <1>2. PICK c, m : IsCycle(c) /\ Rebuilding(c, m)
    BY <1>1 DEF PathInv
  <1>3. PICK l \in Nat : DOMAIN path = 1 .. l /\ Len(path) = l
    <2>1. Len(c) \in Nat /\ m \in 1 .. Len(c)
      BY <1>2 DEF IsCycle, Rebuilding
    <2>2. Len(c) - m + 2 \in Nat
      BY <2>1
    <2>3. DOMAIN path = 1 .. Len(c) - m + 2 /\ Len(path) = Len(c) - m + 2
      BY <1>2, <2>2 DEF Rebuilding
    <2> QED
      BY <2>2, <2>3
  <1>4. path' = [i \in 1 .. Len(path) |-> path[(Len(path) - i) + 1]]
    BY <1>1, Zenon DEF Reverse
  <1>5. ASSUME NEW k \in 1 .. l
        PROVE  \E i \in DOMAIN path' : path'[i] = path[k]
    <2> DEFINE i == l + 1 - k
    <2>1. i \in 1 .. l /\ (l - i) + 1 = k
      BY <1>3
    <2> HIDE DEF i
    <2>2. i \in DOMAIN path' /\ path'[i] = path[(l - i) + 1]
      BY <1>3, <1>4, <2>1
    <2> QED
      BY <2>1, <2>2
  <1>6. Unwalked' \subseteq Unwalked
    BY <1>1, <1>3, <1>5 DEF Unwalked, Jobs
  <1>7. /\ UNCHANGED <<Unvisited, Unfinished, Unlooked, todo>>
        /\ Stage' < Stage /\ Stage' <= Stage
    BY <1>1, StillSearch DEF Stage
  <1> QED
    BY <1>6, <1>7 DEF StepCounts, NothingGrows

LEMMA ClosingCounts ==
    ASSUME PathUnbegun, NEW j, CloseCycle(j) \/ Accept \/ NewPipelineFromConfig
    PROVE  StepCounts
  <1>1. /\ UNCHANGED <<config, searchVars, todo>>
        /\ \/ pc = "search" /\ pc' \in {"rebuild", "accepted"}
           \/ pc = "accepted" /\ pc' = "converted"
    BY DEF CloseCycle, LookingAt, Accept, NewPipelineFromConfig, GoTo
  <1>2. path = <<>>
    BY <1>1 DEF PathUnbegun
  <1>3. Unwalked' \subseteq Unwalked
    BY <1>1, <1>2 DEF Unwalked, Jobs
  <1>4. /\ UNCHANGED <<Unvisited, Unfinished, Unlooked, todo>>
        /\ Stage' < Stage /\ Stage' <= Stage
    BY <1>1, StillSearch DEF Stage
  <1> QED
    BY <1>3, <1>4 DEF StepCounts, NothingGrows

(* Every step of Validate takes something off what is before it: it makes  *)
(* at most 4 + 4n + e of them for n jobs and e entries in depends_on,      *)
(* whatever the configuration and the order of its map; all that           *)
(* Termination adds is that a step is taken while one can be.              *)
THEOREM ValidateRunsDown == Spec => [](Budget \in Nat) /\ EveryStepCounts
  <1> DEFINE Counts == NothingGrows /\ Budget' < Budget
  <1>1. ConfigInv /\ PathInv /\ PathUnbegun /\ [Next]_vars => [Counts]_vars
    <2> SUFFICES ASSUME ConfigInv, PathInv, PathUnbegun, Next, ~UNCHANGED vars
                 PROVE  StepCounts
      BY CountingStep DEF StepCounts
    <2>1. CASE Validate
      BY <2>1, ValidateCounts
    <2>2. ASSUME NEW j \in Jobs, Root(j) \/ Descend(j)
          PROVE  StepCounts
      <3>1. /\ Call(j) /\ state[j] = "unvisited" /\ UNCHANGED <<config, pc, todo, path>>
        BY <2>2 DEF Root, Descend, Unvisited, pathVars
      <3> QED
        BY <3>1, CallCounts
    <2>3. ASSUME NEW j \in Jobs, PassBy(j) \/ CloseCycle(j)
          PROVE  StepCounts
      BY <2>3, PassByCounts, ClosingCounts
    <2>4. CASE Return \/ Rebuild \/ Report
      BY <2>4, ReturnCounts, RebuildCounts, ReportCounts
    <2>5. CASE Accept \/ NewPipelineFromConfig
      BY <2>5, ClosingCounts
    <2> QED
      BY <2>1, <2>2, <2>3, <2>4, <2>5 DEF Next, DetectCycles, Finished
  <1>2. [Counts]_vars => [/\ todo' \subseteq todo /\ Unvisited' \subseteq Unvisited
                          /\ Unfinished' \subseteq Unfinished /\ Unlooked' \subseteq Unlooked
                          /\ Unwalked' \subseteq Unwalked
                          /\ Budget' < Budget]_vars
    BY DEF NothingGrows
  <1>3. ConfigInv => Budget \in Nat
    BY BudgetIsFinite, FS_CardinalityType, StageType DEF Budget
  <1> QED
    BY ConfigInvariant, PathInvariant, PathIsUnbegun, <1>1, <1>2, <1>3, PTL DEF Spec, EveryStepCounts
=============================================================================
