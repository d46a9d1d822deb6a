---------------------------- MODULE OfficeProofs ----------------------------
(***************************************************************************)
(* Proofs about the company's work, its people and its money, for any      *)
(* constants: tasks, the planning cycle, hiring, reviews, the chart, the   *)
(* day, production, purchases and spending, each by itself.                *)
(*                                                                         *)
(* However dependencies are added, removed and planned, no task ever waits *)
(* for itself.  That b is not reached from a is shown by a set that holds  *)
(* what a depends on, is closed under the edges, and leaves b out.  The    *)
(* sets used are built from From(E, a), everything that a reaches.         *)
(*                                                                         *)
(* Each part has an invariant ...Inv; ...Start shows that it holds at      *)
(* first, lemmas named for an action that the action keeps it, ...Step     *)
(* that any step does, and ...Shows what follows from it.                  *)
(***************************************************************************)
EXTENDS TaskGraph, PlanningCycle, Hiring, Reviews, OrgChart, DayRoutine, Production,
        Purchases, Spending, SearchProofs

-----------------------------------------------------------------------------
(* The graph of tasks.                                                     *)

Edges == SUBSET (Tasks \X Tasks)
From(E, a) == {y \in Tasks : Reaches(E, a, y)}
NoCircle(E) == \A x \in Tasks : ~Reaches(E, x, x)

-----------------------------------------------------------------------------
(* What is reached.                                                        *)

\* What a task reaches is closed under the edges and holds what it depends on.
LEMMA FromIsClosed ==
  ASSUME NEW E \in Edges, NEW a \in Tasks
  PROVE  /\ Closed(E, From(E, a))
         /\ \A y \in Tasks : <<a, y>> \in E => y \in From(E, a)
<1>1. ASSUME NEW d \in E, d[1] \in From(E, a)  PROVE d[2] \in From(E, a)
  <2>1. d[1] \in Tasks /\ d[2] \in Tasks
    BY DEF Edges
  <2>2. ASSUME NEW S \in SUBSET Tasks, Closed(E, S), \A t \in Tasks : <<a, t>> \in E => t \in S
        PROVE  d[2] \in S
    <3>1. d[1] \in S
      BY <1>1, <2>1, <2>2 DEF From, Reaches
    <3> QED  BY <3>1, <2>2 DEF Closed
  <2> QED  BY <2>1, <2>2 DEF From, Reaches
<1>2. ASSUME NEW y \in Tasks, <<a, y>> \in E  PROVE y \in From(E, a)
  BY <1>2 DEF From, Reaches
<1> QED  BY <1>1, <1>2 DEF Closed

\* A set that holds what a depends on, is closed and leaves b out shows that a
\* does not reach b.
LEMMA LeftOut ==
  ASSUME NEW E, NEW a, NEW b, NEW S \in SUBSET Tasks,
         Closed(E, S), \A t \in Tasks : <<a, t>> \in E => t \in S, b \notin S
  PROVE  ~Reaches(E, a, b)
BY DEF Reaches

\* Reaching is transitive.
LEMMA ReachesOn ==
  ASSUME NEW E \in Edges, NEW a \in Tasks, NEW b \in Tasks, NEW c \in Tasks,
         Reaches(E, a, b), Reaches(E, b, c)
  PROVE  Reaches(E, a, c)
<1> SUFFICES ASSUME NEW S \in SUBSET Tasks, Closed(E, S),
                    \A t \in Tasks : <<a, t>> \in E => t \in S
             PROVE  c \in S
  BY DEF Reaches
<1>1. b \in S
  BY DEF Reaches
<1>2. \A t \in Tasks : <<b, t>> \in E => t \in S
  BY <1>1 DEF Closed
<1> QED  BY <1>2 DEF Reaches

-----------------------------------------------------------------------------
(* The three ways the graph changes.                                       *)

\* An edge that add_dependency_in allows closes no cycle.
LEMMA AllowedEdge ==
  ASSUME NEW E \in Edges, NEW t \in Tasks, NEW p \in Tasks, NoCircle(E), MayDepend(E, t, p)
  PROVE  NoCircle(E \union {<<t, p>>})
<1> DEFINE F == E \union {<<t, p>>}
<1> SUFFICES ASSUME NEW x \in Tasks  PROVE ~Reaches(F, x, x)
  BY DEF NoCircle
<1>1. /\ Closed(E, From(E, x)) /\ Closed(E, From(E, p))
      /\ \A y \in Tasks : <<x, y>> \in E => y \in From(E, x)
      /\ \A y \in Tasks : <<p, y>> \in E => y \in From(E, p)
  BY FromIsClosed
<1>2. x \notin From(E, x) /\ From(E, x) \in SUBSET Tasks /\ From(E, p) \in SUBSET Tasks
  BY DEF NoCircle, From
<1>3. CASE x # t /\ t \notin From(E, x)
  <2>1. Closed(F, From(E, x))
    BY <1>1, <1>3 DEF Closed
  <2>2. \A y \in Tasks : <<x, y>> \in F => y \in From(E, x)
    BY <1>1, <1>3
  <2> HIDE DEF F
  <2> QED  BY <2>1, <2>2, <1>2, LeftOut
<1>4. CASE x = t \/ t \in From(E, x)
  <2> DEFINE S == From(E, x) \union From(E, p) \union {p}
  <2>1. x # p
    BY <1>4 DEF MayDepend, From
  <2>2. x \notin From(E, p)
    BY <1>4, ReachesOn DEF MayDepend, From
  <2>3. Closed(F, S)
    <3> SUFFICES ASSUME NEW d \in F, d[1] \in S  PROVE d[2] \in S
      BY DEF Closed
    <3>1. CASE d = <<t, p>>
      BY <3>1
    <3>2. CASE d \in E
      <4>1. d = <<d[1], d[2]>> /\ d[1] \in Tasks /\ d[2] \in Tasks
        BY <3>2 DEF Edges
      <4> QED  BY <1>1, <3>2, <4>1 DEF Closed
    <3> QED  BY <3>1, <3>2
  <2>4. \A y \in Tasks : <<x, y>> \in F => y \in S
    BY <1>1
  <2>5. S \in SUBSET Tasks /\ x \notin S
    BY <1>2, <2>1, <2>2
  <2> HIDE DEF F, S
  <2> QED  BY <2>3, <2>4, <2>5, LeftOut
<1> QED  BY <1>3, <1>4

\* Fewer edges close no cycle.
LEMMA FewerEdges ==
  ASSUME NEW E \in Edges, NEW F \in SUBSET E, NoCircle(E)
  PROVE  NoCircle(F)
<1> SUFFICES ASSUME NEW x \in Tasks  PROVE ~Reaches(F, x, x)
  BY DEF NoCircle
<1>1. Closed(E, From(E, x)) /\ \A y \in Tasks : <<x, y>> \in E => y \in From(E, x)
  BY FromIsClosed
<1>2. Closed(F, From(E, x)) /\ \A y \in Tasks : <<x, y>> \in F => y \in From(E, x)
  BY <1>1 DEF Closed
<1>3. From(E, x) \in SUBSET Tasks /\ x \notin From(E, x)
  BY DEF NoCircle, From
<1> QED  BY <1>2, <1>3, LeftOut

\* A plan's dependencies, each allowed beside the others, close no cycle: what a
\* task reaches is what its prerequisites reach without the edge to them.
LEMMA PlannedEdges ==
  ASSUME NEW N \in Edges, \A d \in N : MayDepend(N \ {d}, d[1], d[2])
  PROVE  NoCircle(N)
<1> SUFFICES ASSUME NEW x \in Tasks  PROVE ~Reaches(N, x, x)
  BY DEF NoCircle
<1> DEFINE Next1 == {p \in Tasks : <<x, p>> \in N}
           Beyond(p) == From(N \ {<<x, p>>}, p)
           S == Next1 \union UNION {Beyond(p) : p \in Next1}
<1>1. ASSUME NEW p \in Next1
      PROVE  /\ p # x /\ x \notin Beyond(p) /\ Beyond(p) \in SUBSET Tasks
             /\ Closed(N, Beyond(p))
             /\ \A y \in Tasks : <<p, y>> \in N => y \in Beyond(p)
  <2>1. MayDepend(N \ {<<x, p>>}, x, p)
    <3>1. <<x, p>> \in N /\ <<x, p>>[1] = x /\ <<x, p>>[2] = p
      OBVIOUS
    <3> QED  BY <3>1
  <2>2. p # x /\ x \notin Beyond(p) /\ Beyond(p) \in SUBSET Tasks
    BY <2>1 DEF MayDepend, From
  <2>3. N \ {<<x, p>>} \in Edges /\ p \in Tasks
    BY DEF Edges
  <2>4. /\ Closed(N \ {<<x, p>>}, Beyond(p))
        /\ \A y \in Tasks : <<p, y>> \in N \ {<<x, p>>} => y \in Beyond(p)
    BY <2>3, FromIsClosed
  <2>5. Closed(N, Beyond(p))
    BY <2>2, <2>4 DEF Closed
  <2>6. \A y \in Tasks : <<p, y>> \in N => y \in Beyond(p)
    BY <2>2, <2>4
  <2> QED  BY <2>2, <2>5, <2>6
<1>2. Closed(N, S)
  <2> SUFFICES ASSUME NEW d \in N, d[1] \in S  PROVE d[2] \in S
    BY DEF Closed
  <2>1. d = <<d[1], d[2]>> /\ d[1] \in Tasks /\ d[2] \in Tasks
    BY DEF Edges
  <2>2. PICK p \in Next1 : d[1] = p \/ d[1] \in Beyond(p)
    OBVIOUS
  <2>3. d[2] \in Beyond(p)
    <3> HIDE DEF Beyond, Next1
    <3>1. CASE d[1] = p
      <4>1. <<p, d[2]>> \in N
        BY <2>1, <3>1
      <4> QED  BY <4>1, <2>1, <1>1
    <3>2. CASE d[1] \in Beyond(p)
      BY <3>2, <1>1 DEF Closed
    <3> QED  BY <2>2, <3>1, <3>2
  <2> QED  BY <2>3
<1>3. \A y \in Tasks : <<x, y>> \in N => y \in S
  OBVIOUS
<1>4. S \in SUBSET Tasks /\ x \notin S
  BY <1>1
<1> HIDE DEF S
<1> QED  BY <1>2, <1>3, <1>4, LeftOut

\* Two graphs without a cycle have none together when no task is in both.
LEMMA GraphsApart ==
  ASSUME NEW A \in SUBSET Tasks, NEW B \in SUBSET Tasks, A \cap B = {},
         NEW E \in SUBSET (A \X A), NEW N \in SUBSET (B \X B), NoCircle(E), NoCircle(N)
  PROVE  NoCircle(E \union N)
<1> DEFINE F == E \union N
<1> SUFFICES ASSUME NEW x \in Tasks  PROVE ~Reaches(F, x, x)
  BY DEF NoCircle
<1>1. E \in Edges /\ N \in Edges
  BY DEF Edges
<1>2. /\ Closed(E, From(E, x)) /\ \A y \in Tasks : <<x, y>> \in E => y \in From(E, x)
      /\ Closed(N, From(N, x)) /\ \A y \in Tasks : <<x, y>> \in N => y \in From(N, x)
  BY <1>1, FromIsClosed
<1>3. /\ x \notin From(E, x) /\ x \notin From(N, x)
      /\ From(E, x) \in SUBSET Tasks /\ From(N, x) \in SUBSET Tasks
  BY DEF NoCircle, From
<1>4. CASE x \in B
  <2> DEFINE S == From(N, x) \cap B
  <2>1. Closed(F, S)
    BY <1>2 DEF Closed
  <2>2. \A y \in Tasks : <<x, y>> \in F => y \in S
    BY <1>2, <1>4
  <2>3. S \in SUBSET Tasks /\ x \notin S
    BY <1>3
  <2> HIDE DEF F, S
  <2> QED  BY <2>1, <2>2, <2>3, LeftOut
<1>5. CASE x \notin B
  <2> DEFINE S == From(E, x) \cap A
  <2>1. Closed(F, S)
    BY <1>2 DEF Closed
  <2>2. \A y \in Tasks : <<x, y>> \in F => y \in S
    BY <1>2, <1>5
  <2>3. S \in SUBSET Tasks /\ x \notin S
    BY <1>3
  <2> HIDE DEF F, S
  <2> QED  BY <2>1, <2>2, <2>3, LeftOut
<1> QED  BY <1>4, <1>5

-----------------------------------------------------------------------------
(* Types.                                                                  *)

\* One step keeps every row in its type, and no task that exists disappears.
LEMMA TypeStep ==
  ASSUME GraphTypeOK, [GraphNext]_graphVars
  PROVE  GraphTypeOK' /\ Exists \subseteq Exists'
<1> USE TaskGraphAssumption DEF GraphTypeOK, Exists, OpenTasks, Statuses, CLOSED_STATUSES
<1>1. ASSUME NEW t \in Tasks, CompleteTask(t)  PROVE GraphTypeOK' /\ Exists \subseteq Exists'
  BY <1>1 DEF CompleteTask, CloseFollowups
<1>2. ASSUME NEW t \in Tasks, ScheduleTask(t)  PROVE GraphTypeOK' /\ Exists \subseteq Exists'
  BY <1>2 DEF ScheduleTask
<1>3. ASSUME NEW t \in Tasks, NEW p \in Projects \union {NoProject}, CreateTask(t, p)
      PROVE  GraphTypeOK' /\ Exists \subseteq Exists'
  BY <1>3 DEF CreateTask
<1>4. ASSUME NEW t \in Tasks, NEW s \in Updatable, UpdateTask(t, s)
      PROVE  GraphTypeOK' /\ Exists \subseteq Exists'
  BY <1>4 DEF UpdateTask, CloseFollowups
<1>5. ASSUME NEW t \in Tasks, NEW p \in Tasks, AddDependency(t, p)
      PROVE  GraphTypeOK' /\ Exists \subseteq Exists'
  BY <1>5 DEF AddDependency
<1>6. ASSUME NEW t \in Tasks, NEW p \in Tasks, RemoveDependency(t, p)
      PROVE  GraphTypeOK' /\ Exists \subseteq Exists'
  BY <1>6 DEF RemoveDependency
<1>7. ASSUME NEW p \in Projects, NEW s \in {"planned", "started"}, CreateProject(p, s)
      PROVE  GraphTypeOK' /\ Exists \subseteq Exists'
  BY <1>7 DEF CreateProject
<1>8. ASSUME NEW p \in Projects, NEW s \in {"planned", "started"}, UpdateProject(p, s)
      PROVE  GraphTypeOK' /\ Exists \subseteq Exists'
  BY <1>8 DEF UpdateProject
<1>9. ASSUME NEW p \in Projects, NEW new \in SUBSET Tasks, NEW needs \in SUBSET (new \X new),
             NEW s \in {"planned", "started"}, PlanProject(p, new, needs, s)
      PROVE  GraphTypeOK' /\ Exists \subseteq Exists'
  <2>1. /\ project' = [project EXCEPT ![p] = s]
        /\ task' = [t \in Tasks |-> IF t \in new THEN "todo" ELSE task[t]]
        /\ inProject' = [t \in Tasks |-> IF t \in new THEN p ELSE inProject[t]]
        /\ edge' = edge \union needs
        /\ followup' = followup
    BY <1>9 DEF PlanProject
  <2>2. /\ task' \in [Tasks -> Statuses \union {"absent"}]
        /\ inProject' \in [Tasks -> Projects \union {NoProject}]
        /\ project' \in [Projects -> {"absent", "planned", "started"}]
    BY <2>1
  <2>3. Exists' = Exists \union new
    BY <2>1
  <2>4. edge' \subseteq Exists' \X Exists'
    BY <2>1, <2>3
  <2> QED  BY <2>1, <2>2, <2>3, <2>4
<1>10. ASSUME NEW f \in Followups, CreateFollowup(f)
       PROVE  GraphTypeOK' /\ Exists \subseteq Exists'
  BY <1>10 DEF CreateFollowup
<1>11. ASSUME NEW f \in Followups, NEW s \in {"completed", "cancelled"}, CompleteFollowup(f, s)
       PROVE  GraphTypeOK' /\ Exists \subseteq Exists'
  BY <1>11 DEF CompleteFollowup
<1>12. CASE UNCHANGED graphVars
  BY <1>12 DEF graphVars
<1> HIDE TaskGraphAssumption DEF GraphTypeOK, Exists
<1> QED
  BY <1>1, <1>2, <1>3, <1>4, <1>5, <1>6, <1>7, <1>8, <1>9, <1>10, <1>11, <1>12 DEF GraphNext

\* The rows are of their types, and only tasks that exist depend on one another
\* (the foreign keys of task_dependencies), in every reachable state.
THEOREM GraphTypes == GraphSpec => []GraphTypeOK
<1>1. GraphInit => GraphTypeOK
  BY DEF GraphInit, GraphTypeOK, Exists, Statuses
<1>2. GraphTypeOK /\ [GraphNext]_graphVars => GraphTypeOK'
  BY TypeStep
<1> QED  BY <1>1, <1>2, PTL DEF GraphSpec

-----------------------------------------------------------------------------
(* No task waits for itself.                                               *)

\* Every step keeps the graph without a cycle.
LEMMA AcyclicStep ==
  ASSUME GraphTypeOK, NoCircle(edge), [GraphNext]_graphVars
  PROVE  NoCircle(edge')
<1>1. edge \in Edges /\ edge \in SUBSET (Exists \X Exists) /\ Exists \in SUBSET Tasks
  BY DEF GraphTypeOK, Edges, Exists
<1>2. ASSUME NEW t \in Tasks, NEW p \in Tasks, AddDependency(t, p)  PROVE NoCircle(edge')
  BY <1>1, <1>2, AllowedEdge DEF AddDependency
<1>3. ASSUME NEW t \in Tasks, NEW p \in Tasks, RemoveDependency(t, p)  PROVE NoCircle(edge')
  <2>1. edge' \in SUBSET edge
    BY <1>3 DEF RemoveDependency
  <2> QED  BY <1>1, <2>1, FewerEdges
<1>4. ASSUME NEW p \in Projects, NEW new \in SUBSET Tasks, NEW needs \in SUBSET (new \X new),
             NEW s \in {"planned", "started"}, PlanProject(p, new, needs, s)
      PROVE  NoCircle(edge')
  <2>1. /\ new \cap Exists = {} /\ edge' = edge \union needs
        /\ \A d \in needs : MayDepend(needs \ {d}, d[1], d[2])
    BY <1>4 DEF PlanProject
  <2>2. needs \in Edges
    BY DEF Edges
  <2>3. NoCircle(needs)
    BY <2>1, <2>2, PlannedEdges
  <2>4. /\ Exists \in SUBSET Tasks /\ new \in SUBSET Tasks /\ Exists \cap new = {}
        /\ edge \in SUBSET (Exists \X Exists) /\ needs \in SUBSET (new \X new)
    BY <1>1, <2>1
  <2>5. NoCircle(edge \union needs)
    BY ONLY NoCircle(edge), <2>3, <2>4, GraphsApart
  <2> QED  BY <2>1, <2>5
<1>5. CASE UNCHANGED edge
  BY <1>5
<1>6. CASE UNCHANGED graphVars
  BY <1>6 DEF graphVars
<1>7. ASSUME NEW t \in Tasks,
             \/ CompleteTask(t) \/ ScheduleTask(t)
             \/ \E p \in Projects \union {NoProject} : CreateTask(t, p)
             \/ \E s \in Updatable : UpdateTask(t, s)
      PROVE  UNCHANGED edge
  BY <1>7 DEF CompleteTask, ScheduleTask, CreateTask, UpdateTask
<1>8. ASSUME NEW p \in Projects, NEW s \in {"planned", "started"},
             CreateProject(p, s) \/ UpdateProject(p, s)
      PROVE  UNCHANGED edge
  BY <1>8 DEF CreateProject, UpdateProject
<1>9. ASSUME NEW f \in Followups,
             CreateFollowup(f) \/ \E s \in {"completed", "cancelled"} : CompleteFollowup(f, s)
      PROVE  UNCHANGED edge
  BY <1>9 DEF CreateFollowup, CompleteFollowup
<1> QED
  BY <1>2, <1>3, <1>4, <1>5, <1>6, <1>7, <1>8, <1>9 DEF GraphNext

\* Nothing depends on anything at first.
LEMMA GraphStart ==
  ASSUME GraphInit  PROVE GraphTypeOK /\ NoCircle(edge)
<1>1. GraphTypeOK
  BY DEF GraphInit, GraphTypeOK, Exists, Statuses
<1>2. ASSUME NEW x \in Tasks  PROVE ~Reaches(edge, x, x)
  <2>1. edge = {}
    BY DEF GraphInit
  <2>2. Closed({}, {}) /\ \A t \in Tasks : <<x, t>> \in {} => t \in {}
    BY DEF Closed
  <2> QED  BY <2>1, <2>2, LeftOut
<1> QED  BY <1>1, <1>2 DEF NoCircle

\* No task ever waits for itself, through however many others, in any sequence of
\* added, removed and planned dependencies (add_dependency_in).
THEOREM NeverCircular == GraphSpec => []Acyclic
<1>1. GraphInit => GraphTypeOK /\ NoCircle(edge)
  BY GraphStart
<1>2. (GraphTypeOK /\ NoCircle(edge)) /\ [GraphNext]_graphVars => (GraphTypeOK /\ NoCircle(edge))'
  <2> SUFFICES ASSUME GraphTypeOK, NoCircle(edge), [GraphNext]_graphVars
               PROVE  (GraphTypeOK /\ NoCircle(edge))'
    OBVIOUS
  <2>1. NoCircle(edge')
    BY AcyclicStep
  <2>2. GraphTypeOK'
    BY TypeStep
  <2>3. NoCircle(edge)'
    BY <2>1 DEF NoCircle
  <2> QED  BY <2>2, <2>3
<1>3. NoCircle(edge) => Acyclic
  BY DEF NoCircle, Acyclic
<1> QED  BY <1>1, <1>2, <1>3, PTL DEF GraphSpec

-----------------------------------------------------------------------------
(* What completing a task says.                                            *)

\* Only complete_task completes a task, and one task at a time.
LEMMA OnlyCompleteTask ==
  ASSUME GraphTypeOK, [GraphNext]_graphVars,
         NEW t \in Tasks, task[t] # "completed", task'[t] = "completed"
  PROVE  CompleteTask(t)
<1> USE DEF GraphTypeOK
<1>1. ASSUME NEW u \in Tasks, CompleteTask(u)  PROVE u = t
  BY <1>1 DEF CompleteTask
<1>2. ASSUME NEW u \in Tasks,
             \/ ScheduleTask(u) \/ \E p \in Projects \union {NoProject} : CreateTask(u, p)
             \/ \E p \in Tasks : AddDependency(u, p) \/ RemoveDependency(u, p)
      PROVE  FALSE
  BY <1>2 DEF ScheduleTask, CreateTask, AddDependency, RemoveDependency
<1>3. ASSUME NEW u \in Tasks, NEW s \in Updatable, UpdateTask(u, s)  PROVE FALSE
  <2>1. s # "completed"
    BY TaskGraphAssumption
  <2> QED  BY <1>3, <2>1 DEF UpdateTask
<1>4. ASSUME NEW p \in Projects, NEW s \in {"planned", "started"},
             CreateProject(p, s) \/ UpdateProject(p, s)
      PROVE  FALSE
  BY <1>4 DEF CreateProject, UpdateProject
<1>5. ASSUME NEW p \in Projects, NEW new \in SUBSET Tasks, NEW needs \in SUBSET (new \X new),
             NEW s \in {"planned", "started"}, PlanProject(p, new, needs, s)
      PROVE  FALSE
  BY <1>5 DEF PlanProject
<1>6. ASSUME NEW f \in Followups,
             CreateFollowup(f) \/ \E s \in {"completed", "cancelled"} : CompleteFollowup(f, s)
      PROVE  FALSE
  BY <1>6 DEF CreateFollowup, CompleteFollowup
<1>7. CASE UNCHANGED graphVars
  BY <1>7 DEF graphVars
<1> HIDE DEF GraphTypeOK
<1> QED
  BY <1>1, <1>2, <1>3, <1>4, <1>5, <1>6, <1>7 DEF GraphNext

\* What a step that completes a task says of the others.
LEMMA CompletionTells ==
  ASSUME GraphTypeOK, [GraphNext]_graphVars,
         NEW t \in Tasks, task[t] # "completed", task'[t] = "completed"
  PROVE  /\ Unblocked(t) = {d \in OpenTasks : WaitsFor(d) # {} /\ WaitsFor(d)' = {}}
         /\ \A f \in Followups : followup[f].of = t => followup'[f].status # "pending"
<1>1. CompleteTask(t)
  BY OnlyCompleteTask
<1> USE DEF GraphTypeOK
<1>2. /\ task[t] # "completed" /\ edge' = edge
      /\ \A u \in Tasks : task'[u] = IF u = t THEN "completed" ELSE task[u]
      /\ CloseFollowups(t, "completed")
  BY <1>1 DEF CompleteTask, OpenTasks, CLOSED_STATUSES
<1>3. ASSUME NEW d \in OpenTasks
      PROVE  d \in Unblocked(t) <=> (WaitsFor(d) # {} /\ WaitsFor(d)' = {})
  <2>1. WaitsFor(d)' = {p \in Tasks : <<d, p>> \in edge /\ p # t /\ task[p] # "completed"}
    BY <1>2 DEF WaitsFor, Prerequisites
  <2>2. WaitsFor(d) = {p \in Tasks : <<d, p>> \in edge /\ task[p] # "completed"}
    BY DEF WaitsFor, Prerequisites
  <2>3. d \in Unblocked(t) <=>
          <<d, t>> \in edge /\ \A p \in Tasks : <<d, p>> \in edge => p = t \/ task[p] = "completed"
    <3>1. d \in Tasks
      BY DEF OpenTasks, Exists
    <3> QED  BY <3>1 DEF Unblocked, Dependents, Prerequisites
  <2> QED  BY <1>2, <2>1, <2>2, <2>3
<1>4. Unblocked(t) \subseteq OpenTasks
  BY DEF Unblocked
<1>5. \A f \in Followups : followup[f].of = t => followup'[f].status # "pending"
  BY <1>2 DEF CloseFollowups
<1> QED  BY <1>3, <1>4, <1>5

\* Completing a task says of the others exactly those that waited before and wait
\* for nothing after, and leaves no follow-up pending for it (complete_task).
THEOREM CompletionIsTold == GraphSpec => CompletionTellsTruth
<1>1. GraphTypeOK /\ [GraphNext]_graphVars =>
        [\A t \in Tasks :
           task[t] # "completed" /\ task'[t] = "completed" =>
             /\ Unblocked(t) = {d \in OpenTasks : WaitsFor(d) # {} /\ WaitsFor(d)' = {}}
             /\ \A f \in Followups : followup[f].of = t => followup'[f].status # "pending"]_graphVars
  BY CompletionTells
<1> QED  BY <1>1, GraphTypes, PTL DEF GraphSpec, CompletionTellsTruth

\* Among open tasks that reach no circle one reaches no other, and that one waits
\* for nothing that is not given up.
LEMMA WorkCanGoOn ==
  ASSUME GraphTypeOK, NoCircle(edge)
  PROVE  WorkGoesOn
<1> SUFFICES ASSUME OpenTasks # {},
                    \A t \in OpenTasks : \A p \in Prerequisites(t) : task[p] # "cancelled"
             PROVE  \E t \in OpenTasks : WaitsFor(t) = {}
  BY DEF WorkGoesOn
<1>1. edge \in Edges /\ edge \subseteq Exists \X Exists /\ OpenTasks \subseteq Tasks
  BY DEF GraphTypeOK, Edges, OpenTasks, Exists
<1>2. IsFiniteSet(OpenTasks)
  BY <1>1, TaskGraphAssumption, FS_Subset
<1> DEFINE before == {d \in OpenTasks \X OpenTasks : Reaches(edge, d[2], d[1])}
<1>3. \A x, y \in OpenTasks : <<x, y>> \in before <=> Reaches(edge, y, x)
  OBVIOUS
<1> HIDE DEF before
<1>4. IsOrder(before, OpenTasks)
  <2>1. \A x \in OpenTasks : <<x, x>> \notin before
    BY <1>1, <1>3 DEF NoCircle
  <2>2. ASSUME NEW x \in OpenTasks, NEW y \in OpenTasks, NEW z \in OpenTasks,
               <<x, y>> \in before, <<y, z>> \in before
        PROVE  <<x, z>> \in before
    <3>1. Reaches(edge, y, x) /\ Reaches(edge, z, y)
      BY <1>3, <2>2
    <3>2. Reaches(edge, z, x)
      BY <1>1, <3>1, ReachesOn
    <3> QED  BY <1>3, <3>2
  <2> QED  BY <2>1, <2>2 DEF IsOrder
<1>5. PICK t \in OpenTasks : \A y \in OpenTasks : <<y, t>> \notin before
  BY <1>2, <1>4, First
<1>6. ASSUME NEW p \in WaitsFor(t) PROVE FALSE
  <2>1. p \in Tasks /\ <<t, p>> \in edge /\ task[p] # "completed" /\ task[p] # "cancelled"
    BY <1>6 DEF WaitsFor, Prerequisites
  <2>2. p \in OpenTasks
    BY <1>1, <2>1 DEF OpenTasks, CLOSED_STATUSES, Exists
  <2>3. Reaches(edge, t, p)
    BY <2>1 DEF Reaches
  <2> QED  BY <1>3, <1>5, <2>2, <2>3
<1> QED  BY <1>6

-----------------------------------------------------------------------------
(* Recursive functions and counting.                                       *)

\* f is m at 0 and then goes on by step.
Iterated(f, T, K, step, m) ==
  f \in [0 .. K -> T] /\ f[0] = m /\ \A n \in 1 .. K : f[n] = step[<<n, f[n - 1]>>]

\* What is defined from one number to the next exists.
LEMMA Iterates ==
  ASSUME NEW T, NEW K \in Nat, NEW step \in [(1 .. K) \X T -> T], NEW m \in T
  PROVE  \E f : Iterated(f, T, K, step, m)
<1> DEFINE Good(f, k) ==
             f \in [0 .. k -> T] /\ f[0] = m /\ \A n \in 1 .. k : f[n] = step[<<n, f[n - 1]>>]
           Bad == {k \in 0 .. K : ~ \E f : Good(f, k)}
<1>1. ASSUME Bad # {} PROVE FALSE
  <2>2. PICK k \in Bad : \A j \in Bad : k <= j
    <3>1. Bad \in SUBSET Nat
      OBVIOUS
    <3> QED  BY <1>1, <3>1, Smallest
  <2>3. CASE k = 0
    <3>1. Good([i \in 0 .. 0 |-> m], 0)
      OBVIOUS
    <3> QED  BY <2>2, <2>3, <3>1
  <2>4. CASE k # 0
    <3>1. k \in 1 .. K /\ k - 1 \in 0 .. K /\ k - 1 \notin Bad
      BY <2>2, <2>4
    <3>2. PICK f : Good(f, k - 1)
      BY <3>1
    <3> DEFINE g == [n \in 0 .. k |-> IF n = k THEN step[<<k, f[k - 1]>>] ELSE f[n]]
    <3>3. f[k - 1] \in T /\ \A n \in 0 .. k - 1 : f[n] \in T
      BY <3>1, <3>2
    <3>4. step[<<k, f[k - 1]>>] \in T
      BY <3>1, <3>3
    <3>5. g \in [0 .. k -> T]
      BY <3>1, <3>3, <3>4
    <3>6. \A n \in 0 .. k - 1 : g[n] = f[n]
      BY <3>1
    <3>7. g[k] = step[<<k, f[k - 1]>>]
      BY <3>1
    <3> HIDE DEF g
    <3>8. g[0] = m
      BY <3>1, <3>2, <3>6
    <3>9. ASSUME NEW n \in 1 .. k PROVE g[n] = step[<<n, g[n - 1]>>]
      <4>1. CASE n = k
        <5>1. k - 1 \in 0 .. k - 1
          BY <3>1
        <5>2. g[k - 1] = f[k - 1]
          BY <3>6, <5>1
        <5> QED  BY <4>1, <3>7, <5>2
      <4>2. CASE n # k
        <5>1. n \in 1 .. k - 1 /\ n - 1 \in 0 .. k - 1 /\ n \in 0 .. k - 1
          BY <4>2, <3>1
        <5> QED  BY <5>1, <3>2, <3>6
      <4> QED  BY <4>1, <4>2
    <3>10. Good(g, k)
      BY <3>5, <3>8, <3>9
    <3> QED  BY <2>2, <3>10
  <2> QED  BY <2>3, <2>4
<1> QED
  <2>1. Bad = {}
    BY <1>1
  <2>2. K \in 0 .. K /\ K \notin Bad
    BY <2>1
  <2> QED  BY <2>2 DEF Iterated

\* Numbers that are each one less are as many.
LEMMA Shifted ==
  ASSUME NEW S \in SUBSET Int, IsFiniteSet(S)
  PROVE  IsFiniteSet({i - 1 : i \in S}) /\ Cardinality({i - 1 : i \in S}) = Cardinality(S)
<1> DEFINE T == {i - 1 : i \in S}
           f == [i \in S |-> i - 1]
<1>1. f \in Bijection(S, T)
  <2>1. f \in [S -> T] /\ \A x, y \in S : f[x] = f[y] => x = y
    OBVIOUS
  <2>2. \A t \in T : \E s \in S : f[s] = t
    OBVIOUS
  <2> QED  BY <2>1, <2>2 DEF Bijection, Injection, Surjection, IsInjective
<1>2. ExistsBijection(S, T)
  BY <1>1 DEF ExistsBijection
<1> HIDE DEF T
<1>3. IsFiniteSet(T) /\ Cardinality(T) = Cardinality(S)
  BY <1>2, FS_Bijection
<1> QED  BY <1>3 DEF T

-----------------------------------------------------------------------------
(* The planning cycle.                                                     *)

\* How many proposals of a kind a list has, with one more at its end and with
\* its first taken off.
LEMMA CountIs ==
  ASSUME NEW s \in Seq(Proposal), NEW k
  PROVE  /\ CountKind(s, k) \in Nat /\ IsFiniteSet({i \in DOMAIN s : s[i].kind = k})
         /\ CountKind(<<>>, k) = 0
<1>1. DOMAIN s = 1 .. Len(s) /\ Len(s) \in Nat
  BY LenProperties
<1>2. IsFiniteSet(1 .. Len(s))
  BY <1>1, FS_Interval
<1>3. IsFiniteSet({i \in DOMAIN s : s[i].kind = k})
  BY <1>1, <1>2, FS_Subset
<1>4. {i \in DOMAIN <<>> : <<>>[i].kind = k} = {}
  OBVIOUS
<1> QED  BY <1>3, <1>4, FS_CardinalityType, FS_EmptySet DEF CountKind

\* One more proposal adds to the count of its kind, ...
LEMMA CountAppend ==
  ASSUME NEW s \in Seq(Proposal), NEW p \in Proposal, NEW k
  PROVE  CountKind(Append(s, p), k) = CountKind(s, k) + IF p.kind = k THEN 1 ELSE 0
<1> DEFINE t == Append(s, p)
           S == {i \in DOMAIN s : s[i].kind = k}
           T == {i \in DOMAIN t : t[i].kind = k}
<1>1. /\ DOMAIN s = 1 .. Len(s) /\ Len(s) \in Nat /\ DOMAIN t = 1 .. Len(s) + 1
      /\ \A i \in 1 .. Len(s) : t[i] = s[i]
      /\ t[Len(s) + 1] = p
  BY AppendHas, LenProperties
<1>2. IsFiniteSet(S) /\ Cardinality(S) \in Nat
  BY CountIs, FS_CardinalityType
<1> HIDE DEF t
<1>3. ASSUME p.kind = k PROVE Cardinality(T) = Cardinality(S) + 1
  <2>1. T = S \union {Len(s) + 1} /\ Len(s) + 1 \notin S
    BY <1>1, <1>3
  <2> QED  BY <2>1, <1>2, FS_AddElement
<1>4. ASSUME p.kind # k PROVE Cardinality(T) = Cardinality(S)
  <2>1. T = S
    BY <1>1, <1>4
  <2> QED  BY <2>1
<1>5. CountKind(Append(s, p), k) = Cardinality(T) /\ CountKind(s, k) = Cardinality(S)
  BY DEF CountKind, t
<1> HIDE DEF S, T
<1> QED  BY <1>2, <1>3, <1>4, <1>5

\* ... and one less takes from it.
LEMMA CountTail ==
  ASSUME NEW s \in Seq(Proposal), s # <<>>, NEW k
  PROVE  CountKind(Tail(s), k) + (IF Head(s).kind = k THEN 1 ELSE 0) = CountKind(s, k)
<1> DEFINE t == Tail(s)
           S == {i \in DOMAIN s : s[i].kind = k}
           R == S \ {1}
           T == {i \in DOMAIN t : t[i].kind = k}
<1>1. /\ DOMAIN s = 1 .. Len(s) /\ Len(s) \in Nat \ {0} /\ DOMAIN t = 1 .. Len(s) - 1
      /\ \A i \in 1 .. Len(s) - 1 : t[i] = s[i + 1]
      /\ Head(s) = s[1]
  BY TailHas, LenProperties
<1>2. IsFiniteSet(S) /\ Cardinality(S) \in Nat
  BY CountIs, FS_CardinalityType
<1> HIDE DEF t
<1>3. /\ IsFiniteSet(R)
      /\ Cardinality(R) = IF 1 \in S THEN Cardinality(S) - 1 ELSE Cardinality(S)
  BY <1>2, FS_RemoveElement
<1>4. T = {i - 1 : i \in R}
  <2>1. ASSUME NEW i \in T PROVE i + 1 \in R /\ i = (i + 1) - 1
    BY <1>1
  <2>2. ASSUME NEW i \in R PROVE i - 1 \in T
    <3>1. i - 1 \in 1 .. Len(s) - 1 /\ (i - 1) + 1 = i
      BY <1>1
    <3> QED  BY <1>1, <3>1
  <2> QED  BY <2>1, <2>2
<1>5. Cardinality(T) = Cardinality(R)
  <2>1. R \in SUBSET Int
    BY <1>1
  <2> HIDE DEF R, T
  <2> QED  BY <1>3, <1>4, <2>1, Shifted
<1>6. 1 \in S <=> Head(s).kind = k
  BY <1>1
<1>7. CountKind(Tail(s), k) = Cardinality(T) /\ CountKind(s, k) = Cardinality(S)
  BY DEF CountKind, t
<1> HIDE DEF S, T
<1> QED  BY <1>2, <1>3, <1>5, <1>6, <1>7

\* What validation gives of one proposal, whatever else is in the plan.
Worthy(p) ==
  /\ p.kind \in {"task", "followup", "ask", "delegate", "review"} => p.topic \in Topics
  /\ p.kind \in {"ticket", "schedule", "move"} => p.task \in PlannedTasks
  /\ p.kind \in OnCalendar => p.block \in Blocks
  /\ p.kind = "review" => Cardinality(p.who) >= 1

\* And of two.
Compatible(p, q) ==
  /\ p.kind \in OnCalendar /\ q.kind \in OnCalendar =>
       ~Overlap(p.block, q.block) /\ p.task # q.task
  /\ p.kind = "delegate" /\ q.kind = "delegate" => p.who \cap q.who = {}
  /\ p.kind = "priority" /\ q.kind = "priority" => p.task # q.task
  /\ p.kind \in {"task", "followup", "ask"} /\ q.kind \in {"task", "followup", "ask"} =>
       <<p.kind, p.topic>> # <<q.kind, q.topic>>

Consistent(s) ==
  /\ \A i \in DOMAIN s : Worthy(s[i])
  /\ \A i, j \in DOMAIN s : i # j => Compatible(s[i], s[j])
  /\ Len(s) <= MaxActions /\ \A k \in Capped : CountKind(s, k) <= CycleCap[k]

\* What was commissioned today and what the cycle still means to is within the day.
Share(s) == \A k \in Daily : cycled[k] + CountKind(s, k) <= DailyCap[k]

Scene == [at : {"none", "gather", "plan", "propose", "call", "record", "failing"}, run : Nat, day : Nat,
          busy : SUBSET ((PlannedTasks \union {Other}) \X Blocks), readable : BOOLEAN,
          team : BOOLEAN, left : Seq(Proposal)]

PlanningTypes ==
  /\ PlanningTypeOK /\ cycle \in Scene
  /\ made \in [today : [Daily -> Nat], yesterday : [Daily -> Nat]]
  /\ cycle.at = "none" \/ cycle.run \in DOMAIN runs

\* Google is only called for what is on the calendar.
Placing ==
  cycle.at \in {"call", "record"} => cycle.left # <<>> /\ Head(cycle.left).kind \in OnCalendar

PlanningInv ==
  /\ PlanningTypes /\ Consistent(cycle.left) /\ Share(cycle.left)
  /\ (\A k \in Daily : cycled[k] <= made.today[k])
  /\ Placing

\* Whether two proposals may stand in one plan does not depend on their order.
LEMMA CompatibleBothWays ==
  ASSUME NEW p \in Proposal, NEW q \in Proposal, Compatible(p, q)
  PROVE  Compatible(q, p)
<1>1. p.block[1] \in Int /\ p.block[2] \in Int /\ q.block[1] \in Int /\ q.block[2] \in Int
  <2>1. \A b \in Blocks \union {NoBlock} : b[1] \in Int /\ b[2] \in Int
    <3>1. NoBlock[1] = 0 /\ NoBlock[2] = 0
      BY DEF NoBlock
    <3>2. \A b \in Blocks : b[1] \in Int /\ b[2] \in Int
      <4>1. Slots \subseteq Int
        BY PlanningAssumption
      <4> QED  BY <4>1 DEF Blocks
    <3> TAKE b \in Blocks \union {NoBlock}
    <3>3. CASE b \in Blocks
      BY <3>2, <3>3
    <3>4. CASE b = NoBlock
      <4>1. b[1] = 0 /\ b[2] = 0
        BY <3>1, <3>4
      <4> QED  BY <4>1
    <3> QED  BY <3>3, <3>4
  <2>2. p.block \in Blocks \union {NoBlock} /\ q.block \in Blocks \union {NoBlock}
    BY DEF Proposal
  <2> QED  BY <2>1, <2>2
<1>2. Overlap(p.block, q.block) <=> Overlap(q.block, p.block)
  BY <1>1 DEF Overlap
<1> QED  BY <1>2 DEF Compatible

\* What passes its checks is worthy, and agrees with everything accepted before.
LEMMA SoundIs ==
  ASSUME PlanningTypes, NEW p \in Proposal, NEW acc \in Seq(Proposal), Sound(p, acc)
  PROVE  Worthy(p) /\ \A i \in DOMAIN acc : Compatible(p, acc[i])
<1>1. /\ p.kind \in Kinds /\ p.topic \in Topics \union {Nil} /\ p.who \subseteq Agents
      /\ p.task \in PlannedTasks \union {Nil} /\ p.block \in Blocks \union {NoBlock}
  BY DEF Proposal
<1>2. \A i \in DOMAIN acc : acc[i] \in Proposal
  BY LenProperties, ElementOfSeq
<1>3. open \subseteq PlannedTasks
  BY DEF PlanningTypes, PlanningTypeOK
<1>4. ASSUME SoundTask(p, acc) \/ SoundQuestion(p, acc) \/ SoundFollowup(p, acc)
      PROVE  Worthy(p) /\ \A i \in DOMAIN acc : Compatible(p, acc[i])
  BY <1>1, <1>4 DEF SoundTask, SoundQuestion, SoundFollowup, IsNew, Same, Worthy, Compatible, OnCalendar
<1>5. ASSUME SoundDelegation(p, acc)
      PROVE  Worthy(p) /\ \A i \in DOMAIN acc : Compatible(p, acc[i])
  BY <1>1, <1>5 DEF SoundDelegation, Worthy, Compatible, OnCalendar
<1>6. ASSUME SoundReview(p)
      PROVE  Worthy(p) /\ \A i \in DOMAIN acc : Compatible(p, acc[i])
  <2>1. Cardinality(p.who) \in Nat
    BY <1>1, PlanningAssumption, FS_Subset, FS_CardinalityType
  <2> QED  BY <1>1, <1>6, <2>1 DEF SoundReview, Worthy, Compatible, OnCalendar
<1>7. ASSUME SoundReorganisation(p) \/ SoundHire(p) \/ SoundTicket(p)
      PROVE  Worthy(p) /\ \A i \in DOMAIN acc : Compatible(p, acc[i])
  BY <1>1, <1>3, <1>7
     DEF SoundReorganisation, SoundHire, SoundTicket, Worthy, Compatible, OnCalendar
<1>9. ASSUME SoundPriority(p, acc)
      PROVE  Worthy(p) /\ \A i \in DOMAIN acc : Compatible(p, acc[i])
  BY <1>1, <1>9 DEF SoundPriority, Worthy, Compatible, OnCalendar
<1>8. ASSUME SoundBlock(p, acc)
      PROVE  Worthy(p) /\ \A i \in DOMAIN acc : Compatible(p, acc[i])
  <2>1. p.block # NoBlock
    BY <1>8 DEF SoundBlock, BlockFits, NoBlock
  <2>2. Worthy(p)
    BY <1>1, <1>3, <1>8, <2>1 DEF SoundBlock, Worthy, OnCalendar
  <2>3. ASSUME NEW i \in DOMAIN acc PROVE Compatible(p, acc[i])
    BY <1>1, <1>2, <1>8 DEF SoundBlock, BlockFits, Compatible, OnCalendar
  <2> QED  BY <2>2, <2>3
<1> QED  BY <1>4, <1>5, <1>6, <1>7, <1>8, <1>9 DEF Sound

\* What the validation accepts on top of an accepted plan keeps it so
\* (validate_cycle_actions).
LEMMA AcceptKeeps ==
  ASSUME PlanningTypes, \A k \in Daily : cycled[k] <= made.today[k],
         NEW p \in Proposal, NEW acc \in Seq(Proposal),
         Consistent(acc), Share(acc), CapsLeave(p, acc), Sound(p, acc)
  PROVE  LET s == Append(acc, p) IN s \in Seq(Proposal) /\ Consistent(s) /\ Share(s)
<1> DEFINE s == Append(acc, p)
<1>1. /\ s \in Seq(Proposal) /\ Len(s) = Len(acc) + 1 /\ Len(acc) \in Nat
      /\ DOMAIN s = 1 .. Len(acc) + 1 /\ DOMAIN acc = 1 .. Len(acc)
      /\ \A i \in 1 .. Len(acc) : s[i] = acc[i]
      /\ s[Len(acc) + 1] = p
  BY AppendHas, LenProperties
<1>2. Worthy(p) /\ \A i \in DOMAIN acc : Compatible(p, acc[i])
  BY SoundIs
<1>3. \A i \in DOMAIN acc : Compatible(acc[i], p)
  <2>1. \A i \in DOMAIN acc : acc[i] \in Proposal
    BY LenProperties, ElementOfSeq
  <2> QED  BY <1>2, <2>1, CompatibleBothWays
<1>4. \A k : /\ CountKind(acc, k) \in Nat
             /\ CountKind(s, k) = CountKind(acc, k) + IF p.kind = k THEN 1 ELSE 0
  BY CountIs, CountAppend
<1> HIDE DEF s
<1>5. /\ p.kind \in Kinds /\ CycleCap \in [Capped -> Nat] /\ MaxActions \in Nat
      /\ DailyCap \in [Daily -> Nat] /\ CycleCap["review"] <= 1
      /\ cycled \in [Daily -> Nat] /\ made.today \in [Daily -> Nat] /\ made.yesterday \in [Daily -> Nat]
  BY PlanningAssumption DEF Proposal, PlanningTypes, PlanningTypeOK
<1>6. \A i \in DOMAIN s : Worthy(s[i])
  BY <1>1, <1>2 DEF Consistent
<1>7. \A i, j \in DOMAIN s : i # j => Compatible(s[i], s[j])
  <2> SUFFICES ASSUME NEW i \in DOMAIN s, NEW j \in DOMAIN s, i # j PROVE Compatible(s[i], s[j])
    OBVIOUS
  <2>1. CASE i \in DOMAIN acc /\ j \in DOMAIN acc
    BY <1>1, <2>1 DEF Consistent
  <2>2. CASE i = Len(acc) + 1 /\ j \in DOMAIN acc
    BY <1>1, <1>2, <2>2
  <2>3. CASE i \in DOMAIN acc /\ j = Len(acc) + 1
    BY <1>1, <1>3, <2>3
  <2> QED  BY <1>1, <2>1, <2>2, <2>3
<1>8. Len(s) <= MaxActions
  BY <1>1, <1>5 DEF CapsLeave, CycleLeaves
<1>9. ASSUME NEW k \in Capped PROVE CountKind(s, k) <= CycleCap[k]
  <2>1. CountKind(acc, k) <= CycleCap[k] /\ (p.kind \in Capped => CountKind(acc, p.kind) < CycleCap[p.kind])
    BY DEF Consistent, CapsLeave, CycleLeaves
  <2>2. CASE p.kind = k
    <3>1. CountKind(s, k) = CountKind(acc, k) + 1 /\ CountKind(acc, k) \in Nat /\ CycleCap[k] \in Nat
      BY <1>4, <1>5, <2>2
    <3> QED  BY <2>1, <2>2, <3>1
  <2>3. CASE p.kind # k
    <3>1. CountKind(s, k) = CountKind(acc, k) /\ CountKind(acc, k) \in Nat /\ CycleCap[k] \in Nat
      BY <1>4, <1>5, <2>3
    <3> QED  BY <2>1, <3>1
  <2> QED  BY <2>2, <2>3
<1>10. ASSUME NEW k \in Daily PROVE cycled[k] + CountKind(s, k) <= DailyCap[k]
  <2>1. cycled[k] + CountKind(acc, k) <= DailyCap[k]
    BY DEF Share
  <2>2. CASE p.kind # k
    BY <1>4, <1>5, <2>1, <2>2
  <2>3. CASE p.kind = k
    <3>1. MadeSince(k) \in Nat /\ MadeSince(k) >= made.today[k]
      BY <1>5 DEF MadeSince
    <3>2. CountKind(s, k) = CountKind(acc, k) + 1
      BY <1>4, <2>3
    <3>3. CASE k \in {"delegate", "ticket"}
      <4>1. MadeSince(k) + CountKind(acc, k) < DailyCap[k]
        BY <2>3, <3>3 DEF CapsLeave
      <4> QED  BY <1>4, <1>5, <3>1, <3>2, <4>1
    <3>4. CASE k = "review"
      <4>1. MadeSince(k) < DailyCap[k] /\ CountKind(acc, k) < CycleCap[k]
        <5>1. k \in Capped
          BY <3>4 DEF Capped, Kinds, OnCalendar
        <5> QED  BY <2>3, <3>4, <5>1 DEF CapsLeave, CycleLeaves
      <4>2. CountKind(acc, k) = 0
        <5>1. CycleCap[k] \in Nat /\ CycleCap[k] <= 1
          BY <1>5, <3>4 DEF Capped, Kinds, OnCalendar
        <5> QED  BY <1>4, <4>1, <5>1
      <4> QED  BY <1>4, <1>5, <3>1, <3>2, <4>1, <4>2
    <3> QED  BY <3>3, <3>4 DEF Daily
  <2> QED  BY <2>2, <2>3
<1> QED  BY <1>1, <1>6, <1>7, <1>8, <1>9, <1>10 DEF Consistent, Share, s

\* Carrying out the first proposal leaves a list that is consistent.
LEMMA TailConsistent ==
  ASSUME NEW s \in Seq(Proposal), s # <<>>, Consistent(s)
  PROVE  Tail(s) \in Seq(Proposal) /\ Head(s) \in Proposal /\ Consistent(Tail(s)) /\ Worthy(Head(s))
<1> DEFINE t == Tail(s)
<1>1. /\ t \in Seq(Proposal) /\ Head(s) \in Proposal /\ Head(s) = s[1] /\ Len(t) = Len(s) - 1
      /\ Len(s) \in Nat \ {0} /\ DOMAIN s = 1 .. Len(s) /\ DOMAIN t = 1 .. Len(s) - 1
      /\ \A i \in 1 .. Len(s) - 1 : t[i] = s[i + 1]
  BY TailHas, LenProperties
<1>2. \A k : CountKind(t, k) \in Nat /\ CountKind(s, k) \in Nat /\ CountKind(t, k) <= CountKind(s, k)
  <2> TAKE k
  <2>1. CountKind(t, k) + (IF Head(s).kind = k THEN 1 ELSE 0) = CountKind(s, k)
    BY CountTail
  <2>2. CountKind(t, k) \in Nat /\ CountKind(s, k) \in Nat
    BY <1>1, CountIs
  <2> HIDE DEF t
  <2> QED  BY <2>1, <2>2
<1> HIDE DEF t
<1>3. /\ \A i \in DOMAIN s : Worthy(s[i])
      /\ \A i, j \in DOMAIN s : i # j => Compatible(s[i], s[j])
  BY DEF Consistent
<1>4. ASSUME NEW i \in DOMAIN t, NEW j \in DOMAIN t
      PROVE  Worthy(t[i]) /\ (i # j => Compatible(t[i], t[j]))
  <2>1. /\ i + 1 \in DOMAIN s /\ j + 1 \in DOMAIN s /\ t[i] = s[i + 1] /\ t[j] = s[j + 1]
        /\ (i # j => i + 1 # j + 1)
    BY <1>1
  <2> QED  BY <1>3, <2>1
<1>5. Len(t) <= MaxActions
  BY <1>1, PlanningAssumption DEF Consistent
<1>6. \A k \in Capped : CountKind(t, k) <= CycleCap[k]
  <2> TAKE k \in Capped
  <2>1. CountKind(s, k) <= CycleCap[k] /\ CycleCap[k] \in Nat
    BY PlanningAssumption DEF Consistent
  <2> QED  BY <1>2, <2>1
<1>7. Worthy(Head(s))
  BY <1>1 DEF Consistent
<1> QED  BY <1>1, <1>3, <1>4, <1>5, <1>6, <1>7 DEF Consistent, t

\* All that a validated plan has is consistent and within the day.
LEMMA AcceptedIs ==
  ASSUME PlanningTypes, \A k \in Daily : cycled[k] <= made.today[k] /\ cycled[k] <= DailyCap[k],
         NEW plan \in Seq(Proposal)
  PROVE  Accepted(plan) \in Seq(Proposal) /\ Consistent(Accepted(plan)) /\ Share(Accepted(plan))
<1> DEFINE K == Len(plan)
           Keep(p, acc) == IF CapsLeave(p, acc) /\ Sound(p, acc) THEN Append(acc, p) ELSE acc
           T == {s \in Seq(Proposal) : Consistent(s) /\ Share(s)}
           step == [d \in (1 .. K) \X T |-> Keep(plan[d[1]], d[2])]
           Defines(of) == of = [n \in 0 .. K |-> IF n = 0 THEN <<>> ELSE Keep(plan[n], of[n - 1])]
<1>1. K \in Nat /\ \A n \in 1 .. K : plan[n] \in Proposal
  BY LenProperties, ElementOfSeq
<1>2. <<>> \in T
  <2>1. <<>> \in Seq(Proposal) /\ Len(<<>>) = 0 /\ DOMAIN <<>> = {}
    BY EmptySeq
  <2>2. \A k : CountKind(<<>>, k) = 0
    BY <2>1, CountIs
  <2>3. /\ MaxActions \in Nat /\ \A k \in Capped : CycleCap[k] \in Nat
        /\ \A k \in Daily : DailyCap[k] \in Nat /\ cycled[k] \in Nat
    BY PlanningAssumption DEF PlanningTypes, PlanningTypeOK
  <2>4. Consistent(<<>>)
    BY <2>1, <2>2, <2>3 DEF Consistent
  <2>5. Share(<<>>)
    BY <2>2, <2>3 DEF Share
  <2> QED  BY <2>1, <2>4, <2>5
<1>3. ASSUME NEW n \in 1 .. K, NEW acc \in T PROVE Keep(plan[n], acc) \in T
  <2>1. CASE CapsLeave(plan[n], acc) /\ Sound(plan[n], acc)
    <3>1. plan[n] \in Proposal /\ acc \in Seq(Proposal) /\ Consistent(acc) /\ Share(acc)
      BY <1>1
    <3>2. Append(acc, plan[n]) \in T
      BY <2>1, <3>1, AcceptKeeps
    <3> QED  BY <2>1, <3>2
  <2>2. CASE ~ (CapsLeave(plan[n], acc) /\ Sound(plan[n], acc))
    BY <2>2
  <2> QED  BY <2>1, <2>2
<1> HIDE DEF Keep, T
<1>4. step \in [(1 .. K) \X T -> T]
  BY <1>3
<1>5. PICK f : Iterated(f, T, K, step, <<>>)
  <2> HIDE DEF step, K
  <2> QED  BY <1>1, <1>2, <1>4, Iterates
<1>51. /\ f \in [0 .. K -> T] /\ f[0] = <<>>
       /\ \A n \in 1 .. K : f[n] = step[<<n, f[n - 1]>>]
  BY <1>5 DEF Iterated
<1>6. Defines(f)
  <2>1. ASSUME NEW n \in 0 .. K
        PROVE  f[n] = IF n = 0 THEN <<>> ELSE Keep(plan[n], f[n - 1])
    <3>1. CASE n = 0
      BY <1>51, <3>1
    <3>2. CASE n # 0
      <4>1. n \in 1 .. K /\ n - 1 \in 0 .. K
        BY <1>1, <3>2
      <4>2. f[n - 1] \in T
        BY <1>51, <4>1
      <4>3. step[<<n, f[n - 1]>>] = Keep(plan[n], f[n - 1])
        BY <4>1, <4>2
      <4> HIDE DEF step
      <4> QED  BY <1>51, <3>2, <4>1, <4>3
    <3> QED  BY <3>1, <3>2
  <2> QED  BY <1>51, <2>1
<1>7. Defines(CHOOSE of : Defines(of))
  <2> HIDE DEF Defines
  <2> QED  BY <1>6
<1> DEFINE g == CHOOSE of : Defines(of)
<1>8. Accepted(plan) = g[K]
  BY Zenon DEF Accepted, Keep
<1> HIDE DEF g
<1>9. ASSUME NEW n \in 0 .. K PROVE g[n] = f[n]
  <2> DEFINE Bad == {k \in 0 .. K : g[k] # f[k]}
  <2>1. ASSUME Bad # {} PROVE FALSE
    <3>1. PICK k \in Bad : \A j \in Bad : k <= j
      <4>1. Bad \in SUBSET Nat
        BY <1>1
      <4> QED  BY <2>1, <4>1, Smallest
    <3>2. \A j \in 0 .. K : g[j] = IF j = 0 THEN <<>> ELSE Keep(plan[j], g[j - 1])
      BY <1>7 DEF g
    <3>3. \A j \in 0 .. K : f[j] = IF j = 0 THEN <<>> ELSE Keep(plan[j], f[j - 1])
      BY <1>6
    <3>4. k # 0
      <4>1. 0 \in 0 .. K
        BY <1>1
      <4>2. g[0] = f[0]
        BY <3>2, <3>3, <4>1
      <4> QED  BY <3>1, <4>2
    <3>5. k - 1 \in 0 .. K /\ k - 1 \notin Bad
      BY <1>1, <3>1, <3>4
    <3>6. g[k - 1] = f[k - 1]
      BY <3>5
    <3>7. g[k] = f[k]
      BY <3>1, <3>2, <3>3, <3>4, <3>6
    <3> QED  BY <3>1, <3>7
  <2> QED  BY <2>1
<1>10. g[K] \in T
  <2>1. K \in 0 .. K
    BY <1>1
  <2> QED  BY <1>51, <1>9, <2>1
<1> QED  BY <1>8, <1>10 DEF T

RunRow == [status : {"running", "completed", "failed"}, cycle : BOOLEAN]

\* A step of the cycle that leaves the world alone.
LEMMA CycleOnlyStep ==
  ASSUME PlanningInv, UNCHANGED <<worldVars, cycled>>, runs' \in Seq(RunRow), cycle' \in Scene,
         cycle'.run \in 0 .. Len(runs'), cycle'.at = "none" \/ cycle'.run \in DOMAIN runs',
         Consistent(cycle'.left), Share(cycle'.left), Placing'
  PROVE  PlanningInv'
<1>1. Consistent(cycle.left)' /\ Share(cycle.left)'
  BY DEF Consistent, Share, worldVars
<1>3. (\A k \in Daily : cycled[k] <= made.today[k])'
  BY DEF PlanningInv, worldVars
<1>4. /\ cycle'.at \in {"none", "gather", "plan", "propose", "call", "record", "failing"}
      /\ cycle'.left \in Seq(Proposal)
  BY DEF Scene
<1>5. PlanningTypeOK'
  BY <1>4 DEF PlanningInv, PlanningTypes, PlanningTypeOK, worldVars, RunRow
<1>6. PlanningTypes'
  <2>1. made' \in [today : [Daily -> Nat], yesterday : [Daily -> Nat]]
    BY DEF PlanningInv, PlanningTypes, worldVars
  <2> QED  BY <1>5, <2>1 DEF PlanningTypes
<1> QED  BY <1>1, <1>3, <1>6 DEF PlanningInv

\* With nothing left to carry out a plan is consistent.
LEMMA NothingLeft ==
  ASSUME PlanningInv
  PROVE  Consistent(<<>>) /\ Share(<<>>) /\ <<>> \in Seq(Proposal)
         /\ \A k \in Daily : cycled[k] <= DailyCap[k]
<1>1. <<>> \in Seq(Proposal) /\ Len(<<>>) = 0 /\ DOMAIN <<>> = {}
  BY EmptySeq
<1>2. \A k : CountKind(<<>>, k) = 0
  BY <1>1, CountIs
<1>3. /\ MaxActions \in Nat /\ \A k \in Capped : CycleCap[k] \in Nat
      /\ \A k \in Daily : DailyCap[k] \in Nat /\ cycled[k] \in Nat
  BY PlanningAssumption DEF PlanningInv, PlanningTypes, PlanningTypeOK
<1>4. Consistent(<<>>)
  BY <1>1, <1>2, <1>3 DEF Consistent
<1>5. cycle.left \in Seq(Proposal) /\ \A k : CountKind(cycle.left, k) \in Nat
  BY CountIs DEF PlanningInv, PlanningTypes, PlanningTypeOK
<1>6. \A k \in Daily : cycled[k] <= DailyCap[k]
  <2> TAKE k \in Daily
  <2>1. cycled[k] + CountKind(cycle.left, k) <= DailyCap[k]
    BY DEF PlanningInv, Share
  <2> QED  BY <1>3, <1>5, <2>1
<1>7. Share(<<>>)
  BY <1>2, <1>3, <1>6 DEF Share
<1> QED  BY <1>1, <1>4, <1>6, <1>7

\* The sweep changes rows that run, and only those.
LEMMA AfterStaleIs ==
  ASSUME runs \in Seq(RunRow), NEW swept_ \in AfterStale(runs)
  PROVE  /\ swept_ \in Seq(RunRow) /\ Len(swept_) = Len(runs)
         /\ \A i \in DOMAIN runs : runs[i].status # "running" => swept_[i] = runs[i]
<1>1. Len(runs) \in Nat /\ DOMAIN runs = 1 .. Len(runs) /\ \A i \in 1 .. Len(runs) : runs[i] \in RunRow
  BY LenProperties, ElementOfSeq
<1> DEFINE swept(i) == IF runs[i].status = "running" THEN [runs[i] EXCEPT !.status = "failed"] ELSE runs[i]
           other == [i \in 1 .. Len(runs) |-> swept(i)]
<1>2. CASE swept_ = runs
  BY <1>2
<1>3. CASE swept_ = other
  <2>1. \A i \in 1 .. Len(runs) : swept(i) \in RunRow
    BY <1>1 DEF RunRow
  <2> HIDE DEF swept
  <2>2. other \in [1 .. Len(runs) -> RunRow]
    BY <2>1
  <2>3. other \in Seq(RunRow) /\ Len(other) = Len(runs)
    <3>1. other \in Seq(RunRow)
      BY <1>1, <2>2, SeqDef
    <3>2. DOMAIN other = 1 .. Len(other) /\ DOMAIN other = 1 .. Len(runs) /\ Len(other) \in Nat
      BY <3>1, LenProperties
    <3> HIDE DEF other
    <3>3. Len(other) = Len(runs)
      <4> DEFINE a == Len(other)
                 b == Len(runs)
      <4>1. a \in Nat /\ b \in Nat /\ 1 .. a = 1 .. b
        BY <1>1, <3>2
      <4> HIDE DEF a, b
      <4>2. CASE a < b
        <5>1. b \in 1 .. b /\ b \notin 1 .. a
          BY <4>1, <4>2
        <5> QED  BY <4>1, <5>1
      <4>3. CASE b < a
        <5>1. a \in 1 .. a /\ a \notin 1 .. b
          BY <4>1, <4>3
        <5> QED  BY <4>1, <5>1
      <4>4. a = b
        BY <4>1, <4>2, <4>3
      <4> QED  BY <4>4 DEF a, b
    <3> QED  BY <3>1, <3>3
  <2>4. \A i \in 1 .. Len(runs) : runs[i].status # "running" => other[i] = runs[i]
    BY DEF swept
  <2> QED  BY <1>1, <1>3, <2>3, <2>4
<1> QED  BY <1>1, <1>2, <1>3 DEF AfterStale

LEMMA PlanningStart ==
  ASSUME PlanningInit  PROVE PlanningInv
<1>1. /\ open = PlannedTasks /\ block = [t \in PlannedTasks |-> NoBlock] /\ calendar = {}
      /\ event = block /\ ticket = [t \in PlannedTasks |-> Nil] /\ known = {} /\ asked = {} /\ quiet = {}
      /\ working = {} /\ made = [today |-> Zero, yesterday |-> Zero] /\ day = 0
      /\ runs = <<>> /\ cycle = NoCycle /\ cycled = Zero
  BY DEF PlanningInit
<1>2. Zero \in [Daily -> Nat] /\ \A k \in Daily : Zero[k] = 0
  BY DEF Zero
<1>3. /\ MaxDays \in Nat /\ MaxActions \in Nat
      /\ \A k \in Capped : CycleCap[k] \in Nat /\ \A d \in Daily : DailyCap[d] \in Nat
  BY PlanningAssumption
<1>4. cycle \in Scene /\ cycle.at = "none" /\ cycle.run = 0 /\ cycle.left = <<>>
  <2>1. <<>> \in Seq(Proposal)
    BY EmptySeq
  <2> QED  BY <1>1, <2>1 DEF NoCycle, Scene
<1>5. runs \in Seq(RunRow) /\ Len(runs) = 0
  BY <1>1, EmptySeq
<1>6. PlanningTypes
  <2>1. /\ open \subseteq PlannedTasks /\ block \in [PlannedTasks -> Blocks \union {NoBlock}]
        /\ event \in [PlannedTasks -> Blocks \union {NoBlock}]
        /\ calendar \subseteq (PlannedTasks \union {Other}) \X Blocks
        /\ ticket \in [PlannedTasks -> TicketStates]
        /\ known \subseteq Kinds \X Topics /\ asked \subseteq Agents \X Topics
        /\ quiet \subseteq {"hire", "reorg"} /\ working \subseteq Agents
    BY <1>1 DEF TicketStates
  <2>2. made.today \in [Daily -> Nat] /\ made.yesterday \in [Daily -> Nat]
        /\ made \in [today : [Daily -> Nat], yesterday : [Daily -> Nat]] /\ cycled \in [Daily -> Nat]
    BY <1>1, <1>2
  <2>3. day \in 0 .. MaxDays /\ cycle.run \in 0 .. Len(runs) /\ cycle.left \in Seq(Proposal)
    BY <1>1, <1>3, <1>4, <1>5 DEF Scene
  <2> QED  BY <1>4, <1>5, <2>1, <2>2, <2>3 DEF PlanningTypes, PlanningTypeOK, RunRow
<1>7. \A k : CountKind(<<>>, k) = 0
  <2>1. <<>> \in Seq(Proposal)
    BY EmptySeq
  <2> QED  BY <2>1, CountIs
<1>8. Consistent(<<>>)
  <2>1. Len(<<>>) = 0 /\ DOMAIN <<>> = {}
    BY EmptySeq
  <2> QED  BY <2>1, <1>3, <1>7 DEF Consistent
<1>9. \A k \in Daily : cycled[k] = 0 /\ made.today[k] = 0
  BY <1>1, <1>2
<1>10. Share(<<>>)
  <2>1. \A d \in Daily : DailyCap[d] \in Nat
    BY PlanningAssumption
  <2> QED  BY <2>1, <1>7, <1>9 DEF Share
<1>11. Placing
  BY <1>4 DEF Placing
<1> QED  BY <1>4, <1>6, <1>8, <1>9, <1>10, <1>11 DEF PlanningInv

\* What the steps of a planning cycle need to know of it.
LEMMA PlanningFacts ==
  ASSUME PlanningInv
  PROVE  /\ cycle \in Scene /\ runs \in Seq(RunRow) /\ Len(runs) \in Nat /\ DOMAIN runs = 1 .. Len(runs)
         /\ (\A i \in DOMAIN runs : runs[i] \in RunRow)
         /\ cycle.run \in 0 .. Len(runs) /\ (cycle.at = "none" \/ cycle.run \in DOMAIN runs)
         /\ cycle.left \in Seq(Proposal) /\ Consistent(cycle.left) /\ Share(cycle.left)
         /\ Placing
<1>1. cycle \in Scene /\ runs \in Seq(RunRow)
  BY DEF PlanningInv, PlanningTypes, PlanningTypeOK, RunRow
<1>2. Len(runs) \in Nat /\ DOMAIN runs = 1 .. Len(runs) /\ \A i \in DOMAIN runs : runs[i] \in RunRow
  BY <1>1, LenProperties, ElementOfSeq
<1> QED  BY <1>1, <1>2 DEF PlanningInv, PlanningTypes, PlanningTypeOK

\* A row that is set leaves the others and their number.
LEMMA RowIsSet ==
  ASSUME runs \in Seq(RunRow), NEW i \in DOMAIN runs, NEW x \in {"running", "completed", "failed"}
  PROVE  LET s == [runs EXCEPT ![i].status = x] IN
         /\ s \in Seq(RunRow) /\ Len(s) = Len(runs) /\ DOMAIN s = DOMAIN runs
         /\ \A j \in DOMAIN runs : j # i => s[j] = runs[j]
<1> DEFINE e == [runs[i] EXCEPT !.status = x]
           s == [runs EXCEPT ![i] = e]
<1>1. i \in 1 .. Len(runs) /\ runs[i] \in RunRow
  BY LenProperties, ElementOfSeq
<1>2. e \in RunRow
  BY <1>1 DEF RunRow
<1> HIDE DEF e
<1>3. s \in Seq(RunRow) /\ Len(s) = Len(runs) /\ \A j \in 1 .. Len(runs) : s[j] = IF j = i THEN e ELSE runs[j]
  BY <1>1, <1>2, ExceptSeq
<1>4. DOMAIN s = DOMAIN runs /\ DOMAIN runs = 1 .. Len(runs)
  BY LenProperties
<1> HIDE DEF s
<1>5. [runs EXCEPT ![i].status = x] = s
  BY DEF s, e
<1> QED  BY <1>3, <1>4, <1>5

\* The lock is free and no run is held.
LEMMA NoCycleIs ==
  NoCycle \in Scene /\ NoCycle.at = "none" /\ NoCycle.run = 0 /\ NoCycle.left = <<>>
<1>1. <<>> \in Seq(Proposal)
  BY EmptySeq
<1> QED  BY <1>1 DEF NoCycle, Scene

\* What the cycle's own row is set to, if the cycle is over or fails then.
LEMMA RowEnds ==
  ASSUME PlanningInv, UNCHANGED <<worldVars, cycled>>, cycle' = NoCycle \/ cycle' = Failing,
         cycle.at # "none",
         UNCHANGED runs \/ \E x \in {"running", "completed", "failed"} : runs' = [runs EXCEPT ![cycle.run].status = x]
  PROVE  PlanningInv'
<1>1. <<>> \in Seq(Proposal) /\ Consistent(<<>>) /\ Share(<<>>)
  BY NothingLeft
<1>2. /\ cycle \in Scene /\ runs \in Seq(RunRow) /\ Len(runs) \in Nat /\ DOMAIN runs = 1 .. Len(runs)
      /\ cycle.run \in DOMAIN runs
  BY PlanningFacts
<1>3. runs' \in Seq(RunRow) /\ DOMAIN runs' = DOMAIN runs /\ Len(runs') = Len(runs)
  BY <1>2, RowIsSet
<1>4. /\ cycle' \in Scene /\ cycle'.left = <<>>
      /\ (cycle'.run = 0 /\ cycle'.at = "none") \/ cycle'.run = cycle.run
      /\ Placing'
  <2>1. cycle.run \in Nat
    BY <1>2
  <2>2. CASE cycle' = NoCycle
    BY <1>1, <2>2, NoCycleIs DEF Placing
  <2>3. CASE cycle' = Failing
    BY <1>1, <2>1, <2>3, NoCycleIs DEF Failing, Scene, Placing
  <2> QED  BY <2>2, <2>3
<1>5. Consistent(cycle'.left) /\ Share(cycle'.left)
  BY <1>1, <1>4
<1>6. cycle'.run \in 0 .. Len(runs') /\ (cycle'.at = "none" \/ cycle'.run \in DOMAIN runs')
  BY <1>2, <1>3, <1>4
<1> QED  BY <1>3, <1>4, <1>5, <1>6, CycleOnlyStep

\* The steps of a cycle, ...
LEMMA StartCycleKeeps ==
  ASSUME PlanningInv, StartCycle  PROVE PlanningInv'
<1>1. <<>> \in Seq(Proposal) /\ Consistent(<<>>) /\ Share(<<>>)
  BY NothingLeft
<1>2. cycle \in Scene /\ runs \in Seq(RunRow) /\ Len(runs) \in Nat /\ day \in Nat
  BY PlanningFacts, PlanningAssumption DEF PlanningInv, PlanningTypes, PlanningTypeOK
<1>3. PICK r \in AfterStale(runs) : runs' = Append(r, NewRow(TRUE))
  BY DEF StartCycle
<1>4. r \in Seq(RunRow) /\ Len(r) = Len(runs)
  BY <1>2, AfterStaleIs
<1>5. NewRow(TRUE) \in RunRow
  BY DEF NewRow, RunRow
<1>6. runs' \in Seq(RunRow) /\ Len(runs') = Len(runs) + 1 /\ DOMAIN runs' = 1 .. Len(runs) + 1
  <2>1. /\ Append(r, NewRow(TRUE)) \in Seq(RunRow) /\ Len(Append(r, NewRow(TRUE))) = Len(r) + 1
    BY <1>4, <1>5, AppendHas
  <2>2. runs' \in Seq(RunRow) /\ Len(runs') = Len(runs) + 1
    BY <1>3, <1>4, <2>1
  <2> QED  BY <2>2, LenProperties
<1>7. cycle' \in Scene /\ cycle'.left = <<>> /\ cycle'.run = Len(runs) + 1 /\ Placing'
  <2> DEFINE n == Len(runs) + 1
  <2>1. cycle' = [NoCycle EXCEPT !.at = "gather", !.run = n, !.day = day]
    BY DEF StartCycle
  <2>2. n \in Nat
    BY <1>2
  <2> HIDE DEF n
  <2>3. cycle' \in Scene /\ cycle'.left = <<>> /\ cycle'.run = n /\ Placing'
    BY <1>2, <2>1, <2>2, NoCycleIs DEF Scene, Placing
  <2> QED  BY <2>3 DEF n
<1>8. Consistent(cycle'.left) /\ Share(cycle'.left)
  BY <1>1, <1>7
<1>9. cycle'.run \in 0 .. Len(runs') /\ cycle'.run \in DOMAIN runs'
  BY <1>2, <1>6, <1>7
<1>10. UNCHANGED <<worldVars, cycled>>
  BY DEF StartCycle
<1> QED  BY <1>6, <1>7, <1>8, <1>9, <1>10, CycleOnlyStep

LEMMA GatherKeeps ==
  ASSUME PlanningInv, Gather  PROVE PlanningInv'
<1>1. /\ cycle \in Scene /\ runs \in Seq(RunRow) /\ cycle.run \in 0 .. Len(runs)
      /\ cycle.run \in DOMAIN runs /\ Consistent(cycle.left) /\ Share(cycle.left)
  BY PlanningFacts DEF Gather
<1>2. calendar \subseteq (PlannedTasks \union {Other}) \X Blocks
  BY DEF PlanningInv, PlanningTypes, PlanningTypeOK
<1>3. PICK r \in BOOLEAN, w \in BOOLEAN :
        cycle' = [cycle EXCEPT !.at = "plan", !.readable = r, !.team = w,
                               !.busy = IF r THEN calendar ELSE {}]
  BY DEF Gather
<1>4. cycle' \in Scene /\ cycle'.left = cycle.left /\ cycle'.run = cycle.run /\ Placing'
  <2> DEFINE b == IF r THEN calendar ELSE {}
  <2>1. b \in SUBSET ((PlannedTasks \union {Other}) \X Blocks)
    BY <1>2
  <2> HIDE DEF b
  <2>2. cycle' = [cycle EXCEPT !.at = "plan", !.readable = r, !.team = w, !.busy = b]
    BY <1>3 DEF b
  <2> QED  BY <1>1, <2>1, <2>2 DEF Scene, Placing
<1>5. Consistent(cycle'.left) /\ Share(cycle'.left)
  BY <1>1, <1>4
<1>6. UNCHANGED <<worldVars, cycled>> /\ runs' = runs
  BY DEF Gather
<1> QED  BY <1>1, <1>4, <1>5, <1>6, CycleOnlyStep

LEMMA PlanKeeps ==
  ASSUME PlanningInv, Plan  PROVE PlanningInv'
<1>1. /\ cycle \in Scene /\ runs \in Seq(RunRow) /\ cycle.run \in 0 .. Len(runs)
      /\ cycle.run \in DOMAIN runs /\ cycle.at # "none"
  BY PlanningFacts DEF Plan
<1>2. UNCHANGED <<worldVars, cycled>> /\ runs' = runs
  BY DEF Plan
<1>3. CASE cycle' = Failing
  BY <1>1, <1>2, <1>3, RowEnds
<1>4. ASSUME NEW plan \in Plans,
             cycle' = [NoCycle EXCEPT !.at = "propose", !.run = cycle.run, !.left = Accepted(plan)]
      PROVE  PlanningInv'
  <2>1. plan \in Seq(Proposal)
    BY PlanningAssumption
  <2>2. \A k \in Daily : cycled[k] <= made.today[k] /\ cycled[k] <= DailyCap[k]
    BY NothingLeft DEF PlanningInv
  <2>3. PlanningTypes
    BY DEF PlanningInv
  <2>4. Accepted(plan) \in Seq(Proposal) /\ Consistent(Accepted(plan)) /\ Share(Accepted(plan))
    BY <2>1, <2>2, <2>3, AcceptedIs
  <2>5. cycle' \in Scene /\ cycle'.left = Accepted(plan) /\ cycle'.run = cycle.run /\ Placing'
    BY <1>1, <1>4, <2>4 DEF NoCycle, Scene, Placing
  <2>6. Consistent(cycle'.left) /\ Share(cycle'.left)
    BY <2>4, <2>5
  <2> QED  BY <1>1, <1>2, <2>5, <2>6, CycleOnlyStep
<1> QED  BY <1>3, <1>4 DEF Plan

LEMMA CompleteKeeps ==
  ASSUME PlanningInv, Complete  PROVE PlanningInv'
<1>1. /\ UNCHANGED <<worldVars, cycled>> /\ cycle.at = "propose" /\ (cycle' = NoCycle \/ cycle' = Failing)
      /\ UNCHANGED runs \/ runs' = [runs EXCEPT ![cycle.run].status = "completed"]
  BY DEF Complete
<1> QED  BY <1>1, RowEnds

LEMMA FailRunKeeps ==
  ASSUME PlanningInv, FailRun  PROVE PlanningInv'
<1>1. /\ UNCHANGED <<worldVars, cycled>> /\ cycle.at = "failing" /\ cycle' = NoCycle
      /\ runs' = [runs EXCEPT ![cycle.run].status = IF @ = "running" THEN "failed" ELSE @]
  BY DEF FailRun
<1>2. cycle.run \in DOMAIN runs /\ runs[cycle.run] \in RunRow
  BY <1>1, PlanningFacts
<1> DEFINE x == IF runs[cycle.run].status = "running" THEN "failed" ELSE runs[cycle.run].status
<1>3. x \in {"running", "completed", "failed"}
  BY <1>2 DEF RunRow
<1>4. runs' = [runs EXCEPT ![cycle.run].status = x]
  BY <1>1
<1> HIDE DEF x
<1> QED  BY <1>1, <1>3, <1>4, RowEnds

LEMMA StopServerKeeps ==
  ASSUME PlanningInv, StopServer  PROVE PlanningInv'
<1>1. UNCHANGED <<worldVars, cycled>> /\ cycle' = NoCycle /\ runs' = runs
  BY DEF StopServer
<1>2. <<>> \in Seq(Proposal) /\ Consistent(<<>>) /\ Share(<<>>)
  BY NothingLeft
<1>3. runs \in Seq(RunRow) /\ Len(runs) \in Nat
  BY PlanningFacts
<1>4. cycle' \in Scene /\ cycle'.left = <<>> /\ cycle'.run = 0 /\ cycle'.at = "none" /\ Placing'
  BY <1>1, NoCycleIs DEF Placing
<1>5. Consistent(cycle'.left) /\ Share(cycle'.left)
  BY <1>2, <1>4
<1> QED  BY <1>1, <1>3, <1>4, <1>5, CycleOnlyStep

\* ... a run of a conversation, which touches no cycle, ...
LEMMA ConverseKeeps ==
  ASSUME PlanningInv, Converse  PROVE PlanningInv'
<1>1. /\ cycle \in Scene /\ runs \in Seq(RunRow) /\ Len(runs) \in Nat /\ DOMAIN runs = 1 .. Len(runs)
      /\ cycle.run \in 0 .. Len(runs) /\ (cycle.at = "none" \/ cycle.run \in DOMAIN runs)
      /\ Consistent(cycle.left) /\ Share(cycle.left) /\ Placing
  BY PlanningFacts
<1>2. UNCHANGED <<worldVars, cycled>> /\ cycle' = cycle
  BY DEF Converse
<1> DEFINE Longer == /\ runs' \in Seq(RunRow) /\ DOMAIN runs \subseteq DOMAIN runs'
                     /\ Len(runs) <= Len(runs') /\ Len(runs') \in Nat
<1>3. Longer
  <2>1. ASSUME NEW r \in AfterStale(runs), runs' = Append(r, NewRow(FALSE)) PROVE Longer
    <3>1. r \in Seq(RunRow) /\ Len(r) = Len(runs) /\ NewRow(FALSE) \in RunRow
      BY <1>1, AfterStaleIs DEF NewRow, RunRow
    <3>2. Append(r, NewRow(FALSE)) \in Seq(RunRow) /\ Len(Append(r, NewRow(FALSE))) = Len(r) + 1
      BY <3>1, AppendHas
    <3>3. runs' \in Seq(RunRow) /\ Len(runs') = Len(runs) + 1
      BY <2>1, <3>1, <3>2
    <3> QED  BY <1>1, <3>3, LenProperties
  <2>2. ASSUME NEW i \in DOMAIN runs, runs' = [runs EXCEPT ![i].status = "completed"] PROVE Longer
    <3>1. runs' \in Seq(RunRow) /\ DOMAIN runs' = DOMAIN runs /\ Len(runs') = Len(runs)
      BY <1>1, <2>2, RowIsSet
    <3> QED  BY <1>1, <3>1
  <2> HIDE DEF Longer
  <2> QED  BY <2>1, <2>2, Zenon DEF Converse
<1>4. cycle'.run \in 0 .. Len(runs') /\ (cycle'.at = "none" \/ cycle'.run \in DOMAIN runs')
  BY <1>1, <1>2, <1>3
<1>5. Consistent(cycle'.left) /\ Share(cycle'.left) /\ Placing'
  BY <1>1, <1>2 DEF Placing
<1> QED  BY <1>1, <1>2, <1>3, <1>4, <1>5, CycleOnlyStep

\* A step of the world, by the cycle or meanwhile, that leaves its rows alone and
\* keeps what is still to be done within the day.
LEMMA WorldStep ==
  ASSUME PlanningInv, UNCHANGED runs, cycle' \in Scene, cycle'.run = cycle.run,
         cycle'.at = cycle.at \/ cycle.at # "none", Consistent(cycle'.left), Placing',
         open' \subseteq PlannedTasks, block' \in [PlannedTasks -> Blocks \union {NoBlock}],
         event' \in [PlannedTasks -> Blocks \union {NoBlock}],
         calendar' \subseteq (PlannedTasks \union {Other}) \X Blocks,
         ticket' \in [PlannedTasks -> TicketStates],
         known' \subseteq Kinds \X Topics, asked' \subseteq Agents \X Topics,
         quiet' \subseteq {"hire", "reorg"}, working' \subseteq Agents, day' \in 0 .. MaxDays,
         made' \in [today : [Daily -> Nat], yesterday : [Daily -> Nat]], cycled' \in [Daily -> Nat],
         \A k \in Daily : cycled'[k] <= made'.today[k]
                          /\ cycled'[k] + CountKind(cycle'.left, k) <= DailyCap[k]
  PROVE  PlanningInv'
<1>1. cycle'.left \in Seq(Proposal) /\ cycle'.at \in {"none", "gather", "plan", "propose", "call", "record", "failing"}
  BY DEF Scene
<1>2. made'.today \in [Daily -> Nat] /\ made'.yesterday \in [Daily -> Nat]
  OBVIOUS
<1>3. runs' \in Seq(RunRow) /\ cycle'.run \in 0 .. Len(runs') /\ (cycle'.at = "none" \/ cycle'.run \in DOMAIN runs')
  BY PlanningFacts
<1>4. PlanningTypeOK'
  BY <1>1, <1>2, <1>3 DEF PlanningTypeOK, RunRow
<1>5. PlanningTypes'
  BY <1>3, <1>4 DEF PlanningTypes
<1>6. Share(cycle.left)' /\ (\A k \in Daily : cycled[k] <= made.today[k])' /\ Consistent(cycle.left)'
  BY DEF Share, Consistent
<1> QED  BY <1>5, <1>6 DEF PlanningInv

\* What the world is made of, before a step of it.
LEMMA WorldFacts ==
  ASSUME PlanningInv
  PROVE  /\ cycle \in Scene /\ Consistent(cycle.left) /\ cycle.left \in Seq(Proposal)
         /\ open \subseteq PlannedTasks /\ block \in [PlannedTasks -> Blocks \union {NoBlock}]
         /\ calendar \subseteq (PlannedTasks \union {Other}) \X Blocks
         /\ ticket \in [PlannedTasks -> TicketStates]
         /\ known \subseteq Kinds \X Topics /\ asked \subseteq Agents \X Topics
         /\ quiet \subseteq {"hire", "reorg"} /\ working \subseteq Agents /\ day \in 0 .. MaxDays
         /\ made \in [today : [Daily -> Nat], yesterday : [Daily -> Nat]] /\ cycled \in [Daily -> Nat]
         /\ (\A k \in Daily : cycled[k] <= made.today[k]
                             /\ cycled[k] + CountKind(cycle.left, k) <= DailyCap[k])
         /\ event \in [PlannedTasks -> Blocks \union {NoBlock}] /\ Placing
         /\ (\A k : CountKind(cycle.left, k) \in Nat) /\ (\A k \in Daily : DailyCap[k] \in Nat)
<1>1. cycle.left \in Seq(Proposal)
  BY DEF PlanningInv, PlanningTypes, PlanningTypeOK
<1>2. (\A k : CountKind(cycle.left, k) \in Nat) /\ (\A k \in Daily : DailyCap[k] \in Nat)
  BY <1>1, CountIs, PlanningAssumption
<1> QED  BY <1>1, <1>2 DEF PlanningInv, PlanningTypes, PlanningTypeOK, Share

\* ... and what Alex and the specialists do in between.
LEMMA MeanwhileKeeps ==
  ASSUME PlanningInv, Meanwhile  PROVE PlanningInv'
<1> USE WorldFacts
<1>1. ASSUME NEW t \in PlannedTasks, CloseTask(t) PROVE PlanningInv'
  <2>1. /\ open' = open \ {t}
        /\ UNCHANGED <<block, event, calendar, ticket, known, asked, quiet, working, made, day, runs, cycle, cycled>>
    BY <1>1 DEF CloseTask
  <2> QED  BY <2>1, WorldStep DEF Placing
<1>2. ASSUME NEW b \in Blocks, Book(b) PROVE PlanningInv'
  <2>1. /\ calendar' = calendar \union {<<Other, b>>}
        /\ UNCHANGED <<open, block, event, ticket, known, asked, quiet, working, made, day, runs, cycle, cycled>>
    BY <1>2 DEF Book
  <2>2. calendar' \subseteq (PlannedTasks \union {Other}) \X Blocks
    BY <2>1
  <2> QED  BY <2>1, <2>2, WorldStep DEF Placing
<1>3. ASSUME NEW a \in Agents, Report(a) PROVE PlanningInv'
  <2>1. /\ working' = working \ {a}
        /\ UNCHANGED <<open, block, event, calendar, ticket, known, asked, quiet, made, day, runs, cycle, cycled>>
    BY <1>3 DEF Report
  <2> QED  BY <2>1, WorldStep DEF Placing
<1>4. ASSUME Midnight PROVE PlanningInv'
  <2>1. /\ day < MaxDays /\ day' = day + 1
        /\ made' = [today |-> Zero, yesterday |-> made.today] /\ cycled' = Zero
        /\ UNCHANGED <<open, block, event, calendar, ticket, known, asked, quiet, working, runs, cycle>>
    BY <1>4 DEF Midnight
  <2>2. Zero \in [Daily -> Nat] /\ \A k \in Daily : Zero[k] = 0
    BY DEF Zero
  <2>3. made' \in [today : [Daily -> Nat], yesterday : [Daily -> Nat]] /\ made'.today = Zero
    BY <2>1, <2>2
  <2>4. day' \in 0 .. MaxDays
    BY <2>1, PlanningAssumption
  <2>5. ASSUME NEW k \in Daily
        PROVE  cycled'[k] <= made'.today[k] /\ cycled'[k] + CountKind(cycle'.left, k) <= DailyCap[k]
    <3>1. cycled'[k] = 0 /\ made'.today[k] = 0
      BY <2>1, <2>2, <2>3
    <3>2. cycled[k] \in Nat /\ cycled[k] + CountKind(cycle.left, k) <= DailyCap[k]
          /\ CountKind(cycle.left, k) \in Nat /\ DailyCap[k] \in Nat
      OBVIOUS
    <3>3. cycle'.left = cycle.left
      BY <2>1
    <3> QED  BY <3>1, <3>2, <3>3
  <2>6. cycled' \in [Daily -> Nat]
    BY <2>1, <2>2
  <2> QED  BY <2>1, <2>3, <2>4, <2>5, <2>6, WorldStep DEF Placing
<1>5. ASSUME NEW t \in PlannedTasks, Ship(t) PROVE PlanningInv'
  <2>1. /\ open' = open \ {t} /\ ticket' = [ticket EXCEPT ![t] = "done"]
        /\ UNCHANGED <<block, event, calendar, known, asked, quiet, working, made, day, runs, cycle, cycled>>
    BY <1>5 DEF Ship
  <2>2. ticket' \in [PlannedTasks -> TicketStates]
    BY <2>1 DEF TicketStates
  <2> QED  BY <2>1, <2>2, WorldStep DEF Placing
<1> QED  BY <1>1, <1>2, <1>3, <1>4, <1>5, ConverseKeeps DEF Meanwhile

-----------------------------------------------------------------------------
\* A proposal is carried out: what is left of the plan is less by it.
LEMMA ProposeKeeps ==
  ASSUME PlanningInv, Propose  PROVE PlanningInv'
<1> DEFINE p == Head(cycle.left)
           rest == Tail(cycle.left)
<1>1. cycle.at = "propose" /\ cycle.left # <<>> /\ UNCHANGED <<open, block, event, calendar, day, runs>>
  BY DEF Propose
<1>2. /\ cycle \in Scene /\ Consistent(cycle.left) /\ cycle.left \in Seq(Proposal)
      /\ open \subseteq PlannedTasks /\ block \in [PlannedTasks -> Blocks \union {NoBlock}]
      /\ event \in [PlannedTasks -> Blocks \union {NoBlock}]
      /\ calendar \subseteq (PlannedTasks \union {Other}) \X Blocks
      /\ ticket \in [PlannedTasks -> TicketStates]
      /\ known \subseteq Kinds \X Topics /\ asked \subseteq Agents \X Topics
      /\ quiet \subseteq {"hire", "reorg"} /\ working \subseteq Agents /\ day \in 0 .. MaxDays
      /\ made \in [today : [Daily -> Nat], yesterday : [Daily -> Nat]] /\ cycled \in [Daily -> Nat]
      /\ runs \in Seq(RunRow) /\ cycle.run \in DOMAIN runs
  BY <1>1, WorldFacts, PlanningFacts
<1>3. /\ (\A k \in Daily : /\ cycled[k] \in Nat /\ made.today[k] \in Nat /\ DailyCap[k] \in Nat
                          /\ cycled[k] <= made.today[k]
                          /\ cycled[k] + CountKind(cycle.left, k) <= DailyCap[k])
      /\ (\A k : CountKind(cycle.left, k) \in Nat)
  BY WorldFacts
<1>4. rest \in Seq(Proposal) /\ p \in Proposal /\ Consistent(rest) /\ Worthy(p)
  BY <1>1, <1>2, TailConsistent
<1>5. \A k : CountKind(rest, k) \in Nat
            /\ CountKind(rest, k) + (IF p.kind = k THEN 1 ELSE 0) = CountKind(cycle.left, k)
  BY <1>1, <1>2, <1>4, CountIs, CountTail
<1>6. p.kind \in Kinds /\ p.who \in SUBSET Agents
  BY <1>4 DEF Proposal
<1>7. CASE cycle' = Failing /\ UNCHANGED <<ticket, known, asked, quiet, working, made, cycled>>
  <2>1. UNCHANGED <<worldVars, cycled>> /\ UNCHANGED runs
    BY <1>1, <1>7 DEF worldVars
  <2> QED  BY <1>1, <1>7, <2>1, RowEnds
<1> HIDE DEF p, rest
<1>8. ASSUME DealtWith
      PROVE  /\ cycle' \in Scene /\ cycle'.run = cycle.run /\ cycle'.at = "propose" /\ cycle'.left = rest
             /\ Placing'
  <2>1. cycle' \in Scene /\ cycle'.run = cycle.run /\ cycle'.at = "propose" /\ cycle'.left = rest
    BY <1>2, <1>4, <1>8 DEF Scene, rest, DealtWith
  <2> QED  BY <2>1 DEF Placing
<1>9. ASSUME cycled' = cycled /\ made' = made, cycle'.left = rest
      PROVE  \A k \in Daily : cycled'[k] <= made'.today[k]
                              /\ cycled'[k] + CountKind(cycle'.left, k) <= DailyCap[k]
  <2> TAKE k \in Daily
  <2>1. CountKind(rest, k) <= CountKind(cycle.left, k) /\ CountKind(rest, k) \in Nat
    BY <1>3, <1>5
  <2> QED  BY <1>3, <1>9, <2>1
<1>10. ASSUME p.kind \in Daily, made' = CountedMade(p), cycled' = [cycled EXCEPT ![p.kind] = @ + 1],
              cycle'.left = rest
       PROVE  /\ made' \in [today : [Daily -> Nat], yesterday : [Daily -> Nat]] /\ cycled' \in [Daily -> Nat]
              /\ \A k \in Daily : cycled'[k] <= made'.today[k]
                                 /\ cycled'[k] + CountKind(cycle'.left, k) <= DailyCap[k]
  <2> DEFINE n == IF p.kind = "review" THEN Cardinality(p.who) ELSE 1
             all == [made.today EXCEPT ![p.kind] = @ + n]
  <2>1. n \in Nat /\ n >= 1
    <3>1. Cardinality(p.who) \in Nat
      BY <1>6, PlanningAssumption, FS_Subset, FS_CardinalityType
    <3> QED  BY <1>4, <3>1 DEF Worthy
  <2> HIDE DEF n
  <2>2. made.today \in [Daily -> Nat] /\ made.yesterday \in [Daily -> Nat]
    BY <1>2
  <2>3. /\ all \in [Daily -> Nat] /\ all[p.kind] = made.today[p.kind] + n
        /\ \A k \in Daily : k # p.kind => all[k] = made.today[k]
    BY <1>10, <2>1, <2>2
  <2>4. made' = [made EXCEPT !.today = all]
    BY <1>10 DEF CountedMade, n
  <2> HIDE DEF all
  <2>5. made' \in [today : [Daily -> Nat], yesterday : [Daily -> Nat]] /\ made'.today = all
    BY <1>2, <2>3, <2>4
  <2>6. /\ cycled' \in [Daily -> Nat] /\ cycled'[p.kind] = cycled[p.kind] + 1
        /\ \A k \in Daily : k # p.kind => cycled'[k] = cycled[k]
    BY <1>2, <1>10
  <2>7. ASSUME NEW k \in Daily
        PROVE  cycled'[k] <= made'.today[k] /\ cycled'[k] + CountKind(cycle'.left, k) <= DailyCap[k]
    <3>1. CASE k = p.kind
      <4>1. CountKind(rest, k) + 1 = CountKind(cycle.left, k) /\ CountKind(rest, k) \in Nat
        BY <1>5, <3>1
      <4> QED  BY <1>3, <1>10, <2>1, <2>3, <2>5, <2>6, <3>1, <4>1
    <3>2. CASE k # p.kind
      <4>1. CountKind(rest, k) = CountKind(cycle.left, k) /\ CountKind(rest, k) \in Nat
        BY <1>5, <3>2
      <4> QED  BY <1>3, <1>10, <2>3, <2>5, <2>6, <3>2, <4>1
    <3> QED  BY <3>1, <3>2
  <2> QED  BY <2>5, <2>6, <2>7
<1>11. ASSUME DealtWith, Effect(p) PROVE PlanningInv'
  <2>1. cycle' \in Scene /\ cycle'.run = cycle.run /\ cycle'.at = "propose" /\ cycle'.left = rest /\ Placing'
    BY <1>8, <1>11
  <2>2. ASSUME WriteDown(p) PROVE PlanningInv'
    <3>1. /\ p.kind \in {"task", "followup", "ask"} /\ known' = known \union {<<p.kind, p.topic>>}
          /\ UNCHANGED <<ticket, asked, quiet, working, made, cycled>>
      BY <2>2 DEF WriteDown
    <3>2. known' \subseteq Kinds \X Topics
      BY <1>2, <1>4, <1>6, <3>1 DEF Worthy
    <3>3. \A k \in Daily : cycled'[k] <= made'.today[k]
                           /\ cycled'[k] + CountKind(cycle'.left, k) <= DailyCap[k]
      BY <1>9, <2>1, <3>1
    <3> QED  BY <1>1, <1>2, <1>4, <2>1, <3>1, <3>2, <3>3, WorldStep
  <2>3. ASSUME CommissionWork(p) PROVE PlanningInv'
    <3>1. /\ p.kind \in {"delegate", "review"} /\ working' = working \union p.who
          /\ asked' = asked \union {<<a, p.topic>> : a \in p.who}
          /\ made' = CountedMade(p) /\ cycled' = [cycled EXCEPT ![p.kind] = @ + 1]
          /\ UNCHANGED <<ticket, known, quiet>>
      BY <2>3 DEF CommissionWork
    <3>2. p.topic \in Topics
      BY <1>4, <3>1 DEF Worthy
    <3>3. working' \subseteq Agents /\ asked' \subseteq Agents \X Topics
      BY <1>2, <1>6, <3>1, <3>2
    <3>4. /\ made' \in [today : [Daily -> Nat], yesterday : [Daily -> Nat]] /\ cycled' \in [Daily -> Nat]
          /\ \A k \in Daily : cycled'[k] <= made'.today[k]
                             /\ cycled'[k] + CountKind(cycle'.left, k) <= DailyCap[k]
      BY <1>10, <2>1, <3>1 DEF Daily
    <3> QED  BY <1>1, <1>2, <1>4, <2>1, <3>1, <3>3, <3>4, WorldStep
  <2>4. ASSUME OpenTicket(p) PROVE PlanningInv'
    <3>1. PICK state \in {"half", "open"} : ticket' = [ticket EXCEPT ![p.task] = state]
      BY <2>4 DEF OpenTicket
    <3>2. /\ p.kind = "ticket" /\ UNCHANGED <<known, asked, quiet, working>>
          /\ \/ made' = CountedMade(p) /\ cycled' = [cycled EXCEPT ![p.kind] = @ + 1]
             \/ made' = made /\ cycled' = cycled
      BY <2>4 DEF OpenTicket
    <3>3. ticket' \in [PlannedTasks -> TicketStates]
      BY <1>2, <3>1 DEF TicketStates
    <3>4. /\ made' \in [today : [Daily -> Nat], yesterday : [Daily -> Nat]] /\ cycled' \in [Daily -> Nat]
          /\ \A k \in Daily : cycled'[k] <= made'.today[k]
                             /\ cycled'[k] + CountKind(cycle'.left, k) <= DailyCap[k]
      <4>1. CASE made' = made /\ cycled' = cycled
        BY <1>2, <1>9, <2>1, <4>1
      <4>2. CASE made' = CountedMade(p) /\ cycled' = [cycled EXCEPT ![p.kind] = @ + 1]
        BY <1>10, <2>1, <3>2, <4>2 DEF Daily
      <4> QED  BY <3>2, <4>1, <4>2
    <3> QED  BY <1>1, <1>2, <1>4, <2>1, <3>2, <3>3, <3>4, WorldStep
  <2>5. ASSUME AskApproval(p) PROVE PlanningInv'
    <3>1. /\ p.kind \in {"hire", "reorg"} /\ quiet' = quiet \union {p.kind}
          /\ UNCHANGED <<ticket, known, asked, working, made, cycled>>
      BY <2>5 DEF AskApproval
    <3>2. \A k \in Daily : cycled'[k] <= made'.today[k]
                           /\ cycled'[k] + CountKind(cycle'.left, k) <= DailyCap[k]
      BY <1>9, <2>1, <3>1
    <3>3. quiet' \subseteq {"hire", "reorg"}
      BY <1>2, <3>1
    <3> QED  BY <1>1, <1>2, <1>4, <2>1, <3>1, <3>2, <3>3, WorldStep
  <2> QED  BY <1>11, <2>2, <2>3, <2>4, <2>5 DEF Effect
<1>12. ASSUME DealtWith, UNCHANGED <<ticket, known, asked, quiet, working, made, cycled>>
       PROVE  PlanningInv'
  <2>1. cycle' \in Scene /\ cycle'.run = cycle.run /\ cycle'.at = "propose" /\ cycle'.left = rest /\ Placing'
    BY <1>8, <1>12
  <2>2. \A k \in Daily : cycled'[k] <= made'.today[k]
                         /\ cycled'[k] + CountKind(cycle'.left, k) <= DailyCap[k]
    BY <1>9, <1>12, <2>1
  <2> QED  BY <1>1, <1>2, <1>4, <1>12, <2>1, <2>2, WorldStep
<1>13. \/ DealtWith /\ Effect(p)
       \/ GivenUp /\ UNCHANGED <<ticket, known, asked, quiet, working, made, cycled>>
  BY Zenon DEF Propose, p
<1> QED  BY <1>7, <1>11, <1>12, <1>13 DEF GivenUp

\* What a cycle does at Google: the first of what is left stays there, is dealt
\* with, or ends the cycle.
LEMMA AtGoogleStep ==
  ASSUME PlanningInv, cycle.left # <<>>, cycle.at # "none", GivenUp,
         block' \in [PlannedTasks -> Blocks \union {NoBlock}],
         event' \in [PlannedTasks -> Blocks \union {NoBlock}],
         calendar' \subseteq (PlannedTasks \union {Other}) \X Blocks,
         UNCHANGED <<open, ticket, known, asked, quiet, working, made, day, runs, cycled>>
  PROVE  PlanningInv'
<1>1. /\ cycle \in Scene /\ cycle.left \in Seq(Proposal) /\ Consistent(cycle.left)
      /\ Tail(cycle.left) \in Seq(Proposal) /\ Consistent(Tail(cycle.left))
  BY WorldFacts, TailConsistent
<1>2. /\ cycle' \in Scene /\ Consistent(cycle'.left) /\ Placing' /\ cycle'.run = cycle.run
      /\ cycle'.left = Tail(cycle.left) \/ cycle'.left = <<>>
  <2>1. CASE DealtWith
    <3>1. /\ cycle' \in Scene /\ cycle'.left = Tail(cycle.left) /\ cycle'.run = cycle.run
          /\ cycle'.at = "propose"
      BY <1>1, <2>1 DEF DealtWith, Scene
    <3> QED  BY <1>1, <3>1 DEF Placing
  <2>2. CASE cycle' = Failing
    <3>1. <<>> \in Seq(Proposal) /\ Consistent(<<>>)
      BY NothingLeft
    <3>2. /\ cycle' \in Scene /\ cycle'.left = <<>> /\ cycle'.run = cycle.run /\ cycle'.at = "failing"
      BY <1>1, <2>2, <3>1, NoCycleIs DEF Failing, Scene
    <3> QED  BY <3>1, <3>2 DEF Placing
  <2> QED  BY <2>1, <2>2 DEF GivenUp
<1>3. ASSUME NEW k \in Daily
      PROVE  cycled'[k] <= made'.today[k] /\ cycled'[k] + CountKind(cycle'.left, k) <= DailyCap[k]
  <2>1. CountKind(cycle'.left, k) \in Nat /\ CountKind(cycle'.left, k) <= CountKind(cycle.left, k)
    <3>1. CASE cycle'.left = Tail(cycle.left)
      <4>1. /\ CountKind(Tail(cycle.left), k) \in Nat /\ CountKind(cycle.left, k) \in Nat
            /\ CountKind(Tail(cycle.left), k) + (IF Head(cycle.left).kind = k THEN 1 ELSE 0)
                 = CountKind(cycle.left, k)
        BY <1>1, CountIs, CountTail
      <4> QED  BY <3>1, <4>1
    <3>2. CASE cycle'.left = <<>>
      <4>1. CountKind(<<>>, k) = 0 /\ CountKind(cycle.left, k) \in Nat
        BY <1>1, EmptySeq, CountIs
      <4> QED  BY <3>2, <4>1
    <3> QED  BY <1>2, <3>1, <3>2
  <2>2. /\ cycled[k] <= made.today[k] /\ cycled[k] + CountKind(cycle.left, k) <= DailyCap[k]
        /\ cycled[k] \in Nat /\ CountKind(cycle.left, k) \in Nat /\ DailyCap[k] \in Nat
    BY WorldFacts
  <2> QED  BY <2>1, <2>2
<1> QED  BY <1>2, <1>3, WorldFacts, WorldStep

\* Google is asked for the first of what is left, ...
LEMMA CheckBlockKeeps ==
  ASSUME PlanningInv, CheckBlock  PROVE PlanningInv'
<1>1. /\ cycle \in Scene /\ runs \in Seq(RunRow) /\ cycle.run \in 0 .. Len(runs)
      /\ cycle.run \in DOMAIN runs /\ Consistent(cycle.left) /\ Share(cycle.left)
  BY PlanningFacts DEF CheckBlock
<1>2. /\ cycle.left # <<>> /\ Head(cycle.left).kind \in OnCalendar
      /\ cycle' = [cycle EXCEPT !.at = "call"] /\ UNCHANGED <<worldVars, runs, cycled>>
  BY DEF CheckBlock
<1>3. cycle' \in Scene /\ cycle'.left = cycle.left /\ cycle'.run = cycle.run
  BY <1>1, <1>2 DEF Scene
<1>4. Placing'
  BY <1>2, <1>3 DEF Placing
<1> QED  BY <1>1, <1>2, <1>3, <1>4, CycleOnlyStep

LEMMA CallGoogleKeeps ==
  ASSUME PlanningInv, CallGoogle  PROVE PlanningInv'
<1> DEFINE p == Head(cycle.left)
<1>1. /\ cycle.at = "call" /\ cycle.left # <<>> /\ p.kind \in OnCalendar
      /\ UNCHANGED <<open, block, ticket, known, asked, quiet, working, made, day, runs, cycled>>
  BY WorldFacts DEF CallGoogle, Placing
<1>2. p.task \in PlannedTasks /\ p.block \in Blocks
  <2>1. Worthy(p)
    BY <1>1, WorldFacts, TailConsistent
  <2> QED  BY <1>1, <2>1 DEF Worthy, OnCalendar
<1> HIDE DEF p
<1>3. /\ \/ cycle' = [cycle EXCEPT !.at = "record"] \/ GivenUp
      /\ \/ /\ calendar' = (calendar \ {<<p.task, event[p.task]>>}) \union {<<p.task, p.block>>}
            /\ event' = IF p.kind = "move" THEN [event EXCEPT ![p.task] = p.block] ELSE event
         \/ UNCHANGED <<calendar, event>>
  BY DEF CallGoogle, p
<1>4. /\ calendar' \subseteq (PlannedTasks \union {Other}) \X Blocks
      /\ event' \in [PlannedTasks -> Blocks \union {NoBlock}]
      /\ block' \in [PlannedTasks -> Blocks \union {NoBlock}]
  <2>1. /\ calendar \subseteq (PlannedTasks \union {Other}) \X Blocks
        /\ event \in [PlannedTasks -> Blocks \union {NoBlock}]
        /\ block' \in [PlannedTasks -> Blocks \union {NoBlock}]
    BY <1>1, WorldFacts
  <2>2. [event EXCEPT ![p.task] = p.block] \in [PlannedTasks -> Blocks \union {NoBlock}]
    BY <1>2, <2>1
  <2> QED  BY <1>2, <1>3, <2>1, <2>2
<1>5. CASE GivenUp
  BY <1>1, <1>4, <1>5, AtGoogleStep
<1>6. CASE cycle' = [cycle EXCEPT !.at = "record"]
  <2>1. cycle \in Scene /\ Consistent(cycle.left)
    BY WorldFacts
  <2>2. cycle' \in Scene /\ cycle'.left = cycle.left /\ cycle'.run = cycle.run
    BY <1>6, <2>1 DEF Scene
  <2>3. Placing' /\ Consistent(cycle'.left)
    BY <1>1, <2>1, <2>2 DEF Placing, p
  <2> QED  BY <1>1, <1>4, <2>2, <2>3, WorldFacts, WorldStep
<1> QED  BY <1>3, <1>5, <1>6

\* ... and the row is set.
LEMMA RecordBlockKeeps ==
  ASSUME PlanningInv, RecordBlock  PROVE PlanningInv'
<1> DEFINE p == Head(cycle.left)
<1>1. /\ cycle.at = "record" /\ cycle.left # <<>> /\ p.kind \in OnCalendar /\ GivenUp
      /\ UNCHANGED <<open, calendar, ticket, known, asked, quiet, working, made, day, runs, cycled>>
  BY WorldFacts DEF RecordBlock, Placing, GivenUp
<1>2. p.task \in PlannedTasks /\ p.block \in Blocks
  <2>1. Worthy(p)
    BY <1>1, WorldFacts, TailConsistent
  <2> QED  BY <1>1, <2>1 DEF Worthy, OnCalendar
<1> HIDE DEF p
<1>3. \/ block' = [block EXCEPT ![p.task] = p.block] /\ event' = [event EXCEPT ![p.task] = p.block]
      \/ UNCHANGED <<block, event>>
  BY DEF RecordBlock, p
<1>4. /\ calendar' \subseteq (PlannedTasks \union {Other}) \X Blocks
      /\ event' \in [PlannedTasks -> Blocks \union {NoBlock}]
      /\ block' \in [PlannedTasks -> Blocks \union {NoBlock}]
  BY <1>1, <1>2, <1>3, WorldFacts
<1> QED  BY <1>1, <1>4, AtGoogleStep

LEMMA PlanningStep ==
  ASSUME PlanningInv, [PlanningNext]_planningVars  PROVE PlanningInv'
<1>1. CASE UNCHANGED planningVars
  <2>1. /\ cycle \in Scene /\ runs \in Seq(RunRow) /\ cycle.run \in 0 .. Len(runs)
        /\ (cycle.at = "none" \/ cycle.run \in DOMAIN runs)
        /\ Consistent(cycle.left) /\ Share(cycle.left) /\ Placing
    BY PlanningFacts
  <2>2. UNCHANGED <<worldVars, cycled>> /\ runs' = runs /\ cycle' = cycle
    BY <1>1 DEF planningVars
  <2> QED  BY <2>1, <2>2, CycleOnlyStep DEF Placing
<1>2. CASE PlanningNext
  BY <1>2, StartCycleKeeps, GatherKeeps, PlanKeeps, ProposeKeeps, CheckBlockKeeps, CallGoogleKeeps,
     RecordBlockKeeps, CompleteKeeps, FailRunKeeps, StopServerKeeps, MeanwhileKeeps DEF PlanningNext, CycleStep
<1> QED  BY <1>1, <1>2

\* What the invariant gives of what the runs check.
LEMMA PlanningShows ==
  ASSUME PlanningInv
  PROVE  PlanningTypeOK /\ PlanningIsSound
<1>1. PlanningTypes /\ Consistent(cycle.left)
  BY DEF PlanningInv
<1>3. DayIsBounded
  BY NothingLeft DEF DayIsBounded
<1>4. PlanIsConsistent
  BY <1>1 DEF Consistent, PlanIsConsistent, Compatible, Accept
<1> QED  BY <1>1, <1>3, <1>4 DEF PlanningTypes, PlanningIsSound

\* A run that ended is no longer changed.
LEMMA EndedRunStep ==
  ASSUME PlanningInv, [PlanningNext]_planningVars, NEW i \in DOMAIN runs, runs[i].status # "running"
  PROVE  runs'[i] = runs[i]
<1>1. /\ runs \in Seq(RunRow) /\ Len(runs) \in Nat /\ DOMAIN runs = 1 .. Len(runs)
      /\ cycle.at = "none" \/ cycle.run \in DOMAIN runs
  BY PlanningFacts
<1>2. ASSUME NEW r \in AfterStale(runs), NEW b \in BOOLEAN, runs' = Append(r, NewRow(b))
      PROVE  runs'[i] = runs[i]
  <2>1. r \in Seq(RunRow) /\ Len(r) = Len(runs) /\ r[i] = runs[i] /\ NewRow(b) \in RunRow
    BY <1>1, AfterStaleIs DEF NewRow, RunRow
  <2>2. \A a \in 1 .. Len(r) : Append(r, NewRow(b))[a] = r[a]
    BY <2>1, AppendHas
  <2>3. i \in 1 .. Len(r)
    BY <1>1, <2>1
  <2> QED  BY <1>2, <2>1, <2>2, <2>3
<1>3. ASSUME NEW j \in DOMAIN runs, runs[j].status = "running",
             NEW x \in {"running", "completed", "failed"}, runs' = [runs EXCEPT ![j].status = x]
      PROVE  runs'[i] = runs[i]
  BY <1>1, <1>3, RowIsSet
<1>4. CASE runs' = runs
  BY <1>4
<1>5. ASSUME StartCycle PROVE runs'[i] = runs[i]
  BY <1>2, <1>5 DEF StartCycle
<1>6. ASSUME Complete PROVE runs'[i] = runs[i]
  <2>1. cycle.run \in DOMAIN runs
    BY <1>1, <1>6 DEF Complete
  <2> QED  BY <1>3, <1>6, <2>1 DEF Complete
<1>7. ASSUME FailRun PROVE runs'[i] = runs[i]
  <2>1. cycle.run \in DOMAIN runs
    BY <1>1, <1>7 DEF FailRun
  <2>2. CASE i = cycle.run
    <3>1. runs' = [runs EXCEPT ![i] = [runs[i] EXCEPT !.status =
                     IF runs[i].status = "running" THEN "failed" ELSE runs[i].status]]
      BY <1>7, <2>2 DEF FailRun
    <3>2. runs'[i] = [runs[i] EXCEPT !.status = runs[i].status]
      BY <1>1, <3>1
    <3>3. runs[i] \in RunRow
      BY <1>1, ElementOfSeq
    <3> QED  BY <3>2, <3>3 DEF RunRow
  <2>3. CASE i # cycle.run
    BY <1>1, <1>7, <2>1, <2>3 DEF FailRun
  <2> QED  BY <2>2, <2>3
<1>8. ASSUME Converse PROVE runs'[i] = runs[i]
  <2>1. ASSUME NEW j \in DOMAIN runs, runs[j] = NewRow(FALSE), runs' = [runs EXCEPT ![j].status = "completed"]
        PROVE  runs'[i] = runs[i]
    <3>1. runs[j].status = "running"
      BY <2>1 DEF NewRow
    <3> QED  BY <1>3, <2>1, <3>1
  <2> QED  BY <1>2, <1>8, <2>1, Zenon DEF Converse
<1>9. ASSUME \/ Gather \/ Plan \/ Propose \/ CheckBlock \/ CallGoogle \/ RecordBlock
             \/ StopServer \/ Midnight
      PROVE  runs' = runs
  BY <1>9 DEF Gather, Plan, Propose, CheckBlock, CallGoogle, RecordBlock, StopServer, Midnight
<1>10. ASSUME \/ \E t \in PlannedTasks : CloseTask(t) \/ Ship(t)
              \/ \E b \in Blocks : Book(b)
              \/ \E a \in Agents : Report(a)
       PROVE  runs' = runs
  BY <1>10 DEF CloseTask, Ship, Book, Report
<1>11. CASE UNCHANGED planningVars
  BY <1>11 DEF planningVars
<1> QED  BY <1>4, <1>5, <1>6, <1>7, <1>8, <1>9, <1>10, <1>11 DEF PlanningNext, CycleStep, Meanwhile

-----------------------------------------------------------------------------
(* Hiring.                                                                 *)

HireTicket == [of : Proposals, open : BOOLEAN, issue : BOOLEAN, requested : BOOLEAN]

HiringTypes ==
  /\ HiringTypeOK /\ tickets \in Seq(HireTicket) /\ Len(tickets) <= MaxTickets
  /\ toFollow \subseteq DOMAIN tickets

OnePost ==
  \A m, n \in DOMAIN tickets :
    (m # n /\ tickets[m].open /\ tickets[n].open)
      => <<tickets[m].of.id, tickets[m].of.post>> # <<tickets[n].of.id, tickets[n].of.post>>

\* A ticket that waits for its comment has one for each break at most.
CommentsAreFew ==
  \A n \in TicketNumbers :
    /\ commented[n] <= 1 + breaks
    /\ (n \in toFollow \/ (n \in DOMAIN tickets /\ tickets[n].of.id \notin followed)
        \/ n \notin DOMAIN tickets) => commented[n] <= breaks

HiringInv ==
  /\ HiringTypes /\ OnePost /\ CommentsAreFew
  /\ ValidRoster(rosterNow) /\ inCode \subseteq rosterNow

LEMMA HiringStart ==
  ASSUME HiringInit  PROVE HiringInv
<1>1. /\ asks = {} /\ tickets = <<>> /\ inCode = Founders
      /\ rosterNow = Refreshed(Founders, {}, Founders) /\ toFollow = {}
      /\ commented = [n \in TicketNumbers |-> 0] /\ breaks = 0
  BY DEF HiringInit
<1>2. <<>> \in Seq(HireTicket) /\ Len(<<>>) = 0 /\ DOMAIN <<>> = {}
  BY EmptySeq
<1>3. ValidRoster(Founders)
  BY HiringAssumption DEF ValidRoster
<1>4. ValidRoster(rosterNow) /\ inCode \subseteq rosterNow /\ rosterNow \subseteq inCode \union EarlierHires
  BY <1>1, <1>3 DEF Refreshed, Active
<1>5. HiringTypes
  BY <1>1, <1>2, <1>4, HiringAssumption DEF HiringTypes, HiringTypeOK
<1>6. OnePost /\ CommentsAreFew
  BY <1>1, <1>2 DEF OnePost, CommentsAreFew
<1> QED  BY <1>4, <1>5, <1>6 DEF HiringInv

\* A ticket's row is set, its proposal kept and nothing opened again.
LEMMA TicketIsSet ==
  ASSUME HiringInv, NEW n \in DOMAIN tickets, NEW e \in HireTicket, e.of = tickets[n].of,
         e.open => tickets[n].open, tickets' = [tickets EXCEPT ![n] = e]
  PROVE  /\ tickets' \in Seq(HireTicket) /\ Len(tickets') = Len(tickets) /\ DOMAIN tickets' = DOMAIN tickets
         /\ (\A m \in DOMAIN tickets : /\ tickets'[m] \in HireTicket /\ tickets'[m].of = tickets[m].of
                                     /\ tickets'[m].open => tickets[m].open)
         /\ OnePost'
<1>1. tickets \in Seq(HireTicket) /\ DOMAIN tickets = 1 .. Len(tickets)
  BY LenProperties DEF HiringInv, HiringTypes
<1>2. /\ tickets' \in Seq(HireTicket) /\ Len(tickets') = Len(tickets)
      /\ \A m \in 1 .. Len(tickets) : tickets'[m] = IF m = n THEN e ELSE tickets[m]
  BY <1>1, ExceptSeq
<1>3. DOMAIN tickets' = DOMAIN tickets
  BY <1>1, <1>2, LenProperties
<1>4. \A m \in DOMAIN tickets : /\ tickets'[m] \in HireTicket /\ tickets'[m].of = tickets[m].of
                              /\ tickets'[m].open => tickets[m].open
  BY <1>1, <1>2, ElementOfSeq
<1>5. OnePost'
  BY <1>3, <1>4 DEF HiringInv, OnePost
<1> QED  BY <1>2, <1>3, <1>4, <1>5

\* What depends on the tickets' proposals and on nothing else of them.
LEMMA CommentsKept ==
  ASSUME HiringInv, UNCHANGED <<commented, followed, breaks>>, toFollow' \subseteq toFollow,
         DOMAIN tickets \subseteq DOMAIN tickets',
         \A m \in DOMAIN tickets : tickets'[m].of = tickets[m].of
  PROVE  CommentsAreFew'
<1> SUFFICES ASSUME NEW n \in TicketNumbers
             PROVE  /\ commented[n] <= 1 + breaks
                    /\ (n \in toFollow' \/ (n \in DOMAIN tickets' /\ tickets'[n].of.id \notin followed)
                         \/ n \notin DOMAIN tickets') => commented[n] <= breaks
  BY DEF CommentsAreFew
<1> QED  BY DEF HiringInv, CommentsAreFew

\* What the invariant says, in the form the steps need.
LEMMA HiringFacts ==
  ASSUME HiringInv
  PROVE  /\ tickets \in Seq(HireTicket) /\ Len(tickets) \in Nat /\ Len(tickets) <= MaxTickets
         /\ DOMAIN tickets = 1 .. Len(tickets) /\ DOMAIN tickets \subseteq TicketNumbers
         /\ (\A n \in DOMAIN tickets : tickets[n] \in HireTicket)
         /\ asks \subseteq Proposals /\ rosterNow \subseteq inCode \union EarlierHires
         /\ toFollow \subseteq TicketNumbers /\ toFollow \subseteq DOMAIN tickets
         /\ commented \in [TicketNumbers -> Nat]
         /\ breaks \in 0 .. MaxBreaks /\ MaxTickets \in Nat /\ MaxBreaks \in Nat
         /\ ValidRoster(rosterNow) /\ inCode \subseteq rosterNow /\ OnePost /\ CommentsAreFew
<1>1. tickets \in Seq(HireTicket) /\ Len(tickets) <= MaxTickets /\ MaxTickets \in Nat /\ MaxBreaks \in Nat
  BY HiringAssumption DEF HiringInv, HiringTypes
<1>2. Len(tickets) \in Nat /\ DOMAIN tickets = 1 .. Len(tickets) /\ \A n \in DOMAIN tickets : tickets[n] \in HireTicket
  BY <1>1, LenProperties, ElementOfSeq
<1>3. DOMAIN tickets \subseteq TicketNumbers
  BY <1>1, <1>2 DEF TicketNumbers
<1> QED  BY <1>1, <1>2, <1>3 DEF HiringInv, HiringTypes, HiringTypeOK

\* A roster that is refreshed is valid and holds everybody in the code.
LEMMA RefreshedIs ==
  ASSUME NEW code, NEW left, NEW before, ValidRoster(before), code \subseteq before,
         before \subseteq code \union EarlierHires
  PROVE  LET R == Refreshed(code, left, before) IN
         ValidRoster(R) /\ code \subseteq R /\ R \subseteq code \union EarlierHires
BY DEF Refreshed, Active

\* What leaves the tickets and the comments alone.
LEMMA HiringElse ==
  ASSUME HiringInv, UNCHANGED <<tickets, commented, followed, breaks, toFollow>>,
         asks' \subseteq Proposals, inCode' = inCode, ValidRoster(rosterNow'), inCode \subseteq rosterNow',
         rosterNow' \subseteq inCode \union EarlierHires
  PROVE  HiringInv'
<1>1. HiringTypes' /\ OnePost'
  BY DEF HiringInv, HiringTypes, HiringTypeOK, OnePost
<1>2. CommentsAreFew'
  BY DEF HiringInv, CommentsAreFew
<1> QED  BY <1>1, <1>2 DEF HiringInv

\* What sets one ticket and leaves the rest.
LEMMA HiringTicket ==
  ASSUME HiringInv, NEW n \in DOMAIN tickets, NEW e \in HireTicket, e.of = tickets[n].of,
         e.open => tickets[n].open, tickets' = [tickets EXCEPT ![n] = e],
         UNCHANGED <<asks, commented, followed, breaks>>, toFollow' \subseteq toFollow,
         ValidRoster(rosterNow'), inCode' \subseteq rosterNow', rosterNow' \subseteq inCode' \union EarlierHires
  PROVE  HiringInv'
<1>1. /\ tickets' \in Seq(HireTicket) /\ Len(tickets') = Len(tickets) /\ DOMAIN tickets' = DOMAIN tickets
      /\ (\A m \in DOMAIN tickets : /\ tickets'[m] \in HireTicket /\ tickets'[m].of = tickets[m].of
                                  /\ tickets'[m].open => tickets[m].open)
      /\ OnePost'
  BY TicketIsSet
<1>2. CommentsAreFew'
  BY <1>1, CommentsKept
<1>3. HiringTypes'
  BY <1>1, HiringFacts DEF HiringTypes, HiringTypeOK, HireTicket
<1> QED  BY <1>1, <1>2, <1>3 DEF HiringInv

LEMMA HiringStep ==
  ASSUME HiringInv, [HiringNext]_hiringVars  PROVE HiringInv'
<1> USE HiringFacts
<1>1. ASSUME NEW p \in Proposals, ProposeHire(p) PROVE HiringInv'
  <2>1. /\ asks' = asks \union {p}
        /\ UNCHANGED <<tickets, inCode, rosterNow, gone, experienced, toFollow, commented, followed, breaks>>
    BY <1>1 DEF ProposeHire
  <2> QED  BY <2>1, HiringElse
<1>2. ASSUME NEW p \in Proposals, Commission(p) PROVE HiringInv'
  <2>1. /\ asks' = asks \ {p}
        /\ UNCHANGED <<inCode, rosterNow, gone, experienced, toFollow, commented, followed, breaks>>
    BY <1>2 DEF Commission
  <2>2. CASE tickets' = tickets
    BY <2>1, <2>2, HiringElse
  <2> DEFINE e == [of |-> p, open |-> TRUE, issue |-> FALSE, requested |-> FALSE]
  <2>3. CASE StillChecks(p) /\ Len(tickets) < MaxTickets /\ tickets' = Append(tickets, e)
    <3>1. e \in HireTicket /\ e.of = p
      BY DEF HireTicket
    <3> HIDE DEF e
    <3>2. /\ tickets' \in Seq(HireTicket) /\ Len(tickets') = Len(tickets) + 1
          /\ \A m \in 1 .. Len(tickets) : tickets'[m] = tickets[m]
          /\ tickets'[Len(tickets) + 1] = e
      <4>1. /\ Append(tickets, e) \in Seq(HireTicket) /\ Len(Append(tickets, e)) = Len(tickets) + 1
            /\ \A m \in 1 .. Len(tickets) : Append(tickets, e)[m] = tickets[m]
            /\ Append(tickets, e)[Len(tickets) + 1] = e
        BY <3>1, AppendHas
      <4> QED  BY <2>3, <4>1
    <3>3. DOMAIN tickets' = 1 .. Len(tickets) + 1 /\ \A m \in DOMAIN tickets' : tickets'[m] \in HireTicket
      BY <3>2, LenProperties, ElementOfSeq
    <3>4. OnePost'
      <4>1. \A m \in DOMAIN tickets : tickets[m].open =>
              <<tickets[m].of.id, tickets[m].of.post>> # <<p.id, p.post>>
        BY <2>3 DEF StillChecks, Checks
      <4> SUFFICES ASSUME NEW m \in DOMAIN tickets', NEW n \in DOMAIN tickets', m # n,
                          tickets'[m].open, tickets'[n].open
                   PROVE  <<tickets'[m].of.id, tickets'[m].of.post>> # <<tickets'[n].of.id, tickets'[n].of.post>>
        BY DEF OnePost
      <4>2. CASE m \in DOMAIN tickets /\ n \in DOMAIN tickets
        <5>1. tickets'[m] = tickets[m] /\ tickets'[n] = tickets[n]
          BY <3>2, <4>2
        <5> QED  BY <4>2, <5>1 DEF OnePost
      <4>3. CASE m = Len(tickets) + 1 /\ n \in DOMAIN tickets
        <5>1. tickets'[m] = e /\ tickets'[n] = tickets[n]
          BY <3>2, <4>3
        <5> QED  BY <3>1, <4>1, <4>3, <5>1
      <4>4. CASE n = Len(tickets) + 1 /\ m \in DOMAIN tickets
        <5>1. tickets'[n] = e /\ tickets'[m] = tickets[m]
          BY <3>2, <4>4
        <5> QED  BY <3>1, <4>1, <4>4, <5>1
      <4> QED  BY <3>3, <4>2, <4>3, <4>4
    <3>5. CommentsAreFew'
      <4>1. \A m \in DOMAIN tickets : m \in DOMAIN tickets' /\ tickets'[m].of = tickets[m].of
        BY <3>2, <3>3
      <4> QED  BY <2>1, <4>1, CommentsKept
    <3>6. HiringTypes'
      <4>1. toFollow \subseteq DOMAIN tickets' /\ DOMAIN tickets' \subseteq TicketNumbers
        BY <2>3, <3>3 DEF TicketNumbers
      <4> QED  BY <2>1, <2>3, <3>2, <3>3, <4>1 DEF HiringTypes, HiringTypeOK, HireTicket
    <3> QED  BY <2>1, <3>4, <3>5, <3>6 DEF HiringInv
  <2> QED  BY <1>2, <2>2, <2>3 DEF Commission
<1>3. ASSUME NEW n \in DOMAIN tickets, IssueOpened(n) PROVE HiringInv'
  <2> DEFINE e == [tickets[n] EXCEPT !.issue = TRUE]
  <2>1. e \in HireTicket /\ e.of = tickets[n].of /\ e.open = tickets[n].open
    BY DEF HireTicket
  <2>2. /\ tickets' = [tickets EXCEPT ![n] = e]
        /\ UNCHANGED <<asks, inCode, rosterNow, gone, experienced, toFollow, commented, followed, breaks>>
    BY <1>3 DEF IssueOpened
  <2> HIDE DEF e
  <2> QED  BY <2>1, <2>2, HiringTicket
<1>4. ASSUME NEW n \in DOMAIN tickets, Requested(n) PROVE HiringInv'
  <2> DEFINE e == [tickets[n] EXCEPT !.requested = TRUE]
  <2>1. e \in HireTicket /\ e.of = tickets[n].of /\ e.open = tickets[n].open
    BY DEF HireTicket
  <2>2. /\ tickets' = [tickets EXCEPT ![n] = e]
        /\ UNCHANGED <<asks, inCode, rosterNow, gone, experienced, toFollow, commented, followed, breaks>>
    BY <1>4 DEF Requested
  <2> HIDE DEF e
  <2> QED  BY <2>1, <2>2, HiringTicket
<1>5. ASSUME NEW n \in DOMAIN tickets, Decline(n) PROVE HiringInv'
  <2> DEFINE e == [tickets[n] EXCEPT !.open = FALSE]
  <2>1. e \in HireTicket /\ e.of = tickets[n].of /\ ~e.open
    BY DEF HireTicket
  <2>2. /\ tickets' = [tickets EXCEPT ![n] = e]
        /\ UNCHANGED <<asks, inCode, rosterNow, gone, experienced, toFollow, commented, followed, breaks>>
    BY <1>5 DEF Decline
  <2> HIDE DEF e
  <2> QED  BY <2>1, <2>2, HiringTicket
<1>6. ASSUME NEW n \in DOMAIN tickets, Build(n) PROVE HiringInv'
  <2> DEFINE e == [tickets[n] EXCEPT !.open = FALSE]
  <2>1. e \in HireTicket /\ e.of = tickets[n].of /\ ~e.open
    BY DEF HireTicket
  <2>2. /\ tickets' = [tickets EXCEPT ![n] = e] /\ toFollow' = {}
        /\ inCode' = inCode \union {Who(tickets[n].of)} /\ ValidRoster(inCode')
        /\ rosterNow' = Refreshed(inCode', gone, inCode')
        /\ UNCHANGED <<asks, gone, experienced, commented, followed, breaks>>
    BY <1>6 DEF Build
  <2>3. ValidRoster(rosterNow') /\ inCode' \subseteq rosterNow' /\ rosterNow' \subseteq inCode' \union EarlierHires
    <3> DEFINE code == inCode'
    <3>1. ValidRoster(code) /\ code \subseteq code /\ code \subseteq code \union EarlierHires
      BY <2>2
    <3>2. rosterNow' = Refreshed(code, gone, code)
      BY <2>2
    <3> HIDE DEF code
    <3>3. ValidRoster(rosterNow') /\ code \subseteq rosterNow' /\ rosterNow' \subseteq code \union EarlierHires
      BY <3>1, <3>2, RefreshedIs
    <3> QED  BY <3>3 DEF code
  <2> HIDE DEF e
  <2> QED  BY <2>1, <2>2, <2>3, HiringTicket
<1>7. ASSUME NEW h \in EarlierHires, Dismiss(h) PROVE HiringInv'
  BY <1>7, HiringElse DEF Dismiss
<1>8. ASSUME Refresh PROVE HiringInv'
  <2>1. /\ rosterNow' = Refreshed(inCode, gone, rosterNow)
        /\ UNCHANGED <<asks, tickets, inCode, gone, experienced, toFollow, commented, followed, breaks>>
    BY <1>8 DEF Refresh
  <2>2. ValidRoster(rosterNow') /\ inCode \subseteq rosterNow' /\ rosterNow' \subseteq inCode \union EarlierHires
    BY <2>1, RefreshedIs
  <2> QED  BY <2>1, <2>2, HiringElse
<1>9. ASSUME NEW r \in rosterNow, WorkDone(r) PROVE HiringInv'
  BY <1>9, HiringElse DEF WorkDone
<1>10. ASSUME FollowUpBegins PROVE HiringInv'
  <2>1. /\ toFollow = {} /\ toFollow' = {n \in DOMAIN tickets : Pending(n)}
        /\ UNCHANGED <<asks, tickets, inCode, rosterNow, gone, experienced, commented, followed, breaks>>
    BY <1>10 DEF FollowUpBegins
  <2>2. \A n \in toFollow' : n \in DOMAIN tickets /\ tickets[n].of.id \notin followed
    BY <2>1 DEF Pending
  <2>3. CommentsAreFew'
    BY <2>1, <2>2 DEF CommentsAreFew
  <2>4. HiringTypes'
    BY <2>1, <2>2 DEF HiringTypes, HiringTypeOK, HireTicket
  <2>5. OnePost'
    BY <2>1 DEF OnePost
  <2> QED  BY <2>1, <2>3, <2>4, <2>5 DEF HiringInv
<1>11. ASSUME Comment PROVE HiringInv'
  <2>1. PICK n \in toFollow :
          /\ \/ /\ commented' = [commented EXCEPT ![n] = @ + 1]
                /\ followed' = followed \union {tickets[n].of.id}
                /\ toFollow' = toFollow \ {n} /\ UNCHANGED breaks
             \/ /\ breaks < MaxBreaks /\ breaks' = breaks + 1
                /\ commented' = [commented EXCEPT ![n] = @ + 1]
                /\ toFollow' \in {{}, toFollow \ {n}} /\ UNCHANGED followed
             \/ toFollow' = toFollow \ {n} /\ UNCHANGED <<commented, followed, breaks>>
          /\ UNCHANGED <<asks, tickets, inCode, rosterNow, gone, experienced>>
    BY <1>11, Zenon DEF Comment
  <2>2. commented[n] <= breaks /\ commented[n] \in Nat /\ n \in TicketNumbers
    BY DEF CommentsAreFew
  <2>3. OnePost'
    BY <2>1 DEF OnePost
  <2>4. ASSUME commented' = [commented EXCEPT ![n] = @ + 1]
        PROVE  /\ commented' \in [TicketNumbers -> Nat] /\ commented'[n] = commented[n] + 1
               /\ \A m \in TicketNumbers : m # n => commented'[m] = commented[m]
    BY <2>2, <2>4
  <2>5. CommentsAreFew' /\ commented' \in [TicketNumbers -> Nat] /\ toFollow' \subseteq toFollow
        /\ breaks' \in 0 .. MaxBreaks
    <3>1. CASE /\ commented' = [commented EXCEPT ![n] = @ + 1]
               /\ followed' = followed \union {tickets[n].of.id}
               /\ toFollow' = toFollow \ {n} /\ UNCHANGED breaks
      <4>1. ASSUME NEW m \in TicketNumbers
            PROVE  /\ commented'[m] <= 1 + breaks'
                   /\ (m \in toFollow' \/ (m \in DOMAIN tickets' /\ tickets'[m].of.id \notin followed')
                        \/ m \notin DOMAIN tickets') => commented'[m] <= breaks'
        <5>1. CASE m = n
          <6>1. n \notin toFollow'
            BY <3>1
          <6>2. n \in DOMAIN tickets => tickets[n].of.id \in followed'
            BY <3>1
          <6>3. n \in DOMAIN tickets
            BY DEF HiringInv, HiringTypes
          <6> QED  BY <2>1, <2>2, <2>4, <3>1, <5>1, <6>1, <6>2, <6>3
        <5>2. CASE m # n
          BY <2>1, <2>2, <2>4, <3>1, <5>2 DEF CommentsAreFew
        <5> QED  BY <5>1, <5>2
      <4> QED  BY <2>4, <3>1, <4>1 DEF CommentsAreFew
    <3>2. CASE /\ breaks < MaxBreaks /\ breaks' = breaks + 1
               /\ commented' = [commented EXCEPT ![n] = @ + 1]
               /\ toFollow' \in {{}, toFollow \ {n}} /\ UNCHANGED followed
      <4>1. ASSUME NEW m \in TicketNumbers
            PROVE  /\ commented'[m] <= 1 + breaks'
                   /\ (m \in toFollow' \/ (m \in DOMAIN tickets' /\ tickets'[m].of.id \notin followed')
                        \/ m \notin DOMAIN tickets') => commented'[m] <= breaks'
        <5>1. CASE m = n
          BY <2>1, <2>2, <2>4, <3>2, <5>1
        <5>2. CASE m # n
          <6>1. commented'[m] = commented[m] /\ commented[m] \in Nat /\ commented[m] <= 1 + breaks
            BY <2>4, <3>2, <5>2 DEF CommentsAreFew
          <6> QED  BY <2>1, <3>2, <6>1
        <5> QED  BY <5>1, <5>2
      <4> QED  BY <2>4, <3>2, <4>1 DEF CommentsAreFew
    <3>3. CASE toFollow' = toFollow \ {n} /\ UNCHANGED <<commented, followed, breaks>>
      BY <2>1, <3>3 DEF CommentsAreFew
    <3> QED  BY <2>1, <3>1, <3>2, <3>3
  <2>6. HiringTypes'
    BY <2>1, <2>5 DEF HiringTypes, HiringTypeOK, HireTicket
  <2> QED  BY <2>1, <2>3, <2>5, <2>6 DEF HiringInv
<1>12. CASE UNCHANGED hiringVars
  BY <1>12, HiringElse DEF hiringVars
<1> QED  BY <1>1, <1>2, <1>3, <1>4, <1>5, <1>6, <1>7, <1>8, <1>9, <1>10, <1>11, <1>12 DEF HiringNext

LEMMA HiringShows ==
  HiringInv => HiringTypeOK /\ HiringIsSound
BY DEF HiringInv, HiringTypes, OnePost, CommentsAreFew, HiringIsSound

-----------------------------------------------------------------------------
(* Reviews.                                                                *)

ReviewRow == [pair : Pair, by : Writers, day : 0 .. MaxReviewDay, answered : BOOLEAN]

ReviewTypes == ReviewTypeOK /\ rows \in Seq(ReviewRow)

\* No round wrote a review of the pair within the interval.
LongAgo(pair) ==
  \A i \in DOMAIN rows : rows[i].pair = pair /\ rows[i].by = "round" => rows[i].day < today - Interval

\* What a round has before it was long ago, and what it judges is not before it
\* again.
RoundIsOwed ==
  /\ \A k \in round : LongAgo(PairAt(k)) /\ judging["round"] # PairAt(k)
  /\ judging["round"] # Nobody => LongAgo(judging["round"])
  /\ \A i \in DOMAIN rows : rows[i].day <= today

ReviewInv == ReviewTypes /\ RoundIsOwed /\ ReviewsAreSpaced

\* A pair has one place in a round.
LEMMA PlacesApart ==
  /\ \A k \in Places : PairAt(k) \in Pair /\ PairAt(k) # Nobody
  /\ \A j, k \in Places : j # k => PairAt(j) # PairAt(k)
<1>1. /\ Len(Staff) \in Nat /\ \A i \in 1 .. Len(Staff) : Staff[i] \in Employees
      /\ \A i, j \in 1 .. Len(Staff) : i # j => Staff[i] # Staff[j]
      /\ Gary # Alex /\ Gary \notin Employees /\ Alex \notin Employees
  BY ReviewAssumption, LenProperties, ElementOfSeq
<1>2. \A k \in Places : k > Len(Staff) + 1 => k - (Len(Staff) + 1) \in 1 .. Len(Staff)
  BY <1>1 DEF Places
<1>3. \A k \in Places : k <= Len(Staff) => k \in 1 .. Len(Staff)
  BY <1>1 DEF Places
<1>4. ASSUME NEW k \in Places
      PROVE  \/ k \in 1 .. Len(Staff) /\ PairAt(k) = <<Staff[k], Gary>>
             \/ k = Len(Staff) + 1 /\ PairAt(k) = <<Alex, Gary>>
             \/ /\ k > Len(Staff) + 1 /\ k - (Len(Staff) + 1) \in 1 .. Len(Staff)
                /\ PairAt(k) = <<Gary, Staff[k - (Len(Staff) + 1)]>>
  <2>1. k \in Nat
    BY <1>1 DEF Places
  <2> QED  BY <1>1, <1>2, <1>3, <2>1 DEF PairAt
<1>5. ASSUME NEW k \in Places PROVE PairAt(k) \in Pair /\ PairAt(k) # Nobody
  BY <1>1, <1>4 DEF Pair, People, Nobody
<1>6. ASSUME NEW j \in Places, NEW k \in Places, j # k PROVE PairAt(j) # PairAt(k)
  <2>1. j \in Nat /\ k \in Nat
    BY <1>1 DEF Places
  <2>2. (j > Len(Staff) + 1 /\ k > Len(Staff) + 1) => j - (Len(Staff) + 1) # k - (Len(Staff) + 1)
    BY <2>1, <1>1, <1>6
  <2> QED  BY <1>1, <1>4, <1>6, <2>1, <2>2
<1> QED  BY <1>5, <1>6

LEMMA ReviewStart ==
  ASSUME ReviewInit  PROVE ReviewInv
<1>1. /\ rows = <<>> /\ worked = {} /\ today = 0 /\ round = {}
      /\ judging = [w \in Writers |-> Nobody]
  BY DEF ReviewInit
<1>2. rows \in Seq(ReviewRow) /\ DOMAIN rows = {}
  BY <1>1, EmptySeq
<1>3. judging["round"] = Nobody /\ judging \in [Writers -> Pair]
  BY <1>1 DEF Writers, Nobody, Pair, People
<1> QED  BY <1>1, <1>2, <1>3, ReviewAssumption
         DEF ReviewInv, ReviewTypes, ReviewTypeOK, RoundIsOwed, ReviewsAreSpaced

\* What the invariant says, in the form the steps need.
LEMMA ReviewFacts ==
  ASSUME ReviewInv
  PROVE  /\ rows \in Seq(ReviewRow) /\ Len(rows) \in Nat /\ DOMAIN rows = 1 .. Len(rows)
         /\ (\A i \in DOMAIN rows : rows[i] \in ReviewRow /\ rows[i].day \in Nat /\ rows[i].day <= today)
         /\ today \in Nat /\ today <= MaxReviewDay /\ Interval \in Nat /\ MaxReviewDay \in Nat
         /\ round \subseteq Places /\ judging \in [Writers -> Pair] /\ ReviewsAreSpaced
         /\ worked \subseteq Employees \union {Alex}
<1>1. rows \in Seq(ReviewRow) /\ MaxReviewDay \in Nat /\ Interval \in Nat
  BY ReviewAssumption DEF ReviewInv, ReviewTypes
<1>2. Len(rows) \in Nat /\ DOMAIN rows = 1 .. Len(rows) /\ \A i \in DOMAIN rows : rows[i] \in ReviewRow
  BY <1>1, LenProperties, ElementOfSeq
<1>3. \A i \in DOMAIN rows : rows[i].day \in Nat
  BY <1>1, <1>2 DEF ReviewRow
<1> QED  BY <1>1, <1>2, <1>3 DEF ReviewInv, ReviewTypes, ReviewTypeOK, RoundIsOwed

\* What leaves the rows alone and judges nothing of the round.
LEMMA ReviewElse ==
  ASSUME ReviewInv, rows' = rows, today' \in 0 .. MaxReviewDay, today <= today',
         worked' \subseteq Employees \union {Alex}, round' \subseteq round,
         judging' \in [Writers -> Pair],
         judging'["round"] = judging["round"] \/ judging'["round"] = Nobody
  PROVE  ReviewInv'
<1> USE ReviewFacts
<1>1. ReviewTypes'
  BY DEF ReviewTypes, ReviewTypeOK, ReviewRow
<1>2. ReviewsAreSpaced'
  BY DEF ReviewsAreSpaced
<1>3. \A p : LongAgo(p) => LongAgo(p)'
  BY DEF LongAgo
<1>4. \A k \in round' : LongAgo(PairAt(k))' /\ judging'["round"] # PairAt(k)
  BY <1>3, PlacesApart DEF ReviewInv, RoundIsOwed
<1>5. judging["round"] # Nobody => LongAgo(judging["round"])
  BY DEF ReviewInv, RoundIsOwed
<1>6. (\A k \in round : LongAgo(PairAt(k)) /\ judging["round"] # PairAt(k))'
  BY <1>4
<1>7. (judging["round"] # Nobody => LongAgo(judging["round"]))'
  <2>1. CASE judging'["round"] = Nobody
    BY <2>1
  <2>2. CASE judging'["round"] = judging["round"] /\ judging["round"] # Nobody
    BY <1>5, <2>2 DEF LongAgo
  <2> QED  BY <2>1, <2>2
<1>8. (\A i \in DOMAIN rows : rows[i].day <= today)'
  OBVIOUS
<1>9. RoundIsOwed'
  BY <1>6, <1>7, <1>8 DEF RoundIsOwed
<1> QED  BY <1>1, <1>2, <1>9 DEF ReviewInv

\* The steps of a round: who is due, ...
LEMMA ReviewBegins ==
  ASSUME ReviewInv, RoundBegins  PROVE ReviewInv'
<1> USE ReviewFacts
<1>1. /\ round = {} /\ judging["round"] = Nobody /\ round' = Planned
      /\ rows' = rows /\ worked' = worked /\ today' = today /\ judging' = judging
  BY DEF RoundBegins
<1>2. \A k \in Planned : k \in Places /\ ~ReviewedRecently(PairAt(k))
  BY DEF Planned, OwedPlaces, Owed
<1>3. ASSUME NEW k \in round' PROVE LongAgo(PairAt(k))' /\ judging'["round"] # PairAt(k)
  <2>1. k \in Places /\ ~ReviewedRecently(PairAt(k))
    BY <1>1, <1>2, <1>3
  <2>2. \A i \in DOMAIN rows : rows[i].pair = PairAt(k) => ~ (rows[i].day >= today - Interval)
    BY <2>1 DEF ReviewedRecently
  <2>3. \A i \in DOMAIN rows : rows[i].day \in Nat
    OBVIOUS
  <2>4. LongAgo(PairAt(k))'
    BY <1>1, <2>2, <2>3 DEF LongAgo
  <2> QED  BY <1>1, <2>1, <2>4, PlacesApart
<1>4. (\A k \in round : LongAgo(PairAt(k)) /\ judging["round"] # PairAt(k))'
  BY <1>3
<1>5. RoundIsOwed'
  BY <1>1, <1>4 DEF RoundIsOwed
<1>6. ReviewTypes'
  BY <1>1, <1>2 DEF ReviewTypes, ReviewTypeOK, ReviewRow, ReviewInv
<1>7. ReviewsAreSpaced'
  BY <1>1 DEF ReviewsAreSpaced
<1> QED  BY <1>5, <1>6, <1>7 DEF ReviewInv

\* ... the next one, ...
LEMMA ReviewJudges ==
  ASSUME ReviewInv, RoundJudges  PROVE ReviewInv'
<1> USE ReviewFacts
<1>1. PICK k \in round :
        /\ judging["round"] = Nobody /\ round' = round \ {k}
        /\ judging' = IF Allowed(PairAt(k)) THEN [judging EXCEPT !["round"] = PairAt(k)] ELSE judging
        /\ rows' = rows /\ worked' = worked /\ today' = today
  BY DEF RoundJudges
<1>2. PairAt(k) \in Pair /\ LongAgo(PairAt(k)) /\ \A j \in round' : PairAt(j) # PairAt(k)
  BY <1>1, PlacesApart DEF ReviewInv, RoundIsOwed
<1>3. CASE judging' = judging
  <2>1. /\ rows' = rows /\ today' \in 0 .. MaxReviewDay /\ today <= today' /\ round' \subseteq round
        /\ worked' \subseteq Employees \union {Alex} /\ judging' \in [Writers -> Pair]
        /\ judging'["round"] = judging["round"]
    <3>1. rows' = rows /\ worked' = worked /\ today' = today /\ round' \subseteq round
      BY <1>1
    <3>2. today \in 0 .. MaxReviewDay /\ today <= today
      OBVIOUS
    <3> QED  BY <1>3, <3>1, <3>2
  <2> QED  BY <2>1, ReviewElse
<1>4. CASE judging' = [judging EXCEPT !["round"] = PairAt(k)]
  <2>1. judging' \in [Writers -> Pair] /\ judging'["round"] = PairAt(k)
    BY <1>2, <1>4 DEF Writers
  <2>2. \A p : LongAgo(p) => LongAgo(p)'
    BY <1>1 DEF LongAgo
  <2>3. (\A j \in round : LongAgo(PairAt(j)) /\ judging["round"] # PairAt(j))'
    BY <1>1, <1>2, <2>1, <2>2 DEF ReviewInv, RoundIsOwed
  <2>4. LongAgo(judging["round"])'
    BY <1>2, <2>1, <2>2 DEF LongAgo
  <2>5. RoundIsOwed'
    BY <1>1, <2>3, <2>4 DEF RoundIsOwed
  <2>6. ReviewTypes'
    BY <1>1, <2>1 DEF ReviewTypes, ReviewTypeOK, ReviewRow, ReviewInv
  <2>7. ReviewsAreSpaced'
    BY <1>1 DEF ReviewsAreSpaced
  <2> QED  BY <2>5, <2>6, <2>7 DEF ReviewInv
<1> QED  BY <1>1, <1>3, <1>4

\* ... its review, also the tool's, ...
LEMMA ReviewWritten ==
  ASSUME ReviewInv, NEW w \in Writers, Judged(w)  PROVE ReviewInv'
<1> USE ReviewFacts
<1>1. /\ judging[w] # Nobody /\ judging' = [judging EXCEPT ![w] = Nobody]
      /\ worked' = worked /\ today' = today /\ round' = round
  BY DEF Judged
<1>2. /\ judging' \in [Writers -> Pair]
      /\ judging'["round"] = judging["round"] \/ judging'["round"] = Nobody
      /\ w = "round" => judging'["round"] = Nobody
      /\ judging[w] \in Pair
  BY <1>1 DEF Writers, Pair, People, Nobody
<1>3. CASE rows' = rows
  BY <1>1, <1>2, <1>3, ReviewElse DEF ReviewInv, ReviewTypes, ReviewTypeOK
<1> DEFINE e == [pair |-> judging[w], by |-> w, day |-> today, answered |-> FALSE]
<1>4. CASE rows' = Append(rows, e)
  <2>1. e \in ReviewRow /\ e.pair = judging[w] /\ e.by = w /\ e.day = today
    BY <1>2 DEF ReviewRow
  <2> HIDE DEF e
  <2>2. /\ Append(rows, e) \in Seq(ReviewRow) /\ Len(Append(rows, e)) = Len(rows) + 1
        /\ \A i \in 1 .. Len(rows) : Append(rows, e)[i] = rows[i]
        /\ Append(rows, e)[Len(rows) + 1] = e
    BY <2>1, AppendHas
  <2>3. /\ rows' \in Seq(ReviewRow) /\ DOMAIN rows' = 1 .. Len(rows) + 1
        /\ \A i \in DOMAIN rows : rows'[i] = rows[i]
        /\ rows'[Len(rows) + 1] = e
    BY <1>4, <2>2, LenProperties
  <2>4. ASSUME NEW p, LongAgo(p), w = "round" => judging["round"] # p PROVE LongAgo(p)'
    <3>1. \A i \in DOMAIN rows : rows[i].pair = p /\ rows[i].by = "round" => rows[i].day < today - Interval
      BY <2>4 DEF LongAgo
    <3>2. ~ (e.pair = p /\ e.by = "round")
      BY <2>1, <2>4
    <3> QED  BY <1>1, <2>3, <3>1, <3>2 DEF LongAgo
  <2>5. (\A k \in round : LongAgo(PairAt(k)) /\ judging["round"] # PairAt(k))'
    BY <1>1, <1>2, <2>4, PlacesApart DEF ReviewInv, RoundIsOwed
  <2>6. (judging["round"] # Nobody => LongAgo(judging["round"]))'
    <3>1. CASE judging'["round"] = Nobody
      BY <3>1
    <3>2. CASE judging'["round"] = judging["round"] /\ w # "round" /\ judging["round"] # Nobody
      BY <3>2, <2>4 DEF ReviewInv, RoundIsOwed, LongAgo
    <3> QED  BY <1>2, <3>1, <3>2
  <2>7. (\A i \in DOMAIN rows : rows[i].day <= today)'
    BY <1>1, <2>1, <2>3
  <2>8. ReviewTypes'
    <3>1. \A i \in DOMAIN rows' : rows'[i] \in ReviewRow
      BY <2>3, LenProperties, ElementOfSeq
    <3> QED  BY <1>1, <1>2, <2>3, <3>1 DEF ReviewTypes, ReviewTypeOK, ReviewRow
  <2>9. ReviewsAreSpaced'
    <3> SUFFICES ASSUME NEW i \in DOMAIN rows', NEW j \in DOMAIN rows', i < j, rows'[i].pair = rows'[j].pair,
                        rows'[i].by = "round", rows'[j].by = "round"
                 PROVE  rows'[j].day - rows'[i].day > Interval
      BY DEF ReviewsAreSpaced
    <3>1. CASE j \in DOMAIN rows
      <4>1. i \in DOMAIN rows
        BY <2>3, <3>1
      <4> QED  BY <2>3, <3>1, <4>1 DEF ReviewsAreSpaced
    <3>2. CASE j = Len(rows) + 1
      <4>1. i \in DOMAIN rows /\ rows'[j] = e /\ rows'[i] = rows[i]
        BY <2>3, <3>2
      <4>2. w = "round" /\ rows[i].pair = judging["round"] /\ rows[i].by = "round"
        BY <2>1, <4>1
      <4>3. rows[i].day < today - Interval
        BY <1>1, <4>1, <4>2 DEF ReviewInv, RoundIsOwed, LongAgo
      <4> QED  BY <2>1, <4>1, <4>3
    <3> QED  BY <2>3, <3>1, <3>2
  <2>10. RoundIsOwed'
    BY <2>5, <2>6, <2>7 DEF RoundIsOwed
  <2> QED  BY <2>8, <2>9, <2>10 DEF ReviewInv
<1> QED  BY <1>3, <1>4 DEF Judged

\* ... and the answer to it.
LEMMA ReviewAnswered ==
  ASSUME ReviewInv, NEW n \in DOMAIN rows, Acknowledge(n)  PROVE ReviewInv'
<1> USE ReviewFacts
<1> DEFINE e == [rows[n] EXCEPT !.answered = TRUE]
<1>1. /\ rows' = [rows EXCEPT ![n] = e]
      /\ worked' = worked /\ today' = today /\ round' = round /\ judging' = judging
  BY DEF Acknowledge
<1>2. e \in ReviewRow /\ e.pair = rows[n].pair /\ e.by = rows[n].by /\ e.day = rows[n].day
  BY DEF ReviewRow
<1> HIDE DEF e
<1>3. /\ rows' \in Seq(ReviewRow) /\ Len(rows') = Len(rows)
      /\ \A i \in 1 .. Len(rows) : rows'[i] = IF i = n THEN e ELSE rows[i]
  BY <1>1, <1>2, ExceptSeq
<1>4. DOMAIN rows' = DOMAIN rows
  BY <1>3, LenProperties
<1>5. \A i \in DOMAIN rows : /\ rows'[i] \in ReviewRow /\ rows'[i].pair = rows[i].pair
                             /\ rows'[i].by = rows[i].by /\ rows'[i].day = rows[i].day
  BY <1>2, <1>3
<1>6. \A p : LongAgo(p) => LongAgo(p)'
  BY <1>1, <1>4, <1>5 DEF LongAgo
<1>7. (\A k \in round : LongAgo(PairAt(k)) /\ judging["round"] # PairAt(k))'
  BY <1>1, <1>6 DEF ReviewInv, RoundIsOwed
<1>8. (judging["round"] # Nobody => LongAgo(judging["round"]))'
  <2>1. judging["round"] # Nobody => LongAgo(judging["round"])
    BY DEF ReviewInv, RoundIsOwed
  <2> QED  BY <1>1, <1>4, <1>5, <2>1 DEF LongAgo
<1>9. (\A i \in DOMAIN rows : rows[i].day <= today)'
  BY <1>1, <1>4, <1>5
<1>10. ReviewsAreSpaced'
  BY <1>4, <1>5 DEF ReviewsAreSpaced
<1>11. ReviewTypes'
  BY <1>1, <1>3, <1>4, <1>5 DEF ReviewTypes, ReviewTypeOK, ReviewRow
<1>12. RoundIsOwed'
  BY <1>7, <1>8, <1>9 DEF RoundIsOwed
<1> QED  BY <1>10, <1>11, <1>12 DEF ReviewInv

LEMMA ReviewStep ==
  ASSUME ReviewInv, [ReviewNext]_reviewVars  PROVE ReviewInv'
<1> USE ReviewFacts
<1>1. ASSUME NEW p \in People, ToolJudges(p) PROVE ReviewInv'
  <2>1. /\ judging' = [judging EXCEPT !["tool"] = <<p, Gary>>]
        /\ rows' = rows /\ worked' = worked /\ today' = today /\ round' = round
    BY <1>1 DEF ToolJudges
  <2>2. judging' \in [Writers -> Pair] /\ judging'["round"] = judging["round"]
    BY <2>1 DEF Writers, Pair, People
  <2> QED  BY <2>1, <2>2, ReviewElse DEF ReviewInv, ReviewTypes, ReviewTypeOK
<1>2. ASSUME NEW p \in Employees \union {Alex}, Works(p) PROVE ReviewInv'
  <2>1. /\ worked' = worked \union {p}
        /\ rows' = rows /\ today' = today /\ round' = round /\ judging' = judging
    BY <1>2 DEF Works
  <2> QED  BY <2>1, ReviewElse DEF ReviewInv, ReviewTypes, ReviewTypeOK
<1>3. CASE ReviewDayPasses
  <2>1. /\ today < MaxReviewDay /\ today' = today + 1
        /\ rows' = rows /\ worked' = worked /\ round' = round /\ judging' = judging
    BY <1>3 DEF ReviewDayPasses
  <2> QED  BY <2>1, ReviewElse
<1>4. CASE ReviewsCutOff
  <2>1. /\ round' = {} /\ judging' = [w \in Writers |-> Nobody]
        /\ rows' = rows /\ worked' = worked /\ today' = today
    BY <1>4 DEF ReviewsCutOff
  <2>2. judging' \in [Writers -> Pair] /\ judging'["round"] = Nobody
    BY <2>1 DEF Writers, Pair, People, Nobody
  <2> QED  BY <2>1, <2>2, ReviewElse
<1>5. CASE UNCHANGED reviewVars
  BY <1>5, ReviewElse DEF reviewVars
<1> QED  BY <1>1, <1>2, <1>3, <1>4, <1>5, ReviewBegins, ReviewJudges, ReviewWritten, ReviewAnswered DEF ReviewNext

LEMMA ReviewShows ==
  ReviewInv => ReviewTypeOK /\ ReviewsAreSpaced
BY DEF ReviewInv, ReviewTypes

-----------------------------------------------------------------------------
(* The chart.                                                              *)

Bosses == Members \union {Chief}
Onward(chart, x) == IF x = Chief THEN Chief ELSE chart[x]

\* The walk from m, step by step.
Walks(w, chart, m) ==
  /\ w[0] = m /\ \A n \in 1 .. Cardinality(Members) : w[n] = Onward(chart, w[n - 1])
  /\ Walk(chart, m) = w[Cardinality(Members)]

\* The walk up a chart exists, one manager after another.
LEMMA WalkIs ==
  ASSUME NEW chart \in [Members -> Bosses], NEW m \in Members
  PROVE  \E w : Walks(w, chart, m)
<1> DEFINE K == Cardinality(Members)
           step == [d \in (1 .. K) \X Bosses |-> Onward(chart, d[2])]
           Defines(of) == of = [n \in 0 .. K |-> IF n = 0 THEN m ELSE IF of[n - 1] = Chief THEN Chief
                                                 ELSE chart[of[n - 1]]]
<1>1. K \in Nat /\ m \in Bosses
  BY OrgAssumption, FS_CardinalityType DEF Bosses
<1>2. \A x \in Bosses : Onward(chart, x) \in Bosses
  BY DEF Onward, Bosses
<1>3. step \in [(1 .. K) \X Bosses -> Bosses]
  BY <1>2
<1>4. PICK f : Iterated(f, Bosses, K, step, m)
  <2> HIDE DEF step, K
  <2> QED  BY <1>1, <1>3, Iterates
<1>5. /\ f \in [0 .. K -> Bosses] /\ f[0] = m
      /\ \A n \in 1 .. K : f[n] = step[<<n, f[n - 1]>>]
  BY <1>4 DEF Iterated
<1>6. Defines(f)
  <2>1. ASSUME NEW n \in 0 .. K
        PROVE  f[n] = IF n = 0 THEN m ELSE IF f[n - 1] = Chief THEN Chief ELSE chart[f[n - 1]]
    <3>1. CASE n = 0
      BY <1>5, <3>1
    <3>2. CASE n # 0
      <4>1. n \in 1 .. K /\ n - 1 \in 0 .. K
        BY <1>1, <3>2
      <4>2. f[n - 1] \in Bosses
        BY <1>5, <4>1
      <4>3. step[<<n, f[n - 1]>>] = Onward(chart, f[n - 1])
        BY <4>1, <4>2
      <4> HIDE DEF step
      <4> QED  BY <1>5, <3>2, <4>1, <4>3 DEF Onward
    <3> QED  BY <3>1, <3>2
  <2> QED  BY <1>5, <2>1
<1>7. Defines(CHOOSE of : Defines(of))
  <2> HIDE DEF Defines
  <2> QED  BY <1>6
<1> DEFINE g == CHOOSE of : Defines(of)
<1>8. Walk(chart, m) = g[K]
  BY Zenon DEF Walk
<1>9. \A n \in 0 .. K : g[n] = IF n = 0 THEN m ELSE IF g[n - 1] = Chief THEN Chief ELSE chart[g[n - 1]]
  <2> HIDE DEF g
  <2>1. g = [n \in 0 .. K |-> IF n = 0 THEN m ELSE IF g[n - 1] = Chief THEN Chief ELSE chart[g[n - 1]]]
    BY <1>7 DEF g
  <2> QED  BY <2>1
<1> HIDE DEF g
<1>10. g[0] = m /\ \A n \in 1 .. K : g[n] = Onward(chart, g[n - 1])
  BY <1>1, <1>9 DEF Onward
<1> QED  BY <1>8, <1>10 DEF Walks

\* A walk whose first step is into a set that one does not leave ends there.
LEMMA WalkStays ==
  ASSUME NEW chart \in [Members -> Bosses], NEW m \in Members,
         NEW S, Onward(chart, m) \in S, \A x \in S : Onward(chart, x) \in S
  PROVE  Walk(chart, m) \in S
<1> DEFINE K == Cardinality(Members)
<1>1. PICK w : Walks(w, chart, m)
  BY WalkIs
<1>2. w[0] = m /\ (\A n \in 1 .. K : w[n] = Onward(chart, w[n - 1])) /\ Walk(chart, m) = w[K]
  BY <1>1 DEF Walks
<1>3. K \in Nat /\ K # 0
  BY OrgAssumption, FS_CardinalityType, FS_EmptySet
<1> HIDE DEF K
<1> DEFINE Bad == {n \in 1 .. K : w[n] \notin S}
<1>4. ASSUME Bad # {} PROVE FALSE
  <2>1. PICK n \in Bad : \A j \in Bad : n <= j
    <3>1. Bad \in SUBSET Nat
      BY <1>3
    <3> QED  BY <1>4, <3>1, Smallest
  <2>2. CASE n = 1
    BY <1>2, <1>3, <2>1, <2>2
  <2>3. CASE n # 1
    <3>1. n - 1 \in 1 .. K /\ n - 1 \notin Bad
      BY <1>3, <2>1, <2>3
    <3>2. w[n - 1] \in S
      BY <3>1
    <3> QED  BY <1>2, <2>1, <3>2
  <2> QED  BY <2>2, <2>3
<1>5. K \in 1 .. K
  BY <1>3
<1> QED  BY <1>2, <1>4, <1>5

\* Who does not walk in a loop reports to somebody outside, whichever group one
\* looks at.
LEMMA NoLoopLeads ==
  ASSUME NEW chart \in [Members -> Bosses], ~Loops(chart),
         NEW S \in SUBSET Members, S # {}
  PROVE  \E m \in S : chart[m] \notin S
<1> SUFFICES ASSUME \A m \in S : chart[m] \in S PROVE FALSE
  OBVIOUS
<1>1. PICK m \in S : TRUE
  OBVIOUS
<1>2. Chief \notin S
  BY OrgAssumption
<1>3. \A x \in S : Onward(chart, x) \in S
  BY <1>2 DEF Onward
<1>4. Walk(chart, m) \in S
  BY <1>3, WalkStays
<1> QED  BY <1>2, <1>4 DEF Loops

\* Where everybody reports to the chief nobody reports into a loop.
LEMMA StarHasNoLoop ==
  ASSUME NEW chart \in [Members -> Bosses], \A m \in Members : chart[m] = Chief
  PROVE  ~Loops(chart)
<1> SUFFICES ASSUME NEW m \in Members PROVE Walk(chart, m) = Chief
  BY DEF Loops
<1>1. Onward(chart, m) \in {Chief} /\ \A x \in {Chief} : Onward(chart, x) \in {Chief}
  BY DEF Onward
<1>2. Walk(chart, m) \in {Chief}
  BY <1>1, WalkStays
<1> QED  BY <1>2

Reorg == [changes : Seq(Change), status : {"waiting", "filed", "deployed", "refused"}]

\* Employees are changed, each once, and to somebody who is here.
Orderly(changes) ==
  \A i \in DOMAIN changes :
    /\ changes[i].of \in Members /\ changes[i].to \in Bosses
    /\ \A j \in DOMAIN changes \ {i} : changes[j].of # changes[i].of

OrgTypes == OrgTypeOK /\ reorgs \in Seq(Reorg)

\* What is filed was checked against the chart that is deployed, as long as no
\* two were filed together.
FiledIsChecked ==
  /\ \A i \in OpenTickets : Orderly(reorgs[i].changes)
  /\ ~crossed => /\ \A i, j \in OpenTickets : i = j
                 /\ \A i \in OpenTickets : ~Loops(After(reportsTo, reorgs[i].changes))
                 /\ ~Loops(reportsTo)

OrgInv == OrgTypes /\ FiledIsChecked

\* What changes that passed the check lead to is a chart.
LEMMA AfterIs ==
  ASSUME NEW chart \in [Members -> Bosses], NEW changes \in Seq(Change), Orderly(changes)
  PROVE  After(chart, changes) \in [Members -> Bosses]
<1> DEFINE Mine(m) == {i \in DOMAIN changes : changes[i].of = m}
           New(m) == IF Mine(m) = {} THEN chart[m]
                     ELSE changes[CHOOSE i \in Mine(m) : \A j \in Mine(m) : j <= i].to
<1>1. ASSUME NEW m \in Members PROVE New(m) \in Bosses
  <2>1. CASE Mine(m) = {}
    BY <2>1
  <2>2. CASE Mine(m) # {}
    <3>1. PICK i \in Mine(m) : TRUE
      BY <2>2
    <3>2. \A j \in Mine(m) : j = i
      BY <3>1 DEF Orderly
    <3> DEFINE n == CHOOSE k \in Mine(m) : \A j \in Mine(m) : j <= k
    <3>3. i \in Nat
      BY <3>1, LenProperties
    <3>4. \E k \in Mine(m) : \A j \in Mine(m) : j <= k
      BY <3>1, <3>2, <3>3
    <3>5. n \in Mine(m)
      BY <3>4
    <3> HIDE DEF n
    <3>6. changes[n].to \in Bosses
      BY <3>5 DEF Orderly
    <3> QED  BY <2>2, <3>6 DEF n
  <2> QED  BY <2>1, <2>2
<1>2. After(chart, changes) = [m \in Members |-> New(m)]
  BY Zenon DEF After
<1> HIDE DEF New
<1> QED  BY <1>1, <1>2

LEMMA OrgStart ==
  ASSUME OrgInit  PROVE OrgInv
<1>1. reportsTo = [m \in Members |-> Chief] /\ reorgs = <<>> /\ crossed = FALSE
  BY DEF OrgInit
<1>2. reorgs \in Seq(Reorg) /\ DOMAIN reorgs = {} /\ reportsTo \in [Members -> Bosses]
  BY <1>1, EmptySeq DEF Bosses
<1>3. ~Loops(reportsTo)
  BY <1>1, <1>2, StarHasNoLoop
<1>4. OpenTickets = {}
  BY <1>2 DEF OpenTickets
<1> QED  BY <1>1, <1>2, <1>3, <1>4 DEF OrgInv, OrgTypes, OrgTypeOK, FiledIsChecked, Bosses

\* What the invariant says, in the form the steps need.
LEMMA OrgFacts ==
  ASSUME OrgInv
  PROVE  /\ reorgs \in Seq(Reorg) /\ Len(reorgs) \in Nat /\ DOMAIN reorgs = 1 .. Len(reorgs)
         /\ (\A i \in DOMAIN reorgs : reorgs[i] \in Reorg /\ reorgs[i].changes \in Seq(Change))
         /\ reportsTo \in [Members -> Bosses] /\ crossed \in BOOLEAN
         /\ OpenTickets = {i \in DOMAIN reorgs : reorgs[i].status = "filed"} /\ FiledIsChecked
<1>1. reorgs \in Seq(Reorg)
  BY DEF OrgInv, OrgTypes
<1>2. Len(reorgs) \in Nat /\ DOMAIN reorgs = 1 .. Len(reorgs) /\ \A i \in DOMAIN reorgs : reorgs[i] \in Reorg
  BY <1>1, LenProperties, ElementOfSeq
<1>3. \A i \in DOMAIN reorgs : reorgs[i].changes \in Seq(Change)
  BY <1>2 DEF Reorg
<1> QED  BY <1>1, <1>2, <1>3 DEF OrgInv, OrgTypes, OrgTypeOK, Bosses, OpenTickets

\* What a proposal's status becomes, and nothing else of it.
LEMMA StatusIsSet ==
  ASSUME OrgInv, NEW n \in DOMAIN reorgs, NEW st \in {"waiting", "filed", "deployed", "refused"},
         reorgs' = [reorgs EXCEPT ![n].status = st]
  PROVE  /\ reorgs' \in Seq(Reorg) /\ DOMAIN reorgs' = DOMAIN reorgs
         /\ \A i \in DOMAIN reorgs : /\ reorgs'[i].changes = reorgs[i].changes
                                     /\ reorgs'[i].status = IF i = n THEN st ELSE reorgs[i].status
                                     /\ reorgs'[i] \in Reorg
<1> USE OrgFacts
<1> DEFINE e == [reorgs[n] EXCEPT !.status = st]
<1>1. e \in Reorg /\ e.changes = reorgs[n].changes /\ e.status = st
  BY DEF Reorg
<1>2. reorgs' = [reorgs EXCEPT ![n] = e]
  OBVIOUS
<1> HIDE DEF e
<1>3. /\ reorgs' \in Seq(Reorg) /\ Len(reorgs') = Len(reorgs)
      /\ \A i \in 1 .. Len(reorgs) : reorgs'[i] = IF i = n THEN e ELSE reorgs[i]
  BY <1>1, <1>2, ExceptSeq
<1>4. DOMAIN reorgs' = DOMAIN reorgs
  BY <1>3, LenProperties
<1> QED  BY <1>1, <1>3, <1>4

LEMMA OrgStep ==
  ASSUME OrgInv, [OrgNext]_orgVars  PROVE OrgInv'
<1> USE OrgFacts
<1>1. ASSUME NEW n \in 1 .. MaxChanges, NEW changes \in [1 .. n -> Change], ProposeReorganisation(changes)
      PROVE  OrgInv'
  <2> DEFINE e == [changes |-> changes, status |-> "waiting"]
  <2>1. reorgs' = Append(reorgs, e) /\ reportsTo' = reportsTo /\ crossed' = crossed
    BY <1>1 DEF ProposeReorganisation
  <2>2. n \in Nat /\ changes \in Seq(Change)
    <3>1. n \in Nat
      BY OrgAssumption
    <3> QED  BY <3>1, SeqDef
  <2>3. e \in Reorg /\ e.status = "waiting"
    BY <2>2 DEF Reorg
  <2> HIDE DEF e
  <2>4. /\ Append(reorgs, e) \in Seq(Reorg) /\ Len(Append(reorgs, e)) = Len(reorgs) + 1
        /\ \A i \in 1 .. Len(reorgs) : Append(reorgs, e)[i] = reorgs[i]
        /\ Append(reorgs, e)[Len(reorgs) + 1] = e
    BY <2>3, AppendHas
  <2>5. /\ reorgs' \in Seq(Reorg) /\ DOMAIN reorgs' = 1 .. Len(reorgs) + 1
        /\ (\A i \in DOMAIN reorgs : reorgs'[i] = reorgs[i]) /\ reorgs'[Len(reorgs) + 1] = e
    BY <2>1, <2>4, LenProperties
  <2>6. \A i \in DOMAIN reorgs' : reorgs'[i] \in Reorg
    BY <2>5, ElementOfSeq, LenProperties
  <2>7. OpenTickets' = OpenTickets /\ \A i \in OpenTickets : reorgs'[i] = reorgs[i]
    BY <2>3, <2>5 DEF OpenTickets
  <2>8. FiledIsChecked'
    BY <2>1, <2>7 DEF FiledIsChecked
  <2>9. OrgTypes'
    BY <2>1, <2>5, <2>6 DEF OrgTypes, OrgTypeOK, Reorg, Bosses
  <2> QED  BY <2>8, <2>9 DEF OrgInv
<1>2. ASSUME NEW n \in DOMAIN reorgs, NEW approved \in BOOLEAN, DecideReorganisation(n, approved)
      PROVE  OrgInv'
  <2> DEFINE filed == approved /\ ValidChanges(reorgs[n].changes)
             st == IF filed THEN "filed" ELSE "refused"
  <2>1. /\ reorgs[n].status = "waiting" /\ reorgs' = [reorgs EXCEPT ![n].status = st]
        /\ crossed' = (crossed \/ (filed /\ OpenTickets # {})) /\ reportsTo' = reportsTo
    BY <1>2 DEF DecideReorganisation
  <2>2. st \in {"waiting", "filed", "deployed", "refused"} /\ (st = "filed" <=> filed) /\ filed \in BOOLEAN
    OBVIOUS
  <2>3. filed => ValidChanges(reorgs[n].changes)
    OBVIOUS
  <2> HIDE DEF st, filed
  <2>4. /\ reorgs' \in Seq(Reorg) /\ DOMAIN reorgs' = DOMAIN reorgs
        /\ \A i \in DOMAIN reorgs : /\ reorgs'[i].changes = reorgs[i].changes
                                    /\ reorgs'[i].status = IF i = n THEN st ELSE reorgs[i].status
                                    /\ reorgs'[i] \in Reorg
    <3>1. reorgs' = [reorgs EXCEPT ![n].status = st] /\ st \in {"waiting", "filed", "deployed", "refused"}
      BY <2>1, <2>2
    <3> QED  BY ONLY OrgInv, n \in DOMAIN reorgs, <3>1, StatusIsSet
  <2>5. OrgTypes'
    BY <2>1, <2>2, <2>4 DEF OrgTypes, OrgTypeOK, Reorg, Bosses
  <2>6. n \notin OpenTickets
    BY <2>1 DEF OpenTickets
  <2>7. CASE ~filed
    <3>1. OpenTickets' = OpenTickets
      BY <2>2, <2>4, <2>6, <2>7 DEF OpenTickets
    <3>2. \A i \in OpenTickets : reorgs'[i].changes = reorgs[i].changes
      BY <2>4 DEF OpenTickets
    <3>3. crossed' = crossed
      BY <2>1, <2>7
    <3> QED  BY <2>1, <2>5, <3>1, <3>2, <3>3 DEF OrgInv, FiledIsChecked
  <2>8. CASE filed
    <3>1. OpenTickets' = OpenTickets \union {n}
      BY <2>2, <2>4, <2>8 DEF OpenTickets
    <3>2. Orderly(reorgs[n].changes) /\ ~Loops(After(reportsTo, reorgs[n].changes))
      BY <2>3, <2>8 DEF ValidChanges, Named, Orderly, Bosses
    <3>3. \A i \in OpenTickets' : reorgs'[i].changes = reorgs[i].changes
      BY <2>4, <3>1 DEF OpenTickets
    <3>4. crossed' = FALSE => crossed = FALSE /\ OpenTickets = {}
      BY <2>1, <2>8
    <3>5. \A i \in OpenTickets' : Orderly(reorgs'[i].changes)
      BY <3>1, <3>2, <3>3 DEF FiledIsChecked
    <3>6. ASSUME ~crossed'
          PROVE  /\ \A i, j \in OpenTickets' : i = j
                 /\ \A i \in OpenTickets' : ~Loops(After(reportsTo', reorgs'[i].changes))
                 /\ ~Loops(reportsTo')
      <4>1. crossed = FALSE /\ OpenTickets = {} /\ OpenTickets' = {n}
        BY <2>1, <2>8, <3>1, <3>6
      <4>2. reorgs'[n].changes = reorgs[n].changes /\ reportsTo' = reportsTo
        BY <2>1, <3>3, <4>1
      <4>3. ~Loops(reportsTo)
        BY <4>1 DEF FiledIsChecked
      <4>4. ASSUME NEW i \in OpenTickets' PROVE ~Loops(After(reportsTo', reorgs'[i].changes))
        <5>1. i = n
          BY <4>1
        <5> QED  BY <3>2, <4>2, <5>1
      <4> QED  BY <4>1, <4>2, <4>3, <4>4
    <3> QED  BY <2>5, <3>5, <3>6 DEF OrgInv, FiledIsChecked
  <2> QED  BY <2>2, <2>7, <2>8
<1>3. ASSUME NEW n \in DOMAIN reorgs, Deploy(n) PROVE OrgInv'
  <2>1. /\ n \in OpenTickets /\ reportsTo' = After(reportsTo, reorgs[n].changes)
        /\ reorgs' = [reorgs EXCEPT ![n].status = "deployed"] /\ crossed' = crossed
    BY <1>3 DEF Deploy
  <2>2. /\ reorgs' \in Seq(Reorg) /\ DOMAIN reorgs' = DOMAIN reorgs
        /\ \A i \in DOMAIN reorgs : /\ reorgs'[i].changes = reorgs[i].changes
                                    /\ reorgs'[i].status = IF i = n THEN "deployed" ELSE reorgs[i].status
                                    /\ reorgs'[i] \in Reorg
    <3> DEFINE st == "deployed"
    <3>1. st \in {"waiting", "filed", "deployed", "refused"} /\ reorgs' = [reorgs EXCEPT ![n].status = st]
      BY <2>1
    <3> HIDE DEF st
    <3>2. /\ reorgs' \in Seq(Reorg) /\ DOMAIN reorgs' = DOMAIN reorgs
          /\ \A i \in DOMAIN reorgs : /\ reorgs'[i].changes = reorgs[i].changes
                                      /\ reorgs'[i].status = IF i = n THEN st ELSE reorgs[i].status
                                      /\ reorgs'[i] \in Reorg
      BY ONLY OrgInv, n \in DOMAIN reorgs, <3>1, StatusIsSet
    <3> QED  BY <3>2 DEF st
  <2>3. OpenTickets' = OpenTickets \ {n}
    BY <2>2 DEF OpenTickets
  <2>4. Orderly(reorgs[n].changes) /\ reorgs[n].changes \in Seq(Change)
    BY <2>1 DEF FiledIsChecked
  <2>5. reportsTo' \in [Members -> Bosses]
    BY <2>1, <2>4, AfterIs
  <2>6. OrgTypes'
    BY <2>1, <2>2, <2>5 DEF OrgTypes, OrgTypeOK, Reorg, Bosses
  <2>7. \A i \in OpenTickets' : Orderly(reorgs'[i].changes)
    BY <2>2, <2>3 DEF FiledIsChecked, OpenTickets
  <2>8. ASSUME ~crossed' PROVE OpenTickets' = {} /\ ~Loops(reportsTo')
    BY <2>1, <2>3, <2>8 DEF FiledIsChecked
  <2> QED  BY <2>6, <2>7, <2>8 DEF OrgInv, FiledIsChecked
<1>4. CASE UNCHANGED orgVars
  <2>1. reorgs' = reorgs /\ reportsTo' = reportsTo /\ crossed' = crossed
    BY <1>4 DEF orgVars
  <2>2. OrgTypes'
    BY <2>1 DEF OrgTypes, OrgTypeOK, OrgInv, Reorg
  <2>3. FiledIsChecked'
    BY <2>1 DEF FiledIsChecked, OpenTickets
  <2> QED  BY <2>2, <2>3 DEF OrgInv
<1> QED  BY <1>1, <1>2, <1>3, <1>4 DEF OrgNext

LEMMA OrgShows ==
  OrgInv => OrgTypeOK /\ ChartLeadsToChief
<1> SUFFICES ASSUME OrgInv, ~crossed, NEW S \in SUBSET Members, S # {}
             PROVE  \E m \in S : reportsTo[m] \notin S
  BY DEF OrgInv, OrgTypes, ChartLeadsToChief
<1>1. reportsTo \in [Members -> Bosses] /\ ~Loops(reportsTo)
  BY OrgFacts DEF FiledIsChecked
<1> QED  BY <1>1, NoLoopLeads

-----------------------------------------------------------------------------
(* The day.                                                                *)

PassAt == {"rests", "report", "email", "record", "assign", "give", "tell", "check in", "ask", "say"}
PassRow == [at : PassAt, due : SUBSET {"report", "assign", "check in"}, day : 0 .. MaxDay,
            done : SUBSET DayTasks, open : SUBSET DayTasks]
Kind == {"assignment", "check-in"}

DayTypes ==
  /\ DayTypeOK /\ pass \in PassRow /\ now \in [day : Days, hour : DOMAIN Hours]
  /\ given \in [Days -> [on : BOOLEAN, work : SUBSET DayTasks]]
  /\ checked \in [Days -> [on : BOOLEAN, done : SUBSET DayTasks, open : SUBSET DayTasks]]

\* Where a pass tells or says something, it has recorded that and not yet told it.
RecordedThenTold ==
  /\ \A d \in Days : /\ toldAlex["assignment"][d] <= IF given[d].on THEN 1 ELSE 0
                     /\ toldAlex["check-in"][d] <= IF checked[d].on THEN 1 ELSE 0
  /\ pass.at \in {"give", "tell", "ask", "say"} => pass.day \in Days
  /\ pass.at = "tell" => given[pass.day].on /\ toldAlex["assignment"][pass.day] = 0
  /\ pass.at = "say" => checked[pass.day].on /\ toldAlex["check-in"][pass.day] = 0

Accounts(d, done, left) ==
  given[d].on /\ done \cap left = {} /\ done \union left = given[d].work

CheckedAsGiven ==
  /\ \A d \in Days : checked[d].on => Accounts(d, checked[d].done, checked[d].open)
  /\ pass.at = "ask" => Accounts(pass.day, pass.done, pass.open)

\* No report is on record of a day to come, nor of today while one is made.
ReportedOnce ==
  /\ \A d \in Days : reported[d] <= 1 /\ (d > now.day => reported[d] = 0)
  /\ pass.at \in {"email", "record"} => \A d \in Days : d >= now.day => reported[d] = 0

DayInv == DayTypes /\ RecordedThenTold /\ CheckedAsGiven /\ ReportedOnce

\* What the constants are.
LEMMA DayBounds ==
  /\ MaxDay \in Nat \ {0} /\ MaxCuts \in Nat /\ (\A d \in Days : d \in Nat \ {0}) /\ 1 \in Days
  /\ Len(Hours) \in Nat \ {0} /\ DOMAIN Hours = 1 .. Len(Hours)
<1>1. MaxDay \in Nat /\ MaxCuts \in Nat /\ MaxDay > 0
  BY DayAssumption
<1> DEFINE T == SUBSET {"report", "assign", "check in"}
<1>2. Hours \in Seq(T) /\ Hours # <<>>
  BY DayAssumption
<1> HIDE DEF T
<1>3. Len(Hours) \in Nat \ {0} /\ DOMAIN Hours = 1 .. Len(Hours)
  BY <1>2, EmptySeq, LenProperties
<1> QED  BY <1>1, <1>3 DEF Days

LEMMA DayStart ==
  ASSUME DayInit  PROVE DayInv
<1>1. /\ now = [day |-> 1, hour |-> 1] /\ agenda \in Agendas /\ finished = {}
      /\ given = [d \in Days |-> [on |-> FALSE, work |-> {}]]
      /\ checked = [d \in Days |-> [on |-> FALSE, done |-> {}, open |-> {}]]
      /\ reported = [d \in Days |-> 0]
      /\ toldAlex = [k \in {"assignment", "check-in"} |-> [d \in Days |-> 0]]
      /\ pass = Resting /\ cuts = 0
  BY DEF DayInit
<1>2. 1 \in Days /\ 1 \in DOMAIN Hours /\ MaxDay \in Nat /\ MaxCuts \in Nat
  BY DayBounds
<1>3. now \in [day : Days, hour : DOMAIN Hours]
  BY <1>1, <1>2
<1>4. Resting \in PassRow /\ pass.at = "rests"
  BY <1>1, <1>2 DEF Resting, PassRow, PassAt
<1>5. /\ given \in [Days -> [on : BOOLEAN, work : SUBSET DayTasks]]
      /\ checked \in [Days -> [on : BOOLEAN, done : SUBSET DayTasks, open : SUBSET DayTasks]]
      /\ \A d \in Days : given[d].on = FALSE /\ checked[d].on = FALSE
  BY <1>1
<1>6. reported \in [Days -> Nat] /\ \A d \in Days : reported[d] = 0
  BY <1>1
<1>7. /\ toldAlex \in [{"assignment", "check-in"} -> [Days -> Nat]]
      /\ \A d \in Days : toldAlex["assignment"][d] = 0 /\ toldAlex["check-in"][d] = 0
  <2>1. [d \in Days |-> 0] \in [Days -> Nat]
    OBVIOUS
  <2> QED  BY <1>1, <2>1
<1>8. DayTypes
  BY <1>1, <1>2, <1>3, <1>4, <1>5, <1>6, <1>7 DEF DayTypes, DayTypeOK
<1>9. RecordedThenTold
  BY <1>4, <1>5, <1>7 DEF RecordedThenTold
<1>10. CheckedAsGiven
  BY <1>4, <1>5 DEF CheckedAsGiven
<1>11. ReportedOnce
  BY <1>4, <1>6 DEF ReportedOnce
<1> QED  BY <1>8, <1>9, <1>10, <1>11 DEF DayInv

\* What the invariant says, in the form the steps need.
LEMMA DayFacts ==
  ASSUME DayInv
  PROVE  /\ pass \in PassRow /\ now \in [day : Days, hour : DOMAIN Hours]
         /\ now.day \in Days /\ Days \subseteq Nat /\ pass.at \in PassAt
         /\ given \in [Days -> [on : BOOLEAN, work : SUBSET DayTasks]]
         /\ checked \in [Days -> [on : BOOLEAN, done : SUBSET DayTasks, open : SUBSET DayTasks]]
         /\ reported \in [Days -> Nat] /\ toldAlex \in [Kind -> [Days -> Nat]]
         /\ agenda \in Agendas /\ finished \subseteq DayTasks /\ cuts \in 0 .. MaxCuts
<1>1. Days \subseteq Nat
  BY DayBounds
<1>2. pass \in PassRow /\ pass.at \in PassAt
  BY DEF DayInv, DayTypes, PassRow
<1> QED  BY <1>1, <1>2 DEF DayInv, DayTypes, DayTypeOK, Kind

\* What the invariant says of types, from what a step does.
LEMMA DayTyped ==
  ASSUME pass' \in PassRow, now' \in [day : Days, hour : DOMAIN Hours],
         given' \in [Days -> [on : BOOLEAN, work : SUBSET DayTasks]],
         checked' \in [Days -> [on : BOOLEAN, done : SUBSET DayTasks, open : SUBSET DayTasks]],
         reported' \in [Days -> Nat], toldAlex' \in [Kind -> [Days -> Nat]],
         agenda' \in Agendas, finished' \subseteq DayTasks, cuts' \in 0 .. MaxCuts
  PROVE  DayTypes'
<1>1. pass'.at \in PassAt
  BY DEF PassRow
<1>2. now'.day \in Days /\ now'.hour \in DOMAIN Hours
  OBVIOUS
<1>3. \A d \in Days : /\ given'[d] \in [on : BOOLEAN, work : SUBSET DayTasks]
                      /\ checked'[d] \in [on : BOOLEAN, done : SUBSET DayTasks, open : SUBSET DayTasks]
  OBVIOUS
<1> QED  BY <1>1, <1>2, <1>3 DEF DayTypes, DayTypeOK, PassAt, Kind

\* Days before a day are before those after it.
LEMMA DaysGoOn ==
  \A a, b, d \in Nat : a <= a /\ (a <= b => (d > b => d > a) /\ (d >= b => d >= a))
OBVIOUS

\* What writes nothing in the log, and goes on or stays where a pass has nothing
\* to tell.
LEMMA DayElse ==
  ASSUME DayInv, UNCHANGED <<given, checked, reported, toldAlex>>,
         pass' \in PassRow, pass' = pass \/ pass'.at \in {"rests", "report", "assign", "check in"},
         now' \in [day : Days, hour : DOMAIN Hours], now.day <= now'.day,
         agenda' \in Agendas, finished' \subseteq DayTasks, cuts' \in 0 .. MaxCuts
  PROVE  DayInv'
<1> USE DayFacts
<1>1. DayTypes'
  BY DayTyped
<1>2. RecordedThenTold'
  BY DEF DayInv, RecordedThenTold
<1>3. CheckedAsGiven'
  BY DEF DayInv, CheckedAsGiven, Accounts
<1>4. ReportedOnce'
  <2>1. now'.day \in Nat /\ now.day \in Nat /\ \A d \in Days : d \in Nat
    BY DayBounds
  <2>2. \A d \in Days : (d > now'.day => d > now.day) /\ (d >= now'.day => d >= now.day)
    BY <2>1, DaysGoOn
  <2> QED  BY <2>2 DEF DayInv, ReportedOnce
<1> QED  BY <1>1, <1>2, <1>3, <1>4 DEF DayInv

\* The same while no time passes.
LEMMA DayGoes ==
  ASSUME DayInv, UNCHANGED <<given, checked, reported, toldAlex, now, agenda>>,
         pass' \in PassRow, pass' = pass \/ pass'.at \in {"rests", "report", "assign", "check in"},
         finished' \subseteq DayTasks, cuts' \in 0 .. MaxCuts
  PROVE  DayInv'
<1>1. now' \in [day : Days, hour : DOMAIN Hours] /\ agenda' \in Agendas
  BY DayFacts
<1>2. now.day <= now'.day
  <2>1. now.day \in Nat /\ now'.day = now.day
    BY DayFacts, DayBounds
  <2>2. now.day <= now.day
    BY <2>1, DaysGoOn
  <2> QED  BY <2>1, <2>2
<1> QED  BY <1>1, <1>2, DayElse

\* One thing is told once more.
LEMMA ToldAgain ==
  ASSUME toldAlex \in [Kind -> [Days -> Nat]], NEW k \in Kind, NEW d \in Days,
         toldAlex' = [toldAlex EXCEPT ![k][d] = @ + 1]
  PROVE  /\ toldAlex' \in [Kind -> [Days -> Nat]]
         /\ toldAlex'[k][d] = toldAlex[k][d] + 1
         /\ \A e \in Days : e # d => toldAlex'[k][e] = toldAlex[k][e]
         /\ \A j \in Kind : j # k => toldAlex'[j] = toldAlex[j]
<1> DEFINE row == [toldAlex[k] EXCEPT ![d] = @ + 1]
<1>1. toldAlex[k] \in [Days -> Nat]
  OBVIOUS
<1>2. row \in [Days -> Nat] /\ row[d] = toldAlex[k][d] + 1 /\ \A e \in Days : e # d => row[e] = toldAlex[k][e]
  BY <1>1
<1>3. toldAlex' = [toldAlex EXCEPT ![k] = row]
  OBVIOUS
<1> HIDE DEF row
<1> QED  BY <1>2, <1>3

\* What a pass takes with it, in the morning and in the evening.
LEMMA PassGives ==
  ASSUME DayInv, NEW d \in Days, NEW w \in SUBSET DayTasks,
         pass' = [pass EXCEPT !.at = "give", !.day = d, !.open = w]
  PROVE  pass' \in PassRow /\ pass'.at = "give" /\ pass'.day = d /\ pass'.open = w
<1>1. d \in 0 .. MaxDay
  BY DayBounds DEF Days
<1> QED  BY <1>1, DayFacts DEF PassRow, PassAt

\* Where a check-in's pass goes on to ask.
LEMMA PassAsks ==
  ASSUME DayInv, NEW d \in Days, NEW v \in SUBSET DayTasks, NEW w \in SUBSET DayTasks,
         pass' = [pass EXCEPT !.at = "ask", !.day = d, !.done = v, !.open = w]
  PROVE  pass' \in PassRow /\ pass'.at = "ask" /\ pass'.day = d /\ pass'.done = v /\ pass'.open = w
<1>1. d \in 0 .. MaxDay
  BY DayBounds DEF Days
<1> QED  BY <1>1, DayFacts DEF PassRow, PassAt

\* A pass that goes to another place and takes nothing else with it.
LEMMA PassGoes ==
  ASSUME DayInv, NEW place \in PassAt, pass' = [pass EXCEPT !.at = place]
  PROVE  /\ pass' \in PassRow /\ pass'.at = place /\ pass'.day = pass.day
         /\ pass'.done = pass.done /\ pass'.open = pass.open
BY DayFacts DEF PassRow

LEMMA RestingIs == Resting \in PassRow /\ Resting.at = "rests"
BY DayBounds DEF Resting, PassRow, PassAt

\* What is assigned are tasks.
LEMMA AssignedIs ==
  ASSUME DayInv  PROVE Assigned \subseteq DayTasks
<1>1. Booked \subseteq DayTasks
  BY DEF Booked, OpenWork
<1>2. Focus \subseteq OpenWork
  <2> DEFINE ready == {i \in DOMAIN agenda.ready : agenda.ready[i] \in OpenWork \ Booked}
             few == {n \in ready : Cardinality({m \in ready : m < n}) < FocusLimit}
  <2>1. \A i \in few : agenda.ready[i] \in OpenWork
    OBVIOUS
  <2>2. Focus = IF ~agenda.works THEN {} ELSE {agenda.ready[i] : i \in few}
    BY Zenon DEF Focus
  <2> HIDE DEF few
  <2> QED  BY <2>1, <2>2
<1> QED  BY <1>1, <1>2 DEF Assigned, OpenWork

\* The report: looked for, mailed and recorded, perhaps after midnight.
LEMMA ReportStep ==
  ASSUME DayInv, ReportDue \/ ReportEmailed \/ ReportRecorded  PROVE DayInv'
<1> USE DayFacts, RestingIs, DayBounds
<1>1. CASE ReportDue
  <2> DEFINE place == IF "report" \in pass.due /\ reported[now.day] = 0 THEN "email" ELSE "assign"
  <2>1. pass.at = "report" /\ pass' = [pass EXCEPT !.at = place] /\ UNCHANGED <<world, log>>
    BY <1>1 DEF ReportDue
  <2>2. place \in PassAt /\ (place = "email" => reported[now.day] = 0) /\ (place # "email" => place = "assign")
    BY DEF PassAt
  <2> HIDE DEF place
  <2>3. pass' \in PassRow /\ pass'.at = place
    BY <2>1, <2>2, PassGoes
  <2>4. CASE place = "assign"
    BY <2>1, <2>3, <2>4, DayElse DEF world, log
  <2>5. CASE place = "email"
    <3>1. DayTypes'
      BY <2>1, <2>3, DayTyped DEF world, log
    <3>2. RecordedThenTold' /\ CheckedAsGiven'
      BY <2>1, <2>3, <2>5 DEF world, log, DayInv, RecordedThenTold, CheckedAsGiven, Accounts
    <3>3. ReportedOnce'
      BY <2>1, <2>2, <2>3, <2>5 DEF world, log, DayInv, ReportedOnce
    <3> QED  BY <3>1, <3>2, <3>3 DEF DayInv
  <2> QED  BY <2>2, <2>4, <2>5
<1>2. CASE ReportEmailed
  <2>1. /\ pass.at = "email" /\ UNCHANGED <<world, log>>
        /\ pass' = Resting \/ pass' = [pass EXCEPT !.at = "record"]
    BY <1>2 DEF ReportEmailed, Sleeps
  <2>2. CASE pass' = Resting
    BY <2>1, <2>2, DayGoes DEF world, log
  <2>3. CASE pass' = [pass EXCEPT !.at = "record"]
    <3>1. pass' \in PassRow /\ pass'.at = "record"
      BY <2>3, PassGoes DEF PassAt
    <3>2. DayTypes'
      BY <2>1, <3>1, DayTyped DEF world, log
    <3>3. RecordedThenTold' /\ CheckedAsGiven'
      BY <2>1, <3>1 DEF world, log, DayInv, RecordedThenTold, CheckedAsGiven, Accounts
    <3>4. ReportedOnce'
      BY <2>1, <3>1 DEF world, log, DayInv, ReportedOnce
    <3> QED  BY <3>2, <3>3, <3>4 DEF DayInv
  <2> QED  BY <2>1, <2>2, <2>3
<1>3. CASE ReportRecorded
  <2>1. /\ pass.at = "record" /\ UNCHANGED <<world, given, checked, toldAlex>>
        /\ reported' = [reported EXCEPT ![now.day] = @ + 1]
        /\ pass' = Resting \/ pass' = [pass EXCEPT !.at = "assign"]
    BY <1>3 DEF ReportRecorded, Sleeps
  <2>2. pass' \in PassRow /\ pass'.at \in {"rests", "assign"}
    <3>1. CASE pass' = Resting
      BY <3>1
    <3>2. CASE pass' = [pass EXCEPT !.at = "assign"]
      BY <3>2, PassGoes DEF PassAt
    <3> QED  BY <2>1, <3>1, <3>2
  <2>3. reported[now.day] = 0 /\ \A d \in Days : reported[d] <= 1 /\ (d > now.day => reported[d] = 0)
    BY <2>1 DEF DayInv, ReportedOnce
  <2>4. reported' \in [Days -> Nat] /\ \A d \in Days : reported'[d] = IF d = now.day THEN 1 ELSE reported[d]
    BY <2>1, <2>3
  <2>5. DayTypes'
    BY <2>1, <2>2, <2>4, DayTyped DEF world
  <2>6. RecordedThenTold' /\ CheckedAsGiven'
    BY <2>1, <2>2 DEF world, DayInv, RecordedThenTold, CheckedAsGiven, Accounts
  <2>7. ReportedOnce'
    BY <2>1, <2>2, <2>3, <2>4 DEF world, ReportedOnce
  <2> QED  BY <2>5, <2>6, <2>7 DEF DayInv
<1> QED  BY <1>1, <1>2, <1>3

\* The morning: the assignment is read, recorded and told.
LEMMA MorningStep ==
  ASSUME DayInv, MorningReads \/ MorningRecords \/ MorningTells  PROVE DayInv'
<1> USE DayFacts, RestingIs, DayBounds
<1>1. CASE MorningReads
  <2>1. CASE pass' = [pass EXCEPT !.at = "check in"]
    <3>1. pass' \in PassRow /\ pass'.at = "check in"
      BY <2>1, PassGoes DEF PassAt
    <3> QED  BY <1>1, <3>1, DayGoes DEF MorningReads, world, log
  <2>2. CASE pass' = [pass EXCEPT !.at = "give", !.day = now.day, !.open = Assigned]
    <3>1. UNCHANGED <<world, log>>
      BY <1>1 DEF MorningReads
    <3>2. pass' \in PassRow /\ pass'.at = "give" /\ pass'.day = now.day
      <4> DEFINE w == Assigned
      <4>1. w \in SUBSET DayTasks /\ now.day \in Days
        BY AssignedIs
      <4>2. pass' = [pass EXCEPT !.at = "give", !.day = now.day, !.open = w]
        BY <2>2
      <4> HIDE DEF w
      <4> QED  BY <4>1, <4>2, PassGives
    <3>3. DayTypes'
      BY <3>1, <3>2, DayTyped DEF world, log
    <3>4. RecordedThenTold' /\ CheckedAsGiven' /\ ReportedOnce'
      BY <3>1, <3>2 DEF world, log, DayInv, RecordedThenTold, CheckedAsGiven, Accounts, ReportedOnce
    <3> QED  BY <3>3, <3>4 DEF DayInv
  <2> QED  BY <1>1, <2>1, <2>2 DEF MorningReads
<1>2. CASE MorningRecords
  <2>1. pass.at = "give" /\ pass.day \in Days /\ UNCHANGED <<world, checked, reported, toldAlex>>
    BY <1>2 DEF MorningRecords, DayInv, RecordedThenTold
  <2>2. CASE pass' = [pass EXCEPT !.at = "check in"] /\ given' = given
    <3>1. pass' \in PassRow /\ pass'.at = "check in"
      BY <2>2, PassGoes DEF PassAt
    <3> QED  BY <2>1, <2>2, <3>1, DayGoes DEF world, log
  <2>3. CASE /\ RecordOnce(given) /\ pass' = [pass EXCEPT !.at = "tell"]
             /\ given' = [given EXCEPT ![pass.day] = [on |-> TRUE, work |-> pass.open]]
    <3>1. pass' \in PassRow /\ pass'.at = "tell" /\ pass'.day = pass.day
      BY <2>3, PassGoes DEF PassAt
    <3>2. ~given[pass.day].on /\ pass.open \subseteq DayTasks
      BY <2>3 DEF RecordOnce, PassRow
    <3>3. /\ given' \in [Days -> [on : BOOLEAN, work : SUBSET DayTasks]] /\ given'[pass.day].on
          /\ \A d \in Days : d # pass.day => given'[d] = given[d]
      BY <2>1, <2>3, <3>2
    <3>4. DayTypes'
      BY <2>1, <3>1, <3>3, DayTyped DEF world
    <3>5. \A d \in Days : given[d].on => given'[d] = given[d]
      BY <3>2, <3>3
    <3>7. CheckedAsGiven'
      BY <2>1, <3>1, <3>5 DEF DayInv, CheckedAsGiven, Accounts
    <3>8. RecordedThenTold'
      <4>1. toldAlex["assignment"][pass.day] = 0
        BY <2>1, <3>2 DEF DayInv, RecordedThenTold, Kind
      <4>2. \A d \in Days : given[d].on => given'[d].on
        BY <3>5
      <4>3. \A d \in Days : toldAlex["assignment"][d] <= IF given'[d].on THEN 1 ELSE 0
        <5> SUFFICES ASSUME NEW d \in Days
                     PROVE  toldAlex["assignment"][d] <= IF given'[d].on THEN 1 ELSE 0
          OBVIOUS
        <5>1. CASE d = pass.day
          BY <3>3, <4>1, <5>1
        <5>2. CASE d # pass.day
          BY <3>3, <5>2 DEF DayInv, RecordedThenTold
        <5> QED  BY <5>1, <5>2
      <4> QED  BY <2>1, <3>1, <3>3, <4>1, <4>3 DEF DayInv, RecordedThenTold
    <3>9. ReportedOnce'
      BY <2>1, <3>1 DEF world, DayInv, ReportedOnce
    <3> QED  BY <3>4, <3>7, <3>8, <3>9 DEF DayInv
  <2> QED  BY <1>2, <2>2, <2>3 DEF MorningRecords
<1>3. CASE MorningTells
  <2>1. /\ pass.at = "tell" /\ UNCHANGED <<world, given, checked, reported>>
        /\ toldAlex' = [toldAlex EXCEPT !["assignment"][pass.day] = @ + 1]
        /\ pass' = Resting \/ pass' = [pass EXCEPT !.at = "check in"]
    BY <1>3 DEF MorningTells, Sleeps
  <2>2. pass' \in PassRow /\ pass'.at \in {"rests", "check in"}
    <3>1. CASE pass' = Resting
      BY <3>1
    <3>2. CASE pass' = [pass EXCEPT !.at = "check in"]
      BY <3>2, PassGoes DEF PassAt
    <3> QED  BY <2>1, <3>1, <3>2
  <2>3. pass.day \in Days /\ given[pass.day].on /\ toldAlex["assignment"][pass.day] = 0
    BY <2>1 DEF DayInv, RecordedThenTold
  <2>4. /\ toldAlex' \in [Kind -> [Days -> Nat]] /\ toldAlex'["check-in"] = toldAlex["check-in"]
        /\ toldAlex'["assignment"][pass.day] = 1
        /\ \A d \in Days : d # pass.day => toldAlex'["assignment"][d] = toldAlex["assignment"][d]
    <3>1. "assignment" \in Kind /\ "check-in" \in Kind
      BY DEF Kind
    <3>2. toldAlex["assignment"][pass.day] + 1 = 1
      BY <2>3
    <3>3. /\ toldAlex' \in [Kind -> [Days -> Nat]]
          /\ toldAlex'["assignment"][pass.day] = toldAlex["assignment"][pass.day] + 1
          /\ \A e \in Days : e # pass.day => toldAlex'["assignment"][e] = toldAlex["assignment"][e]
          /\ \A j \in Kind : j # "assignment" => toldAlex'[j] = toldAlex[j]
      BY <2>1, <2>3, <3>1, ToldAgain
    <3> QED  BY <3>1, <3>2, <3>3
  <2>5. DayTypes'
    BY <2>1, <2>2, <2>4, DayTyped DEF world
  <2>6. RecordedThenTold'
    <3>1. ASSUME NEW d \in Days
          PROVE  /\ toldAlex'["assignment"][d] <= IF given[d].on THEN 1 ELSE 0
                 /\ toldAlex'["check-in"][d] <= IF checked[d].on THEN 1 ELSE 0
      <4>1. CASE d = pass.day
        BY <2>3, <2>4, <4>1 DEF DayInv, RecordedThenTold
      <4>2. CASE d # pass.day
        BY <2>4, <4>2 DEF DayInv, RecordedThenTold
      <4> QED  BY <4>1, <4>2
    <3> QED  BY <2>1, <2>2, <3>1 DEF RecordedThenTold
  <2>7. CheckedAsGiven' /\ ReportedOnce'
    BY <2>1, <2>2 DEF world, DayInv, CheckedAsGiven, Accounts, ReportedOnce
  <2> QED  BY <2>5, <2>6, <2>7 DEF DayInv
<1> QED  BY <1>1, <1>2, <1>3

\* The evening: what was assigned is read, accounted for and asked about.
LEMMA EveningStep ==
  ASSUME DayInv, EveningReads \/ EveningRecords \/ EveningSays  PROVE DayInv'
<1> USE DayFacts, RestingIs, DayBounds
<1>1. CASE EveningReads
  <2>1. CASE pass' = Resting
    BY <1>1, <2>1, DayGoes DEF EveningReads, world, log
  <2> DEFINE did == given[now.day].work \cap finished
             left == given[now.day].work \ finished
  <2>2. CASE /\ given[now.day].on
             /\ pass' = [pass EXCEPT !.at = "ask", !.day = now.day, !.done = did, !.open = left]
    <3>1. UNCHANGED <<world, log>>
      BY <1>1 DEF EveningReads
    <3>2. /\ did \subseteq DayTasks /\ left \subseteq DayTasks /\ did \cap left = {}
          /\ did \union left = given[now.day].work
      OBVIOUS
    <3> HIDE DEF did, left
    <3>3. /\ pass' \in PassRow /\ pass'.at = "ask" /\ pass'.day = now.day
          /\ pass'.done = did /\ pass'.open = left
      <4>1. now.day \in Days /\ did \in SUBSET DayTasks /\ left \in SUBSET DayTasks
        BY <3>2
      <4> QED  BY <2>2, <4>1, PassAsks
    <3>4. DayTypes'
      BY <3>1, <3>3, DayTyped DEF world, log
    <3>5. RecordedThenTold' /\ ReportedOnce'
      BY <3>1, <3>3 DEF world, log, DayInv, RecordedThenTold, ReportedOnce
    <3>6. CheckedAsGiven'
      BY <2>2, <3>1, <3>2, <3>3 DEF world, log, DayInv, CheckedAsGiven, Accounts
    <3> QED  BY <3>4, <3>5, <3>6 DEF DayInv
  <2> QED  BY <1>1, <2>1, <2>2 DEF EveningReads, Sleeps
<1>2. CASE EveningRecords
  <2>1. pass.at = "ask" /\ pass.day \in Days /\ UNCHANGED <<world, given, reported, toldAlex>>
    BY <1>2 DEF EveningRecords, DayInv, RecordedThenTold
  <2>2. CASE pass' = Resting /\ checked' = checked
    BY <2>1, <2>2, DayGoes DEF world, log
  <2>3. CASE /\ RecordOnce(checked) /\ pass' = [pass EXCEPT !.at = "say"]
             /\ checked' = [checked EXCEPT ![pass.day] = [on |-> TRUE, done |-> pass.done, open |-> pass.open]]
    <3>1. pass' \in PassRow /\ pass'.at = "say" /\ pass'.day = pass.day
      BY <2>3, PassGoes DEF PassAt
    <3>2. ~checked[pass.day].on /\ pass.open \subseteq DayTasks /\ pass.done \subseteq DayTasks
      BY <2>3 DEF RecordOnce, PassRow
    <3>3. /\ checked' \in [Days -> [on : BOOLEAN, done : SUBSET DayTasks, open : SUBSET DayTasks]]
          /\ checked'[pass.day] = [on |-> TRUE, done |-> pass.done, open |-> pass.open]
          /\ \A d \in Days : d # pass.day => checked'[d] = checked[d]
      BY <2>1, <2>3, <3>2
    <3>4. DayTypes'
      BY <2>1, <3>1, <3>3, DayTyped DEF world
    <3>5. CheckedAsGiven'
      <4>1. Accounts(pass.day, pass.done, pass.open)
        BY <2>1 DEF DayInv, CheckedAsGiven
      <4>2. ASSUME NEW d \in Days, checked'[d].on PROVE Accounts(d, checked'[d].done, checked'[d].open)
        <5>1. CASE d = pass.day
          BY <3>3, <4>1, <5>1
        <5>2. CASE d # pass.day
          BY <3>3, <4>2, <5>2 DEF DayInv, CheckedAsGiven
        <5> QED  BY <5>1, <5>2
      <4> QED  BY <2>1, <3>1, <4>2 DEF CheckedAsGiven, Accounts
    <3>6. RecordedThenTold'
      <4>1. toldAlex["check-in"][pass.day] = 0
        BY <2>1, <3>2 DEF DayInv, RecordedThenTold, Kind
      <4>2. checked'[pass.day].on
        BY <3>3
      <4>3. \A d \in Days : toldAlex["check-in"][d] <= IF checked'[d].on THEN 1 ELSE 0
        <5> SUFFICES ASSUME NEW d \in Days
                     PROVE  toldAlex["check-in"][d] <= IF checked'[d].on THEN 1 ELSE 0
          OBVIOUS
        <5>1. CASE d = pass.day
          BY <4>1, <4>2, <5>1
        <5>2. CASE d # pass.day
          BY <3>3, <5>2 DEF DayInv, RecordedThenTold
        <5> QED  BY <5>1, <5>2
      <4> QED  BY <2>1, <3>1, <4>1, <4>2, <4>3 DEF DayInv, RecordedThenTold
    <3>7. ReportedOnce'
      BY <2>1, <3>1 DEF world, DayInv, ReportedOnce
    <3> QED  BY <3>4, <3>5, <3>6, <3>7 DEF DayInv
  <2> QED  BY <1>2, <2>2, <2>3 DEF EveningRecords, Sleeps
<1>3. CASE EveningSays
  <2>1. /\ pass.at = "say" /\ UNCHANGED <<world, given, checked, reported>>
        /\ toldAlex' = [toldAlex EXCEPT !["check-in"][pass.day] = @ + 1] /\ pass' = Resting
    BY <1>3 DEF EveningSays, Sleeps
  <2>2. pass.day \in Days /\ checked[pass.day].on /\ toldAlex["check-in"][pass.day] = 0
    BY <2>1 DEF DayInv, RecordedThenTold
  <2>7. "check-in" \in Kind /\ "assignment" \in Kind /\ "assignment" # "check-in"
        /\ toldAlex \in [Kind -> [Days -> Nat]]
    BY DEF Kind
  <2>8. /\ toldAlex' \in [Kind -> [Days -> Nat]]
        /\ toldAlex'["check-in"][pass.day] = toldAlex["check-in"][pass.day] + 1
        /\ \A e \in Days : e # pass.day => toldAlex'["check-in"][e] = toldAlex["check-in"][e]
        /\ \A j \in Kind : j # "check-in" => toldAlex'[j] = toldAlex[j]
    <3>1. toldAlex' = [toldAlex EXCEPT !["check-in"][pass.day] = @ + 1]
      BY <2>1
    <3> QED  BY ONLY <2>2, <2>7, <3>1, ToldAgain
  <2>3. /\ toldAlex' \in [Kind -> [Days -> Nat]] /\ toldAlex'["assignment"] = toldAlex["assignment"]
        /\ \A d \in Days : toldAlex'["check-in"][d] = IF d = pass.day THEN 1 ELSE toldAlex["check-in"][d]
    <3>1. toldAlex'["check-in"][pass.day] = 1
      BY ONLY <2>2, <2>8
    <3> QED  BY ONLY <2>7, <2>8, <3>1
  <2>4. DayTypes'
    BY <2>1, <2>3, DayTyped DEF world
  <2>5. RecordedThenTold'
    BY <2>1, <2>2, <2>3 DEF DayInv, RecordedThenTold
  <2>6. CheckedAsGiven' /\ ReportedOnce'
    BY <2>1 DEF world, DayInv, CheckedAsGiven, Accounts, ReportedOnce
  <2> QED  BY <2>4, <2>5, <2>6 DEF DayInv
<1> QED  BY <1>1, <1>2, <1>3

LEMMA DayStep ==
  ASSUME DayInv, [DayNext]_dayVars  PROVE DayInv'
<1> USE DayFacts, RestingIs, DayBounds
<1>1. CASE PassBegins
  <2> DEFINE due == Hours[now.hour]
  <2>1. pass' = [Resting EXCEPT !.at = "report", !.due = due] /\ UNCHANGED <<world, log>>
    BY <1>1 DEF PassBegins
  <2>2. due \in SUBSET {"report", "assign", "check in"}
    <3> DEFINE T == SUBSET {"report", "assign", "check in"}
    <3>1. Hours \in Seq(T) /\ now.hour \in 1 .. Len(Hours)
      BY DayAssumption
    <3> HIDE DEF T
    <3>2. due \in T
      BY <3>1, ElementOfSeq
    <3> QED  BY <3>2 DEF T
  <2> HIDE DEF due
  <2>3. pass' \in PassRow /\ pass'.at = "report"
    BY <2>1, <2>2 DEF PassRow, PassAt
  <2> QED  BY <2>1, <2>3, DayElse DEF world, log
<1>2. CASE HourPasses
  <2>1. UNCHANGED <<finished, log, pass, cuts>>
    BY <1>2 DEF HourPasses
  <2>2. /\ now' \in [day : Days, hour : DOMAIN Hours] /\ now.day <= now'.day /\ agenda' \in Agendas
    <3>1. CASE now.hour < Len(Hours)
      <4>1. now' = [now EXCEPT !.hour = @ + 1] /\ agenda' = agenda
        BY <1>2, <3>1 DEF HourPasses
      <4>2. now.hour + 1 \in DOMAIN Hours
        BY <3>1
      <4>3. now'.day = now.day /\ now.day \in Nat
        BY <4>1
      <4>4. now' \in [day : Days, hour : DOMAIN Hours]
        BY <4>1, <4>2
      <4> QED  BY <4>1, <4>3, <4>4
    <3>2. CASE ~ (now.hour < Len(Hours))
      <4>1. now.day < MaxDay /\ now' = [day |-> now.day + 1, hour |-> 1] /\ agenda' \in Agendas
        BY <1>2, <3>2 DEF HourPasses
      <4>2. now.day + 1 \in Days /\ 1 \in DOMAIN Hours
        BY <4>1 DEF Days
      <4>3. now'.day = now.day + 1 /\ now.day \in Nat
        BY <4>1
      <4>4. now' \in [day : Days, hour : DOMAIN Hours]
        BY <4>1, <4>2
      <4> QED  BY <4>1, <4>3, <4>4
    <3> QED  BY <3>1, <3>2
  <2> QED  BY <2>1, <2>2, DayElse DEF log
<1>3. CASE DayCutOff
  <2>1. cuts < MaxCuts /\ cuts' = cuts + 1 /\ pass' = Resting /\ UNCHANGED <<now, agenda, finished, log>>
    BY <1>3 DEF DayCutOff, Sleeps
  <2>2. cuts' \in 0 .. MaxCuts
    BY <2>1
  <2> QED  BY <2>1, <2>2, DayGoes DEF log
<1>4. ASSUME NEW t \in DayTasks, AlexFinishes(t) PROVE DayInv'
  <2>1. finished' = finished \union {t} /\ UNCHANGED <<now, agenda, log, pass, cuts>>
    BY <1>4 DEF AlexFinishes
  <2> QED  BY <2>1, DayGoes DEF log
<1>5. CASE UNCHANGED dayVars
  BY <1>5, DayGoes DEF dayVars
<1> QED  BY <1>1, <1>2, <1>3, <1>4, <1>5, ReportStep, MorningStep, EveningStep DEF DayNext, DayPass

LEMMA DayShows ==
  DayInv => DayTypeOK /\ DayIsRemembered
<1> SUFFICES ASSUME DayInv, NEW d \in Days
             PROVE  /\ toldAlex["assignment"][d] <= IF given[d].on THEN 1 ELSE 0
                    /\ toldAlex["check-in"][d] <= IF checked[d].on THEN 1 ELSE 0
                    /\ checked[d].on =>
                         /\ given[d].on /\ checked[d].done \cap checked[d].open = {}
                         /\ checked[d].done \union checked[d].open = given[d].work
                    /\ reported[d] <= 1
  BY DEF DayInv, DayTypes, DayIsRemembered
<1> QED  BY DEF DayInv, RecordedThenTold, CheckedAsGiven, Accounts, ReportedOnce

-----------------------------------------------------------------------------
(* Production.                                                             *)

PlannedAs(s, n) ==
  [made |-> TRUE, batch |-> BatchOf(s, n), by |-> s,
   shoot |-> ShootDate(s, BatchOf(s, n)), publish |-> PublishDate(s, n)]

AsPlanned ==
  /\ episode \in [Numbers -> {Unplanned} \union {PlannedAs(s, n) : s \in Schedules, n \in Numbers}]
  /\ \A n \in Made : /\ episode[n].by \in Schedules /\ n >= episode[n].by.first
                     /\ episode[n] = PlannedAs(episode[n].by, n)

PlannedWhole ==
  \A n \in Made : \A m \in EpisodesOf(episode[n].by, episode[n].batch) :
    m \in Made /\ episode[m].by = episode[n].by

HasUpcoming ==
  \A b \in Upcoming : EpisodesOf(schedule, b) # {} => EpisodesOf(schedule, b) \cap Made # {}

\* What the loop remembers is of today or earlier; once a pass has planned today,
\* every upcoming batch exists.
PlannedToday ==
  /\ dayRecord.day <= morning /\ dayRecord.done <= morning
  /\ dayRecord.done = morning \/ (loop = "book" /\ dayRecord.day = morning) => HasUpcoming

\* Before a further try, one is left.
TriesLeft ==
  /\ dayRecord.tries <= ATTEMPTS_PER_DAY + dayRecord.raised
  /\ loop = "asleep" /\ dayRecord.done # dayRecord.day =>
       dayRecord.tries < ATTEMPTS_PER_DAY + dayRecord.raised

ProductionInv == ProductionTypeOK /\ AsPlanned /\ PlannedWhole /\ PlannedToday /\ TriesLeft

\* What the constants are.
LEMMA ProductionBounds ==
  /\ MaxEpisode \in Nat /\ MaxMishaps \in Nat /\ HORIZON_DAYS \in Nat
  /\ ATTEMPTS_PER_DAY \in Nat \ {0} /\ Mornings \subseteq Nat /\ 0 \in Mornings
  /\ Numbers \subseteq Nat /\ (\A n \in Numbers : n <= MaxEpisode)
  /\ \A s \in Schedules : /\ s.shoot \in Nat /\ s.first \in Nat \ {0} /\ s.per \in 1 .. 8
                          /\ s.weekday \in 0 .. 6
BY ProductionAssumption DEF Numbers

\* A batch has a few episodes: division by so few, case by case, which the
\* provers cannot do for an unknown divisor.
LEMMA Division ==
  ASSUME NEW a \in Nat, NEW k \in 1 .. 8
  PROVE  a \div k \in Nat /\ a % k \in Nat /\ a % k < k /\ a = k * (a \div k) + (a % k)
<1>1. a \div 1 \in Nat /\ a % 1 \in Nat /\ a % 1 < 1 /\ a = 1 * (a \div 1) + (a % 1)
  OBVIOUS
<1>2. a \div 2 \in Nat /\ a % 2 \in Nat /\ a % 2 < 2 /\ a = 2 * (a \div 2) + (a % 2)
  OBVIOUS
<1>3. a \div 3 \in Nat /\ a % 3 \in Nat /\ a % 3 < 3 /\ a = 3 * (a \div 3) + (a % 3)
  OBVIOUS
<1>4. a \div 4 \in Nat /\ a % 4 \in Nat /\ a % 4 < 4 /\ a = 4 * (a \div 4) + (a % 4)
  OBVIOUS
<1>5. a \div 5 \in Nat /\ a % 5 \in Nat /\ a % 5 < 5 /\ a = 5 * (a \div 5) + (a % 5)
  OBVIOUS
<1>6. a \div 6 \in Nat /\ a % 6 \in Nat /\ a % 6 < 6 /\ a = 6 * (a \div 6) + (a % 6)
  OBVIOUS
<1>7. a \div 7 \in Nat /\ a % 7 \in Nat /\ a % 7 < 7 /\ a = 7 * (a \div 7) + (a % 7)
  OBVIOUS
<1>8. a \div 8 \in Nat /\ a % 8 \in Nat /\ a % 8 < 8 /\ a = 8 * (a \div 8) + (a % 8)
  OBVIOUS
<1>9. k = 1 \/ k = 2 \/ k = 3 \/ k = 4 \/ k = 5 \/ k = 6 \/ k = 7 \/ k = 8
  OBVIOUS
<1> QED  BY Zenon, <1>1, <1>2, <1>3, <1>4, <1>5, <1>6, <1>7, <1>8, <1>9

\* A batch is published within the week after its shoot, on its weekday
\* (ProductionSchedule.publish_date).
LEMMA AheadIs ==
  ASSUME NEW s \in Schedules
  PROVE  DaysAhead(s) \in 1 .. 7 /\ (s.shoot + DaysAhead(s)) % 7 = s.weekday
<1> DEFINE w == s.weekday
           d == s.shoot
<1>1. w \in 0 .. 6 /\ d \in Nat
  BY ProductionBounds
<1>2. DaysAhead(s) = IF (w - d) % 7 = 0 THEN 7 ELSE (w - d) % 7
  BY DEF DaysAhead
<1> HIDE DEF w, d
<1>3. (w - d) % 7 \in 0 .. 6 /\ (d + ((w - d) % 7)) % 7 = w /\ (d + 7) % 7 = d % 7
  BY <1>1
<1>4. CASE (w - d) % 7 = 0
  BY <1>1, <1>2, <1>3, <1>4 DEF w, d
<1>5. CASE (w - d) % 7 # 0
  BY <1>1, <1>2, <1>3, <1>5 DEF w, d
<1> QED  BY <1>4, <1>5

\* When an episode is shot and published.
LEMMA DatesAre ==
  ASSUME NEW s \in Schedules, NEW n \in Numbers, n >= s.first
  PROVE  /\ BatchOf(s, n) \in Nat /\ BatchOf(s, n) <= MaxEpisode
         /\ ShootDate(s, BatchOf(s, n)) \in Nat
         /\ PublishDate(s, n) = s.shoot + DaysAhead(s) + 7 * (n - s.first)
         /\ PublishDate(s, n) \in Nat /\ PublishDate(s, n) % 7 = s.weekday
         /\ PublishDate(s, n) > ShootDate(s, BatchOf(s, n))
<1> DEFINE k == s.per
           a == n - s.first
           q == a \div k
           r == a % k
           d == s.shoot
           h == DaysAhead(s)
<1>1. k \in 1 .. 8 /\ a \in Nat /\ d \in Nat /\ n \in Nat /\ n <= MaxEpisode /\ a <= n
  BY ProductionBounds
<1>2. q \in Nat /\ r \in Nat /\ a = k * q + r
  BY <1>1, Division
<1>3. h \in 1 .. 7 /\ (d + h) % 7 = s.weekday
  BY AheadIs
<1>4. /\ BatchOf(s, n) = q /\ ShootDate(s, q) = d + 7 * q * k
      /\ PublishDate(s, n) = ShootDate(s, q) + h + 7 * r
  BY DEF BatchOf, ShootDate, PublishDate
<1> HIDE DEF k, a, q, r, d, h
<1> DEFINE p == k * q
<1>5. p \in Nat /\ 7 * q * k = 7 * p /\ q <= p
  BY <1>1, <1>2
<1>6. ShootDate(s, q) = d + 7 * p /\ a = p + r
  BY <1>2, <1>4, <1>5
<1> HIDE DEF p
<1>7. PublishDate(s, n) = (d + h) + 7 * a
  BY <1>1, <1>2, <1>3, <1>4, <1>5, <1>6
<1>8. (d + h) \in Nat /\ (d + h + 7 * a) % 7 = (d + h) % 7
  BY <1>1, <1>3
<1>9. q <= MaxEpisode /\ ShootDate(s, q) \in Nat /\ PublishDate(s, n) \in Nat /\ PublishDate(s, n) > ShootDate(s, q)
  <2>1. PublishDate(s, n) = (d + 7 * p) + h + 7 * r
    BY <1>4, <1>6
  <2>2. p \in Nat /\ d + 7 * p \in Nat /\ (d + 7 * p) + h + 7 * r \in Nat /\ (d + 7 * p) + h + 7 * r > d + 7 * p
    BY <1>1, <1>2, <1>3, <1>5
  <2>3. q <= MaxEpisode
    BY <1>1, <1>2, <1>5, <1>6, ProductionBounds
  <2> QED  BY <1>6, <2>1, <2>2, <2>3
<1>10. PublishDate(s, n) = s.shoot + DaysAhead(s) + 7 * (n - s.first)
  BY <1>7 DEF a, d, h
<1> QED  BY <1>2, <1>3, <1>4, <1>7, <1>8, <1>9, <1>10

LEMMA NotMade == Unplanned.made = FALSE
BY DEF Unplanned

\* What a planned episode is.
LEMMA PlannedIs ==
  \A s, n :
         /\ PlannedAs(s, n).made = TRUE /\ PlannedAs(s, n).by = s
         /\ PlannedAs(s, n).batch = BatchOf(s, n)
         /\ PlannedAs(s, n).shoot = ShootDate(s, BatchOf(s, n))
         /\ PlannedAs(s, n).publish = PublishDate(s, n)
BY DEF PlannedAs

LEMMA ProductionStart ==
  ASSUME ProductionInit  PROVE ProductionInv
<1>1. /\ schedule \in Schedules /\ morning = 0 /\ episode = [n \in Numbers |-> Unplanned]
      /\ booked = {} /\ closed = {} /\ loop = "asleep" /\ dayRecord = NoDay /\ stops = 0
  BY DEF ProductionInit
<1>2. Made = {}
  BY <1>1, NotMade DEF Made
<1>3. NoDay \in DayRecords
  BY DEF NoDay, DayRecords
<1>4. ProductionTypeOK
  BY <1>1, <1>3, ProductionBounds DEF ProductionTypeOK
<1>5. AsPlanned /\ PlannedWhole
  BY <1>1, <1>2 DEF AsPlanned, PlannedWhole
<1>6. PlannedToday
  BY <1>1 DEF PlannedToday, NoDay
<1>7. TriesLeft
  BY <1>1, ProductionBounds DEF TriesLeft, NoDay
<1> QED  BY <1>4, <1>5, <1>6, <1>7 DEF ProductionInv

\* What leaves the episodes and the attempts alone, and plans nothing.
LEMMA ProductionElse ==
  ASSUME ProductionInv, ProductionTypeOK', UNCHANGED <<episode, schedule, morning>>, PlannedToday', TriesLeft'
  PROVE  ProductionInv'
BY DEF ProductionInv, AsPlanned, PlannedWhole, Made

\* The episodes of a batch that none of exists come into being together.
LEMMA PlanStep ==
  ASSUME ProductionInv, PlanUpcoming  PROVE ProductionInv'
<1> DEFINE New == Creates
<1>1. /\ loop = "plan" /\ loop' = "book"
      /\ UNCHANGED <<schedule, morning, booked, closed, dayRecord, stops>>
      /\ episode' = [n \in Numbers |-> IF n \notin New THEN episode[n] ELSE PlannedAs(schedule, n)]
  BY DEF PlanUpcoming, PlannedAs
<1>2. \A n \in New : /\ n \in Numbers /\ n >= schedule.first /\ BatchOf(schedule, n) \in Upcoming
                     /\ \A m \in EpisodesOf(schedule, BatchOf(schedule, n)) : m \notin Made
  BY DEF Creates, Made
<1>3. \A n \in Numbers : /\ n >= schedule.first /\ BatchOf(schedule, n) \in Upcoming
                         /\ \A m \in EpisodesOf(schedule, BatchOf(schedule, n)) : m \notin Made
                         => n \in New
  BY DEF Creates, Made, EpisodesOf
<1> HIDE DEF New
<1>4. schedule \in Schedules
  BY DEF ProductionInv, ProductionTypeOK
<1>5. \A n \in New : n \notin Made /\ n \in EpisodesOf(schedule, BatchOf(schedule, n))
  BY <1>2 DEF EpisodesOf
<1>6. \A n \in Numbers : /\ n \in New => episode'[n] = PlannedAs(schedule, n)
                         /\ n \notin New => episode'[n] = episode[n]
  BY <1>1
<1>7. Made' = Made \union New
  BY <1>2, <1>5, <1>6, PlannedIs DEF Made
<1>8. AsPlanned'
  <2>1. episode \in [Numbers -> {Unplanned} \union {PlannedAs(s, n) : s \in Schedules, n \in Numbers}]
    BY DEF ProductionInv, AsPlanned
  <2>2. \A n \in Numbers : PlannedAs(schedule, n) \in {PlannedAs(s, m) : s \in Schedules, m \in Numbers}
    BY <1>4
  <2>3. episode' \in [Numbers -> {Unplanned} \union {PlannedAs(s, n) : s \in Schedules, n \in Numbers}]
    BY <1>1, <2>1, <2>2
  <2>4. ASSUME NEW n \in Made'
        PROVE  /\ episode'[n].by \in Schedules /\ n >= episode'[n].by.first
               /\ episode'[n] = PlannedAs(episode'[n].by, n)
    <3>1. CASE n \in New
      <4>1. episode'[n] = PlannedAs(schedule, n)
        BY <1>2, <1>6, <3>1
      <4>2. episode'[n].by = schedule
        BY <4>1, PlannedIs
      <4> QED  BY <1>2, <1>4, <3>1, <4>1, <4>2
    <3>2. CASE n \notin New
      <4>1. n \in Made /\ n \in Numbers
        BY <1>7, <3>2 DEF Made
      <4>2. episode'[n] = episode[n]
        BY <1>6, <3>2, <4>1
      <4> QED  BY <4>1, <4>2 DEF ProductionInv, AsPlanned
    <3> QED  BY <3>1, <3>2
  <2> QED  BY <2>3, <2>4 DEF AsPlanned
<1>9. PlannedWhole'
  <2> SUFFICES ASSUME NEW n \in Made', NEW m \in EpisodesOf(episode'[n].by, episode'[n].batch)
               PROVE  m \in Made' /\ episode'[m].by = episode'[n].by
    BY DEF PlannedWhole
  <2>1. CASE n \in New
    <3>1. n \in Numbers /\ episode'[n].by = schedule /\ episode'[n].batch = BatchOf(schedule, n)
      BY <1>2, <1>6, <2>1, PlannedIs
    <3>2. m \in Numbers /\ m >= schedule.first /\ BatchOf(schedule, m) = BatchOf(schedule, n)
      BY <3>1 DEF EpisodesOf
    <3>3. m \in New
      BY <1>2, <1>3, <2>1, <3>2
    <3>4. episode'[m].by = schedule
      BY <1>6, <3>2, <3>3, PlannedIs
    <3> QED  BY <1>7, <3>1, <3>3, <3>4
  <2>2. CASE n \notin New
    <3>1. n \in Made /\ n \in Numbers
      BY <1>7, <2>2 DEF Made
    <3>2. episode'[n] = episode[n]
      BY <1>6, <2>2, <3>1
    <3>3. m \in Made /\ episode[m].by = episode[n].by
      BY <3>1, <3>2 DEF ProductionInv, PlannedWhole
    <3>4. m \notin New /\ m \in Numbers
      BY <1>5, <3>3 DEF Made
    <3> QED  BY <1>6, <1>7, <3>2, <3>3, <3>4
  <2> QED  BY <2>1, <2>2
<1>10. HasUpcoming'
  <2> SUFFICES ASSUME NEW b \in Upcoming, EpisodesOf(schedule, b) # {}
               PROVE  EpisodesOf(schedule, b) \cap Made' # {}
    BY <1>1 DEF HasUpcoming, Upcoming
  <2>1. CASE EpisodesOf(schedule, b) \cap Made # {}
    BY <1>7, <2>1
  <2>2. CASE EpisodesOf(schedule, b) \cap Made = {}
    <3>1. PICK n \in EpisodesOf(schedule, b) : TRUE
      OBVIOUS
    <3>2. n \in Numbers /\ n >= schedule.first /\ BatchOf(schedule, n) = b
      BY DEF EpisodesOf
    <3>3. n \in New
      BY <1>3, <2>2, <3>2
    <3> QED  BY <1>7, <3>1, <3>3
  <2> QED  BY <2>1, <2>2
<1>11. ProductionTypeOK'
  <2>1. \A n \in Numbers : episode'[n] # Unplanned => episode'[n].made /\ episode'[n].by \in Schedules
    BY <1>4, <1>6, PlannedIs DEF ProductionInv, ProductionTypeOK
  <2> QED  BY <1>1, <2>1 DEF ProductionInv, ProductionTypeOK
<1>12. PlannedToday' /\ TriesLeft'
  BY <1>1, <1>10 DEF ProductionInv, PlannedToday, TriesLeft
<1> QED  BY <1>8, <1>9, <1>11, <1>12 DEF ProductionInv

LEMMA ProductionStep ==
  ASSUME ProductionInv, [ProductionNext]_productionVars  PROVE ProductionInv'
<1> USE ProductionBounds
<1>0. /\ schedule \in Schedules /\ morning \in Mornings /\ morning \in Nat
      /\ dayRecord.done \in Int /\ dayRecord.day \in Int /\ dayRecord.tries \in Nat
      /\ dayRecord.raised \in Nat /\ dayRecord \in DayRecords
  <2>1. dayRecord \in DayRecords /\ schedule \in Schedules /\ morning \in Mornings
    BY DEF ProductionInv, ProductionTypeOK
  <2>2. Mornings \union {-1} \subseteq Int
    OBVIOUS
  <2>3. /\ dayRecord.done \in Mornings \union {-1} /\ dayRecord.day \in Mornings \union {-1}
        /\ dayRecord.tries \in Nat /\ dayRecord.raised \in Nat
    BY <2>1 DEF DayRecords
  <2> QED  BY <2>1, <2>2, <2>3
<1>1. CASE BeginDay
  <2>1. /\ loop = "asleep" /\ dayRecord.done # morning /\ loop' = "plan"
        /\ UNCHANGED <<schedule, morning, episode, booked, closed, stops>>
    BY <1>1 DEF BeginDay
  <2>2. CASE dayRecord.day = morning
    <3>1. dayRecord' = [dayRecord EXCEPT !.tries = @ + 1]
      BY <1>1, <2>2 DEF BeginDay
    <3>2. /\ dayRecord' \in DayRecords /\ dayRecord'.tries = dayRecord.tries + 1
          /\ dayRecord'.done = dayRecord.done /\ dayRecord'.day = dayRecord.day
          /\ dayRecord'.raised = dayRecord.raised
      BY <1>0, <3>1 DEF DayRecords
    <3>3. ProductionTypeOK'
      BY <2>1, <3>2 DEF ProductionInv, ProductionTypeOK
    <3>4. PlannedToday'
      BY <2>1, <3>2 DEF ProductionInv, PlannedToday
    <3>5. dayRecord.tries < ATTEMPTS_PER_DAY + dayRecord.raised
      BY <2>1, <2>2 DEF ProductionInv, TriesLeft
    <3>6. TriesLeft'
      BY <1>0, <2>1, <3>2, <3>5 DEF TriesLeft
    <3> QED  BY <2>1, <3>3, <3>4, <3>6, ProductionElse
  <2>3. CASE dayRecord.day # morning
    <3>1. dayRecord' = [dayRecord EXCEPT !.day = morning, !.tries = 1, !.raised = 0]
      BY <1>1, <2>3 DEF BeginDay
    <3>2. /\ dayRecord' \in DayRecords /\ dayRecord'.tries = 1 /\ dayRecord'.done = dayRecord.done
          /\ dayRecord'.day = morning /\ dayRecord'.raised = 0
      BY <1>0, <3>1 DEF DayRecords
    <3>3. ProductionTypeOK'
      BY <2>1, <3>2 DEF ProductionInv, ProductionTypeOK
    <3>4. PlannedToday'
      BY <1>0, <2>1, <3>2 DEF ProductionInv, PlannedToday
    <3>5. TriesLeft'
      BY <2>1, <3>2 DEF TriesLeft
    <3> QED  BY <2>1, <3>3, <3>4, <3>5, ProductionElse
  <2> QED  BY <2>2, <2>3
<1>2. CASE BookFixedTasks
  <2>1. PICK failed \in {{}, Unbooked} \union {{f} : f \in Unbooked} :
          /\ booked' = booked \union (Unbooked \ failed)
          /\ dayRecord' = IF failed = {} \/ dayRecord.tries >= ATTEMPTS_PER_DAY
                          THEN [dayRecord EXCEPT !.done = dayRecord.day] ELSE dayRecord
    BY <1>2 DEF BookFixedTasks
  <2>2. loop = "book" /\ loop' = "asleep" /\ UNCHANGED <<schedule, morning, episode, closed, stops>>
    BY <1>2 DEF BookFixedTasks
  <2>3. Unbooked \subseteq {"film", "publish"} \X Numbers
    <3>1. Fixed \subseteq {"film", "publish"} \X Numbers
      BY DEF Fixed
    <3> QED  BY <3>1 DEF Unbooked
  <2>4. booked' \union closed' \subseteq {"film", "publish"} \X Numbers
    BY <2>1, <2>2, <2>3 DEF ProductionInv, ProductionTypeOK
  <2>5. CASE dayRecord' = [dayRecord EXCEPT !.done = dayRecord.day]
    <3>1. /\ dayRecord' \in DayRecords /\ dayRecord'.done = dayRecord.day /\ dayRecord'.day = dayRecord.day
          /\ dayRecord'.tries = dayRecord.tries /\ dayRecord'.raised = dayRecord.raised
      BY <1>0, <2>5 DEF DayRecords
    <3>2. ProductionTypeOK'
      BY <2>2, <2>4, <3>1 DEF ProductionInv, ProductionTypeOK
    <3>3. HasUpcoming => HasUpcoming'
      BY <2>2 DEF HasUpcoming, Upcoming, Made
    <3>4. PlannedToday'
      BY <2>2, <3>1, <3>3 DEF ProductionInv, PlannedToday
    <3>5. TriesLeft'
      BY <3>1 DEF ProductionInv, TriesLeft
    <3> QED  BY <2>2, <3>2, <3>4, <3>5, ProductionElse
  <2>6. CASE dayRecord' = dayRecord /\ dayRecord.tries < ATTEMPTS_PER_DAY
    <3>1. ProductionTypeOK'
      BY <2>2, <2>4, <2>6 DEF ProductionInv, ProductionTypeOK
    <3>2. HasUpcoming => HasUpcoming'
      BY <2>2 DEF HasUpcoming, Upcoming, Made
    <3>3. PlannedToday'
      BY <2>2, <2>6, <3>2 DEF ProductionInv, PlannedToday
    <3>4. TriesLeft'
      BY <1>0, <2>6 DEF TriesLeft
    <3> QED  BY <2>2, <3>1, <3>3, <3>4, ProductionElse
  <2> QED  BY <1>0, <2>1, <2>5, <2>6
<1>3. CASE Raises
  <2>1. /\ loop \in {"plan", "book"} /\ loop' = "asleep"
        /\ dayRecord' = [dayRecord EXCEPT !.raised = @ + 1]
        /\ UNCHANGED <<schedule, morning, episode, booked, closed, stops>>
    BY <1>3 DEF Raises
  <2>2. /\ dayRecord' \in DayRecords /\ dayRecord'.done = dayRecord.done /\ dayRecord'.day = dayRecord.day
        /\ dayRecord'.tries = dayRecord.tries /\ dayRecord'.raised = dayRecord.raised + 1
    BY <1>0, <2>1 DEF DayRecords
  <2>3. ProductionTypeOK'
    BY <2>1, <2>2 DEF ProductionInv, ProductionTypeOK
  <2>4. HasUpcoming => HasUpcoming'
    BY <2>1 DEF HasUpcoming, Upcoming, Made
  <2>5. PlannedToday'
    BY <2>1, <2>2, <2>4 DEF ProductionInv, PlannedToday
  <2>6. dayRecord.tries <= ATTEMPTS_PER_DAY + dayRecord.raised
    BY DEF ProductionInv, TriesLeft
  <2>7. TriesLeft'
    BY <1>0, <2>2, <2>6 DEF TriesLeft
  <2> QED  BY <2>1, <2>3, <2>5, <2>7, ProductionElse
<1>4. CASE NextMorning
  <2>1. PICK d \in Mornings : d > morning /\ morning' = d
    BY <1>4 DEF NextMorning
  <2>2. UNCHANGED <<schedule, episode, booked, closed, loop, dayRecord, stops>>
    BY <1>4 DEF NextMorning
  <2>3. ProductionTypeOK'
    BY <2>1, <2>2 DEF ProductionInv, ProductionTypeOK
  <2>4. dayRecord.day <= morning /\ dayRecord.done <= morning
    BY DEF ProductionInv, PlannedToday
  <2>5. dayRecord.day < d /\ dayRecord.done < d
    BY <1>0, <2>1, <2>4
  <2>6. PlannedToday'
    BY <1>0, <2>1, <2>2, <2>5 DEF PlannedToday
  <2>7. AsPlanned' /\ PlannedWhole' /\ TriesLeft'
    BY <2>2 DEF ProductionInv, AsPlanned, PlannedWhole, Made, TriesLeft
  <2> QED  BY <2>3, <2>6, <2>7 DEF ProductionInv
<1>5. ASSUME NEW n \in Numbers, NEW k \in {"film", "publish"}, CloseFixed(<<k, n>>)  PROVE ProductionInv'
  <2>1. /\ closed' = closed \union {<<k, n>>}
        /\ UNCHANGED <<schedule, morning, episode, booked, loop, dayRecord, stops>>
    BY <1>5 DEF CloseFixed
  <2>2. <<k, n>> \in {"film", "publish"} \X Numbers
    OBVIOUS
  <2>3. ProductionTypeOK'
    BY <2>1, <2>2 DEF ProductionInv, ProductionTypeOK
  <2>4. HasUpcoming => HasUpcoming'
    BY <2>1 DEF HasUpcoming, Upcoming, Made
  <2>5. PlannedToday' /\ TriesLeft'
    BY <2>1, <2>4 DEF ProductionInv, PlannedToday, TriesLeft
  <2> QED  BY <2>1, <2>3, <2>5, ProductionElse
<1>6. ASSUME NEW s \in Schedules, RestartWith(s)  PROVE ProductionInv'
  <2>1. /\ stops < MaxMishaps /\ stops' = stops + 1 /\ schedule' = s /\ loop' = "asleep"
        /\ dayRecord' = NoDay /\ UNCHANGED <<morning, episode, booked, closed>>
    BY <1>6 DEF RestartWith
  <2>2. /\ dayRecord' \in DayRecords /\ dayRecord'.done = -1 /\ dayRecord'.day = -1
        /\ dayRecord'.tries = 0 /\ dayRecord'.raised = 0
    BY <2>1 DEF DayRecords, NoDay
  <2>3. stops' \in 0 .. MaxMishaps
    BY <2>1 DEF ProductionInv, ProductionTypeOK
  <2>4. ProductionTypeOK'
    BY <2>1, <2>2, <2>3 DEF ProductionInv, ProductionTypeOK
  <2>5. PlannedToday'
    BY <1>0, <2>1, <2>2 DEF PlannedToday
  <2>6. TriesLeft'
    BY <2>2 DEF TriesLeft
  <2>7. AsPlanned' /\ PlannedWhole'
    BY <2>1 DEF ProductionInv, AsPlanned, PlannedWhole, Made
  <2> QED  BY <2>4, <2>5, <2>6, <2>7 DEF ProductionInv
<1>7. CASE UNCHANGED productionVars
  <2>1. HasUpcoming => HasUpcoming'
    BY <1>7 DEF productionVars, HasUpcoming, Upcoming, Made
  <2>2. ProductionTypeOK' /\ PlannedToday' /\ TriesLeft'
    BY <1>7, <2>1 DEF productionVars, ProductionInv, ProductionTypeOK, PlannedToday, TriesLeft
  <2> QED  BY <1>7, <2>2, ProductionElse DEF productionVars
<1> QED  BY <1>1, <1>2, <1>3, <1>4, <1>5, <1>6, <1>7, PlanStep DEF ProductionNext

LEMMA ProductionShows ==
  ASSUME ProductionInv  PROVE ProductionTypeOK /\ ProductionIsSound
<1>1. \A n \in Made : /\ episode[n].by \in Schedules /\ n \in Numbers /\ n >= episode[n].by.first
                      /\ episode[n] = PlannedAs(episode[n].by, n)
  BY DEF ProductionInv, AsPlanned, Made
<1>2. ASSUME NEW n \in Made
      PROVE  /\ episode[n].batch = BatchOf(episode[n].by, n)
             /\ episode[n].shoot = ShootDate(episode[n].by, BatchOf(episode[n].by, n))
             /\ episode[n].publish = PublishDate(episode[n].by, n)
  BY <1>1, PlannedIs
<1>3. OneEpisodeAWeek
  <2> SUFFICES ASSUME NEW m \in Made, NEW n \in Made
               PROVE  /\ episode[m].publish % 7 = episode[m].by.weekday
                      /\ episode[m].publish > episode[m].shoot
                      /\ episode[m].by = episode[n].by =>
                           episode[n].publish - episode[m].publish = 7 * (n - m)
    BY DEF OneEpisodeAWeek
  <2>1. episode[m].publish % 7 = episode[m].by.weekday /\ episode[m].publish > episode[m].shoot
    BY <1>1, <1>2, DatesAre
  <2>2. ASSUME episode[m].by = episode[n].by  PROVE episode[n].publish - episode[m].publish = 7 * (n - m)
    <3> DEFINE s == episode[m].by
               h == DaysAhead(s)
    <3>1. s \in Schedules /\ h \in Nat /\ s.shoot \in Nat /\ s.first \in Nat /\ m \in Nat /\ n \in Nat
      <4>1. s \in Schedules
        BY <1>1
      <4> QED  BY <1>1, <4>1, AheadIs, ProductionBounds
    <3>2. /\ episode[m].publish = s.shoot + h + 7 * (m - s.first)
          /\ episode[n].publish = s.shoot + h + 7 * (n - s.first)
      BY <1>1, <1>2, <2>2, DatesAre
    <3> HIDE DEF s, h
    <3> QED  BY <3>1, <3>2
  <2> QED  BY <2>1, <2>2
<1>4. BatchesAreWhole
  <2>1. ASSUME NEW n \in Made, NEW m \in EpisodesOf(episode[n].by, episode[n].batch)
        PROVE  episode[m] = [episode[n] EXCEPT !.publish = PublishDate(episode[n].by, m)]
    <3>1. m \in Made /\ episode[m].by = episode[n].by /\ BatchOf(episode[n].by, m) = episode[n].batch
      BY DEF ProductionInv, PlannedWhole, EpisodesOf
    <3> DEFINE s == episode[n].by
    <3>2. episode[n] = PlannedAs(s, n) /\ episode[m] = PlannedAs(s, m) /\ BatchOf(s, m) = BatchOf(s, n)
      BY <1>1, <1>2, <3>1
    <3> HIDE DEF s
    <3>3. PlannedAs(s, m) = [PlannedAs(s, n) EXCEPT !.publish = PublishDate(s, m)]
      <4> DEFINE b == BatchOf(s, n)
                 d == ShootDate(s, b)
                 v == PublishDate(s, n)
                 w == PublishDate(s, m)
                 y == TRUE
                 rec(x) == [made |-> y, batch |-> b, by |-> s, shoot |-> d, publish |-> x]
      <4>1. PlannedAs(s, n) = rec(v)
        BY DEF PlannedAs
      <4>2. PlannedAs(s, m) = rec(w)
        BY <3>2 DEF PlannedAs
      <4> HIDE DEF b, d, v, w, y
      <4>3. rec(w) = [rec(v) EXCEPT !.publish = w]
        OBVIOUS
      <4> QED  BY <4>1, <4>2, <4>3 DEF w
    <3>4. episode[m] = [episode[n] EXCEPT !.publish = PublishDate(s, m)]
      BY <3>2, <3>3
    <3> QED  BY <3>4 DEF s
  <2> QED  BY <2>1 DEF BatchesAreWhole, ProductionInv, PlannedToday, HasUpcoming
<1>5. StagesFollow
  <2> SUFFICES ASSUME NEW n \in Made
               PROVE  LET s == episode[n].by
                          t == Stage(s, n) IN
                      /\ t.script[2] < t.film[1] /\ t.film[2] <= t.edit[1]
                      /\ t.edit[2] < t.thumbnail[2] /\ t.thumbnail[2] < t.publish[1]
                      /\ (s.weekday >= 2 /\ episode[n].publish - episode[n].shoot >= 3) =>
                           \A k \in DOMAIN t \ {"script"} : t[k][1] <= t[k][2]
    BY DEF StagesFollow
  <2> DEFINE s == episode[n].by
             t == Stage(s, n)
             d == ShootDate(s, BatchOf(s, n))
             p == PublishDate(s, n)
             filmed == 24 * d + (10 + 2 * s.per)
             monday == 24 * (p - (p % 7)) + 0
             post == IF filmed > monday THEN filmed ELSE monday
  <2>1. s \in Schedules /\ n \in Numbers /\ n >= s.first /\ episode[n].shoot = d /\ episode[n].publish = p
    BY <1>1, <1>2
  <2>2. d \in Nat /\ p \in Nat /\ p > d /\ p % 7 = s.weekday /\ s.per \in 1 .. 8 /\ s.weekday \in 0 .. 6
    BY <2>1, DatesAre, ProductionBounds
  <2>3. /\ t.script[2] = 24 * (d - 1) + 17 /\ t.film = <<24 * d + 10, filmed>>
        /\ t.edit = <<post, 24 * (p - 2) + 17>> /\ t.thumbnail = <<post, 24 * (p - 1) + 17>>
        /\ t.publish = <<24 * p + (17 - 1), 24 * p + 17>>
        /\ DOMAIN t = {"script", "film", "edit", "thumbnail", "publish"}
    BY DEF Stage, Hour, MondayOf, DAY_END, SHOOT_HOUR, FILM_HOURS
  <2> HIDE DEF s, t, d, p
  <2>4. filmed \in Nat /\ monday \in Int /\ filmed <= post /\ post \in Int /\ post \in {filmed, monday}
    BY <2>2
  <2>5. filmed >= 24 * d + 12 /\ filmed <= 24 * d + 26 /\ monday = 24 * (p - s.weekday)
    BY <2>2
  <2> HIDE DEF filmed, monday, post
  <2>6. t.script[2] < t.film[1] /\ t.film[2] <= t.edit[1]
    BY <2>2, <2>3, <2>4
  <2>7. t.edit[2] < t.thumbnail[2] /\ t.thumbnail[2] < t.publish[1]
    BY <2>2, <2>3
  <2>8. ASSUME s.weekday >= 2, p - d >= 3, NEW k \in DOMAIN t \ {"script"}  PROVE t[k][1] <= t[k][2]
    <3>1. filmed <= 24 * (p - 2) + 17 /\ monday <= 24 * (p - 2) + 17
      BY <2>2, <2>4, <2>5, <2>8
    <3>2. post <= 24 * (p - 2) + 17 /\ post <= 24 * (p - 1) + 17
      BY <2>2, <2>4, <3>1
    <3>3. k \in {"film", "edit", "thumbnail", "publish"}
      BY <2>3, <2>8
    <3>4. CASE k = "film"
      BY <2>2, <2>3, <2>4, <2>5, <3>4
    <3>5. CASE k = "edit"
      BY <2>3, <3>2, <3>5
    <3>6. CASE k = "thumbnail"
      BY <2>3, <3>2, <3>6
    <3>7. CASE k = "publish"
      BY <2>2, <2>3, <3>7
    <3> QED  BY <3>3, <3>4, <3>5, <3>6, <3>7
  <2> QED  BY <2>1, <2>6, <2>7, <2>8 DEF s, t
<1>6. TriesAreFew
  BY DEF ProductionInv, TriesLeft, TriesAreFew
<1> QED  BY <1>3, <1>4, <1>5, <1>6 DEF ProductionInv, ProductionIsSound

-----------------------------------------------------------------------------
(* Purchases.                                                              *)

PurchaseRow ==
  [amount : Amounts, month : 1 .. MaxMonth, checked : 1 .. MaxMonth, run : Buyers,
   status : Counted \union {"failed", "cancelled"}, approved : 0 .. MaxMonth,
   server : 0 .. MaxCrashes]

\* The running sums of what those of the requests that are in S ask for.
Totals(g, requests, S) ==
  /\ g \in [0 .. Len(requests) -> Nat] /\ g[0] = 0
  /\ \A n \in 1 .. Len(requests) :
       g[n] = IF n \in S THEN g[n - 1] + requests[n].amount ELSE g[n - 1]

\* A sum over requests exists as a running total, ...
LEMMA AmountIs ==
  ASSUME NEW requests \in Seq(PurchaseRow), NEW S
  PROVE  \E g : Totals(g, requests, S) /\ AmountOf(requests, S) = g[Len(requests)]
<1> DEFINE K == Len(requests)
           Plus(n, sum) == IF n \in S THEN sum + requests[n].amount ELSE sum
           step == [d \in (1 .. K) \X Nat |-> Plus(d[1], d[2])]
           Defines(of) == of = [n \in 0 .. K |-> IF n = 0 THEN 0
                                  ELSE IF n \in S THEN of[n - 1] + requests[n].amount ELSE of[n - 1]]
<1>1. K \in Nat /\ \A n \in 1 .. K : requests[n] \in PurchaseRow
  BY LenProperties, ElementOfSeq
<1>2. \A n \in 1 .. K : requests[n].amount \in Nat
  BY <1>1, PurchasesAssumption DEF PurchaseRow
<1>3. \A n \in 1 .. K : \A sum \in Nat : Plus(n, sum) \in Nat
  BY <1>2
<1>4. step \in [(1 .. K) \X Nat -> Nat]
  <2> HIDE DEF Plus, K
  <2> QED  BY <1>3
<1>5. PICK f : Iterated(f, Nat, K, step, 0)
  <2> HIDE DEF step, K
  <2> QED  BY <1>1, <1>4, Iterates
<1>6. f \in [0 .. K -> Nat] /\ f[0] = 0 /\ \A n \in 1 .. K : f[n] = step[<<n, f[n - 1]>>]
  BY <1>5 DEF Iterated
<1>7. ASSUME NEW n \in 1 .. K
      PROVE  f[n] = IF n \in S THEN f[n - 1] + requests[n].amount ELSE f[n - 1]
  <2>1. f[n - 1] \in Nat
    <3>1. n - 1 \in 0 .. K
      BY <1>1
    <3> QED  BY <1>6, <3>1
  <2>2. step[<<n, f[n - 1]>>] = Plus(n, f[n - 1])
    BY <2>1
  <2>3. f[n] = Plus(n, f[n - 1])
    <3> HIDE DEF Plus, step
    <3> QED  BY <1>6, <2>2
  <2> QED  BY <2>3
<1>8. Defines(f)
  <2>1. \A n \in 0 .. K : f[n] = IF n = 0 THEN 0
                                 ELSE IF n \in S THEN f[n - 1] + requests[n].amount ELSE f[n - 1]
    BY <1>1, <1>6, <1>7
  <2> QED  BY <1>6, <2>1
<1> DEFINE g == CHOOSE of : Defines(of)
<1>9. Defines(g)
  <2> HIDE DEF Defines
  <2> QED  BY <1>8
<1>10. AmountOf(requests, S) = g[K]
  BY Zenon DEF AmountOf
<1> HIDE DEF g
<1>11. ASSUME NEW n \in 0 .. K PROVE g[n] = f[n]
  <2> DEFINE Bad == {k \in 0 .. K : g[k] # f[k]}
  <2>1. ASSUME Bad # {} PROVE FALSE
    <3>1. PICK k \in Bad : \A j \in Bad : k <= j
      <4>1. Bad \in SUBSET Nat
        BY <1>1
      <4> QED  BY <2>1, <4>1, Smallest
    <3>2. \A j \in 0 .. K : g[j] = IF j = 0 THEN 0
                                   ELSE IF j \in S THEN g[j - 1] + requests[j].amount ELSE g[j - 1]
      BY <1>9
    <3>3. CASE k = 0
      BY <1>1, <1>6, <3>1, <3>2, <3>3
    <3>4. CASE k # 0
      <4>1. k \in 1 .. K /\ k - 1 \in 0 .. K /\ k - 1 < k /\ k \in 0 .. K
        BY <1>1, <3>1, <3>4
      <4>2. g[k - 1] = f[k - 1]
        BY <1>1, <3>1, <4>1
      <4>3. g[k] = IF k \in S THEN g[k - 1] + requests[k].amount ELSE g[k - 1]
        BY <3>2, <3>4, <4>1
      <4>4. f[k] = IF k \in S THEN f[k - 1] + requests[k].amount ELSE f[k - 1]
        BY <1>7, <4>1
      <4> QED  BY <3>1, <4>2, <4>3, <4>4
    <3> QED  BY <3>3, <3>4
  <2> QED  BY <2>1
<1>12. K \in 0 .. K
  BY <1>1
<1>13. g[K] = f[K]
  BY <1>11, <1>12
<1> QED  BY <1>6, <1>7, <1>10, <1>13 DEF Totals

\* Sums whose every term is at most that of two others are at most their sum.
LEMMA Adds ==
  ASSUME NEW K \in Nat, NEW a, NEW b, NEW c,
         \A n \in 0 .. K : a[n] \in Nat /\ b[n] \in Nat /\ c[n] \in Nat,
         a[0] = 0,
         \A n \in 1 .. K : a[n] + b[n - 1] + c[n - 1] <= a[n - 1] + b[n] + c[n]
  PROVE  a[K] <= b[K] + c[K]
<1> DEFINE Bad == {n \in 0 .. K : ~ (a[n] <= b[n] + c[n])}
<1>1. ASSUME Bad # {} PROVE FALSE
  <2>1. PICK k \in Bad : \A j \in Bad : k <= j
    <3>1. Bad \in SUBSET Nat
      OBVIOUS
    <3> QED  BY <1>1, <3>1, Smallest
  <2>2. k # 0
    BY <2>1
  <2>3. k \in 1 .. K /\ k - 1 \in 0 .. K /\ k - 1 \notin Bad /\ k \in 0 .. K
    BY <2>1, <2>2
  <2>4. a[k - 1] <= b[k - 1] + c[k - 1]
    BY <2>3
  <2>5. a[k] + b[k - 1] + c[k - 1] <= a[k - 1] + b[k] + c[k]
    BY <2>3
  <2>6. /\ a[k] \in Nat /\ b[k] \in Nat /\ c[k] \in Nat
        /\ a[k - 1] \in Nat /\ b[k - 1] \in Nat /\ c[k - 1] \in Nat
    BY <2>3
  <2>7. ~ (a[k] <= b[k] + c[k])
    BY <2>1
  <2> HIDE DEF Bad
  <2> QED  BY <2>4, <2>5, <2>6, <2>7
<1>2. K \in 0 .. K /\ K \notin Bad
  BY <1>1
<1> QED  BY <1>2

\* ... is a number, ...
LEMMA AmountIsNumber ==
  ASSUME NEW requests \in Seq(PurchaseRow), NEW S  PROVE AmountOf(requests, S) \in Nat
<1>1. PICK g : Totals(g, requests, S) /\ AmountOf(requests, S) = g[Len(requests)]
  BY AmountIs
<1>2. Len(requests) \in Nat
  BY LenProperties
<1>3. g \in [0 .. Len(requests) -> Nat] /\ Len(requests) \in 0 .. Len(requests)
  BY <1>1, <1>2 DEF Totals
<1> QED  BY <1>1, <1>3

\* What is in one of two sets adds up to no more than both.
LEMMA AmountWithin ==
  ASSUME NEW requests \in Seq(PurchaseRow), NEW S, NEW T, NEW U,
         \A n \in 1 .. Len(requests) : n \in S => n \in T \/ n \in U
  PROVE  AmountOf(requests, S) <= AmountOf(requests, T) + AmountOf(requests, U)
<1> DEFINE K == Len(requests)
<1>1. PICK a : Totals(a, requests, S) /\ AmountOf(requests, S) = a[K]
  BY AmountIs
<1>2. PICK b : Totals(b, requests, T) /\ AmountOf(requests, T) = b[K]
  BY AmountIs
<1>3. PICK c : Totals(c, requests, U) /\ AmountOf(requests, U) = c[K]
  BY AmountIs
<1>4. K \in Nat /\ \A n \in 1 .. K : requests[n].amount \in Nat
  <2>1. K \in Nat /\ \A n \in 1 .. K : requests[n] \in PurchaseRow
    BY LenProperties, ElementOfSeq
  <2> QED  BY <2>1, PurchasesAssumption DEF PurchaseRow
<1>5. \A n \in 0 .. K : a[n] \in Nat /\ b[n] \in Nat /\ c[n] \in Nat
  BY <1>1, <1>2, <1>3 DEF Totals
<1>6. a[0] = 0
  BY <1>1 DEF Totals
<1>7. ASSUME NEW n \in 1 .. K PROVE a[n] + b[n - 1] + c[n - 1] <= a[n - 1] + b[n] + c[n]
  <2>1. /\ a[n] = IF n \in S THEN a[n - 1] + requests[n].amount ELSE a[n - 1]
        /\ b[n] = IF n \in T THEN b[n - 1] + requests[n].amount ELSE b[n - 1]
        /\ c[n] = IF n \in U THEN c[n - 1] + requests[n].amount ELSE c[n - 1]
    BY <1>1, <1>2, <1>3 DEF Totals
  <2>2. n - 1 \in 0 .. K
    BY <1>4
  <2>3. a[n - 1] \in Nat /\ b[n - 1] \in Nat /\ c[n - 1] \in Nat /\ requests[n].amount \in Nat
    BY <1>4, <1>5, <2>2
  <2>4. CASE n \in S /\ n \in T
    <3>1. a[n] = a[n - 1] + requests[n].amount /\ b[n] = b[n - 1] + requests[n].amount
      BY <2>1, <2>4
    <3>2. c[n] \in {c[n - 1], c[n - 1] + requests[n].amount}
      BY <2>1
    <3> QED  BY <2>3, <3>1, <3>2
  <2>5. CASE n \in S /\ n \in U
    <3>1. a[n] = a[n - 1] + requests[n].amount /\ c[n] = c[n - 1] + requests[n].amount
      BY <2>1, <2>5
    <3>2. b[n] \in {b[n - 1], b[n - 1] + requests[n].amount}
      BY <2>1
    <3> QED  BY <2>3, <3>1, <3>2
  <2>6. CASE n \notin S
    <3>1. a[n] = a[n - 1]
      BY <2>1, <2>6
    <3>2. /\ b[n] \in {b[n - 1], b[n - 1] + requests[n].amount}
          /\ c[n] \in {c[n - 1], c[n - 1] + requests[n].amount}
      BY <2>1
    <3> DEFINE was == b[n - 1]
               before == c[n - 1]
               more == requests[n].amount
    <3>3. /\ was \in Nat /\ before \in Nat /\ more \in Nat
          /\ b[n] \in {was, was + more} /\ c[n] \in {before, before + more}
      BY ONLY <2>3, <3>2
    <3> HIDE DEF was, before, more
    <3>4. b[n] \in Nat /\ c[n] \in Nat /\ was <= b[n] /\ before <= c[n]
      BY ONLY <3>3
    <3>5. b[n] \in Nat /\ c[n] \in Nat /\ b[n - 1] <= b[n] /\ c[n - 1] <= c[n]
      BY <3>4 DEF was, before
    <3> QED  BY ONLY <2>3, <3>1, <3>5
  <2> QED  BY <2>4, <2>5, <2>6
<1> HIDE DEF K
<1>8. a[K] <= b[K] + c[K]
  BY <1>4, <1>5, <1>6, <1>7, Adds
<1> QED  BY <1>1, <1>2, <1>3, <1>8

\* Of two lists that ask for the same, more counts in the second.
LEMMA AmountGoesOn ==
  ASSUME NEW p \in Seq(PurchaseRow), NEW q \in Seq(PurchaseRow), NEW S, NEW T, Len(p) = Len(q),
         \A n \in 1 .. Len(p) : p[n].amount = q[n].amount /\ (n \in S => n \in T)
  PROVE  AmountOf(p, S) <= AmountOf(q, T)
<1> DEFINE K == Len(p)
           c == [n \in 0 .. K |-> 0]
<1>1. PICK a : Totals(a, p, S) /\ AmountOf(p, S) = a[K]
  BY AmountIs
<1>2. PICK b : Totals(b, q, T) /\ AmountOf(q, T) = b[K]
  BY AmountIs
<1>3. K \in Nat /\ \A n \in 1 .. K : p[n].amount \in Nat
  <2>1. K \in Nat /\ \A n \in 1 .. K : p[n] \in PurchaseRow
    BY LenProperties, ElementOfSeq
  <2> QED  BY <2>1, PurchasesAssumption DEF PurchaseRow
<1>4. \A n \in 0 .. K : a[n] \in Nat /\ b[n] \in Nat /\ c[n] \in Nat /\ c[n] = 0
  BY <1>1, <1>2 DEF Totals
<1>5. a[0] = 0
  BY <1>1 DEF Totals
<1>6. ASSUME NEW n \in 1 .. K PROVE a[n] + b[n - 1] + c[n - 1] <= a[n - 1] + b[n] + c[n]
  <2>1. /\ a[n] = IF n \in S THEN a[n - 1] + p[n].amount ELSE a[n - 1]
        /\ b[n] = IF n \in T THEN b[n - 1] + p[n].amount ELSE b[n - 1]
    BY <1>1, <1>2 DEF Totals
  <2>2. n - 1 \in 0 .. K /\ n \in 0 .. K
    BY <1>3
  <2>3. a[n - 1] \in Nat /\ b[n - 1] \in Nat /\ c[n - 1] = 0 /\ c[n] = 0 /\ p[n].amount \in Nat
    BY <1>3, <1>4, <2>2
  <2> HIDE DEF c
  <2>4. CASE n \in S
    <3>1. n \in T
      BY <2>4
    <3>2. a[n] = a[n - 1] + p[n].amount /\ b[n] = b[n - 1] + p[n].amount
      BY <2>1, <2>4, <3>1
    <3> QED  BY <2>3, <3>2
  <2>5. CASE n \notin S
    <3>1. a[n] = a[n - 1] /\ b[n - 1] <= b[n]
      BY <2>1, <2>3, <2>5
    <3>2. b[n] \in Nat
      BY <1>4, <2>2
    <3> QED  BY <2>3, <3>1, <3>2
  <2> QED  BY <2>4, <2>5
<1>7. c[K] = 0
  BY <1>3
<1> HIDE DEF K, c
<1>8. a[K] <= b[K] + c[K]
  BY <1>3, <1>4, <1>5, <1>6, Adds
<1>9. b[K] \in Nat
  BY <1>3, <1>4
<1> QED  BY <1>1, <1>2, <1>7, <1>8, <1>9

\* One request more adds what it asks for, if it counts.
LEMMA AmountAppend ==
  ASSUME NEW p \in Seq(PurchaseRow), NEW x \in PurchaseRow, NEW S
  PROVE  AmountOf(Append(p, x), S) <= AmountOf(p, S) + IF Len(p) + 1 \in S THEN x.amount ELSE 0
<1> DEFINE K == Len(p)
           q == Append(p, x)
           c == [n \in 0 .. K |-> 0]
<1>1. /\ K \in Nat /\ Len(q) = K + 1 /\ q \in Seq(PurchaseRow) /\ q[K + 1] = x
      /\ \A n \in 1 .. K : q[n] = p[n]
  BY AppendHas, LenProperties
<1> HIDE DEF q
<1>2. PICK a : Totals(a, q, S) /\ AmountOf(q, S) = a[K + 1]
  BY <1>1, AmountIs
<1>3. PICK b : Totals(b, p, S) /\ AmountOf(p, S) = b[K]
  BY AmountIs
<1>4. x.amount \in Nat /\ \A n \in 1 .. K : p[n].amount \in Nat
  <2>1. \A n \in 1 .. K : p[n] \in PurchaseRow
    BY LenProperties, ElementOfSeq
  <2> QED  BY <2>1, PurchasesAssumption DEF PurchaseRow
<1>5. \A n \in 0 .. K : a[n] \in Nat /\ b[n] \in Nat /\ c[n] \in Nat /\ c[n] = 0
  <2>1. \A n \in 0 .. K : n \in 0 .. K + 1
    BY <1>1
  <2> QED  BY <1>1, <1>2, <1>3, <2>1 DEF Totals
<1>6. a[0] = 0
  BY <1>2 DEF Totals
<1>7. ASSUME NEW n \in 1 .. K PROVE a[n] + b[n - 1] + c[n - 1] <= a[n - 1] + b[n] + c[n]
  <2>1. /\ a[n] = IF n \in S THEN a[n - 1] + p[n].amount ELSE a[n - 1]
        /\ b[n] = IF n \in S THEN b[n - 1] + p[n].amount ELSE b[n - 1]
    <3>1. n \in 1 .. K + 1
      BY <1>1
    <3> QED  BY <1>1, <1>2, <1>3, <3>1 DEF Totals
  <2>2. n - 1 \in 0 .. K /\ n \in 0 .. K
    BY <1>1
  <2>3. a[n - 1] \in Nat /\ b[n - 1] \in Nat /\ c[n - 1] = 0 /\ c[n] = 0 /\ p[n].amount \in Nat
    BY <1>4, <1>5, <2>2
  <2> HIDE DEF c
  <2> QED  BY <2>1, <2>3
<1>8. c[K] = 0
  BY <1>1
<1>9. a[K + 1] = IF K + 1 \in S THEN a[K] + x.amount ELSE a[K]
  <2>1. K + 1 \in 1 .. K + 1 /\ (K + 1) - 1 = K
    BY <1>1
  <2>2. a[K + 1] = IF K + 1 \in S THEN a[(K + 1) - 1] + q[K + 1].amount ELSE a[(K + 1) - 1]
    BY <1>1, <1>2, <2>1 DEF Totals
  <2> QED  BY <1>1, <2>1, <2>2
<1> HIDE DEF K, c
<1>10. a[K] <= b[K] + c[K]
  BY <1>1, <1>5, <1>6, <1>7, Adds
<1>11. a[K] \in Nat /\ b[K] \in Nat
  BY <1>1, <1>5
<1> QED  BY <1>2, <1>3, <1>4, <1>8, <1>9, <1>10, <1>11 DEF K, q

\* ... and is nothing over no request.
LEMMA NothingAdds ==
  ASSUME NEW p \in Seq(PurchaseRow), NEW S, \A n \in 1 .. Len(p) : n \notin S
  PROVE  AmountOf(p, S) = 0
<1> DEFINE K == Len(p)
           c == [n \in 0 .. K |-> 0]
<1>1. PICK a : Totals(a, p, S) /\ AmountOf(p, S) = a[K]
  BY AmountIs
<1>2. K \in Nat
  BY LenProperties
<1>3. \A n \in 0 .. K : a[n] \in Nat /\ c[n] \in Nat /\ c[n] = 0
  BY <1>1 DEF Totals
<1>4. a[0] = 0
  BY <1>1 DEF Totals
<1>5. ASSUME NEW n \in 1 .. K PROVE a[n] + c[n - 1] + c[n - 1] <= a[n - 1] + c[n] + c[n]
  <2>1. a[n] = a[n - 1]
    BY <1>1 DEF Totals
  <2>2. n - 1 \in 0 .. K /\ n \in 0 .. K
    BY <1>2
  <2>3. a[n - 1] \in Nat /\ c[n - 1] = 0 /\ c[n] = 0
    BY <1>3, <2>2
  <2> HIDE DEF c
  <2> QED  BY <2>1, <2>3
<1>6. c[K] = 0
  BY <1>2
<1> HIDE DEF K, c
<1>7. a[K] <= c[K] + c[K]
  BY <1>2, <1>3, <1>4, <1>5, Adds
<1>8. a[K] \in Nat
  BY <1>2, <1>3
<1> QED  BY <1>1, <1>6, <1>7, <1>8

AskedBy(r) == {i \in Requests : purchases[i].run = r}
UnderWayOf(r) == {a \in asking : a.run = r}

\* A request is of the past, approved in its month or in the next, and not a
\* review's.
RequestsAreSound ==
  \A i \in Requests :
    /\ purchases[i].month <= month /\ ~ purchases[i].run.review
    /\ purchases[i].approved \in {0, purchases[i].month, purchases[i].month + 1}

\* A call that has its date has it from the past, and is not a review's.
DatesAreSound ==
  \A a \in asking : a.dated <= month /\ (a.dated > 0 => ~ a.run.review)

\* What counts of a month, but for requests the month turned over.
OfMonth(m) ==
  {i \in Requests \ Straddling : purchases[i].month = m /\ purchases[i].status \in Counted}

\* The gateway counted each call that became a request or still may.
AsksAreCounted ==
  \A r \in Buyers :
    /\ IsFiniteSet(UnderWayOf(r))
    /\ Cardinality(AskedBy(r)) + Cardinality(UnderWayOf(r)) <= calls[r].asks

PurchasesInv ==
  /\ PurchasesTypeOK /\ RequestsAreSound /\ DatesAreSound /\ AsksAreCounted
  /\ MonthIsCapped /\ RemovedCardIsErased

\* What the invariant says, in the form the steps need.
LEMMA PurchasesTyped ==
  ASSUME PurchasesInv
  PROVE  /\ month \in 1 .. MaxMonth /\ month \in Nat /\ erasing \in 0 .. MaxRemovals
         /\ purchases \in Seq(PurchaseRow) /\ Len(purchases) \in Nat
         /\ Requests = 1 .. Len(purchases)
         /\ \A i \in Requests : purchases[i] \in PurchaseRow /\ purchases[i].month \in Nat
         /\ calls \in [Buyers -> [tools : 0 .. MAX_TOOL_CALLS, asks : 0 .. MAX_REQUESTS]]
         /\ ended \subseteq Buyers /\ crashes \in 0 .. MaxCrashes
         /\ asking \subseteq [run : Buyers, call : 0 .. MAX_REQUESTS, amount : Amounts,
                                dated : 0 .. MaxMonth]
         /\ MAX_REQUESTS \in Nat /\ MAX_TOOL_CALLS \in Nat /\ MaxRemovals \in Nat /\ MaxCrashes \in Nat
         /\ MONTHLY \in Nat /\ MaxMonth \in Nat
<1>1. purchases \in Seq(PurchaseRow)
  BY DEF PurchasesInv, PurchasesTypeOK, PurchaseRow
<1>2. Len(purchases) \in Nat /\ DOMAIN purchases = 1 .. Len(purchases)
  BY <1>1, LenProperties
<1>3. \A i \in Requests : purchases[i] \in PurchaseRow
  BY <1>1, <1>2, ElementOfSeq DEF Requests
<1>4. \A i \in Requests : purchases[i].month \in Nat
  BY <1>3, PurchasesAssumption DEF PurchaseRow
<1> QED  BY <1>1, <1>2, <1>3, <1>4, PurchasesAssumption DEF PurchasesInv, PurchasesTypeOK, Requests

LEMMA PurchasesStart ==
  ASSUME PurchasesInit  PROVE PurchasesInv
<1> USE PurchasesAssumption
<1>1. purchases = <<>> /\ Requests = {} /\ Len(purchases) = 0 /\ purchases \in Seq(PurchaseRow)
  BY EmptySeq DEF PurchasesInit, Requests
<1>2. PurchasesTypeOK
  BY <1>1 DEF PurchasesInit, PurchasesTypeOK, PurchaseRow
<1>3. RequestsAreSound /\ DatesAreSound /\ RemovedCardIsErased
  BY <1>1 DEF RequestsAreSound, DatesAreSound, RemovedCardIsErased, PurchasesInit
<1>4. AsksAreCounted
  <2>1. \A r \in Buyers : UnderWayOf(r) = {} /\ AskedBy(r) = {} /\ calls[r].asks = 0
    BY <1>1 DEF PurchasesInit, UnderWayOf, AskedBy
  <2> QED  BY <2>1, FS_EmptySet DEF AsksAreCounted
<1>5. MonthIsCapped
  <2> SUFFICES ASSUME NEW m \in 1 .. month
               PROVE  AmountOf(purchases, OfMonth(m)) <= MONTHLY
    BY DEF MonthIsCapped, OfMonth
  <2>1. \A n \in 1 .. Len(purchases) : n \notin OfMonth(m)
    BY <1>1
  <2>2. AmountOf(purchases, OfMonth(m)) = 0
    BY <1>1, <2>1, NothingAdds
  <2> QED  BY <2>2
<1> QED  BY <1>2, <1>3, <1>4, <1>5 DEF PurchasesInv

\* Unless a request begins to count, a month's requests add up to no more.
LEMMA MonthStays ==
  ASSUME PurchasesInv, month' \in {month, month + 1}, purchases' \in Seq(PurchaseRow),
         Len(purchases') = Len(purchases),
         \A i \in Requests : /\ purchases'[i].amount = purchases[i].amount
                             /\ purchases'[i].month = purchases[i].month
                             /\ purchases'[i].checked = purchases[i].checked
                             /\ purchases'[i].status \in Counted => purchases[i].status \in Counted
  PROVE  MonthIsCapped'
<1> USE PurchasesTyped
<1>1. Requests' = 1 .. Len(purchases)
  BY LenProperties DEF Requests
<1> SUFFICES ASSUME NEW m \in 1 .. month'
             PROVE  AmountOf(purchases', OfMonth(m)') <= MONTHLY
  BY DEF MonthIsCapped, OfMonth
<1>2. /\ \A n \in 1 .. Len(purchases) :
           purchases'[n].amount = purchases[n].amount /\ (n \in OfMonth(m)' => n \in OfMonth(m))
      /\ \A n \in OfMonth(m) : n \in Requests /\ purchases[n].month = m
  BY <1>1 DEF OfMonth, Straddling
<1>3. CASE m \in 1 .. month
  <2>1. AmountOf(purchases, OfMonth(m)) <= MONTHLY
    BY <1>3 DEF PurchasesInv, MonthIsCapped, OfMonth
  <2>2. AmountOf(purchases', OfMonth(m)') <= AmountOf(purchases, OfMonth(m))
    BY <1>2, AmountGoesOn
  <2>3. AmountOf(purchases', OfMonth(m)') \in Nat /\ AmountOf(purchases, OfMonth(m)) \in Nat
    BY AmountIsNumber
  <2> QED  BY <2>1, <2>2, <2>3
<1>4. CASE m \notin 1 .. month
  <2>1. m = month + 1
    BY <1>4
  <2>2. ASSUME NEW n \in Requests PROVE purchases[n].month # m
    <3>1. purchases[n].month <= month /\ purchases[n].month \in Nat /\ month \in Nat
      BY DEF PurchasesInv, RequestsAreSound
    <3> QED  BY ONLY <2>1, <3>1
  <2>3. \A n \in 1 .. Len(purchases') : n \notin OfMonth(m)'
    BY <1>2, <2>2
  <2>4. AmountOf(purchases', OfMonth(m)') = 0
    BY <2>3, NothingAdds
  <2> QED  BY <2>4
<1> QED  BY <1>3, <1>4

\* A run's requests can be counted.
LEMMA AskedAreFew ==
  ASSUME PurchasesInv, NEW r \in Buyers
  PROVE  IsFiniteSet(AskedBy(r)) /\ Cardinality(AskedBy(r)) \in Nat /\ Cardinality(UnderWayOf(r)) \in Nat
<1>1. IsFiniteSet(Requests)
  BY PurchasesTyped, FS_Interval
<1>2. IsFiniteSet(AskedBy(r))
  BY <1>1, FS_Subset DEF AskedBy
<1>3. IsFiniteSet(UnderWayOf(r))
  BY DEF PurchasesInv, AsksAreCounted
<1> QED  BY <1>2, <1>3, FS_CardinalityType

\* What no request and no run is touched by.
LEMMA RestOfPurchases ==
  ASSUME PurchasesInv, UNCHANGED purchases, month' \in {month, month + 1},
         asking' \in {asking, {}},
         \A r \in Buyers : calls'[r].asks = calls[r].asks
  PROVE  RequestsAreSound' /\ DatesAreSound' /\ AsksAreCounted' /\ MonthIsCapped'
<1> USE PurchasesTyped
<1>1. Requests' = Requests
  BY DEF Requests
<1>2. RequestsAreSound'
  <2>1. \A i \in Requests : purchases[i].month \in Nat
    OBVIOUS
  <2>2. RequestsAreSound
    BY DEF PurchasesInv
  <2>3. \A i \in Requests : purchases[i].month <= month'
    BY <2>1, <2>2 DEF RequestsAreSound
  <2> QED  BY <1>1, <2>2, <2>3 DEF RequestsAreSound
<1>3. AsksAreCounted'
  <2> SUFFICES ASSUME NEW r \in Buyers
               PROVE  /\ IsFiniteSet(UnderWayOf(r)')
                      /\ Cardinality(AskedBy(r)') + Cardinality(UnderWayOf(r)') <= calls'[r].asks
    BY DEF AsksAreCounted
  <2>1. /\ IsFiniteSet(UnderWayOf(r))
        /\ Cardinality(AskedBy(r)) + Cardinality(UnderWayOf(r)) <= calls[r].asks
    BY DEF PurchasesInv, AsksAreCounted
  <2>2. AskedBy(r)' = AskedBy(r)
    BY <1>1 DEF AskedBy
  <2>3. UnderWayOf(r)' = UnderWayOf(r) \/ UnderWayOf(r)' = {}
    BY DEF UnderWayOf
  <2>4. Cardinality(AskedBy(r)) \in Nat /\ Cardinality(UnderWayOf(r)) \in Nat
    BY AskedAreFew
  <2>5. calls'[r].asks = calls[r].asks /\ calls[r].asks \in Nat
    OBVIOUS
  <2>6. CASE UnderWayOf(r)' = UnderWayOf(r)
    BY <2>1, <2>2, <2>5, <2>6
  <2>7. CASE UnderWayOf(r)' = {}
    <3>1. IsFiniteSet(UnderWayOf(r)') /\ Cardinality(UnderWayOf(r)') = 0
      BY <2>7, FS_EmptySet
    <3> QED  BY <2>1, <2>2, <2>4, <2>5, <3>1
  <2> QED  BY <2>3, <2>6, <2>7
<1>4. MonthIsCapped'
  BY MonthStays
<1>5. DatesAreSound'
  <2> SUFFICES ASSUME NEW a \in asking' PROVE a.dated <= month' /\ (a.dated > 0 => ~ a.run.review)
    BY DEF DatesAreSound
  <2>1. a \in asking /\ a.dated \in Nat
    BY PurchasesAssumption
  <2>2. a.dated <= month /\ (a.dated > 0 => ~ a.run.review)
    BY <2>1 DEF PurchasesInv, DatesAreSound
  <2> QED  BY <2>1, <2>2
<1> QED  BY <1>2, <1>3, <1>4, <1>5

LEMMA QuietPurchaseStep ==
  ASSUME PurchasesInv,
         \/ \E r \in Buyers : CallOther(r) \/ StopRun(r)
         \/ \E c \in Cards : AddCard(c)
         \/ SetFrozen \/ RemoveCard \/ DeleteNumber \/ NextMonth \/ ServerDies
  PROVE  PurchasesInv'
<1> USE PurchasesTyped
<1>1. /\ UNCHANGED purchases /\ month' \in {month, month + 1} /\ asking' \in {asking, {}}
      /\ month' \in 1 .. MaxMonth
  BY DEF CallOther, StopRun, AddCard, SetFrozen, RemoveCard, DeleteNumber, NextMonth, ServerDies, Dies
<1>2. /\ calls' \in [Buyers -> [tools : 0 .. MAX_TOOL_CALLS, asks : 0 .. MAX_REQUESTS]]
      /\ \A r \in Buyers : calls'[r].asks = calls[r].asks
  <2>1. CASE calls' = calls
    BY <2>1
  <2>2. ASSUME NEW r \in Buyers, CallOther(r)
        PROVE  /\ calls' \in [Buyers -> [tools : 0 .. MAX_TOOL_CALLS, asks : 0 .. MAX_REQUESTS]]
               /\ \A s \in Buyers : calls'[s].asks = calls[s].asks
    <3> DEFINE x == [calls[r] EXCEPT !.tools = calls[r].tools + 1]
    <3>1. calls' = [calls EXCEPT ![r] = x] /\ calls[r].tools < MAX_TOOL_CALLS
      BY <2>2 DEF CallOther
    <3>2. x \in [tools : 0 .. MAX_TOOL_CALLS, asks : 0 .. MAX_REQUESTS] /\ x.asks = calls[r].asks
      <4>1. calls[r] \in [tools : 0 .. MAX_TOOL_CALLS, asks : 0 .. MAX_REQUESTS]
        OBVIOUS
      <4>2. calls[r].tools + 1 \in 0 .. MAX_TOOL_CALLS
        BY <3>1, <4>1
      <4> QED  BY <4>1, <4>2
    <3> HIDE DEF x
    <3> QED  BY <3>1, <3>2
  <2>3. calls' = calls \/ \E r \in Buyers : CallOther(r)
    BY DEF StopRun, AddCard, SetFrozen, RemoveCard, DeleteNumber, NextMonth, ServerDies
  <2> QED  BY <2>1, <2>2, <2>3
<1>3. /\ card' \in [of : Cards \union {NoCard}, status : {"active", "frozen", "removed"}]
      /\ vault' \in Cards \union {NoCard} /\ RemovedCardIsErased'
      /\ erasing' \in 0 .. MaxRemovals /\ crashes' \in 0 .. MaxCrashes
  <2>1. /\ card \in [of : Cards \union {NoCard}, status : {"active", "frozen", "removed"}]
        /\ vault \in Cards \union {NoCard} /\ RemovedCardIsErased
    BY DEF PurchasesInv, PurchasesTypeOK
  <2>2. CASE UNCHANGED <<card, vault, erasing, crashes>>
    BY <2>1, <2>2 DEF RemovedCardIsErased
  <2>3. ASSUME NEW c \in Cards, AddCard(c), card' = [of |-> c, status |-> "active"]
        PROVE  /\ card' \in [of : Cards \union {NoCard}, status : {"active", "frozen", "removed"}]
               /\ vault' \in Cards \union {NoCard} /\ RemovedCardIsErased'
    BY <2>3 DEF AddCard, RemovedCardIsErased
  <2>4. CASE card.status # "removed" /\ crashes' = crashes /\ SetFrozen
    <3>1. card' = [card EXCEPT !.status = IF card.status = "active" THEN "frozen" ELSE "active"]
      BY <2>4 DEF SetFrozen
    <3>2. /\ card' \in [of : Cards \union {NoCard}, status : {"active", "frozen", "removed"}]
          /\ card'.status # "removed"
      BY <2>1, <3>1
    <3> QED  BY <2>1, <2>4, <3>2 DEF SetFrozen, RemovedCardIsErased
  <2>5. CASE RemoveCard
    <3>1. /\ card' = [card EXCEPT !.status = "removed"] /\ erasing < MaxRemovals
          /\ erasing' = erasing + 1 /\ vault' = vault /\ crashes' = crashes
      BY <2>5 DEF RemoveCard
    <3>2. erasing \in 0 .. MaxRemovals /\ crashes \in 0 .. MaxCrashes /\ MaxRemovals \in Nat
      OBVIOUS
    <3>3. erasing' \in 0 .. MaxRemovals /\ erasing' # 0 /\ crashes' \in 0 .. MaxCrashes
      BY ONLY <3>1, <3>2
    <3>4. /\ card' \in [of : Cards \union {NoCard}, status : {"active", "frozen", "removed"}]
          /\ vault' \in Cards \union {NoCard}
      BY ONLY <2>1, <3>1
    <3> QED  BY ONLY <3>3, <3>4 DEF RemovedCardIsErased
  <2>6. CASE DeleteNumber
    BY <2>1, <2>6 DEF DeleteNumber, RemovedCardIsErased
  <2>7. CASE Dies /\ UNCHANGED card /\ vault' \in Cards \union {vault}
    BY <2>1, <2>7 DEF Dies, RemovedCardIsErased
  <2>8. ASSUME NEW c \in Cards, AddCard(c)
        PROVE  \/ card' = [of |-> c, status |-> "active"] /\ UNCHANGED <<erasing, crashes>>
               \/ Dies /\ UNCHANGED card /\ vault' \in Cards \union {vault}
    BY <2>8 DEF AddCard
  <2> QED  BY <2>2, <2>3, <2>4, <2>5, <2>6, <2>7, <2>8
       DEF CallOther, StopRun, SetFrozen, NextMonth, ServerDies
<1>4. ended' \subseteq Buyers
  BY DEF CallOther, StopRun, AddCard, SetFrozen, RemoveCard, DeleteNumber, NextMonth, ServerDies, Dies
<1>5. PurchasesTypeOK'
  BY <1>1, <1>2, <1>3, <1>4 DEF PurchasesTypeOK, PurchaseRow
<1>6. RequestsAreSound' /\ DatesAreSound' /\ AsksAreCounted' /\ MonthIsCapped'
  BY <1>1, <1>2, RestOfPurchases
<1> QED  BY <1>3, <1>5, <1>6 DEF PurchasesInv

LEMMA CallToolStep ==
  ASSUME PurchasesInv, NEW r \in Buyers, NEW amount \in Amounts, CallTool(r, amount)
  PROVE  PurchasesInv'
<1> USE PurchasesTyped
<1> DEFINE a == [run |-> r, call |-> calls[r].asks, amount |-> amount, dated |-> 0]
           y == [calls[r] EXCEPT !.tools = calls[r].tools + 1]
           x == [y EXCEPT !.asks = calls[r].asks + 1]
<1>1. /\ calls[r].tools < MAX_TOOL_CALLS /\ calls[r].asks < MAX_REQUESTS
      /\ calls' = [calls EXCEPT ![r].tools = @ + 1, ![r].asks = @ + 1]
      /\ asking' = asking \union {a}
      /\ UNCHANGED <<month, card, vault, erasing, purchases, ended, crashes>>
  BY DEF CallTool
<1>2. calls' = [calls EXCEPT ![r] = x]
  BY ONLY <1>1
<1>3. /\ x \in [tools : 0 .. MAX_TOOL_CALLS, asks : 0 .. MAX_REQUESTS]
      /\ x.asks = calls[r].asks + 1 /\ calls[r].asks \in Nat
  <2>1. /\ calls[r] \in [tools : 0 .. MAX_TOOL_CALLS, asks : 0 .. MAX_REQUESTS]
        /\ MAX_TOOL_CALLS \in Nat /\ MAX_REQUESTS \in Nat
    OBVIOUS
  <2>2. /\ calls[r].tools + 1 \in 0 .. MAX_TOOL_CALLS /\ calls[r].asks + 1 \in 0 .. MAX_REQUESTS
        /\ calls[r].asks \in Nat
    BY ONLY <1>1, <2>1
  <2>3. /\ y \in [tools : 0 .. MAX_TOOL_CALLS, asks : 0 .. MAX_REQUESTS]
    BY ONLY <2>1, <2>2
  <2> HIDE DEF y
  <2> QED  BY ONLY <2>2, <2>3
<1> HIDE DEF x
<1>4. /\ calls' \in [Buyers -> [tools : 0 .. MAX_TOOL_CALLS, asks : 0 .. MAX_REQUESTS]]
      /\ calls'[r].asks = calls[r].asks + 1
      /\ \A s \in Buyers : s # r => calls'[s] = calls[s]
  BY <1>2, <1>3
<1>5. /\ a \in [run : Buyers, call : 0 .. MAX_REQUESTS, amount : Amounts, dated : 0 .. MaxMonth]
      /\ a.run = r /\ a.dated = 0
  BY <1>3
<1> HIDE DEF a
<1>6. PurchasesTypeOK'
  BY <1>1, <1>4, <1>5 DEF PurchasesInv, PurchasesTypeOK
<1>7. RequestsAreSound' /\ DatesAreSound' /\ MonthIsCapped' /\ RemovedCardIsErased'
  <2>1. Requests' = Requests /\ Straddling' = Straddling
    BY <1>1 DEF Requests, Straddling
  <2>2. RequestsAreSound' /\ MonthIsCapped' /\ RemovedCardIsErased'
    BY <1>1, <2>1 DEF PurchasesInv, RequestsAreSound, MonthIsCapped, RemovedCardIsErased
  <2>3. DatesAreSound'
    BY <1>1, <1>5 DEF PurchasesInv, DatesAreSound
  <2> QED  BY <2>2, <2>3
<1>8. AsksAreCounted'
  <2> SUFFICES ASSUME NEW s \in Buyers
               PROVE  /\ IsFiniteSet(UnderWayOf(s)')
                      /\ Cardinality(AskedBy(s)') + Cardinality(UnderWayOf(s)') <= calls'[s].asks
    BY DEF AsksAreCounted
  <2>1. /\ IsFiniteSet(UnderWayOf(s))
        /\ Cardinality(AskedBy(s)) + Cardinality(UnderWayOf(s)) <= calls[s].asks
    BY DEF PurchasesInv, AsksAreCounted
  <2>2. Cardinality(AskedBy(s)) \in Nat /\ Cardinality(UnderWayOf(s)) \in Nat
    BY AskedAreFew
  <2>3. AskedBy(s)' = AskedBy(s)
    BY <1>1 DEF AskedBy, Requests
  <2>4. CASE s # r
    <3>1. UnderWayOf(s)' = UnderWayOf(s)
      BY <1>1, <1>5, <2>4 DEF UnderWayOf
    <3> QED  BY <1>4, <2>1, <2>3, <2>4, <3>1
  <2>5. CASE s = r
    <3>1. UnderWayOf(s)' = UnderWayOf(s) \union {a}
      BY <1>1, <1>5, <2>5 DEF UnderWayOf
    <3>2. /\ IsFiniteSet(UnderWayOf(s) \union {a})
          /\ Cardinality(UnderWayOf(s) \union {a}) \in {Cardinality(UnderWayOf(s)), Cardinality(UnderWayOf(s)) + 1}
      BY <2>1, FS_AddElement
    <3>3. IsFiniteSet(UnderWayOf(s)') /\ calls'[s].asks = calls[s].asks + 1 /\ calls[s].asks \in Nat
      BY <1>3, <1>4, <2>5, <3>1, <3>2
    <3> QED  BY ONLY <2>1, <2>2, <2>3, <3>1, <3>2, <3>3
  <2> QED  BY <2>4, <2>5
<1> QED  BY <1>6, <1>7, <1>8 DEF PurchasesInv

\* A call gets its date, or is refused: fewer are under way, or as many.
LEMMA DateRequestStep ==
  ASSUME PurchasesInv, NEW a \in asking, DateRequest(a)  PROVE PurchasesInv'
<1> USE PurchasesTyped
<1> DEFINE b == [a EXCEPT !.dated = month]
           added == IF a.run.review THEN {} ELSE {b}
<1>1. /\ asking' = (asking \ {a}) \union added
      /\ UNCHANGED <<month, card, vault, erasing, purchases, calls, ended, crashes>>
  BY DEF DateRequest
<1>2. /\ b \in [run : Buyers, call : 0 .. MAX_REQUESTS, amount : Amounts, dated : 0 .. MaxMonth]
      /\ b.run = a.run /\ b.dated = month
  <2>1. /\ a \in [run : Buyers, call : 0 .. MAX_REQUESTS, amount : Amounts, dated : 0 .. MaxMonth]
        /\ month \in 0 .. MaxMonth
    OBVIOUS
  <2> QED  BY ONLY <2>1
<1>3. added \in SUBSET {b} /\ (a.run.review => added = {})
  OBVIOUS
<1> HIDE DEF b, added
<1>4. PurchasesTypeOK'
  BY <1>1, <1>2, <1>3 DEF PurchasesInv, PurchasesTypeOK
<1>5. Requests' = Requests /\ Straddling' = Straddling
  BY <1>1 DEF Requests, Straddling
<1>6. RequestsAreSound' /\ MonthIsCapped' /\ RemovedCardIsErased'
  BY <1>1, <1>5 DEF PurchasesInv, RequestsAreSound, MonthIsCapped, RemovedCardIsErased
<1>7. DatesAreSound'
  BY <1>1, <1>2, <1>3 DEF PurchasesInv, DatesAreSound
<1>8. AsksAreCounted'
  <2> SUFFICES ASSUME NEW s \in Buyers
               PROVE  /\ IsFiniteSet(UnderWayOf(s)')
                      /\ Cardinality(AskedBy(s)') + Cardinality(UnderWayOf(s)') <= calls'[s].asks
    BY DEF AsksAreCounted
  <2>1. /\ IsFiniteSet(UnderWayOf(s))
        /\ Cardinality(AskedBy(s)) + Cardinality(UnderWayOf(s)) <= calls[s].asks
    BY DEF PurchasesInv, AsksAreCounted
  <2>2. Cardinality(AskedBy(s)) \in Nat /\ Cardinality(UnderWayOf(s)) \in Nat /\ calls[s].asks \in Nat
    BY AskedAreFew
  <2>3. AskedBy(s)' = AskedBy(s) /\ calls'[s].asks = calls[s].asks
    BY <1>1, <1>5 DEF AskedBy
  <2>4. IsFiniteSet(UnderWayOf(s)') /\ Cardinality(UnderWayOf(s)') <= Cardinality(UnderWayOf(s))
    <3>1. CASE s # a.run
      <4>1. UnderWayOf(s)' = UnderWayOf(s)
        BY <1>1, <1>2, <1>3, <3>1 DEF UnderWayOf
      <4> QED  BY <2>1, <2>2, <4>1
    <3>2. CASE s = a.run
      <4> DEFINE U == UnderWayOf(s) \ {a}
      <4>1. a \in UnderWayOf(s)
        BY <3>2 DEF UnderWayOf
      <4>2. UnderWayOf(s)' \subseteq U \union {b}
        BY <1>1, <1>3 DEF UnderWayOf
      <4>3. IsFiniteSet(U) /\ Cardinality(U) = Cardinality(UnderWayOf(s)) - 1
        BY <2>1, <4>1, FS_RemoveElement
      <4> HIDE DEF U
      <4>4. /\ IsFiniteSet(U \union {b})
            /\ Cardinality(U \union {b}) \in {Cardinality(U), Cardinality(U) + 1}
        BY <4>3, FS_AddElement
      <4>5. /\ IsFiniteSet(UnderWayOf(s)') /\ Cardinality(UnderWayOf(s)') <= Cardinality(U \union {b})
        BY <4>2, <4>4, FS_Subset
      <4>6. Cardinality(UnderWayOf(s)') \in Nat
        BY <4>5, FS_CardinalityType
      <4> QED  BY ONLY <2>2, <4>3, <4>4, <4>5, <4>6
    <3> QED  BY <3>1, <3>2
  <2>5. Cardinality(UnderWayOf(s)') \in Nat
    BY <2>4, FS_CardinalityType
  <2> QED  BY ONLY <2>1, <2>2, <2>3, <2>4, <2>5
<1> QED  BY <1>4, <1>6, <1>7, <1>8 DEF PurchasesInv

LEMMA ProposePurchaseStep ==
  ASSUME PurchasesInv, NEW a \in asking, ProposePurchase(a)  PROVE PurchasesInv'
<1> USE PurchasesTyped
<1> DEFINE x == [amount |-> a.amount, month |-> a.dated, checked |-> month, run |-> a.run,
                 status |-> "awaiting_approval", approved |-> 0, server |-> 0]
           r == a.run
<1>1. /\ asking' = asking \ {a} /\ r \in Buyers /\ a.amount \in Amounts
      /\ a.dated \in 1 .. MaxMonth /\ a.dated <= month /\ ~ r.review
      /\ UNCHANGED <<month, card, vault, erasing, calls, ended, crashes>>
  BY DEF ProposePurchase, PurchasesInv, DatesAreSound
<1>2. x \in PurchaseRow
  BY <1>1 DEF PurchaseRow, Counted
<1>3. /\ x.amount = a.amount /\ x.amount \in Nat /\ x.month = a.dated /\ x.checked = month
      /\ x.run = r /\ x.approved = 0
  BY <1>1, PurchasesAssumption
<1>31. DatesAreSound'
  BY <1>1 DEF PurchasesInv, DatesAreSound
<1> HIDE DEF x
<1>4. RemovedCardIsErased'
  BY <1>1 DEF PurchasesInv, RemovedCardIsErased
<1>5. \A s \in Buyers :
        /\ IsFiniteSet(UnderWayOf(s)') /\ Cardinality(UnderWayOf(s)') \in Nat
        /\ Cardinality(UnderWayOf(s)') = IF s = r THEN Cardinality(UnderWayOf(s)) - 1
                                                 ELSE Cardinality(UnderWayOf(s))
  <2> SUFFICES ASSUME NEW s \in Buyers
               PROVE  /\ IsFiniteSet(UnderWayOf(s)') /\ Cardinality(UnderWayOf(s)') \in Nat
                      /\ Cardinality(UnderWayOf(s)') = IF s = r THEN Cardinality(UnderWayOf(s)) - 1
                                                               ELSE Cardinality(UnderWayOf(s))
    OBVIOUS
  <2>1. IsFiniteSet(UnderWayOf(s))
    BY DEF PurchasesInv, AsksAreCounted
  <2>2. UnderWayOf(s)' = UnderWayOf(s) \ {a}
    BY <1>1 DEF UnderWayOf
  <2>3. a \in UnderWayOf(s) <=> s = r
    BY DEF UnderWayOf
  <2>4. /\ IsFiniteSet(UnderWayOf(s) \ {a})
        /\ Cardinality(UnderWayOf(s) \ {a}) = IF a \in UnderWayOf(s) THEN Cardinality(UnderWayOf(s)) - 1
                                                                  ELSE Cardinality(UnderWayOf(s))
    BY <2>1, FS_RemoveElement
  <2>5. Cardinality(UnderWayOf(s) \ {a}) \in Nat
    BY <2>4, FS_CardinalityType
  <2> QED  BY <2>2, <2>3, <2>4, <2>5
<1>6. CASE ~ MayBuy(a.amount, 0)
  <2>1. purchases' = purchases
    BY <1>6 DEF ProposePurchase
  <2>2. PurchasesTypeOK'
    BY <1>1, <2>1 DEF PurchasesInv, PurchasesTypeOK
  <2>3. Requests' = Requests /\ Straddling' = Straddling
    BY <2>1 DEF Requests, Straddling
  <2>4. RequestsAreSound' /\ MonthIsCapped'
    BY <1>1, <2>1, <2>3 DEF PurchasesInv, RequestsAreSound, MonthIsCapped
  <2>5. AsksAreCounted'
    <3> SUFFICES ASSUME NEW s \in Buyers
                 PROVE  Cardinality(AskedBy(s)') + Cardinality(UnderWayOf(s)') <= calls[s].asks
      BY <1>1, <1>5 DEF AsksAreCounted
    <3>1. AskedBy(s)' = AskedBy(s)
      BY <2>1, <2>3 DEF AskedBy
    <3>2. /\ Cardinality(AskedBy(s)) + Cardinality(UnderWayOf(s)) <= calls[s].asks
          /\ calls[s].asks \in Nat
      BY DEF PurchasesInv, AsksAreCounted
    <3>3. Cardinality(AskedBy(s)) \in Nat /\ Cardinality(UnderWayOf(s)) \in Nat
      BY AskedAreFew
    <3>4. Cardinality(UnderWayOf(s)') <= Cardinality(UnderWayOf(s)) /\ Cardinality(UnderWayOf(s)') \in Nat
      BY ONLY s \in Buyers, <1>5, <3>3
    <3> QED  BY ONLY <3>1, <3>2, <3>3, <3>4
  <2> QED  BY <1>4, <1>31, <2>2, <2>4, <2>5 DEF PurchasesInv
<1>7. CASE MayBuy(a.amount, 0)
  <2> DEFINE K == Len(purchases)
  <2>1. purchases' = Append(purchases, x)
    BY <1>7 DEF ProposePurchase, x
  <2>2. /\ purchases' \in Seq(PurchaseRow) /\ Len(purchases') = K + 1 /\ K \in Nat
        /\ purchases'[K + 1] = x
        /\ \A n \in 1 .. K : purchases'[n] = purchases[n]
    BY <1>2, <2>1, AppendHas
  <2>3. Requests' = 1 .. K + 1 /\ K + 1 \notin Requests
    BY <2>2, LenProperties DEF Requests
  <2>4. PurchasesTypeOK'
    BY <1>1, <2>2 DEF PurchasesInv, PurchasesTypeOK, PurchaseRow
  <2>5. RequestsAreSound'
    <3> SUFFICES ASSUME NEW i \in 1 .. K + 1
                 PROVE  /\ purchases'[i].month <= month' /\ ~ purchases'[i].run.review
                        /\ purchases'[i].approved \in {0, purchases'[i].month, purchases'[i].month + 1}
      BY <2>3 DEF RequestsAreSound
    <3>1. CASE i = K + 1
      BY <1>1, <1>3, <1>7, <2>2, <3>1
    <3>2. CASE i \in Requests
      BY <1>1, <2>2, <3>2 DEF PurchasesInv, RequestsAreSound
    <3> QED  BY <3>1, <3>2
  <2>6. AsksAreCounted'
    <3> SUFFICES ASSUME NEW s \in Buyers
                 PROVE  Cardinality(AskedBy(s)') + Cardinality(UnderWayOf(s)') <= calls[s].asks
      BY <1>1, <1>5 DEF AsksAreCounted
    <3>1. /\ Cardinality(AskedBy(s)) + Cardinality(UnderWayOf(s)) <= calls[s].asks
          /\ calls[s].asks \in Nat
      BY DEF PurchasesInv, AsksAreCounted
    <3>2. /\ Cardinality(AskedBy(s)) \in Nat /\ Cardinality(UnderWayOf(s)) \in Nat
          /\ IsFiniteSet(AskedBy(s))
      BY AskedAreFew
    <3>5. \A i \in Requests : purchases'[i] = purchases[i]
      <4>1. Requests = 1 .. K
        BY DEF Requests, PurchasesInv, PurchasesTypeOK
      <4> QED  BY ONLY <2>2, <4>1
    <3>6. Requests' = Requests \union {K + 1}
      <4>1. Requests = 1 .. K
        BY DEF Requests, PurchasesInv, PurchasesTypeOK
      <4> QED  BY ONLY <2>2, <2>3, <4>1
    <3>3. CASE s # r
      <4>1. AskedBy(s)' = AskedBy(s)
        <5>1. purchases'[K + 1].run # s
          BY <1>3, <2>2, <3>3
        <5> QED  BY ONLY <3>5, <3>6, <5>1 DEF AskedBy
      <4> QED  BY <1>5, <3>1, <3>3, <4>1
    <3>4. CASE s = r
      <4>1. AskedBy(s)' = AskedBy(s) \union {K + 1}
        <5>1. purchases'[K + 1].run = s
          BY <1>3, <2>2, <3>4
        <5> QED  BY ONLY <3>5, <3>6, <5>1 DEF AskedBy
      <4>2. Cardinality(AskedBy(s) \union {K + 1}) \in {Cardinality(AskedBy(s)), Cardinality(AskedBy(s)) + 1}
        BY <3>2, FS_AddElement
      <4>3. Cardinality(UnderWayOf(s)') = Cardinality(UnderWayOf(s)) - 1
        BY <1>5, <3>4
      <4> QED  BY ONLY <3>1, <3>2, <4>1, <4>2, <4>3
    <3> QED  BY <3>3, <3>4
  <2>7. MonthIsCapped'
    <3> SUFFICES ASSUME NEW m \in 1 .. month
                 PROVE  AmountOf(purchases', OfMonth(m)') <= MONTHLY
      BY <1>1 DEF MonthIsCapped, OfMonth
    <3> DEFINE T == OfMonth(m)'
               S == OfMonth(m)
    <3>1. AmountOf(purchases, S) <= MONTHLY
      BY DEF PurchasesInv, MonthIsCapped, OfMonth
    <3>2. \A n \in 1 .. K : n \in T => n \in S
      BY <2>2, <2>3 DEF OfMonth, Straddling
    <3>3. (K + 1 \in T) => m = month
      BY <1>3, <2>2, <2>3 DEF OfMonth, Straddling
    <3>4. \A n \in S : n \in Committed(m, 0)
      BY DEF Committed, OfMonth
    <3> HIDE DEF S, T
    <3>5. AmountOf(purchases', T) <= AmountOf(purchases, T) + IF K + 1 \in T THEN x.amount ELSE 0
      BY <1>2, <2>1, AmountAppend
    <3>6. AmountOf(purchases, T) <= AmountOf(purchases, S)
      BY <3>2, AmountGoesOn
    <3>7. /\ AmountOf(purchases', T) \in Nat /\ AmountOf(purchases, T) \in Nat /\ AmountOf(purchases, S) \in Nat
          /\ AmountOf(purchases, Committed(m, 0)) \in Nat
      BY <2>2, AmountIsNumber
    <3>8. CASE K + 1 \notin T
      BY <3>1, <3>5, <3>6, <3>7, <3>8 DEF T
    <3>9. CASE K + 1 \in T
      <4>1. AmountOf(purchases, Committed(m, 0)) + x.amount <= MONTHLY
        BY <1>3, <1>7, <3>3, <3>9 DEF MayBuy
      <4>2. AmountOf(purchases, S) <= AmountOf(purchases, Committed(m, 0))
        BY <3>4, AmountGoesOn
      <4>3. AmountOf(purchases', T) <= MONTHLY
        <5>1. AmountOf(purchases', T) <= AmountOf(purchases, T) + x.amount
          BY <3>5, <3>9
        <5>2. x.amount \in Nat /\ MONTHLY \in Nat
          BY <1>3
        <5> HIDE PurchasesTyped
        <5> QED  BY <3>6, <3>7, <4>1, <4>2, <5>1, <5>2
      <4> QED  BY <4>3 DEF T
    <3> QED  BY <3>8, <3>9
  <2> QED  BY <1>4, <1>31, <2>4, <2>5, <2>6, <2>7 DEF PurchasesInv
<1> QED  BY <1>6, <1>7

\* What becomes of a request that was made: it goes on counting, or stops.
LEMMA RequestChanges ==
  ASSUME PurchasesInv, NEW i \in Requests, NEW x \in PurchaseRow,
         purchases' = [purchases EXCEPT ![i] = x],
         x.amount = purchases[i].amount, x.month = purchases[i].month, x.checked = purchases[i].checked,
         x.run = purchases[i].run,
         x.status \in Counted => purchases[i].status \in Counted,
         x.approved \in {0, x.month, x.month + 1},
         UNCHANGED <<month, card, vault, erasing, calls, asking, ended, crashes>>
  PROVE  PurchasesInv'
<1> USE PurchasesTyped
<1>1. /\ purchases' \in Seq(PurchaseRow) /\ Len(purchases') = Len(purchases) /\ purchases'[i] = x
      /\ \A j \in Requests : j # i => purchases'[j] = purchases[j]
  BY ExceptSeq
<1>2. Requests' = Requests
  BY <1>1, LenProperties DEF Requests
<1>3. PurchasesTypeOK'
  BY <1>1 DEF PurchasesInv, PurchasesTypeOK, PurchaseRow
<1>4. RequestsAreSound'
  BY <1>1, <1>2 DEF PurchasesInv, RequestsAreSound
<1>5. AsksAreCounted'
  <2>1. \A r \in Buyers : AskedBy(r)' = AskedBy(r)
    BY <1>1, <1>2 DEF AskedBy
  <2>2. \A r \in Buyers : UnderWayOf(r)' = UnderWayOf(r)
    BY DEF UnderWayOf
  <2> QED  BY <2>1, <2>2 DEF PurchasesInv, AsksAreCounted
<1>6. MonthIsCapped'
  <2>1. \A j \in Requests : /\ purchases'[j].amount = purchases[j].amount
                            /\ purchases'[j].month = purchases[j].month
                            /\ purchases'[j].checked = purchases[j].checked
                            /\ purchases'[j].status \in Counted => purchases[j].status \in Counted
    BY <1>1
  <2> QED  BY <1>1, <2>1, MonthStays
<1>7. RemovedCardIsErased' /\ DatesAreSound'
  BY DEF PurchasesInv, RemovedCardIsErased, DatesAreSound
<1> QED  BY <1>3, <1>4, <1>5, <1>6, <1>7 DEF PurchasesInv

LEMMA RequestStep ==
  ASSUME PurchasesInv, NEW i \in Requests,
         ApprovePurchase(i) \/ RefusePurchase(i) \/ ClaimPurchase(i) \/ RecordPurchase(i)
  PROVE  PurchasesInv'
<1> USE PurchasesTyped
<1> DEFINE p == purchases[i]
<1>1. /\ p \in PurchaseRow /\ p.month <= month
      /\ p.approved \in {0, p.month, p.month + 1} /\ p.month \in Nat
      /\ UNCHANGED <<month, card, vault, erasing, calls, asking, ended, crashes>>
  BY DEF PurchasesInv, RequestsAreSound, ApprovePurchase, RefusePurchase, ClaimPurchase, RecordPurchase
<1>2. CASE ApprovePurchase(i)
  <2> DEFINE a == [p EXCEPT !.status = "approved"]
             b == [a EXCEPT !.approved = month]
             x == [b EXCEPT !.server = crashes]
  <2>1. purchases' = [purchases EXCEPT ![i] = x]
    BY <1>2 DEF ApprovePurchase
  <2>2. /\ x \in PurchaseRow /\ x.amount = p.amount /\ x.month = p.month /\ x.checked = p.checked /\ x.run = p.run
        /\ x.approved = month
    <3>1. month \in 0 .. MaxMonth
      OBVIOUS
    <3>2. /\ a \in PurchaseRow /\ a.amount = p.amount /\ a.month = p.month /\ a.checked = p.checked
          /\ a.run = p.run
      BY <1>1 DEF PurchaseRow, Counted
    <3> HIDE DEF a
    <3>3. /\ b \in PurchaseRow /\ b.amount = p.amount /\ b.month = p.month /\ b.checked = p.checked
          /\ b.run = p.run
          /\ b.approved = month
      BY <3>1, <3>2 DEF PurchaseRow
    <3> HIDE DEF b
    <3>4. crashes \in 0 .. MaxCrashes
      OBVIOUS
    <3> QED  BY ONLY <3>3, <3>4 DEF PurchaseRow
  <2>3. month \in {p.month, p.month + 1}
    <3>1. /\ p.month <= month /\ p.month \in Nat /\ month \in Nat /\ month <= p.month + 1
      BY <1>1, <1>2 DEF ApprovePurchase, Fresh
    <3> HIDE DEF p
    <3> QED  BY ONLY <3>1
  <2>4. p.status \in Counted
    BY <1>2 DEF ApprovePurchase, Counted
  <2> HIDE DEF x
  <2> QED  BY <1>1, <2>1, <2>2, <2>3, <2>4, RequestChanges
<1>3. ASSUME NEW s \in {"cancelled", "executing", "failed", "succeeded"},
             purchases' = [purchases EXCEPT ![i].status = s], s \in Counted => p.status \in Counted
      PROVE  PurchasesInv'
  <2> DEFINE x == [p EXCEPT !.status = s]
  <2>1. purchases' = [purchases EXCEPT ![i] = x]
    BY <1>3
  <2>2. /\ x \in PurchaseRow /\ x.amount = p.amount /\ x.month = p.month /\ x.checked = p.checked /\ x.run = p.run
        /\ x.approved = p.approved /\ x.status = s
    BY <1>1 DEF PurchaseRow, Counted
  <2> HIDE DEF x
  <2> QED  BY <1>1, <1>3, <2>1, <2>2, RequestChanges
<1>4. CASE RefusePurchase(i)
  BY <1>3, <1>4 DEF RefusePurchase, Counted
<1>5. CASE ClaimPurchase(i)
  <2> DEFINE s == IF MayBuy(purchases[i].amount, i) THEN "executing" ELSE "failed"
  <2>1. s \in {"executing", "failed"}
    OBVIOUS
  <2>2. purchases' = [purchases EXCEPT ![i].status = s] /\ p.status \in Counted
    BY <1>5 DEF ClaimPurchase, Counted
  <2> HIDE DEF s
  <2> QED  BY <1>3, <2>1, <2>2
<1>6. CASE RecordPurchase(i)
  <2>1. purchases' = [purchases EXCEPT ![i].status = "succeeded"] /\ p.status \in Counted
    BY <1>6 DEF RecordPurchase, Counted
  <2> QED  BY <1>3, <2>1
<1> QED  BY <1>2, <1>4, <1>5, <1>6

LEMMA PurchasesStep ==
  ASSUME PurchasesInv, PurchasesNext \/ UNCHANGED purchaseVars  PROVE PurchasesInv'
<1>1. CASE UNCHANGED purchaseVars
  <2>1. Requests' = Requests /\ Straddling' = Straddling
    BY <1>1 DEF Requests, Straddling, purchaseVars
  <2>2. AsksAreCounted'
    <3>1. \A r \in Buyers : AskedBy(r)' = AskedBy(r) /\ UnderWayOf(r)' = UnderWayOf(r)
      BY <1>1, <2>1 DEF AskedBy, UnderWayOf, purchaseVars
    <3> QED  BY <1>1, <3>1 DEF PurchasesInv, AsksAreCounted, purchaseVars
  <2> QED  BY <1>1, <2>1, <2>2 DEF PurchasesInv, PurchasesTypeOK, RequestsAreSound, DatesAreSound, MonthIsCapped,
           RemovedCardIsErased, purchaseVars
<1>2. ASSUME NEW r \in Buyers, NEW amount \in Amounts, CallTool(r, amount) PROVE PurchasesInv'
  BY <1>2, CallToolStep
<1>3. ASSUME NEW a \in asking, DateRequest(a) \/ ProposePurchase(a) PROVE PurchasesInv'
  BY <1>3, DateRequestStep, ProposePurchaseStep
<1>4. ASSUME NEW i \in Requests,
             ApprovePurchase(i) \/ RefusePurchase(i) \/ ClaimPurchase(i) \/ RecordPurchase(i)
      PROVE  PurchasesInv'
  BY <1>4, RequestStep
<1>5. CASE \/ \E r \in Buyers : CallOther(r) \/ StopRun(r)
           \/ \E c \in Cards : AddCard(c)
           \/ SetFrozen \/ RemoveCard \/ DeleteNumber \/ NextMonth \/ ServerDies
  BY <1>5, QuietPurchaseStep
<1> QED  BY <1>1, <1>2, <1>3, <1>4, <1>5, Zenon DEF PurchasesNext

\* What is approved in a month was asked for in it or in the one before.
LEMMA PurchasesShow ==
  ASSUME PurchasesInv  PROVE PurchasesTypeOK /\ PurchasesAreSound
<1> USE PurchasesTyped
<1>1. ApprovalsAreCapped
  <2> SUFFICES ASSUME NEW m \in 1 .. month
               PROVE  AmountOf(purchases, {i \in Requests \ Straddling : purchases[i].approved = m
                                             /\ purchases[i].status \in Counted}) <= 2 * MONTHLY
    BY DEF ApprovalsAreCapped
  <2> DEFINE S == {i \in Requests \ Straddling : purchases[i].approved = m /\ purchases[i].status \in Counted}
             Of(k) == {i \in Requests \ Straddling : purchases[i].month = k /\ purchases[i].status \in Counted}
  <2>1. \A n \in 1 .. Len(purchases) : n \in S => n \in Of(m) \/ n \in Of(m - 1)
    <3>1. \A n \in Requests : purchases[n].approved \in {0, purchases[n].month, purchases[n].month + 1}
      BY DEF PurchasesInv, RequestsAreSound
    <3>2. \A n \in Requests : purchases[n].approved = m => purchases[n].month \in {m, m - 1}
      <4> SUFFICES ASSUME NEW n \in Requests, purchases[n].approved = m
                   PROVE  purchases[n].month \in {m, m - 1}
        OBVIOUS
      <4>1. m # 0 /\ m \in Nat /\ purchases[n].month \in Nat
        OBVIOUS
      <4>2. m = purchases[n].month \/ m = purchases[n].month + 1
        BY <3>1, <4>1
      <4> QED  BY ONLY <4>1, <4>2
    <3> QED  BY <3>2
  <2>2. AmountOf(purchases, Of(m)) <= MONTHLY
    BY DEF PurchasesInv, MonthIsCapped
  <2>3. AmountOf(purchases, Of(m - 1)) <= MONTHLY
    <3>1. CASE m = 1
      <4>1. \A n \in 1 .. Len(purchases) : purchases[n].month # m - 1
        <5> SUFFICES ASSUME NEW n \in Requests PROVE purchases[n].month # m - 1
          OBVIOUS
        <5>1. purchases[n].month \in 1 .. MaxMonth
          BY DEF PurchaseRow
        <5> QED  BY <3>1, <5>1
      <4>2. \A n \in 1 .. Len(purchases) : n \notin Of(m - 1)
        BY <4>1
      <4> HIDE DEF Of
      <4>3. AmountOf(purchases, Of(m - 1)) = 0
        BY <4>2, NothingAdds
      <4> QED  BY <4>3
    <3>2. CASE m # 1
      <4>1. m - 1 \in 1 .. month
        BY <3>2
      <4> QED  BY <4>1 DEF PurchasesInv, MonthIsCapped
    <3> QED  BY <3>1, <3>2
  <2> HIDE DEF S, Of
  <2>4. AmountOf(purchases, S) <= AmountOf(purchases, Of(m)) + AmountOf(purchases, Of(m - 1))
    BY <2>1, AmountWithin
  <2>5. /\ AmountOf(purchases, S) \in Nat /\ AmountOf(purchases, Of(m)) \in Nat
        /\ AmountOf(purchases, Of(m - 1)) \in Nat
    BY AmountIsNumber
  <2>6. AmountOf(purchases, S) <= 2 * MONTHLY
    <3> DEFINE all == AmountOf(purchases, S)
               this == AmountOf(purchases, Of(m))
               last == AmountOf(purchases, Of(m - 1))
    <3>1. /\ all \in Nat /\ this \in Nat /\ last \in Nat /\ MONTHLY \in Nat
          /\ all <= this + last /\ this <= MONTHLY /\ last <= MONTHLY
      BY <2>2, <2>3, <2>4, <2>5, PurchasesAssumption
    <3> HIDE DEF all, this, last
    <3>2. all <= 2 * MONTHLY
      BY ONLY <3>1
    <3> QED  BY <3>2 DEF all
  <2> QED  BY <2>6 DEF S
<1>2. RunsAskWithinBudget
  <2> SUFFICES ASSUME NEW r \in Buyers
               PROVE  Cardinality(AskedBy(r)) <= IF r.review THEN 0 ELSE MAX_REQUESTS
    BY DEF RunsAskWithinBudget, AskedBy
  <2>1. /\ Cardinality(AskedBy(r)) + Cardinality(UnderWayOf(r)) <= calls[r].asks
        /\ calls[r].asks \in 0 .. MAX_REQUESTS
    BY DEF PurchasesInv, AsksAreCounted
  <2>2. Cardinality(AskedBy(r)) \in Nat /\ Cardinality(UnderWayOf(r)) \in Nat
    BY AskedAreFew
  <2>3. CASE r.review
    <3>1. AskedBy(r) = {}
      BY <2>3 DEF PurchasesInv, RequestsAreSound, AskedBy
    <3> QED  BY <2>3, <3>1, FS_EmptySet
  <2>4. CASE ~ r.review
    <3>1. Cardinality(AskedBy(r)) <= MAX_REQUESTS
      BY <2>1, <2>2
    <3> QED  BY <2>4, <3>1
  <2> QED  BY <2>3, <2>4
<1> QED  BY <1>1, <1>2 DEF PurchasesInv, PurchasesAreSound

-----------------------------------------------------------------------------
(* Spending.                                                               *)

\* The calls that coroutines which ask may still record: those of work begun at a
\* moment, and those of work that the gate's last answer still lets begin.
Pieces == Asking \X (1 .. MAX_CALLS)
GoodFor == IF cache.known /\ cache.allowed THEN cache.at .. cache.at + CACHE_SECONDS - 1 ELSE {}
Begun(w, k, s) == thinking[w].on /\ thinking[w].since = s /\ thinking[w].made < k
MayBegin(w, s) == s \in GoodFor /\ moment <= s /\ ~(thinking[w].on /\ thinking[w].since >= s)
CallsLeft == {d \in Pieces \X Nat : Begun(d[1][1], d[1][2], d[2]) \/ MayBegin(d[1][1], d[2])}

Exposure == Cardinality(CallsLeft)
Most == Cardinality(Asking) * MAX_CALLS * (CACHE_SECONDS + 1)

PriceTable == UNION {[priced -> Rates] : priced \in SUBSET Models}

CacheIsPast == cache.at <= moment
WorkIsPast ==
  \A w \in Asking :
    thinking[w].on => /\ thinking[w].since <= moment
                      /\ thinking[w].since = moment => thinking[w].made = 0

\* What was recorded late, and what may still be, is within the bound.
OvershootIsLeft == ledger.late + Dearest * Exposure <= Dearest * Most

SpendingInv ==
  /\ SpendingTypeOK /\ table \in PriceTable /\ loaded \in PriceTable
  /\ CacheIsPast /\ WorkIsPast
  /\ Within => ledger.late = 0
  /\ OvershootIsLeft

\* A call's price is a number, ...
LEMMA PriceIs ==
  ASSUME NEW call \in CallSizes, NEW rate \in Rates
  PROVE  PriceOf(call, rate) \in Nat
<1>1. /\ call.input \in Nat /\ call.cached \in Nat /\ call.audio \in Nat /\ call.output \in Nat
      /\ rate.input \in Nat /\ rate.cached \in Nat /\ rate.audio \in Nat /\ rate.output \in Nat
  BY SpendingAssumption
<1> DEFINE t == TokensOf(call)
<1>2. t.text \in Nat /\ t.cached \in Nat /\ t.audio \in Nat /\ t.output \in Nat
  BY <1>1 DEF TokensOf, AtLeastZero, AtMost
<1> HIDE DEF t
<1>3. AtLeastZero(t.text - t.cached) \in Nat
  BY <1>2 DEF AtLeastZero
<1>4. \A a, b \in Nat : a * b \in Nat
  OBVIOUS
<1>5. /\ AtLeastZero(t.text - t.cached) * rate.input \in Nat /\ t.cached * rate.cached \in Nat
      /\ t.audio * rate.audio \in Nat /\ t.output * rate.output \in Nat
  BY <1>1, <1>2, <1>3, <1>4
<1>6. \A a, b, c, d \in Nat : a + b + c + d \in Nat
  OBVIOUS
<1>7. PriceOf(call, rate) = AtLeastZero(t.text - t.cached) * rate.input + t.cached * rate.cached
                             + t.audio * rate.audio + t.output * rate.output
  BY DEF PriceOf, t
<1> QED  BY <1>5, <1>6, <1>7

\* ... there are finitely many costs, ...
LEMMA CostsAreFinite ==
  IsFiniteSet(Costs) /\ Costs # {} /\ Costs \subseteq Nat
<1> DEFINE S == CallSizes \X Rates
           Prices == {PriceOf(call, rate) : call \in CallSizes, rate \in Rates}
           Told == {c \in CallSizes : c.reported # Unstated}
           Reported == {call.reported : call \in Told}
           f == [d \in S |-> PriceOf(d[1], d[2])]
           g == [c \in Told |-> c.reported]
<1>1. IsFiniteSet(CallSizes) /\ CallSizes # {} /\ IsFiniteSet(Rates) /\ Rates # {}
  BY SpendingAssumption
<1>2. IsFiniteSet(Prices)
  <2>1. IsFiniteSet(S)
    BY <1>1, FS_Product
  <2>2. f \in Surjection(S, Prices)
    <3>1. f \in [S -> Prices]
      OBVIOUS
    <3>2. \A t \in Prices : \E d \in S : f[d] = t
      <4> SUFFICES ASSUME NEW call \in CallSizes, NEW rate \in Rates
                   PROVE  \E d \in S : f[d] = PriceOf(call, rate)
        OBVIOUS
      <4>1. <<call, rate>> \in S /\ f[<<call, rate>>] = PriceOf(call, rate)
        OBVIOUS
      <4> QED  BY <4>1
    <3> HIDE DEF f, S, Prices
    <3> QED  BY <3>1, <3>2 DEF Surjection
  <2> HIDE DEF f, S, Prices
  <2> QED  BY <2>1, <2>2, FS_Surjection
<1>3. IsFiniteSet(Reported)
  <2>1. IsFiniteSet(Told)
    BY <1>1, FS_Subset
  <2>2. g \in Surjection(Told, Reported)
    BY DEF Surjection
  <2> HIDE DEF g, Told, Reported
  <2> QED  BY <2>1, <2>2, FS_Surjection
<1>4. Prices \subseteq Nat
  BY PriceIs
<1>5. Reported \subseteq Nat
  <2>1. \A c \in CallSizes : c.reported \in Nat \union {Unstated}
    BY SpendingAssumption
  <2> QED  BY <2>1
<1>6. Prices # {}
  <2>1. PICK call \in CallSizes, rate \in Rates : TRUE
    BY <1>1
  <2>2. PriceOf(call, rate) \in Prices
    OBVIOUS
  <2> QED  BY <2>2
<1>7. Costs = Prices \union Reported
  BY DEF Costs
<1> HIDE DEF Prices, Reported
<1>8. IsFiniteSet(Prices \union Reported)
  BY <1>2, <1>3, FS_Union
<1> QED  BY <1>4, <1>5, <1>6, <1>7, <1>8

\* ... and none costs more than the dearest.
LEMMA DearestIs ==
  Dearest \in Nat /\ \A c \in Costs : c <= Dearest
<1> DEFINE before == {d \in Costs \X Costs : d[1] > d[2]}
<1>1. Costs \subseteq Nat
  BY CostsAreFinite
<1>2. IsOrder(before, Costs)
  BY <1>1 DEF IsOrder
<1>3. PICK x \in Costs : \A y \in Costs : <<y, x>> \notin before
  <2> HIDE DEF before
  <2> QED  BY <1>2, CostsAreFinite, First
<1>4. \A y \in Costs : y <= x
  <2> SUFFICES ASSUME NEW y \in Costs PROVE y <= x
    OBVIOUS
  <2>1. ~ (y > x)
    BY <1>3
  <2> QED  BY <1>1, <2>1
<1> DEFINE P(c) == \A d \in Costs : d <= c
<1>5. P(x) /\ Dearest = CHOOSE c \in Costs : P(c)
  BY <1>4 DEF Dearest
<1> HIDE DEF P
<1>6. Dearest \in Costs /\ P(Dearest)
  BY <1>5
<1> QED  BY <1>1, <1>6 DEF P

LEMMA CostIs ==
  ASSUME loaded \in PriceTable, NEW call \in CallSizes, NEW model, HasCost(call, model)
  PROVE  CostOf(call, model) \in Nat /\ CostOf(call, model) <= Dearest
<1>1. CASE call.reported # Unstated
  <2>1. call.reported \in Costs /\ CostOf(call, model) = call.reported
    BY <1>1 DEF Costs, CostOf
  <2> QED  BY <2>1, DearestIs, CostsAreFinite
<1>2. CASE call.reported = Unstated
  <2>1. loaded[model] \in Rates
    BY <1>2 DEF HasCost, PriceTable
  <2>2. PriceOf(call, loaded[model]) \in Costs /\ CostOf(call, model) = PriceOf(call, loaded[model])
    BY <1>2, <2>1 DEF Costs, CostOf
  <2> QED  BY <2>2, DearestIs, CostsAreFinite
<1> QED  BY <1>1, <1>2

LEMMA Scales ==
  ASSUME NEW d \in Nat, NEW m \in Nat, NEW n \in Nat, m <= n
  PROVE  d * m \in Nat /\ d * n \in Nat /\ d * m <= d * n
OBVIOUS

\* What the invariant says, in the form the steps need.
LEMMA SpendingTyped ==
  ASSUME SpendingInv
  PROVE  /\ moment \in 0 .. MaxMoment /\ moment \in Nat /\ MaxMoment \in Nat
         /\ ledger \in [cost : Nat, late : Nat, unpriced : 0 .. 1]
         /\ thinking \in [Thinkers -> [on : BOOLEAN, since : 0 .. MaxMoment, made : 0 .. MAX_CALLS]]
         /\ cache \in [at : 0 .. MaxMoment, known : BOOLEAN, allowed : BOOLEAN]
         /\ CEILING \in Nat /\ CACHE_SECONDS \in Nat /\ MAX_CALLS \in Nat
         /\ Asking \subseteq Thinkers /\ IsFiniteSet(Asking) /\ Cardinality(Asking) \in Nat
<1>1. Asking \subseteq Thinkers /\ IsFiniteSet(Thinkers)
  BY SpendingAssumption DEF Asking
<1>2. IsFiniteSet(Asking) /\ Cardinality(Asking) \in Nat
  BY <1>1, FS_Subset, FS_CardinalityType
<1> QED  BY <1>1, <1>2, SpendingAssumption DEF SpendingInv, SpendingTypeOK

LEMMA MostIs == Most \in Nat
<1>1. Asking \subseteq Thinkers /\ IsFiniteSet(Thinkers)
  BY SpendingAssumption DEF Asking
<1>2. Cardinality(Asking) \in Nat /\ MAX_CALLS \in Nat /\ CACHE_SECONDS + 1 \in Nat
  BY <1>1, FS_Subset, FS_CardinalityType, SpendingAssumption
<1>3. \A a, b, c \in Nat : a * b * c \in Nat
  <2>1. \A a, b \in Nat : a * b \in Nat
    OBVIOUS
  <2> QED  BY <2>1
<1> QED  BY <1>2, <1>3 DEF Most

\* However the moments lie at which work began or may begin, there are not many
\* calls: one moment for what is under way, CACHE_SECONDS for what may begin.
LEMMA PiecesAreFew ==
  ASSUME NEW began, NEW B, NEW from \in Nat, NEW G, NEW M,
         \A d \in B : d[1] \in Pieces /\ d = <<d[1], began[d[1][1]]>>,
         G \in {{}, from .. from + CACHE_SECONDS - 1}, M \in SUBSET (Pieces \X G)
  PROVE  /\ IsFiniteSet(B \union M) /\ Cardinality(B \union M) \in Nat
         /\ Cardinality(B \union M) <= Most
<1>1. /\ IsFiniteSet(Asking) /\ Cardinality(Asking) \in Nat /\ CACHE_SECONDS \in Nat /\ MAX_CALLS \in Nat
  <2>1. Asking \subseteq Thinkers /\ IsFiniteSet(Thinkers)
    BY SpendingAssumption DEF Asking
  <2> QED  BY <2>1, SpendingAssumption, FS_Subset, FS_CardinalityType
<1> DEFINE P == Cardinality(Asking) * MAX_CALLS
<1>2. IsFiniteSet(Pieces) /\ Cardinality(Pieces) = P /\ P \in Nat
  <2>1. IsFiniteSet(1 .. MAX_CALLS) /\ Cardinality(1 .. MAX_CALLS) = MAX_CALLS
    <3>1. 1 \in Int /\ MAX_CALLS \in Int
      BY <1>1
    <3>2. /\ IsFiniteSet(1 .. MAX_CALLS)
          /\ Cardinality(1 .. MAX_CALLS) = IF 1 > MAX_CALLS THEN 0 ELSE MAX_CALLS - 1 + 1
      BY <3>1, FS_Interval
    <3> QED  BY <1>1, <3>2
  <2>2. \A a, b \in Nat : a * b \in Nat
    OBVIOUS
  <2> QED  BY <1>1, <2>1, <2>2, FS_Product DEF Pieces
<1>3. IsFiniteSet(B) /\ Cardinality(B) <= P /\ Cardinality(B) \in Nat
  <2> DEFINE f == [d \in B |-> d[1]]
  <2>1. f \in Injection(B, Pieces)
    <3>1. f \in [B -> Pieces]
      OBVIOUS
    <3>2. \A d, e \in B : f[d] = f[e] => d = e
      <4> SUFFICES ASSUME NEW d \in B, NEW e \in B, d[1] = e[1] PROVE d = e
        OBVIOUS
      <4>1. d = <<d[1], began[d[1][1]]>> /\ e = <<e[1], began[e[1][1]]>>
        OBVIOUS
      <4>2. <<d[1], began[d[1][1]]>> = <<e[1], began[e[1][1]]>>
        OBVIOUS
      <4> QED  BY ONLY <4>1, <4>2
    <3> HIDE DEF f
    <3>3. DOMAIN f = B
      BY <3>1
    <3> QED  BY <3>1, <3>2, <3>3 DEF Injection, IsInjective
  <2> HIDE DEF f
  <2> QED  BY <1>2, <2>1, FS_Injection, FS_CardinalityType
<1>4. IsFiniteSet(G) /\ Cardinality(G) \in Nat /\ Cardinality(G) <= CACHE_SECONDS
  <2>1. CASE G = from .. from + CACHE_SECONDS - 1
    <3> DEFINE b == from + CACHE_SECONDS - 1
    <3>1. G = from .. b /\ from \in Int /\ b \in Int
      BY <1>1, <2>1
    <3>2. IsFiniteSet(from .. b) /\ Cardinality(from .. b) = IF from > b THEN 0 ELSE b - from + 1
      BY <3>1, FS_Interval
    <3> QED  BY <1>1, <3>1, <3>2
  <2>2. CASE G = {}
    BY <1>1, <2>2, FS_EmptySet
  <2> QED  BY <2>1, <2>2
<1> HIDE DEF P
<1>5. IsFiniteSet(Pieces \X G) /\ Cardinality(Pieces \X G) = P * Cardinality(G)
  BY <1>2, <1>4, FS_Product
<1>6. IsFiniteSet(M) /\ Cardinality(M) \in Nat /\ Cardinality(M) <= P * Cardinality(G)
  BY <1>5, FS_Subset, FS_CardinalityType
<1>7. /\ IsFiniteSet(B \union M) /\ Cardinality(B \union M) \in Nat
      /\ Cardinality(B \union M) <= Cardinality(B) + Cardinality(M)
  <2>1. /\ IsFiniteSet(B \union M)
        /\ Cardinality(B \union M) = Cardinality(B) + Cardinality(M) - Cardinality(B \intersect M)
    BY <1>3, <1>6, FS_Union
  <2>2. Cardinality(B \intersect M) \in Nat /\ Cardinality(B \union M) \in Nat
    BY <1>3, <2>1, FS_Subset, FS_CardinalityType
  <2> QED  BY <1>3, <1>6, <2>1, <2>2
<1>8. \A n, g, s, b, m \in Nat : g <= s /\ b <= n /\ m <= n * g => b + m <= n * (s + 1)
  <2> SUFFICES ASSUME NEW n \in Nat, NEW g \in Nat, NEW s \in Nat, NEW b \in Nat, NEW m \in Nat,
                      g <= s, b <= n, m <= n * g
               PROVE  b + m <= n * (s + 1)
    OBVIOUS
  <2>1. n * g <= n * s
    OBVIOUS
  <2>2. n * (s + 1) = n * s + n
    OBVIOUS
  <2>3. n * s \in Nat /\ n * g \in Nat
    OBVIOUS
  <2> QED  BY <2>1, <2>2, <2>3
<1>9. Cardinality(B) + Cardinality(M) <= P * (CACHE_SECONDS + 1)
  BY <1>1, <1>2, <1>3, <1>4, <1>6, <1>8
<1>10. Most = P * (CACHE_SECONDS + 1) /\ Most \in Nat
  BY MostIs DEF Most, P
<1> QED  BY <1>3, <1>6, <1>7, <1>9, <1>10

LEMMA CallsLeftAreFew ==
  ASSUME cache.at \in Nat
  PROVE  IsFiniteSet(CallsLeft) /\ Exposure \in Nat /\ Exposure <= Most
<1> DEFINE began == [w \in Asking |-> thinking[w].since]
           B == {d \in Pieces \X Nat : Begun(d[1][1], d[1][2], d[2])}
           M == {d \in CallsLeft : MayBegin(d[1][1], d[2])}
<1>1. GoodFor \in {{}, cache.at .. cache.at + CACHE_SECONDS - 1}
  BY DEF GoodFor
<1>2. \A d \in B : d[1] \in Pieces /\ d = <<d[1], began[d[1][1]]>>
  BY DEF Begun, Pieces
<1>3. M \in SUBSET (Pieces \X GoodFor)
  BY DEF CallsLeft, MayBegin
<1>4. CallsLeft = B \union M
  BY DEF CallsLeft
<1> HIDE DEF B, M, began
<1>5. /\ IsFiniteSet(B \union M) /\ Cardinality(B \union M) \in Nat
      /\ Cardinality(B \union M) <= Most
  BY <1>1, <1>2, <1>3, PiecesAreFew
<1> QED  BY <1>4, <1>5 DEF Exposure

\* A step that records nothing late and lets nothing more begin.
LEMMA ExposureShrinks ==
  ASSUME SpendingInv, CallsLeft' \subseteq CallsLeft, ledger'.late \in Nat, ledger'.late <= ledger.late
  PROVE  OvershootIsLeft'
<1> USE SpendingTyped, DearestIs, MostIs
<1>1. IsFiniteSet(CallsLeft) /\ Exposure \in Nat
  BY CallsLeftAreFew
<1>2. Exposure' \in Nat /\ Exposure' <= Exposure
  BY <1>1, FS_Subset, FS_CardinalityType DEF Exposure
<1>3. Dearest * Exposure' \in Nat /\ Dearest * Exposure \in Nat /\ Dearest * Exposure' <= Dearest * Exposure
  BY <1>1, <1>2, Scales
<1>4. ledger.late + Dearest * Exposure <= Dearest * Most /\ ledger.late \in Nat /\ Dearest * Most \in Nat
  BY Scales DEF SpendingInv, OvershootIsLeft
<1>5. (Dearest * Most)' = Dearest * Most
  BY DEF Most, Dearest
<1> DEFINE was == Dearest * Exposure
           is == Dearest * Exposure'
           all == Dearest * Most
<1>6. /\ was \in Nat /\ is \in Nat /\ all \in Nat /\ is <= was
      /\ ledger.late + was <= all /\ ledger.late \in Nat
  BY <1>3, <1>4
<1> HIDE DEF was, is, all
<1>7. ledger'.late + is <= all
  BY ONLY <1>6, ledger'.late \in Nat, ledger'.late <= ledger.late
<1> QED  BY <1>5, <1>7 DEF OvershootIsLeft, is, all

\* A step that leaves what asks as it is.
LEMMA OthersThink ==
  ASSUME \A v \in Asking : thinking'[v] = thinking[v], UNCHANGED <<moment, cache>>
  PROVE  CallsLeft' = CallsLeft /\ (WorkIsPast => WorkIsPast')
<1>1. \A w \in Asking : \A k, s : Begun(w, k, s)' = Begun(w, k, s) /\ MayBegin(w, s)' = MayBegin(w, s)
  BY DEF Begun, MayBegin, GoodFor
<1>2. CallsLeft' = CallsLeft
  BY <1>1 DEF CallsLeft, Pieces
<1> QED  BY <1>2 DEF WorkIsPast

LEMMA SpendingStart ==
  ASSUME SpendingInit  PROVE SpendingInv
<1> USE SpendingAssumption
<1>1. ledger.late = 0 /\ ledger \in [cost : Nat, late : Nat, unpriced : 0 .. 1]
  BY DEF SpendingInit, NothingSpent
<1>2. /\ thinking \in [Thinkers -> [on : BOOLEAN, since : 0 .. MaxMoment, made : 0 .. MAX_CALLS]]
      /\ cache \in [at : 0 .. MaxMoment, known : BOOLEAN, allowed : BOOLEAN]
      /\ \A w \in Thinkers : ~ thinking[w].on
      /\ ~ cache.known /\ cache.at = 0 /\ moment = 0 /\ moment \in 0 .. MaxMoment
  BY DEF SpendingInit, NoAnswer, NotThinking
<1>3. table \in PriceTable /\ loaded = table
  BY DEF SpendingInit, PriceTable
<1>4. DOMAIN table \subseteq Models /\ DOMAIN loaded \subseteq Models
  BY <1>3 DEF PriceTable
<1>5. SpendingTypeOK
  BY <1>1, <1>2, <1>4 DEF SpendingTypeOK
<1>6. Exposure = 0
  <2>1. \A w \in Asking : ~ thinking[w].on
    BY <1>2 DEF Asking
  <2>2. CallsLeft = {}
    BY <1>2, <2>1 DEF CallsLeft, Pieces, Begun, MayBegin, GoodFor
  <2> QED  BY <2>2, FS_EmptySet DEF Exposure
<1>7. OvershootIsLeft
  <2>1. Dearest * Exposure = 0 /\ Dearest * Most \in Nat
    BY <1>6, DearestIs, MostIs, Scales
  <2> QED  BY <1>1, <2>1 DEF OvershootIsLeft
<1>8. CacheIsPast /\ WorkIsPast
  BY <1>2 DEF CacheIsPast, WorkIsPast, Asking
<1> QED  BY <1>1, <1>3, <1>5, <1>7, <1>8 DEF SpendingInv

LEMMA SecondPassesStep ==
  ASSUME SpendingInv, SecondPasses  PROVE SpendingInv'
<1> USE SpendingTyped
<1>1. moment' = moment + 1 /\ moment < MaxMoment /\ UNCHANGED <<thinking, cache, table, loaded, restarts>>
  BY DEF SecondPasses
<1>2. ledger' = ledger \/ ledger' = NothingSpent
  BY DEF SecondPasses
<1>3. /\ ledger' \in [cost : Nat, late : Nat, unpriced : 0 .. 1] /\ ledger'.late <= ledger.late
      /\ Within' => ledger'.late = 0
  <2>1. CASE ledger' = ledger
    BY <2>1 DEF SpendingInv, Within
  <2>2. CASE ledger' = NothingSpent
    BY <2>2 DEF NothingSpent
  <2> QED  BY <1>2, <2>1, <2>2
<1>4. SpendingTypeOK'
  BY <1>1, <1>3 DEF SpendingInv, SpendingTypeOK
<1>5. CallsLeft' \subseteq CallsLeft
  <2>1. GoodFor' = GoodFor /\ GoodFor \subseteq Int
    BY <1>1 DEF GoodFor
  <2>2. \A w \in Asking : \A k, s : Begun(w, k, s)' = Begun(w, k, s)
    BY <1>1 DEF Begun
  <2>3. ASSUME NEW w \in Asking, NEW s, MayBegin(w, s)' PROVE MayBegin(w, s)
    BY <1>1, <2>1, <2>3 DEF MayBegin
  <2> QED  BY <2>2, <2>3 DEF CallsLeft, Pieces
<1>6. OvershootIsLeft'
  BY <1>3, <1>5, ExposureShrinks
<1>7. CacheIsPast' /\ WorkIsPast'
  BY <1>1 DEF SpendingInv, CacheIsPast, WorkIsPast
<1> QED  BY <1>1, <1>3, <1>4, <1>6, <1>7 DEF SpendingInv

LEMMA PricesStep ==
  ASSUME SpendingInv,
         \E m \in Models : RemovePrice(m) \/ \E rate \in Rates : SetPrice(m, rate)
  PROVE  SpendingInv'
<1> USE SpendingTyped
<1>1. UNCHANGED <<moment, ledger, thinking, cache, loaded, restarts>>
  BY DEF RemovePrice, SetPrice
<1>2. table' \in PriceTable /\ DOMAIN table' \subseteq Models
  <2>1. DOMAIN table \subseteq Models /\ \A m \in DOMAIN table : table[m] \in Rates
    BY DEF SpendingInv, PriceTable
  <2>2. ASSUME NEW m \in Models, RemovePrice(m) PROVE table' \in PriceTable /\ DOMAIN table' \subseteq Models
    <3>1. table' = [n \in DOMAIN table \ {m} |-> table[n]]
      BY <2>2 DEF RemovePrice
    <3>2. table' \in [DOMAIN table \ {m} -> Rates] /\ DOMAIN table \ {m} \in SUBSET Models
      BY <2>1, <3>1
    <3> QED  BY <3>1, <3>2 DEF PriceTable
  <2>3. ASSUME NEW m \in Models, NEW rate \in Rates, SetPrice(m, rate)
        PROVE  table' \in PriceTable /\ DOMAIN table' \subseteq Models
    <3>1. table' = [n \in DOMAIN table \union {m} |-> IF n = m THEN rate ELSE table[n]]
      BY <2>3 DEF SetPrice
    <3>2. table' \in [DOMAIN table \union {m} -> Rates] /\ DOMAIN table \union {m} \in SUBSET Models
      BY <2>1, <3>1
    <3> QED  BY <3>1, <3>2 DEF PriceTable
  <2> QED  BY <2>2, <2>3
<1>3. SpendingTypeOK'
  BY <1>1, <1>2 DEF SpendingInv, SpendingTypeOK
<1>4. CallsLeft' = CallsLeft /\ WorkIsPast'
  BY <1>1, OthersThink DEF SpendingInv
<1>5. OvershootIsLeft'
  BY <1>1, <1>4, ExposureShrinks
<1> QED  BY <1>1, <1>2, <1>3, <1>4, <1>5 DEF SpendingInv, CacheIsPast, Within

LEMMA RestartServerStep ==
  ASSUME SpendingInv, RestartServer  PROVE SpendingInv'
<1> USE SpendingTyped
<1>1. /\ UNCHANGED <<moment, ledger, table>> /\ loaded' = table /\ cache' = NoAnswer
      /\ thinking' = [w \in Thinkers |-> NotThinking]
  BY DEF RestartServer
<1>2. thinking' \in [Thinkers -> [on : BOOLEAN, since : 0 .. MaxMoment, made : 0 .. MAX_CALLS]]
  BY <1>1 DEF NotThinking
<1>3. SpendingTypeOK'
  BY <1>1, <1>2 DEF SpendingInv, SpendingTypeOK, NoAnswer
<1>4. \A w \in Asking : ~ thinking'[w].on
  BY <1>1 DEF NotThinking
<1>5. CallsLeft' \subseteq CallsLeft
  BY <1>1, <1>4 DEF CallsLeft, Pieces, Begun, MayBegin, GoodFor, NoAnswer
<1>6. OvershootIsLeft'
  BY <1>1, <1>5, ExposureShrinks
<1>7. CacheIsPast' /\ WorkIsPast'
  BY <1>1, <1>4 DEF NoAnswer, CacheIsPast, WorkIsPast
<1> QED  BY <1>1, <1>3, <1>6, <1>7 DEF SpendingInv, Within

\* Work that is over at the moment it began may begin once more in it.
LEMMA StopThinkingStep ==
  ASSUME SpendingInv, NEW w \in Thinkers, StopThinking(w)  PROVE SpendingInv'
<1> USE SpendingTyped
<1>1. /\ thinking[w].on /\ UNCHANGED <<moment, ledger, cache, table, loaded, restarts>>
      /\ thinking' = [thinking EXCEPT ![w] = NotThinking]
  BY DEF StopThinking
<1>2. /\ NotThinking \in [on : BOOLEAN, since : 0 .. MaxMoment, made : 0 .. MAX_CALLS]
      /\ ~ NotThinking.on
  BY DEF NotThinking
<1>3. /\ thinking' \in [Thinkers -> [on : BOOLEAN, since : 0 .. MaxMoment, made : 0 .. MAX_CALLS]]
      /\ ~ thinking'[w].on /\ \A v \in Thinkers : v # w => thinking'[v] = thinking[v]
  BY <1>1, <1>2
<1>4. SpendingTypeOK'
  BY <1>1, <1>3 DEF SpendingInv, SpendingTypeOK
<1>5. CallsLeft' \subseteq CallsLeft
  <2> SUFFICES ASSUME NEW v \in Asking, NEW k \in 1 .. MAX_CALLS, NEW s \in Nat,
                      Begun(v, k, s)' \/ MayBegin(v, s)'
               PROVE  Begun(v, k, s) \/ MayBegin(v, s)
    BY DEF CallsLeft, Pieces
  <2>1. GoodFor' = GoodFor
    BY <1>1 DEF GoodFor
  <2>2. CASE v # w
    BY <1>1, <1>3, <2>1, <2>2 DEF Begun, MayBegin
  <2>3. CASE v = w
    <3>1. s \in GoodFor /\ moment <= s
      BY <1>1, <1>3, <2>1, <2>3 DEF Begun, MayBegin
    <3>2. CASE thinking[w].since >= s
      <4>1. thinking[w].since <= moment /\ thinking[w].since \in Nat
        BY <1>1, <2>3 DEF SpendingInv, WorkIsPast
      <4>2. thinking[w].since = moment /\ s = moment
        BY <3>1, <3>2, <4>1
      <4>3. thinking[w].made = 0
        BY <1>1, <2>3, <4>2 DEF SpendingInv, WorkIsPast
      <4> QED  BY <1>1, <2>3, <4>2, <4>3 DEF Begun
    <3>3. CASE ~ (thinking[w].since >= s)
      BY <2>3, <3>1, <3>3 DEF MayBegin
    <3> QED  BY <3>2, <3>3
  <2> QED  BY <2>2, <2>3
<1>6. OvershootIsLeft'
  BY <1>1, <1>5, ExposureShrinks
<1>7. CacheIsPast' /\ WorkIsPast'
  BY <1>1, <1>3 DEF SpendingInv, CacheIsPast, WorkIsPast
<1> QED  BY <1>1, <1>4, <1>6, <1>7 DEF SpendingInv, Within

LEMMA GoAheadStep ==
  ASSUME SpendingInv, NEW w \in Thinkers, GoAhead(w)  PROVE SpendingInv'
<1> USE SpendingTyped
<1> DEFINE busyNow == [on |-> TRUE, since |-> moment, made |-> 0]
<1>1. w \in Unasked /\ UNCHANGED <<moment, ledger, cache, table, loaded, restarts>>
  BY DEF GoAhead
<1>2. busyNow \in [on : BOOLEAN, since : 0 .. MaxMoment, made : 0 .. MAX_CALLS]
  OBVIOUS
<1>3. thinking' = [thinking EXCEPT ![w] = busyNow]
  BY DEF GoAhead, BeginThinking
<1> HIDE DEF busyNow
<1>4. /\ thinking' \in [Thinkers -> [on : BOOLEAN, since : 0 .. MaxMoment, made : 0 .. MAX_CALLS]]
      /\ \A v \in Asking : thinking'[v] = thinking[v]
  BY <1>1, <1>2, <1>3 DEF Asking
<1>5. SpendingTypeOK'
  BY <1>1, <1>4 DEF SpendingInv, SpendingTypeOK
<1>6. CallsLeft' = CallsLeft /\ WorkIsPast'
  BY <1>1, <1>4, OthersThink DEF SpendingInv
<1>7. OvershootIsLeft'
  BY <1>1, <1>6, ExposureShrinks
<1> QED  BY <1>1, <1>5, <1>6, <1>7 DEF SpendingInv, CacheIsPast, Within

\* What a row adds.
LEMMA RowAddedIs ==
  ASSUME SpendingInv, NEW w \in Thinkers, NEW call \in CallSizes,
         ledger' \in {ledger, RowAdded(w, call)}
  PROVE  /\ ledger' \in [cost : Nat, late : Nat, unpriced : 0 .. 1]
         /\ ledger.cost <= ledger'.cost
         /\ ledger'.late <= ledger.late + Dearest
         /\ w \notin Asking \/ Within => ledger'.late = ledger.late
         /\ Within' => ledger'.late = 0
<1> USE SpendingTyped
<1>1. /\ ledger' \in [cost : Nat, late : Nat, unpriced : 0 .. 1]
      /\ ledger.cost <= ledger'.cost
      /\ ledger'.late <= ledger.late + Dearest
      /\ w \notin Asking \/ Within => ledger'.late = ledger.late
  <2>1. CASE ledger' = ledger
    BY <2>1, DearestIs
  <2>2. CASE ~ HasCost(call, ModelOf[w]) /\ ledger' = RowAdded(w, call)
    <3>1. ledger' = [ledger EXCEPT !.unpriced = 1]
      BY <2>2 DEF RowAdded
    <3> QED  BY <3>1, DearestIs
  <2>3. CASE HasCost(call, ModelOf[w]) /\ ledger' = RowAdded(w, call)
    <3> DEFINE cost == CostOf(call, ModelOf[w])
               more == IF w \in Asking /\ ~Within THEN ledger.late + cost ELSE ledger.late
    <3>1. cost \in Nat /\ cost <= Dearest
      BY <2>3, CostIs DEF SpendingInv
    <3>2. ledger' = [ledger EXCEPT !.cost = ledger.cost + cost, !.late = more]
      BY <2>3 DEF RowAdded
    <3> HIDE DEF cost
    <3>3. /\ more \in Nat /\ more <= ledger.late + Dearest
          /\ w \notin Asking \/ Within => more = ledger.late
      <4>1. CASE w \in Asking /\ ~Within
        BY <3>1, <4>1, DearestIs
      <4>2. CASE ~ (w \in Asking /\ ~Within)
        BY <4>2, DearestIs
      <4> QED  BY <4>1, <4>2
    <3> HIDE DEF more
    <3>4. /\ ledger' \in [cost : Nat, late : Nat, unpriced : 0 .. 1]
          /\ ledger'.cost = ledger.cost + cost /\ ledger'.late = more
      <4>1. ledger.cost + cost \in Nat
        BY <3>1
      <4> DEFINE sum == ledger.cost + cost
      <4>2. sum \in Nat /\ ledger' = [ledger EXCEPT !.cost = sum, !.late = more]
        BY <3>2, <4>1
      <4> HIDE DEF sum
      <4>3. /\ ledger' \in [cost : Nat, late : Nat, unpriced : 0 .. 1]
            /\ ledger'.cost = sum /\ ledger'.late = more
        BY <3>3, <4>2
      <4> QED  BY <4>3 DEF sum
    <3>5. ledger.cost <= ledger.cost + cost
      BY <3>1
    <3> QED  BY <3>3, <3>4, <3>5
  <2> QED  BY <2>1, <2>2, <2>3
<1>2. Within' => Within
  BY <1>1 DEF Within
<1> QED  BY <1>1, <1>2 DEF SpendingInv

LEMMA RecordUsageStep ==
  ASSUME SpendingInv, NEW w \in Thinkers, NEW call \in CallSizes, RecordUsage(w, call)
  PROVE  SpendingInv'
<1> USE SpendingTyped
<1>1. /\ thinking[w].on /\ thinking[w].since < moment
      /\ UNCHANGED <<moment, cache, table, loaded, restarts>>
  BY DEF RecordUsage
<1>2. /\ ledger' \in [cost : Nat, late : Nat, unpriced : 0 .. 1]
      /\ ledger.cost <= ledger'.cost /\ ledger'.late <= ledger.late + Dearest
      /\ w \notin Asking \/ Within => ledger'.late = ledger.late
      /\ Within' => ledger'.late = 0
  <2>1. ledger' \in {ledger, RowAdded(w, call)}
    BY DEF RecordUsage
  <2> QED  BY <2>1, RowAddedIs
<1>3. CASE w \notin Asking
  <2>1. thinking' = [thinking EXCEPT ![w].since = moment]
    BY <1>3 DEF RecordUsage
  <2>2. /\ thinking' \in [Thinkers -> [on : BOOLEAN, since : 0 .. MaxMoment, made : 0 .. MAX_CALLS]]
        /\ \A v \in Asking : thinking'[v] = thinking[v]
    BY <1>3, <2>1
  <2>3. SpendingTypeOK'
    BY <1>1, <1>2, <2>2 DEF SpendingInv, SpendingTypeOK
  <2>4. CallsLeft' = CallsLeft /\ WorkIsPast'
    BY <1>1, <2>2, OthersThink DEF SpendingInv
  <2>5. OvershootIsLeft'
    BY <1>2, <1>3, <2>4, ExposureShrinks
  <2> QED  BY <1>1, <1>2, <2>3, <2>4, <2>5 DEF SpendingInv, CacheIsPast
<1>4. CASE w \in Asking
  <2> DEFINE n == thinking[w].made + 1
             row == [thinking[w] EXCEPT !.made = n]
             piece == <<<<w, n>>, thinking[w].since>>
  <2>1. n \in 1 .. MAX_CALLS /\ thinking' = [thinking EXCEPT ![w] = row]
    BY <1>4 DEF RecordUsage
  <2>2. /\ row \in [on : BOOLEAN, since : 0 .. MaxMoment, made : 0 .. MAX_CALLS]
        /\ row.on = thinking[w].on /\ row.since = thinking[w].since /\ row.made = n
    BY <2>1
  <2> HIDE DEF row, n
  <2>3. /\ thinking' \in [Thinkers -> [on : BOOLEAN, since : 0 .. MaxMoment, made : 0 .. MAX_CALLS]]
        /\ thinking'[w] = row /\ \A v \in Thinkers : v # w => thinking'[v] = thinking[v]
    BY <2>1, <2>2
  <2>4. SpendingTypeOK'
    BY <1>1, <1>2, <2>3 DEF SpendingInv, SpendingTypeOK
  <2>5. CacheIsPast' /\ WorkIsPast'
    BY <1>1, <2>2, <2>3 DEF SpendingInv, CacheIsPast, WorkIsPast
  <2>6. piece \in CallsLeft
    <3>1. <<w, n>> \in Pieces /\ thinking[w].since \in Nat
      BY <1>4, <2>1 DEF Pieces
    <3>2. Begun(w, n, thinking[w].since)
      BY <1>1 DEF Begun, n
    <3> QED  BY <3>1, <3>2 DEF CallsLeft
  <2>7. CallsLeft' \subseteq CallsLeft \ {piece}
    <3> SUFFICES ASSUME NEW v \in Asking, NEW k \in 1 .. MAX_CALLS, NEW s \in Nat,
                        Begun(v, k, s)' \/ MayBegin(v, s)'
                 PROVE  /\ Begun(v, k, s) \/ MayBegin(v, s)
                        /\ <<<<v, k>>, s>> # piece
      BY DEF CallsLeft, Pieces
    <3>1. MayBegin(v, s)' <=> MayBegin(v, s)
      <4>1. thinking'[v].on = thinking[v].on /\ thinking'[v].since = thinking[v].since
        BY <2>2, <2>3
      <4> QED  BY <1>1, <4>1 DEF MayBegin, GoodFor
    <3>2. Begun(v, k, s)' => Begun(v, k, s) /\ (v = w => n < k)
      <4>1. thinking'[v].on = thinking[v].on /\ thinking'[v].since = thinking[v].since
        BY <2>2, <2>3
      <4>2. thinking[v].made <= thinking'[v].made
        BY <2>2, <2>3 DEF n
      <4>3. v = w => thinking'[v].made = n
        BY <2>2, <2>3
      <4>4. thinking[v].made \in Nat /\ thinking'[v].made \in Nat /\ k \in Nat
        BY <2>3
      <4> QED  BY <4>1, <4>2, <4>3, <4>4 DEF Begun
    <3>3. MayBegin(v, s) /\ v = w => s # thinking[w].since
      BY <1>1 DEF MayBegin
    <3>4. CASE <<<<v, k>>, s>> = piece
      <4>1. v = w /\ k = n /\ s = thinking[w].since
        BY <3>4
      <4>2. n \in Nat
        BY <2>1
      <4> QED  BY <3>1, <3>2, <3>3, <4>1, <4>2
    <3> QED  BY <3>1, <3>2, <3>4
  <2> HIDE DEF piece
  <2>8. Exposure \in Nat /\ Exposure' \in Nat /\ Exposure' + 1 <= Exposure
    <3> DEFINE rest == CallsLeft \ {piece}
    <3>1. IsFiniteSet(CallsLeft) /\ Exposure \in Nat
      BY CallsLeftAreFew
    <3>2. IsFiniteSet(rest) /\ Cardinality(rest) = Exposure - 1
      BY <2>6, <3>1, FS_RemoveElement DEF Exposure
    <3>3. CallsLeft' \in SUBSET rest
      BY <2>7
    <3> HIDE DEF rest
    <3>4. IsFiniteSet(CallsLeft') /\ Cardinality(CallsLeft') <= Cardinality(rest)
      BY <3>2, <3>3, FS_Subset
    <3>5. Cardinality(CallsLeft') \in Nat
      BY <3>4, FS_CardinalityType
    <3> QED  BY <3>1, <3>2, <3>4, <3>5 DEF Exposure
  <2>9. OvershootIsLeft'
    <3> DEFINE was == Dearest * Exposure
               is == Dearest * Exposure'
               all == Dearest * Most
    <3>1. was \in Nat /\ is \in Nat /\ all \in Nat
      <4>1. \A d, m \in Nat : d * m \in Nat
        OBVIOUS
      <4> QED  BY <2>8, <4>1, DearestIs, MostIs
    <3>2. is + Dearest <= was
      <4>1. \A d, m \in Nat : d * (m + 1) = d * m + d
        OBVIOUS
      <4>2. Dearest * (Exposure' + 1) = is + Dearest
        <5> HIDE DEF is
        <5> QED  BY <2>8, <4>1, DearestIs DEF is
      <4>3. Exposure' + 1 \in Nat
        <5>1. \A m \in Nat : m + 1 \in Nat
          OBVIOUS
        <5> QED  BY ONLY <2>8, <5>1
      <4>4. Dearest * (Exposure' + 1) <= was
        BY <2>8, <4>3, DearestIs, Scales
      <4> QED  BY <4>2, <4>4
    <3>3. ledger.late + was <= all /\ ledger.late \in Nat /\ ledger'.late \in Nat /\ Dearest \in Nat
      BY <1>2, DearestIs DEF SpendingInv, OvershootIsLeft
    <3> HIDE DEF was, is, all
    <3>4. ledger'.late + is <= all
      BY <1>2, <3>1, <3>2, <3>3
    <3>5. (Dearest * Most)' = all
      BY DEF Most, Dearest, all
    <3> QED  BY <3>4, <3>5 DEF OvershootIsLeft, is
  <2> QED  BY <1>1, <1>2, <2>4, <2>5, <2>9 DEF SpendingInv
<1> QED  BY <1>3, <1>4

LEMMA AskGateStep ==
  ASSUME SpendingInv, NEW w \in Thinkers, AskGate(w)  PROVE SpendingInv'
<1> USE SpendingTyped
<1> DEFINE busyNow == [on |-> TRUE, since |-> moment, made |-> 0]
<1>1. /\ ~ thinking[w].on /\ cache' = State /\ w \notin Unasked
      /\ UNCHANGED <<moment, ledger, table, loaded, restarts>>
  BY DEF AskGate
<1>2. /\ Answer \in [at : 0 .. MaxMoment, known : BOOLEAN, allowed : BOOLEAN]
      /\ Answer.at = moment
      /\ Answer.allowed => Within
  BY DEF Answer
<1>3. cache' \in [at : 0 .. MaxMoment, known : BOOLEAN, allowed : BOOLEAN]
  BY <1>1, <1>2 DEF State
<1>4. /\ busyNow \in [on : BOOLEAN, since : 0 .. MaxMoment, made : 0 .. MAX_CALLS]
      /\ busyNow.on /\ busyNow.since = moment /\ busyNow.made = 0
  OBVIOUS
<1>5. thinking' = IF State.allowed THEN [thinking EXCEPT ![w] = busyNow] ELSE thinking
  BY DEF AskGate, BeginThinking
<1> HIDE DEF busyNow
<1>6. /\ thinking' \in [Thinkers -> [on : BOOLEAN, since : 0 .. MaxMoment, made : 0 .. MAX_CALLS]]
      /\ \A v \in Thinkers : v # w => thinking'[v] = thinking[v]
  BY <1>4, <1>5
<1>7. SpendingTypeOK'
  BY <1>1, <1>3, <1>6 DEF SpendingInv, SpendingTypeOK
<1>8. CacheIsPast'
  BY <1>1, <1>2 DEF SpendingInv, CacheIsPast, State
<1>9. WorkIsPast'
  <2> SUFFICES ASSUME NEW v \in Asking, thinking'[v].on
               PROVE  /\ thinking'[v].since <= moment
                      /\ thinking'[v].since = moment => thinking'[v].made = 0
    BY <1>1 DEF WorkIsPast
  <2>1. CASE thinking'[v] = thinking[v]
    BY <2>1 DEF SpendingInv, WorkIsPast
  <2>2. CASE thinking'[v] # thinking[v]
    BY <1>4, <1>5, <2>2
  <2> QED  BY <2>1, <2>2
<1>10. Within' => ledger'.late = 0
  BY <1>1 DEF SpendingInv, Within
<1>11. CASE Current \/ ~ State.allowed
  <2>1. CallsLeft' \subseteq CallsLeft
    <3> SUFFICES ASSUME NEW v \in Asking, NEW k \in 1 .. MAX_CALLS, NEW s \in Nat,
                        Begun(v, k, s)' \/ MayBegin(v, s)'
                 PROVE  Begun(v, k, s) \/ MayBegin(v, s)
      BY DEF CallsLeft, Pieces
    <3>1. GoodFor' \subseteq GoodFor
      <4>1. CASE Current
        BY <1>1, <4>1 DEF State, GoodFor
      <4>2. CASE ~ State.allowed
        BY <1>1, <4>2 DEF GoodFor
      <4> QED  BY <1>11, <4>1, <4>2
    <3>2. CASE thinking'[v] = thinking[v]
      BY <1>1, <3>1, <3>2 DEF Begun, MayBegin
    <3>3. CASE thinking'[v] # thinking[v]
      <4>1. v = w /\ State.allowed /\ thinking'[v] = busyNow
        BY <1>5, <1>6, <3>3
      <4>2. Current /\ cache.known /\ cache.allowed /\ moment - cache.at < CACHE_SECONDS
        BY <1>11, <4>1 DEF State, Current
      <4>3. moment \in GoodFor
        BY <4>2 DEF GoodFor, SpendingInv, CacheIsPast
      <4>4. MayBegin(v, moment)
        BY <1>1, <4>1, <4>3 DEF MayBegin
      <4>5. CASE Begun(v, k, s)'
        <5>1. s = moment
          BY <1>4, <4>1, <4>5 DEF Begun
        <5> QED  BY <4>4, <5>1
      <4>6. CASE MayBegin(v, s)'
        BY <1>1, <3>1, <4>1, <4>6 DEF MayBegin
      <4> QED  BY <4>5, <4>6
    <3> QED  BY <3>2, <3>3
  <2>2. OvershootIsLeft'
    BY <1>1, <2>1, ExposureShrinks
  <2> QED  BY <1>1, <1>7, <1>8, <1>9, <1>10, <2>2 DEF SpendingInv
<1>12. CASE ~ Current /\ State.allowed
  <2>1. Within
    BY <1>2, <1>12 DEF State
  <2>2. ledger'.late = 0
    BY <1>1, <2>1 DEF SpendingInv
  <2>3. Exposure' \in Nat /\ Exposure' <= Most
    <3> DEFINE began == [v \in Asking |-> thinking'[v].since]
               B == {d \in Pieces \X Nat : Begun(d[1][1], d[1][2], d[2])'}
               M == {d \in CallsLeft' : MayBegin(d[1][1], d[2])'}
    <3>1. cache'.at \in Nat /\ GoodFor' \in {{}, cache'.at .. cache'.at + CACHE_SECONDS - 1}
      BY <1>3 DEF GoodFor
    <3>2. \A d \in B : d[1] \in Pieces /\ d = <<d[1], began[d[1][1]]>>
      BY DEF Begun, Pieces
    <3>3. M \in SUBSET (Pieces \X GoodFor')
      BY DEF CallsLeft, MayBegin, Pieces
    <3>4. CallsLeft' = B \union M
      BY DEF CallsLeft, Pieces
    <3> HIDE DEF B, M, began
    <3>5. Cardinality(B \union M) \in Nat /\ Cardinality(B \union M) <= Most
      BY <3>1, <3>2, <3>3, PiecesAreFew
    <3> QED  BY <3>4, <3>5 DEF Exposure
  <2>4. OvershootIsLeft'
    <3>1. /\ Dearest * Exposure' \in Nat /\ Dearest * Exposure' <= Dearest * Most
      BY <2>3, DearestIs, MostIs, Scales
    <3>2. (Dearest * Most)' = Dearest * Most
      BY DEF Most, Dearest
    <3> QED  BY <2>2, <3>1, <3>2 DEF OvershootIsLeft
  <2> QED  BY <1>1, <1>7, <1>8, <1>9, <1>10, <2>4 DEF SpendingInv
<1> QED  BY <1>11, <1>12

LEMMA SpendingStep ==
  ASSUME SpendingInv, SpendingNext \/ UNCHANGED spendingVars  PROVE SpendingInv'
<1>1. CASE UNCHANGED spendingVars
  <2>1. UNCHANGED <<moment, ledger, thinking, cache, table, loaded>>
    BY <1>1 DEF spendingVars
  <2>2. CallsLeft' = CallsLeft /\ WorkIsPast'
    BY <2>1, OthersThink DEF SpendingInv
  <2>3. OvershootIsLeft'
    BY <2>1, <2>2, SpendingTyped, ExposureShrinks
  <2> QED  BY <2>1, <2>2, <2>3 DEF SpendingInv, SpendingTypeOK, CacheIsPast, Within
<1>2. CASE SpendingNext
  BY <1>2, AskGateStep, GoAheadStep, StopThinkingStep, RecordUsageStep, SecondPassesStep, PricesStep,
     RestartServerStep DEF SpendingNext
<1> QED  BY <1>1, <1>2

LEMMA SpendingShows ==
  ASSUME SpendingInv  PROVE SpendingTypeOK /\ SpendingIsSound
<1> USE SpendingTyped
<1>1. OvershootIsBounded
  <2>1. Exposure \in Nat
    BY CallsLeftAreFew
  <2>2. Dearest * Exposure \in Nat /\ Dearest * Most \in Nat
    BY <2>1, DearestIs, MostIs, Scales
  <2>3. ledger.late <= Dearest * Most
    BY <2>2 DEF SpendingInv, OvershootIsLeft
  <2> QED  BY <2>3 DEF OvershootIsBounded, Most
<1>2. TokensAreChargedOnce
  <2> SUFFICES ASSUME NEW call \in CallSizes, call.audio <= call.input
               PROVE  PriceOf(call, [input |-> 1, cached |-> 1, audio |-> 1, output |-> 1])
                        = call.input + call.output
    BY DEF TokensAreChargedOnce
  <2>1. /\ call.input \in Nat /\ call.cached \in Nat /\ call.audio \in Nat /\ call.output \in Nat
    BY SpendingAssumption
  <2> QED  BY <2>1 DEF PriceOf, TokensOf, AtLeastZero, AtMost
<1> QED  BY <1>1, <1>2 DEF SpendingInv, SpendingIsSound

=============================================================================
