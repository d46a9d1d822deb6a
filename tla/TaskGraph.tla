------------------------------ MODULE TaskGraph ------------------------------
(***************************************************************************)
(* Projects, tasks, the graph of what depends on what, and follow-ups.     *)
(* Every operation is one transaction that holds the write lock (BEGIN     *)
(* IMMEDIATE), so each is one action; one that the code refuses changes    *)
(* nothing.                                                                *)
(***************************************************************************)
EXTENDS Integers, FiniteSets

CONSTANTS Tasks, Projects, Followups,
          Updatable    \* the statuses task_update is asked to set

NoProject == "no project"
CLOSED_STATUSES == {"completed", "cancelled"}
READY_STATUSES == {"todo", "scheduled"}
Statuses == CLOSED_STATUSES \union {"todo", "scheduled", "in_progress", "blocked", "waiting"}

ASSUME TaskGraphAssumption ==
  /\ NoProject \notin Projects /\ IsFiniteSet(Tasks)
  /\ Updatable \subseteq {"todo", "in_progress", "blocked", "waiting", "cancelled"}

VARIABLES
  task,       \* the status of each task, or "absent"
  inProject,  \* the project of each task
  edge,       \* task_dependencies: <<task, prerequisite>>
  project,    \* "absent", "planned", or "started", which is every other status
  followup    \* the status of each follow-up, or "absent", and its task

graphVars == <<task, inProject, edge, project, followup>>

Exists == {t \in Tasks : task[t] # "absent"}
OpenTasks == {t \in Exists : task[t] \notin CLOSED_STATUSES}
Prerequisites(t) == {p \in Tasks : <<t, p>> \in edge}
Dependents(p) == {t \in Tasks : <<t, p>> \in edge}

GraphTypeOK ==
  /\ task \in [Tasks -> Statuses \union {"absent"}]
  /\ inProject \in [Tasks -> Projects \union {NoProject}]
  /\ edge \subseteq Exists \X Exists
  /\ project \in [Projects -> {"absent", "planned", "started"}]
  /\ followup \in [Followups -> [status : {"absent", "pending", "completed", "cancelled"},
                                 of : Tasks]]

GraphInit ==
  /\ task = [t \in Tasks |-> "absent"] /\ inProject = [t \in Tasks |-> NoProject]
  /\ edge = {} /\ project = [p \in Projects |-> "absent"]
  /\ followup \in [Followups -> [status : {"absent"}, of : Tasks]]

-----------------------------------------------------------------------------
(* The graph.                                                              *)

Closed(E, S) == \A d \in E : d[1] \in S => d[2] \in S

\* depends_on_transitively: b is in every set that holds what a depends on and,
\* with a task, what that one depends on.
Reaches(E, a, b) ==
  \A S \in SUBSET Tasks :
    (Closed(E, S) /\ \A t \in Tasks : <<a, t>> \in E => t \in S) => b \in S

\* Mutant of MayDepend: only a direct cycle of two is looked for.
MayDependDirectly(E, t, p) == t # p /\ <<p, t>> \notin E

\* add_dependency_in refuses a task itself and what already depends on it.
MayDepend(E, t, p) == t # p /\ ~Reaches(E, p, t)

-----------------------------------------------------------------------------
(* Tasks.                                                                  *)

\* require_project.
ProjectExists(p) == p # NoProject => project[p] # "absent"

CreateTask(t, p) ==
  /\ t \notin Exists /\ ProjectExists(p)
  /\ task' = [task EXCEPT ![t] = "todo"] /\ inProject' = [inProject EXCEPT ![t] = p]
  /\ UNCHANGED <<edge, project, followup>>

\* create_project_with_tasks: the dependencies are added one by one and the
\* first that is refused takes everything back.
PlanProject(p, new, needs, status) ==
  /\ project[p] = "absent" /\ new # {} /\ new \cap Exists = {} /\ needs \subseteq new \X new
  /\ \A d \in needs : MayDepend(needs \ {d}, d[1], d[2])
  /\ project' = [project EXCEPT ![p] = status]
  /\ task' = [t \in Tasks |-> IF t \in new THEN "todo" ELSE task[t]]
  /\ inProject' = [t \in Tasks |-> IF t \in new THEN p ELSE inProject[t]]
  /\ edge' = edge \union needs
  /\ UNCHANGED followup

\* Mutant of CloseFollowups: they stay pending.
KeepFollowups(t, status) == followup' = followup

\* close_pending_for_task.
CloseFollowups(t, status) ==
  followup' = [f \in Followups |->
    IF followup[f].of = t /\ followup[f].status = "pending"
    THEN [followup[f] EXCEPT !.status = status] ELSE followup[f]]

\* update_task_in: a closed task cannot be changed; cancelling closes what is
\* pending for it.
UpdateTask(t, status) ==
  /\ t \in OpenTasks /\ status \in Updatable
  /\ task' = [task EXCEPT ![t] = status]
  /\ IF status = "cancelled" THEN CloseFollowups(t, "cancelled") ELSE UNCHANGED followup
  /\ UNCHANGED <<inProject, edge, project>>

\* complete_task.
CompleteTask(t) ==
  /\ t \in OpenTasks
  /\ task' = [task EXCEPT ![t] = "completed"] /\ CloseFollowups(t, "completed")
  /\ UNCHANGED <<inProject, edge, project>>

\* What it says of the tasks that waited: those whose last unfinished
\* prerequisite t was.
Unblocked(t) ==
  {d \in Dependents(t) \cap OpenTasks :
     \A p \in Prerequisites(d) : p = t \/ task[p] = "completed"}

\* The calendar's action sets it (module TaskCalendar).
ScheduleTask(t) ==
  /\ t \in Exists /\ task[t] = "todo" /\ task' = [task EXCEPT ![t] = "scheduled"]
  /\ UNCHANGED <<inProject, edge, project, followup>>

AddDependency(t, p) ==
  /\ {t, p} \subseteq Exists /\ MayDepend(edge, t, p)
  /\ edge' = edge \union {<<t, p>>}
  /\ UNCHANGED <<task, inProject, project, followup>>

RemoveDependency(t, p) ==
  /\ <<t, p>> \in edge /\ edge' = edge \ {<<t, p>>}
  /\ UNCHANGED <<task, inProject, project, followup>>

\* task_readiness.
WaitsFor(t) == {p \in Prerequisites(t) : task[p] # "completed"}
Ready(t) ==
  /\ task[t] \in READY_STATUSES /\ WaitsFor(t) = {}
  /\ inProject[t] # NoProject => project[inProject[t]] # "planned"

-----------------------------------------------------------------------------
(* Projects and follow-ups.                                                *)

CreateProject(p, status) ==
  /\ project[p] = "absent" /\ project' = [project EXCEPT ![p] = status]
  /\ UNCHANGED <<task, inProject, edge, followup>>

\* update_project sets any status, also back.
UpdateProject(p, status) ==
  /\ project[p] \notin {"absent", status} /\ project' = [project EXCEPT ![p] = status]
  /\ UNCHANGED <<task, inProject, edge, followup>>

\* create_followup_in asks that the task exists, not that it is open.
CreateFollowup(f) ==
  /\ followup[f].status = "absent" /\ followup[f].of \in Exists
  /\ followup' = [followup EXCEPT ![f].status = "pending"]
  /\ UNCHANGED <<task, inProject, edge, project>>

CompleteFollowup(f, status) ==
  /\ followup[f].status = "pending" /\ followup' = [followup EXCEPT ![f].status = status]
  /\ UNCHANGED <<task, inProject, edge, project>>

GraphNext ==
  \/ \E t \in Tasks : \/ CompleteTask(t) \/ ScheduleTask(t)
                      \/ \E p \in Projects \union {NoProject} : CreateTask(t, p)
                      \/ \E s \in Updatable : UpdateTask(t, s)
                      \/ \E p \in Tasks : AddDependency(t, p) \/ RemoveDependency(t, p)
  \/ \E p \in Projects, s \in {"planned", "started"} :
       CreateProject(p, s) \/ UpdateProject(p, s)
  \/ \E p \in Projects, new \in SUBSET (Tasks \ Exists) :
       \E needs \in SUBSET (new \X new), s \in {"planned", "started"} : PlanProject(p, new, needs, s)
  \/ \E f \in Followups : \/ CreateFollowup(f)
                          \/ \E s \in {"completed", "cancelled"} : CompleteFollowup(f, s)

GraphSpec == GraphInit /\ [][GraphNext]_graphVars

-----------------------------------------------------------------------------
(* Properties.                                                             *)

\* No task waits for itself, however many tasks are in between (add_dependency_in).
Acyclic == \A t \in Tasks : ~Reaches(edge, t, t)

\* Work can always go on: as long as nothing an open task depends on was given
\* up, some open task waits for no other.
WorkGoesOn ==
  (OpenTasks # {} /\ \A t \in OpenTasks : \A p \in Prerequisites(t) : task[p] # "cancelled")
    => \E t \in OpenTasks : WaitsFor(t) = {}

\* Completing a task says truly which tasks that opened: those that waited before
\* and wait for nothing after, and no follow-up is pending that was pending for it.
CompletionTellsTruth ==
  [][\A t \in Tasks :
       task[t] # "completed" /\ task'[t] = "completed" =>
         /\ Unblocked(t) = {d \in OpenTasks : WaitsFor(d) # {} /\ WaitsFor(d)' = {}}
         /\ \A f \in Followups : followup[f].of = t => followup'[f].status # "pending"]_graphVars
=============================================================================
