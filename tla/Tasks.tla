------------------------------- MODULE Tasks -------------------------------
(***************************************************************************)
(* Tasks with their subtasks, assignees, positions and archives: the HTTP  *)
(* handlers of TaskController over the rows TaskService writes, while      *)
(* people join and leave the group a task belongs to.                      *)
(***************************************************************************)
EXTENDS Requests, FiniteSets, Sequences, Functions

CONSTANTS
  Persons,
  Clients,      \* those who send requests
  OrgGroups,    \* the groups of an org; the other ones are personal
  Groups,
  OwnerOf,      \* the owner of the org, or the creator, of each group
  MaxTasks,     \* the largest id of the Task sequence
  MaxArchives,  \* the largest id of the ArchivedTasks sequence
  Null          \* no task

ASSUME TasksAssumption ==
  /\ Clients \subseteq Persons /\ OrgGroups \subseteq Groups
  /\ OwnerOf \in [Groups -> Persons]
  /\ MaxTasks \in Nat \ {0, 1} /\ MaxArchives \in Nat

VARIABLES
  groups,      \* the groups there are
  people,      \* pairs of a group and who is in it (OrgGroupMember), or in
               \* its org (OrgMember) when it has one
  tasks,       \* the rows of Task by id
  assigned,    \* the rows of TaskAsignee, pairs of a task and a member
  archives,    \* the rows of ArchivedTasks by id
  nextId,      \* the next ids of both sequences
  undisturbed  \* slots whose update is the only one to have changed
               \* assignees since it read them

rows == <<groups, people, tasks, assigned, archives, nextId>>
vars == <<rows, undisturbed, pending, scope>>

TaskIds    == 1..MaxTasks
ArchiveIds == 1..MaxArchives

Task == [ group : Groups, parent : TaskIds \union {Null},
          position : 0..MaxTasks ]

(* Faulty variant: a column filled with the value of another.              *)
NewTaskSwapped(g, parent) ==
  [group |-> parent, parent |-> g, position |-> 0]

NewTask(g, parent) == [group |-> g, parent |-> parent, position |-> 0]

ArchivedTask == [user : Persons, task : TaskIds, deleted : BOOLEAN]

TypeOK ==
  /\ groups \subseteq Groups
  /\ people \subseteq Groups \X Persons
  /\ DOMAIN tasks \subseteq TaskIds
  /\ \A t \in DOMAIN tasks : tasks[t] \in Task
  /\ assigned \subseteq TaskIds \X Persons
  /\ DOMAIN archives \subseteq ArchiveIds
  /\ \A r \in DOMAIN archives : archives[r] \in ArchivedTask
  /\ nextId \in [{"task", "archive"} -> Nat]
  /\ undisturbed \subseteq Slots

(* The tasks there are at the start, each but the first below another.     *)
AtFirst == 1 .. IF "move" \in scope THEN MaxTasks ELSE 2

(* One group in use with everybody in it.                                  *)
Init ==
  /\ NoRequests
  /\ \E g \in Groups :
       /\ groups = {g}
       /\ people = {g} \X Persons
       /\ tasks = [t \in AtFirst |-> NewTask(g, IF t = 1 THEN Null ELSE t - 1)]
  /\ assigned = {}
  /\ archives = [r \in {} |-> 0]
  /\ nextId = [q \in {"task", "archive"} |->
                 IF q = "task" THEN Cardinality(AtFirst) + 1 ELSE 1]
  /\ undisturbed = {}

Live(t) == t \in DOMAIN tasks

WithRow(table, id, row) ==
  [i \in DOMAIN table \union {id} |-> IF i = id THEN row ELSE table[i]]

(* A request that has nothing left to do.                                  *)
Done == Idle.call

Arrives(s, op, u, c) ==
  /\ op \in scope
  /\ Enter(s, u, c)
  /\ undisturbed' = undisturbed \ {s}
  /\ UNCHANGED rows

Go(s, ok, c) == IF c = Done THEN End(s) ELSE GoOnIf(s, ok, c)

Check(s, ok, c) == Go(s, ok, c) /\ UNCHANGED <<rows, undisturbed>>

-----------------------------------------------------------------------------
(***************************************************************************)
(* Who may work on the tasks of a group.                                   *)
(***************************************************************************)
(* The owner of an org, its members, the creator of a personal group and   *)
(* those in it.  A personal group lists its people with the group, those   *)
(* of an org are a read of their own.                                      *)
Permitted(u, c) ==
  /\ <<c.group, u>> \in people \/ OwnerOf[c.group] = u
  /\ {c.group} \X c.assignedTo \subseteq people

Permission(g, assignedTo, then) ==
  [do |-> "findGroup", group |-> g, assignedTo |-> assignedTo, then |-> then]

FindGroup(s, c) ==
  /\ c.do = "findGroup"
  /\ IF c.group \in OrgGroups
     THEN Check(s, c.group \in groups, [c EXCEPT !.do = "findMembers"])
     ELSE Check(s, c.group \in groups /\ Permitted(pending[s].by, c), c.then)

FindMembers(s, c) ==
  c.do = "findMembers" /\ Check(s, Permitted(pending[s].by, c), c.then)

-----------------------------------------------------------------------------
(***************************************************************************)
(* Creating a task.                                                        *)
(***************************************************************************)
AddAssignees(t, A, then) ==
  [do |-> "addAssignees", task |-> t, people |-> A, then |-> then]

createTask(s, u, g, A, parent) ==
  Arrives(s, "create", u,
    Permission(g, A, [ do |-> "findParent", group |-> g, assignedTo |-> A,
                       parent |-> parent ]))

(* A task without a parent is inserted at once, see FindParent.            *)
InsertTask(s, c) ==
  IF nextId["task"] > MaxTasks \/ c.group \notin groups
     \/ (c.parent # Null /\ ~Live(c.parent))
  THEN Check(s, FALSE, c)
  ELSE LET t == nextId["task"]
       IN  /\ tasks' = WithRow(tasks, t, NewTask(c.group, c.parent))
           /\ nextId' = [nextId EXCEPT !["task"] = t + 1]
           /\ Go(s, TRUE, IF c.assignedTo = {} THEN Done
                          ELSE AddAssignees(t, c.assignedTo, Done))
           /\ UNCHANGED <<groups, people, assigned, archives, undisturbed>>

FindParent(s, c) ==
  /\ c.do = "findParent"
  /\ IF c.parent = Null THEN InsertTask(s, c)
     ELSE Check(s, Live(c.parent), [c EXCEPT !.do = "insertTask"])

InsertSubtask(s, c) == c.do = "insertTask" /\ InsertTask(s, c)

-----------------------------------------------------------------------------
(***************************************************************************)
(* Assignees.                                                              *)
(***************************************************************************)
AssigneesOf(t) == {m \in Persons : <<t, m>> \in assigned}

(* A statement on the assignees, of the request in slot s.                 *)
SetAssigned(s, set, c) ==
  /\ assigned' = set
  /\ undisturbed' = IF set = assigned THEN undisturbed
                    ELSE undisturbed \intersect {s}
  /\ Go(s, TRUE, c)
  /\ UNCHANGED <<groups, people, tasks, archives, nextId>>

(* Faulty variant: an assignee of a task that is gone is inserted.         *)
InsertAssigneesAnyway(s, c) ==
  /\ c.do = "addAssignees"
  /\ SetAssigned(s, assigned \union ({c.task} \X c.people), c.then)

(* The foreign key and the unique pair hold for all rows or for none.      *)
InsertAssignees(s, c) ==
  /\ c.do = "addAssignees"
  /\ IF Live(c.task) /\ AssigneesOf(c.task) \intersect c.people = {}
     THEN SetAssigned(s, assigned \union ({c.task} \X c.people), c.then)
     ELSE Check(s, FALSE, c)

(* The member is not looked for among the people of the group.             *)
AssignTask(s, u, t, m) ==
  /\ Live(t)
  /\ Arrives(s, "assign", u,
       Permission(tasks[t].group, {},
                  [do |-> "findAssigned", task |-> t, member |-> m]))

FindAssigned(s, c) ==
  /\ c.do = "findAssigned"
  /\ Check(s, <<c.task, c.member>> \notin assigned,
           AddAssignees(c.task, {c.member}, Done))

removeTaskAssigned(s, u, t, m) ==
  /\ <<t, m>> \in assigned
  /\ Arrives(s, "unassign", u, [do |-> "unassign", task |-> t, member |-> m])

DeleteAssignee(s, c) ==
  /\ c.do = "unassign"
  /\ SetAssigned(s, assigned \ {<<c.task, c.member>>}, Done)

(* updateTask: the controller checks the user, the service reads the task  *)
(* and the group once more and checks the assignees too, and the           *)
(* differences it has read are applied in two statements.  No assignees,   *)
(* or no parent, in the request leave those of the task as they are.       *)
updateTask(s, u, t, A, parent) ==
  /\ Live(t)
  /\ Arrives(s, IF parent = Null THEN "update" ELSE "move", u,
       Permission(tasks[t].group, {},
         [ do |-> "findTask", task |-> t, assignedTo |-> A,
           parent |-> parent ]))

(* Faulty variant: those who are no longer assigned go first.              *)
DropsFirst(c) ==
  LET added   == c.assignedTo \ AssigneesOf(c.task)
      removed == IF c.assignedTo = {} THEN {}
                 ELSE AssigneesOf(c.task) \ c.assignedTo
      save    == [c EXCEPT !.do = "saveTask"]
      add     == IF added = {} THEN save
                 ELSE [ do |-> "addAssignees", task |-> c.task,
                        people |-> added, then |-> save,
                        assignedTo |-> c.assignedTo ]
  IN  IF removed = {} THEN add
      ELSE [ do |-> "dropAssignees", task |-> c.task, people |-> removed,
             then |-> add ]

Differences(c) ==
  LET added   == c.assignedTo \ AssigneesOf(c.task)
      removed == IF c.assignedTo = {} THEN {}
                 ELSE AssigneesOf(c.task) \ c.assignedTo
      save    == [c EXCEPT !.do = "saveTask"]
      remove  == IF removed = {} THEN save
                 ELSE [ do |-> "dropAssignees", task |-> c.task,
                        people |-> removed, then |-> save ]
  IN  IF added = {} THEN remove ELSE AddAssignees(c.task, added, remove)

FindTask(s, c) ==
  /\ c.do = "findTask"
  /\ IF Live(c.task)
     THEN GoOn(s, Permission(tasks[c.task].group, c.assignedTo,
                             Differences(c)))
     ELSE End(s)
  /\ undisturbed' = undisturbed \union {s}
  /\ UNCHANGED rows

DropAssignees(s, c) ==
  /\ c.do = "dropAssignees"
  /\ SetAssigned(s, assigned \ ({c.task} \X c.people), c.then)

(* Nothing keeps a task from becoming a subtask of itself.                 *)
SaveTask(s, c) ==
  /\ c.do = "saveTask"
  /\ tasks' = IF Live(c.task) /\ c.parent # Null /\ Live(c.parent)
              THEN [tasks EXCEPT ![c.task].parent = c.parent] ELSE tasks
  /\ End(s)
  /\ UNCHANGED <<groups, people, assigned, archives, nextId, undisturbed>>

-----------------------------------------------------------------------------
(***************************************************************************)
(* Removal, with what hangs on a task.                                     *)
(***************************************************************************)
Subtasks(T) == {t \in DOMAIN tasks : tasks[t].parent \in T}

(* ON DELETE CASCADE, as deep as there are tasks: the least set with T and *)
(* the subtasks of each of its tasks.                                      *)
WithSubtasks(T) ==
  {t \in DOMAIN tasks : \A S \in SUBSET DOMAIN tasks :
                          T \union Subtasks(S) \subseteq S => t \in S}

(* Faulty variant: a schema that removes a task alone.                     *)
CascadeAlone(T) ==
  /\ tasks' = Restrict(tasks, DOMAIN tasks \ T)
  /\ assigned' = {r \in assigned : r[1] \notin T}
  /\ archives' = Restrict(archives, {r \in DOMAIN archives :
                                       archives[r].task \notin T})
  /\ UNCHANGED nextId

Cascade(T) ==
  LET gone == WithSubtasks(T)
  IN  /\ tasks' = Restrict(tasks, DOMAIN tasks \ gone)
      /\ assigned' = {r \in assigned : r[1] \notin gone}
      /\ archives' = Restrict(archives, {r \in DOMAIN archives :
                                           archives[r].task \notin gone})
      /\ UNCHANGED nextId

removeTask(s, u, t) ==
  /\ Live(t)
  /\ Arrives(s, "remove", u, [do |-> "remove", task |-> t])

(* One transaction, which fails as a whole when the task is gone.          *)
DeleteTask(s, c) ==
  /\ c.do = "remove"
  /\ Cascade({c.task} \intersect DOMAIN tasks)
  /\ undisturbed' = IF assigned' = assigned THEN undisturbed ELSE {}
  /\ End(s)
  /\ UNCHANGED <<groups, people>>

-----------------------------------------------------------------------------
(***************************************************************************)
(* Positions.                                                              *)
(***************************************************************************)
reorderTasks(s, u, list) ==
  Arrives(s, "reorder", u, [do |-> "reorder", list |-> list])

Positions(list) ==
  [t \in DOMAIN tasks |->
     IF \E i \in DOMAIN list : list[i] = t
     THEN [tasks[t] EXCEPT !.position = CHOOSE i \in DOMAIN list : list[i] = t]
     ELSE tasks[t]]

(* Faulty variant: the updates are not in a transaction.                   *)
UpdateEachPosition(s, c) ==
  /\ c.do = "reorder"
  /\ tasks' = Positions(c.list)
  /\ End(s)
  /\ UNCHANGED <<groups, people, assigned, archives, nextId, undisturbed>>

(* One transaction, which fails as a whole when a task is gone, or when it *)
(* deadlocks with another one in the database; the rows it has written are *)
(* locked until it ends.                                                   *)
UpdatePositions(s, c) ==
  /\ c.do = "reorder"
  /\ tasks' \in IF Range(c.list) \subseteq DOMAIN tasks
                THEN {tasks, Positions(c.list)} ELSE {tasks}
  /\ End(s)
  /\ UNCHANGED <<groups, people, assigned, archives, nextId, undisturbed>>

-----------------------------------------------------------------------------
(***************************************************************************)
(* Archives.                                                               *)
(***************************************************************************)
SetArchives(s, f) ==
  /\ archives' = f
  /\ End(s)
  /\ UNCHANGED <<groups, people, tasks, assigned, undisturbed>>

archiveTask(s, u, t) ==
  /\ Live(t)
  /\ Arrives(s, "archive", u, [do |-> "findArchive", task |-> t])

Archived(u, t) ==
  \E r \in DOMAIN archives : archives[r].user = u /\ archives[r].task = t

FindArchive(s, c) ==
  /\ c.do = "findArchive"
  /\ Check(s, ~Archived(pending[s].by, c.task), [c EXCEPT !.do = "archive"])

(* Faulty variant: a schema without @@unique([userId, taskId]).            *)
ArchiveAnyway(u, t) == Live(t)

MayArchive(u, t) == Live(t) /\ ~Archived(u, t)

InsertArchive(s, c) ==
  /\ c.do = "archive"
  /\ LET r == nextId["archive"]
         u == pending[s].by
     IN  IF r > MaxArchives \/ ~MayArchive(u, c.task) THEN Check(s, FALSE, c)
         ELSE /\ SetArchives(s, WithRow(archives, r,
                   [user |-> u, task |-> c.task, deleted |-> FALSE]))
              /\ nextId' = [nextId EXCEPT !["archive"] = r + 1]

toggleArchiveUnarchiveTask(s, u, r) ==
  /\ r \in DOMAIN archives
  /\ Arrives(s, "archive", u,
       [do |-> "setArchive", id |-> r, deleted |-> ~archives[r].deleted])

unarchiveTask(s, u, r) ==
  /\ r \in DOMAIN archives /\ archives[r].user = u
  /\ Arrives(s, "archive", u,
             [do |-> "setArchive", id |-> r, deleted |-> FALSE])

SetArchive(s, c) ==
  /\ c.do = "setArchive"
  /\ SetArchives(s, IF c.id \in DOMAIN archives
                    THEN [archives EXCEPT ![c.id].deleted = c.deleted]
                    ELSE archives)
  /\ UNCHANGED nextId

deleteArchiveTask(s, u, r) ==
  /\ r \in DOMAIN archives /\ archives[r].user = u
  /\ Arrives(s, "archive", u, [do |-> "deleteArchive", id |-> r])

DeleteArchive(s, c) ==
  /\ c.do = "deleteArchive"
  /\ SetArchives(s, Restrict(archives, DOMAIN archives \ {c.id}))
  /\ UNCHANGED nextId

-----------------------------------------------------------------------------
(* The list of a group has its tasks without a parent, each with its       *)
(* subtasks, and not the subtasks of these.                                *)
getTaskByGroupId(g) ==
  {t \in DOMAIN tasks : tasks[t].group = g /\ tasks[t].parent = Null}

-----------------------------------------------------------------------------
(* What the handlers of groups and orgs do meanwhile.  A personal group is *)
(* deleted with its tasks once nobody is in it.                            *)
PeopleChange(g, p) ==
  /\ "people" \in scope
  /\ g \in groups
  /\ people' \in {people \union {<<g, p>>}, people \ {<<g, p>>}}
  /\ UNCHANGED <<groups, tasks, assigned, archives, nextId, undisturbed>>
  /\ Aside

GroupDeleted(g) ==
  /\ "people" \in scope
  /\ g \in groups
  /\ g \in OrgGroups \/ \A r \in people : r[1] # g
  /\ groups' = groups \ {g}
  /\ people' = {r \in people : r[1] # g}
  /\ Cascade({t \in DOMAIN tasks : tasks[t].group = g})
  /\ undisturbed' = {}
  /\ Aside

(* What the database has done of a request stays done.                     *)
Restart == StopAll /\ undisturbed' = {} /\ UNCHANGED rows

-----------------------------------------------------------------------------
(* The ids clients may have been told of.                                  *)
Known == 1 .. (nextId["task"] - 1)

Lists == {list \in UNION {[1..n -> Known] : n \in 1..MaxTasks} :
            IsInjective(list)}

Arrive(s, u) ==
  \/ \E g \in Groups, A \in SUBSET Persons, parent \in Known \union {Null} :
       createTask(s, u, g, A, parent)
  \/ \E t \in Known :
       \/ \E m \in Persons :
            AssignTask(s, u, t, m) \/ removeTaskAssigned(s, u, t, m)
       \/ \E A \in SUBSET Persons \ {{}} : updateTask(s, u, t, A, Null)
       \/ \E parent \in Known : updateTask(s, u, t, {}, parent)
       \/ removeTask(s, u, t)
       \/ archiveTask(s, u, t)
  \/ "reorder" \in scope /\ \E list \in Lists : reorderTasks(s, u, list)
  \/ \E r \in ArchiveIds :
       \/ toggleArchiveUnarchiveTask(s, u, r)
       \/ unarchiveTask(s, u, r)
       \/ deleteArchiveTask(s, u, r)

Proceed(s) ==
  LET c == pending[s].call
  IN  \/ FindGroup(s, c) \/ FindMembers(s, c) \/ FindParent(s, c)
      \/ InsertSubtask(s, c) \/ InsertAssignees(s, c) \/ FindAssigned(s, c)
      \/ DeleteAssignee(s, c) \/ FindTask(s, c) \/ DropAssignees(s, c)
      \/ SaveTask(s, c) \/ DeleteTask(s, c) \/ UpdatePositions(s, c)
      \/ FindArchive(s, c) \/ InsertArchive(s, c) \/ SetArchive(s, c)
      \/ DeleteArchive(s, c)

Next ==
  \/ \E s \in Slots : Proceed(s) \/ \E u \in Clients : Arrive(s, u)
  \/ \E g \in Groups, p \in Persons : PeopleChange(g, p)
  \/ \E g \in Groups : GroupDeleted(g)
  \/ Restart

Spec == Init /\ [][Next]_vars

-----------------------------------------------------------------------------
(***************************************************************************)
(* Properties.                                                             *)
(***************************************************************************)
(* What hangs on a task goes with it, down to the subtasks of its          *)
(* subtasks, and what a request inserts for a task it looked up is not     *)
(* left behind when the task is gone by then.                              *)
TaskReferences ==
  /\ \A t \in DOMAIN tasks : /\ tasks[t].group \in groups
                             /\ tasks[t].parent = Null \/ Live(tasks[t].parent)
  /\ \A r \in assigned : Live(r[1])
  /\ \A r \in DOMAIN archives : Live(archives[r].task)

(* A user has a task archived once, however many of his requests found     *)
(* that he had not.                                                        *)
ArchivedOnce ==
  \A q, r \in DOMAIN archives :
    archives[q].user = archives[r].user /\ archives[q].task = archives[r].task
      => q = r

(* An update whose differences nobody else has made stale leaves the       *)
(* assignees it was asked for, and takes nobody out before all of them are *)
(* in: one that is refused half-way, or that a stop of the server cuts     *)
(* short, may leave too many and leaves nobody out.                        *)
AssigneesUpdated ==
  \A s \in undisturbed :
    LET c == pending[s].call
    IN  /\ Doing(s, "dropAssignees") =>
             c.then.assignedTo \subseteq AssigneesOf(c.task)
        /\ Doing(s, "saveTask") /\ c.assignedTo # {} =>
             AssigneesOf(c.task) = c.assignedTo

(* Positions change for a whole list, though one of its tasks may have     *)
(* been removed since the client saw it.                                   *)
ReorderedTogether ==
  [][\A s \in Slots :
       Doing(s, "reorder") /\ pending'[s] = Idle /\ tasks' # tasks =>
         LET list == pending[s].call.list
         IN  /\ Range(list) \subseteq DOMAIN tasks'
             /\ \A i \in DOMAIN list : tasks'[list[i]].position = i]_vars

(* What a client comes to from the list of a group: the tasks of the list, *)
(* and by opening one after the other, which getTaskById shows with its    *)
(* subtasks, the tasks below them.                                         *)
Reachable == WithSubtasks(UNION {getTaskByGroupId(g) : g \in groups})

(* The tasks that the update in slot s takes with it out of reach: all     *)
(* below the one it moves under one of them, or under one out of reach.    *)
TakenAlong(s) ==
  LET c      == pending[s].call
      branch == WithSubtasks({c.task})
  IN  IF Doing(s, "saveTask") /\ c.parent \notin Reachable \ branch
      THEN branch ELSE {}

(* Whatever is removed, moved, reordered and inserted meanwhile, a task    *)
(* that can be reached, or that a request inserts below one it looked up   *)
(* before, can be reached afterwards, or has gone with the one above it.   *)
(* Only a move of it, or of one above it, under a task of its own branch   *)
(* makes an island of that branch, which nothing of the code prevents.     *)
StaysReachable ==
  [][<<tasks, groups>>' # <<tasks, groups>> =>
       \A t \in DOMAIN tasks' :
         \/ t \in Reachable
         \/ /\ t \notin DOMAIN tasks
            /\ tasks'[t].parent \in Reachable \union {Null}
         => \/ t \in Reachable'
            \/ \E s \in Slots : t \in TakenAlong(s) /\ pending'[s] = Idle]_vars
=============================================================================
