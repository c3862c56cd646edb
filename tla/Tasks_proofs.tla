---------------------------- MODULE Tasks_proofs ----------------------------
(***************************************************************************)
(* Theorems about Tasks for every set of people, groups and slots, every   *)
(* bound on the ids and every mix of operations.                           *)
(***************************************************************************)
EXTENDS Tasks, FiniteSetTheorems, TLAPS

(***************************************************************************)
(* What the handler of a request may have to do next, with its locals: the *)
(* steps of an update carry the ones after them in "then", and all of them *)
(* are about the same task.                                                *)
(***************************************************************************)
Saves == [ do : {"saveTask"}, task : TaskIds, assignedTo : SUBSET Persons,
           parent : TaskIds \union {Null} ]

Drops == {c \in [ do : {"dropAssignees"}, task : TaskIds,
                  people : SUBSET Persons, then : Saves ] :
            c.then.task = c.task}

Adds == {c \in [ do : {"addAssignees"}, task : TaskIds,
                 people : SUBSET Persons,
                 then : Saves \union Drops \union {Done} ] :
           c.then = Done \/ c.then.task = c.task}

Creates == [ do : {"findParent", "insertTask"}, group : Groups,
             assignedTo : SUBSET Persons, parent : TaskIds \union {Null} ]

Assigns == [do : {"findAssigned"}, task : TaskIds, member : Persons]

Updates == [ do : {"findTask"}, task : TaskIds, assignedTo : SUBSET Persons,
             parent : TaskIds \union {Null} ]

Allowed == Saves \union Drops \union Adds \union Creates \union Assigns
             \union Updates

Permissions == [ do : {"findGroup", "findMembers"}, group : Groups,
                 assignedTo : SUBSET Persons, then : Allowed ]

Unassigns == [do : {"unassign"}, task : TaskIds, member : Persons]

Removals == [do : {"remove", "findArchive", "archive"}, task : TaskIds]

Orders == {list \in UNION {[1..n -> TaskIds] : n \in 1..MaxTasks} :
             IsInjective(list)}

Reorders == [do : {"reorder"}, list : Orders]

Archivals == [do : {"setArchive"}, id : ArchiveIds, deleted : BOOLEAN]
               \union [do : {"deleteArchive"}, id : ArchiveIds]

Call == Allowed \union Permissions \union Unassigns \union Removals
          \union Reorders \union Archivals

Request == [by : Persons, call : Call]

PendingOK == pending \in [Slots -> Request \union {Idle, Stopped}]

(* The ids given out are those below the next one, so that an insert never *)
(* meets a row.                                                            *)
Numbered ==
  /\ \A t \in DOMAIN tasks : t < nextId["task"]
  /\ nextId["task"] \in 1 .. (MaxTasks + 1) /\ nextId["archive"] >= 1

RowsOK == TypeOK /\ Numbered /\ TaskReferences /\ ArchivedOnce

(* The inductive invariant: the references need the locals of the requests *)
(* to be well-typed and the inserts to be numbered afresh.                 *)
IInv == RowsOK /\ PendingOK

-----------------------------------------------------------------------------
(* The slots.                                                              *)

(* What a call says it does determines which locals it has.                *)
LEMMA CallKinds ==
  ASSUME NEW c \in Call
  PROVE  /\ c.do = "saveTask" => c \in Saves
         /\ c.do = "dropAssignees" => c \in Drops
         /\ c.do = "addAssignees" => c \in Adds
         /\ c.do \in {"findParent", "insertTask"} => c \in Creates
         /\ c.do = "findAssigned" => c \in Assigns
         /\ c.do = "findTask" => c \in Updates
         /\ c.do \in {"findGroup", "findMembers"} => c \in Permissions
         /\ c.do = "unassign" => c \in Unassigns
         /\ c.do \in {"remove", "findArchive", "archive"} => c \in Removals
         /\ c.do = "reorder" => c \in Reorders
         /\ c.do = "setArchive" => /\ c.id \in ArchiveIds
                                   /\ c.deleted \in BOOLEAN
         /\ c.do \notin {"idle", "stopped"}
BY DEF Call, Allowed, Saves, Drops, Adds, Creates, Assigns, Updates,
       Permissions, Unassigns, Removals, Reorders, Archivals

(* A slot whose handler has something to do holds a request.               *)
LEMMA BusyRequest ==
  ASSUME PendingOK, NEW s \in Slots,
         pending[s].call.do \notin {"idle", "stopped"}
  PROVE  pending[s] \in Request /\ pending[s].call \in Call
BY DEF PendingOK, Request, Idle, Stopped

LEMMA EndKeepsPending ==
  ASSUME PendingOK, NEW s \in Slots, End(s)
  PROVE  PendingOK'
BY DEF PendingOK, End

LEMMA GoOnKeepsPending ==
  ASSUME PendingOK, NEW s \in Slots, pending[s] \in Request,
         NEW c \in Call, GoOn(s, c)
  PROVE  PendingOK'
<1>1. [pending[s] EXCEPT !.call = c] \in Request
  BY DEF Request
<1>2. QED
  BY <1>1 DEF PendingOK, GoOn

LEMMA GoKeepsPending ==
  ASSUME PendingOK, NEW s \in Slots, pending[s] \in Request, NEW ok,
         NEW c, ok => c \in Call \union {Done}, Go(s, ok, c)
  PROVE  PendingOK'
<1>1. CASE End(s)
  BY <1>1, EndKeepsPending
<1>2. CASE c \in Call /\ GoOn(s, c)
  BY <1>2, GoOnKeepsPending
<1>3. QED
  BY <1>1, <1>2 DEF Go, GoOnIf

LEMMA EnterKeepsPending ==
  ASSUME PendingOK, NEW s \in Slots, NEW u \in Persons, NEW c \in Call,
         Enter(s, u, c)
  PROVE  PendingOK'
<1>1. [by |-> u, call |-> c] \in Request
  BY DEF Request
<1>2. QED
  BY <1>1 DEF PendingOK, Enter

LEMMA CheckKeeps ==
  ASSUME IInv, NEW s \in Slots, pending[s] \in Request, NEW ok,
         NEW c, ok => c \in Call \union {Done}, Check(s, ok, c)
  PROVE  IInv'
<1>1. PendingOK'
  BY GoKeepsPending DEF Check, IInv
<1>2. RowsOK'
  BY DEF Check, IInv, RowsOK, rows, TypeOK, Numbered, TaskReferences,
         ArchivedOnce, Live
<1>3. QED
  BY <1>1, <1>2 DEF IInv

LEMMA ArrivesKeeps ==
  ASSUME IInv, NEW s \in Slots, NEW u \in Persons, NEW op, NEW c \in Call,
         Arrives(s, op, u, c)
  PROVE  IInv'
<1>1. PendingOK'
  BY EnterKeepsPending DEF Arrives, IInv
<1>2. RowsOK'
  BY DEF Arrives, IInv, RowsOK, rows, TypeOK, Numbered, TaskReferences,
         ArchivedOnce, Live
<1>3. QED
  BY <1>1, <1>2 DEF IInv

-----------------------------------------------------------------------------
(* The statements.                                                         *)

LEMMA WithRowValues ==
  ASSUME NEW f, NEW i, NEW row
  PROVE  /\ DOMAIN WithRow(f, i, row) = DOMAIN f \union {i}
         /\ WithRow(f, i, row)[i] = row
         /\ \A j \in DOMAIN f \ {i} : WithRow(f, i, row)[j] = f[j]
BY DEF WithRow

(* A removal takes a set of tasks that no other task hangs on.             *)
LEMMA WithSubtasksClosed ==
  ASSUME NEW T \in SUBSET DOMAIN tasks
  PROVE  /\ T \subseteq WithSubtasks(T)
         /\ WithSubtasks(T) \subseteq DOMAIN tasks
         /\ Subtasks(WithSubtasks(T)) \subseteq WithSubtasks(T)
         /\ \A S \in SUBSET DOMAIN tasks :
              T \union Subtasks(S) \subseteq S => WithSubtasks(T) \subseteq S
<1>1. /\ T \subseteq WithSubtasks(T)
      /\ WithSubtasks(T) \subseteq DOMAIN tasks
      /\ \A S \in SUBSET DOMAIN tasks :
           T \union Subtasks(S) \subseteq S => WithSubtasks(T) \subseteq S
  BY DEF WithSubtasks
<1>2. ASSUME NEW t \in Subtasks(WithSubtasks(T))
      PROVE  t \in WithSubtasks(T)
  <2>1. t \in DOMAIN tasks /\ tasks[t].parent \in WithSubtasks(T)
    BY DEF Subtasks
  <2>2. ASSUME NEW S \in SUBSET DOMAIN tasks,
               T \union Subtasks(S) \subseteq S
        PROVE  t \in S
    BY <1>1, <2>1, <2>2 DEF Subtasks
  <2>3. QED
    BY <2>1, <2>2 DEF WithSubtasks
<1>3. QED
  BY <1>1, <1>2

LEMMA InsertTaskKeeps ==
  ASSUME IInv, NEW s \in Slots, pending[s] \in Request,
         NEW c \in Creates, InsertTask(s, c)
  PROVE  IInv'
<1> DEFINE t == nextId["task"]
           row == NewTask(c.group, c.parent)
           next == IF c.assignedTo = {} THEN Done
                   ELSE AddAssignees(t, c.assignedTo, Done)
<1>1. /\ c \in Call /\ c.group \in Groups /\ c.assignedTo \in SUBSET Persons
      /\ c.parent \in TaskIds \union {Null}
  BY DEF Creates, Call, Allowed
<1>2. CASE Check(s, FALSE, c)
  BY <1>1, <1>2, CheckKeeps
<1>3. CASE ~Check(s, FALSE, c)
  <2>1. /\ ~(t > MaxTasks) /\ c.group \in groups
        /\ c.parent = Null \/ Live(c.parent)
        /\ tasks' = WithRow(tasks, t, row)
        /\ nextId' = [nextId EXCEPT !["task"] = t + 1]
        /\ Go(s, TRUE, next)
        /\ UNCHANGED <<groups, people, assigned, archives, undisturbed>>
    BY <1>3 DEF InsertTask
  <2>2. /\ t \in TaskIds /\ t \notin DOMAIN tasks
        /\ t + 1 \in 1 .. (MaxTasks + 1)
    BY <2>1, TasksAssumption
       DEF IInv, RowsOK, TypeOK, Numbered, TaskIds
  <2>3. row \in Task /\ row.group = c.group /\ row.parent = c.parent
    BY <1>1, TasksAssumption DEF NewTask, Task
  <2> HIDE DEF row
  <2>4. /\ DOMAIN tasks' = DOMAIN tasks \union {t}
        /\ tasks'[t] = row
        /\ \A j \in DOMAIN tasks : tasks'[j] = tasks[j]
    BY <2>1, <2>2 DEF WithRow
  <2>5. next \in Call \union {Done}
    BY <1>1, <2>2 DEF AddAssignees, Call, Allowed, Adds
  <2>6. PendingOK'
    BY <2>1, <2>5, GoKeepsPending DEF IInv
  <2>7. TypeOK'
    BY <2>1, <2>2, <2>3, <2>4 DEF IInv, RowsOK, TypeOK
  <2>8. Numbered'
    BY <2>1, <2>2, <2>4 DEF IInv, RowsOK, TypeOK, Numbered, TaskIds
  <2>9. TaskReferences' /\ ArchivedOnce'
    BY <2>1, <2>3, <2>4
       DEF IInv, RowsOK, TaskReferences, ArchivedOnce, Live
  <2>10. QED
    BY <2>6, <2>7, <2>8, <2>9 DEF IInv, RowsOK
<1>4. QED
  BY <1>2, <1>3

LEMMA SetAssignedKeeps ==
  ASSUME IInv, NEW s \in Slots, pending[s] \in Request,
         NEW set \in SUBSET (TaskIds \X Persons),
         \A r \in set : Live(r[1]),
         NEW c \in Call \union {Done}, SetAssigned(s, set, c)
  PROVE  IInv'
<1>1. PendingOK'
  BY GoKeepsPending DEF IInv, SetAssigned
<1>2. RowsOK'
  BY DEF SetAssigned, IInv, RowsOK, TypeOK, Numbered, TaskReferences,
         ArchivedOnce, Live
<1>3. QED
  BY <1>1, <1>2 DEF IInv

(* The rows of tasks and archives after a removal, and the references      *)
(* among them: what is left refers to nothing that went.                   *)
LEMMA CascadeKeeps ==
  ASSUME RowsOK, NEW T \in SUBSET DOMAIN tasks, Cascade(T),
         groups' \subseteq Groups, people' \subseteq people,
         undisturbed' \subseteq Slots,
         \A t \in DOMAIN tasks \ T : tasks[t].group \in groups'
  PROVE  RowsOK'
<1> DEFINE gone == WithSubtasks(T)
<1>1. /\ T \subseteq gone /\ gone \subseteq DOMAIN tasks
      /\ Subtasks(gone) \subseteq gone
  BY WithSubtasksClosed
<1>2. /\ tasks' = Restrict(tasks, DOMAIN tasks \ gone)
      /\ assigned' = {r \in assigned : r[1] \notin gone}
      /\ archives' = Restrict(archives, {r \in DOMAIN archives :
                                           archives[r].task \notin gone})
      /\ UNCHANGED nextId
  BY DEF Cascade
<1> HIDE DEF gone
<1>3. /\ DOMAIN tasks' = DOMAIN tasks \ gone
      /\ \A t \in DOMAIN tasks' : tasks'[t] = tasks[t]
      /\ DOMAIN archives' = {r \in DOMAIN archives :
                               archives[r].task \notin gone}
      /\ \A r \in DOMAIN archives' : archives'[r] = archives[r]
  BY <1>2 DEF Restrict
<1>4. TypeOK'
  BY <1>2, <1>3 DEF RowsOK, TypeOK
<1>5. Numbered' /\ ArchivedOnce'
  <2>1. Numbered'
    BY <1>2, <1>3 DEF RowsOK, Numbered
  <2>2. ArchivedOnce'
    BY <1>3 DEF RowsOK, ArchivedOnce
  <2>3. QED
    BY <2>1, <2>2
<1>6. ASSUME NEW t \in DOMAIN tasks'
      PROVE  /\ tasks'[t].group \in groups'
             /\ tasks'[t].parent = Null \/ Live(tasks[t].parent)'
  <2>1. tasks[t].parent \notin gone
    BY <1>1, <1>3 DEF Subtasks
  <2>2. QED
    BY <1>1, <1>3, <2>1 DEF RowsOK, TaskReferences, Live
<1>7. /\ \A r \in assigned' : Live(r[1])'
      /\ \A r \in DOMAIN archives' : Live(archives[r].task)'
  BY <1>2, <1>3 DEF RowsOK, TaskReferences, Live
<1>8. QED
  BY <1>4, <1>5, <1>6, <1>7 DEF RowsOK, TaskReferences

LEMMA SaveTaskKeeps ==
  ASSUME IInv, NEW s \in Slots, NEW c \in Saves, SaveTask(s, c)
  PROVE  IInv'
<1>1. PendingOK'
  BY EndKeepsPending DEF IInv, SaveTask
<1>2. c.parent \in TaskIds \union {Null}
  BY DEF Saves
<1>3. CASE tasks' = tasks
  BY <1>1, <1>3
     DEF SaveTask, IInv, RowsOK, TypeOK, Numbered, TaskReferences,
         ArchivedOnce, Live
<1>4. CASE tasks' # tasks
  <2>1. /\ Live(c.task) /\ Live(c.parent)
        /\ tasks' = [tasks EXCEPT ![c.task].parent = c.parent]
    BY <1>4 DEF SaveTask
  <2>2. /\ DOMAIN tasks' = DOMAIN tasks
        /\ \A t \in DOMAIN tasks :
             /\ tasks'[t] \in Task
             /\ tasks'[t].group = tasks[t].group
             /\ tasks'[t].parent \in {tasks[t].parent, c.parent}
    BY <1>2, <2>1 DEF IInv, RowsOK, TypeOK, Task
  <2>3. RowsOK'
    BY <2>1, <2>2
       DEF SaveTask, IInv, RowsOK, TypeOK, Numbered, TaskReferences,
           ArchivedOnce, Live
  <2>4. QED
    BY <1>1, <2>3 DEF IInv
<1>5. QED
  BY <1>3, <1>4

(* Positions are all that a reordering writes.                             *)
LEMMA PositionsType ==
  ASSUME TypeOK, NEW list \in Orders
  PROVE  /\ DOMAIN Positions(list) = DOMAIN tasks
         /\ \A t \in DOMAIN tasks :
              /\ Positions(list)[t] \in Task
              /\ Positions(list)[t].group = tasks[t].group
              /\ Positions(list)[t].parent = tasks[t].parent
         /\ \A i \in DOMAIN list : list[i] \in DOMAIN tasks =>
              Positions(list)[list[i]].position = i
<1>1. PICK n \in 1..MaxTasks : list \in [1..n -> TaskIds]
  BY DEF Orders
<1>2. DOMAIN list \subseteq 0..MaxTasks
  BY <1>1, TasksAssumption
<1>3. DOMAIN Positions(list) = DOMAIN tasks
  BY DEF Positions
<1>4. ASSUME NEW t \in DOMAIN tasks, NEW i \in DOMAIN list, list[i] = t
      PROVE  Positions(list)[t] = [tasks[t] EXCEPT !.position = i]
  <2>1. \A j \in DOMAIN list : list[j] = t => j = i
    BY <1>4 DEF Orders, IsInjective
  <2>2. (CHOOSE j \in DOMAIN list : list[j] = t) = i
    BY <1>4, <2>1
  <2>3. QED
    BY <1>4, <2>2 DEF Positions
<1>5. ASSUME NEW t \in DOMAIN tasks, \A i \in DOMAIN list : list[i] # t
      PROVE  Positions(list)[t] = tasks[t]
  BY <1>5 DEF Positions
<1>6. ASSUME NEW t \in DOMAIN tasks
      PROVE  /\ Positions(list)[t] \in Task
             /\ Positions(list)[t].group = tasks[t].group
             /\ Positions(list)[t].parent = tasks[t].parent
  <2>1. tasks[t] \in Task
    BY DEF TypeOK
  <2>2. CASE \A i \in DOMAIN list : list[i] # t
    BY <1>5, <2>1, <2>2
  <2>3. CASE \E i \in DOMAIN list : list[i] = t
    <3>1. PICK i \in DOMAIN list : list[i] = t
      BY <2>3
    <3>2. Positions(list)[t] = [tasks[t] EXCEPT !.position = i]
      BY <1>4, <3>1
    <3>3. i \in 0..MaxTasks
      BY <1>2
    <3>4. QED
      BY <2>1, <3>2, <3>3 DEF Task
  <2>4. QED
    BY <2>2, <2>3
<1>7. ASSUME NEW i \in DOMAIN list, list[i] \in DOMAIN tasks
      PROVE  Positions(list)[list[i]].position = i
  <2>1. Positions(list)[list[i]] = [tasks[list[i]] EXCEPT !.position = i]
    BY <1>4, <1>7
  <2>2. tasks[list[i]] \in Task
    BY <1>7 DEF TypeOK
  <2>3. QED
    BY <2>1, <2>2 DEF Task
<1>8. QED
  BY <1>3, <1>6, <1>7

LEMMA UpdatePositionsKeeps ==
  ASSUME IInv, NEW s \in Slots, NEW c \in Reorders, UpdatePositions(s, c)
  PROVE  IInv'
<1>1. PendingOK'
  BY EndKeepsPending DEF IInv, UpdatePositions
<1>2. /\ DOMAIN tasks' = DOMAIN tasks
      /\ \A t \in DOMAIN tasks : /\ tasks'[t] \in Task
                                 /\ tasks'[t].group = tasks[t].group
                                 /\ tasks'[t].parent = tasks[t].parent
  <2>1. c.list \in Orders
    BY DEF Reorders
  <2>2. tasks' \in {tasks, Positions(c.list)}
    BY DEF UpdatePositions
  <2>3. QED
    BY <2>1, <2>2, PositionsType DEF IInv, RowsOK, TypeOK
<1>3. RowsOK'
  BY <1>2
     DEF UpdatePositions, IInv, RowsOK, TypeOK, Numbered, TaskReferences,
         ArchivedOnce, Live
<1>4. QED
  BY <1>1, <1>3 DEF IInv

LEMMA InsertArchiveKeeps ==
  ASSUME IInv, NEW s \in Slots, pending[s] \in Request,
         NEW c \in Removals, InsertArchive(s, c)
  PROVE  IInv'
<1> DEFINE r == nextId["archive"]
           u == pending[s].by
           row == [user |-> u, task |-> c.task, deleted |-> FALSE]
<1>1. c \in Call /\ c.task \in TaskIds /\ u \in Persons
  BY DEF Removals, Call, Request
<1>2. CASE Check(s, FALSE, c)
  BY <1>1, <1>2, CheckKeeps
<1>3. CASE ~Check(s, FALSE, c)
  <2>1. /\ ~(r > MaxArchives) /\ Live(c.task) /\ ~Archived(u, c.task)
        /\ archives' = WithRow(archives, r, row)
        /\ nextId' = [nextId EXCEPT !["archive"] = r + 1]
        /\ End(s)
        /\ UNCHANGED <<groups, people, tasks, assigned, undisturbed>>
    BY <1>3 DEF InsertArchive, MayArchive, SetArchives
  <2>2. r \in ArchiveIds /\ r + 1 \in Nat /\ r + 1 >= 1
    BY <2>1, TasksAssumption
       DEF IInv, RowsOK, TypeOK, Numbered, ArchiveIds
  <2>3. row \in ArchivedTask /\ row.user = u /\ row.task = c.task
    BY <1>1 DEF ArchivedTask
  <2> HIDE DEF row
  <2>4. /\ DOMAIN archives' = DOMAIN archives \union {r}
        /\ archives'[r] = row
        /\ \A q \in DOMAIN archives \ {r} : archives'[q] = archives[q]
    BY <2>1 DEF WithRow
  <2>5. PendingOK'
    BY <2>1, EndKeepsPending DEF IInv
  <2>6. TypeOK' /\ Numbered'
    BY <2>1, <2>2, <2>3, <2>4 DEF IInv, RowsOK, TypeOK, Numbered
  <2>7. TaskReferences'
    BY <2>1, <2>3, <2>4 DEF IInv, RowsOK, TaskReferences, Live
  <2>8. ArchivedOnce'
    <3>1. \A q \in DOMAIN archives :
            ~(archives[q].user = row.user /\ archives[q].task = row.task)
      BY <2>1, <2>3 DEF Archived
    <3>2. QED
      BY <2>4, <3>1 DEF IInv, RowsOK, ArchivedOnce
  <2>9. QED
    BY <2>5, <2>6, <2>7, <2>8 DEF IInv, RowsOK
<1>4. QED
  BY <1>2, <1>3

LEMMA SetArchiveKeeps ==
  ASSUME IInv, NEW s \in Slots, NEW c, c.deleted \in BOOLEAN,
         SetArchive(s, c)
  PROVE  IInv'
<1>1. PendingOK'
  BY EndKeepsPending DEF IInv, SetArchive, SetArchives
<1>2. /\ DOMAIN archives' = DOMAIN archives
      /\ \A r \in DOMAIN archives :
           /\ archives'[r] \in ArchivedTask
           /\ archives'[r].user = archives[r].user
           /\ archives'[r].task = archives[r].task
  BY DEF SetArchive, SetArchives, IInv, RowsOK, TypeOK, ArchivedTask
<1>3. RowsOK'
  BY <1>2
     DEF SetArchive, SetArchives, IInv, RowsOK, TypeOK, Numbered,
         TaskReferences, ArchivedOnce, Live
<1>4. QED
  BY <1>1, <1>3 DEF IInv

LEMMA DeleteArchiveKeeps ==
  ASSUME IInv, NEW s \in Slots, NEW c, DeleteArchive(s, c)
  PROVE  IInv'
<1>1. PendingOK'
  BY EndKeepsPending DEF IInv, DeleteArchive, SetArchives
<1>2. /\ DOMAIN archives' = DOMAIN archives \ {c.id}
      /\ \A r \in DOMAIN archives' : archives'[r] = archives[r]
  BY DEF DeleteArchive, SetArchives, Restrict
<1>3. UNCHANGED <<groups, people, tasks, assigned, nextId, undisturbed>>
  BY DEF DeleteArchive, SetArchives
<1>4. TypeOK' /\ Numbered'
  BY <1>2, <1>3 DEF IInv, RowsOK, TypeOK, Numbered
<1>5. TaskReferences'
  BY <1>2, <1>3 DEF IInv, RowsOK, TaskReferences, Live
<1>6. ArchivedOnce'
  BY <1>2 DEF IInv, RowsOK, ArchivedOnce
<1>7. QED
  BY <1>1, <1>4, <1>5, <1>6 DEF IInv, RowsOK

-----------------------------------------------------------------------------
(* The steps of a handler.                                                 *)

(* What an update has left to do once it has read the assignees.           *)
LEMMA DifferencesType ==
  ASSUME NEW c \in Updates
  PROVE  Differences(c) \in Allowed
<1> DEFINE added   == c.assignedTo \ AssigneesOf(c.task)
           removed == IF c.assignedTo = {} THEN {}
                      ELSE AssigneesOf(c.task) \ c.assignedTo
           save    == [c EXCEPT !.do = "saveTask"]
           remove  == IF removed = {} THEN save
                      ELSE [ do |-> "dropAssignees", task |-> c.task,
                             people |-> removed, then |-> save ]
<1>1. save \in Saves /\ save.task = c.task /\ c.task \in TaskIds
  BY DEF Updates, Saves
<1>2. added \in SUBSET Persons /\ removed \in SUBSET Persons
  BY DEF Updates, AssigneesOf
<1> HIDE DEF save, added, removed
<1>3. remove \in Saves \union Drops /\ remove.task = c.task
  BY <1>1, <1>2 DEF Drops
<1> HIDE DEF remove
<1>4. added # {} => AddAssignees(c.task, added, remove) \in Adds
  BY <1>1, <1>2, <1>3 DEF AddAssignees, Adds
<1>5. Differences(c) = IF added = {} THEN remove
                       ELSE AddAssignees(c.task, added, remove)
  BY DEF Differences, added, removed, save, remove
<1>6. QED
  BY <1>3, <1>4, <1>5 DEF Allowed

LEMMA FindTaskKeeps ==
  ASSUME IInv, NEW s \in Slots, pending[s] \in Request, NEW c \in Updates,
         FindTask(s, c)
  PROVE  IInv'
<1>1. CASE End(s)
  <2>1. PendingOK'
    BY <1>1, EndKeepsPending DEF IInv
  <2>2. QED
    BY <2>1
       DEF FindTask, IInv, RowsOK, rows, TypeOK, Numbered, TaskReferences,
           ArchivedOnce, Live
<1>2. CASE ~End(s)
  <2> DEFINE next == Permission(tasks[c.task].group, c.assignedTo,
                                Differences(c))
  <2>1. Live(c.task) /\ GoOn(s, next)
    BY <1>2 DEF FindTask
  <2>2. tasks[c.task].group \in Groups /\ c.assignedTo \in SUBSET Persons
    BY <2>1 DEF IInv, RowsOK, TypeOK, Task, Live, Updates
  <2>3. next \in Call
    BY <2>2, DifferencesType DEF Permission, Permissions, Call
  <2>4. PendingOK'
    BY <2>1, <2>3, GoOnKeepsPending DEF IInv
  <2>5. QED
    BY <2>4
       DEF FindTask, IInv, RowsOK, rows, TypeOK, Numbered, TaskReferences,
           ArchivedOnce, Live
<1>3. QED
  BY <1>1, <1>2

LEMMA DeleteTaskKeeps ==
  ASSUME IInv, NEW s \in Slots, NEW c, DeleteTask(s, c)
  PROVE  IInv'
<1>1. PendingOK'
  BY EndKeepsPending DEF IInv, DeleteTask
<1>2. RowsOK'
  BY CascadeKeeps DEF DeleteTask, IInv, RowsOK, TypeOK, TaskReferences
<1>3. QED
  BY <1>1, <1>2 DEF IInv

LEMMA ProceedKeeps ==
  ASSUME IInv, NEW s \in Slots, Proceed(s)
  PROVE  IInv'
<1> DEFINE c == pending[s].call
<1>1. pending[s] \in Request /\ c \in Call
  BY BusyRequest
     DEF IInv, Proceed, FindGroup, FindMembers, FindParent, InsertSubtask,
         InsertAssignees, FindAssigned, DeleteAssignee, FindTask,
         DropAssignees, SaveTask, DeleteTask, UpdatePositions, FindArchive,
         InsertArchive, SetArchive, DeleteArchive
<1> HIDE DEF c
<1>2. /\ TypeOK /\ TaskReferences
      /\ assigned \in SUBSET (TaskIds \X Persons)
      /\ \A r \in assigned : Live(r[1])
  BY DEF IInv, RowsOK, TypeOK, TaskReferences
<1>3. CASE FindGroup(s, c) \/ FindMembers(s, c)
  <2>1. c \in Permissions
    BY <1>1, <1>3, CallKinds DEF FindGroup, FindMembers
  <2>2. /\ c.then \in Call
        /\ c.do = "findGroup" => [c EXCEPT !.do = "findMembers"] \in Call
    BY <2>1 DEF Permissions, Call
  <2>3. CASE FindMembers(s, c)
    BY <1>1, <2>2, <2>3, CheckKeeps DEF FindMembers
  <2>4. CASE FindGroup(s, c)
    BY <1>1, <2>2, <2>4, CheckKeeps DEF FindGroup
  <2>5. QED
    BY <1>3, <2>3, <2>4
<1>4. CASE FindParent(s, c) \/ InsertSubtask(s, c)
  <2>1. c \in Creates
    BY <1>1, <1>4, CallKinds DEF FindParent, InsertSubtask
  <2>2. [c EXCEPT !.do = "insertTask"] \in Call
    BY <2>1 DEF Creates, Allowed, Call
  <2>3. CASE InsertTask(s, c)
    BY <1>1, <2>1, <2>3, InsertTaskKeeps
  <2>4. CASE ~InsertTask(s, c)
    BY <1>1, <1>4, <2>2, <2>4, CheckKeeps DEF FindParent, InsertSubtask
  <2>5. QED
    BY <2>3, <2>4
<1>5. CASE InsertAssignees(s, c)
  <2>1. c \in Adds
    BY <1>1, <1>5, CallKinds DEF InsertAssignees
  <2>2. /\ c.task \in TaskIds /\ c.people \in SUBSET Persons
        /\ c.then \in Call \union {Done}
    BY <2>1 DEF Adds, Allowed, Call
  <2>3. CASE Live(c.task) /\ AssigneesOf(c.task) \intersect c.people = {}
    <3> DEFINE set == assigned \union ({c.task} \X c.people)
    <3>1. /\ set \in SUBSET (TaskIds \X Persons)
          /\ \A r \in set : Live(r[1])
      BY <1>2, <2>2, <2>3
    <3>2. SetAssigned(s, set, c.then)
      BY <1>5, <2>3 DEF InsertAssignees
    <3> HIDE DEF set
    <3>3. QED
      BY <1>1, <2>2, <3>1, <3>2, SetAssignedKeeps
  <2>4. CASE ~(Live(c.task) /\ AssigneesOf(c.task) \intersect c.people = {})
    BY <1>1, <1>5, <2>4, CheckKeeps DEF InsertAssignees
  <2>5. QED
    BY <2>3, <2>4
<1>6. CASE FindAssigned(s, c)
  <2>1. c \in Assigns
    BY <1>1, <1>6, CallKinds DEF FindAssigned
  <2>2. AddAssignees(c.task, {c.member}, Done) \in Call
    BY <2>1 DEF Assigns, AddAssignees, Adds, Allowed, Call
  <2>3. QED
    BY <1>1, <1>6, <2>2, CheckKeeps DEF FindAssigned
<1>7. CASE DeleteAssignee(s, c)
  <2> DEFINE set == assigned \ {<<c.task, c.member>>}
  <2>1. /\ set \in SUBSET (TaskIds \X Persons)
        /\ \A r \in set : Live(r[1])
    BY <1>2
  <2>2. SetAssigned(s, set, Done)
    BY <1>7 DEF DeleteAssignee
  <2> HIDE DEF set
  <2>3. QED
    BY <1>1, <2>1, <2>2, SetAssignedKeeps
<1>8. CASE FindTask(s, c)
  <2>1. c \in Updates
    BY <1>1, <1>8, CallKinds DEF FindTask
  <2>2. QED
    BY <1>1, <1>8, <2>1, FindTaskKeeps
<1>9. CASE DropAssignees(s, c)
  <2> DEFINE set == assigned \ ({c.task} \X c.people)
  <2>1. c \in Drops
    BY <1>1, <1>9, CallKinds DEF DropAssignees
  <2>2. c.then \in Call
    BY <2>1 DEF Drops, Allowed, Call
  <2>3. /\ set \in SUBSET (TaskIds \X Persons)
        /\ \A r \in set : Live(r[1])
    BY <1>2
  <2>4. SetAssigned(s, set, c.then)
    BY <1>9 DEF DropAssignees
  <2> HIDE DEF set
  <2>5. QED
    BY <1>1, <2>2, <2>3, <2>4, SetAssignedKeeps
<1>10. CASE SaveTask(s, c)
  <2>1. c \in Saves
    BY <1>1, <1>10, CallKinds DEF SaveTask
  <2>2. QED
    BY <1>10, <2>1, SaveTaskKeeps
<1>11. CASE DeleteTask(s, c)
  BY <1>11, DeleteTaskKeeps
<1>12. CASE UpdatePositions(s, c)
  <2>1. c \in Reorders
    BY <1>1, <1>12, CallKinds DEF UpdatePositions
  <2>2. QED
    BY <1>12, <2>1, UpdatePositionsKeeps
<1>13. CASE FindArchive(s, c) \/ InsertArchive(s, c)
  <2>1. c \in Removals
    BY <1>1, <1>13, CallKinds DEF FindArchive, InsertArchive
  <2>2. [c EXCEPT !.do = "archive"] \in Call
    BY <2>1 DEF Removals, Call
  <2>3. CASE FindArchive(s, c)
    BY <1>1, <2>2, <2>3, CheckKeeps DEF FindArchive
  <2>4. CASE InsertArchive(s, c)
    BY <1>1, <2>1, <2>4, InsertArchiveKeeps
  <2>5. QED
    BY <1>13, <2>3, <2>4
<1>14. CASE SetArchive(s, c)
  <2>1. c.deleted \in BOOLEAN
    BY <1>1, <1>14, CallKinds DEF SetArchive
  <2>2. QED
    BY <1>14, <2>1, SetArchiveKeeps
<1>15. CASE DeleteArchive(s, c)
  BY <1>15, DeleteArchiveKeeps
<1>16. QED
  BY <1>3, <1>4, <1>5, <1>6, <1>7, <1>8, <1>9, <1>10, <1>11, <1>12, <1>13,
     <1>14, <1>15 DEF Proceed, c

-----------------------------------------------------------------------------
(* A request that arrives.                                                 *)
LEMMA ArriveKeeps ==
  ASSUME IInv, NEW s \in Slots, NEW u \in Clients, Arrive(s, u)
  PROVE  IInv'
<1>1. u \in Persons
  BY TasksAssumption
<1>2. Known \subseteq TaskIds
  BY TasksAssumption DEF IInv, RowsOK, TypeOK, Numbered, Known, TaskIds
<1>3. \A t \in DOMAIN tasks : tasks[t].group \in Groups
  BY DEF IInv, RowsOK, TypeOK, Task
<1>4. ASSUME NEW g \in Groups, NEW A \in SUBSET Persons,
             NEW parent \in Known \union {Null},
             createTask(s, u, g, A, parent)
      PROVE  IInv'
  <2> DEFINE c == [ do |-> "findParent", group |-> g, assignedTo |-> A,
                    parent |-> parent ]
  <2>1. c \in Allowed
    BY <1>2 DEF Creates, Allowed
  <2> HIDE DEF c
  <2>2. Permission(g, A, c) \in Call
    BY <2>1 DEF Permission, Permissions, Call
  <2>3. QED
    BY <1>1, <1>4, <2>2, ArrivesKeeps DEF createTask, c
<1>5. ASSUME NEW t \in Known, NEW m \in Persons, AssignTask(s, u, t, m)
      PROVE  IInv'
  <2> DEFINE c == [do |-> "findAssigned", task |-> t, member |-> m]
  <2>1. c \in Allowed
    BY <1>2 DEF Assigns, Allowed
  <2> HIDE DEF c
  <2>2. Permission(tasks[t].group, {}, c) \in Call
    BY <1>3, <1>5, <2>1 DEF AssignTask, Live, Permission, Permissions, Call
  <2>3. QED
    BY <1>1, <1>5, <2>2, ArrivesKeeps DEF AssignTask, c
<1>6. ASSUME NEW t \in Known, NEW m \in Persons,
             removeTaskAssigned(s, u, t, m)
      PROVE  IInv'
  <2>1. [do |-> "unassign", task |-> t, member |-> m] \in Call
    BY <1>2 DEF Unassigns, Call
  <2>2. QED
    BY <1>1, <1>6, <2>1, ArrivesKeeps DEF removeTaskAssigned
<1>7. ASSUME NEW t \in Known, NEW A \in SUBSET Persons,
             NEW parent \in Known \union {Null}, updateTask(s, u, t, A, parent)
      PROVE  IInv'
  <2> DEFINE c == [ do |-> "findTask", task |-> t, assignedTo |-> A,
                    parent |-> parent ]
  <2>1. c \in Allowed
    BY <1>2 DEF Updates, Allowed
  <2> HIDE DEF c
  <2>2. Permission(tasks[t].group, {}, c) \in Call
    BY <1>3, <1>7, <2>1 DEF updateTask, Live, Permission, Permissions, Call
  <2>3. QED
    BY <1>1, <1>7, <2>2, ArrivesKeeps DEF updateTask, c
<1>8. ASSUME NEW t \in Known,
             removeTask(s, u, t) \/ archiveTask(s, u, t)
      PROVE  IInv'
  <2>1. /\ [do |-> "remove", task |-> t] \in Call
        /\ [do |-> "findArchive", task |-> t] \in Call
    BY <1>2 DEF Removals, Call
  <2>2. QED
    BY <1>1, <1>8, <2>1, ArrivesKeeps DEF removeTask, archiveTask
<1>9. ASSUME NEW list \in Lists, reorderTasks(s, u, list)
      PROVE  IInv'
  <2>1. PICK n \in 1..MaxTasks : list \in [1..n -> Known]
    BY DEF Lists
  <2>2. list \in [1..n -> TaskIds]
    BY <1>2, <2>1
  <2>3. list \in Orders
    BY <2>2 DEF Lists, Orders
  <2>4. [do |-> "reorder", list |-> list] \in Call
    BY <2>3 DEF Reorders, Call
  <2>5. QED
    BY <1>1, <1>9, <2>4, ArrivesKeeps DEF reorderTasks
<1>10. ASSUME NEW r \in ArchiveIds,
              \/ toggleArchiveUnarchiveTask(s, u, r)
              \/ unarchiveTask(s, u, r)
              \/ deleteArchiveTask(s, u, r)
       PROVE  IInv'
  <2>1. r \in DOMAIN archives => archives[r].deleted \in BOOLEAN
    BY DEF IInv, RowsOK, TypeOK, ArchivedTask
  <2>2. /\ \A b \in BOOLEAN :
             [do |-> "setArchive", id |-> r, deleted |-> b] \in Call
        /\ [do |-> "deleteArchive", id |-> r] \in Call
    BY DEF Archivals, Call
  <2>3. CASE toggleArchiveUnarchiveTask(s, u, r)
    BY <1>1, <2>1, <2>2, <2>3, ArrivesKeeps DEF toggleArchiveUnarchiveTask
  <2>4. CASE unarchiveTask(s, u, r)
    BY <1>1, <2>2, <2>4, ArrivesKeeps DEF unarchiveTask
  <2>5. CASE deleteArchiveTask(s, u, r)
    BY <1>1, <2>2, <2>5, ArrivesKeeps DEF deleteArchiveTask
  <2>6. QED
    BY <1>10, <2>3, <2>4, <2>5
<1>11. QED
  BY <1>4, <1>5, <1>6, <1>7, <1>8, <1>9, <1>10 DEF Arrive

LEMMA AsideKeeps ==
  ASSUME IInv, NEW g \in Groups,
         (\E p \in Persons : PeopleChange(g, p)) \/ GroupDeleted(g)
  PROVE  IInv'
<1>1. PendingOK'
  BY DEF IInv, PendingOK, PeopleChange, GroupDeleted, Aside
<1>2. ASSUME NEW p \in Persons, PeopleChange(g, p)
      PROVE  RowsOK'
  BY <1>2
     DEF PeopleChange, IInv, RowsOK, TypeOK, Numbered, TaskReferences,
         ArchivedOnce, Live
<1>3. CASE GroupDeleted(g)
  <2> DEFINE T == {t \in DOMAIN tasks : tasks[t].group = g}
  <2>1. /\ groups' = groups \ {g} /\ people' \subseteq people
        /\ Cascade(T) /\ undisturbed' = {}
    BY <1>3 DEF GroupDeleted
  <2>2. RowsOK /\ groups \subseteq Groups
    BY DEF IInv, RowsOK, TypeOK
  <2>3. \A t \in DOMAIN tasks \ T : tasks[t].group \in groups'
    BY <2>1, <2>2 DEF RowsOK, TaskReferences
  <2>4. T \in SUBSET DOMAIN tasks
    OBVIOUS
  <2> HIDE DEF T
  <2>5. QED
    BY <1>1, <2>1, <2>2, <2>3, <2>4, CascadeKeeps DEF IInv
<1>4. QED
  BY <1>1, <1>2, <1>3 DEF IInv

(* A stop of the server leaves the rows alone.                             *)
LEMMA RestartKeeps ==
  ASSUME IInv, Restart
  PROVE  IInv'
<1>1. PendingOK'
  BY DEF Restart, StopAll, IInv, PendingOK
<1>2. RowsOK'
  BY DEF Restart, rows, IInv, RowsOK, TypeOK, Numbered, TaskReferences,
         ArchivedOnce, Live
<1>3. QED
  BY <1>1, <1>2 DEF IInv

LEMMA InitOK ==
  ASSUME Init
  PROVE  IInv
<1>1. PICK g \in Groups :
        /\ groups = {g} /\ people = {g} \X Persons
        /\ tasks = [t \in AtFirst |->
                      NewTask(g, IF t = 1 THEN Null ELSE t - 1)]
  BY DEF Init
<1>2. PICK n \in 2 .. MaxTasks : AtFirst = 1 .. n
  BY TasksAssumption DEF AtFirst
<1>3. Cardinality(AtFirst) = n
  BY <1>2, FS_Interval
<1>4. /\ AtFirst \subseteq TaskIds /\ n + 1 \in 1 .. (MaxTasks + 1)
      /\ \A t \in AtFirst : t < n + 1 /\ (t # 1 => t - 1 \in AtFirst)
      /\ 0 \in 0..MaxTasks
  BY <1>2, TasksAssumption DEF TaskIds
<1>5. /\ DOMAIN tasks = AtFirst
      /\ \A t \in AtFirst :
           /\ tasks[t] \in Task /\ tasks[t].group = g
           /\ tasks[t].parent = Null \/ tasks[t].parent \in AtFirst
  <2>1. ASSUME NEW p \in AtFirst \union {Null}
        PROVE  /\ NewTask(g, p) \in Task
               /\ NewTask(g, p).group = g /\ NewTask(g, p).parent = p
    BY <1>4 DEF NewTask, Task
  <2>2. QED
    BY <1>1, <1>4, <2>1
<1>6. TypeOK /\ Numbered
  BY <1>1, <1>3, <1>4, <1>5, TasksAssumption DEF Init, TypeOK, Numbered
<1>7. TaskReferences /\ ArchivedOnce
  BY <1>1, <1>5 DEF Init, TaskReferences, ArchivedOnce, Live
<1>8. PendingOK
  BY DEF Init, NoRequests, PendingOK
<1>9. QED
  BY <1>6, <1>7, <1>8 DEF IInv, RowsOK

LEMMA NextKeeps ==
  ASSUME IInv, [Next]_vars
  PROVE  IInv'
<1>1. ASSUME NEW s \in Slots, Proceed(s)
      PROVE  IInv'
  BY <1>1, ProceedKeeps
<1>2. ASSUME NEW s \in Slots, NEW u \in Clients, Arrive(s, u)
      PROVE  IInv'
  BY <1>2, ArriveKeeps
<1>3. ASSUME NEW g \in Groups,
             (\E p \in Persons : PeopleChange(g, p)) \/ GroupDeleted(g)
      PROVE  IInv'
  BY <1>3, AsideKeeps
<1>4. CASE UNCHANGED vars
  BY <1>4
     DEF vars, rows, IInv, RowsOK, PendingOK, TypeOK, Numbered,
         TaskReferences, ArchivedOnce, Live
<1>5. QED
  BY <1>1, <1>2, <1>3, <1>4, RestartKeeps DEF Next

LEMMA Inductive == Spec => []IInv
<1>1. Init => IInv
  BY InitOK
<1>2. IInv /\ [Next]_vars => IInv'
  BY NextKeeps
<1>3. QED
  BY <1>1, <1>2, PTL DEF Spec

(* Every row keeps its type, whatever the requests found before they write *)
(* it: no column takes a value of another one, no id is out of its range.  *)
THEOREM TasksTypeCorrect == Spec => []TypeOK
<1>1. IInv => TypeOK
  BY DEF IInv, RowsOK
<1>2. QED
  BY <1>1, Inductive, PTL

(* What hangs on a task goes with it, however deep its subtasks, and what  *)
(* a request inserts for a task it looked up is not left behind when the   *)
(* task is gone by then.                                                   *)
THEOREM TaskReferencesIntact == Spec => []TaskReferences
<1>1. IInv => TaskReferences
  BY DEF IInv, RowsOK
<1>2. QED
  BY <1>1, Inductive, PTL

(* A user has a task archived once, however many of his requests found     *)
(* that he had not.                                                        *)
THEOREM ArchivesUnique == Spec => []ArchivedOnce
<1>1. IInv => ArchivedOnce
  BY DEF IInv, RowsOK
<1>2. QED
  BY <1>1, Inductive, PTL

-----------------------------------------------------------------------------
(***************************************************************************)
(* Updates of assignees.  What an update that nobody has disturbed has yet *)
(* to apply turns the assignees there are into those it was asked for.     *)
(***************************************************************************)
SaveLeaves(c, A) ==
  c.do = "saveTask" /\ c.assignedTo # {} => A = c.assignedTo

DropLeaves(c, A) ==
  IF c.do = "dropAssignees"
  THEN c.then.assignedTo \subseteq A /\ SaveLeaves(c.then, A \ c.people)
  ELSE SaveLeaves(c, A)

AddLeaves(c, A) ==
  IF c.do = "addAssignees" THEN DropLeaves(c.then, A \union c.people)
  ELSE DropLeaves(c, A)

(* What a request does once its user has been found to be allowed to.      *)
OnceAllowed(c) ==
  IF c.do \in {"findGroup", "findMembers"} THEN c.then ELSE c

LeavesAsAsked(s) ==
  LET c == OnceAllowed(pending[s].call)
  IN  AddLeaves(c, AssigneesOf(c.task))

AsAsked == \A s \in undisturbed : LeavesAsAsked(s)

(* A request that is not about assignees leaves nothing to compare.        *)
LEMMA OtherCallsLeave ==
  ASSUME NEW c, NEW A,
         \/ c.do \notin {"saveTask", "dropAssignees", "addAssignees"}
         \/ c.do = "addAssignees" /\ c.then = Done
  PROVE  AddLeaves(c, A)
BY DEF AddLeaves, DropLeaves, SaveLeaves, Done, Idle

LEMMA AllowedOnce ==
  ASSUME NEW c \in Allowed
  PROVE  OnceAllowed(c) = c
BY DEF Allowed, Saves, Drops, Adds, Creates, Assigns, Updates, OnceAllowed

(* A slot whose next call is c.                                            *)
LEMMA NextCall ==
  ASSUME PendingOK, NEW s \in Slots, NEW c, GoOn(s, c),
         AddLeaves(OnceAllowed(c), AssigneesOf(OnceAllowed(c).task)')
  PROVE  LeavesAsAsked(s)'
<1>1. pending'[s].call = c
  BY DEF PendingOK, GoOn, Request, Idle
<1>2. QED
  BY <1>1 DEF LeavesAsAsked, AssigneesOf

LEMMA EndLeaves ==
  ASSUME PendingOK, NEW s \in Slots, End(s)
  PROVE  LeavesAsAsked(s)'
<1>1. pending'[s].call = [do |-> "idle"]
  BY DEF PendingOK, End, Idle
<1>2. OnceAllowed(pending'[s].call) = [do |-> "idle"]
  BY <1>1 DEF OnceAllowed
<1>3. QED
  BY <1>2, OtherCallsLeave DEF LeavesAsAsked

LEMMA AddAssigneesLeave ==
  ASSUME NEW t, NEW P, NEW then, NEW A, DropLeaves(then, A \union P)
  PROVE  /\ AddLeaves(AddAssignees(t, P, then), A)
         /\ AddAssignees(t, P, then).task = t
BY DEF AddLeaves, AddAssignees

(* The differences an update has read lead from the assignees there are to *)
(* those it was asked for.                                                 *)
LEMMA DifferencesLeave ==
  ASSUME NEW c \in Updates
  PROVE  /\ AddLeaves(Differences(c), AssigneesOf(c.task))
         /\ Differences(c).task = c.task
<1> DEFINE A == AssigneesOf(c.task)
           added   == c.assignedTo \ A
           removed == IF c.assignedTo = {} THEN {} ELSE A \ c.assignedTo
           save    == [c EXCEPT !.do = "saveTask"]
           drop    == [ do |-> "dropAssignees", task |-> c.task,
                        people |-> removed, then |-> save ]
           remove  == IF removed = {} THEN save ELSE drop
<1>1. /\ save.do = "saveTask" /\ save.task = c.task
      /\ save.assignedTo = c.assignedTo
  BY DEF Updates
<1>2. Differences(c) = IF added = {} THEN remove
                       ELSE AddAssignees(c.task, added, remove)
  BY DEF Differences
<1>3. /\ c.assignedTo \subseteq A \union added
      /\ c.assignedTo # {} => ((A \union added) \ removed) = c.assignedTo
  OBVIOUS
<1> HIDE DEF remove, removed, drop, save
<1>4. ASSUME NEW B, c.assignedTo \subseteq B,
             c.assignedTo # {} => (B \ removed) = c.assignedTo
      PROVE  DropLeaves(remove, B)
  <2>1. CASE removed = {}
    BY <1>1, <1>4, <2>1 DEF DropLeaves, SaveLeaves, remove
  <2>2. CASE removed # {}
    BY <1>1, <1>4, <2>2 DEF DropLeaves, SaveLeaves, remove, drop
  <2>3. QED
    BY <2>1, <2>2
<1>5. remove.task = c.task /\ remove.do # "addAssignees"
  BY <1>1 DEF remove, drop
<1> HIDE DEF added, A
<1>6. CASE added = {}
  <2>1. /\ c.assignedTo \subseteq A
        /\ c.assignedTo # {} => (A \ removed) = c.assignedTo
    BY <1>3, <1>6
  <2>2. DropLeaves(remove, A)
    BY <1>4, <2>1
  <2>3. QED
    BY <1>2, <1>5, <1>6, <2>2 DEF AddLeaves, A
<1>7. CASE added # {}
  <2>1. DropLeaves(remove, A \union added)
    BY <1>3, <1>4
  <2>2. QED
    BY <1>2, <1>7, <2>1, AddAssigneesLeave DEF A
<1>8. QED
  BY <1>6, <1>7

(* The request of the slot that takes a step.                              *)
LEMMA OwnStepLeaves ==
  ASSUME IInv, NEW s \in Slots, Proceed(s), s \in undisturbed',
         s \in undisturbed => LeavesAsAsked(s)
  PROVE  LeavesAsAsked(s)'
<1>0. PendingOK
  BY DEF IInv
<1>1. PICK c \in Call : c = pending[s].call
  BY BusyRequest
     DEF IInv, Proceed, FindGroup, FindMembers, FindParent, InsertSubtask,
         InsertAssignees, FindAssigned, DeleteAssignee, FindTask,
         DropAssignees, SaveTask, DeleteTask, UpdatePositions, FindArchive,
         InsertArchive, SetArchive, DeleteArchive
<1>2. s \in undisturbed => AddLeaves(OnceAllowed(c),
                                     AssigneesOf(OnceAllowed(c).task))
  BY <1>1 DEF LeavesAsAsked
<1>3. CASE End(s)
  BY <1>0, <1>3, EndLeaves
<1>4. CASE ~End(s) /\ (FindGroup(s, c) \/ FindMembers(s, c))
  <2>1. c \in Permissions
    BY <1>1, <1>4, CallKinds DEF FindGroup, FindMembers
  <2>2. /\ c.then \in Allowed /\ OnceAllowed(c) = c.then
        /\ OnceAllowed([c EXCEPT !.do = "findMembers"]) = c.then
        /\ OnceAllowed(c.then) = c.then
    BY <2>1, AllowedOnce DEF Permissions, OnceAllowed
  <2>3. /\ s \in undisturbed /\ assigned' = assigned
        /\ GoOn(s, c.then) \/ GoOn(s, [c EXCEPT !.do = "findMembers"])
    BY <1>4 DEF FindGroup, FindMembers, Check, Go, GoOnIf, rows
  <2>4. AssigneesOf(c.then.task)' = AssigneesOf(c.then.task)
    BY <2>3 DEF AssigneesOf
  <2>5. QED
    BY <1>0, <1>2, <2>2, <2>3, <2>4, NextCall
<1>5. CASE ~End(s) /\ (FindParent(s, c) \/ InsertSubtask(s, c)
                         \/ FindAssigned(s, c) \/ FindArchive(s, c))
  <2>1. PICK d : /\ GoOn(s, d)
                 /\ \/ d.do \in {"insertTask", "archive"}
                    \/ d.do = "addAssignees" /\ d.then = Done
    <3>1. CASE FindParent(s, c)
      <4>1. [c EXCEPT !.do = "insertTask"].do = "insertTask"
        BY <3>1, CallKinds DEF FindParent, Creates
      <4>2. CASE InsertTask(s, c)
        BY <1>5, <4>2 DEF InsertTask, Check, Go, GoOnIf, AddAssignees
      <4>3. CASE ~InsertTask(s, c)
        BY <1>5, <3>1, <4>1, <4>3 DEF FindParent, Check, Go, GoOnIf
      <4>4. QED
        BY <4>2, <4>3
    <3>2. CASE FindArchive(s, c)
      <4>1. [c EXCEPT !.do = "archive"].do = "archive"
        BY <3>2, CallKinds DEF FindArchive, Removals
      <4>2. QED
        BY <1>5, <3>2, <4>1 DEF FindArchive, Check, Go, GoOnIf
    <3>3. CASE InsertSubtask(s, c)
      BY <1>5, <3>3
         DEF InsertSubtask, InsertTask, Check, Go, GoOnIf, AddAssignees
    <3>4. CASE FindAssigned(s, c)
      BY <1>5, <3>4 DEF FindAssigned, Check, Go, GoOnIf, AddAssignees
    <3>5. QED
      BY <1>5, <3>1, <3>2, <3>3, <3>4
  <2>2. OnceAllowed(d) = d
    BY <2>1 DEF OnceAllowed
  <2>3. QED
    BY <1>0, <2>1, <2>2, NextCall, OtherCallsLeave
<1>6. CASE ~End(s) /\ InsertAssignees(s, c)
  <2>1. c \in Adds
    BY <1>1, <1>6, CallKinds DEF InsertAssignees
  <2>2. /\ assigned' = assigned \union ({c.task} \X c.people)
        /\ c.then # Done /\ GoOn(s, c.then) /\ s \in undisturbed
    BY <1>6 DEF InsertAssignees, SetAssigned, Check, Go, GoOnIf
  <2>3. /\ c.then \in Saves \union Drops /\ c.then.task = c.task
        /\ c.people \in SUBSET Persons
        /\ c.do = "addAssignees"
    BY <2>1, <2>2 DEF Adds
  <2>4. /\ OnceAllowed(c) = c /\ OnceAllowed(c.then) = c.then
        /\ c.then.do # "addAssignees"
    BY <2>3, AllowedOnce DEF OnceAllowed, Allowed, Saves, Drops
  <2>5. AssigneesOf(c.task)' = AssigneesOf(c.task) \union c.people
    BY <2>2, <2>3 DEF AssigneesOf
  <2>6. DropLeaves(c.then, AssigneesOf(c.task) \union c.people)
    BY <1>2, <2>2, <2>3, <2>4 DEF AddLeaves
  <2>7. AddLeaves(c.then, AssigneesOf(c.then.task)')
    BY <2>3, <2>4, <2>5, <2>6 DEF AddLeaves
  <2>8. QED
    BY <1>0, <2>2, <2>4, <2>7, NextCall
<1>7. CASE ~End(s) /\ DropAssignees(s, c)
  <2>1. c \in Drops
    BY <1>1, <1>7, CallKinds DEF DropAssignees
  <2>2. /\ assigned' = assigned \ ({c.task} \X c.people)
        /\ GoOn(s, c.then) /\ s \in undisturbed
    BY <1>7 DEF DropAssignees, SetAssigned, Go, GoOnIf
  <2>3. /\ c.then \in Saves /\ c.then.task = c.task
        /\ c.do = "dropAssignees"
    BY <2>1 DEF Drops
  <2>4. /\ OnceAllowed(c) = c /\ OnceAllowed(c.then) = c.then
        /\ c.then.do = "saveTask"
    BY <2>3, AllowedOnce DEF OnceAllowed, Allowed, Saves
  <2>5. AssigneesOf(c.task)' = AssigneesOf(c.task) \ c.people
    BY <2>2 DEF AssigneesOf
  <2>6. SaveLeaves(c.then, AssigneesOf(c.task) \ c.people)
    BY <1>2, <2>2, <2>3, <2>4 DEF AddLeaves, DropLeaves
  <2>7. AddLeaves(c.then, AssigneesOf(c.then.task)')
    BY <2>3, <2>4, <2>5, <2>6 DEF AddLeaves, DropLeaves
  <2>8. QED
    BY <1>0, <2>2, <2>4, <2>7, NextCall
<1>8. CASE ~End(s) /\ FindTask(s, c)
  <2>1. c \in Updates
    BY <1>1, <1>8, CallKinds DEF FindTask
  <2>2. PICK then, next :
          /\ then = Differences(c)
          /\ next = Permission(tasks[c.task].group, c.assignedTo, then)
          /\ GoOn(s, next)
    BY <1>8 DEF FindTask
  <2>3. OnceAllowed(next) = then
    BY <2>2 DEF OnceAllowed, Permission
  <2>4. AssigneesOf(c.task)' = AssigneesOf(c.task)
    BY <1>8 DEF FindTask, rows, AssigneesOf
  <2>5. AddLeaves(then, AssigneesOf(then.task)')
    BY <2>1, <2>2, <2>4, DifferencesLeave
  <2>6. QED
    BY <1>0, <2>2, <2>3, <2>5, NextCall
<1>9. CASE \/ DeleteAssignee(s, c) \/ SaveTask(s, c) \/ DeleteTask(s, c)
           \/ UpdatePositions(s, c) \/ InsertArchive(s, c)
           \/ SetArchive(s, c) \/ DeleteArchive(s, c)
  <2>1. End(s)
    BY <1>9
       DEF DeleteAssignee, SetAssigned, SaveTask, DeleteTask,
           UpdatePositions, InsertArchive, SetArchive, SetArchives,
           DeleteArchive, Check, Go, GoOnIf
  <2>2. QED
    BY <1>0, <2>1, EndLeaves
<1>10. QED
  BY <1>1, <1>3, <1>4, <1>5, <1>6, <1>7, <1>8, <1>9 DEF Proceed

(* The requests of the other slots: one whose assignees have been changed  *)
(* is not undisturbed any more.                                            *)
LEMMA OtherStepLeaves ==
  ASSUME NEW r, r \in undisturbed, LeavesAsAsked(r),
         assigned' = assigned, pending'[r] = pending[r]
  PROVE  LeavesAsAsked(r)'
BY DEF LeavesAsAsked, AssigneesOf

LEMMA ProceedElsewhere ==
  ASSUME PendingOK, NEW s \in Slots, Proceed(s), NEW r \in Slots, r # s
  PROVE  pending'[r] = pending[r]
BY DEF PendingOK, Proceed, FindGroup, FindMembers, FindParent,
       InsertSubtask, InsertTask, InsertAssignees, FindAssigned,
       DeleteAssignee, FindTask, DropAssignees, SetAssigned, SaveTask,
       DeleteTask, UpdatePositions, FindArchive, InsertArchive, SetArchive,
       SetArchives, DeleteArchive, Check, Go, GoOnIf, GoOn, End

LEMMA ProceedDisturbs ==
  ASSUME PendingOK, NEW s \in Slots, Proceed(s), NEW r \in undisturbed',
         r \in Slots, r # s
  PROVE  /\ r \in undisturbed /\ assigned' = assigned
         /\ pending'[r] = pending[r]
<1>1. pending'[r] = pending[r]
  BY ProceedElsewhere
<1>2. r \in undisturbed /\ assigned' = assigned
  <2> DEFINE c == pending[s].call
  <2>1. CASE \/ FindGroup(s, c) \/ FindMembers(s, c) \/ FindParent(s, c)
             \/ InsertSubtask(s, c) \/ FindAssigned(s, c) \/ FindTask(s, c)
             \/ SaveTask(s, c) \/ UpdatePositions(s, c)
             \/ FindArchive(s, c) \/ InsertArchive(s, c)
             \/ SetArchive(s, c) \/ DeleteArchive(s, c)
    BY <2>1
       DEF FindGroup, FindMembers, FindParent, InsertSubtask, InsertTask,
           FindAssigned, FindTask, SaveTask, UpdatePositions, FindArchive,
           InsertArchive, SetArchive, SetArchives, DeleteArchive, Check,
           rows
  <2>2. CASE \/ InsertAssignees(s, c) \/ DeleteAssignee(s, c)
             \/ DropAssignees(s, c) \/ DeleteTask(s, c)
    BY <2>2
       DEF InsertAssignees, DeleteAssignee, DropAssignees, DeleteTask,
           SetAssigned, Check, rows
  <2>3. QED
    BY <2>1, <2>2 DEF Proceed
<1>3. QED
  BY <1>1, <1>2

LEMMA ArriveDisturbs ==
  ASSUME PendingOK, NEW s \in Slots, NEW u \in Clients, Arrive(s, u),
         NEW r \in undisturbed', r \in Slots
  PROVE  /\ r \in undisturbed /\ assigned' = assigned
         /\ pending'[r] = pending[r]
<1>1. PICK op, c : Arrives(s, op, u, c)
  BY DEF Arrive, createTask, AssignTask, removeTaskAssigned, updateTask,
         removeTask, archiveTask, reorderTasks, toggleArchiveUnarchiveTask,
         unarchiveTask, deleteArchiveTask
<1>2. QED
  BY <1>1 DEF PendingOK, Arrives, Enter, rows

(* An update whose differences nobody else has made stale leaves the       *)
(* assignees it was asked for, those it adds and those it removes, in two  *)
(* statements, from what it read two reads before; and all of them are in  *)
(* before anybody is taken out.                                            *)
THEOREM UpdatesApplied == Spec => []AssigneesUpdated
<1>1. Init => AsAsked
  BY DEF Init, AsAsked
<1>2. IInv /\ IInv' /\ AsAsked /\ [Next]_vars => AsAsked'
  <2> SUFFICES ASSUME IInv, IInv', AsAsked, [Next]_vars,
                      NEW r \in undisturbed'
               PROVE  LeavesAsAsked(r)'
    BY DEF AsAsked
  <2>1. r \in Slots /\ PendingOK
    BY DEF IInv, RowsOK, TypeOK
  <2>2. ASSUME NEW s \in Slots, Proceed(s)
        PROVE  LeavesAsAsked(r)'
    <3>1. CASE r = s
      BY <2>2, <3>1, OwnStepLeaves DEF AsAsked
    <3>2. CASE r # s
      BY <2>1, <2>2, <3>2, ProceedDisturbs, OtherStepLeaves DEF AsAsked
    <3>3. QED
      BY <3>1, <3>2
  <2>3. ASSUME NEW s \in Slots, NEW u \in Clients, Arrive(s, u)
        PROVE  LeavesAsAsked(r)'
    BY <2>1, <2>3, ArriveDisturbs, OtherStepLeaves DEF AsAsked
  <2>4. ASSUME NEW g \in Groups,
               (\E p \in Persons : PeopleChange(g, p)) \/ GroupDeleted(g)
        PROVE  LeavesAsAsked(r)'
    <3>1. r \in undisturbed /\ assigned' = assigned
          /\ pending'[r] = pending[r]
      BY <2>4 DEF PeopleChange, GroupDeleted, Aside
    <3>2. QED
      BY <3>1, OtherStepLeaves DEF AsAsked
  <2>5. CASE UNCHANGED vars
    <3>1. r \in undisturbed /\ assigned' = assigned
          /\ pending'[r] = pending[r]
      BY <2>5 DEF vars, rows
    <3>2. QED
      BY <3>1, OtherStepLeaves DEF AsAsked
  <2>6. ~Restart
    BY DEF Restart
  <2>7. QED
    BY <2>2, <2>3, <2>4, <2>5, <2>6 DEF Next
<1>3. AsAsked => AssigneesUpdated
  BY DEF AsAsked, AssigneesUpdated, LeavesAsAsked, OnceAllowed, AddLeaves,
         DropLeaves, SaveLeaves, Doing
<1>4. QED
  BY <1>1, <1>2, <1>3, Inductive, PTL DEF Spec

-----------------------------------------------------------------------------
(* A reordering that answers and has changed a task has written the whole  *)
(* list, each task in its place, and found all of it.                      *)
LEMMA ReorderStep ==
  ASSUME IInv, Next, NEW s \in Slots, Doing(s, "reorder"),
         pending'[s] = Idle, tasks' # tasks
  PROVE  UpdatePositions(s, pending[s].call)
<1>1. PendingOK
  BY DEF IInv
<1>2. pending'[s] # pending[s]
  BY DEF Doing, Idle
<1>3. ASSUME NEW r \in Slots, Proceed(r)
      PROVE  UpdatePositions(s, pending[s].call)
  <2>1. r = s
    BY <1>1, <1>2, <1>3, ProceedElsewhere
  <2>2. QED
    BY <1>3, <2>1
       DEF Doing, Proceed, FindGroup, FindMembers, FindParent,
           InsertSubtask, InsertAssignees, FindAssigned, DeleteAssignee,
           FindTask, DropAssignees, SaveTask, DeleteTask, FindArchive,
           InsertArchive, SetArchive, DeleteArchive
<1>4. ASSUME NEW r \in Slots, NEW u \in Clients, Arrive(r, u)
      PROVE  FALSE
  BY <1>4
     DEF Arrive, createTask, AssignTask, removeTaskAssigned, updateTask,
         removeTask, archiveTask, reorderTasks, toggleArchiveUnarchiveTask,
         unarchiveTask, deleteArchiveTask, Arrives, rows
<1>5. ASSUME NEW g \in Groups,
             (\E p \in Persons : PeopleChange(g, p)) \/ GroupDeleted(g)
      PROVE  FALSE
  BY <1>2, <1>5 DEF PeopleChange, GroupDeleted, Aside
<1>6. QED
  BY <1>3, <1>4, <1>5 DEF Next, Restart, rows

(* Positions change for a whole list, though one of its tasks may have     *)
(* been removed since the client saw it.                                   *)
THEOREM ReordersWhole == Spec => ReorderedTogether
<1> DEFINE Whole(s) ==
             Doing(s, "reorder") /\ pending'[s] = Idle /\ tasks' # tasks =>
               LET list == pending[s].call.list
               IN  /\ Range(list) \subseteq DOMAIN tasks'
                   /\ \A i \in DOMAIN list : tasks'[list[i]].position = i
<1>1. ASSUME IInv, Next, NEW s \in Slots
      PROVE  Whole(s)
  <2> SUFFICES ASSUME Doing(s, "reorder"), pending'[s] = Idle,
                      tasks' # tasks
               PROVE  LET list == pending[s].call.list
                      IN  /\ Range(list) \subseteq DOMAIN tasks'
                          /\ \A i \in DOMAIN list :
                               tasks'[list[i]].position = i
    OBVIOUS
  <2> DEFINE list == pending[s].call.list
  <2>1. UpdatePositions(s, pending[s].call)
    BY <1>1, ReorderStep
  <2>2. Range(list) \subseteq DOMAIN tasks /\ tasks' = Positions(list)
    BY <2>1 DEF UpdatePositions
  <2>3. list \in Orders /\ TypeOK
    BY <1>1, BusyRequest, CallKinds
       DEF IInv, RowsOK, Doing, Reorders
  <2> HIDE DEF list
  <2>4. \A i \in DOMAIN list : list[i] \in DOMAIN tasks
    BY <2>2 DEF Range
  <2>5. QED
    BY <2>2, <2>3, <2>4, PositionsType DEF list
<1>2. IInv /\ [Next]_vars => [\A s \in Slots : Whole(s)]_vars
  BY <1>1
<1>3. QED
  BY <1>2, Inductive, PTL DEF Spec, ReorderedTogether

-----------------------------------------------------------------------------
(***************************************************************************)
(* What can be reached from the lists of the groups.  A task can when it   *)
(* is in every set that holds the first tasks of the groups and the        *)
(* subtasks of its own tasks.  A step after which the tasks that are left  *)
(* have their parents and their groups, and have lost none of them, puts   *)
(* none of the tasks reached out of reach.                                 *)
(***************************************************************************)
LEMMA StillReached ==
  ASSUME \A t \in DOMAIN tasks \intersect DOMAIN tasks' :
           /\ tasks'[t].parent = tasks[t].parent
           /\ tasks'[t].group = tasks[t].group
           /\ tasks[t].parent \in DOMAIN tasks =>
                tasks[t].parent \in DOMAIN tasks'
           /\ tasks[t].group \in groups => tasks[t].group \in groups',
         NEW t \in DOMAIN tasks',
         \/ t \in Reachable
         \/ /\ t \notin DOMAIN tasks /\ tasks'[t].group \in groups'
            /\ \/ tasks'[t].parent = Null
               \/ tasks'[t].parent \in Reachable \intersect DOMAIN tasks'
  PROVE  t \in Reachable'
<1> DEFINE Roots == {j \in DOMAIN tasks' :
                       tasks'[j].group \in groups' /\ tasks'[j].parent = Null}
<1>1. \A j \in Reachable :
        /\ j \in DOMAIN tasks
        /\ \A S \in SUBSET DOMAIN tasks :
             (\A i \in DOMAIN tasks :
                (\/ tasks[i].group \in groups /\ tasks[i].parent = Null
                 \/ tasks[i].parent \in S) => i \in S)
               => j \in S
  BY DEF Reachable, WithSubtasks, Subtasks, getTaskByGroupId
<1>2. SUFFICES ASSUME NEW S \in SUBSET DOMAIN tasks',
                      \A i \in DOMAIN tasks' :
                        (\/ /\ tasks'[i].group \in groups'
                            /\ tasks'[i].parent = Null
                         \/ tasks'[i].parent \in S) => i \in S
               PROVE  t \in S
  BY DEF Reachable, WithSubtasks, Subtasks, getTaskByGroupId
<1> DEFINE gone == DOMAIN tasks \ DOMAIN tasks'
           S0 == (S \intersect DOMAIN tasks) \union gone
<1>3. ASSUME NEW i \in DOMAIN tasks,
             \/ tasks[i].group \in groups /\ tasks[i].parent = Null
             \/ tasks[i].parent \in S0
      PROVE  i \in S0
  BY <1>2, <1>3
<1>4. \A j \in Reachable \intersect DOMAIN tasks' : j \in S
  <2>1. S0 \in SUBSET DOMAIN tasks
    OBVIOUS
  <2> HIDE DEF S0
  <2>2. \A j \in Reachable : j \in S0
    BY <1>1, <1>3, <2>1
  <2>3. QED
    BY <2>2 DEF S0
<1>5. QED
  BY <1>2, <1>4

(* A removal takes whole branches.                                         *)
LEMMA CascadeReach ==
  ASSUME NEW T \in SUBSET DOMAIN tasks, Cascade(T),
         \A t \in DOMAIN tasks \ T :
           tasks[t].group \in groups => tasks[t].group \in groups',
         NEW t \in DOMAIN tasks', t \in Reachable
  PROVE  t \in Reachable'
<1> DEFINE gone == WithSubtasks(T)
<1>1. /\ T \subseteq gone /\ gone \subseteq DOMAIN tasks
      /\ Subtasks(gone) \subseteq gone
  BY WithSubtasksClosed
<1>2. tasks' = Restrict(tasks, DOMAIN tasks \ gone)
  BY DEF Cascade
<1> HIDE DEF gone
<1>3. /\ DOMAIN tasks' = DOMAIN tasks \ gone
      /\ \A j \in DOMAIN tasks' : tasks'[j] = tasks[j]
  BY <1>2 DEF Restrict
<1>4. \A j \in DOMAIN tasks' : tasks[j].parent \notin gone
  BY <1>1, <1>3 DEF Subtasks
<1>5. QED
  BY <1>1, <1>3, <1>4, StillReached

LEMMA CascadeOnlyRemoves ==
  ASSUME NEW T, Cascade(T)
  PROVE  DOMAIN tasks' \subseteq DOMAIN tasks
BY DEF Cascade, Restrict

(* A move keeps all but the branch that moves in reach, and that one too   *)
(* when it moves below a task in reach that is not of the branch.          *)
LEMMA MoveReach ==
  ASSUME NEW x \in DOMAIN tasks, NEW p, DOMAIN tasks' = DOMAIN tasks,
         tasks'[x].parent = p,
         \A j \in DOMAIN tasks : tasks'[j].group = tasks[j].group,
         \A j \in DOMAIN tasks \ {x} : tasks'[j].parent = tasks[j].parent,
         groups' = groups,
         NEW t \in Reachable,
         \/ t \notin WithSubtasks({x})
         \/ p \in Reachable \ WithSubtasks({x})
  PROVE  t \in Reachable'
<1> DEFINE D == WithSubtasks({x})
<1>1. SUFFICES ASSUME NEW S \in SUBSET DOMAIN tasks',
                      \A i \in DOMAIN tasks' :
                        (\/ /\ tasks'[i].group \in groups'
                            /\ tasks'[i].parent = Null
                         \/ tasks'[i].parent \in S) => i \in S
               PROVE  t \in S
  BY DEF Reachable, WithSubtasks, Subtasks, getTaskByGroupId
<1>2. /\ x \in D /\ D \subseteq DOMAIN tasks
      /\ \A i \in DOMAIN tasks : tasks[i].parent \in D => i \in D
      /\ \A Q \in SUBSET DOMAIN tasks :
           {x} \union Subtasks(Q) \subseteq Q => D \subseteq Q
  BY WithSubtasksClosed DEF Subtasks
<1> HIDE DEF D
<1>3. Reachable \subseteq S \union D
  <2> DEFINE Q == S \union D
  <2>1. Q \in SUBSET DOMAIN tasks
    BY <1>2
  <2>2. \A i \in DOMAIN tasks :
          (\/ tasks[i].group \in groups /\ tasks[i].parent = Null
           \/ tasks[i].parent \in Q) => i \in Q
    BY <1>1, <1>2
  <2> HIDE DEF Q
  <2>3. Reachable \subseteq Q
    BY <2>1, <2>2 DEF Reachable, WithSubtasks, Subtasks, getTaskByGroupId
  <2>4. QED
    BY <2>3 DEF Q
<1>4. CASE t \notin D
  BY <1>3, <1>4
<1>5. CASE p \in Reachable \ D
  <2>1. x \in S
    BY <1>1, <1>3, <1>5
  <2>2. {x} \union Subtasks(S) \subseteq S
    BY <1>1, <2>1 DEF Subtasks
  <2>3. D \subseteq S
    BY <1>2, <2>2
  <2>4. QED
    BY <1>3, <2>3
<1>6. QED
  BY <1>4, <1>5 DEF D

(* The tasks a step may have to keep in reach.                             *)
ToKeep(t) ==
  \/ t \in Reachable
  \/ t \notin DOMAIN tasks /\ tasks'[t].parent \in Reachable \union {Null}

LEMMA ProceedReach ==
  ASSUME IInv, NEW s \in Slots, Proceed(s), tasks' # tasks,
         NEW t \in DOMAIN tasks', ToKeep(t)
  PROVE  \/ t \in Reachable'
         \/ t \in TakenAlong(s) /\ pending'[s] = Idle
<1> DEFINE c == pending[s].call
<1>1. TypeOK /\ PendingOK /\ TaskReferences
  BY DEF IInv, RowsOK
<1>2. \/ FindParent(s, c) /\ InsertTask(s, c)
      \/ InsertSubtask(s, c) /\ InsertTask(s, c)
      \/ SaveTask(s, c) \/ DeleteTask(s, c) \/ UpdatePositions(s, c)
  BY DEF Proceed, FindGroup, FindMembers, FindParent, InsertSubtask,
         InsertAssignees, FindAssigned, DeleteAssignee, FindTask,
         DropAssignees, SetAssigned, FindArchive, InsertArchive,
         SetArchive, SetArchives, DeleteArchive, Check, rows
<1>3. CASE InsertTask(s, c)
  <2> DEFINE n == nextId["task"]
  <2>1. /\ ~(n > MaxTasks) /\ c.group \in groups
        /\ tasks' = WithRow(tasks, n, NewTask(c.group, c.parent))
        /\ UNCHANGED groups
    BY <1>3 DEF InsertTask, Check, rows
  <2>2. n \notin DOMAIN tasks
    BY <2>1 DEF IInv, RowsOK, TypeOK, Numbered, TaskIds
  <2>3. /\ DOMAIN tasks' = DOMAIN tasks \union {n}
        /\ tasks'[n].group = c.group
        /\ \A j \in DOMAIN tasks : tasks'[j] = tasks[j]
    BY <2>1, <2>2 DEF WithRow, NewTask
  <2>4. Reachable \subseteq DOMAIN tasks
    BY DEF Reachable, WithSubtasks
  <2>5. t \notin DOMAIN tasks => t = n
    BY <2>3
  <2>6. QED
    BY <2>1, <2>3, <2>4, <2>5, StillReached DEF ToKeep
<1>4. CASE SaveTask(s, c)
  <2>1. /\ Live(c.task) /\ Live(c.parent) /\ groups' = groups
        /\ tasks' = [tasks EXCEPT ![c.task].parent = c.parent]
        /\ pending'[s] = Idle
    BY <1>1, <1>4 DEF SaveTask, End, PendingOK
  <2>2. /\ DOMAIN tasks' = DOMAIN tasks
        /\ tasks'[c.task].parent = c.parent
        /\ \A j \in DOMAIN tasks : tasks'[j].group = tasks[j].group
        /\ \A j \in DOMAIN tasks \ {c.task} :
             tasks'[j].parent = tasks[j].parent
    BY <1>1, <2>1 DEF TypeOK, Task, Live
  <2>3. t \in Reachable
    BY <2>2 DEF ToKeep
  <2>4. CASE \/ t \notin WithSubtasks({c.task})
             \/ c.parent \in Reachable \ WithSubtasks({c.task})
    <3>1. c.task \in DOMAIN tasks
      BY <2>1 DEF Live
    <3>2. QED
      BY <2>1, <2>2, <2>3, <2>4, <3>1, MoveReach
  <2>5. CASE /\ t \in WithSubtasks({c.task})
             /\ c.parent \notin Reachable \ WithSubtasks({c.task})
    <3>1. Doing(s, "saveTask")
      BY <1>4 DEF SaveTask, Doing
    <3>2. t \in TakenAlong(s)
      BY <2>5, <3>1 DEF TakenAlong
    <3>3. QED
      BY <2>1, <3>2
  <2>6. QED
    BY <2>4, <2>5
<1>5. CASE DeleteTask(s, c)
  <2> DEFINE T == {c.task} \intersect DOMAIN tasks
  <2>1. Cascade(T) /\ groups' = groups
    BY <1>5 DEF DeleteTask
  <2>2. T \in SUBSET DOMAIN tasks
    OBVIOUS
  <2> HIDE DEF T
  <2>3. t \in Reachable
    BY <2>1, CascadeOnlyRemoves DEF ToKeep
  <2>4. QED
    BY <2>1, <2>2, <2>3, CascadeReach
<1>6. CASE UpdatePositions(s, c)
  <2>1. c \in Reorders
    BY <1>1, <1>6, BusyRequest, CallKinds DEF UpdatePositions
  <2>2. tasks' = Positions(c.list) /\ groups' = groups
    BY <1>6 DEF UpdatePositions
  <2>3. /\ DOMAIN tasks' = DOMAIN tasks
        /\ \A j \in DOMAIN tasks : /\ tasks'[j].group = tasks[j].group
                                   /\ tasks'[j].parent = tasks[j].parent
    BY <1>1, <2>1, <2>2, PositionsType DEF Reorders
  <2>4. QED
    BY <2>2, <2>3, StillReached DEF ToKeep
<1>7. QED
  BY <1>2, <1>3, <1>4, <1>5, <1>6

(* A task that can be reached, or that a request inserts below one that it *)
(* looked up before, can be reached afterwards, or has gone with the one   *)
(* above it, unless this step moves a branch under one of its own tasks or *)
(* out of reach.                                                           *)
THEOREM ReachKept == Spec => StaysReachable
<1> DEFINE Keeps ==
      <<tasks, groups>>' # <<tasks, groups>> =>
        \A t \in DOMAIN tasks' :
          \/ t \in Reachable
          \/ /\ t \notin DOMAIN tasks
             /\ tasks'[t].parent \in Reachable \union {Null}
          => \/ t \in Reachable'
             \/ \E s \in Slots : t \in TakenAlong(s) /\ pending'[s] = Idle
<1>1. ASSUME IInv, Next
      PROVE  Keeps
  <2> SUFFICES ASSUME <<tasks, groups>>' # <<tasks, groups>>,
                      NEW t \in DOMAIN tasks', ToKeep(t)
               PROVE  \/ t \in Reachable'
                      \/ \E s \in Slots :
                           t \in TakenAlong(s) /\ pending'[s] = Idle
    BY DEF ToKeep
  <2>1. ASSUME NEW s \in Slots, Proceed(s)
        PROVE  \/ t \in Reachable'
               \/ t \in TakenAlong(s) /\ pending'[s] = Idle
    <3>1. groups' = groups
      BY <2>1 DEF Proceed, FindGroup, FindMembers, FindParent, InsertSubtask,
         InsertTask, InsertAssignees, FindAssigned, DeleteAssignee, FindTask,
         DropAssignees, SetAssigned, SaveTask, DeleteTask, UpdatePositions,
         FindArchive, InsertArchive, SetArchive, SetArchives, DeleteArchive,
         Check, rows
    <3>2. QED
      BY <1>1, <2>1, <3>1, ProceedReach
  <2>2. ASSUME NEW s \in Slots, NEW u \in Clients, Arrive(s, u)
        PROVE  FALSE
    BY <2>2
       DEF Arrive, createTask, AssignTask, removeTaskAssigned, updateTask,
           removeTask, archiveTask, reorderTasks,
           toggleArchiveUnarchiveTask, unarchiveTask, deleteArchiveTask,
           Arrives, rows
  <2>3. ASSUME NEW g \in Groups, NEW p \in Persons, PeopleChange(g, p)
        PROVE  FALSE
    BY <2>3 DEF PeopleChange
  <2>4. ASSUME NEW g \in Groups, GroupDeleted(g)
        PROVE  t \in Reachable'
    <3> DEFINE T == {j \in DOMAIN tasks : tasks[j].group = g}
    <3>1. Cascade(T) /\ groups' = groups \ {g}
      BY <2>4 DEF GroupDeleted
    <3>2. /\ T \in SUBSET DOMAIN tasks
          /\ \A j \in DOMAIN tasks \ T :
               tasks[j].group \in groups => tasks[j].group \in groups'
      BY <3>1
    <3> HIDE DEF T
    <3>3. t \in Reachable
      BY <3>1, CascadeOnlyRemoves DEF ToKeep
    <3>4. QED
      BY <3>1, <3>2, <3>3, CascadeReach
  <2>5. ~Restart
    BY DEF Restart, rows
  <2>6. QED
    BY <1>1, <2>1, <2>2, <2>3, <2>4, <2>5 DEF Next
<1>2. IInv /\ [Next]_vars => [Keeps]_vars
  BY <1>1
<1>3. QED
  BY <1>2, Inductive, PTL DEF Spec, StaysReachable
=============================================================================
