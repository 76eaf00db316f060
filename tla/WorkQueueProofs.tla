-------------------------- MODULE WorkQueueProofs --------------------------
(***************************************************************************)
(* Proofs about WorkQueue, for any number of items, coordinators, workers  *)
(* and attempts.                                                           *)
(***************************************************************************)
EXTENDS WorkQueue, TLAPS

(***************************************************************************)
(* Types.                                                                  *)
(***************************************************************************)

LEMMA TypeInit == Init => TypeOK
<1> SUFFICES ASSUME Init PROVE TypeOK
  OBVIOUS
<1>1. /\ status \in [Items -> Statuses] /\ attempts \in [Items -> Nat]
      /\ rows \in [Items -> Nat] /\ old \subseteq Items /\ bars \subseteq Items
  BY DEF Init, Statuses
<1>2. /\ pc \in [Coordinators -> {"down", "loop", "select", "update", "reread", "gather"}]
      /\ ids \in [Coordinators -> SUBSET Items]
      /\ task \in [Coordinators -> [Items -> Tasks]]
      /\ \A c \in Coordinators : task[c] = NoTask
  BY DEF Init, NoTasks, NoTask, Tasks
<1>3. {crashes, resets, MaxInterruptions - crashes - resets} \subseteq Nat
  BY WorkQueueAssumption DEF Init
<1> QED  BY <1>1, <1>2, <1>3 DEF Init, TypeOK

\* A released claim is pending, and nothing else changes.
LEMMA ReleasedIsStatus ==
    ASSUME TypeOK, NEW S
    PROVE  Released(S) \in [Items -> Statuses]
  BY DEF TypeOK, Released, Statuses

\* A task of a coordinator that gathers changes.
LEMMA TypeAnswer ==
    ASSUME TypeOK, NEW c \in Coordinators, NEW i \in Items, NEW t \in Tasks,
           pc[c] = "gather", Answer(c, i, t)
    PROVE  /\ task' \in [Coordinators -> [Items -> Tasks]]
           /\ \A d \in Coordinators : pc[d] # "gather" => task'[d] = NoTask
  BY DEF TypeOK, Answer

\* Steps of the queue and of the processes.
LEMMA TypeStep ==
    ASSUME TypeOK, [Next]_vars
    PROVE  TypeOK'
<1>1. ASSUME NEW i \in Items, Enqueue(i) \/ Age(i)
      PROVE  TypeOK'
  BY <1>1 DEF TypeOK, Enqueue, Age, Statuses, files, bounds, given
<1>2. ASSUME NEW c \in Coordinators, ReleaseStale(c) \/ Select(c)
      PROVE  TypeOK'
  <2>1. CASE ReleaseStale(c)
    <3>1. Released(old) \in [Items -> Statuses]
      BY ReleasedIsStatus
    <3> QED  BY <2>1, <3>1 DEF TypeOK, ReleaseStale, files, bounds, given
  <2>2. CASE Select(c)
    BY <2>2 DEF TypeOK, Select, Batches, With, queue, files, bounds, given
  <2> QED  BY <1>2, <2>1, <2>2
<1>3. ASSUME NEW c \in Coordinators, Update(c)
      PROVE  TypeOK'
  <2>1. /\ status' \in [Items -> Statuses]
        /\ attempts' \in [Items -> Nat]
    BY <1>3 DEF TypeOK, Update, Statuses
  <2>2. /\ old' \subseteq Items
        /\ pc' \in [Coordinators -> {"down", "loop", "select", "update", "reread", "gather"}]
        /\ \A d \in Coordinators : pc'[d] # "gather" => task'[d] = NoTask
    BY <1>3 DEF TypeOK, Update
  <2> QED  BY <1>3, <2>1, <2>2 DEF TypeOK, Update, files, bounds, given
<1>4. ASSUME NEW c \in Coordinators, Reread(c)
      PROVE  TypeOK'
  <2> DEFINE batch == ids[c] \cap With("in_progress")
  <2>1. [i \in Items |-> IF i \in batch THEN "start" ELSE "none"] \in [Items -> Tasks]
    BY DEF Tasks
  <2>2. batch = {} => [i \in Items |-> IF i \in batch THEN "start" ELSE "none"] = NoTask
    BY DEF NoTask
  <2>3. /\ task' = [task EXCEPT ![c] = [i \in Items |-> IF i \in batch THEN "start" ELSE "none"]]
        /\ pc' = [pc EXCEPT ![c] = IF batch = {} THEN "loop" ELSE "gather"]
    BY <1>4 DEF Reread
  <2> HIDE DEF batch
  <2>4. /\ task' \in [Coordinators -> [Items -> Tasks]]
        /\ pc' \in [Coordinators -> {"down", "loop", "select", "update", "reread", "gather"}]
        /\ \A d \in Coordinators : pc'[d] # "gather" => task'[d] = NoTask
    BY <2>1, <2>2, <2>3 DEF TypeOK
  <2> QED  BY <1>4, <2>4 DEF TypeOK, Reread, queue, files, bounds, given
<1>5. ASSUME NEW c \in Coordinators, NEW i \in Items, Fetch(c, i)
      PROVE  TypeOK'
  <2>1. PICK t \in Tasks : Answer(c, i, t)
    BY <1>5 DEF Fetch, Tasks, Results
  <2>2. /\ task' \in [Coordinators -> [Items -> Tasks]]
        /\ \A d \in Coordinators : pc[d] # "gather" => task'[d] = NoTask
    BY <1>5, <2>1, TypeAnswer DEF Fetch
  <2>3. bars' \subseteq Items
    BY <1>5 DEF Fetch, TypeOK
  <2> QED  BY <1>5, <2>2, <2>3 DEF TypeOK, Fetch, queue, bounds, given
<1>6. ASSUME NEW c \in Coordinators, NEW i \in Items, Label(c, i)
      PROVE  TypeOK'
  <2>1. PICK t \in Tasks : Answer(c, i, t)
    BY <1>6 DEF Label, Tasks, Results
  <2>2. /\ task' \in [Coordinators -> [Items -> Tasks]]
        /\ \A d \in Coordinators : pc[d] # "gather" => task'[d] = NoTask
    BY <1>6, <2>1, TypeAnswer DEF Label
  <2>3. rows' \in [Items -> Nat]
    BY <1>6 DEF Label, TypeOK
  <2> QED  BY <1>6, <2>2, <2>3 DEF TypeOK, Label, queue, bounds, given
<1>7. ASSUME NEW c \in Coordinators, NEW i \in Items, FailTransient(c, i)
      PROVE  TypeOK'
  <2>1. PICK t \in Tasks : Answer(c, i, t)
    BY <1>7 DEF FailTransient, Tasks, Results
  <2>2. /\ task' \in [Coordinators -> [Items -> Tasks]]
        /\ \A d \in Coordinators : pc[d] # "gather" => task'[d] = NoTask
    BY <1>7, <2>1, TypeAnswer DEF FailTransient, Gathered
  <2> QED  BY <1>7, <2>2 DEF TypeOK, FailTransient, queue, files, bounds, given
<1>8. ASSUME NEW c \in Coordinators, NEW i \in Items, WriteResult(c, i)
      PROVE  TypeOK'
  <2>1. /\ task' \in [Coordinators -> [Items -> Tasks]]
        /\ \A d \in Coordinators : pc[d] # "gather" => task'[d] = NoTask
    BY <1>8, TypeAnswer DEF WriteResult, Gathered, Tasks
  <2>2. status' \in [Items -> Statuses]
    BY <1>8 DEF WriteResult, TypeOK, Statuses
  <2> QED  BY <1>8, <2>1, <2>2 DEF TypeOK, WriteResult, files, bounds, given
<1>9. ASSUME NEW c \in Coordinators, Loop(c)
      PROVE  TypeOK'
  BY <1>9 DEF TypeOK, Loop, queue, files, bounds, given
<1>10. ASSUME NEW c \in Coordinators, Start(c)
       PROVE  TypeOK'
  <2>1. Released(With("in_progress")) \in [Items -> Statuses]
    BY ReleasedIsStatus
  <2> QED  BY <1>10, <2>1 DEF TypeOK, Start, ResetInProgress, files, given
<1>11. ASSUME NEW c \in Coordinators, Crash(c)
       PROVE  TypeOK'
  <2>1. {crashes', resets', MaxInterruptions - crashes' - resets'} \subseteq Nat
    BY <1>11, WorkQueueAssumption DEF TypeOK, Crash
  <2>2. NoTask \in [Items -> Tasks]
    BY DEF NoTask, Tasks
  <2>3. /\ task' \in [Coordinators -> [Items -> Tasks]]
        /\ \A d \in Coordinators : pc'[d] # "gather" => task'[d] = NoTask
    BY <1>11, <2>2 DEF TypeOK, Crash
  <2> QED  BY <1>11, <2>1, <2>3 DEF TypeOK, Crash, queue, files, given
<1>12. CASE ResetStale
  <2>1. Released(With("in_progress")) \in [Items -> Statuses]
    BY ReleasedIsStatus
  <2>2. {crashes', resets', MaxInterruptions - crashes' - resets'} \subseteq Nat
    BY <1>12, WorkQueueAssumption DEF TypeOK, ResetStale
  <2> QED  BY <1>12, <2>1, <2>2 DEF TypeOK, ResetStale, ResetInProgress, files, given
<1>13. CASE UNCHANGED vars
  BY <1>13 DEF TypeOK, vars, queue, files, bounds, given
<1> QED
  BY <1>1, <1>2, <1>3, <1>4, <1>5, <1>6, <1>7, <1>8, <1>9, <1>10, <1>11, <1>12, <1>13
     DEF Next, Work

(* The queue, the files and the coordinators keep their types: a status is *)
(* one of the schema's, and a coordinator has tasks only while it gathers. *)
THEOREM TypeCorrect == Spec => []TypeOK
  BY TypeInit, TypeStep, PTL DEF Spec

(***************************************************************************)
(* A completed item has its bars.  They are on disk before the label is    *)
(* asked for, and nothing removes them.                                    *)
(***************************************************************************)

BarsFirst ==
    ~DryRun =>
      /\ With("completed") \subseteq bars
      /\ \A c \in Coordinators, i \in Items : task[c][i] \in {"label", "success"} => i \in bars

LEMMA BarsFirstInit == Init => BarsFirst
  BY DEF Init, BarsFirst, With, NoTasks, NoTask

LEMMA BarsFirstStep ==
    ASSUME TypeOK, BarsFirst, ~DryRun, [Next]_vars
    PROVE  BarsFirst'
<1>1. ASSUME NEW i \in Items, Enqueue(i) \/ Age(i)
      PROVE  BarsFirst'
  BY <1>1 DEF TypeOK, BarsFirst, With, Enqueue, Age, files
<1>2. ASSUME NEW c \in Coordinators, ReleaseStale(c) \/ Select(c) \/ Update(c) \/ Loop(c)
      PROVE  BarsFirst'
  BY <1>2 DEF TypeOK, BarsFirst, With, ReleaseStale, Released, Select, Update, Loop, queue, files
<1>3. ASSUME NEW c \in Coordinators, Reread(c)
      PROVE  BarsFirst'
  BY <1>3 DEF TypeOK, BarsFirst, With, Reread, queue, files
<1>4. ASSUME NEW c \in Coordinators, NEW i \in Items, Fetch(c, i)
      PROVE  BarsFirst'
  <2>1. bars \subseteq bars' /\ (task'[c][i] = "label" => i \in bars') /\ task'[c][i] # "success"
    BY <1>4 DEF TypeOK, Fetch, Answer
  <2>2. \A d \in Coordinators, j \in Items : d # c \/ j # i => task'[d][j] = task[d][j]
    BY <1>4 DEF TypeOK, Fetch, Answer
  <2> QED  BY <1>4, <2>1, <2>2 DEF BarsFirst, With, Fetch, queue
<1>5. ASSUME NEW c \in Coordinators, NEW i \in Items,
             Label(c, i) \/ FailTransient(c, i)
      PROVE  BarsFirst'
  <2>1. /\ \A d \in Coordinators, j \in Items : d # c \/ j # i => task'[d][j] = task[d][j]
        /\ task'[c][i] \in {"label", "success"} => task[c][i] = "label"
    BY <1>5 DEF TypeOK, Label, FailTransient, Answer
  <2> QED  BY <1>5, <2>1 DEF BarsFirst, With, Label, FailTransient, queue, files
<1>6. ASSUME NEW c \in Coordinators, NEW i \in Items, WriteResult(c, i)
      PROVE  BarsFirst'
  <2>1. /\ \A d \in Coordinators, j \in Items :
             task'[d][j] = IF d = c /\ j = i THEN "none" ELSE task[d][j]
        /\ \A j \in Items : status'[j] = "completed" =>
             status[j] = "completed" \/ (j = i /\ task[c][i] = "success")
    BY <1>6 DEF TypeOK, WriteResult, Answer
  <2> QED  BY <1>6, <2>1 DEF BarsFirst, With, WriteResult, files
<1>7. ASSUME NEW c \in Coordinators, Start(c) \/ Crash(c)
      PROVE  BarsFirst'
  BY <1>7 DEF TypeOK, BarsFirst, With, Start, Crash, ResetInProgress, Released, NoTask, queue, files
<1>8. CASE ResetStale
  BY <1>8 DEF TypeOK, BarsFirst, With, ResetStale, ResetInProgress, Released, files
<1>9. CASE UNCHANGED vars
  BY <1>9 DEF BarsFirst, With, vars, queue, files
<1> QED  BY <1>1, <1>2, <1>3, <1>4, <1>5, <1>6, <1>7, <1>8, <1>9 DEF Next, Work

(* However many coordinators work on an item and wherever they end between *)
(* fetch, label and result, it is completed only over bars on disk.        *)
THEOREM CompletedIsBacked == Spec => []CompletedHasBars
<1>1. TypeOK /\ BarsFirst /\ [Next]_vars => BarsFirst'
  BY BarsFirstStep DEF BarsFirst
<1>2. BarsFirst => CompletedHasBars
  BY DEF BarsFirst, CompletedHasBars
<1> QED  BY <1>1, <1>2, TypeCorrect, BarsFirstInit, PTL DEF Spec

(***************************************************************************)
(* One process at a time.  The running coordinator is alone, and none of   *)
(* its tasks is about a settled item; only claims age.                     *)
(***************************************************************************)

Alone ==
    /\ old \subseteq With("in_progress")
    /\ ~shared =>
         /\ \A c, d \in Coordinators : pc[c] # "down" /\ pc[d] # "down" => c = d
         /\ \A c \in Coordinators, i \in Items : task[c][i] # "none" => status[i] \notin Final

LEMMA AloneInit == Init => Alone
  BY DEF Init, Alone, With, NoTasks, NoTask

\* A coordinator that is not the running one has no tasks.
LEMMA OthersIdle ==
    ASSUME TypeOK, Alone, ~shared, NEW c \in Coordinators, pc[c] # "down",
           NEW d \in Coordinators, d # c, NEW i \in Items
    PROVE  pc[d] = "down" /\ task[d][i] = "none"
  BY DEF TypeOK, Alone, NoTask

LEMMA AloneStep ==
    ASSUME TypeOK, Alone, [Next]_vars
    PROVE  Alone'
<1>1. ASSUME NEW i \in Items, Enqueue(i) \/ Age(i)
      PROVE  Alone'
  BY <1>1 DEF TypeOK, Alone, With, Final, Enqueue, Age, files, bounds, given
<1>2. ASSUME NEW c \in Coordinators, ReleaseStale(c) \/ Select(c)
      PROVE  Alone'
  <2>1. /\ \A j \in Items : status'[j] \in {status[j], "pending"}
        /\ old' = {} \/ (old' = old /\ status' = status)
        /\ UNCHANGED <<task, shared>>
        /\ \A d \in Coordinators : pc'[d] # "down" => pc[d] # "down"
    BY <1>2 DEF TypeOK, ReleaseStale, Released, Select, queue, bounds
  <2> QED  BY <2>1 DEF Alone, Final, With
<1>3. ASSUME NEW c \in Coordinators, Update(c)
      PROVE  Alone'
  <2>1. /\ \A j \in Items : status'[j] = IF j \in ids[c] \cap With("pending")
                                         THEN "in_progress" ELSE status[j]
        /\ old' \subseteq old /\ task' = task /\ shared' = shared
        /\ pc[c] # "down" /\ pc' = [pc EXCEPT ![c] = "reread"]
    BY <1>3 DEF Update, bounds
  <2>2. old' \subseteq With("in_progress")'
    BY <2>1 DEF TypeOK, Alone, With
  <2> QED  BY <2>1, <2>2 DEF TypeOK, Alone, Final
<1>4. ASSUME NEW c \in Coordinators, Reread(c)
      PROVE  Alone'
  <2>1. /\ UNCHANGED <<status, old, shared>> /\ pc[c] = "reread"
        /\ \A d \in Coordinators : d # c => pc'[d] = pc[d]
        /\ \A d \in Coordinators, j \in Items : task'[d][j] =
             IF d = c
             THEN IF j \in ids[c] \cap With("in_progress") THEN "start" ELSE "none"
             ELSE task[d][j]
    BY <1>4 DEF TypeOK, Reread, queue, bounds
  <2> QED  BY <2>1 DEF TypeOK, Alone, With, Final
<1>5. ASSUME NEW c \in Coordinators, NEW i \in Items,
             Fetch(c, i) \/ Label(c, i) \/ FailTransient(c, i)
      PROVE  Alone'
  <2>1. /\ UNCHANGED <<status, old, pc, shared>> /\ task[c][i] # "none"
        /\ \A d \in Coordinators, j \in Items : d # c \/ j # i => task'[d][j] = task[d][j]
    BY <1>5 DEF TypeOK, Fetch, Label, FailTransient, Answer, queue, bounds
  <2> QED  BY <2>1 DEF Alone, With
<1>6. ASSUME NEW c \in Coordinators, NEW i \in Items, WriteResult(c, i)
      PROVE  Alone'
  <2>1. /\ UNCHANGED <<pc, shared>> /\ pc[c] = "gather" /\ old' = old \ {i}
        /\ \A d \in Coordinators, j \in Items :
             task'[d][j] = IF d = c /\ j = i THEN "none" ELSE task[d][j]
        /\ \A j \in Items : j # i => status'[j] = status[j]
    BY <1>6 DEF TypeOK, WriteResult, Gathered, Answer, bounds
  <2>2. old' \subseteq With("in_progress")'
    BY <2>1 DEF Alone, With
  <2>3. ~shared => \A d \in Coordinators : d # c => task[d][i] = "none"
    BY <2>1, OthersIdle
  <2> QED  BY <2>1, <2>2, <2>3 DEF Alone
<1>7. ASSUME NEW c \in Coordinators, Loop(c)
      PROVE  Alone'
  BY <1>7 DEF TypeOK, Alone, With, Loop, queue, bounds, given
<1>8. ASSUME NEW c \in Coordinators, Start(c)
      PROVE  Alone'
  <2>1. /\ \A j \in Items : status'[j] = IF status[j] = "in_progress" THEN "pending" ELSE status[j]
        /\ old' = {} /\ task' = task /\ pc' = [pc EXCEPT ![c] = "loop"]
        /\ ~shared' => ~shared /\ \A d \in Coordinators : pc[d] = "down"
    BY <1>8 DEF Start, ResetInProgress, Released, With
  <2> QED  BY <2>1 DEF TypeOK, Alone, Final, With
<1>9. ASSUME NEW c \in Coordinators, Crash(c)
      PROVE  Alone'
  BY <1>9 DEF TypeOK, Alone, With, Crash, NoTask, queue, given
<1>10. CASE ResetStale
  BY <1>10 DEF TypeOK, Alone, With, Final, ResetStale, ResetInProgress, Released, given
<1>11. CASE UNCHANGED vars
  BY <1>11 DEF Alone, With, vars, queue, bounds
<1> QED  BY <1>1, <1>2, <1>3, <1>4, <1>5, <1>6, <1>7, <1>8, <1>9, <1>10, <1>11 DEF Next, Work

LEMMA AlwaysAlone == Spec => [](TypeOK /\ Alone)
  BY TypeInit, TypeStep, AloneInit, AloneStep, PTL DEF Spec

\* What a single step does to a settled item, under one coordinator.
LEMMA SettledStep ==
    ASSUME TypeOK, Alone, [Next]_vars, ~shared', NEW k \in Items, status[k] \in Final
    PROVE  status'[k] = status[k]
<1>1. ASSUME NEW i \in Items, Enqueue(i) \/ Age(i)
      PROVE  status'[k] = status[k]
  BY <1>1 DEF TypeOK, Final, Enqueue, Age
<1>2. ASSUME NEW c \in Coordinators, ReleaseStale(c)
      PROVE  status'[k] = status[k]
  BY <1>2 DEF Alone, With, Final, ReleaseStale, Released
<1>3. ASSUME NEW c \in Coordinators, Update(c)
      PROVE  status'[k] = status[k]
  BY <1>3 DEF With, Final, Update
<1>4. ASSUME NEW c \in Coordinators, Select(c) \/ Reread(c) \/ Loop(c) \/ Crash(c)
      PROVE  status'[k] = status[k]
  BY <1>4 DEF Select, Reread, Loop, Crash, queue
<1>5. ASSUME NEW c \in Coordinators, NEW i \in Items,
             Fetch(c, i) \/ Label(c, i) \/ FailTransient(c, i)
      PROVE  status'[k] = status[k]
  BY <1>5 DEF Fetch, Label, FailTransient, queue
<1>6. ASSUME NEW c \in Coordinators, NEW i \in Items, WriteResult(c, i)
      PROVE  status'[k] = status[k]
  <2>1. i # k
    BY <1>6 DEF Alone, WriteResult, Results, bounds
  <2> QED  BY <1>6, <2>1 DEF TypeOK, WriteResult
<1>7. ASSUME NEW c \in Coordinators, Start(c)
      PROVE  status'[k] = status[k]
  BY <1>7 DEF Start, ResetInProgress, Released, With, Final
<1>8. CASE ResetStale
  BY <1>8 DEF ResetStale, ResetInProgress, Released, With, Final
<1>9. CASE UNCHANGED vars
  BY <1>9 DEF vars, queue
<1> QED  BY <1>1, <1>2, <1>3, <1>4, <1>5, <1>6, <1>7, <1>8, <1>9 DEF Next, Work

(* As long as one coordinator works at a time, a restart, --reset-stale or *)
(* a claim given back never reopens a settled item.                        *)
THEOREM SettledForGood == Spec => SettledStays
<1> DEFINE Stays == \A i \in Items : ~shared' /\ status[i] \in Final => status'[i] = status[i]
<1>1. TypeOK /\ Alone /\ [Next]_vars => [Stays]_vars
  BY SettledStep
<1> QED  BY <1>1, AlwaysAlone, PTL DEF Spec, SettledStays

(***************************************************************************)
(* Repeated work.  A row beyond one for each crash belongs to an item that *)
(* is settled, or whose only task has succeeded and will settle it.        *)
(***************************************************************************)

RowsOnce ==
    ~shared =>
      \A i \in Items :
        /\ rows[i] <= 1 + crashes
        /\ \/ rows[i] <= crashes
           \/ status[i] \in Final
           \/ \E c \in Coordinators : task[c][i] = "success"

LEMMA RowsOnceInit == Init => RowsOnce
  BY DEF Init, RowsOnce

LEMMA RowsOnceStep ==
    ASSUME TypeOK, Alone, RowsOnce, [Next]_vars
    PROVE  RowsOnce'
<1> SUFFICES ASSUME ~shared', NEW k \in Items
             PROVE  /\ rows'[k] <= 1 + crashes'
                    /\ \/ rows'[k] <= crashes'
                       \/ status'[k] \in Final
                       \/ \E c \in Coordinators : task'[c][k] = "success"
  BY DEF RowsOnce
<1> DEFINE RowsKept == /\ rows'[k] <= 1 + crashes'
                       /\ \/ rows'[k] <= crashes'
                          \/ status'[k] \in Final
                          \/ \E c \in Coordinators : task'[c][k] = "success"
<1>0. rows[k] \in Nat /\ crashes \in Nat
  BY DEF TypeOK
<1>1. status[k] \in Final => status'[k] \in Final
  BY SettledStep
<1>2. ASSUME UNCHANGED <<rows, crashes, task, shared>>
      PROVE  RowsKept
  BY <1>1, <1>2 DEF RowsOnce
<1>3. ASSUME NEW i \in Items, Enqueue(i) \/ Age(i)
      PROVE  RowsKept
  BY <1>2, <1>3 DEF Enqueue, Age, files, bounds
<1>4. ASSUME NEW c \in Coordinators, ReleaseStale(c) \/ Select(c) \/ Update(c) \/ Loop(c)
      PROVE  RowsKept
  BY <1>2, <1>4 DEF ReleaseStale, Select, Update, Loop, files, bounds
<1>5. ASSUME NEW c \in Coordinators, Reread(c)
      PROVE  RowsKept
  <2>1. /\ UNCHANGED <<rows, crashes, shared, status>> /\ pc[c] = "reread"
        /\ \A d \in Coordinators : d # c => task'[d] = task[d]
    BY <1>5 DEF Reread, TypeOK, queue, files, bounds
  <2>2. task[c][k] # "success"
    BY <2>1 DEF TypeOK, NoTask
  <2> QED  BY <2>1, <2>2 DEF RowsOnce
<1>6. ASSUME NEW c \in Coordinators, NEW i \in Items, Fetch(c, i) \/ FailTransient(c, i)
      PROVE  RowsKept
  <2>1. /\ UNCHANGED <<rows, crashes, shared, status>> /\ task[c][i] # "success"
        /\ \A d \in Coordinators, j \in Items : d # c \/ j # i => task'[d][j] = task[d][j]
    BY <1>6 DEF TypeOK, Fetch, FailTransient, Answer, queue, files, bounds
  <2> QED  BY <2>1 DEF RowsOnce
<1>7. ASSUME NEW c \in Coordinators, NEW i \in Items, Label(c, i)
      PROVE  RowsKept
  <2>1. /\ UNCHANGED <<status, crashes, shared>> /\ pc[c] = "gather" /\ task[c][i] = "label"
        /\ \A d \in Coordinators, j \in Items : d # c \/ j # i => task'[d][j] = task[d][j]
        /\ \A j \in Items : j # i => rows'[j] = rows[j]
        /\ \/ rows'[i] = rows[i] + 1 /\ task'[c][i] = "success"
           \/ rows'[i] = rows[i]
    BY <1>7 DEF TypeOK, Label, Answer, queue, bounds
  <2>2. status[i] \notin Final /\ \A d \in Coordinators : task[d][i] # "success"
    BY <2>1, OthersIdle DEF Alone
  <2>3. rows[i] <= crashes
    BY <2>1, <2>2 DEF RowsOnce
  <2>4. CASE k = i
    BY <1>0, <2>1, <2>3, <2>4
  <2>5. CASE k # i
    BY <2>1, <2>5 DEF RowsOnce
  <2> QED  BY <2>4, <2>5
<1>8. ASSUME NEW c \in Coordinators, NEW i \in Items, WriteResult(c, i)
      PROVE  RowsKept
  <2>1. /\ UNCHANGED <<rows, crashes, shared>>
        /\ \A d \in Coordinators, j \in Items : d # c \/ j # i => task'[d][j] = task[d][j]
        /\ task[c][i] = "success" => status'[i] = "completed"
    BY <1>8 DEF TypeOK, WriteResult, Answer, files, bounds
  <2> QED  BY <1>1, <2>1 DEF RowsOnce, Final
<1>9. ASSUME NEW c \in Coordinators, Start(c)
      PROVE  RowsKept
  <2>1. UNCHANGED <<rows, crashes, task>> /\ ~shared
    BY <1>9 DEF Start, files
  <2> QED  BY <1>1, <2>1 DEF RowsOnce
<1>10. ASSUME NEW c \in Coordinators, Crash(c)
       PROVE  RowsKept
  <2>1. UNCHANGED <<rows, shared>> /\ crashes' = crashes + 1
    BY <1>10 DEF Crash, files
  <2> QED  BY <1>0, <2>1 DEF RowsOnce
<1>11. CASE ResetStale
  BY <1>2, <1>11 DEF ResetStale, files
<1>12. CASE UNCHANGED vars
  BY <1>2, <1>12 DEF vars, files, bounds
<1> QED  BY <1>3, <1>4, <1>5, <1>6, <1>7, <1>8, <1>9, <1>10, <1>11, <1>12 DEF Next, Work

(* As long as one coordinator works at a time, a label is appended at most *)
(* once more than the processes crashed, whatever else gives claims back.  *)
THEOREM RowsAreBounded == Spec => []RowsWithinCrashes
<1>1. RowsOnce => RowsWithinCrashes
  BY DEF RowsOnce, RowsWithinCrashes
<1> QED  BY <1>1, RowsOnceInit, RowsOnceStep, AlwaysAlone, PTL DEF Spec

(***************************************************************************)
(* Attempts.  A claim costs one.  While nothing works on an item that can  *)
(* still be claimed, one is left: a crash, --reset-stale and fail_transient*)
(* are the only ways back, and each leaves room for the next claim.        *)
(***************************************************************************)

Allowed == MaxAttempts + crashes + resets

\* A claim of the running coordinator is in its batch or has a task.
Claimed ==
    \A c \in Coordinators, i \in Items :
      pc[c] # "down" /\ status[i] = "in_progress" =>
        (pc[c] = "reread" /\ i \in ids[c]) \/ task[c][i] # "none"

Unclaimed(i) ==
    \/ status[i] \in {"absent", "pending"}
    \/ status[i] = "in_progress" /\ \A c \in Coordinators : pc[c] = "down"

AttemptLeft ==
    ~shared =>
      /\ Claimed
      /\ \A i \in Items :
           /\ attempts[i] <= Allowed
           /\ Unclaimed(i) => attempts[i] < Allowed
           /\ \A c \in Coordinators : task[c][i] = "again" => attempts[i] < MaxAttempts

LEMMA AttemptLeftInit == Init => AttemptLeft
  BY WorkQueueAssumption DEF Init, AttemptLeft, Claimed, Unclaimed, Allowed, NoTasks, NoTask

LEMMA AllowedIsNat == TypeOK => /\ Allowed \in Nat /\ MaxAttempts \in Nat
                                /\ crashes \in Nat /\ resets \in Nat /\ MaxAttempts <= Allowed
  BY WorkQueueAssumption DEF TypeOK, Allowed

LEMMA AttemptLeftStep ==
    ASSUME TypeOK, Alone, AttemptLeft, [Next]_vars
    PROVE  AttemptLeft'
<1> SUFFICES ASSUME ~shared' PROVE AttemptLeft'
  BY DEF AttemptLeft
<1>0. /\ Allowed \in Nat /\ MaxAttempts \in Nat /\ crashes \in Nat /\ resets \in Nat
      /\ MaxAttempts <= Allowed /\ \A i \in Items : attempts[i] \in Nat
  BY AllowedIsNat DEF TypeOK
<1>1. ASSUME NEW i \in Items, Enqueue(i)
      PROVE  AttemptLeft'
  <2>1. /\ UNCHANGED <<attempts, pc, ids, task, crashes, resets, shared>>
        /\ status[i] = "absent" /\ status' = [status EXCEPT ![i] = "pending"]
    BY <1>1 DEF Enqueue, bounds
  <2> QED  BY <2>1 DEF TypeOK, AttemptLeft, Claimed, Unclaimed, Allowed
<1>2. ASSUME NEW i \in Items, Age(i)
      PROVE  AttemptLeft'
  BY <1>2 DEF Age, bounds, AttemptLeft, Claimed, Unclaimed, Allowed
<1>3. ASSUME NEW c \in Coordinators, ReleaseStale(c)
      PROVE  AttemptLeft'
  <2>1. /\ UNCHANGED <<attempts, ids, task, crashes, resets, shared>>
        /\ pc[c] = "loop" /\ pc' = [pc EXCEPT ![c] = "select"]
        /\ status' = [j \in Items |-> IF j \in old THEN "pending" ELSE status[j]]
    BY <1>3 DEF ReleaseStale, Released, bounds
  <2>2. \A j \in Items : status[j] # "in_progress"
    BY <2>1 DEF AttemptLeft, Claimed, TypeOK, NoTask
  <2>3. status' = status
    BY <2>1, <2>2 DEF Alone, With, TypeOK
  <2> QED  BY <2>1, <2>2, <2>3 DEF AttemptLeft, Claimed, Unclaimed, Allowed
<1>4. ASSUME NEW c \in Coordinators, Select(c)
      PROVE  AttemptLeft'
  <2>1. /\ UNCHANGED <<status, attempts, task, crashes, resets, shared>>
        /\ pc[c] = "select" /\ pc'[c] # "down"
        /\ \A d \in Coordinators : d # c => pc'[d] = pc[d] /\ ids'[d] = ids[d]
    BY <1>4 DEF Select, TypeOK, queue, bounds
  <2>2. \A j \in Items : status[j] # "in_progress"
    BY <2>1 DEF AttemptLeft, Claimed, TypeOK, NoTask
  <2> QED  BY <2>1, <2>2 DEF AttemptLeft, Claimed, Unclaimed, Allowed
<1>5. ASSUME NEW c \in Coordinators, Update(c)
      PROVE  AttemptLeft'
  <2> DEFINE mine == ids[c] \cap With("pending")
  <2>1. /\ UNCHANGED <<ids, task, crashes, resets, shared>>
        /\ pc[c] = "update" /\ pc' = [pc EXCEPT ![c] = "reread"]
        /\ \A j \in Items : status'[j] = IF j \in mine THEN "in_progress" ELSE status[j]
        /\ \A j \in Items : attempts'[j] = attempts[j] + (IF j \in mine THEN 1 ELSE 0)
    BY <1>5 DEF Update, bounds
  <2>2. \A j \in Items : status[j] # "in_progress"
    BY <2>1 DEF AttemptLeft, Claimed, TypeOK, NoTask
  <2>3. \A d \in Coordinators, j \in Items : task[d][j] = "none"
    BY <2>1, OthersIdle DEF TypeOK, NoTask
  <2>4. pc'[c] # "down" /\ \A d \in Coordinators : pc'[d] # "down" => d = c
    BY <2>1 DEF TypeOK, Alone
  <2>5. Claimed'
    <3> SUFFICES ASSUME NEW j \in Items, status'[j] = "in_progress"
                 PROVE  pc'[c] = "reread" /\ j \in ids'[c]
      BY <2>4 DEF Claimed
    <3>1. j \in mine
      BY <2>1, <2>2
    <3> QED  BY <2>1, <3>1 DEF TypeOK
  <2>6. ASSUME NEW j \in Items
        PROVE  /\ attempts'[j] <= Allowed' /\ (Unclaimed(j)' => attempts'[j] < Allowed')
               /\ \A d \in Coordinators : task'[d][j] # "again"
    <3>1. CASE j \in mine
      <4>1. attempts[j] < Allowed
        BY <2>1, <3>1 DEF AttemptLeft, Unclaimed, With
      <4>2. status'[j] = "in_progress" /\ attempts'[j] = attempts[j] + 1
        BY <2>1, <3>1
      <4>3. ~Unclaimed(j)'
        BY <2>4, <4>2 DEF Unclaimed
      <4> QED  BY <1>0, <2>1, <2>3, <4>1, <4>2, <4>3 DEF Allowed
    <3>2. CASE j \notin mine
      <4>1. attempts'[j] = attempts[j] /\ status'[j] = status[j]
        BY <1>0, <2>1, <3>2
      <4>2. Unclaimed(j)' => Unclaimed(j)
        BY <2>2, <4>1 DEF Unclaimed
      <4> QED  BY <2>1, <2>3, <4>1, <4>2 DEF AttemptLeft, Allowed
    <3> QED  BY <3>1, <3>2
  <2> QED  BY <2>5, <2>6 DEF AttemptLeft
<1>6. ASSUME NEW c \in Coordinators, Reread(c)
      PROVE  AttemptLeft'
  <2> DEFINE batch == ids[c] \cap With("in_progress")
  <2>1. /\ UNCHANGED <<status, attempts, crashes, resets, shared>>
        /\ pc[c] = "reread" /\ pc'[c] \in {"loop", "gather"}
        /\ \A d \in Coordinators : d # c => pc'[d] = pc[d] /\ task'[d] = task[d]
        /\ \A j \in Items : task'[c][j] = IF j \in batch THEN "start" ELSE "none"
    BY <1>6 DEF Reread, TypeOK, queue, bounds
  <2>2. \A d \in Coordinators : d # c => pc[d] = "down"
    BY <2>1 DEF Alone
  <2>3. \A j \in Items : status[j] = "in_progress" => j \in batch
    BY <2>1 DEF AttemptLeft, Claimed, TypeOK, NoTask, With
  <2>4. Claimed'
    BY <2>1, <2>2, <2>3 DEF Claimed
  <2> QED  BY <2>1, <2>2, <2>4 DEF AttemptLeft, Unclaimed, Allowed
<1>7. ASSUME NEW c \in Coordinators, NEW i \in Items, Fetch(c, i) \/ Label(c, i)
      PROVE  AttemptLeft'
  <2>1. /\ UNCHANGED <<status, attempts, pc, ids, crashes, resets, shared>>
        /\ task'[c][i] \notin {"none", "again"}
        /\ \A d \in Coordinators, j \in Items : d # c \/ j # i => task'[d][j] = task[d][j]
    BY <1>7 DEF TypeOK, Fetch, Label, Answer, queue, bounds
  <2> QED  BY <2>1 DEF AttemptLeft, Claimed, Unclaimed, Allowed
<1>8. ASSUME NEW c \in Coordinators, NEW i \in Items, FailTransient(c, i)
      PROVE  AttemptLeft'
  <2>1. /\ UNCHANGED <<status, attempts, pc, ids, crashes, resets, shared>>
        /\ task'[c][i] = IF attempts[i] >= MaxAttempts THEN "spent" ELSE "again"
        /\ \A d \in Coordinators, j \in Items : d # c \/ j # i => task'[d][j] = task[d][j]
    BY <1>8 DEF TypeOK, FailTransient, Answer, queue, bounds
  <2> QED  BY <1>0, <2>1 DEF AttemptLeft, Claimed, Unclaimed, Allowed
<1>9. ASSUME NEW c \in Coordinators, NEW i \in Items, WriteResult(c, i)
      PROVE  AttemptLeft'
  <2>1. /\ UNCHANGED <<attempts, pc, ids, crashes, resets, shared>>
        /\ pc[c] = "gather" /\ task'[c][i] = "none"
        /\ \A d \in Coordinators, j \in Items : d # c \/ j # i => task'[d][j] = task[d][j]
        /\ \A j \in Items : j # i => status'[j] = status[j]
        /\ status'[i] \in Final \/ (status'[i] = "pending" /\ task[c][i] = "again")
    BY <1>9 DEF TypeOK, WriteResult, Gathered, Answer, files, bounds, Final
  <2>2. status'[i] = "pending" => attempts[i] < Allowed
    BY <1>0, <2>1 DEF AttemptLeft, Final
  <2> QED  BY <2>1, <2>2 DEF AttemptLeft, Claimed, Unclaimed, Allowed, Final
<1>10. ASSUME NEW c \in Coordinators, Loop(c)
       PROVE  AttemptLeft'
  <2>1. /\ UNCHANGED <<status, attempts, ids, task, crashes, resets, shared>>
        /\ pc[c] = "gather" /\ task[c] = NoTask /\ pc' = [pc EXCEPT ![c] = "loop"]
    BY <1>10 DEF Loop, queue, bounds
  <2>2. \A j \in Items : status[j] # "in_progress"
    BY <2>1 DEF AttemptLeft, Claimed, NoTask
  <2> QED  BY <2>1, <2>2 DEF AttemptLeft, Claimed, Unclaimed, Allowed
<1>11. ASSUME NEW c \in Coordinators, Start(c)
       PROVE  AttemptLeft'
  <2>1. /\ UNCHANGED <<attempts, task, crashes, resets>> /\ ~shared
        /\ \A d \in Coordinators : pc[d] = "down"
        /\ \A j \in Items : status'[j] = IF status[j] = "in_progress" THEN "pending" ELSE status[j]
    BY <1>11 DEF Start, ResetInProgress, Released, With, given
  <2>2. \A j \in Items : status'[j] # "in_progress"
    BY <2>1
  <2>3. \A j \in Items : Unclaimed(j)' => Unclaimed(j)
    BY <2>1, <2>2 DEF Unclaimed
  <2> QED  BY <2>1, <2>2, <2>3 DEF AttemptLeft, Claimed, Allowed
<1>12. ASSUME NEW c \in Coordinators, Crash(c)
       PROVE  AttemptLeft'
  <2>1. /\ UNCHANGED <<status, attempts, resets, shared>> /\ crashes' = crashes + 1
        /\ pc[c] # "down" /\ pc'[c] = "down" /\ task'[c] = NoTask
        /\ \A d \in Coordinators : d # c => pc'[d] = pc[d] /\ ids'[d] = ids[d] /\ task'[d] = task[d]
    BY <1>12 DEF Crash, TypeOK, queue
  <2>2. Claimed'
    BY <2>1 DEF AttemptLeft, Claimed
  <2>3. Allowed' = Allowed + 1
    BY <1>0, <2>1 DEF Allowed
  <2>4. \A j \in Items : attempts'[j] < Allowed'
    BY <1>0, <2>1, <2>3 DEF AttemptLeft
  <2>5. \A d \in Coordinators, j \in Items : task'[d][j] = "again" => attempts'[j] < MaxAttempts
    BY <2>1 DEF AttemptLeft, NoTask
  <2>6. \A j \in Items : attempts'[j] <= Allowed'
    BY <1>0, <2>1, <2>3, <2>4
  <2> QED  BY <2>2, <2>4, <2>5, <2>6 DEF AttemptLeft
<1>13. CASE ResetStale
  <2>1. /\ UNCHANGED <<attempts, pc, ids, task, crashes, shared>> /\ resets' = resets + 1
        /\ \A j \in Items : status'[j] = IF status[j] = "in_progress" THEN "pending" ELSE status[j]
    BY <1>13 DEF ResetStale, ResetInProgress, Released, With, given
  <2>2. Claimed'
    BY <2>1 DEF AttemptLeft, Claimed
  <2>3. Allowed' = Allowed + 1
    BY <1>0, <2>1 DEF Allowed
  <2>4. \A j \in Items : attempts'[j] < Allowed' /\ attempts'[j] <= Allowed'
    BY <1>0, <2>1, <2>3 DEF AttemptLeft
  <2> QED  BY <2>1, <2>2, <2>4 DEF AttemptLeft
<1>14. CASE UNCHANGED vars
  BY <1>14 DEF vars, queue, bounds, AttemptLeft, Claimed, Unclaimed, Allowed
<1> QED
  BY <1>1, <1>2, <1>3, <1>4, <1>5, <1>6, <1>7, <1>8, <1>9, <1>10, <1>11, <1>12, <1>13, <1>14
     DEF Next, Work

(* As long as one coordinator works at a time, no item costs more claims   *)
(* than MaxAttempts and one for each crash and each --reset-stale.         *)
THEOREM AttemptsAreBounded == Spec => []AttemptsWithinLimit
<1>1. AttemptLeft => AttemptsWithinLimit
  BY DEF AttemptLeft, AttemptsWithinLimit, Allowed
<1> QED  BY <1>1, AttemptLeftInit, AttemptLeftStep, AlwaysAlone, PTL DEF Spec

=============================================================================
