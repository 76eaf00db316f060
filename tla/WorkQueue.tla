----------------------------- MODULE WorkQueue -----------------------------
(***************************************************************************)
(* The backfill agent: src/src/backfill_agent/state.py, the queue in       *)
(* SQLite; coordinator.py, the process that claims a batch, hands it to    *)
(* its workers, gathers their results and writes them back; worker.py,     *)
(* which fetches the bars of a ticker-day and appends its label to a       *)
(* shard; the --enqueue-from and --reset-stale commands of cli.py.         *)
(*                                                                         *)
(* The connection commits every statement by itself, so each is a step of  *)
(* its own.  The module lets several coordinators run over one database:   *)
(* state.py:3 calls the queue multi-process safe, state.py:92 wants one    *)
(* process at a time; shared remembers that this was not so.               *)
(***************************************************************************)
EXTENDS Integers, FiniteSets

CONSTANTS Items,         \* work items, one per ticker and day
          Coordinators,
          Workers,       \* n_workers, the size of a batch
          MaxAttempts,
          DryRun,        \* --dry-run
          MaxInterruptions  \* bound: ends of a process and uses of --reset-stale

ASSUME WorkQueueAssumption ==
    /\ IsFiniteSet(Items)
    /\ {Workers, MaxAttempts} \subseteq Nat \ {0}
    /\ MaxInterruptions \in Nat
    /\ DryRun \in BOOLEAN

VARIABLES status, attempts, old,  \* work_items; the claims older than 600 s
          bars, rows,             \* files of bars; rows per item in the shards
          pc, ids, task,          \* per coordinator: its step, its SELECT, its tasks
          candidates, fleet,      \* candidates.jsonl; the coordinators somebody starts
          crashes, resets, shared

queue  == <<status, attempts, old>>
files  == <<bars, rows>>
given  == <<candidates, fleet>>
bounds == <<given, crashes, resets, shared>>
vars   == <<queue, files, pc, ids, task, bounds>>

Statuses == {"absent", "pending", "in_progress", "completed", "failed_permanent"}
Final    == {"completed", "failed_permanent"}

\* What a task of the batch is doing, or has answered; "again" and "spent" are a transient
\* failure after fail_transient has read the attempts.
Results == {"success", "transient", "permanent", "again", "spent"}
Tasks   == {"none", "start", "label"} \cup Results

NoTask  == [i \in Items |-> "none"]
NoTasks == [c \in Coordinators |-> NoTask]
With(s) == {i \in Items : status[i] = s}

\* A coordinator has tasks only while it gathers and writes them.
TypeOK ==
    /\ status \in [Items -> Statuses] /\ attempts \in [Items -> Nat]
    /\ old \subseteq Items /\ bars \subseteq Items /\ rows \in [Items -> Nat]
    /\ pc \in [Coordinators -> {"down", "loop", "select", "update", "reread", "gather"}]
    /\ ids \in [Coordinators -> SUBSET Items]
    /\ task \in [Coordinators -> [Items -> Tasks]]
    /\ \A c \in Coordinators : pc[c] # "gather" => task[c] = NoTask
    /\ candidates \subseteq Items /\ fleet \subseteq Coordinators
    /\ {crashes, resets, MaxInterruptions - crashes - resets} \subseteq Nat /\ shared \in BOOLEAN

Init ==
    /\ status = [i \in Items |-> "absent"] /\ attempts = [i \in Items |-> 0] /\ old = {}
    /\ bars \in SUBSET Items /\ rows = [i \in Items |-> 0]
    /\ pc = [c \in Coordinators |-> "down"]
    /\ ids = [c \in Coordinators |-> {}] /\ task = NoTasks
    /\ candidates \in SUBSET Items /\ fleet \in (SUBSET Coordinators) \ {{}}
    /\ crashes = 0 /\ resets = 0 /\ shared = FALSE

----------------------------------------------------------------------------
(* state.py *)

\* enqueue: a row that is there stays as it is.  --filter missing_bars and --per-day-cap pass
\* candidates over: for them the step is not taken.
Enqueue(i) ==
    /\ i \in candidates /\ status[i] = "absent"
    /\ status' = [status EXCEPT ![i] = "pending"]
    /\ UNCHANGED <<attempts, old, files, pc, ids, task, bounds>>

Released(S) == [i \in Items |-> IF i \in S THEN "pending" ELSE status[i]]

\* Faulty variant: everything that is not completed starts over.
ResetInProgressAll ==
    /\ status' = Released(With("in_progress") \cup With("failed_permanent"))
    /\ old' = {}

\* reset_in_progress
ResetInProgress ==
    /\ status' = Released(With("in_progress"))
    /\ old' = {}

\* 600 s after the claim.  claim_next's own statements do not take that long.
Age(i) ==
    /\ status[i] = "in_progress" /\ i \notin old
    /\ \A c \in Coordinators : pc[c] = "reread" => i \notin ids[c]
    /\ old' = old \cup {i}
    /\ UNCHANGED <<status, attempts, files, pc, ids, task, bounds>>

\* Faulty variant: nothing is released.
ReleaseStaleNone(c) ==
    /\ pc[c] = "loop"
    /\ pc' = [pc EXCEPT ![c] = "select"]
    /\ UNCHANGED <<queue, files, ids, task, bounds>>

\* claim_next, first statement: _release_stale_locked
ReleaseStale(c) ==
    /\ pc[c] = "loop"
    /\ status' = Released(old) /\ old' = {}
    /\ pc' = [pc EXCEPT ![c] = "select"]
    /\ UNCHANGED <<attempts, files, ids, task, bounds>>

\* Priority and id, by which the rows are sorted, are any the enqueue gave: every batch of
\* the limit's size, or of all there is, can be the first.
Batches(S) ==
    {B \in SUBSET S : /\ Cardinality(B) <= Workers
                      /\ Cardinality(B) < Workers => B = S}

\* Second: the candidates.
Select(c) ==
    /\ pc[c] = "select"
    /\ \E B \in Batches(With("pending")) : ids' = [ids EXCEPT ![c] = B]
    /\ pc' = [pc EXCEPT ![c] = IF With("pending") = {} THEN "loop" ELSE "update"]
    /\ UNCHANGED <<queue, files, task, bounds>>

\* Third: those that are still pending.
Update(c) ==
    LET mine == ids[c] \cap With("pending")
    IN  /\ pc[c] = "update"
        /\ status' = [i \in Items |-> IF i \in mine THEN "in_progress" ELSE status[i]]
        /\ attempts' = [i \in Items |-> attempts[i] + (IF i \in mine THEN 1 ELSE 0)]
        /\ old' = old \ mine
        /\ pc' = [pc EXCEPT ![c] = "reread"]
        /\ UNCHANGED <<files, ids, task, bounds>>

\* Fourth: the selected ids that are in progress, whoever claimed them.
Reread(c) ==
    LET batch == ids[c] \cap With("in_progress")
    IN  /\ pc[c] = "reread"
        /\ task' = [task EXCEPT ![c] = [i \in Items |-> IF i \in batch THEN "start" ELSE "none"]]
        /\ ids' = [ids EXCEPT ![c] = {}]
        /\ pc' = [pc EXCEPT ![c] = IF batch = {} THEN "loop" ELSE "gather"]
        /\ UNCHANGED <<queue, files, bounds>>

----------------------------------------------------------------------------
(* worker.py *)

Answer(c, i, t) == task' = [task EXCEPT ![c][i] = t]

\* Faulty variant: too few bars are an answer like any other.
FetchShort(c, i) ==
    /\ pc[c] = "gather" /\ task[c][i] = "start"
    /\ IF i \in bars \/ DryRun
       THEN Answer(c, i, IF i \in bars THEN "label" ELSE "success") /\ UNCHANGED bars
       ELSE \/ Answer(c, i, "label") /\ bars' = bars \cup {i}
            \/ \E t \in {"label", "transient", "permanent"} : Answer(c, i, t) /\ UNCHANGED bars
    /\ UNCHANGED <<queue, rows, pc, ids, bounds>>

\* The file of an earlier attempt, nothing at all under --dry-run, or the request: bars
\* written by a rename; 429, 5xx and the network; 4xx, too few bars, a failed write.
Fetch(c, i) ==
    /\ pc[c] = "gather" /\ task[c][i] = "start"
    /\ IF i \in bars \/ DryRun
       THEN Answer(c, i, IF i \in bars THEN "label" ELSE "success") /\ UNCHANGED bars
       ELSE \/ Answer(c, i, "label") /\ bars' = bars \cup {i}
            \/ \E t \in {"transient", "permanent"} : Answer(c, i, t) /\ UNCHANGED bars
    /\ UNCHANGED <<queue, rows, pc, ids, bounds>>

\* A row of the shard; or none, which is a success unless the labeler raised.
Label(c, i) ==
    /\ pc[c] = "gather" /\ task[c][i] = "label"
    /\ \/ Answer(c, i, "success") /\ rows' = [rows EXCEPT ![i] = @ + 1]
       \/ \E t \in {"success", "permanent"} : Answer(c, i, t) /\ UNCHANGED rows
    /\ UNCHANGED <<queue, bars, pc, ids, bounds>>

----------------------------------------------------------------------------
(* coordinator.py *)

\* gather has returned: every worker has answered.
Gathered(c) == pc[c] = "gather" /\ \A i \in Items : task[c][i] \notin {"start", "label"}

\* Faulty variant: one attempt more.
FailTransientLate(c, i) ==
    /\ Gathered(c) /\ task[c][i] = "transient"
    /\ Answer(c, i, IF attempts[i] > MaxAttempts THEN "spent" ELSE "again")
    /\ UNCHANGED <<queue, files, pc, ids, bounds>>

\* fail_transient reads the attempts, and writes by what it read.
FailTransient(c, i) ==
    /\ Gathered(c) /\ task[c][i] = "transient"
    /\ Answer(c, i, IF attempts[i] >= MaxAttempts THEN "spent" ELSE "again")
    /\ UNCHANGED <<queue, files, pc, ids, bounds>>

\* Faulty variant: a result counts only for an item that is still claimed.
WriteResultClaimed(c, i) ==
    /\ Gathered(c) /\ task[c][i] \in Results \ {"transient"}
    /\ status' = [status EXCEPT ![i] = IF @ # "in_progress" THEN @ ELSE
                    CASE task[c][i] = "success" -> "completed"
                      [] task[c][i] = "again" -> "pending"
                      [] OTHER -> "failed_permanent"]
    /\ old' = old \ {i}
    /\ Answer(c, i, "none")
    /\ UNCHANGED <<attempts, files, pc, ids, bounds>>

\* complete, fail_permanent, and the write of fail_transient: whatever the row says.
WriteResult(c, i) ==
    /\ Gathered(c) /\ task[c][i] \in Results \ {"transient"}
    /\ status' = [status EXCEPT ![i] =
                    CASE task[c][i] = "success" -> "completed"
                      [] task[c][i] = "again" -> "pending"
                      [] OTHER -> "failed_permanent"]
    /\ old' = old \ {i}
    /\ Answer(c, i, "none")
    /\ UNCHANGED <<attempts, files, pc, ids, bounds>>

\* Faulty variant: the next batch is claimed while results are missing.
LoopEarly(c) ==
    /\ pc[c] = "gather" /\ \E i \in Items : task[c][i] \in {"none"} \cup Results
    /\ pc' = [pc EXCEPT ![c] = "loop"]
    /\ UNCHANGED <<queue, files, ids, task, bounds>>

\* The batch is written; the next turn of the loop.
Loop(c) ==
    /\ pc[c] = "gather" /\ task[c] = NoTask
    /\ pc' = [pc EXCEPT ![c] = "loop"]
    /\ UNCHANGED <<queue, files, ids, task, bounds>>

Start(c) ==
    /\ c \in fleet /\ pc[c] = "down"
    /\ ResetInProgress
    /\ pc' = [pc EXCEPT ![c] = "loop"]
    /\ shared' = (shared \/ \E d \in Coordinators : pc[d] # "down")
    /\ UNCHANGED <<attempts, files, ids, task, given, crashes, resets>>

\* A crash, a database that stays locked; a shutdown too, which the loop sees between
\* batches only.
Crash(c) ==
    /\ pc[c] # "down" /\ crashes + resets < MaxInterruptions
    /\ crashes' = crashes + 1
    /\ pc' = [pc EXCEPT ![c] = "down"]
    /\ ids' = [ids EXCEPT ![c] = {}] /\ task' = [task EXCEPT ![c] = NoTask]
    /\ UNCHANGED <<queue, files, given, resets, shared>>

\* --reset-stale, beside whatever runs.
ResetStale ==
    /\ crashes + resets < MaxInterruptions
    /\ resets' = resets + 1
    /\ ResetInProgress
    /\ UNCHANGED <<attempts, files, pc, ids, task, given, crashes, shared>>

----------------------------------------------------------------------------
Work(c) ==
    \/ ReleaseStale(c) \/ Select(c) \/ Update(c) \/ Reread(c)
    \/ \E i \in Items : Fetch(c, i) \/ Label(c, i) \/ FailTransient(c, i) \/ WriteResult(c, i)
    \/ Loop(c)

Next ==
    \/ \E i \in Items : Enqueue(i) \/ Age(i)
    \/ \E c \in Coordinators : Work(c) \/ Start(c) \/ Crash(c)
    \/ ResetStale

Spec == Init /\ [][Next]_vars

\* A running coordinator goes on (the rate budget opens every night), one is started when
\* none runs, and time passes.
Fairness ==
    /\ \A c \in Coordinators : WF_vars(Work(c))
    /\ WF_vars((\A d \in Coordinators : pc[d] = "down") /\ \E c \in Coordinators : Start(c))
    /\ \A i \in Items : WF_vars(Age(i))

FairSpec == Spec /\ Fairness

----------------------------------------------------------------------------
(* Properties. *)

\* An item is completed only over bars on disk, whoever else worked on it and wherever a
\* process ended between fetch, label and result.
CompletedHasBars == ~DryRun => With("completed") \subseteq bars

\* One process at a time: a label is written twice only for a crash between the row and
\* the result; giving claims back under a running coordinator never repeats work.
RowsWithinCrashes == ~shared => \A i \in Items : rows[i] <= 1 + crashes

\* One process at a time: an item costs three attempts and one for each interruption.
AttemptsWithinLimit ==
    ~shared => \A i \in Items : attempts[i] <= MaxAttempts + crashes + resets

\* One process at a time: neither a restart nor --reset-stale reopens what is settled.
SettledStays ==
    [][\A i \in Items : ~shared' /\ status[i] \in Final => status'[i] = status[i]]_vars

\* What is enqueued is settled some day, even by several coordinators that give back and
\* repeat each other's claims.
EveryItemSettles == \A i \in Items : status[i] # "absent" ~> status[i] \in Final
=============================================================================
