----------------------------- MODULE Scheduler -----------------------------
(***************************************************************************)
(* The task scheduler of workflow/: runs of runner.py, which cron, the     *)
(* event router and the GitHub poller start at any time and as often as    *)
(* they like, share a queue file, a lock file and a git work tree.  Agents *)
(* that do not hold the lock share the work tree too: the one that         *)
(* event_router.py starts for a failed GitHub Actions run, and one that    *)
(* outlives its runner.  The lock keeps runners apart and nobody else:     *)
(* between any two steps of a runner, its read and its write of the queue  *)
(* among them, a person may edit the queue and such an agent the tree.     *)
(*                                                                         *)
(* A runner may die at any step, by a signal (event_router.py kills it     *)
(* after 1500 s) or by an exception: the lock is released either way.  A   *)
(* write of the queue is not atomic: dying in it leaves a prefix.  What    *)
(* feeds the prompt or the report (last_error, cost_usd, STATE.md, logs)   *)
(* is left out, and so are the triggers a run sends at its end: a start    *)
(* needs none.                                                             *)
(*                                                                         *)
(* A definition named X_Variant is X with a plausible mistake in it, to    *)
(* show that a property notices the mistake.                               *)
(***************************************************************************)
EXTENDS Integers, FiniteSets, Sequences

CONSTANTS
  Order,       \* the ids of the tasks in the order of the queue's lines
  Deps,        \* depends_on of every task
  Runners, NoRunner,
  NoTask,
  RetryLimit,  \* 5: attempts of a stalled, partial, incomplete or demoted task
  FailLimit,   \* 3: attempts of a failed task
  MaxDeaths, MaxEdits, MaxStrays  \* bounds

Tasks == {Order[i] : i \in DOMAIN Order}

ASSUME SchedulerAssumption ==
  /\ Order \in Seq(Tasks)
  /\ \A i, j \in DOMAIN Order : Order[i] = Order[j] => i = j
  /\ Deps \in [Tasks -> SUBSET Tasks]
  /\ NoRunner \notin Runners /\ NoTask \notin Tasks
  /\ {RetryLimit, FailLimit} \subseteq Nat \ {0} /\ FailLimit <= RetryLimit
  /\ {MaxDeaths, MaxEdits, MaxStrays} \subseteq Nat

VARIABLES
  queue,        \* backlog/queue.jsonl, one record a line
  torn,         \* "no", or what a writer that died left: "cut", "garbled"
  lock,
  pc, items, task, result,  \* of every runner
  tree, head,   \* what the work tree and the last commit hold
  strays,       \* agents at work without the lock
  deaths, edits,
  verified,     \* history: tasks whose last run passed the sanity build
  interrupted,  \* history: tasks whose runner died before the verdict
  late,         \* history: tasks a person edited since the queue was last read
  clean,        \* history: no stray edited since the sanity build began
  trusted       \* history: a runner made the last commit, of a clean tree

runner == <<pc, items, task, result>>
bounds == <<deaths, edits>>
verdicts == <<verified, interrupted>>
history == <<verdicts, late, clean, trusted>>
vars == <<queue, torn, lock, runner, tree, head, strays, bounds, history>>

(* A tree builds and passes, or does not, or lacks the BUILD.bazel (without *)
(* bazel: the Cargo.toml) that the sanity build looks for first.            *)
Trees == {"good", "bad", "bare"}

Statuses == {"queued", "in_progress", "done", "blocked", "discovery", "stalled", "failed"}
Results == {"done", "blocked", "discovery", "stalled", "partial", "incomplete", "failed"}
Line == [id : Tasks, status : Statuses, attempts : Nat]

Done(q) == {q[i].id : i \in {j \in DOMAIN q : q[j].status = "done"}}
deps_satisfied(q, i) == Deps[q[i].id] \subseteq Done(q)

Queued_IgnoresDeps(q) == {i \in DOMAIN q : q[i].status = "queued"}
Queued(q) == {i \in DOMAIN q : q[i].status = "queued" /\ deps_satisfied(q, i)}

Stale_Never(q) == {}
Stale(q) == {i \in DOMAIN q : q[i].status = "in_progress"}

(* next_task: the first queued line whose dependencies are done, else the   *)
(* first line that a dead runner left in progress.                          *)
Candidates(q) == IF Queued(q) # {} THEN Queued(q) ELSE Stale(q)
next_task(q) == CHOOSE i \in Candidates(q) : \A j \in Candidates(q) : i <= j

WithStatus(q, t, s) ==
  [i \in DOMAIN q |-> IF q[i].id = t THEN [q[i] EXCEPT !.status = s] ELSE q[i]]

NewStatus_OffByOne(res, n) ==
  CASE res \in {"done", "blocked", "discovery"} -> res
    [] res \in {"stalled", "partial"} -> IF n > RetryLimit THEN "stalled" ELSE "queued"
    [] res = "incomplete"             -> IF n <= RetryLimit THEN "queued" ELSE "failed"
    [] OTHER                          -> IF n > FailLimit THEN "failed" ELSE "queued"

(* What update_task makes of a result after the n-th attempt.               *)
NewStatus(res, n) ==
  CASE res \in {"done", "blocked", "discovery"} -> res
    [] res \in {"stalled", "partial"} -> IF n >= RetryLimit THEN "stalled" ELSE "queued"
    [] res = "incomplete"             -> IF n < RetryLimit THEN "queued" ELSE "failed"
    [] OTHER                          -> IF n >= FailLimit THEN "failed" ELSE "queued"

update_task(q, t, res) ==
  [i \in DOMAIN q |->
     IF q[i].id = t
     THEN [q[i] EXCEPT !.attempts = @ + 1, !.status = NewStatus(res, q[i].attempts + 1)]
     ELSE q[i]]

Demoted_KeepsDone(q, t) == q

(* A task that was reported done and does not pass the sanity build.        *)
Demoted(q, t) ==
  [i \in DOMAIN q |->
     IF q[i].id = t
     THEN [q[i] EXCEPT !.status = IF q[i].attempts < RetryLimit THEN "queued" ELSE "stalled"]
     ELSE q[i]]

-----------------------------------------------------------------------------
Places == {"idle", "mark", "agent", "record", "save", "sanity", "demote", "commit", "finish"}

TypeOK ==
  /\ queue \in Seq(Line)
  /\ torn \in {"no", "cut", "garbled"}
  /\ lock \in Runners \cup {NoRunner}
  /\ pc \in [Runners -> Places]
  /\ items \in [Runners -> Seq(Line)]
  /\ task \in [Runners -> Tasks \cup {NoTask}]
  /\ result \in [Runners -> Results \cup {"none"}]
  /\ \A r \in Runners :
       /\ pc[r] # "idle" => task[r] \in Tasks
       /\ pc[r] \notin {"idle", "mark", "agent"} => result[r] \in Results
  /\ {tree, head} \subseteq Trees
  /\ deaths \in 0 .. MaxDeaths /\ edits \in 0 .. MaxEdits
  /\ strays \in 0 .. MaxStrays + deaths
  /\ verified \subseteq Tasks /\ interrupted \subseteq Tasks /\ late \subseteq Tasks
  /\ {clean, trusted} \subseteq BOOLEAN

Init ==
  /\ queue = [i \in DOMAIN Order |-> [id |-> Order[i], status |-> "queued", attempts |-> 0]]
  /\ torn = "no"
  /\ lock = NoRunner
  /\ pc = [r \in Runners |-> "idle"]
  /\ items = [r \in Runners |-> << >>]
  /\ task = [r \in Runners |-> NoTask]
  /\ result = [r \in Runners |-> "none"]
  /\ tree = "good" /\ head = "good"
  /\ strays = 0
  /\ deaths = 0 /\ edits = 0
  /\ verified = {} /\ interrupted = {} /\ late = {}
  /\ clean = TRUE /\ trusted = TRUE

Goto(r, place) == pc' = [pc EXCEPT ![r] = place]
Exit(r) ==
  /\ lock' = NoRunner
  /\ Goto(r, "idle")
  /\ items' = [items EXCEPT ![r] = << >>]
  /\ task' = [task EXCEPT ![r] = NoTask]
  /\ result' = [result EXCEPT ![r] = "none"]
  /\ late' = {} /\ clean' = TRUE

CanStart(r) ==
  /\ pc[r] = "idle" /\ lock = NoRunner
  /\ torn # "garbled" /\ Candidates(queue) # {}
Marked == WithStatus(queue, queue[next_task(queue)].id, "in_progress")

(* read_queue and next_task.  A run that finds the lock taken or no task to *)
(* do has no effect.                                                        *)
Start(r) ==
  /\ CanStart(r)
  /\ lock' = r
  /\ task' = [task EXCEPT ![r] = queue[next_task(queue)].id]
  /\ items' = [items EXCEPT ![r] = Marked]
  /\ Goto(r, "mark")
  /\ UNCHANGED <<queue, result, torn, tree, head, strays, bounds, history>>

(* write_queue writes what the runner has in memory over what is there.     *)
Mark(r) ==
  /\ pc[r] = "mark"
  /\ queue' = items[r]
  /\ Goto(r, "agent")
  /\ UNCHANGED <<torn, lock, items, task, result, tree, head, strays, bounds, history>>

(* What an agent does when the prompt tells it to commit.                   *)
MayCommit ==
  \/ UNCHANGED <<head, trusted>>
  \/ head' \in Trees /\ trusted' = FALSE

(* run_claude returns, at the latest when it kills the agent.  Whatever the *)
(* agent reports, it has edited the tree, and perhaps committed it: the     *)
(* prompt asks for that before any sanity build.                            *)
AgentEnds(r) ==
  /\ pc[r] = "agent"
  /\ \E res \in Results : result' = [result EXCEPT ![r] = res]
  /\ tree' \in Trees
  /\ MayCommit
  /\ Goto(r, "record")
  /\ UNCHANGED <<queue, torn, lock, items, task, strays, bounds, verdicts, late, clean>>

Recorded_Stale(r) == update_task(items[r], task[r], result[r])

(* The queue is read again, for it may have been edited in the meantime.    *)
Recorded(r) == update_task(queue, task[r], result[r])

Record(r) ==
  /\ pc[r] = "record"
  /\ items' = [items EXCEPT ![r] = Recorded(r)]
  /\ late' = {}
  /\ Goto(r, "save")
  /\ UNCHANGED <<queue, torn, lock, task, result, tree, head, strays, bounds, verdicts,
                 clean, trusted>>

(* The sanity build begins when the result is written.                      *)
Save(r) ==
  /\ pc[r] = "save"
  /\ queue' = items[r]
  /\ verified' = verified \ {task[r]}
  /\ interrupted' = interrupted \ {task[r]}
  /\ Goto(r, "sanity")
  /\ UNCHANGED <<torn, lock, items, task, result, tree, head, strays, bounds, late, clean,
                 trusted>>

sanity_build_OnlyTimesOut == BOOLEAN

(* A bare tree passes unbuilt.  Another one passes if it builds, and may    *)
(* time out.  The build and the tests take minutes: where a stray edits     *)
(* under them they may see any of it.                                       *)
sanity_build ==
  CASE ~ clean         -> BOOLEAN
    [] tree = "bare"   -> {TRUE}
    [] OTHER           -> {FALSE, tree = "good"}

Sanity(r) ==
  /\ pc[r] = "sanity"
  /\ \E ok \in sanity_build :
       /\ Goto(r, IF result[r] # "done" THEN "finish"
                  ELSE IF ok THEN "commit" ELSE "demote")
       /\ verified' = IF result[r] = "done" /\ ok THEN verified \cup {task[r]}
                                                  ELSE verified
  /\ UNCHANGED <<queue, torn, lock, items, task, result, tree, head, strays, bounds,
                 interrupted, late, clean, trusted>>

(* The queue is not read again here: what Save wrote is written again.      *)
Demote(r) ==
  /\ pc[r] = "demote"
  /\ items' = [items EXCEPT ![r] = Demoted(items[r], task[r])]
  /\ queue' = items'[r]
  /\ Goto(r, "finish")
  /\ UNCHANGED <<torn, lock, task, result, tree, head, strays, bounds, history>>

(* git commit takes the whole tree, or fails.                               *)
Commit(r) ==
  /\ pc[r] = "commit"
  /\ \/ UNCHANGED <<head, trusted>>
     \/ head' = tree /\ trusted' = clean
  /\ Goto(r, "finish")
  /\ UNCHANGED <<queue, torn, lock, items, task, result, tree, strays, bounds, verdicts,
                 late, clean>>

Finish(r) ==
  /\ pc[r] = "finish"
  /\ Exit(r)
  /\ UNCHANGED <<queue, torn, tree, head, strays, bounds, verdicts, trusted>>

Dead(r) ==
  /\ deaths < MaxDeaths /\ deaths' = deaths + 1
  /\ Exit(r)
  /\ interrupted' = IF pc[r] \in {"save", "sanity", "demote"} /\ result[r] = "done"
                    THEN interrupted \cup {task[r]} ELSE interrupted
  /\ UNCHANGED <<tree, head, edits, verified, trusted>>

(* The runner dies between two steps; its agent goes on if it has one.      *)
Die(r) ==
  /\ pc[r] # "idle"
  /\ Dead(r)
  /\ strays' = strays + (IF pc[r] = "agent" THEN 1 ELSE 0)
  /\ UNCHANGED <<queue, torn>>

(* The runner dies in write_queue: some lines are written, and perhaps a    *)
(* part of the next one, which no later run can parse.                      *)
DieWriting(r) ==
  \E q \in CASE pc[r] \in {"mark", "save"} -> {items[r]}
             [] pc[r] = "demote"           -> {Demoted(items[r], task[r])}
             [] OTHER                      -> {} :
    /\ Dead(r)
    /\ \E n \in 0 .. Len(q) - 1 : queue' = SubSeq(q, 1, n)
    /\ torn' \in {"cut", "garbled"}
    /\ UNCHANGED strays

RunnerStep(r) ==
  \/ Mark(r) \/ AgentEnds(r) \/ Record(r) \/ Save(r)
  \/ Sanity(r) \/ Demote(r) \/ Commit(r) \/ Finish(r)

(* A person edits a line of the queue: queues a task that waits for review  *)
(* again, with all its attempts, or holds a queued one back.                *)
Edit(i) ==
  /\ edits < MaxEdits
  /\ \/ /\ queue[i].status \in {"blocked", "discovery", "stalled", "failed"}
        /\ queue' = [queue EXCEPT ![i].status = "queued", ![i].attempts = 0]
     \/ /\ queue[i].status = "queued"
        /\ queue' = [queue EXCEPT ![i].status = "blocked"]
  /\ edits' = edits + 1
  /\ late' = IF lock = NoRunner THEN {} ELSE late \cup {queue[i].id}
  /\ UNCHANGED <<torn, lock, runner, tree, head, strays, deaths, verdicts, clean, trusted>>

(* on_gh_actions starts an agent that may edit, without the lock.           *)
on_gh_actions ==
  /\ strays < MaxStrays
  /\ strays' = strays + 1
  /\ UNCHANGED <<queue, torn, lock, runner, tree, head, bounds, history>>

(* It edits, and is told to commit at the end.                              *)
StrayEdits ==
  /\ strays > 0
  /\ tree' \in Trees
  /\ MayCommit
  /\ clean' = (clean /\ \A r \in Runners : pc[r] \notin {"sanity", "commit"})
  /\ UNCHANGED <<queue, torn, lock, runner, strays, bounds, verdicts, late>>

StrayEnds ==
  /\ strays > 0
  /\ strays' = strays - 1
  /\ UNCHANGED <<queue, torn, lock, runner, tree, head, bounds, history>>

Next ==
  \/ \E r \in Runners : Start(r) \/ RunnerStep(r) \/ Die(r) \/ DieWriting(r)
  \/ \E i \in DOMAIN queue : Edit(i)
  \/ on_gh_actions \/ StrayEdits \/ StrayEnds

(* cron starts runs for ever, and a run's steps all end: an agent is killed *)
(* after ten minutes, the build and the tests time out.                     *)
Fairness ==
  /\ WF_vars(\E r \in Runners : Start(r))
  /\ \A r \in Runners : WF_vars(RunnerStep(r))

Spec == Init /\ [][Next]_vars /\ Fairness

-----------------------------------------------------------------------------
Running(r) == pc[r] # "idle"

(* A task that the queue says is done passed the sanity build in its last   *)
(* run, except while the verdict is out and after a runner died before it:  *)
(* the queue says done first, and a crash makes that final.                 *)
DoneWasVerified ==
  \A t \in Done(queue) :
    \/ t \in verified \cup interrupted
    \/ \E r \in Runners : pc[r] \in {"sanity", "demote"} /\ task[r] = t

(* While a runner works on a task the dependencies of the task are done,    *)
(* although a task that is done can be demoted again.                       *)
DependenciesStayDone ==
  torn = "no" => \A r \in Runners : Running(r) => Deps[task[r]] \subseteq Done(queue)

(* A task is retried a bounded number of times: no status that has it run   *)
(* again comes with its attempts used up.                                   *)
RetriesAreBounded ==
  \A i \in DOMAIN queue :
    queue[i].status \in {"queued", "in_progress"} => queue[i].attempts < RetryLimit

(* A runner commits no tree that its sanity build would have rejected: the  *)
(* last commit is not a bad one unless an agent made it, or edited the tree *)
(* between the start of the sanity build and the commit.                    *)
CommitsAreTested == trusted => head # "bad"

(* A runner that writes the queue, from a copy it read before, leaves every *)
(* other task's line as it finds it, unless a person edited that line since *)
(* the read: edits made while the agent worked are kept, edits made during  *)
(* the sanity build of a task that fails it may be lost.                    *)
EditsAreKept ==
  [][\A r \in Runners : Mark(r) \/ Save(r) \/ Demote(r) =>
       /\ DOMAIN queue' = DOMAIN queue
       /\ \A i \in DOMAIN queue :
            queue[i].id \notin late \cup {task[r]} => queue'[i] = queue[i]]_vars

Waiting(i) ==
  queue[i].status \in {"queued", "in_progress"} /\ deps_satisfied(queue, i)

(* Every task that can be worked on is, until it is done or needs a person: *)
(* neither dead runners nor retries nor other tasks keep it waiting for     *)
(* ever.  A torn queue is beyond repair.                                    *)
QueueDrains == <>[](torn # "no" \/ \A i \in DOMAIN queue : ~ Waiting(i))
=============================================================================
