-------------------------- MODULE SchedulerProofs --------------------------
(***************************************************************************)
(* Proofs about module Scheduler, for every queue, every set of runners,   *)
(* every limit on the attempts and every number of deaths and of agents    *)
(* without the lock.                                                       *)
(***************************************************************************)
EXTENDS Scheduler, FiniteSetTheorems, WellFoundedInduction, TLAPS

(* A non-empty set of natural numbers has a least element.                  *)
LEMMA LeastExists ==
  ASSUME NEW S \in SUBSET Nat, S # {}
  PROVE  \E m \in S : \A s \in S : m <= s
<1> DEFINE R == OpToRel(<, Nat)
<1>1. PICK m \in S : \A s \in S : ~ (<<s, m>> \in R)
  BY NatLessThanWellFounded, WFMin, Zenon
<1>2. ASSUME NEW s \in S, s < m
      PROVE  FALSE
  <2>1. <<s, m>> \in R
    BY <1>2, Zenon DEF OpToRel
  <2> QED
    BY <1>1, <2>1
<1> QED
  BY <1>2


Open == {"queued", "in_progress"}
Bounded(line) == line.status \in Open => line.attempts < RetryLimit

(* What every version of the queue has, in the file and in a runner's       *)
(* memory.                                                                  *)
QueueOK(q) ==
  /\ q \in Seq(Line)
  /\ \A i, j \in DOMAIN q : q[i].id = q[j].id => i = j
  /\ \A i \in DOMAIN q : Bounded(q[i])

-----------------------------------------------------------------------------
(* The operators on queues.                                                 *)

LEMMA QueueMap ==
  ASSUME NEW q, QueueOK(q), NEW f, DOMAIN f = DOMAIN q,
         f = [i \in DOMAIN f |-> f[i]],
         \A i \in DOMAIN q : f[i] \in Line /\ f[i].id = q[i].id /\ Bounded(f[i])
  PROVE  QueueOK(f)
<1>1. Len(q) \in Nat /\ DOMAIN q = 1 .. Len(q)
  BY DEF QueueOK
<1>2. f \in Seq(Line)
  BY <1>1
<1> QED
  BY <1>2 DEF QueueOK

LEMMA NextTaskIsOpen ==
  ASSUME NEW q, q \in Seq(Line), Candidates(q) # {}
  PROVE  /\ next_task(q) \in DOMAIN q /\ q[next_task(q)].status \in Open
         /\ next_task(q) \in Candidates(q)
<1>1. Candidates(q) \subseteq {i \in DOMAIN q : q[i].status \in Open}
  BY DEF Candidates, Queued, Stale, Open
<1>2. \E i \in Candidates(q) : \A j \in Candidates(q) : i <= j
  <2> DEFINE S == Candidates(q)
  <2>1. /\ S \in SUBSET Nat /\ S # {}
        /\ Len(q) \in Nat /\ \A i \in S : i <= Len(q)
    BY <1>1
  <2> HIDE DEF S
  <2>2. \E i \in S : \A j \in S : i <= j
    BY <2>1, LeastExists
  <2> QED
    BY <2>2 DEF S
<1>3. next_task(q) \in Candidates(q)
  BY <1>2 DEF next_task
<1> QED
  BY <1>1, <1>3

LEMMA MarkedOK ==
  ASSUME NEW q, QueueOK(q), Candidates(q) # {}
  PROVE  /\ q[next_task(q)].id \in Tasks
         /\ QueueOK(WithStatus(q, q[next_task(q)].id, "in_progress"))
<1> DEFINE n == next_task(q)
           f == WithStatus(q, q[n].id, "in_progress")
<1>1. n \in DOMAIN q /\ q[n].status \in Open /\ q[n] \in Line
  BY NextTaskIsOpen DEF QueueOK
<1>2. q[n].id \in Tasks
  BY <1>1 DEF Line
<1>3. ASSUME NEW i \in DOMAIN q
      PROVE  f[i] \in Line /\ f[i].id = q[i].id /\ Bounded(f[i])
  <2>1. q[i] \in Line /\ Bounded(q[i])
    BY DEF QueueOK
  <2>2. CASE q[i].id = q[n].id
    <3>1. i = n
      BY <1>1, <2>2 DEF QueueOK
    <3>2. f[i] = [q[i] EXCEPT !.status = "in_progress"]
      BY <2>2 DEF WithStatus
    <3>3. q[i].attempts < RetryLimit
      BY <1>1, <2>1, <3>1 DEF Bounded
    <3> QED
      BY <2>1, <3>2, <3>3 DEF Line, Bounded, Statuses
  <2>3. CASE q[i].id # q[n].id
    BY <2>1, <2>3 DEF WithStatus
  <2> QED
    BY <2>2, <2>3
<1>4. DOMAIN f = DOMAIN q /\ f = [i \in DOMAIN f |-> f[i]]
  BY DEF WithStatus
<1> HIDE DEF f
<1>5. QueueOK(f)
  BY <1>3, <1>4, QueueMap
<1> QED
  BY <1>2, <1>5 DEF f

LEMMA NewStatusOK ==
  ASSUME NEW res \in Results, NEW n \in Nat
  PROVE  /\ NewStatus(res, n) \in Statuses
         /\ NewStatus(res, n) \in Open => n < RetryLimit
         /\ NewStatus(res, n) = "done" <=> res = "done"
BY SchedulerAssumption DEF NewStatus, Results, Statuses, Open

LEMMA UpdateOK ==
  ASSUME NEW q, QueueOK(q), NEW t, NEW res \in Results
  PROVE  QueueOK(update_task(q, t, res))
<1> DEFINE f == update_task(q, t, res)
<1>1. ASSUME NEW i \in DOMAIN q
      PROVE  f[i] \in Line /\ f[i].id = q[i].id /\ Bounded(f[i])
  <2>1. q[i] \in Line /\ Bounded(q[i])
    BY DEF QueueOK
  <2>2. CASE q[i].id = t
    <3> DEFINE n == q[i].attempts + 1
    <3>1. n \in Nat
      BY <2>1 DEF Line
    <3>2. f[i] = [q[i] EXCEPT !.attempts = n, !.status = NewStatus(res, n)]
      BY <2>2 DEF update_task
    <3>3. NewStatus(res, n) \in Statuses /\ (NewStatus(res, n) \in Open => n < RetryLimit)
      BY <3>1, NewStatusOK
    <3> HIDE DEF n
    <3> QED
      BY <2>1, <3>1, <3>2, <3>3 DEF Line, Bounded
  <2>3. CASE q[i].id # t
    BY <2>1, <2>3 DEF update_task
  <2> QED
    BY <2>2, <2>3
<1>2. DOMAIN f = DOMAIN q /\ f = [i \in DOMAIN f |-> f[i]]
  BY DEF update_task
<1> HIDE DEF f
<1>3. QueueOK(f)
  BY <1>1, <1>2, QueueMap
<1> QED
  BY <1>3 DEF f

LEMMA DemotedOK ==
  ASSUME NEW q, QueueOK(q), NEW t
  PROVE  QueueOK(Demoted(q, t))
<1> DEFINE f == Demoted(q, t)
<1>1. ASSUME NEW i \in DOMAIN q
      PROVE  f[i] \in Line /\ f[i].id = q[i].id /\ Bounded(f[i])
  <2>1. q[i] \in Line /\ Bounded(q[i])
    BY DEF QueueOK
  <2>2. CASE q[i].id = t
    <3> DEFINE s == IF q[i].attempts < RetryLimit THEN "queued" ELSE "stalled"
    <3>1. f[i] = [q[i] EXCEPT !.status = s]
      BY <2>2 DEF Demoted
    <3>2. s \in Statuses /\ (s \in Open => q[i].attempts < RetryLimit)
      BY DEF Statuses, Open
    <3> HIDE DEF s
    <3> QED
      BY <2>1, <3>1, <3>2 DEF Line, Bounded
  <2>3. CASE q[i].id # t
    BY <2>1, <2>3 DEF Demoted
  <2> QED
    BY <2>2, <2>3
<1>2. DOMAIN f = DOMAIN q /\ f = [i \in DOMAIN f |-> f[i]]
  BY DEF Demoted
<1> HIDE DEF f
<1>3. QueueOK(f)
  BY <1>1, <1>2, QueueMap
<1> QED
  BY <1>3 DEF f

LEMMA PrefixOK ==
  ASSUME NEW q, QueueOK(q), NEW n \in 0 .. Len(q) - 1
  PROVE  QueueOK(SubSeq(q, 1, n)) /\ Done(SubSeq(q, 1, n)) \subseteq Done(q)
<1> DEFINE f == SubSeq(q, 1, n)
<1>1. q \in Seq(Line) /\ Len(q) \in Nat /\ DOMAIN q = 1 .. Len(q)
  BY DEF QueueOK
<1>2. f \in Seq(Line) /\ DOMAIN f = 1 .. n /\ \A i \in 1 .. n : f[i] = q[i]
  BY <1>1
<1>3. 1 .. n \subseteq DOMAIN q
  BY <1>1
<1> HIDE DEF f
<1>4. QueueOK(f)
  BY <1>2, <1>3 DEF QueueOK
<1>5. Done(f) \subseteq Done(q)
  BY <1>2, <1>3 DEF Done
<1> QED
  BY <1>4, <1>5 DEF f

-----------------------------------------------------------------------------
(* What the operators do to the set of tasks that are done.                 *)

LEMMA DoneOfMarked ==
  ASSUME NEW q, q \in Seq(Line), NEW t
  PROVE  Done(WithStatus(q, t, "in_progress")) \subseteq Done(q)
<1> DEFINE f == WithStatus(q, t, "in_progress")
<1>1. ASSUME NEW i \in DOMAIN q, f[i].status = "done"
      PROVE  f[i] = q[i]
  <2>1. q[i] \in Line
    OBVIOUS
  <2> QED
    BY <1>1, <2>1 DEF WithStatus, Line
<1>2. DOMAIN f = DOMAIN q
  BY DEF WithStatus
<1> HIDE DEF f
<1>3. Done(f) \subseteq Done(q)
  BY <1>1, <1>2 DEF Done
<1> QED
  BY <1>3 DEF f

LEMMA DoneOfUpdate ==
  ASSUME NEW q, q \in Seq(Line), NEW t, NEW res \in Results
  PROVE  /\ Done(update_task(q, t, res)) \subseteq Done(q) \cup {t}
         /\ res # "done" => t \notin Done(update_task(q, t, res))
<1> DEFINE f == update_task(q, t, res)
<1>1. ASSUME NEW i \in DOMAIN q
      PROVE  /\ f[i].id = q[i].id
             /\ q[i].id # t => f[i] = q[i]
             /\ q[i].id = t /\ res # "done" => f[i].status # "done"
  <2>1. q[i] \in Line
    OBVIOUS
  <2>2. CASE q[i].id = t
    <3> DEFINE n == q[i].attempts + 1
    <3>1. n \in Nat
      BY <2>1 DEF Line
    <3>2. f[i] = [q[i] EXCEPT !.attempts = n, !.status = NewStatus(res, n)]
      BY <2>2 DEF update_task
    <3>3. NewStatus(res, n) = "done" <=> res = "done"
      BY <3>1, NewStatusOK
    <3> HIDE DEF n
    <3> QED
      BY <2>1, <2>2, <3>2, <3>3 DEF Line
  <2>3. CASE q[i].id # t
    BY <2>3 DEF update_task
  <2> QED
    BY <2>2, <2>3
<1>2. DOMAIN f = DOMAIN q
  BY DEF update_task
<1> HIDE DEF f
<1>3. Done(f) \subseteq Done(q) \cup {t} /\ (res # "done" => t \notin Done(f))
  BY <1>1, <1>2 DEF Done
<1> QED
  BY <1>3 DEF f

LEMMA DoneOfDemoted ==
  ASSUME NEW q, q \in Seq(Line), NEW t
  PROVE  Done(Demoted(q, t)) \subseteq Done(q) \ {t}
<1> DEFINE f == Demoted(q, t)
<1>1. ASSUME NEW i \in DOMAIN q
      PROVE  /\ f[i].id = q[i].id
             /\ q[i].id # t => f[i] = q[i]
             /\ q[i].id = t => f[i].status # "done"
  <2>1. q[i] \in Line
    OBVIOUS
  <2> QED
    BY <2>1 DEF Demoted, Line
<1>2. DOMAIN f = DOMAIN q
  BY DEF Demoted
<1> HIDE DEF f
<1>3. Done(f) \subseteq Done(q) \ {t}
  BY <1>1, <1>2 DEF Done
<1> QED
  BY <1>3 DEF f

-----------------------------------------------------------------------------
(* Types, and the limit on the attempts.  A retry is bounded because every  *)
(* version of the queue is: the one in the file, and the one that a runner  *)
(* holds in memory and writes back when it demotes its task.                *)

QueuesOK == QueueOK(queue) /\ \A r \in Runners : QueueOK(items[r])
Typed == TypeOK /\ QueuesOK

LEMMA EmptyQueueOK == QueueOK(<< >>)
BY DEF QueueOK

LEMMA TypedInit == Init => Typed
<1> SUFFICES ASSUME Init
             PROVE  Typed
  OBVIOUS
<1>1. QueueOK(queue)
  <2>1. Len(Order) \in Nat /\ DOMAIN Order = 1 .. Len(Order)
    BY SchedulerAssumption
  <2>2. \A i \in DOMAIN Order : Order[i] \in Tasks
    BY DEF Tasks
  <2>3. DOMAIN queue = DOMAIN Order
    BY DEF Init
  <2>4. ASSUME NEW i \in DOMAIN queue
        PROVE  queue[i] \in Line /\ queue[i].id = Order[i] /\ Bounded(queue[i])
    <3>1. queue[i] = [id |-> Order[i], status |-> "queued", attempts |-> 0]
      BY <2>3 DEF Init
    <3>2. 0 < RetryLimit
      BY SchedulerAssumption
    <3> QED
      BY <2>2, <2>3, <3>1, <3>2 DEF Line, Statuses, Bounded
  <2>5. queue = [i \in DOMAIN queue |-> queue[i]]
    BY DEF Init
  <2>6. queue \in Seq(Line)
    BY <2>1, <2>3, <2>4, <2>5
  <2> QED
    BY <2>3, <2>4, <2>6, SchedulerAssumption DEF QueueOK
<1>2. \A r \in Runners : QueueOK(items[r]) /\ items[r] = << >>
  BY EmptyQueueOK DEF Init
<1>3. TypeOK
  <2>1. queue \in Seq(Line)
    BY <1>1 DEF QueueOK
  <2>2. items \in [Runners -> Seq(Line)]
    <3>1. << >> \in Seq(Line)
      OBVIOUS
    <3> QED
      BY <3>1 DEF Init
  <2>3. pc \in [Runners -> Places] /\ \A r \in Runners : pc[r] = "idle"
    BY DEF Init, Places
  <2>4. /\ task \in [Runners -> Tasks \cup {NoTask}]
        /\ result \in [Runners -> Results \cup {"none"}]
    BY DEF Init
  <2>5. deaths \in 0 .. MaxDeaths /\ edits \in 0 .. MaxEdits
    BY SchedulerAssumption DEF Init
  <2>6. strays \in 0 .. MaxStrays + deaths
    BY SchedulerAssumption DEF Init
  <2>7. /\ torn \in {"no", "cut", "garbled"}
        /\ lock \in Runners \cup {NoRunner}
        /\ {tree, head} \subseteq Trees
        /\ verified \subseteq Tasks /\ interrupted \subseteq Tasks /\ late \subseteq Tasks
        /\ {clean, trusted} \subseteq BOOLEAN
    BY DEF Init, Trees
  <2> QED
    BY <2>1, <2>2, <2>3, <2>4, <2>5, <2>6, <2>7 DEF TypeOK
<1> QED
  BY <1>1, <1>2, <1>3 DEF Typed, QueuesOK

LEMMA MarkedIsOK ==
  ASSUME Typed, NEW r \in Runners, CanStart(r)
  PROVE  /\ QueueOK(Marked) /\ Marked \in Seq(Line)
         /\ queue[next_task(queue)].id \in Tasks
         /\ Done(Marked) \subseteq Done(queue)
BY MarkedOK, DoneOfMarked DEF Typed, QueuesOK, QueueOK, CanStart, Marked

LEMMA RecordedIsOK ==
  ASSUME Typed, NEW r \in Runners, pc[r] = "record"
  PROVE  /\ QueueOK(Recorded(r)) /\ Recorded(r) \in Seq(Line)
         /\ Done(Recorded(r)) \subseteq Done(queue) \cup {task[r]}
         /\ result[r] # "done" => task[r] \notin Done(Recorded(r))
<1>1. result[r] \in Results /\ QueueOK(queue) /\ queue \in Seq(Line)
  BY DEF Typed, TypeOK, QueuesOK
<1> QED
  BY <1>1, UpdateOK, DoneOfUpdate DEF Recorded, QueueOK

LEMMA DemotedIsOK ==
  ASSUME Typed, NEW r \in Runners
  PROVE  /\ QueueOK(Demoted(items[r], task[r]))
         /\ Demoted(items[r], task[r]) \in Seq(Line)
         /\ Done(Demoted(items[r], task[r])) \subseteq Done(items[r]) \ {task[r]}
BY DemotedOK, DoneOfDemoted DEF Typed, QueuesOK, QueueOK

(* What a runner that dies in a write leaves of what it was writing.        *)
LEMMA TornIsOK ==
  ASSUME Typed, NEW r \in Runners, DieWriting(r)
  PROVE  /\ QueueOK(queue') /\ queue' \in Seq(Line)
         /\ \/ pc[r] \in {"mark", "save"} /\ Done(queue') \subseteq Done(items[r])
            \/ pc[r] = "demote" /\ Done(queue') \subseteq Done(items[r]) \ {task[r]}
<1>1. PICK q : /\ \/ pc[r] \in {"mark", "save"} /\ q = items[r]
                  \/ pc[r] = "demote" /\ q = Demoted(items[r], task[r])
               /\ \E n \in 0 .. Len(q) - 1 : queue' = SubSeq(q, 1, n)
  BY DEF DieWriting
<1>2. QueueOK(q)
  BY <1>1, DemotedIsOK DEF Typed, QueuesOK
<1>3. QueueOK(queue') /\ Done(queue') \subseteq Done(q)
  BY <1>1, <1>2, PrefixOK
<1>4. queue' \in Seq(Line)
  BY <1>3 DEF QueueOK
<1> QED
  BY <1>1, <1>3, <1>4, DemotedIsOK

(* What a person makes of the queue.                                        *)
LEMMA EditIsOK ==
  ASSUME Typed, NEW i \in DOMAIN queue, Edit(i)
  PROVE  /\ QueueOK(queue') /\ queue' \in Seq(Line)
         /\ DOMAIN queue' = DOMAIN queue
         /\ \A j \in DOMAIN queue :
              /\ queue'[j].id = queue[j].id
              /\ queue'[j].status = "done" <=> queue[j].status = "done"
              /\ queue'[j].status = "in_progress" <=> queue[j].status = "in_progress"
              /\ j # i => queue'[j] = queue[j]
<1> DEFINE f == queue'
<1>1. /\ queue[i].status \notin {"done", "in_progress"}
      /\ \/ f = [queue EXCEPT ![i].status = "queued", ![i].attempts = 0]
         \/ f = [queue EXCEPT ![i].status = "blocked"]
  BY DEF Edit
<1>2. QueueOK(queue) /\ queue \in Seq(Line) /\ 0 < RetryLimit
  BY SchedulerAssumption DEF Typed, QueuesOK, QueueOK
<1>3. DOMAIN f = DOMAIN queue /\ f = [j \in DOMAIN f |-> f[j]]
  BY <1>1, <1>2
<1>4. ASSUME NEW j \in DOMAIN queue
      PROVE  /\ f[j] \in Line /\ f[j].id = queue[j].id /\ Bounded(f[j])
             /\ f[j].status = "done" <=> queue[j].status = "done"
             /\ f[j].status = "in_progress" <=> queue[j].status = "in_progress"
             /\ j # i => f[j] = queue[j]
  <2>1. queue[j] \in Line /\ Bounded(queue[j])
    BY <1>2 DEF QueueOK
  <2>2. CASE j # i
    BY <1>1, <1>2, <2>1, <2>2
  <2>3. CASE j = i /\ f = [queue EXCEPT ![i].status = "queued", ![i].attempts = 0]
    BY <1>1, <1>2, <2>1, <2>3 DEF Line, Statuses, Bounded
  <2>4. CASE j = i /\ f = [queue EXCEPT ![i].status = "blocked"]
    BY <1>1, <1>2, <2>1, <2>4 DEF Line, Statuses, Bounded, Open
  <2> QED
    BY <1>1, <2>2, <2>3, <2>4
<1> HIDE DEF f
<1>5. QueueOK(f)
  BY <1>2, <1>3, <1>4, QueueMap
<1>6. f \in Seq(Line)
  BY <1>5 DEF QueueOK
<1> QED
  BY <1>3, <1>4, <1>5, <1>6 DEF f

LEMMA TypedStep == Typed /\ [Next]_vars => Typed'
<1> SUFFICES ASSUME Typed, [Next]_vars
             PROVE  Typed'
  OBVIOUS
<1> USE DEF Typed, QueuesOK
<1>1. ASSUME NEW r \in Runners, Start(r)
      PROVE  Typed'
  <2>1. QueueOK(Marked) /\ Marked \in Seq(Line) /\ queue[next_task(queue)].id \in Tasks
    BY <1>1, MarkedIsOK DEF Start
  <2>2. queue' = queue /\ items' = [items EXCEPT ![r] = Marked]
    BY <1>1 DEF Start
  <2>3. QueuesOK'
    BY <2>1, <2>2 DEF TypeOK
  <2>4. TypeOK'
    BY <1>1, <2>1, <2>2 DEF Start, Goto, bounds, history, verdicts, TypeOK, Places
  <2> QED
    BY <2>3, <2>4
<1>2. ASSUME NEW r \in Runners, Mark(r)
      PROVE  Typed'
  <2>1. QueuesOK' /\ queue' \in Seq(Line)
    BY <1>2 DEF Mark, TypeOK
  <2>2. TypeOK'
    BY <1>2, <2>1 DEF Mark, Goto, bounds, history, verdicts, TypeOK, Places
  <2> QED
    BY <2>1, <2>2
<1>3. ASSUME NEW r \in Runners, AgentEnds(r)
      PROVE  Typed'
  <2>1. QueuesOK'
    BY <1>3 DEF AgentEnds
  <2>2. {tree', head'} \subseteq Trees /\ {clean', trusted'} \subseteq BOOLEAN
    BY <1>3 DEF AgentEnds, MayCommit, TypeOK
  <2>3. TypeOK'
    BY <1>3, <2>2 DEF AgentEnds, Goto, bounds, verdicts, TypeOK, Places
  <2> QED
    BY <2>1, <2>3
<1>4. ASSUME NEW r \in Runners, Record(r)
      PROVE  Typed'
  <2>1. QueueOK(Recorded(r)) /\ Recorded(r) \in Seq(Line)
    BY <1>4, RecordedIsOK DEF Record
  <2>2. queue' = queue /\ items' = [items EXCEPT ![r] = Recorded(r)]
    BY <1>4 DEF Record
  <2>3. QueuesOK'
    BY <2>1, <2>2 DEF TypeOK
  <2>4. TypeOK'
    BY <1>4, <2>1, <2>2 DEF Record, Goto, bounds, verdicts, TypeOK, Places
  <2> QED
    BY <2>3, <2>4
<1>5. ASSUME NEW r \in Runners, Save(r)
      PROVE  Typed'
  <2>1. QueuesOK' /\ queue' \in Seq(Line)
    BY <1>5 DEF Save, TypeOK
  <2>2. TypeOK'
    BY <1>5, <2>1 DEF Save, Goto, bounds, TypeOK, Places
  <2> QED
    BY <2>1, <2>2
<1>6. ASSUME NEW r \in Runners, Sanity(r)
      PROVE  Typed'
  <2>1. QueuesOK'
    BY <1>6 DEF Sanity
  <2>2. TypeOK'
    BY <1>6 DEF Sanity, Goto, bounds, TypeOK, Places
  <2> QED
    BY <2>1, <2>2
<1>7. ASSUME NEW r \in Runners, Demote(r)
      PROVE  Typed'
  <2> DEFINE q == Demoted(items[r], task[r])
  <2>1. QueueOK(q) /\ q \in Seq(Line)
    BY DemotedIsOK
  <2>2. queue' = q /\ items' = [items EXCEPT ![r] = q]
    BY <1>7 DEF Demote, TypeOK
  <2> HIDE DEF q
  <2>3. QueuesOK'
    BY <2>1, <2>2 DEF TypeOK
  <2>4. TypeOK'
    BY <1>7, <2>1, <2>2 DEF Demote, Goto, bounds, history, verdicts, TypeOK, Places
  <2> QED
    BY <2>3, <2>4
<1>8. ASSUME NEW r \in Runners, Commit(r)
      PROVE  Typed'
  <2>1. QueuesOK'
    BY <1>8 DEF Commit
  <2>2. TypeOK'
    BY <1>8 DEF Commit, Goto, bounds, verdicts, TypeOK, Places
  <2> QED
    BY <2>1, <2>2
<1>9. ASSUME NEW r \in Runners, Finish(r)
      PROVE  Typed'
  <2>1. QueuesOK'
    BY <1>9, EmptyQueueOK DEF Finish, Exit, TypeOK
  <2>2. TypeOK'
    BY <1>9 DEF Finish, Exit, Goto, bounds, verdicts, TypeOK, Places
  <2> QED
    BY <2>1, <2>2
<1>10. ASSUME NEW r \in Runners, Dead(r), queue' \in Seq(Line), QueueOK(queue'),
              torn' \in {"no", "cut", "garbled"}, strays' \in {strays, strays + 1}
       PROVE  Typed'
  <2>1. QueuesOK'
    BY <1>10, EmptyQueueOK DEF Dead, Exit, TypeOK
  <2>2. deaths' \in 0 .. MaxDeaths /\ strays' \in 0 .. MaxStrays + deaths'
    BY <1>10, SchedulerAssumption, SMTT(30) DEF Dead, TypeOK
  <2>3. interrupted' \subseteq Tasks
    BY <1>10 DEF Dead, TypeOK
  <2>4. TypeOK'
    BY <1>10, <2>2, <2>3 DEF Dead, Exit, Goto, TypeOK, Places
  <2> QED
    BY <2>1, <2>4
<1>11. ASSUME NEW r \in Runners, Die(r)
       PROVE  Typed'
  <2>1. queue' \in Seq(Line) /\ QueueOK(queue') /\ torn' \in {"no", "cut", "garbled"}
    BY <1>11 DEF Die, TypeOK
  <2>2. Dead(r) /\ strays' \in {strays, strays + 1}
    BY <1>11 DEF Die, TypeOK
  <2> QED
    BY <1>10, <2>1, <2>2
<1>12. ASSUME NEW r \in Runners, DieWriting(r)
       PROVE  Typed'
  <2>1. queue' \in Seq(Line) /\ QueueOK(queue')
    BY <1>12, TornIsOK
  <2>2. Dead(r) /\ torn' \in {"no", "cut", "garbled"} /\ strays' = strays
    BY <1>12 DEF DieWriting
  <2> QED
    BY <1>10, <2>1, <2>2
<1>13. ASSUME NEW i \in DOMAIN queue, Edit(i)
       PROVE  Typed'
  <2>1. QueueOK(queue') /\ queue' \in Seq(Line)
    BY <1>13, EditIsOK
  <2>2. QueuesOK'
    BY <1>13, <2>1 DEF Edit, runner
  <2>3. edits' \in 0 .. MaxEdits
    BY <1>13, SchedulerAssumption DEF Edit, TypeOK
  <2>4. late' \subseteq Tasks
    <3>1. queue[i] \in Line
      BY DEF TypeOK
    <3>2. queue[i].id \in Tasks
      BY <3>1 DEF Line
    <3> QED
      BY <1>13, <3>2 DEF Edit, TypeOK
  <2>5. TypeOK'
    BY <1>13, <2>1, <2>3, <2>4 DEF Edit, runner, verdicts, TypeOK
  <2> QED
    BY <2>2, <2>5
<1>14. CASE on_gh_actions \/ StrayEdits \/ StrayEnds
  <2>1. QueuesOK'
    BY <1>14 DEF on_gh_actions, StrayEdits, StrayEnds, runner
  <2>2. deaths' = deaths /\ strays' \in 0 .. MaxStrays + deaths'
    BY <1>14, SchedulerAssumption
       DEF on_gh_actions, StrayEdits, StrayEnds, bounds, TypeOK
  <2>3. {tree', head'} \subseteq Trees /\ {clean', trusted'} \subseteq BOOLEAN
    BY <1>14 DEF on_gh_actions, StrayEdits, StrayEnds, MayCommit, history, TypeOK
  <2>4. TypeOK'
    BY <1>14, <2>2, <2>3 DEF on_gh_actions, StrayEdits, StrayEnds, runner, bounds, history,
                             verdicts, TypeOK
  <2> QED
    BY <2>1, <2>4
<1>15. CASE UNCHANGED vars
  BY <1>15 DEF vars, runner, bounds, history, verdicts, TypeOK
<1> QED
  BY <1>1, <1>2, <1>3, <1>4, <1>5, <1>6, <1>7, <1>8, <1>9, <1>11, <1>12, <1>13, <1>14, <1>15
     DEF Next, RunnerStep

THEOREM AlwaysTyped == Spec => []Typed
<1> QED
  BY TypedInit, TypedStep, PTL DEF Spec

(* Every variable keeps its type: the queue is a list of tasks whatever     *)
(* runner dies in the middle of writing it.                                 *)
THEOREM TypeCorrect == Spec => []TypeOK
<1>1. Typed => TypeOK
  BY DEF Typed
<1> QED
  BY <1>1, AlwaysTyped, PTL

(* No task that update_task or a demotion leaves to be run again has used   *)
(* up its attempts.                                                         *)
THEOREM RetriesBounded == Spec => []RetriesAreBounded
<1>1. Typed => RetriesAreBounded
  BY DEF Typed, QueuesOK, QueueOK, Bounded, Open, RetriesAreBounded
<1> QED
  BY <1>1, AlwaysTyped, PTL

-----------------------------------------------------------------------------
(* The lock.                                                                *)

LockHeld == \A r \in Runners : pc[r] # "idle" <=> lock = r

LEMMA LockStep == Typed /\ LockHeld /\ [Next]_vars => LockHeld'
<1> SUFFICES ASSUME Typed, LockHeld, [Next]_vars
             PROVE  LockHeld'
  OBVIOUS
<1> USE DEF LockHeld
<1>1. pc \in [Runners -> Places] /\ NoRunner \notin Runners
  BY SchedulerAssumption DEF Typed, TypeOK
<1>2. ASSUME NEW r \in Runners, Start(r)
      PROVE  LockHeld'
  BY <1>1, <1>2 DEF Start, CanStart, Goto
<1>3. ASSUME NEW r \in Runners, RunnerStep(r)
      PROVE  LockHeld'
  <2>1. CASE Mark(r)
    BY <1>1, <2>1 DEF Mark, Goto
  <2>2. CASE AgentEnds(r)
    BY <1>1, <2>2 DEF AgentEnds, Goto
  <2>3. CASE Record(r)
    BY <1>1, <2>3 DEF Record, Goto
  <2>4. CASE Save(r)
    BY <1>1, <2>4 DEF Save, Goto
  <2>5. CASE Sanity(r)
    BY <1>1, <2>5 DEF Sanity, Goto
  <2>6. CASE Demote(r)
    BY <1>1, <2>6 DEF Demote, Goto
  <2>7. CASE Commit(r)
    BY <1>1, <2>7 DEF Commit, Goto
  <2>8. CASE Finish(r)
    BY <1>1, <2>8 DEF Finish, Exit, Goto
  <2> QED
    BY <1>3, <2>1, <2>2, <2>3, <2>4, <2>5, <2>6, <2>7, <2>8 DEF RunnerStep
<1>4. ASSUME NEW r \in Runners, Die(r) \/ DieWriting(r)
      PROVE  LockHeld'
  <2>1. Dead(r) /\ pc[r] # "idle"
    BY <1>4, TornIsOK DEF Die, DieWriting
  <2> QED
    BY <1>1, <2>1 DEF Dead, Exit, Goto
<1>5. CASE (\E i \in DOMAIN queue : Edit(i)) \/ on_gh_actions \/ StrayEdits
             \/ StrayEnds \/ UNCHANGED vars
  BY <1>5 DEF Edit, on_gh_actions, StrayEdits, StrayEnds, vars, runner
<1> QED
  BY <1>2, <1>3, <1>4, <1>5 DEF Next

LEMMA AlwaysLocked == Spec => [](Typed /\ LockHeld)
<1>1. Init => LockHeld
  BY SchedulerAssumption DEF Init, LockHeld
<1> QED
  BY <1>1, TypedInit, TypedStep, LockStep, PTL DEF Spec

(* The lock file keeps two runners from working at the same time, through   *)
(* every death and every early end of a run.                                *)
THEOREM OneRunnerAtATime ==
  Spec => [](\A r, s \in Runners : Running(r) /\ Running(s) => r = s)
<1>1. LockHeld => \A r, s \in Runners : Running(r) /\ Running(s) => r = s
  BY DEF LockHeld, Running
<1> QED
  BY <1>1, AlwaysLocked, PTL

-----------------------------------------------------------------------------
(* The last commit.  Between the sanity build and the commit the tree is    *)
(* the one that passed, unless a stray has edited it.                       *)

CommitIsTested ==
  CommitsAreTested /\ \A r \in Runners : pc[r] = "commit" => tree # "bad" \/ ~ clean

LEMMA CommitStep ==
  Typed /\ LockHeld /\ CommitIsTested /\ [Next]_vars => CommitIsTested'
<1> SUFFICES ASSUME Typed, LockHeld, CommitIsTested, [Next]_vars
             PROVE  CommitIsTested'
  OBVIOUS
<1> USE DEF CommitIsTested, CommitsAreTested
<1>1. /\ pc \in [Runners -> Places] /\ NoRunner \notin Runners
      /\ {clean, trusted} \subseteq BOOLEAN
  BY SchedulerAssumption DEF Typed, TypeOK
<1>2. ASSUME NEW r \in Runners, pc[r] # "idle", NEW s \in Runners, pc[s] # "idle"
      PROVE  r = s
  BY <1>2 DEF LockHeld
<1>3. ASSUME NEW r \in Runners, NEW place \in Places \ {"commit"}, Goto(r, place),
             UNCHANGED <<tree, head, trusted>>,
             clean' = clean \/ pc[r] # "idle"
      PROVE  CommitIsTested'
  <2>1. ASSUME NEW s \in Runners, pc'[s] = "commit"
        PROVE  pc[s] = "commit" /\ s # r
    BY <1>1, <1>3, <2>1 DEF Goto
  <2>2. \A s \in Runners : pc'[s] = "commit" => clean' = clean
    BY <1>2, <1>3, <2>1
  <2> QED
    BY <1>3, <2>1, <2>2
<1>4. ASSUME NEW r \in Runners,
             \/ Start(r) \/ Mark(r) \/ Record(r) \/ Save(r) \/ Demote(r)
      PROVE  CommitIsTested'
  BY <1>3, <1>4 DEF Start, Mark, Record, Save, Demote, history, Places
<1>5. ASSUME NEW r \in Runners, Finish(r) \/ Die(r) \/ DieWriting(r)
      PROVE  CommitIsTested'
  <2>1. UNCHANGED <<tree, head, trusted>> /\ Goto(r, "idle") /\ pc[r] # "idle"
    BY <1>5, TornIsOK DEF Finish, Die, DieWriting, Dead, Exit
  <2> QED
    BY <1>3, <2>1 DEF Places
<1>6. ASSUME NEW r \in Runners, AgentEnds(r)
      PROVE  CommitIsTested'
  <2>1. \A s \in Runners : pc[s] # "commit"
    BY <1>1, <1>2, <1>6 DEF AgentEnds
  <2>2. \A s \in Runners : pc'[s] # "commit"
    BY <1>1, <1>6, <2>1 DEF AgentEnds, Goto
  <2> QED
    BY <1>6, <2>2 DEF AgentEnds, MayCommit
<1>7. ASSUME NEW r \in Runners, Sanity(r)
      PROVE  CommitIsTested'
  <2>1. pc' = [pc EXCEPT ![r] = "commit"] => tree # "bad" \/ ~ clean
    <3>1. PICK ok \in sanity_build :
             pc' = [pc EXCEPT ![r] = IF result[r] # "done" THEN "finish"
                                     ELSE IF ok THEN "commit" ELSE "demote"]
      BY <1>7 DEF Sanity, Goto
    <3>2. pc'[r] = "commit" => ok
      BY <1>1, <3>1
    <3>3. ok => tree # "bad" \/ ~ clean
      BY DEF sanity_build
    <3> QED
      BY <1>1, <3>2, <3>3
  <2>2. \E place \in Places : pc' = [pc EXCEPT ![r] = place]
    BY <1>7 DEF Sanity, Goto, Places
  <2>3. \A s \in Runners : pc'[s] = "commit" => pc[s] = "commit" \/ tree # "bad" \/ ~ clean
    BY <1>1, <2>1, <2>2
  <2> QED
    BY <1>7, <2>3 DEF Sanity
<1>8. ASSUME NEW r \in Runners, Commit(r)
      PROVE  CommitIsTested'
  <2>1. tree # "bad" \/ ~ clean
    BY <1>8 DEF Commit
  <2>2. /\ UNCHANGED <<head, trusted>> \/ (head' = tree /\ trusted' = clean)
        /\ UNCHANGED <<tree, clean>>
    BY <1>8 DEF Commit
  <2>3. \A s \in Runners : pc'[s] = "commit" => pc[s] = "commit"
    BY <1>1, <1>8 DEF Commit, Goto
  <2> QED
    BY <2>1, <2>2, <2>3
<1>9. CASE StrayEdits
  <2>1. UNCHANGED <<head, trusted>> \/ trusted' = FALSE
    BY <1>9 DEF StrayEdits, MayCommit
  <2>2. CommitsAreTested'
    BY <2>1
  <2>3. \A r \in Runners : pc'[r] = "commit" => clean' = FALSE
    BY <1>9 DEF StrayEdits, runner
  <2> QED
    BY <2>2, <2>3
<1>10. CASE (\E i \in DOMAIN queue : Edit(i)) \/ on_gh_actions \/ StrayEnds
              \/ UNCHANGED vars
  <2>1. UNCHANGED <<pc, tree, head, clean, trusted>>
    BY <1>10 DEF Edit, on_gh_actions, StrayEnds, vars, runner, history
  <2> QED
    BY <2>1
<1> QED
  BY <1>4, <1>5, <1>6, <1>7, <1>8, <1>9, <1>10 DEF Next, RunnerStep

(* A runner commits only a tree that its sanity build did not reject.       *)
THEOREM RunnerCommitsTested == Spec => []CommitsAreTested
<1>1. Init => CommitIsTested
  BY DEF Init, CommitIsTested, CommitsAreTested
<1>2. CommitIsTested => CommitsAreTested
  BY DEF CommitIsTested
<1> QED
  BY <1>1, <1>2, AlwaysLocked, CommitStep, PTL DEF Spec

-----------------------------------------------------------------------------
(* What done means.  A runner's copy of the queue has no task done that the *)
(* file has not, but for its own between the read and the write, so that    *)
(* writing it back, with its own task demoted, makes nothing else done.     *)

VerdictIsOut(t) ==
  \E r \in Runners : pc[r] \in {"sanity", "demote"} /\ task[r] = t

CopyIsNotAhead ==
  \A r \in Runners :
    /\ pc[r] \in {"mark", "sanity", "demote"} => Done(items[r]) \subseteq Done(queue)
    /\ pc[r] = "save" =>
         /\ Done(items[r]) \subseteq Done(queue) \cup {task[r]}
         /\ result[r] # "done" => task[r] \notin Done(items[r])
    /\ pc[r] \in {"sanity", "demote"} /\ result[r] # "done" => task[r] \notin Done(queue)

Verdicts == DoneWasVerified /\ CopyIsNotAhead

LEMMA VerdictStep ==
  Typed /\ LockHeld /\ Verdicts /\ [Next]_vars => Verdicts'
<1> SUFFICES ASSUME Typed, LockHeld, Verdicts, [Next]_vars
             PROVE  Verdicts'
  OBVIOUS
<1> USE DEF Verdicts
<1>1. /\ pc \in [Runners -> Places] /\ task \in [Runners -> Tasks \cup {NoTask}]
      /\ items \in [Runners -> Seq(Line)] /\ result \in [Runners -> Results \cup {"none"}]
      /\ NoRunner \notin Runners
  BY SchedulerAssumption DEF Typed, TypeOK
<1>2. ASSUME NEW r \in Runners, pc[r] # "idle", NEW s \in Runners, s # r
      PROVE  pc[s] = "idle"
  BY <1>2 DEF LockHeld
<1>3. \A t \in Done(queue) : t \in verified \cup interrupted \/ VerdictIsOut(t)
  BY DEF DoneWasVerified, VerdictIsOut
<1>4. ASSUME NEW r \in Runners, \A s \in Runners : s # r => pc'[s] = "idle",
             pc'[r] \notin {"mark", "save", "sanity", "demote"},
             \A t \in Done(queue') : t \in verified' \cup interrupted'
      PROVE  Verdicts'
  BY <1>4 DEF DoneWasVerified, CopyIsNotAhead
<1>5. ASSUME NEW r \in Runners, NEW place, Goto(r, place)
      PROVE  pc'[r] = place /\ \A s \in Runners \ {r} : pc'[s] = pc[s]
  BY <1>1, <1>5 DEF Goto
<1>6. ASSUME NEW r \in Runners, Start(r)
      PROVE  Verdicts'
  <2>1. \A s \in Runners : pc[s] = "idle"
    BY <1>1, <1>6 DEF LockHeld, Start, CanStart
  <2>2. queue' = queue /\ items'[r] = Marked /\ Done(Marked) \subseteq Done(queue)
    BY <1>1, <1>6, MarkedIsOK DEF Start
  <2>3. \A t \in Done(queue) : t \in verified \cup interrupted
    BY <1>3, <2>1 DEF VerdictIsOut
  <2>4. pc'[r] = "mark" /\ \A s \in Runners \ {r} : pc'[s] = "idle"
    BY <1>5, <1>6, <2>1 DEF Start
  <2> QED
    BY <1>6, <2>2, <2>3, <2>4 DEF Start, history, verdicts, DoneWasVerified, CopyIsNotAhead
<1>7. ASSUME NEW r \in Runners, pc[r] \notin {"idle", "sanity", "demote"}
      PROVE  \A t \in Done(queue) : t \in verified \cup interrupted
  BY <1>2, <1>3, <1>7 DEF VerdictIsOut
<1>8. ASSUME NEW r \in Runners, Mark(r) \/ AgentEnds(r) \/ Commit(r) \/ Finish(r)
      PROVE  Verdicts'
  <2>1. pc[r] \notin {"idle", "sanity", "demote"}
    BY <1>8 DEF Mark, AgentEnds, Commit, Finish
  <2>2. /\ pc'[r] \notin {"mark", "save", "sanity", "demote"}
        /\ \A s \in Runners \ {r} : pc'[s] = pc[s]
    BY <1>5, <1>8 DEF Mark, AgentEnds, Commit, Finish, Exit
  <2>3. Done(queue') \subseteq Done(queue) /\ UNCHANGED verdicts
    BY <1>8 DEF Mark, AgentEnds, Commit, Finish, history, CopyIsNotAhead
  <2> QED
    BY <1>2, <1>4, <1>7, <2>1, <2>2, <2>3 DEF verdicts
<1>9. ASSUME NEW r \in Runners, Record(r)
      PROVE  Verdicts'
  <2>1. pc[r] = "record" /\ pc'[r] = "save" /\ \A s \in Runners \ {r} : pc'[s] = "idle"
    BY <1>2, <1>5, <1>9 DEF Record
  <2>2. /\ items'[r] = Recorded(r)
        /\ UNCHANGED <<queue, task, result, verified, interrupted>>
    BY <1>1, <1>9 DEF Record, verdicts
  <2>3. /\ Done(items'[r]) \subseteq Done(queue) \cup {task[r]}
        /\ result[r] # "done" => task[r] \notin Done(items'[r])
    BY <2>1, <2>2, RecordedIsOK
  <2>4. \A t \in Done(queue) : t \in verified \cup interrupted
    BY <1>7, <2>1
  <2> QED
    BY <2>1, <2>2, <2>3, <2>4 DEF DoneWasVerified, CopyIsNotAhead
<1>10. ASSUME NEW r \in Runners, Save(r)
       PROVE  Verdicts'
  <2>1. pc[r] = "save" /\ pc'[r] = "sanity" /\ \A s \in Runners \ {r} : pc'[s] = "idle"
    BY <1>2, <1>5, <1>10 DEF Save
  <2>2. /\ queue' = items[r] /\ UNCHANGED <<items, task, result>>
        /\ verified' = verified \ {task[r]} /\ interrupted' = interrupted \ {task[r]}
    BY <1>10 DEF Save
  <2>3. /\ Done(queue') \subseteq Done(queue) \cup {task[r]}
        /\ result[r] # "done" => task[r] \notin Done(queue')
    BY <2>1, <2>2 DEF CopyIsNotAhead
  <2>4. \A t \in Done(queue) : t \in verified \cup interrupted
    BY <1>7, <2>1
  <2>5. DoneWasVerified'
    BY <2>1, <2>2, <2>3, <2>4 DEF DoneWasVerified
  <2>6. CopyIsNotAhead'
    BY <2>1, <2>2, <2>3 DEF CopyIsNotAhead
  <2> QED
    BY <2>5, <2>6
<1>11. ASSUME NEW r \in Runners, Sanity(r)
       PROVE  Verdicts'
  <2>1. pc[r] = "sanity" /\ UNCHANGED <<queue, items, task, result, interrupted>>
    BY <1>11 DEF Sanity
  <2>2. PICK ok \in sanity_build :
          /\ pc'[r] = IF result[r] # "done" THEN "finish" ELSE IF ok THEN "commit" ELSE "demote"
          /\ \A s \in Runners \ {r} : pc'[s] = pc[s]
          /\ verified' = IF result[r] = "done" /\ ok THEN verified \cup {task[r]}
                                                   ELSE verified
    BY <1>5, <1>11 DEF Sanity
  <2>3. \A t \in Done(queue) : t \in verified \cup interrupted \/ t = task[r]
    BY <1>2, <1>3, <2>1 DEF VerdictIsOut
  <2>4. \A s \in Runners \ {r} : pc'[s] = "idle"
    BY <1>2, <2>1, <2>2
  <2>5. CASE result[r] # "done"
    BY <1>4, <2>1, <2>2, <2>3, <2>4, <2>5 DEF CopyIsNotAhead
  <2>6. CASE result[r] = "done" /\ ok
    BY <1>4, <2>1, <2>2, <2>3, <2>4, <2>6
  <2>7. CASE result[r] = "done" /\ ~ ok
    <3>1. pc'[r] = "demote" /\ verified' = verified
      BY <2>2, <2>7
    <3> QED
      BY <2>1, <2>3, <2>4, <3>1 DEF DoneWasVerified, CopyIsNotAhead
  <2> QED
    BY <2>5, <2>6, <2>7
<1>12. ASSUME NEW r \in Runners, Demote(r)
       PROVE  Verdicts'
  <2>1. pc[r] = "demote" /\ UNCHANGED <<verified, interrupted>>
    BY <1>12 DEF Demote, history, verdicts
  <2>2. Done(queue') \subseteq Done(items[r]) \ {task[r]}
    BY <1>1, <1>12, DemotedIsOK DEF Demote
  <2>3. Done(items[r]) \subseteq Done(queue)
    BY <2>1 DEF CopyIsNotAhead
  <2>4. \A t \in Done(queue) : t \in verified \cup interrupted \/ t = task[r]
    BY <1>2, <1>3, <2>1 DEF VerdictIsOut
  <2>5. pc'[r] = "finish" /\ \A s \in Runners \ {r} : pc'[s] = "idle"
    BY <1>2, <1>5, <1>12, <2>1 DEF Demote
  <2> QED
    BY <1>4, <2>1, <2>2, <2>3, <2>4, <2>5
<1>13. ASSUME NEW r \in Runners, Die(r) \/ DieWriting(r)
       PROVE  Verdicts'
  <2>1. /\ pc'[r] = "idle" /\ \A s \in Runners \ {r} : pc'[s] = pc[s]
        /\ interrupted' = IF pc[r] \in {"save", "sanity", "demote"} /\ result[r] = "done"
                          THEN interrupted \cup {task[r]} ELSE interrupted
        /\ verified' = verified
    BY <1>5, <1>13 DEF Die, DieWriting, Dead, Exit
  <2>2. pc[r] # "idle" /\ \A s \in Runners \ {r} : pc[s] = "idle"
    BY <1>2, <1>13, TornIsOK DEF Die
  <2>3. \A t \in Done(queue) :
           \/ t \in verified \cup interrupted
           \/ pc[r] \in {"sanity", "demote"} /\ t = task[r]
    BY <1>3, <2>2 DEF VerdictIsOut
  <2>4. CASE Die(r)
    <3>1. queue' = queue
      BY <2>4 DEF Die
    <3>2. \A t \in Done(queue) : t \in verified' \cup interrupted'
      BY <2>1, <2>3 DEF CopyIsNotAhead
    <3> QED
      BY <1>4, <2>1, <2>2, <3>1, <3>2
  <2>5. CASE DieWriting(r)
    <3>1. CASE pc[r] = "mark" /\ Done(queue') \subseteq Done(items[r])
      BY <1>4, <2>1, <2>2, <2>3, <3>1 DEF CopyIsNotAhead
    <3>2. CASE pc[r] = "save" /\ Done(queue') \subseteq Done(items[r])
      BY <1>4, <2>1, <2>2, <2>3, <3>2 DEF CopyIsNotAhead
    <3>3. CASE pc[r] = "demote" /\ Done(queue') \subseteq Done(items[r]) \ {task[r]}
      BY <1>4, <2>1, <2>2, <2>3, <3>3 DEF CopyIsNotAhead
    <3> QED
      BY <2>5, <3>1, <3>2, <3>3, TornIsOK
  <2> QED
    BY <1>13, <2>4, <2>5
<1>14. ASSUME NEW i \in DOMAIN queue, Edit(i)
       PROVE  Verdicts'
  <2>1. Done(queue') = Done(queue)
    BY <1>14, EditIsOK DEF Done
  <2>2. UNCHANGED <<pc, items, task, result, verified, interrupted>>
    BY <1>14 DEF Edit, runner, verdicts
  <2> QED
    BY <2>1, <2>2 DEF DoneWasVerified, CopyIsNotAhead
<1>15. CASE on_gh_actions \/ StrayEdits \/ StrayEnds \/ UNCHANGED vars
  <2>1. UNCHANGED <<queue, pc, items, task, result, verified, interrupted>>
    BY <1>15 DEF on_gh_actions, StrayEdits, StrayEnds, vars, runner, history, verdicts
  <2> QED
    BY <2>1 DEF DoneWasVerified, CopyIsNotAhead
<1> QED
  BY <1>6, <1>8, <1>9, <1>10, <1>11, <1>12, <1>13, <1>14, <1>15 DEF Next, RunnerStep

(* A task that is done has passed the sanity build in its last run, or the  *)
(* verdict is out, or its runner died before the verdict.                   *)
THEOREM DoneAlwaysVerified == Spec => []DoneWasVerified
<1>1. Init => Verdicts
  <2>1. ASSUME Init
        PROVE  Done(queue) = {}
    BY <2>1 DEF Init, Done
  <2> QED
    BY <2>1 DEF Init, Verdicts, DoneWasVerified, CopyIsNotAhead
<1>2. Verdicts => DoneWasVerified
  BY DEF Verdicts
<1> QED
  BY <1>1, <1>2, AlwaysLocked, VerdictStep, PTL DEF Spec
-----------------------------------------------------------------------------
(* Dependencies.  A task that is done can only be undone by the runner that *)
(* made it so, from its own copy of the queue, and no line of that copy     *)
(* that is in progress depends on it: it was not done when they were        *)
(* started.                                                                 *)

Started(q) == {q[i].id : i \in {j \in DOMAIN q : q[j].status = "in_progress"}}

NothingToUndo ==
  torn = "no" =>
    /\ \A t \in Started(queue) : Deps[t] \subseteq Done(queue)
    /\ \A r \in Runners :
         /\ pc[r] \in {"mark", "agent", "record", "save"} => task[r] \notin Done(queue)
         /\ pc[r] = "mark" => task[r] \notin Done(items[r])
         /\ pc[r] \in {"mark", "save", "sanity", "demote"} =>
              \A t \in Started(items[r]) \cup {task[r]} :
                Deps[t] \subseteq Done(items[r]) \ {task[r]}

Dependencies == DependenciesStayDone /\ NothingToUndo

LEMMA OthersKept ==
  ASSUME NEW q, NEW f, NEW t, DOMAIN f = DOMAIN q,
         \A i \in DOMAIN q : q[i].id # t => f[i] = q[i],
         \A i \in DOMAIN q : f[i].id = q[i].id
  PROVE  /\ Done(q) \ {t} \subseteq Done(f)
         /\ Started(f) \subseteq Started(q) \cup {t}
BY DEF Done, Started

LEMMA MarkedKeeps ==
  ASSUME NEW q, q \in Seq(Line), NEW t
  PROVE  LET f == WithStatus(q, t, "in_progress")
         IN  /\ DOMAIN f = DOMAIN q
             /\ \A i \in DOMAIN q : q[i].id # t => f[i] = q[i]
             /\ Done(q) \ {t} \subseteq Done(f)
             /\ Started(f) \subseteq Started(q) \cup {t}
<1> DEFINE f == WithStatus(q, t, "in_progress")
<1>1. /\ DOMAIN f = DOMAIN q
      /\ \A i \in DOMAIN q : q[i].id # t => f[i] = q[i]
  BY DEF WithStatus
<1>2. ASSUME NEW i \in DOMAIN q
      PROVE  f[i].id = q[i].id
  <2>1. q[i] \in Line
    OBVIOUS
  <2> QED
    BY <2>1 DEF WithStatus, Line
<1> HIDE DEF f
<1>3. Done(q) \ {t} \subseteq Done(f) /\ Started(f) \subseteq Started(q) \cup {t}
  BY <1>1, <1>2, OthersKept
<1> QED
  BY <1>1, <1>3 DEF f

LEMMA UpdateKeeps ==
  ASSUME NEW q, q \in Seq(Line), NEW t, NEW res \in Results
  PROVE  LET f == update_task(q, t, res)
         IN  /\ DOMAIN f = DOMAIN q
             /\ \A i \in DOMAIN q : q[i].id # t => f[i] = q[i]
             /\ Done(q) \ {t} \subseteq Done(f)
             /\ Started(f) \subseteq Started(q)
<1> DEFINE f == update_task(q, t, res)
<1>1. /\ DOMAIN f = DOMAIN q
      /\ \A i \in DOMAIN q : q[i].id # t => f[i] = q[i]
  BY DEF update_task
<1>2. ASSUME NEW i \in DOMAIN q
      PROVE  /\ f[i].id = q[i].id
             /\ q[i].id = t => f[i].status # "in_progress"
  <2>1. q[i] \in Line
    OBVIOUS
  <2>2. CASE q[i].id = t
    <3> DEFINE n == q[i].attempts + 1
    <3>1. n \in Nat
      BY <2>1 DEF Line
    <3>2. f[i] = [q[i] EXCEPT !.attempts = n, !.status = NewStatus(res, n)]
      BY <2>2 DEF update_task
    <3>3. NewStatus(res, n) # "in_progress"
      BY DEF NewStatus, Results
    <3> HIDE DEF n
    <3> QED
      BY <2>1, <3>2, <3>3 DEF Line
  <2>3. CASE q[i].id # t
    BY <1>1, <2>3
  <2> QED
    BY <2>2, <2>3
<1> HIDE DEF f
<1>3. Done(q) \ {t} \subseteq Done(f)
  BY <1>1, <1>2, OthersKept
<1>4. Started(f) \subseteq Started(q)
  BY <1>1, <1>2 DEF Started
<1> QED
  BY <1>1, <1>3, <1>4 DEF f

LEMMA DemotedKeeps ==
  ASSUME NEW q, q \in Seq(Line), NEW t
  PROVE  /\ Done(q) \ {t} \subseteq Done(Demoted(q, t))
         /\ Started(Demoted(q, t)) \subseteq Started(q)
<1> DEFINE f == Demoted(q, t)
<1>1. /\ DOMAIN f = DOMAIN q
      /\ \A i \in DOMAIN q : q[i].id # t => f[i] = q[i]
  BY DEF Demoted
<1>2. ASSUME NEW i \in DOMAIN q
      PROVE  /\ f[i].id = q[i].id
             /\ q[i].id = t => f[i].status # "in_progress"
  <2>1. q[i] \in Line
    OBVIOUS
  <2> QED
    BY <2>1 DEF Demoted, Line
<1> HIDE DEF f
<1>3. Done(q) \ {t} \subseteq Done(f)
  BY <1>1, <1>2, OthersKept
<1>4. Started(f) \subseteq Started(q)
  BY <1>1, <1>2 DEF Started
<1> QED
  BY <1>3, <1>4 DEF f

(* next_task picks a task that is not done, and whose dependencies are: a   *)
(* queued one by its own test, a stale one because it was started.          *)
LEMMA NextTaskIsReady ==
  ASSUME Typed, torn = "no", NothingToUndo, Candidates(queue) # {}
  PROVE  LET t == queue[next_task(queue)].id
         IN  t \notin Done(queue) /\ Deps[t] \subseteq Done(queue)
<1> DEFINE n == next_task(queue)
<1>1. queue \in Seq(Line) /\ QueueOK(queue)
  BY DEF Typed, TypeOK, QueuesOK
<1>2. n \in DOMAIN queue /\ queue[n].status \in Open
  BY <1>1, NextTaskIsOpen
<1>3. n \in Candidates(queue)
  BY <1>1, NextTaskIsOpen
<1>4. queue[n].id \notin Done(queue)
  BY <1>1, <1>2 DEF Done, QueueOK, Open
<1>5. Deps[queue[n].id] \subseteq Done(queue)
  <2>1. CASE queue[n].status = "queued"
    BY <1>3, <2>1 DEF Candidates, Queued, Stale, deps_satisfied
  <2>2. CASE queue[n].status = "in_progress"
    BY <1>2, <2>2 DEF NothingToUndo, Started
  <2> QED
    BY <1>2, <2>1, <2>2 DEF Open
<1> QED
  BY <1>4, <1>5

LEMMA DependenciesStep ==
  Typed /\ LockHeld /\ Dependencies /\ [Next]_vars => Dependencies'
<1> SUFFICES ASSUME Typed, LockHeld, Dependencies, [Next]_vars
             PROVE  Dependencies'
  OBVIOUS
<1> USE DEF Dependencies
<1>1. /\ pc \in [Runners -> Places] /\ task \in [Runners -> Tasks \cup {NoTask}]
      /\ items \in [Runners -> Seq(Line)] /\ result \in [Runners -> Results \cup {"none"}]
      /\ queue \in Seq(Line) /\ NoRunner \notin Runners
  BY SchedulerAssumption DEF Typed, TypeOK
<1>2. ASSUME NEW r \in Runners, pc[r] # "idle", NEW s \in Runners, s # r
      PROVE  pc[s] = "idle"
  BY <1>2 DEF LockHeld
<1>3. ASSUME NEW r \in Runners, NEW place, Goto(r, place)
      PROVE  pc'[r] = place /\ \A s \in Runners \ {r} : pc'[s] = pc[s]
  BY <1>1, <1>3 DEF Goto
<1>4. ASSUME torn' # "no"
      PROVE  Dependencies'
  BY <1>4 DEF DependenciesStayDone, NothingToUndo
<1>5. ASSUME NEW r \in Runners, \A s \in Runners \ {r} : pc'[s] = "idle",
             UNCHANGED <<queue, torn, task>>, pc[r] # "idle",
             pc'[r] \in {"idle", "commit", "finish"}
      PROVE  Dependencies'
  BY <1>5 DEF DependenciesStayDone, NothingToUndo, Running
<1>6. ASSUME NEW r \in Runners, Start(r)
      PROVE  Dependencies'
  <2> DEFINE t == queue[next_task(queue)].id
  <2>1. CanStart(r) /\ UNCHANGED <<queue, torn>> /\ task'[r] = t
    BY <1>1, <1>6 DEF Start
  <2>2. pc'[r] = "mark" /\ \A s \in Runners \ {r} : pc'[s] = "idle"
    BY <1>1, <1>3, <1>6 DEF Start, CanStart, LockHeld
  <2>3. items'[r] = WithStatus(queue, t, "in_progress")
    BY <1>1, <1>6 DEF Start, Marked
  <2>4. ASSUME torn = "no"
        PROVE  t \notin Done(queue) /\ Deps[t] \subseteq Done(queue)
    BY <2>1, <2>4, NextTaskIsReady DEF CanStart
  <2> HIDE DEF t
  <2>5. /\ Done(queue) \ {t} \subseteq Done(items'[r]) /\ Done(items'[r]) \subseteq Done(queue)
        /\ Started(items'[r]) \subseteq Started(queue) \cup {t}
    BY <1>1, <2>3, MarkedKeeps, DoneOfMarked
  <2>6. ASSUME torn = "no", NEW u \in Started(items'[r]) \cup {t}
        PROVE  Deps[u] \subseteq Done(items'[r]) \ {t}
    BY <2>4, <2>5, <2>6 DEF NothingToUndo
  <2> QED
    BY <2>1, <2>2, <2>4, <2>5, <2>6 DEF DependenciesStayDone, NothingToUndo, Running
<1>7. ASSUME NEW r \in Runners, AgentEnds(r)
      PROVE  Dependencies'
  <2>1. /\ UNCHANGED <<queue, torn, task>> /\ pc[r] = "agent" /\ pc'[r] = "record"
        /\ \A s \in Runners \ {r} : pc'[s] = "idle"
    BY <1>2, <1>3, <1>7 DEF AgentEnds
  <2> QED
    BY <2>1 DEF DependenciesStayDone, NothingToUndo, Running
<1>8. ASSUME NEW r \in Runners, Record(r), torn = "no"
      PROVE  Dependencies'
  <2>1. /\ pc[r] = "record" /\ pc'[r] = "save"
        /\ \A s \in Runners \ {r} : pc'[s] = "idle"
    BY <1>2, <1>3, <1>8 DEF Record
  <2>2. UNCHANGED <<queue, torn, task>> /\ items'[r] = Recorded(r)
    BY <1>1, <1>8 DEF Record
  <2>3. result[r] \in Results
    BY <2>1 DEF Typed, TypeOK
  <2>4. /\ Done(queue) \ {task[r]} \subseteq Done(items'[r])
        /\ Started(items'[r]) \subseteq Started(queue)
    BY <1>1, <2>2, <2>3, UpdateKeeps DEF Recorded
  <2>5. /\ task[r] \notin Done(queue) /\ Deps[task[r]] \subseteq Done(queue)
        /\ \A t \in Started(queue) : Deps[t] \subseteq Done(queue)
    BY <1>8, <2>1 DEF DependenciesStayDone, NothingToUndo, Running
  <2>6. \A t \in Started(items'[r]) \cup {task[r]} :
          Deps[t] \subseteq Done(items'[r]) \ {task[r]}
    BY <2>4, <2>5
  <2> QED
    BY <2>1, <2>2, <2>5, <2>6 DEF DependenciesStayDone, NothingToUndo, Running
<1>9. ASSUME NEW r \in Runners, Mark(r) \/ Save(r), torn = "no"
      PROVE  Dependencies'
  <2>1. /\ pc[r] \in {"mark", "save"} /\ pc'[r] = IF pc[r] = "mark" THEN "agent" ELSE "sanity"
        /\ \A s \in Runners \ {r} : pc'[s] = "idle"
    BY <1>2, <1>3, <1>9 DEF Mark, Save
  <2>2. queue' = items[r] /\ UNCHANGED <<torn, items, task>>
    BY <1>9 DEF Mark, Save
  <2>3. \A t \in Started(items[r]) \cup {task[r]} : Deps[t] \subseteq Done(items[r]) \ {task[r]}
    BY <1>9, <2>1 DEF NothingToUndo
  <2>4. pc[r] = "mark" => task[r] \notin Done(items[r])
    BY <1>9 DEF NothingToUndo
  <2> QED
    BY <2>1, <2>2, <2>3, <2>4 DEF DependenciesStayDone, NothingToUndo, Running
<1>10. ASSUME NEW r \in Runners, Sanity(r)
       PROVE  Dependencies'
  <2>1. /\ pc[r] = "sanity" /\ pc'[r] \in {"finish", "commit", "demote"}
        /\ \A s \in Runners \ {r} : pc'[s] = "idle"
        /\ UNCHANGED <<queue, torn, items, task>>
    BY <1>2, <1>3, <1>10 DEF Sanity
  <2> QED
    BY <2>1 DEF DependenciesStayDone, NothingToUndo, Running
<1>11. ASSUME NEW r \in Runners, Demote(r), torn = "no"
       PROVE  Dependencies'
  <2>1. /\ pc[r] = "demote" /\ pc'[r] = "finish"
        /\ \A s \in Runners \ {r} : pc'[s] = "idle"
    BY <1>2, <1>3, <1>11 DEF Demote
  <2>2. UNCHANGED <<torn, task>> /\ queue' = Demoted(items[r], task[r])
    BY <1>1, <1>11 DEF Demote
  <2>3. /\ Done(items[r]) \ {task[r]} \subseteq Done(queue')
        /\ Started(queue') \subseteq Started(items[r])
    BY <1>1, <2>2, DemotedKeeps
  <2>4. \A t \in Started(items[r]) \cup {task[r]} :
          Deps[t] \subseteq Done(items[r]) \ {task[r]}
    BY <1>11, <2>1 DEF NothingToUndo
  <2> QED
    BY <2>1, <2>2, <2>3, <2>4 DEF DependenciesStayDone, NothingToUndo, Running
<1>12. ASSUME NEW r \in Runners, Commit(r)
       PROVE  Dependencies'
  BY <1>2, <1>3, <1>5, <1>12 DEF Commit
<1>13. ASSUME NEW r \in Runners, pc[r] # "idle", Exit(r), UNCHANGED <<queue, torn>>
       PROVE  Dependencies'
  <2>1. \A s \in Runners : pc'[s] = "idle"
    BY <1>1, <1>2, <1>3, <1>13 DEF Exit
  <2> QED
    BY <1>13, <2>1 DEF DependenciesStayDone, NothingToUndo, Running
<1>14. ASSUME NEW r \in Runners, Finish(r) \/ Die(r)
       PROVE  Dependencies'
  BY <1>13, <1>14 DEF Finish, Die, Dead
<1>15. ASSUME NEW r \in Runners, DieWriting(r)
       PROVE  Dependencies'
  BY <1>4, <1>15 DEF DieWriting
<1>16. ASSUME NEW i \in DOMAIN queue, Edit(i)
       PROVE  Dependencies'
  <2>1. Done(queue') = Done(queue) /\ Started(queue') = Started(queue)
    BY <1>16, EditIsOK DEF Done, Started
  <2>2. UNCHANGED <<torn, pc, items, task>>
    BY <1>16 DEF Edit, runner
  <2> QED
    BY <2>1, <2>2 DEF DependenciesStayDone, NothingToUndo, Running
<1>17. CASE on_gh_actions \/ StrayEdits \/ StrayEnds \/ UNCHANGED vars
  <2>1. UNCHANGED <<queue, torn, pc, items, task>>
    BY <1>17 DEF on_gh_actions, StrayEdits, StrayEnds, vars, runner
  <2> QED
    BY <2>1 DEF DependenciesStayDone, NothingToUndo, Running
<1>18. ASSUME NEW r \in Runners, Mark(r) \/ Record(r) \/ Save(r) \/ Demote(r)
       PROVE  Dependencies'
  BY <1>4, <1>8, <1>9, <1>11, <1>18 DEF Mark, Record, Save, Demote
<1> QED
  BY <1>6, <1>7, <1>10, <1>12, <1>14, <1>15, <1>16, <1>17, <1>18 DEF Next, RunnerStep

(* While a runner works on a task the dependencies of the task are done,    *)
(* for every queue and every dependency graph: a demotion, which writes an  *)
(* old copy of the queue back, undoes no task that another one waits on.    *)
THEOREM DependenciesAlwaysDone == Spec => []DependenciesStayDone
<1>1. Init => Dependencies
  BY DEF Init, Dependencies, DependenciesStayDone, NothingToUndo, Running, Started
<1>2. Dependencies => DependenciesStayDone
  BY DEF Dependencies
<1> QED
  BY <1>1, <1>2, AlwaysLocked, DependenciesStep, PTL DEF Spec

-----------------------------------------------------------------------------
(* Lost updates.  Between a read of the queue and the next one the copy of  *)
(* the runner differs from the file in the line of its own task, and in     *)
(* those that a person edited since.                                        *)

Same(q, f, touched) ==
  DOMAIN f = DOMAIN q /\ \A i \in DOMAIN q : q[i].id \notin touched => f[i] = q[i]

CopyIsCurrent ==
  \A r \in Runners :
    pc[r] \in {"mark", "save", "sanity", "demote"} =>
      /\ Same(queue, items[r], late \cup {task[r]})
      /\ \A i \in DOMAIN queue : items[r][i].id = queue[i].id

LEMMA DemotedSame ==
  ASSUME NEW q, q \in Seq(Line), NEW t
  PROVE  Same(q, Demoted(q, t), {t})
BY DEF Same, Demoted

LEMMA CopyStep ==
  Typed /\ LockHeld /\ CopyIsCurrent /\ [Next]_vars => CopyIsCurrent'
<1> SUFFICES ASSUME Typed, LockHeld, CopyIsCurrent, [Next]_vars
             PROVE  CopyIsCurrent'
  OBVIOUS
<1> USE DEF CopyIsCurrent
<1>1. /\ pc \in [Runners -> Places] /\ task \in [Runners -> Tasks \cup {NoTask}]
      /\ items \in [Runners -> Seq(Line)] /\ queue \in Seq(Line)
      /\ NoRunner \notin Runners
  BY SchedulerAssumption DEF Typed, TypeOK
<1>2. ASSUME NEW r \in Runners, pc[r] # "idle", NEW s \in Runners, s # r
      PROVE  pc[s] = "idle"
  BY <1>2 DEF LockHeld
<1>3. ASSUME NEW r \in Runners, NEW place, Goto(r, place)
      PROVE  pc'[r] = place /\ \A s \in Runners \ {r} : pc'[s] = pc[s]
  BY <1>1, <1>3 DEF Goto
<1>4. ASSUME NEW r \in Runners, Start(r)
      PROVE  CopyIsCurrent'
  <2> DEFINE t == queue[next_task(queue)].id
  <2>1. pc'[r] = "mark" /\ \A s \in Runners \ {r} : pc'[s] = "idle"
    BY <1>1, <1>3, <1>4 DEF Start, CanStart, LockHeld
  <2>2. /\ queue' = queue /\ task'[r] = t
        /\ items'[r] = WithStatus(queue, t, "in_progress")
    BY <1>1, <1>4 DEF Start, Marked
  <2>3. ASSUME NEW i \in DOMAIN queue
        PROVE  items'[r][i].id = queue[i].id
    <3>1. queue[i] \in Line
      BY <1>1
    <3> QED
      BY <2>2, <3>1 DEF WithStatus, Line
  <2> HIDE DEF t
  <2>4. Same(queue, items'[r], late' \cup {t})
    BY <1>1, <2>2, MarkedKeeps DEF Same
  <2> QED
    BY <2>1, <2>2, <2>3, <2>4
<1>5. ASSUME NEW r \in Runners, Record(r)
      PROVE  CopyIsCurrent'
  <2>1. pc[r] = "record" /\ pc'[r] = "save" /\ \A s \in Runners \ {r} : pc'[s] = "idle"
    BY <1>2, <1>3, <1>5 DEF Record
  <2>2. /\ UNCHANGED <<queue, task>>
        /\ items'[r] = update_task(queue, task[r], result[r])
    BY <1>1, <1>5 DEF Record, Recorded
  <2>3. result[r] \in Results
    BY <2>1 DEF Typed, TypeOK
  <2>4. Same(queue, items'[r], late' \cup {task[r]})
    BY <1>1, <2>2, <2>3, UpdateKeeps DEF Same
  <2>5. ASSUME NEW i \in DOMAIN queue
        PROVE  items'[r][i].id = queue[i].id
    <3>1. queue[i] \in Line
      BY <1>1
    <3> QED
      BY <2>2, <3>1 DEF update_task, Line
  <2> QED
    BY <2>1, <2>2, <2>4, <2>5
<1>6. ASSUME NEW r \in Runners, Mark(r) \/ Save(r)
      PROVE  CopyIsCurrent'
  <2>1. \A s \in Runners \ {r} : pc'[s] = "idle"
    BY <1>2, <1>3, <1>6 DEF Mark, Save
  <2>2. queue' = items[r] /\ items' = items
    BY <1>6 DEF Mark, Save
  <2> QED
    BY <2>1, <2>2 DEF Same
<1>7. ASSUME NEW r \in Runners, Sanity(r)
      PROVE  CopyIsCurrent'
  <2>1. pc[r] = "sanity" /\ \A s \in Runners \ {r} : pc'[s] = "idle"
    BY <1>2, <1>3, <1>7 DEF Sanity
  <2> QED
    BY <1>7, <2>1 DEF Sanity
<1>8. ASSUME NEW r \in Runners,
             \/ AgentEnds(r) \/ Demote(r) \/ Commit(r) \/ Finish(r) \/ Die(r) \/ DieWriting(r)
      PROVE  CopyIsCurrent'
  <2>1. pc[r] # "idle"
    BY <1>8, TornIsOK DEF AgentEnds, Demote, Commit, Finish, Die
  <2>2. pc'[r] \in {"record", "finish", "idle"}
    BY <1>3, <1>8 DEF AgentEnds, Demote, Commit, Finish, Die, DieWriting, Dead, Exit
  <2>3. \A s \in Runners \ {r} : pc'[s] = "idle"
    BY <1>2, <1>3, <1>8, <2>1
       DEF AgentEnds, Demote, Commit, Finish, Die, DieWriting, Dead, Exit
  <2> QED
    BY <2>2, <2>3
<1>9. ASSUME NEW i \in DOMAIN queue, Edit(i)
      PROVE  CopyIsCurrent'
  <2>1. UNCHANGED <<pc, items, task>> /\ DOMAIN queue' = DOMAIN queue
    BY <1>9, EditIsOK DEF Edit, runner
  <2>2. \A j \in DOMAIN queue :
          queue'[j].id = queue[j].id /\ (j # i => queue'[j] = queue[j])
    BY <1>9, EditIsOK
  <2>3. ASSUME NEW r \in Runners, pc[r] # "idle"
        PROVE  late' = late \cup {queue[i].id}
    BY <1>1, <1>9, <2>3 DEF Edit, LockHeld
  <2> QED
    BY <2>1, <2>2, <2>3 DEF Same
<1>10. CASE on_gh_actions \/ StrayEdits \/ StrayEnds \/ UNCHANGED vars
  BY <1>10 DEF on_gh_actions, StrayEdits, StrayEnds, vars, runner, history
<1> QED
  BY <1>4, <1>5, <1>6, <1>7, <1>8, <1>9, <1>10 DEF Next, RunnerStep

(* Whatever a runner writes to the queue, from the copy it read before, it  *)
(* keeps every line but its own task's and those edited since the read.     *)
THEOREM EditsKept == Spec => EditsAreKept
<1>1. Init => CopyIsCurrent
  BY DEF Init, CopyIsCurrent
<1>2. ASSUME Typed, CopyIsCurrent, NEW r \in Runners, Mark(r) \/ Save(r) \/ Demote(r)
      PROVE  Same(queue, queue', late \cup {task[r]})
  <2>1. /\ Same(queue, items[r], late \cup {task[r]})
        /\ \A i \in DOMAIN queue : items[r][i].id = queue[i].id
    BY <1>2 DEF CopyIsCurrent, Mark, Save, Demote
  <2>2. CASE Mark(r) \/ Save(r)
    BY <2>1, <2>2 DEF Mark, Save
  <2>3. CASE Demote(r)
    <3>1. items \in [Runners -> Seq(Line)] /\ items[r] \in Seq(Line)
      BY <1>2 DEF Typed, TypeOK
    <3>2. queue' = Demoted(items[r], task[r])
      BY <2>3, <3>1 DEF Demote
    <3>3. Same(items[r], queue', {task[r]})
      BY <3>1, <3>2, DemotedSame
    <3> QED
      BY <2>1, <3>3 DEF Same
  <2> QED
    BY <1>2, <2>2, <2>3
<1>3. ASSUME Typed, CopyIsCurrent, [Next]_vars
      PROVE  [\A r \in Runners : Mark(r) \/ Save(r) \/ Demote(r) =>
                /\ DOMAIN queue' = DOMAIN queue
                /\ \A i \in DOMAIN queue :
                     queue[i].id \notin late \cup {task[r]} => queue'[i] = queue[i]]_vars
  BY <1>2, <1>3 DEF Same
<1> QED
  BY <1>1, <1>3, AlwaysLocked, CopyStep, PTL DEF Spec, EditsAreKept
=============================================================================
