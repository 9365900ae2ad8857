------------------------------- MODULE Poller -------------------------------
(***************************************************************************)
(* gh_poller.py, the wrapper cron starts it with, and the handlers that    *)
(* event_router.py runs for its events.  A poller loads what it has seen   *)
(* from gh-state.json, asks GitHub for the pull requests and the failed    *)
(* runs, saves the file, and then starts one handler per change.           *)
(***************************************************************************)
EXTENDS Naturals, Sequences, FiniteSets, Bags, Functions

CONSTANTS
    Procs,          \* the poller processes cron or a user may start
    PRs,            \* the open pull requests (fewer than a page of the listing)
    Runs,           \* the Actions runs
    Failing,        \* those of them that end in failure
    Limit,          \* the runs one listing shows (20 in the code)
    NoProc,         \* the holder of a free lock
    MaxUpdates,     \* bound on the updates of a pull request
    MaxFaults       \* bound on crashes and failing calls of the poller

ASSUME FailingAssumption == Failing \subseteq Runs /\ NoProc \notin Procs

VARIABLES
    updated,        \* updated[n]: updatedAt of pull request n, 0 before it is opened
    runs,           \* the runs that have ended, newest first
    file,           \* gh-state.json: "absent", "torn", "garbled" or "saved", and its state
    lock,           \* the process that holds .gh-poller.lock
    pc,             \* pc[p]: where process p is
    state,          \* state[p]: the dictionary of p's loop
    events,         \* events[p]: the changes p has found and not triggered
    handlers,       \* the handlers that run, a bag
    faults,         \* crashes and failures so far
    triggered,      \* history: the events handlers were started for, a bag
    lost,           \* history: saved as seen, but their process never triggered them
    torn            \* history: whether a save has ever been cut short

github == <<updated, runs>>
history == <<triggered, lost, torn>>
vars == <<github, file, lock, pc, state, events, handlers, faults, history>>

PrEvent(n, u) == [kind |-> "gh-pr", id |-> n, at |-> u]
RunEvent(r) == [kind |-> "gh-actions", id |-> r, at |-> 0]
Events == {PrEvent(n, u) : n \in PRs, u \in 1 .. MaxUpdates} \cup {RunEvent(r) : r \in Failing}

Empty == [seen_prs |-> [n \in PRs |-> 0], seen_runs |-> {}]
States == [seen_prs : [PRs -> 0 .. MaxUpdates], seen_runs : SUBSET Failing]
Unreadable(kind) == [kind |-> kind, state |-> Empty]

Init ==
    /\ updated = [n \in PRs |-> 0]
    /\ runs = <<>>
    /\ file = Unreadable("absent")
    /\ lock = NoProc
    /\ pc = [p \in Procs |-> "down"]
    /\ state = [p \in Procs |-> Empty]
    /\ events = [p \in Procs |-> {}]
    /\ handlers = EmptyBag
    /\ faults = 0
    /\ triggered = EmptyBag
    /\ lost = {}
    /\ torn = FALSE

Goto(p, l) == pc' = [pc EXCEPT ![p] = l]

----------------------------------------------------------------------------
(* GitHub: pull requests are opened and changed, runs end (external).      *)

Update(n) ==
    /\ updated[n] < MaxUpdates
    /\ updated' = [updated EXCEPT ![n] = @ + 1]
    /\ UNCHANGED <<runs, file, lock, pc, state, events, handlers, faults, history>>

RunEnds(r) ==
    /\ r \notin Range(runs)
    /\ runs' = <<r>> \o runs
    /\ UNCHANGED <<updated, file, lock, pc, state, events, handlers, faults, history>>

\* What "gh run list --limit" shows of the failed runs.
FailedRuns == {runs[i] : i \in {j \in DOMAIN runs : j <= Limit}} \cap Failing

----------------------------------------------------------------------------
(* One process.                                                            *)

\* A second poller finds the lock taken and exits, which changes nothing.
MayStart_Unlocked(p) == TRUE
MayStart(p) == lock = NoProc

Start(p) ==
    /\ pc[p] = "down"
    /\ MayStart(p)
    /\ lock' = p
    /\ Goto(p, "load")
    /\ UNCHANGED <<github, file, state, events, handlers, faults, history>>

\* A file that is not JSON counts as no file; one that is not even UTF-8
\* raises, and the loop logs the error and sleeps.
load_state(p) ==
    /\ pc[p] = "load"
    /\ \/ /\ file.kind = "garbled"
          /\ Goto(p, "sleep")
          /\ UNCHANGED state
       \/ /\ file.kind # "garbled"
          /\ state' = [state EXCEPT ![p] = file.state]
          /\ Goto(p, "prs")
    /\ UNCHANGED <<github, file, lock, events, handlers, faults, history>>

\* The pull requests whose updatedAt is not the one last seen.
ChangedPRs_Newer(p) == {n \in PRs : updated[n] > state[p].seen_prs[n] + 1}
ChangedPRs(p) == {n \in PRs : updated[n] # state[p].seen_prs[n]}

poll_prs(p) ==
    /\ pc[p] = "prs"
    /\ events' = [events EXCEPT ![p] = {PrEvent(n, updated[n]) : n \in ChangedPRs(p)}]
    /\ state' = [state EXCEPT ![p].seen_prs = updated]
    /\ Goto(p, "actions")
    /\ UNCHANGED <<github, file, lock, handlers, faults, history>>

NewRuns(p) == FailedRuns \ state[p].seen_runs

\* main_loop keeps the changes of both polls.
Found_LastPoll(p, new) == new
Found(p, new) == events[p] \cup new

poll_actions(p) ==
    /\ pc[p] = "actions"
    /\ events' = [events EXCEPT ![p] = Found(p, {RunEvent(r) : r \in NewRuns(p)})]
    /\ state' = [state EXCEPT ![p].seen_runs = @ \cup FailedRuns]
    /\ Goto(p, "save")
    /\ UNCHANGED <<github, file, lock, handlers, faults, history>>

\* gh fails, times out or prints no JSON: the poll finds nothing.
GhFails(p) ==
    /\ \/ pc[p] = "prs" /\ Goto(p, "actions")
       \/ pc[p] = "actions" /\ Goto(p, "save")
    /\ events' = [events EXCEPT ![p] = IF pc[p] = "prs" THEN {} ELSE @]
    /\ UNCHANGED <<github, file, lock, state, handlers, faults, history>>

\* write_text truncates the file, writes it and closes it.
SaveTruncates(p) ==
    /\ pc[p] = "save"
    /\ file' = Unreadable("torn")
    /\ Goto(p, "writing")
    /\ UNCHANGED <<github, lock, state, events, handlers, faults, history>>

SaveWrites(p) ==
    /\ pc[p] = "writing"
    /\ file' = [kind |-> "saved", state |-> state[p]]
    /\ Goto(p, "trigger")
    /\ UNCHANGED <<github, lock, state, events, handlers, faults, history>>

trigger(p) ==
    /\ pc[p] = "trigger"
    /\ \E e \in events[p] :
          /\ handlers' = handlers (+) SetToBag({e})
          /\ triggered' = triggered (+) SetToBag({e})
          /\ events' = [events EXCEPT ![p] = @ \ {e}]
    /\ UNCHANGED <<github, file, lock, pc, state, faults, lost, torn>>

Polled(p) ==
    /\ pc[p] = "trigger"
    /\ events[p] = {}
    /\ Goto(p, "sleep")
    /\ UNCHANGED <<github, file, lock, state, events, handlers, faults, history>>

Wake(p) ==
    /\ pc[p] = "sleep"
    /\ Goto(p, "load")
    /\ UNCHANGED <<github, file, lock, state, events, handlers, faults, history>>

\* The process is gone and with it the lock, its dictionary and its events.
Gone(p) ==
    /\ Goto(p, "down")
    /\ lock' = IF lock = p THEN NoProc ELSE lock
    /\ state' = [state EXCEPT ![p] = Empty]
    /\ events' = [events EXCEPT ![p] = {}]

\* timeout 270 ends a poller that sleeps for 300 s.
TimedOut(p) ==
    /\ pc[p] = "sleep"
    /\ Gone(p)
    /\ UNCHANGED <<github, file, handlers, faults, history>>

Fault == faults < MaxFaults /\ faults' = faults + 1

\* What a cut-short save leaves: a prefix of the text, or of a character.
CutShort ==
    /\ \E kind \in {"torn", "garbled"} : file' = Unreadable(kind)
    /\ torn' = TRUE

\* The events lost with a process that has saved them as seen.
LostWith(p) == IF pc[p] = "trigger" THEN events[p] ELSE {}

Crash(p) ==
    /\ pc[p] \notin {"down", "sleep"}
    /\ Fault
    /\ \/ pc[p] = "writing" /\ CutShort
       \/ pc[p] # "writing" /\ UNCHANGED <<file, torn>>
    /\ lost' = lost \cup LostWith(p)
    /\ Gone(p)
    /\ UNCHANGED <<github, handlers, triggered>>

\* The write or a Popen raises: the loop logs it and goes to sleep, and the
\* events found are dropped.
PollError(p) ==
    /\ pc[p] \in {"writing", "trigger"}
    /\ Fault
    /\ \/ pc[p] = "writing" /\ CutShort
       \/ pc[p] # "writing" /\ UNCHANGED <<file, torn>>
    /\ lost' = lost \cup LostWith(p)
    /\ Goto(p, "sleep")
    /\ events' = [events EXCEPT ![p] = {}]
    /\ UNCHANGED <<github, lock, state, handlers, triggered>>

----------------------------------------------------------------------------
(* The handlers of event_router.py: no lock, and any number at a time.     *)

\* A handler ends with no effect when gh fails, the log is empty, the agent
\* runs out of time or leaves the pull request alone.  Otherwise on_gh_pr
\* approves or requests changes, which GitHub counts as an update of the pull
\* request, and the agent of on_gh_actions commits locally.
HandlerEnds(e) ==
    /\ handlers' = handlers (-) SetToBag({e})
    /\ UNCHANGED <<runs, file, lock, pc, state, events, faults, history>>

GivesUp(e) == HandlerEnds(e) /\ UNCHANGED updated

on_gh_pr(e) ==
    /\ e.kind = "gh-pr"
    /\ updated[e.id] < MaxUpdates
    /\ updated' = [updated EXCEPT ![e.id] = @ + 1]
    /\ HandlerEnds(e)

on_gh_actions(e) == e.kind = "gh-actions" /\ HandlerEnds(e) /\ UNCHANGED updated

----------------------------------------------------------------------------

Step(p) ==
    \/ load_state(p) \/ poll_prs(p) \/ poll_actions(p) \/ SaveTruncates(p)
    \/ SaveWrites(p) \/ trigger(p) \/ Polled(p) \/ Wake(p) \/ TimedOut(p)

Next ==
    \/ \E n \in PRs : Update(n)
    \/ \E r \in Runs : RunEnds(r)
    \/ \E p \in Procs : Start(p) \/ Step(p) \/ GhFails(p) \/ Crash(p) \/ PollError(p)
    \/ \E e \in BagToSet(handlers) : GivesUp(e) \/ on_gh_pr(e) \/ on_gh_actions(e)

\* cron starts a poller every five minutes, a poller goes on, and GitHub
\* answers now and then.
Fairness ==
    /\ WF_vars(\E p \in Procs : Start(p))
    /\ \A p \in Procs :
          /\ WF_vars(Step(p) \/ GhFails(p))
          /\ SF_vars(poll_prs(p))
          /\ SF_vars(poll_actions(p))

Spec == Init /\ [][Next]_vars /\ Fairness

----------------------------------------------------------------------------

\* The events that a saved state counts as seen.
Recorded(s) ==
    {PrEvent(n, s.seen_prs[n]) : n \in {m \in PRs : s.seen_prs[m] > 0}}
    \cup {RunEvent(r) : r \in s.seen_runs}

\* A state of a pull request and a failed run start at most one handler, over
\* all pollers and restarts, as long as no save has been cut short: then the
\* whole listing counts as new again.  (src/workflow/gh_poller.py:139-149.)
TriggeredOnce == ~torn => \A e \in BagToSet(triggered) : triggered[e] = 1

\* What the file calls seen has been triggered, is about to be by the process
\* that saved it, or was lost with that process: nothing is marked as seen and
\* then forgotten on any other way, and with no fault nothing is.
SeenIsTriggered ==
    /\ \A e \in Recorded(file.state) :
          \/ BagIn(e, triggered)
          \/ e \in lost
          \/ \E p \in Procs : pc[p] = "trigger" /\ e \in events[p]
    /\ faults = 0 => lost = {}

\* Every change of a pull request leads to a handler for it or for a later
\* change of the same one, and so does every failed run that stays in the
\* listing, unless the poller lost the event or the file is not UTF-8, after
\* which no poll gets past load_state.
ChangesAreHandled ==
    /\ \A n \in PRs, u \in 1 .. MaxUpdates :
          updated[n] = u ~>
             \/ \E w \in u .. MaxUpdates : BagIn(PrEvent(n, w), triggered) \/ PrEvent(n, w) \in lost
             \/ file.kind = "garbled"
    /\ \A r \in Failing :
          r \in FailedRuns ~>
             \/ BagIn(RunEvent(r), triggered) \/ RunEvent(r) \in lost
             \/ r \notin FailedRuns
             \/ file.kind = "garbled"
=============================================================================
