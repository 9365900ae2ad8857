---------------------------- MODULE PollerProofs ----------------------------
(***************************************************************************)
(* Proofs about module Poller, for every set of processes, pull requests   *)
(* and runs, every length of a listing, and every number of updates and    *)
(* of faults: what the file calls seen is not forgotten, and nothing is    *)
(* handled twice until a save has been cut short.                          *)
(***************************************************************************)
EXTENDS Poller, TLAPS

Places == {"down", "load", "prs", "actions", "save", "writing", "trigger", "sleep"}
AnyStates == [seen_prs : [PRs -> Nat], seen_runs : SUBSET Failing]

Typed ==
  /\ updated \in [PRs -> Nat]
  /\ file \in [kind : {"absent", "torn", "garbled", "saved"}, state : AnyStates]
  /\ file.kind # "saved" => file.state = Empty
  /\ lock \in Procs \cup {NoProc}
  /\ pc \in [Procs -> Places]
  /\ state \in [Procs -> AnyStates]
  /\ DOMAIN events = Procs
  /\ faults \in Nat

(* The lock file's flock: the process that runs is the one that holds it.  *)
OneProcess == \A p \in Procs : pc[p] # "down" => lock = p

(* A handler was started for e, or a crash has lost it.                     *)
Done(e) == BagIn(e, triggered) \/ e \in lost

(* What the dictionary of the process that runs calls seen is done, or      *)
(* still in its list of changes.                                            *)
SeenIsListed ==
  \A p \in Procs :
    /\ pc[p] = "prs" => \A e \in Recorded(state[p]) : Done(e)
    /\ pc[p] \in {"actions", "save", "writing"} =>
         \A e \in Recorded(state[p]) : Done(e) \/ e \in events[p]

SeenInv == Typed /\ OneProcess /\ SeenIsListed /\ SeenIsTriggered

-----------------------------------------------------------------------------
LEMMA EventsDiffer ==
  /\ \A n, u, m, w : PrEvent(n, u) = PrEvent(m, w) <=> n = m /\ u = w
  /\ \A n, u, r : PrEvent(n, u) # RunEvent(r)
  /\ \A r, q : RunEvent(r) = RunEvent(q) <=> r = q
BY DEF PrEvent, RunEvent

LEMMA EmptyIsTyped == Empty \in AnyStates /\ Recorded(Empty) = {}
BY DEF Empty, AnyStates, Recorded

LEMMA OneMoreBag ==
  ASSUME NEW B, NEW e
  PROVE  /\ \A x : BagIn(x, B (+) SetToBag({e})) <=> BagIn(x, B) \/ x = e
         /\ ~BagIn(e, B) => (B (+) SetToBag({e}))[e] = 1
BY DEF (+), BagIn, BagToSet, SetToBag

LEMMA OthersInBag ==
  ASSUME NEW B, NEW e, NEW x, BagIn(x, B), x # e
  PROVE  (B (+) SetToBag({e}))[x] = B[x] + 0
BY DEF (+), BagIn, BagToSet, SetToBag

LEMMA TypedStep ==
  ASSUME Typed, [Next]_vars
  PROVE  Typed'
<1> USE EmptyIsTyped
<1>1. ASSUME NEW n \in PRs, Update(n) PROVE Typed'
  BY <1>1 DEF Typed, Update, history
<1>2. ASSUME NEW r \in Runs, RunEnds(r) PROVE Typed'
  BY <1>2 DEF Typed, RunEnds, history
<1>3. ASSUME NEW p \in Procs, Start(p) PROVE Typed'
  BY <1>3 DEF Typed, Start, Goto, Places, history, github
<1>4. ASSUME NEW p \in Procs, load_state(p) PROVE Typed'
  BY <1>4 DEF Typed, load_state, Goto, Places, history, github
<1>5. ASSUME NEW p \in Procs, poll_prs(p) PROVE Typed'
  BY <1>5 DEF Typed, poll_prs, Goto, Places, history, github, AnyStates
<1>6. ASSUME NEW p \in Procs, poll_actions(p) PROVE Typed'
  BY <1>6 DEF Typed, poll_actions, FailedRuns, Goto, Places, history, github, AnyStates
<1>7. ASSUME NEW p \in Procs, GhFails(p) PROVE Typed'
  BY <1>7 DEF Typed, GhFails, Goto, Places, history, github
<1>8. ASSUME NEW p \in Procs, SaveTruncates(p) PROVE Typed'
  BY <1>8 DEF Typed, SaveTruncates, Unreadable, Goto, Places, history, github
<1>9. ASSUME NEW p \in Procs, SaveWrites(p) PROVE Typed'
  BY <1>9 DEF Typed, SaveWrites, Goto, Places, history, github
<1>10. ASSUME NEW p \in Procs, trigger(p) PROVE Typed'
  BY <1>10 DEF Typed, trigger, Goto, Places, history, github
<1>11. ASSUME NEW p \in Procs, Polled(p) \/ Wake(p) PROVE Typed'
  BY <1>11 DEF Typed, Polled, Wake, Goto, Places, history, github
<1>12. ASSUME NEW p \in Procs, TimedOut(p) PROVE Typed'
  BY <1>12 DEF Typed, TimedOut, Gone, Goto, Places, history, github
<1>13. ASSUME NEW p \in Procs, Crash(p) PROVE Typed'
  BY <1>13 DEF Typed, Crash, Gone, Fault, CutShort, Unreadable, Goto, Places, history, github
<1>14. ASSUME NEW p \in Procs, PollError(p) PROVE Typed'
  BY <1>14 DEF Typed, PollError, Fault, CutShort, Unreadable, Goto, Places, history, github
<1>15. ASSUME NEW e, GivesUp(e) \/ on_gh_pr(e) \/ on_gh_actions(e) PROVE Typed'
  BY <1>15 DEF Typed, GivesUp, on_gh_pr, on_gh_actions, HandlerEnds, history
<1>16. CASE UNCHANGED vars
  BY <1>16 DEF Typed, vars, history, github
<1> QED
  BY <1>1, <1>2, <1>3, <1>4, <1>5, <1>6, <1>7, <1>8, <1>9, <1>10, <1>11, <1>12, <1>13,
     <1>14, <1>15, <1>16 DEF Next, Step

LEMMA OneProcessStep ==
  ASSUME Typed, OneProcess, [Next]_vars
  PROVE  OneProcess'
<1> USE FailingAssumption
<1>1. ASSUME NEW p \in Procs, Start(p) PROVE OneProcess'
  BY <1>1 DEF Typed, OneProcess, Start, MayStart, Goto
<1>2. ASSUME NEW p \in Procs, TimedOut(p) \/ Crash(p) PROVE OneProcess'
  BY <1>2 DEF Typed, OneProcess, TimedOut, Crash, Gone, Goto
<1>3. ASSUME NEW p \in Procs,
             Step(p) \/ GhFails(p) \/ PollError(p), ~TimedOut(p)
      PROVE  OneProcess'
  BY <1>3 DEF Typed, OneProcess, Step, load_state, poll_prs, poll_actions, SaveTruncates,
              SaveWrites, trigger, Polled, Wake, GhFails, PollError, Goto, history, github
<1>4. CASE \/ \E n \in PRs : Update(n)
           \/ \E r \in Runs : RunEnds(r)
           \/ \E e \in BagToSet(handlers) : GivesUp(e) \/ on_gh_pr(e) \/ on_gh_actions(e)
           \/ UNCHANGED vars
  BY <1>4 DEF OneProcess, Update, RunEnds, GivesUp, on_gh_pr, on_gh_actions, HandlerEnds, vars
<1> QED
  BY <1>1, <1>2, <1>3, <1>4 DEF Next, Step

LEMMA Alone ==
  ASSUME OneProcess, NEW p \in Procs, pc[p] # "down"
  PROVE  \A q \in Procs : q # p => pc[q] = "down"
BY DEF OneProcess

(* Nothing that is done, lost or triggered, is undone.                      *)
LEMMA DoneStays ==
  ASSUME [Next]_vars, NEW e, Done(e)
  PROVE  Done(e)'
<1>1. ASSUME NEW p \in Procs, trigger(p) PROVE Done(e)'
  <2>1. PICK d \in events[p] : triggered' = triggered (+) SetToBag({d})
    BY <1>1 DEF trigger
  <2>2. \A x : BagIn(x, triggered') <=> BagIn(x, triggered) \/ x = d
    BY <2>1, OneMoreBag
  <2>3. lost' = lost
    BY <1>1 DEF trigger
  <2> QED
    BY <2>2, <2>3 DEF Done
<1>2. ASSUME NEW p \in Procs, Crash(p) \/ PollError(p) PROVE Done(e)'
  BY <1>2 DEF Crash, PollError, Done
<1>3. CASE UNCHANGED <<triggered, lost>>
  BY <1>3 DEF Done
<1>4. QED
  BY <1>1, <1>2, <1>3 DEF Next, Step, Update, RunEnds, Start, load_state, poll_prs, poll_actions,
     GhFails, SaveTruncates, SaveWrites, Polled, Wake, TimedOut, GivesUp, on_gh_pr,
     on_gh_actions, HandlerEnds, history, vars

(* What the polls add to the dictionary of p is on p's list.                *)
LEMMA PolledIsListed ==
  ASSUME Typed, NEW p \in Procs, poll_prs(p) \/ poll_actions(p), NEW e \in Recorded(state'[p])
  PROVE  e \in events'[p] \/ e \in Recorded(state[p])
<1>1. state[p] \in AnyStates
  BY DEF Typed
<1>2. CASE poll_prs(p)
  <2>1. /\ state'[p].seen_prs = updated /\ state'[p].seen_runs = state[p].seen_runs
        /\ events'[p] = {PrEvent(n, updated[n]) : n \in ChangedPRs(p)}
    BY <1>1, <1>2 DEF poll_prs, AnyStates, Typed
  <2>2. CASE \E n \in PRs : updated[n] > 0 /\ e = PrEvent(n, updated[n])
    BY <2>1, <2>2 DEF ChangedPRs, Recorded
  <2> QED
    BY <2>1, <2>2 DEF Recorded
<1>3. CASE poll_actions(p)
  <2>1. /\ state'[p].seen_prs = state[p].seen_prs
        /\ state'[p].seen_runs = state[p].seen_runs \cup FailedRuns
        /\ events'[p] = events[p] \cup {RunEvent(r) : r \in NewRuns(p)}
    BY <1>1, <1>3 DEF poll_actions, AnyStates, Typed, Found
  <2> QED
    BY <2>1 DEF NewRuns, Recorded
<1> QED
  BY <1>2, <1>3

LEMMA SeenStep ==
  ASSUME SeenInv, [Next]_vars
  PROVE  SeenInv'
<1> USE DEF SeenInv
<1>1. Typed' /\ OneProcess'
  BY TypedStep, OneProcessStep
<1>2. faults' = 0 => lost' = {}
  <2>1. CASE \E p \in Procs : Crash(p) \/ PollError(p)
    BY <2>1 DEF Typed, Crash, PollError, Fault
  <2>2. CASE UNCHANGED <<faults, lost>>
    BY <2>2 DEF SeenIsTriggered
  <2>3. (\E p \in Procs : Crash(p) \/ PollError(p)) \/ UNCHANGED <<faults, lost>>
    BY DEF Next, vars, Step, Update, RunEnds, Start, load_state, poll_prs,
           poll_actions, GhFails, SaveTruncates, SaveWrites, trigger, Polled, Wake, TimedOut,
           GivesUp, on_gh_pr, on_gh_actions, HandlerEnds, history
  <2> QED
    BY <2>1, <2>2, <2>3
<1> DEFINE FileSeen == \A e \in Recorded(file.state) :
                         Done(e) \/ \E p \in Procs : pc[p] = "trigger" /\ e \in events[p]
<1>3. FileSeen
  BY DEF SeenIsTriggered, Done
<1>4. SUFFICES SeenIsListed' /\ FileSeen'
  BY <1>1, <1>2 DEF SeenIsTriggered, Done
<1>5. CASE UNCHANGED <<file, pc, state, events>>
  BY <1>3, <1>5, DoneStays DEF SeenIsListed, Recorded
<1>6. CASE \E p \in Procs : Start(p)
  <2>1. PICK p \in Procs : Start(p)
    BY <1>6
  <2>2. /\ \A q \in Procs : q # p => pc'[q] = pc[q]
        /\ pc[p] = "down" /\ pc'[p] = "load"
        /\ UNCHANGED <<file, state, events, triggered, lost>>
    BY <2>1 DEF Start, Goto, Typed, history
  <2> QED
    BY <1>3, <2>2 DEF SeenIsListed, Recorded, Done
(* From here on one process steps, and no other one runs.                   *)
<1>7. ASSUME NEW p \in Procs, pc[p] # "down", pc' = [pc EXCEPT ![p] = pc'[p]],
             state' = [state EXCEPT ![p] = state'[p]],
             /\ pc'[p] = "prs" => \A e \in Recorded(state'[p]) : Done(e)'
             /\ pc'[p] \in {"actions", "save", "writing"} =>
                  \A e \in Recorded(state'[p]) : Done(e)' \/ e \in events'[p],
             \A e \in Recorded(file'.state) :
               Done(e)' \/ (pc'[p] = "trigger" /\ e \in events'[p])
      PROVE  SeenIsListed' /\ FileSeen'
  <2>1. \A q \in Procs : q # p => pc'[q] = "down"
    BY <1>7, Alone DEF Typed
  <2> QED
    BY <1>7, <2>1 DEF SeenIsListed, Recorded
(* What the file has seen is done while p is not about to trigger it.       *)
<1>8. ASSUME NEW p \in Procs, pc[p] \notin {"down", "trigger"}, NEW e \in Recorded(file.state)
      PROVE  Done(e)
  BY <1>3, <1>8, Alone
<1>9. ASSUME NEW p \in Procs, load_state(p) PROVE SeenIsListed' /\ FileSeen'
  <2>1. /\ pc[p] = "load" /\ pc' = [pc EXCEPT ![p] = pc'[p]] /\ pc'[p] \in {"prs", "sleep"}
        /\ state' = [state EXCEPT ![p] = state'[p]] /\ UNCHANGED file
        /\ pc'[p] = "prs" => state'[p] = file.state
    BY <1>9 DEF load_state, Goto, Typed
  <2>2. \A e \in Recorded(file.state) : Done(e)'
    BY <1>8, <2>1, DoneStays
  <2> QED
    BY <1>7, <2>1, <2>2
<1>10. ASSUME NEW p \in Procs, poll_prs(p) \/ poll_actions(p)
       PROVE  SeenIsListed' /\ FileSeen'
  <2>1. /\ pc[p] \in {"prs", "actions"} /\ pc' = [pc EXCEPT ![p] = pc'[p]]
        /\ pc'[p] \in {"actions", "save"}
        /\ state' = [state EXCEPT ![p] = state'[p]] /\ UNCHANGED file
    BY <1>10 DEF poll_prs, poll_actions, Goto, Typed
  <2>2. ASSUME NEW e \in Recorded(state'[p]) PROVE Done(e)' \/ e \in events'[p]
    <3>1. e \in events'[p] \/ e \in Recorded(state[p])
      BY <1>10, PolledIsListed
    <3>2. e \in Recorded(state[p]) => Done(e) \/ (pc[p] = "actions" /\ e \in events[p])
      BY <2>1 DEF SeenIsListed
    <3>3. pc[p] = "actions" => events[p] \subseteq events'[p]
      BY <1>10 DEF poll_prs, poll_actions, Found, Typed
    <3> QED
      BY <3>1, <3>2, <3>3, DoneStays
  <2>3. \A e \in Recorded(file.state) : Done(e)'
    BY <1>8, <2>1, DoneStays
  <2> QED
    BY <1>7, <2>1, <2>2, <2>3
<1>11. ASSUME NEW p \in Procs, GhFails(p) PROVE SeenIsListed' /\ FileSeen'
  <2>1. /\ pc[p] \in {"prs", "actions"} /\ pc' = [pc EXCEPT ![p] = pc'[p]]
        /\ pc'[p] \in {"actions", "save"} /\ (pc[p] = "actions" => events'[p] = events[p])
        /\ UNCHANGED <<file, state>>
    BY <1>11 DEF GhFails, Goto, Typed
  <2>2. ASSUME NEW e \in Recorded(state[p]) PROVE Done(e)' \/ e \in events'[p]
    BY <2>1, DoneStays DEF SeenIsListed
  <2>3. \A e \in Recorded(file.state) : Done(e)'
    BY <1>8, <2>1, DoneStays
  <2>4. state' = [state EXCEPT ![p] = state'[p]]
    BY <2>1 DEF Typed
  <2> QED
    BY <1>7, <2>1, <2>2, <2>3, <2>4
<1>12. ASSUME NEW p \in Procs, SaveTruncates(p) \/ SaveWrites(p)
       PROVE  SeenIsListed' /\ FileSeen'
  <2>1. /\ pc[p] \in {"save", "writing"} /\ pc' = [pc EXCEPT ![p] = pc'[p]]
        /\ UNCHANGED <<state, events>>
        /\ \/ pc'[p] = "writing" /\ file'.state = Empty
           \/ pc'[p] = "trigger" /\ file'.state = state[p]
    BY <1>12 DEF SaveTruncates, SaveWrites, Unreadable, Goto, Typed
  <2>2. ASSUME NEW e \in Recorded(state[p]) PROVE Done(e)' \/ e \in events'[p]
    BY <2>1, DoneStays DEF SeenIsListed
  <2>3. state' = [state EXCEPT ![p] = state'[p]]
    BY <2>1 DEF Typed
  <2> QED
    BY <1>7, <2>1, <2>2, <2>3, EmptyIsTyped
<1>13. ASSUME NEW p \in Procs, trigger(p) PROVE SeenIsListed' /\ FileSeen'
  <2>1. PICK d \in events[p] : /\ triggered' = triggered (+) SetToBag({d})
                               /\ events' = [events EXCEPT ![p] = @ \ {d}]
    BY <1>13 DEF trigger
  <2>2. pc[p] = "trigger" /\ UNCHANGED <<file, pc, state>>
    BY <1>13 DEF trigger
  <2>3. Done(d)'
    BY <2>1, OneMoreBag DEF Done
  <2>4. \A e \in Recorded(file.state) : Done(e)' \/ e \in events'[p]
    BY <1>3, <2>1, <2>2, <2>3, Alone, DoneStays DEF Typed
  <2>5. pc' = [pc EXCEPT ![p] = pc'[p]] /\ state' = [state EXCEPT ![p] = state'[p]]
    BY <2>2 DEF Typed
  <2> QED
    BY <1>7, <2>2, <2>4, <2>5
<1>14. ASSUME NEW p \in Procs, Polled(p) \/ Wake(p) \/ TimedOut(p)
       PROVE  SeenIsListed' /\ FileSeen'
  <2>1. /\ pc[p] = "sleep" \/ (pc[p] = "trigger" /\ events[p] = {})
        /\ pc' = [pc EXCEPT ![p] = pc'[p]] /\ pc'[p] \in {"sleep", "load", "down"}
        /\ state' = [state EXCEPT ![p] = state'[p]] /\ UNCHANGED file
    BY <1>14 DEF Polled, Wake, TimedOut, Gone, Goto, Typed
  <2>2. \A e \in Recorded(file.state) : Done(e)'
    BY <1>3, <2>1, Alone, DoneStays
  <2> QED
    BY <1>7, <2>1, <2>2
<1>15. ASSUME NEW p \in Procs, Crash(p) \/ PollError(p) PROVE SeenIsListed' /\ FileSeen'
  <2>1. /\ pc[p] # "down" /\ pc' = [pc EXCEPT ![p] = pc'[p]] /\ pc'[p] \in {"sleep", "down"}
        /\ state' = [state EXCEPT ![p] = state'[p]]
        /\ lost' = lost \cup LostWith(p)
        /\ file'.state = Empty \/ (file' = file /\ pc[p] # "writing")
    BY <1>15 DEF Crash, PollError, CutShort, Unreadable, Gone, Goto, Typed
  <2>2. ASSUME file' = file, NEW e \in Recorded(file.state) PROVE Done(e)'
    <3>1. Done(e) \/ (pc[p] = "trigger" /\ e \in events[p])
      BY <1>3, <2>1, Alone
    <3> QED
      BY <2>1, <3>1, DoneStays DEF LostWith, Done
  <2> QED
    BY <1>7, <2>1, <2>2, EmptyIsTyped
<1>16. CASE \/ \E n \in PRs : Update(n)
            \/ \E r \in Runs : RunEnds(r)
            \/ \E e \in BagToSet(handlers) : GivesUp(e) \/ on_gh_pr(e) \/ on_gh_actions(e)
            \/ UNCHANGED vars
  BY <1>5, <1>16 DEF Update, RunEnds, GivesUp, on_gh_pr, on_gh_actions, HandlerEnds, vars
<1> QED
  BY <1>6, <1>9, <1>10, <1>11, <1>12, <1>13, <1>14, <1>15, <1>16 DEF Next, Step

(* What gh-state.json counts as seen has been given to a handler, is about  *)
(* to be by the process that saved it, or was lost with that process, and   *)
(* without a fault nothing is lost: over any number of pollers, restarts    *)
(* and failing calls no other way leads from "seen" to "forgotten".         *)
THEOREM Seen == Spec => []SeenIsTriggered
<1>1. Init => SeenInv
  BY FailingAssumption, EmptyIsTyped
  DEF Init, SeenInv, Typed, OneProcess, SeenIsListed, SeenIsTriggered, Unreadable, Places
<1>2. SeenInv /\ [Next]_vars => SeenInv'
  BY SeenStep
<1>3. SeenInv => SeenIsTriggered
  BY DEF SeenInv
<1> QED
  BY <1>1, <1>2, <1>3, PTL DEF Spec

-----------------------------------------------------------------------------
(* An event that the poll of a process with this dictionary cannot find     *)
(* again: it is not newer than what the dictionary has.                     *)
Past(e, s) ==
  \/ \E n \in PRs, u \in Nat : e = PrEvent(n, u) /\ u <= s.seen_prs[n]
  \/ \E r \in s.seen_runs : e = RunEvent(r)

AllPast(s) == \A e \in BagToSet(triggered) : Past(e, s)

(* GitHub's updatedAt only grows.                                           *)
NotAhead(s) == \A n \in PRs : s.seen_prs[n] <= updated[n]

SeenNotAhead == NotAhead(file.state) /\ \A p \in Procs : NotAhead(state[p])

(* What a process lists has no handler yet, and its dictionary covers both  *)
(* what it lists and what has a handler; so does the file, except between   *)
(* the truncation and the write.                                            *)
ListIsNew ==
  \A p \in Procs :
    /\ pc[p] \in {"prs", "actions", "save", "writing", "trigger"} => AllPast(state[p])
    /\ pc[p] \in {"actions", "save", "writing", "trigger"} =>
         \A e \in events[p] : ~BagIn(e, triggered) /\ Past(e, state[p])
    /\ pc[p] = "actions" =>
         \A e \in events[p] : \E n \in PRs, u \in Nat : e = PrEvent(n, u)
    /\ pc[p] = "trigger" => file.state = state[p]

FileCovers ==
  /\ file.kind \in {"absent", "saved"} => AllPast(file.state)
  /\ file.kind \notin {"absent", "saved"} => \E p \in Procs : pc[p] = "writing"

OnceInv ==
  /\ Typed /\ OneProcess /\ SeenNotAhead
  /\ ~torn => ListIsNew /\ FileCovers /\ TriggeredOnce

-----------------------------------------------------------------------------
(* A poll only moves the dictionary forward, and what is past stays past.   *)
LEMMA PastStays ==
  ASSUME NEW s \in AnyStates, NEW t \in AnyStates,
         \A n \in PRs : s.seen_prs[n] <= t.seen_prs[n], s.seen_runs \subseteq t.seen_runs,
         NEW e, Past(e, s)
  PROVE  Past(e, t)
<1>1. CASE \E n \in PRs, u \in Nat : e = PrEvent(n, u) /\ u <= s.seen_prs[n]
  <2>1. PICK n \in PRs, u \in Nat : e = PrEvent(n, u) /\ u <= s.seen_prs[n]
    BY <1>1
  <2>2. s.seen_prs[n] \in Nat /\ t.seen_prs[n] \in Nat
    BY DEF AnyStates
  <2>3. u <= t.seen_prs[n]
    BY <2>1, <2>2
  <2> QED
    BY <2>1, <2>3 DEF Past
<1>2. CASE \E r \in s.seen_runs : e = RunEvent(r)
  BY <1>2 DEF Past
<1> QED
  BY <1>1, <1>2 DEF Past

LEMMA NotAheadStep ==
  ASSUME Typed, SeenNotAhead, [Next]_vars
  PROVE  SeenNotAhead'
<1> DEFINE Below(s, u) == \A n \in PRs : s.seen_prs[n] <= u[n]
<1>1. \A n \in PRs : updated[n] \in Nat /\ updated'[n] \in Nat /\ updated[n] <= updated'[n]
  <2>1. CASE UNCHANGED updated
    BY <2>1 DEF Typed
  <2>2. CASE \E m : updated' = [updated EXCEPT ![m] = @ + 1]
    BY <2>2 DEF Typed
  <2> QED
    BY <2>1, <2>2 DEF Next, Step, Update, RunEnds, Start, load_state, poll_prs, poll_actions,
       GhFails, SaveTruncates, SaveWrites, trigger, Polled, Wake, TimedOut, Crash, PollError,
       GivesUp, on_gh_pr, on_gh_actions, HandlerEnds, github, vars
<1>2. ASSUME NEW s \in AnyStates, Below(s, updated) PROVE Below(s, updated')
  <2> SUFFICES ASSUME NEW n \in PRs PROVE s.seen_prs[n] <= updated'[n]
    OBVIOUS
  <2>1. s.seen_prs[n] \in Nat /\ s.seen_prs[n] <= updated[n]
    BY <1>2 DEF AnyStates
  <2> QED
    BY <1>1, <2>1
<1>3. /\ file.state \in AnyStates /\ Below(file.state, updated)
      /\ \A p \in Procs : state[p] \in AnyStates /\ Below(state[p], updated)
  BY DEF Typed, SeenNotAhead, NotAhead
<1>4. Empty \in AnyStates /\ Below(Empty, updated)
  BY <1>1, EmptyIsTyped DEF Empty
<1> HIDE DEF Below
<1>5. /\ Below(file.state, updated') /\ Below(Empty, updated')
      /\ \A p \in Procs : Below(state[p], updated')
  BY <1>2, <1>3, <1>4
<1>6. Below(file'.state, updated')
  <2>1. \/ file'.state \in {file.state, Empty} \/ \E p \in Procs : file'.state = state[p]
    <3>1. ASSUME NEW p \in Procs,
                 SaveTruncates(p) \/ SaveWrites(p) \/ Crash(p) \/ PollError(p)
          PROVE  file'.state \in {file.state, Empty, state[p]}
      BY <3>1 DEF SaveTruncates, SaveWrites, Crash, PollError, CutShort, Unreadable
    <3>2. \/ UNCHANGED file
          \/ \E p \in Procs : SaveTruncates(p) \/ SaveWrites(p) \/ Crash(p) \/ PollError(p)
      BY DEF Next, Step, Update, RunEnds, Start, load_state, poll_prs, poll_actions, GhFails,
         trigger, Polled, Wake, TimedOut, GivesUp, on_gh_pr, on_gh_actions, HandlerEnds, vars
    <3> QED
      BY <3>1, <3>2
  <2> QED
    BY <1>5, <2>1
<1>7. ASSUME NEW q \in Procs PROVE Below(state'[q], updated')
  <2>1. CASE \E p \in Procs : poll_prs(p)
    <3>1. PICK p \in Procs : poll_prs(p)
      BY <2>1
    <3>2. updated' = updated /\ (q # p => state'[q] = state[q])
      BY <3>1 DEF poll_prs, github, Typed
    <3>3. state'[p].seen_prs = updated
      BY <1>3, <3>1 DEF poll_prs, Typed, AnyStates
    <3>4. Below(state'[p], updated')
      BY <1>1, <3>2, <3>3 DEF Below
    <3> QED
      BY <1>5, <3>2, <3>4
  <2>2. CASE \E p \in Procs : poll_actions(p)
    <3>1. PICK p \in Procs : poll_actions(p)
      BY <2>2
    <3>2. q # p => state'[q] = state[q]
      BY <3>1 DEF poll_actions, Typed
    <3>3. state'[p].seen_prs = state[p].seen_prs
      BY <1>3, <3>1 DEF poll_actions, Typed, AnyStates
    <3>4. Below(state'[p], updated')
      BY <1>5, <3>3 DEF Below
    <3> QED
      BY <1>5, <3>2, <3>4
  <2>3. CASE ~ \E p \in Procs : poll_prs(p) \/ poll_actions(p)
    <3>1. state'[q] \in {state[q], file.state, Empty}
      BY <2>3 DEF Typed, Next, Step, Update, RunEnds, Start, load_state, GhFails, SaveTruncates,
         SaveWrites, trigger, Polled, Wake, TimedOut, Crash, PollError, Gone, GivesUp,
         on_gh_pr, on_gh_actions, HandlerEnds, vars
    <3> QED
      BY <1>5, <3>1
  <2> QED
    BY <2>1, <2>2, <2>3
<1> QED
  BY <1>6, <1>7 DEF SeenNotAhead, NotAhead, Below

LEMMA OnceStep ==
  ASSUME OnceInv, [Next]_vars
  PROVE  OnceInv'
<1> USE DEF OnceInv
<1>1. Typed' /\ OneProcess' /\ SeenNotAhead'
  BY TypedStep, OneProcessStep, NotAheadStep
<1> SUFFICES ASSUME ~torn' PROVE ListIsNew' /\ FileCovers' /\ TriggeredOnce'
  BY <1>1
<1>2. ~torn
  BY DEF Next, Step, Update, RunEnds, Start, load_state, poll_prs, poll_actions,
     GhFails, SaveTruncates, SaveWrites, trigger, Polled, Wake, TimedOut, Crash, PollError,
     CutShort, GivesUp, on_gh_pr, on_gh_actions, HandlerEnds, history, vars
<1>3. ListIsNew /\ FileCovers /\ TriggeredOnce
  BY <1>2
<1>4. UNCHANGED triggered => TriggeredOnce' /\ \A s : AllPast(s)' <=> AllPast(s)
  BY <1>2, <1>3 DEF TriggeredOnce, AllPast, Past
<1>5. CASE UNCHANGED <<file, pc, state, events, triggered>>
  BY <1>3, <1>4, <1>5 DEF ListIsNew, FileCovers, BagIn, Past
<1>6. CASE \E p \in Procs : Start(p)
  <2>1. PICK p \in Procs : Start(p)
    BY <1>6
  <2>2. /\ \A q \in Procs : q # p => pc'[q] = pc[q]
        /\ pc[p] = "down" /\ pc'[p] = "load"
        /\ UNCHANGED <<file, state, events, triggered>>
    BY <2>1 DEF Start, Goto, Typed, history
  <2> QED
    BY <1>3, <1>4, <2>2 DEF ListIsNew, FileCovers, BagIn, Past
(* From here on one process steps, and no other one runs.                   *)
<1> DEFINE New(p) == /\ pc[p] \in {"prs", "actions", "save", "writing", "trigger"} =>
                          AllPast(state[p])
                     /\ pc[p] \in {"actions", "save", "writing", "trigger"} =>
                          \A e \in events[p] : ~BagIn(e, triggered) /\ Past(e, state[p])
                     /\ pc[p] = "actions" =>
                          \A e \in events[p] : \E n \in PRs, u \in Nat : e = PrEvent(n, u)
                     /\ pc[p] = "trigger" => file.state = state[p]
<1>7. \A p \in Procs : New(p)
  BY <1>3 DEF ListIsNew
<1>8. ASSUME NEW p \in Procs, pc[p] # "down", pc' = [pc EXCEPT ![p] = pc'[p]], New(p)'
      PROVE  ListIsNew'
  <2>1. \A q \in Procs : q # p => pc'[q] = "down"
    BY <1>8, Alone DEF Typed
  <2> QED
    BY <1>8, <2>1 DEF ListIsNew
(* The file covers what is triggered while p is not writing it.             *)
<1>9. ASSUME NEW p \in Procs, pc[p] \notin {"down", "writing"}
      PROVE  file.kind \in {"absent", "saved"} /\ AllPast(file.state)
  BY <1>3, <1>9, Alone DEF FileCovers
<1>10. ASSUME NEW p \in Procs, pc[p] \notin {"down", "writing"}, UNCHANGED <<file, triggered>>
       PROVE  FileCovers'
  BY <1>4, <1>9, <1>10 DEF FileCovers
<1> HIDE DEF New
<1>11. ASSUME NEW p \in Procs, load_state(p)
       PROVE  ListIsNew' /\ FileCovers' /\ TriggeredOnce'
  <2>1. /\ pc[p] = "load" /\ pc' = [pc EXCEPT ![p] = pc'[p]] /\ pc'[p] \in {"prs", "sleep"}
        /\ pc'[p] = "prs" => state'[p] = file.state
        /\ UNCHANGED <<file, triggered>>
    BY <1>11 DEF load_state, Goto, Typed, history
  <2>2. AllPast(file.state)'
    BY <1>4, <1>9, <2>1
  <2>3. New(p)'
    BY <2>1, <2>2 DEF New
  <2> QED
    BY <1>4, <1>8, <1>10, <2>1, <2>3
(* A poll finds no event that is past.                                      *)
<1>12. ASSUME NEW p \in Procs, poll_prs(p)
       PROVE  ListIsNew' /\ FileCovers' /\ TriggeredOnce'
  <2>1. /\ pc[p] = "prs" /\ pc' = [pc EXCEPT ![p] = "actions"] /\ pc'[p] = "actions"
        /\ events'[p] = {PrEvent(n, updated[n]) : n \in ChangedPRs(p)}
        /\ UNCHANGED <<file, triggered>>
    BY <1>12 DEF poll_prs, Goto, Typed, history
  <2>2. state[p] \in AnyStates /\ state'[p] \in AnyStates
    BY <1>1 DEF Typed
  <2>3. state'[p].seen_prs = updated /\ state'[p].seen_runs = state[p].seen_runs
    BY <1>12, <2>2 DEF poll_prs, Typed, AnyStates
  <2>4. \A n \in PRs : state[p].seen_prs[n] <= updated[n] /\ updated[n] \in Nat
    BY DEF SeenNotAhead, NotAhead, Typed
  <2>5. \A e : Past(e, state[p]) => Past(e, state'[p])
    BY <2>2, <2>3, <2>4, PastStays
  <2>6. AllPast(state[p])
    BY <1>7, <2>1 DEF New
  <2>7. AllPast(state[p])'
    BY <2>1, <2>5, <2>6 DEF AllPast, Past
  <2>8. ASSUME NEW e \in events'[p]
        PROVE  /\ ~BagIn(e, triggered') /\ Past(e, state'[p])
               /\ \E n \in PRs, u \in Nat : e = PrEvent(n, u)
    <3>1. PICK n \in PRs : e = PrEvent(n, updated[n]) /\ updated[n] # state[p].seen_prs[n]
      BY <2>1 DEF ChangedPRs
    <3>2. Past(e, state'[p])
      BY <2>3, <2>4, <3>1 DEF Past
    <3>3. ASSUME BagIn(e, triggered) PROVE FALSE
      <4>1. Past(e, state[p])
        BY <2>6, <3>3 DEF AllPast, BagIn
      <4>2. updated[n] <= state[p].seen_prs[n]
        BY <3>1, <4>1, EventsDiffer DEF Past
      <4>3. state[p].seen_prs[n] \in Nat /\ updated[n] \in Nat
        BY <2>2, <2>4 DEF AnyStates
      <4> QED
        BY <2>4, <3>1, <4>2, <4>3
    <3> QED
      BY <2>1, <2>4, <3>1, <3>2, <3>3
  <2>9. New(p)'
    BY <2>1, <2>7, <2>8 DEF New, BagIn, Past
  <2> QED
    BY <1>4, <1>8, <1>10, <2>1, <2>9
<1>13. ASSUME NEW p \in Procs, poll_actions(p)
       PROVE  ListIsNew' /\ FileCovers' /\ TriggeredOnce'
  <2>1. /\ pc[p] = "actions" /\ pc' = [pc EXCEPT ![p] = "save"] /\ pc'[p] = "save"
        /\ events'[p] = events[p] \cup {RunEvent(r) : r \in NewRuns(p)}
        /\ UNCHANGED <<file, triggered>>
    BY <1>13 DEF poll_actions, Found, Goto, Typed, history
  <2>2. state[p] \in AnyStates /\ state'[p] \in AnyStates
    BY <1>1 DEF Typed
  <2>3. /\ state'[p].seen_prs = state[p].seen_prs
        /\ state'[p].seen_runs = state[p].seen_runs \cup FailedRuns
    BY <1>13, <2>2 DEF poll_actions, Typed, AnyStates
  <2>4. \A n \in PRs : state[p].seen_prs[n] <= state'[p].seen_prs[n]
    BY <2>2, <2>3 DEF AnyStates
  <2>5. \A e : Past(e, state[p]) => Past(e, state'[p])
    BY <2>2, <2>3, <2>4, PastStays
  <2>6. /\ AllPast(state[p])
        /\ \A e \in events[p] : ~BagIn(e, triggered) /\ Past(e, state[p])
    BY <1>7, <2>1 DEF New
  <2>7. AllPast(state[p])'
    BY <2>1, <2>5, <2>6 DEF AllPast, Past
  <2>8. ASSUME NEW e \in events'[p]
        PROVE  ~BagIn(e, triggered') /\ Past(e, state'[p])
    <3>1. CASE e \in events[p]
      BY <2>1, <2>5, <2>6, <3>1
    <3>2. CASE \E r \in NewRuns(p) : e = RunEvent(r)
      <4>1. PICK r \in FailedRuns \ state[p].seen_runs : e = RunEvent(r)
        BY <3>2 DEF NewRuns
      <4>2. Past(e, state'[p])
        BY <2>3, <4>1 DEF Past
      <4>3. ~Past(e, state[p])
        BY <4>1, EventsDiffer DEF Past
      <4> QED
        BY <2>1, <2>6, <4>2, <4>3 DEF AllPast, BagIn
    <3> QED
      BY <2>1, <3>1, <3>2
  <2>9. New(p)'
    BY <2>1, <2>7, <2>8 DEF New, BagIn, Past
  <2> QED
    BY <1>4, <1>8, <1>10, <2>1, <2>9
<1>14. ASSUME NEW p \in Procs, GhFails(p)
       PROVE  ListIsNew' /\ FileCovers' /\ TriggeredOnce'
  <2>1. /\ \/ pc[p] = "prs" /\ pc'[p] = "actions" /\ events'[p] = {}
           \/ pc[p] = "actions" /\ pc'[p] = "save" /\ events'[p] = events[p]
        /\ pc' = [pc EXCEPT ![p] = pc'[p]]
        /\ UNCHANGED <<file, triggered, state>>
    BY <1>14 DEF GhFails, Goto, Typed, history
  <2>2. New(p)'
    BY <1>4, <1>7, <2>1 DEF New, BagIn, Past
  <2> QED
    BY <1>4, <1>8, <1>10, <2>1, <2>2
<1>15. ASSUME NEW p \in Procs, SaveTruncates(p) \/ SaveWrites(p)
       PROVE  ListIsNew' /\ FileCovers' /\ TriggeredOnce'
  <2>1. /\ \/ pc[p] = "save" /\ pc'[p] = "writing" /\ file'.kind = "torn"
           \/ /\ pc[p] = "writing" /\ pc'[p] = "trigger"
              /\ file'.kind = "saved" /\ file'.state = state[p]
        /\ pc' = [pc EXCEPT ![p] = pc'[p]]
        /\ UNCHANGED <<triggered, state, events>>
    BY <1>15 DEF SaveTruncates, SaveWrites, Unreadable, Goto, Typed, history
  <2>2. New(p)'
    BY <1>4, <1>7, <2>1 DEF New, BagIn, Past
  <2>3. AllPast(state[p])
    BY <1>7, <2>1 DEF New
  <2>4. FileCovers'
    BY <1>4, <2>1, <2>3 DEF FileCovers
  <2> QED
    BY <1>4, <1>8, <2>1, <2>2, <2>4
<1>16. ASSUME NEW p \in Procs, trigger(p)
       PROVE  ListIsNew' /\ FileCovers' /\ TriggeredOnce'
  <2>1. PICK d \in events[p] : /\ triggered' = triggered (+) SetToBag({d})
                               /\ events'[p] = events[p] \ {d}
    BY <1>16 DEF trigger, Typed
  <2>2. pc[p] = "trigger" /\ UNCHANGED <<file, pc, state>>
    BY <1>16 DEF trigger
  <2>3. /\ AllPast(state[p]) /\ file.state = state[p]
        /\ \A e \in events[p] : ~BagIn(e, triggered) /\ Past(e, state[p])
    BY <1>7, <2>2 DEF New
  <2>4. \A x : BagIn(x, triggered') <=> BagIn(x, triggered) \/ x = d
    BY <2>1, OneMoreBag
  <2>5. AllPast(state[p])'
    BY <2>2, <2>3, <2>4 DEF AllPast, BagIn, Past
  <2>6. New(p)'
    BY <2>1, <2>2, <2>3, <2>4, <2>5 DEF New, BagIn, Past
  <2>7. FileCovers'
    BY <1>9, <2>2, <2>3, <2>5 DEF FileCovers
  <2>8. TriggeredOnce'
    <3>1. triggered'[d] = 1
      BY <2>1, <2>3, OneMoreBag
    <3>2. ASSUME NEW x, BagIn(x, triggered), x # d PROVE triggered'[x] = 1
      <4>1. triggered[x] = 1
        BY <1>2, <1>3, <3>2 DEF TriggeredOnce, BagIn
      <4>2. (triggered (+) SetToBag({d}))[x] = triggered[x] + 0
        BY <3>2, OthersInBag
      <4> QED
        BY <2>1, <4>1, <4>2
    <3> QED
      BY <2>4, <3>1, <3>2 DEF TriggeredOnce, BagIn
  <2>9. pc' = [pc EXCEPT ![p] = pc'[p]]
    BY <2>2 DEF Typed
  <2> QED
    BY <1>8, <2>2, <2>6, <2>7, <2>8, <2>9
<1>17. ASSUME NEW p \in Procs, Polled(p) \/ Wake(p) \/ TimedOut(p) \/ Crash(p) \/ PollError(p)
       PROVE  ListIsNew' /\ FileCovers' /\ TriggeredOnce'
  <2>1. pc[p] # "writing"
    BY <1>17 DEF Polled, Wake, TimedOut, Crash, PollError, CutShort
  <2>2. /\ pc[p] # "down" /\ pc' = [pc EXCEPT ![p] = pc'[p]]
        /\ pc'[p] \in {"sleep", "load", "down"}
        /\ UNCHANGED <<file, triggered>>
    BY <1>17, <2>1 DEF Polled, Wake, TimedOut, Crash, PollError, Gone, Goto, Typed, history
  <2>3. New(p)'
    BY <2>2 DEF New
  <2> QED
    BY <1>4, <1>8, <1>10, <2>1, <2>2, <2>3
<1>18. CASE \/ \E n \in PRs : Update(n)
            \/ \E r \in Runs : RunEnds(r)
            \/ \E e \in BagToSet(handlers) : GivesUp(e) \/ on_gh_pr(e) \/ on_gh_actions(e)
            \/ UNCHANGED vars
  BY <1>5, <1>18 DEF Update, RunEnds, GivesUp, on_gh_pr, on_gh_actions, HandlerEnds, vars, history
<1> QED
  BY <1>6, <1>11, <1>12, <1>13, <1>14, <1>15, <1>16, <1>17, <1>18 DEF Next, Step

(* A state of a pull request and a failed run start at most one handler,    *)
(* over all pollers, restarts, timeouts and failing calls, as long as no    *)
(* save of gh-state.json has been cut short.                                *)
THEOREM Once == Spec => []TriggeredOnce
<1>1. Init => OnceInv
  <2> SUFFICES ASSUME Init PROVE OnceInv
    OBVIOUS
  <2>1. Typed /\ OneProcess
    BY FailingAssumption, EmptyIsTyped DEF Init, Typed, OneProcess, Unreadable, Places
  <2>2. SeenNotAhead
    BY DEF Init, SeenNotAhead, NotAhead, Unreadable, Empty
  <2>3. BagToSet(triggered) = {}
    BY DEF Init, EmptyBag, SetToBag, BagToSet
  <2>4. ListIsNew /\ FileCovers /\ TriggeredOnce
    BY <2>3 DEF Init, ListIsNew, FileCovers, TriggeredOnce, AllPast, Unreadable
  <2> QED
    BY <2>1, <2>2, <2>4 DEF OnceInv
<1>2. OnceInv /\ [Next]_vars => OnceInv'
  BY OnceStep
<1>3. OnceInv => TriggeredOnce
  BY DEF OnceInv, TriggeredOnce
<1> QED
  BY <1>1, <1>2, <1>3, PTL DEF Spec
=============================================================================
