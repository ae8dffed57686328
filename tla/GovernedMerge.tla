--------------------------- MODULE GovernedMerge ---------------------------
(***************************************************************************)
(* The governed merge of an owner's pull request                           *)
(* (scripts/governed_auto_merge.cjs) and the check of the CI run it        *)
(* dispatches on main (scripts/verify_postmerge_dispatch.cjs).  One run    *)
(* of the workflow exists at a time; each of its requests to GitHub sees   *)
(* the pull request, main, the reviews and the checks at a moment of its   *)
(* own, while people push and checks finish or run again.                  *)
(***************************************************************************)
EXTENDS Naturals, Sequences

CONSTANTS
  MergeHeads,        \* bound: commits the pull request may ever point at
  MergeDisturbances, \* bound: pushes, reviews, closures and reruns
  MergeRewinds       \* a push may return to an earlier commit

ASSUME MergeAssumption ==
  MergeHeads \in Nat \ {0} /\ MergeDisturbances \in Nat /\ MergeRewinds \in BOOLEAN

VARIABLES
  pull,       \* the pull request: open, draft, reviewed, its head and base
  contains,   \* how much of main each pushed commit contains
  mainline,   \* the commits of main; a commit is named by its place
  checks,     \* the state of each workflow's check on each pushed commit
  passed,     \* <<commit, workflow>> that succeeded at some time
  events,     \* completed runs the merge workflow has not been started for
  governor,   \* the one run of the merge workflow
  postmerge,  \* dispatched CI runs: the commit expected and the commit run on
  counted,    \* those whose identity check succeeded
  meddled     \* disturbances so far

mergeVars == <<pull, contains, mainline, checks, passed, events, governor, postmerge, counted, meddled>>

MergeCommits == 1..MergeHeads
MergeWorkflows == {"ci", "canary"}

\* What the files of a commit ask for: nothing but CI, the canary too, or a
\* person.
Scopes == {"plain", "canary", "manual"}

\* A commit starts with its checks running; the canary has a path filter.
FreshChecks(scope) == [ci |-> "active", canary |-> IF scope = "plain" THEN "none" ELSE "active"]

Asleep == [pc |-> "idle", head |-> 0, due |-> {}, base |-> 0, main |-> 0,
           scope |-> "plain", canary |-> TRUE, merge |-> 0]

MergeInit ==
  /\ mainline = <<[head |-> 0]>> /\ contains = <<1>>
  /\ \E s \in [MergeCommits -> Scopes] :
       pull = [open |-> TRUE, draft |-> FALSE, rejected |-> FALSE, head |-> 1, base |-> 1, scope |-> s]
  /\ checks = <<FreshChecks(pull.scope[1])>>
  /\ passed = {} /\ events = {} /\ governor = Asleep
  /\ postmerge = {} /\ counted = {} /\ meddled = 0

GovAt(pc) == governor.pc = pc
GovGoto(pc) == governor' = [governor EXCEPT !.pc = pc]
GovStop == governor' = Asleep
PeopleIdle == UNCHANGED <<contains, checks, passed, meddled>>

---------------------------------------------------------------------------
\* run: from the event to the decision.

MergeReads == {"pr", "files", "reviews", "branch", "compare", "checks", "runs"}

\* A trusted workflow succeeded for a commit, and one open request has it as head.
GovernorStart ==
  /\ GovAt("idle")
  /\ \E e \in events :
       /\ events' = events \ {e}
       /\ IF pull.open /\ pull.head = e[1]
            THEN governor' = [Asleep EXCEPT !.pc = "read", !.head = e[1], !.due = MergeReads]
            ELSE UNCHANGED governor
  /\ PeopleIdle /\ UNCHANGED <<pull, mainline, postmerge, counted>>

\* currentGreenCheck, currentGreenRun.
CurrentGreen(h, w) == checks[h][w] = "green"

\* The conjunct of decide that one answer settles by itself.
Acceptable(read) ==
  LET h == governor.head IN
  CASE read = "pr" -> pull.open /\ ~pull.draft /\ pull.head = h
    [] read = "files" -> pull.scope[pull.head] # "manual"
    [] read = "reviews" -> ~pull.rejected
    [] read = "branch" -> TRUE
    [] read = "compare" -> contains[h] = Len(mainline)
    [] read = "checks" -> CurrentGreen(h, "ci") /\ checks[h].canary \in {"green", "none"}
    [] read = "runs" -> CurrentGreen(h, "ci")

\* What decide still needs of the answer: the base, main, the canary.
Noted(read) ==
  CASE read = "pr" -> [governor EXCEPT !.base = pull.base]
    [] read = "files" -> [governor EXCEPT !.scope = pull.scope[pull.head]]
    [] read = "branch" -> [governor EXCEPT !.main = Len(mainline)]
    [] read \in {"checks", "runs"} ->
         [governor EXCEPT !.canary = @ /\ CurrentGreen(governor.head, "canary")]
    [] OTHER -> governor

\* One of the requests of Promise.all.  A refusal is final, so the run may stop
\* at the answer that causes it.
GovernorRead ==
  /\ GovAt("read")
  /\ \E read \in governor.due :
       IF Acceptable(read)
         THEN governor' = [Noted(read) EXCEPT !.due = governor.due \ {read}]
         ELSE GovStop
  /\ PeopleIdle /\ UNCHANGED <<pull, mainline, events, postmerge, counted>>

\* main is where the request's base is, and the canary ran if the files ask for it.
Decided ==
  /\ governor.main = governor.base
  /\ governor.scope = "canary" => governor.canary

Decide ==
  /\ GovAt("read") /\ governor.due = {}
  /\ IF Decided THEN GovGoto("again") ELSE GovStop
  /\ PeopleIdle /\ UNCHANGED <<pull, mainline, events, postmerge, counted>>

---------------------------------------------------------------------------
\* run: the second look, the merge and what follows it.

\* The request and main are read once more, in two requests sent together.
Unmoved ==
  /\ pull.open /\ ~pull.draft
  /\ pull.head = governor.head /\ pull.base = governor.base

SecondLookAtPull ==
  /\ GovAt("again")
  /\ IF Unmoved THEN GovGoto("main") ELSE GovStop
  /\ PeopleIdle /\ UNCHANGED <<pull, mainline, events, postmerge, counted>>

SecondLookAtMain ==
  /\ GovAt("main")
  /\ IF Len(mainline) = governor.base THEN GovGoto("merge") ELSE GovStop
  /\ PeopleIdle /\ UNCHANGED <<pull, mainline, events, postmerge, counted>>

\* Fault: a request that names no commit merges whatever the head is by now.
MergesAnyHead(expected) ==
  /\ pull.open /\ ~pull.draft
  /\ CurrentGreen(pull.head, "ci")

\* GitHub merges an open request at exactly the commit it is given, if the
\* check the protection of main requires is green on it.
Merges(expected) ==
  /\ pull.open /\ ~pull.draft /\ pull.head = expected
  /\ CurrentGreen(pull.head, "ci")

MergePull ==
  /\ pull' = [pull EXCEPT !.open = FALSE]
  /\ mainline' = Append(mainline, [head |-> pull.head])

\* pulls.merge: merged, refused, or merged with an answer that never arrives,
\* which the run takes for a refusal.
RequestMerge ==
  /\ GovAt("merge")
  /\ IF Merges(governor.head)
       THEN /\ MergePull
            /\ \/ governor' = [governor EXCEPT !.pc = "readback", !.merge = Len(mainline')]
               \/ GovStop
       ELSE GovStop /\ UNCHANGED <<pull, mainline>>
  /\ PeopleIdle /\ UNCHANGED <<events, postmerge, counted>>

MainReadback ==
  /\ GovAt("readback")
  /\ IF Len(mainline) = governor.merge THEN GovGoto("dispatch") ELSE GovStop
  /\ PeopleIdle /\ UNCHANGED <<pull, mainline, events, postmerge, counted>>

\* createWorkflowDispatch runs CI on main as it is by then; it may be refused.
DispatchPostMergeCI ==
  /\ GovAt("dispatch") /\ GovStop
  /\ postmerge' \in {postmerge, postmerge \cup {[expected |-> governor.merge, at |-> Len(mainline)]}}
  /\ PeopleIdle /\ UNCHANGED <<pull, mainline, events, counted>>

\* Fault: any dispatched run on main counts.
PostMergeContextUnpinned(r) == r.at > 0

\* validatePostMergeCIContext: the run is on the commit it was dispatched for.
PostMergeContext(r) == r.expected = r.at

VerifyPostMerge ==
  /\ \E r \in postmerge :
       /\ postmerge' = postmerge \ {r}
       /\ counted' = IF PostMergeContext(r) THEN counted \cup {r.at} ELSE counted
  /\ PeopleIdle /\ UNCHANGED <<pull, mainline, events, governor>>

GovernorStep ==
  \/ GovernorStart \/ GovernorRead \/ Decide \/ SecondLookAtPull \/ SecondLookAtMain
  \/ RequestMerge \/ MainReadback \/ DispatchPostMergeCI

---------------------------------------------------------------------------
\* GitHub and the people.

\* A check finishes; a success is announced to the merge workflow.
FinishCheck ==
  /\ \E h \in DOMAIN checks, w \in MergeWorkflows, s \in {"green", "red"} :
       /\ checks[h][w] = "active" /\ checks' = [checks EXCEPT ![h][w] = s]
       /\ passed' = IF s = "green" THEN passed \cup {<<h, w>>} ELSE passed
       /\ events' = IF s = "green" THEN events \cup {<<h, w>>} ELSE events
  /\ UNCHANGED <<pull, contains, mainline, governor, postmerge, counted, meddled>>

\* The author pushes a new commit, brought up to date with main or not, or
\* returns to an earlier one.
PushHead ==
  /\ pull.open
  /\ \/ /\ Len(contains) < MergeHeads
        /\ \E n \in {contains[pull.head], Len(mainline)} : contains' = Append(contains, n)
        /\ pull' = [pull EXCEPT !.head = Len(contains'), !.base = Len(mainline)]
        /\ checks' = Append(checks, FreshChecks(pull.scope[Len(contains')]))
     \/ /\ MergeRewinds
        /\ \E h \in DOMAIN contains \ {pull.head} :
             pull' = [pull EXCEPT !.head = h, !.base = Len(mainline)]
        /\ UNCHANGED <<contains, checks>>
  /\ UNCHANGED mainline

PushMain ==
  /\ mainline' = Append(mainline, [head |-> 0])
  /\ UNCHANGED <<pull, contains, checks>>

\* A review, a return to draft, a closure.
ChangePull ==
  /\ pull.open
  /\ pull' \in {[pull EXCEPT !.rejected = TRUE], [pull EXCEPT !.draft = ~@], [pull EXCEPT !.open = FALSE]}
  /\ UNCHANGED <<contains, checks, mainline>>

RerunCheck ==
  /\ \E h \in DOMAIN checks, w \in MergeWorkflows :
       checks[h][w] \in {"green", "red"} /\ checks' = [checks EXCEPT ![h][w] = "active"]
  /\ UNCHANGED <<pull, contains, mainline>>

Meddle ==
  /\ meddled < MergeDisturbances /\ meddled' = meddled + 1
  /\ PushHead \/ PushMain \/ ChangePull \/ RerunCheck
  /\ UNCHANGED <<passed, events, governor, postmerge, counted>>

MergeNext == GovernorStep \/ VerifyPostMerge \/ FinishCheck \/ Meddle

MergeSpec == MergeInit /\ [][MergeNext]_mergeVars

---------------------------------------------------------------------------
MergedCommits == {mainline[i].head : i \in DOMAIN mainline} \ {0}

\* Without rewinds of the branch, a commit the workflow merged passed CI, passed
\* the canary if its own files ask for it, and asks for no person: the seven
\* answers of the decision come from different moments, but the second look and
\* the commit named in the merge request tie them to one head.
MergedWasVerified ==
  \A h \in MergedCommits :
    /\ <<h, "ci">> \in passed /\ pull.scope[h] # "manual"
    /\ pull.scope[h] = "canary" => <<h, "canary">> \in passed

\* A post-merge CI run that passed its identity check ran on a governed merge,
\* never on what somebody pushed after it: main may move between the readback,
\* the dispatch and the start of the run.
CountedCiIsOfAMerge == \A n \in counted : mainline[n].head # 0
=============================================================================
