---------------------------- MODULE Orchestrator ----------------------------
(* The job server: runner.ts runs the commands of a job one after the other  *)
(* and records what happens as events of the job (job-store.ts); server.ts   *)
(* replays and streams the events to viewers and answers queries about jobs; *)
(* client.ts reads a stream and reports the status it saw last.              *)
(*                                                                           *)
(* An action is one callback of the event loop with the promise jobs that    *)
(* run right after it: the runner is suspended only where it waits for a     *)
(* command, the disk or another process. What commands do to a repository is *)
(* a choice of their exit code and of whether a specification is then found. *)
EXTENDS Naturals, Sequences, FiniteSets

CONSTANTS
  None,
  Jobs,
  Viewers,      \* clients that stream a job's events
  Inputs,       \* jobs submitted: [mode, source], source "path" or "repoUrl"
  Bootstraps,   \* the clayers binary comes from the bootstrap script
  MaxExtras     \* outputs, failed starts, late exits and queries per job

VARIABLES
  jobs,         \* the store: a job or None
  viewers       \* the response each viewer streams from, or None

vars == <<jobs, viewers>>

\* What a job is asked for (types.ts, parseJobInput).
ASSUME InputsAreJobs ==
  Inputs \subseteq [mode : {"sync", "review", "adopt"}, source : {"path", "repoUrl"}]
ASSUME MaxExtrasIsNatural == MaxExtras \in Nat

IsTerminal(status) == status \in {"completed", "completed_with_issues", "failed"}

\* The quality checks in their order; a nonzero exit of one is an issue.
Checks == <<"clayers.validate", "clayers.drift", "clayers.coverage", "clayers.connectivity">>
IsCheck(step) == \E i \in DOMAIN Checks : Checks[i] = step
Place(step) == CHOOSE i \in DOMAIN Checks : Checks[i] = step

\* Commands that may exit nonzero without an error of the job (allowNonZero).
MayFail(step) == IsCheck(step) \/ step \in {"clayers.docs", "clayers.query-summary"}

-----------------------------------------------------------------------------
(* Events. `last` says whether the job's status was terminal when listeners  *)
(* were told of the event.                                                   *)

AddStepEvent(job, type, name, code) ==
  [job EXCEPT !.events = Append(@, [type |-> type, name |-> name, code |-> code,
                                    last |-> IsTerminal(job.status)])]
AddEvent(job, type) == AddStepEvent(job, type, None, 0)

\* Mutant of SetStatus: listeners are told before the status is set.
SetStatusLate(job, status) == [AddEvent(job, status) EXCEPT !.status = status]

\* The event of a status has its name, without the prefix "job.".
SetStatus(job, status) == AddEvent([job EXCEPT !.status = status], status)

MarkIssue(job) == [job EXCEPT !.issues = @ + 1]

\* The types that start with "job."; job.error announces no status.
JobEvents == {"queued", "running", "completed", "completed_with_issues", "failed", "error"}

\* store.create, and the start of runClayersJob in a microtask right after.
Create(input) ==
  SetStatus(SetStatus([status |-> None, mode |-> input.mode, source |-> input.source,
                       events |-> <<>>, issues |-> 0, waits |-> "repository", child |-> None,
                       late |-> {}, sync |-> FALSE, queries |-> 0, extras |-> 0],
                      "queued"), "running")

-----------------------------------------------------------------------------
(* The runner. job.waits is what it waits for: "command" for job.child.      *)

WaitFor(job, what) == [job EXCEPT !.waits = what, !.child = None]
RunStep(job, step) ==
  [AddStepEvent(job, "step.started", step, 0) EXCEPT !.waits = "command", !.child = step]

Fail(job) == SetStatus(AddEvent(WaitFor(job, "nothing"), "error"), "failed")
Finish(job) ==
  SetStatus(WaitFor(job, "nothing"),
            IF job.issues > 0 THEN "completed_with_issues" ELSE "completed")

PrepareRepository(job) ==
  IF job.source = "path"
  THEN {Fail(job), WaitFor(AddEvent(job, "repo.local"), "binary")}
  ELSE {RunStep(job, "git.clone")}

ResolveClayersBin(job) == IF Bootstraps THEN AddEvent(job, "core.bootstrap") ELSE job

DetectCapabilities(job) ==
  LET resolved == ResolveClayersBin(job)
  IN  {Fail(resolved)}
        \cup {WaitFor(AddEvent([resolved EXCEPT !.sync = s], "core.capabilities"), "specification")
                : s \in BOOLEAN}

\* A job looks for the specification a second time, whatever its mode.
Synchronise(job) ==
  IF job.mode # "sync" THEN WaitFor(job, "result")
  ELSE IF job.sync THEN RunStep(job, "clayers.sync")
  ELSE WaitFor(AddEvent(job, "core.capability.missing"), "generator")

Adopt(job) ==
  IF job.mode = "review" THEN {WaitFor(job, "result")}
  ELSE {RunStep(job, "clayers.adopt"), Synchronise(AddEvent(job, "clayers.adopt.skipped"))}

Generate(job) == {Fail(job), WaitFor(AddEvent(job, "clayers.generate.local"), "result")}

DetectSpec(job) ==
  {Finish(AddEvent(job, "spec.missing")),
   RunStep(AddEvent(job, "spec.detected"),
           IF job.mode = "sync" THEN "clayers.fix-node-hash" ELSE Checks[1])}

\* The page is looked for and, if it is not there, written by the fallback.
GenerateDocs(job) ==
  {Fail(job)} \cup {RunStep(AddEvent(r, "clayers.docs.generated"), "clayers.query-summary")
                      : r \in {job, AddEvent(job, "clayers.docs.fallback")}}

SummariseLocally(job) ==
  {RunStep(AddEvent(job, "clayers.query-summary.fallback"), Checks[1]),
   RunStep(MarkIssue(AddEvent(job, "clayers.query-summary.fallback_failed")), Checks[1])}

\* What the runner does when what it waits for is there.
Resumed(job) ==
  CASE job.waits = "repository"    -> PrepareRepository(job)
    [] job.waits = "binary"        -> DetectCapabilities(job)
    [] job.waits = "specification" -> Adopt(job)
    [] job.waits = "generator"     -> Generate(job)
    [] job.waits = "result"        -> DetectSpec(job)
    [] job.waits = "docs"          -> GenerateDocs(job)
    [] job.waits = "local query"   -> SummariseLocally(job)
    [] OTHER                       -> {}

\* What it does when a command has ended well, or may fail.
AfterStep(job, step, code) ==
  CASE step = "git.clone"                 -> WaitFor(AddEvent(job, "repo.cloned"), "binary")
    [] step = "clayers.adopt"             -> Synchronise(job)
    [] step = "clayers.sync"              -> WaitFor(job, "result")
    [] step = "clayers.fix-node-hash"     -> RunStep(job, "clayers.fix-artifact-hash")
    [] step = "clayers.fix-artifact-hash" -> RunStep(job, "clayers.docs")
    [] step = "clayers.docs"              -> WaitFor(job, "docs")
    [] step = "clayers.query-summary"     -> IF code = 0 THEN RunStep(job, Checks[1])
                                             ELSE WaitFor(job, "local query")
    [] IsCheck(step)                      -> IF Place(step) < Len(Checks)
                                             THEN RunStep(job, Checks[Place(step) + 1])
                                             ELSE Finish(job)

\* Mutant of Closed: markIssueOnNonZero is not looked at.
ClosedMarksAll(job, step, code) ==
  LET told == AddStepEvent(job, "step.completed", step, code)
  IN  IF code # 0 /\ MayFail(step) THEN MarkIssue(told) ELSE told

\* The handler of a command's "close", without the promise it settles.
Closed(job, step, code) ==
  LET told == AddStepEvent(job, "step.completed", step, code)
  IN  IF code # 0 /\ IsCheck(step) THEN MarkIssue(told) ELSE told

StepEnded(job, step, code) ==
  IF code = 0 \/ MayFail(step)
  THEN AfterStep(Closed(job, step, code), step, code)
  ELSE Fail(Closed(job, step, code))

-----------------------------------------------------------------------------
(* Viewers.                                                                  *)

\* A listener writes each event and ends the response once the job's status
\* is terminal.
Written(viewer, events) ==
  LET new  == SubSeq(events, Len(viewer.sent) + 1, Len(events))
      stop == {i \in DOMAIN new : new[i].last}
      upTo == CHOOSE i \in stop : \A k \in stop : i <= k
  IN  IF stop = {} THEN [viewer EXCEPT !.sent = events]
      ELSE [viewer EXCEPT !.sent = @ \o SubSeq(new, 1, upTo), !.state = "ended"]

Streaming(v) == viewers[v] # None /\ viewers[v].state = "open"

\* Job j becomes `job`; its listeners are told of every new event.
Update(j, job) ==
  /\ jobs' = [jobs EXCEPT ![j] = job]
  /\ viewers' = [v \in Viewers |->
                   IF Streaming(v) /\ viewers[v].job = j
                   THEN Written(viewers[v], job.events) ELSE viewers[v]]

\* Mutant of StreamEvents: the listener is attached to an ended job too.
StreamEventsUnchecked(v, j) ==
  /\ viewers[v] = None
  /\ jobs[j] # None
  /\ viewers' = [viewers EXCEPT ![v] = [job |-> j, sent |-> jobs[j].events, state |-> "open"]]
  /\ UNCHANGED jobs

StreamEvents(v, j) ==
  /\ viewers[v] = None
  /\ jobs[j] # None
  /\ viewers' = [viewers EXCEPT ![v] =
                   [job |-> j, sent |-> jobs[j].events,
                    state |-> IF IsTerminal(jobs[j].status) THEN "ended" ELSE "open"]]
  /\ UNCHANGED jobs

\* The client goes away ("close" of the response takes the listener off), and
\* may come back.
Disconnect(v) ==
  /\ Streaming(v)
  /\ viewers' = [viewers EXCEPT ![v] = None]
  /\ UNCHANGED jobs

\* The status streamJob returns after these events.
ClientStatus(sent) ==
  LET of == {i \in DOMAIN sent : sent[i].type \in JobEvents}
  IN  IF of = {} THEN "running" ELSE sent[CHOOSE i \in of : \A k \in of : k <= i].type

-----------------------------------------------------------------------------
(* Callbacks of the server.                                                  *)

Submit(j, input) ==
  /\ jobs[j] = None
  /\ Update(j, Create(input))

Resume(j) ==
  /\ jobs[j] # None
  /\ \E job \in Resumed(jobs[j]) : Update(j, job)

Exit(j, code) ==
  /\ jobs[j] # None /\ jobs[j].child # None
  /\ Update(j, StepEnded(jobs[j], jobs[j].child, code))

More(job) == [job EXCEPT !.extras = @ + 1]
MayHaveMore(j) == jobs[j] # None /\ jobs[j].extras < MaxExtras

Output(j) ==
  /\ MayHaveMore(j) /\ jobs[j].child # None
  /\ Update(j, More(AddStepEvent(jobs[j], "step.output", jobs[j].child, 0)))

\* A command cannot be started: "error" rejects, and "close" still follows.
StartFails(j) ==
  /\ MayHaveMore(j) /\ jobs[j].child # None
  /\ LET step == jobs[j].child
         job  == AddStepEvent(jobs[j], "step.error", step, 0)
     IN  Update(j, Fail(More([job EXCEPT !.late = @ \cup {step}])))

\* Mutant of LateClose: the late "close" resumes the runner.
LateCloseResumes(j) ==
  /\ jobs[j] # None
  /\ \E step \in jobs[j].late :
       Update(j, StepEnded([jobs[j] EXCEPT !.late = @ \ {step}], step, 1))

LateClose(j) ==
  /\ jobs[j] # None
  /\ \E step \in jobs[j].late :
       Update(j, Closed([jobs[j] EXCEPT !.late = @ \ {step}], step, 1))

\* runJobQuery: core answers, or the local fallback does.
Query(j) ==
  /\ MayHaveMore(j)
  /\ \E i \in DOMAIN jobs[j].events : jobs[j].events[i].type = "spec.detected"
  /\ \E failed \in {0, 1} :
       LET told == AddEvent(ResolveClayersBin(jobs[j]), "clayers.query.api")
       IN  Update(j, More([told EXCEPT !.queries = @ + failed]))

QueryFallback(j) ==
  /\ jobs[j] # None /\ jobs[j].queries > 0
  /\ \E type \in {"clayers.query.api.fallback", "clayers.query.api.fallback_failed"} :
       Update(j, AddEvent([jobs[j] EXCEPT !.queries = @ - 1], type))

Init ==
  /\ jobs = [j \in Jobs |-> None]
  /\ viewers = [v \in Viewers |-> None]

Next ==
  \/ \E j \in Jobs :
       \/ \E input \in Inputs : Submit(j, input)
       \/ Resume(j)
       \/ \E code \in {0, 1} : Exit(j, code)
       \/ Output(j)
       \/ StartFails(j)
       \/ LateClose(j)
       \/ Query(j)
       \/ QueryFallback(j)
  \/ \E v \in Viewers :
       \/ \E j \in Jobs : StreamEvents(v, j)
       \/ Disconnect(v)

Spec == Init /\ [][Next]_vars

\* The disk answers and commands end; nobody has to submit, look or query.
Fairness ==
  \A j \in Jobs : WF_vars(Resume(j)) /\ WF_vars(\E code \in {0, 1} : Exit(j, code))

FairSpec == Spec /\ Fairness

-----------------------------------------------------------------------------
Steps ==
  {"git.clone", "clayers.adopt", "clayers.sync", "clayers.fix-node-hash",
   "clayers.fix-artifact-hash", "clayers.docs", "clayers.query-summary",
   "clayers.validate", "clayers.drift", "clayers.coverage", "clayers.connectivity"}
EventTypes ==
  JobEvents \cup
  {"step.started", "step.output", "step.error", "step.completed", "repo.local", "repo.cloned",
   "core.bootstrap", "core.capabilities", "core.capability.missing", "clayers.adopt.skipped",
   "clayers.generate.local", "spec.missing", "spec.detected", "clayers.docs.generated",
   "clayers.docs.fallback", "clayers.query-summary.fallback",
   "clayers.query-summary.fallback_failed", "clayers.query.api", "clayers.query.api.fallback",
   "clayers.query.api.fallback_failed"}
Events == [type : EventTypes, name : Steps \cup {None}, code : {0, 1}, last : BOOLEAN]
Statuses == {"queued", "running", "completed", "completed_with_issues", "failed"}
JobRecords ==
  [status : Statuses \cup {None},
   mode : {"sync", "review", "adopt"}, source : {"path", "repoUrl"},
   events : Seq(Events), issues : Nat,
   waits : {"repository", "binary", "specification", "generator", "result", "docs",
            "local query", "command", "nothing"},
   child : Steps \cup {None}, late : SUBSET Steps, sync : BOOLEAN,
   queries : Nat, extras : 0 .. MaxExtras]
Streams == [job : Jobs, sent : Seq(Events), state : {"open", "ended"}]

ASSUME NoneIsNothing ==
  None \notin Statuses \cup Steps \cup JobRecords \cup Streams

\* A job waits for one thing at a time, and for nothing exactly when its
\* status is terminal.
TypeOK ==
  /\ jobs \in [Jobs -> JobRecords \cup {None}]
  /\ viewers \in [Viewers -> Streams \cup {None}]
  /\ \A j \in Jobs : jobs[j] # None =>
       /\ jobs[j].status \notin {None, "queued"}
       /\ jobs[j].child # None <=> jobs[j].waits = "command"
       /\ IsTerminal(jobs[j].status) <=> jobs[j].waits = "nothing"

\* The events a job had up to the one that announced its end.
UpToEnd(events) ==
  LET ends == {i \in DOMAIN events : events[i].last}
  IN  IF ends = {} THEN events
      ELSE SubSeq(events, 1, CHOOSE i \in ends : \A k \in ends : i <= k)

\* A stream misses no event and repeats none, whenever it was opened; a client
\* whose stream the server ended reports the status the job ended with, and
\* no stream of an ended job stays open. (Events added later, by a late
\* "close" or a query, are in the streams that are opened after them.)
StreamsAreFaithful ==
  \A v \in Viewers : viewers[v] # None =>
    LET job == jobs[viewers[v].job]
        sent == viewers[v].sent
    IN  /\ sent = SubSeq(job.events, 1, Len(sent))
        /\ viewers[v].state = "open" => ~IsTerminal(job.status) /\ sent = job.events
        /\ viewers[v].state = "ended" =>
             /\ Len(sent) >= Len(UpToEnd(job.events))
             /\ IsTerminal(job.status) /\ ClientStatus(sent) = job.status

\* sendJobReview lists the checks that ran, with their exit codes: the places
\* of their events.
Review(job) ==
  {i \in DOMAIN job.events : job.events[i].type = "step.completed" /\ IsCheck(job.events[i].name)}
FailedChecks(job) == {i \in Review(job) : job.events[i].code # 0}
CheckAt(job, i) == Place(job.events[i].name)
Has(job, type) == \E i \in DOMAIN job.events : job.events[i].type = type

\* The review of a job that completed with a specification lists the four
\* checks once each, in order, and the issues of the job are those of them
\* that failed, and the summary if its fallback failed too: "completed"
\* means there is none. Queries made meanwhile count for nothing.
IssuesAreExplained ==
  \A j \in Jobs :
    LET job == jobs[j]
    IN  job # None /\ job.status \in {"completed", "completed_with_issues"} =>
          /\ Has(job, "spec.detected") \/ Has(job, "spec.missing")
          /\ Has(job, "spec.detected") =>
               /\ \A i, k \in Review(job) : i < k => CheckAt(job, i) < CheckAt(job, k)
               /\ {CheckAt(job, i) : i \in Review(job)} = DOMAIN Checks
          /\ job.issues = Cardinality(FailedChecks(job))
                          + (IF Has(job, "clayers.query-summary.fallback_failed") THEN 1 ELSE 0)
          /\ job.status = "completed" <=> job.issues = 0

\* What is told of a job is what happened: a stream misses no event of it, and
\* the review explains its issues (job-store.ts, server.ts, client.ts,
\* runner.ts).
JobIsTold == StreamsAreFaithful /\ IssuesAreExplained

Life == INSTANCE JobLife WITH
  status <- [j \in Jobs |-> IF jobs[j] = None THEN "none" ELSE jobs[j].status],
  busy <- {j \in Jobs : jobs[j] # None /\ jobs[j].child # None}

\* A job ends once, with no command of it running, and starts nothing more:
\* not even when the "close" of a command that failed to start comes late.
ImplementsJobLife == Life!Spec

\* Every stream is ended by the server or left by its client.
StreamsEnd == \A v \in Viewers : Streaming(v) ~> ~Streaming(v)
=============================================================================
