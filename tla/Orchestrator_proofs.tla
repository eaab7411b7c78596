------------------------- MODULE Orchestrator_proofs ------------------------
(***************************************************************************)
(* What holds of the job server for every number of jobs and viewers:      *)
(* streams and reviews tell what happened, and a job lives as JobLife says. *)
(*                                                                         *)
(* A step of a job is a chain of small updates (an event, a status, a step *)
(* begun), so the proofs go update by update.  A job is either under way,  *)
(* and what it waits for says what its events have told so far (Stage), or *)
(* it has ended, and then no event but that of its status announces one.   *)
(***************************************************************************)
EXTENDS Orchestrator, FiniteSetTheorems, SequenceTheorems, TLAPS

\* One sequence of events continues another.
Extends(s, t) == Len(s) <= Len(t) /\ \A i \in 1 .. Len(s) : t[i] = s[i]

SummaryLost == "clayers.query-summary.fallback_failed"

\* The issues are the failed checks, and the summary that was lost.
Explained(job) ==
  job.issues = Cardinality(FailedChecks(job)) + (IF Has(job, SummaryLost) THEN 1 ELSE 0)

\* No specification has been looked for.
Undetected(job) ==
  /\ ~Has(job, "spec.detected") /\ ~Has(job, SummaryLost)
  /\ Review(job) = {}

\* A specification was found, and the first k checks have run.
Checked(job, k) ==
  /\ Has(job, "spec.detected")
  /\ \A i, l \in Review(job) : i < l => CheckAt(job, i) < CheckAt(job, l)
  /\ {CheckAt(job, i) : i \in Review(job)} = 1 .. k

\* A job under way has announced no end.
Runs(job) ==
  /\ job \in JobRecords
  /\ job.status = "running"
  /\ \A i \in DOMAIN job.events : ~job.events[i].last

EarlyWaits == {"repository", "binary", "specification", "generator", "result"}
EarlySteps == {"git.clone", "clayers.adopt", "clayers.sync"}
DocsSteps == {"clayers.fix-node-hash", "clayers.fix-artifact-hash", "clayers.docs",
              "clayers.query-summary"}

\* What the events of a job under way have told, by what it waits for.
Stage(job) ==
  \/ job.waits \in EarlyWaits /\ job.child = None /\ Undetected(job)
  \/ job.waits = "command" /\ job.child \in EarlySteps /\ Undetected(job)
  \/ /\ job.waits \in {"docs", "local query"} /\ job.child = None
     /\ Checked(job, 0) /\ ~Has(job, SummaryLost)
  \/ /\ job.waits = "command" /\ job.child \in DocsSteps
     /\ Checked(job, 0) /\ ~Has(job, SummaryLost)
  \/ /\ job.waits = "command"
     /\ \E k \in 1 .. 4 : job.child = Checks[k] /\ Checked(job, k - 1)

\* The event of a job's status is the first of those told after its end, and
\* none of the others announces a status.
EndsAt(job, m) ==
  /\ m \in DOMAIN job.events /\ job.events[m].type = job.status
  /\ \A i \in DOMAIN job.events : job.events[i].last <=> i >= m
  /\ \A i \in DOMAIN job.events : i > m => job.events[i].type \notin JobEvents

\* What a job that completed can show for it.
Outcome(job) ==
  /\ Checked(job, 4) \/ (Has(job, "spec.missing") /\ ~Has(job, "spec.detected"))
  /\ job.status = "completed" <=> job.issues = 0

HasEnded(job) ==
  /\ job \in JobRecords
  /\ IsTerminal(job.status) /\ job.waits = "nothing" /\ job.child = None
  /\ \E m \in DOMAIN job.events : EndsAt(job, m)
  /\ job.status # "failed" => job.late = {} /\ Outcome(job)

JobInv(job) ==
  /\ Explained(job)
  /\ \/ Runs(job) /\ job.late = {} /\ Stage(job)
     \/ HasEnded(job)

\* What a viewer has been sent.
ViewerInv(v) ==
  viewers[v] # None =>
    LET job == jobs[viewers[v].job]
        sent == viewers[v].sent
    IN  /\ job # None /\ Extends(sent, job.events)
        /\ viewers[v].state = "open" => ~IsTerminal(job.status) /\ sent = job.events
        /\ viewers[v].state = "ended" =>
             IsTerminal(job.status) /\ \E m \in DOMAIN sent : sent[m].last

Inv ==
  /\ jobs \in [Jobs -> JobRecords \cup {None}]
  /\ viewers \in [Viewers -> Streams \cup {None}]
  /\ \A j \in Jobs : jobs[j] # None => JobInv(jobs[j])
  /\ \A v \in Viewers : ViewerInv(v)

-----------------------------------------------------------------------------
(* One event more.                                                          *)

Adds(job, new, e) == job.events \in Seq(Events) /\ e \in Events /\ new.events = Append(job.events, e)

\* What is in the sequence, and where.
LEMMA Appended ==
  ASSUME NEW job, NEW new, NEW e, Adds(job, new, e)
  PROVE  /\ Len(job.events) \in Nat /\ Len(new.events) = Len(job.events) + 1
         /\ new.events \in Seq(Events)
         /\ DOMAIN job.events = 1 .. Len(job.events)
         /\ DOMAIN new.events = (DOMAIN job.events) \union {Len(job.events) + 1}
         /\ \A i \in DOMAIN job.events : new.events[i] = job.events[i]
         /\ new.events[Len(job.events) + 1] = e
         /\ Extends(job.events, new.events)
  BY DEF Adds, Extends

\* Extends is transitive.
LEMMA ExtendsFurther ==
  ASSUME NEW r \in Seq(Events), NEW s \in Seq(Events), NEW t \in Seq(Events),
         Extends(r, s), Extends(s, t)
  PROVE  Extends(r, t)
<1>1. Len(r) \in Nat /\ Len(s) \in Nat /\ Len(t) \in Nat
  OBVIOUS
<1>2. QED BY <1>1 DEF Extends

\* What the events of a type, and the checks, become.
LEMMA ToldMore ==
  ASSUME NEW job, NEW new, NEW e, Adds(job, new, e)
  PROVE  /\ \A type : Has(new, type) <=> Has(job, type) \/ e.type = type
         /\ Review(new) = Review(job) \union
              (IF e.type = "step.completed" /\ IsCheck(e.name) THEN {Len(job.events) + 1} ELSE {})
         /\ FailedChecks(new) = FailedChecks(job) \union
              (IF e.type = "step.completed" /\ IsCheck(e.name) /\ e.code # 0
               THEN {Len(job.events) + 1} ELSE {})
         /\ \A i \in Review(job) : CheckAt(new, i) = CheckAt(job, i)
         /\ CheckAt(new, Len(job.events) + 1) = Place(e.name)
<1> DEFINE n == Len(job.events) + 1
<1>1. /\ DOMAIN new.events = (DOMAIN job.events) \union {n} /\ n \notin DOMAIN job.events
      /\ \A i \in DOMAIN job.events : new.events[i] = job.events[i]
      /\ new.events[n] = e
  BY Appended
<1> HIDE DEF n
<1>2. \A type : Has(new, type) <=> Has(job, type) \/ e.type = type
  BY <1>1 DEF Has
<1>3. Review(new) = Review(job) \union
        (IF e.type = "step.completed" /\ IsCheck(e.name) THEN {n} ELSE {})
  BY <1>1 DEF Review
<1>4. FailedChecks(new) = FailedChecks(job) \union
        (IF e.type = "step.completed" /\ IsCheck(e.name) /\ e.code # 0 THEN {n} ELSE {})
  BY <1>1, <1>3 DEF FailedChecks, Review
<1>5. \A i \in Review(job) : CheckAt(new, i) = CheckAt(job, i)
  BY <1>1 DEF CheckAt, Review
<1>6. CheckAt(new, n) = Place(e.name)
  BY <1>1 DEF CheckAt
<1>7. QED BY <1>2, <1>3, <1>4, <1>5, <1>6 DEF n

\* The checks that ran are finitely many.
LEMMA FailedAreFinite ==
  ASSUME NEW job, job.events \in Seq(Events)
  PROVE  IsFiniteSet(FailedChecks(job)) /\ Len(job.events) + 1 \notin FailedChecks(job)
<1>1. DOMAIN job.events = 1 .. Len(job.events) /\ Len(job.events) \in Nat
  OBVIOUS
<1>2. IsFiniteSet(1 .. Len(job.events))
  BY <1>1, FS_Interval
<1>3. FailedChecks(job) \subseteq 1 .. Len(job.events)
  BY <1>1 DEF FailedChecks, Review
<1>4. QED BY <1>1, <1>2, <1>3, FS_Subset

\* addEvent.
LEMMA AddsEvent ==
  ASSUME NEW job \in JobRecords, NEW type \in EventTypes, NEW name \in Steps \union {None},
         NEW code \in {0, 1}
  PROVE  LET new == AddStepEvent(job, type, name, code)
             e   == [type |-> type, name |-> name, code |-> code, last |-> IsTerminal(job.status)]
         IN  /\ new \in JobRecords /\ Adds(job, new, e)
             /\ new.status = job.status /\ new.issues = job.issues
             /\ new.waits = job.waits /\ new.child = job.child /\ new.late = job.late
<1> DEFINE e == [type |-> type, name |-> name, code |-> code, last |-> IsTerminal(job.status)]
           new == [job EXCEPT !.events = Append(@, e)]
<1>1. IsTerminal(job.status) \in BOOLEAN
  BY DEF IsTerminal
<1>2. e \in Events
  BY <1>1 DEF Events
<1>3. job.events \in Seq(Events)
  BY DEF JobRecords
<1>4. Append(job.events, e) \in Seq(Events)
  BY <1>2, <1>3
<1>5. AddStepEvent(job, type, name, code) = new
  BY DEF AddStepEvent
<1> HIDE DEF e
<1>6. new \in JobRecords
  BY <1>4 DEF JobRecords
<1>7. new.events = Append(job.events, e)
  BY DEF JobRecords
<1>8. /\ new.status = job.status /\ new.issues = job.issues
      /\ new.waits = job.waits /\ new.child = job.child /\ new.late = job.late
  BY DEF JobRecords
<1> HIDE DEF new
<1>9. Adds(job, new, e)
  BY <1>2, <1>3, <1>7 DEF Adds
<1>10. QED BY <1>5, <1>6, <1>8, <1>9 DEF e

\* ... nor counts anything.
LEMMA AddsNoExtra ==
  ASSUME NEW job \in JobRecords, NEW type, NEW name, NEW code
  PROVE  /\ AddStepEvent(job, type, name, code).extras = job.extras
         /\ AddStepEvent(job, type, name, code).queries = job.queries
  BY DEF AddStepEvent, JobRecords

\* None is neither a status nor a step nor the type of an event.
LEMMA NoneIsApart ==
  /\ None \notin Steps /\ None \notin JobRecords /\ None \notin Streams
  /\ None \notin Statuses /\ ~IsTerminal(None)
  BY NoneIsNothing DEF IsTerminal, Statuses

-----------------------------------------------------------------------------
(* Updates of a job under way that leave what it has told as it is.         *)

Keeps(job, new) ==
  /\ Runs(new) /\ new.late = job.late /\ Extends(job.events, new.events)
  /\ Explained(job) => Explained(new)
  /\ Undetected(job) => Undetected(new)
  /\ \A k \in 0 .. 4 : Checked(job, k) => Checked(new, k)
  /\ Has(new, SummaryLost) => Has(job, SummaryLost)

\* Keeps is transitive.
LEMMA KeepsFurther ==
  ASSUME NEW job, NEW mid, NEW new, Runs(job), Keeps(job, mid), Keeps(mid, new)
  PROVE  Keeps(job, new)
<1>1. job.events \in Seq(Events) /\ mid.events \in Seq(Events) /\ new.events \in Seq(Events)
  BY DEF Keeps, Runs, JobRecords
<1>2. Extends(job.events, new.events)
  BY <1>1, ExtendsFurther DEF Keeps
<1>3. QED BY <1>2 DEF Keeps

\* Fields other than these are not told.
LEMMA SameEventsKeep ==
  ASSUME NEW job, NEW new \in JobRecords, Runs(job), new.events = job.events,
         new.status = job.status, new.late = job.late, new.issues = job.issues
  PROVE  Keeps(job, new)
<1>1. job.events \in Seq(Events)
  BY DEF Runs, JobRecords
<1>2. Extends(job.events, new.events)
  BY <1>1 DEF Extends
<1>3. Review(new) = Review(job) /\ FailedChecks(new) = FailedChecks(job)
  BY DEF Review, FailedChecks
<1>4. \A type : Has(new, type) = Has(job, type)
  BY DEF Has
<1>5. \A i : CheckAt(new, i) = CheckAt(job, i)
  BY DEF CheckAt
<1>6. Runs(new)
  BY DEF Runs
<1>7. (Explained(job) => Explained(new)) /\ (Undetected(job) => Undetected(new))
  BY <1>3, <1>4 DEF Explained, Undetected
<1>8. \A k \in 0 .. 4 : Checked(job, k) => Checked(new, k)
  BY <1>3, <1>4, <1>5 DEF Checked
<1>9. QED BY <1>2, <1>4, <1>6, <1>7, <1>8 DEF Keeps

\* Events that say nothing about the specification or a check.
Plain(type, name) ==
  /\ type \notin {"spec.detected", "spec.missing", SummaryLost}
  /\ ~(type = "step.completed" /\ IsCheck(name))

\* An event told under way announces no end.
LEMMA RunsOn ==
  ASSUME NEW job, NEW new \in JobRecords, NEW e, Runs(job), Adds(job, new, e), ~e.last,
         new.status = job.status
  PROVE  Runs(new)
<1>1. \A i \in DOMAIN new.events : ~new.events[i].last
  <2>1. /\ DOMAIN new.events = (DOMAIN job.events) \union {Len(job.events) + 1}
        /\ \A i \in DOMAIN job.events : new.events[i] = job.events[i]
        /\ new.events[Len(job.events) + 1] = e
    BY Appended
  <2>2. QED BY <2>1 DEF Runs
<1>2. QED BY <1>1 DEF Runs

\* Such an event changes nothing of what was told.
LEMMA PlainKeeps ==
  ASSUME NEW job, Runs(job), NEW type \in EventTypes, NEW name \in Steps \union {None},
         NEW code \in {0, 1}, Plain(type, name)
  PROVE  LET new == AddStepEvent(job, type, name, code)
         IN  Keeps(job, new) /\ new.waits = job.waits /\ new.child = job.child
<1> DEFINE new == AddStepEvent(job, type, name, code)
           e   == [type |-> type, name |-> name, code |-> code, last |-> IsTerminal(job.status)]
<1>1. job \in JobRecords /\ job.status = "running" /\ ~IsTerminal(job.status)
  BY DEF Runs, IsTerminal
<1>2. /\ new \in JobRecords /\ Adds(job, new, e)
      /\ new.status = job.status /\ new.issues = job.issues
      /\ new.waits = job.waits /\ new.child = job.child /\ new.late = job.late
  BY <1>1, AddsEvent
<1>3. e.type = type /\ e.name = name /\ e.code = code /\ ~e.last
  BY <1>1
<1> HIDE DEF new, e
<1>4. /\ \A t : Has(new, t) <=> Has(job, t) \/ e.type = t
      /\ Review(new) = Review(job) \union
           (IF e.type = "step.completed" /\ IsCheck(e.name) THEN {Len(job.events) + 1} ELSE {})
      /\ FailedChecks(new) = FailedChecks(job) \union
           (IF e.type = "step.completed" /\ IsCheck(e.name) /\ e.code # 0
            THEN {Len(job.events) + 1} ELSE {})
      /\ \A i \in Review(job) : CheckAt(new, i) = CheckAt(job, i)
  BY <1>2, ToldMore
<1>5. Review(new) = Review(job) /\ FailedChecks(new) = FailedChecks(job)
  BY <1>3, <1>4 DEF Plain
<1>6. \A t \in {"spec.detected", "spec.missing", SummaryLost} : Has(new, t) <=> Has(job, t)
  BY <1>3, <1>4 DEF Plain
<1>7. Runs(new)
  BY <1>2, <1>3, RunsOn
<1>8. Extends(job.events, new.events)
  BY <1>2, Appended
<1>9. (Explained(job) => Explained(new)) /\ (Undetected(job) => Undetected(new))
  BY <1>2, <1>5, <1>6 DEF Explained, Undetected
<1>10. \A k \in 0 .. 4 : Checked(job, k) => Checked(new, k)
  BY <1>4, <1>5, <1>6 DEF Checked
<1>11. Keeps(job, new)
  BY <1>2, <1>6, <1>7, <1>8, <1>9, <1>10 DEF Keeps
<1>12. QED BY <1>2, <1>11 DEF new

\* The runner waits for something else than a command.
LEMMA Waits ==
  ASSUME NEW job, Runs(job), NEW what \in EarlyWaits \union {"docs", "local query", "nothing"}
  PROVE  /\ Keeps(job, WaitFor(job, what))
         /\ WaitFor(job, what).waits = what /\ WaitFor(job, what).child = None
<1> DEFINE new == WaitFor(job, what)
<1>1. job \in JobRecords
  BY DEF Runs
<1>2. /\ new \in JobRecords /\ new.events = job.events /\ new.status = job.status
      /\ new.late = job.late /\ new.issues = job.issues
      /\ new.waits = what /\ new.child = None
  BY <1>1 DEF WaitFor, JobRecords, EarlyWaits
<1> HIDE DEF new
<1>3. Keeps(job, new)
  BY <1>2, SameEventsKeep
<1>4. QED BY <1>2, <1>3 DEF new

\* runStep.
LEMMA Begins ==
  ASSUME NEW job, Runs(job), NEW step \in Steps
  PROVE  /\ Keeps(job, RunStep(job, step))
         /\ RunStep(job, step).waits = "command" /\ RunStep(job, step).child = step
<1> DEFINE mid == AddStepEvent(job, "step.started", step, 0)
           new == [mid EXCEPT !.waits = "command", !.child = step]
<1>1. Keeps(job, mid)
  BY PlainKeeps DEF Plain, EventTypes, SummaryLost
<1>2. mid \in JobRecords /\ Runs(mid)
  BY <1>1 DEF Keeps, Runs
<1>3. RunStep(job, step) = new
  BY DEF RunStep
<1> HIDE DEF mid
<1>4. /\ new \in JobRecords /\ new.events = mid.events /\ new.status = mid.status
      /\ new.late = mid.late /\ new.issues = mid.issues
      /\ new.waits = "command" /\ new.child = step
  BY <1>2 DEF JobRecords
<1> HIDE DEF new
<1>5. Keeps(mid, new)
  BY <1>2, <1>4, SameEventsKeep
<1>6. Keeps(job, new)
  BY <1>1, <1>5, KeepsFurther
<1>7. QED BY <1>3, <1>4, <1>6

-----------------------------------------------------------------------------
(* Updates that count.                                                      *)

\* The four checks.
LEMMA TheChecks ==
  /\ Len(Checks) = 4 /\ DOMAIN Checks = 1 .. 4
  /\ \A k \in 1 .. 4 : Checks[k] \in Steps /\ IsCheck(Checks[k]) /\ Place(Checks[k]) = k
  /\ \A step \in EarlySteps \union DocsSteps : step \in Steps /\ ~IsCheck(step)
  /\ \A step \in Steps : IsCheck(step) => \E k \in 1 .. 4 : step = Checks[k]
<1>1. /\ Len(Checks) = 4 /\ DOMAIN Checks = 1 .. 4
      /\ Checks[1] = "clayers.validate" /\ Checks[2] = "clayers.drift"
      /\ Checks[3] = "clayers.coverage" /\ Checks[4] = "clayers.connectivity"
  BY DEF Checks
<1>2. ASSUME NEW k \in 1 .. 4
      PROVE  Checks[k] \in Steps /\ IsCheck(Checks[k]) /\ Place(Checks[k]) = k
  <2>1. Checks[k] \in Steps /\ IsCheck(Checks[k])
    BY <1>1 DEF IsCheck, Steps
  <2>2. \A i \in DOMAIN Checks : Checks[i] = Checks[k] => i = k
    BY <1>1
  <2>3. QED BY <1>1, <2>1, <2>2 DEF Place
<1>3. ASSUME NEW step \in EarlySteps \union DocsSteps
      PROVE  step \in Steps /\ ~IsCheck(step)
  BY <1>1 DEF EarlySteps, DocsSteps, Steps, IsCheck
<1>4. QED BY <1>1, <1>2, <1>3 DEF IsCheck

\* The specification is found.
LEMMA SpecFound ==
  ASSUME NEW job, Runs(job), Explained(job), Undetected(job)
  PROVE  LET new == AddEvent(job, "spec.detected")
         IN  /\ Runs(new) /\ new.late = job.late /\ Extends(job.events, new.events)
             /\ Explained(new) /\ Checked(new, 0) /\ ~Has(new, SummaryLost)
<1> DEFINE new == AddEvent(job, "spec.detected")
           e   == [type |-> "spec.detected", name |-> None, code |-> 0, last |-> IsTerminal(job.status)]
<1>1. job \in JobRecords /\ ~IsTerminal(job.status)
  BY DEF Runs, IsTerminal
<1>2. /\ new \in JobRecords /\ Adds(job, new, e)
      /\ new.status = job.status /\ new.issues = job.issues /\ new.late = job.late
  <2>1. job \in JobRecords
    BY <1>1
  <2>2. "spec.detected" \in EventTypes /\ None \in Steps \union {None} /\ 0 \in {0, 1}
    BY DEF EventTypes
  <2>3. QED BY ONLY <2>1, <2>2, AddsEvent DEF AddEvent
<1>3. e.type = "spec.detected" /\ ~e.last
  BY <1>1
<1> HIDE DEF new, e
<1>4. /\ Runs(new) /\ Extends(job.events, new.events)
  BY <1>2, <1>3, RunsOn, Appended
<1>t. /\ \A t : Has(new, t) <=> Has(job, t) \/ e.type = t
      /\ Review(new) = Review(job) \union
           (IF e.type = "step.completed" /\ IsCheck(e.name) THEN {Len(job.events) + 1} ELSE {})
      /\ FailedChecks(new) = FailedChecks(job) \union
           (IF e.type = "step.completed" /\ IsCheck(e.name) /\ e.code # 0
            THEN {Len(job.events) + 1} ELSE {})
      /\ \A i \in Review(job) : CheckAt(new, i) = CheckAt(job, i)
  BY <1>2, ToldMore
<1>5. /\ Has(new, "spec.detected") /\ ~Has(new, SummaryLost)
      /\ Review(new) = {} /\ FailedChecks(new) = FailedChecks(job)
  BY <1>3, <1>t DEF Undetected, SummaryLost
<1>6. Explained(new)
  BY <1>2, <1>5 DEF Explained, Undetected
<1>7. Checked(new, 0)
  BY <1>5 DEF Checked
<1>8. QED BY <1>2, <1>4, <1>5, <1>6, <1>7 DEF new

\* It is looked for and not there.
LEMMA SpecMissing ==
  ASSUME NEW job, Runs(job), Explained(job), Undetected(job)
  PROVE  LET new == AddEvent(job, "spec.missing")
         IN  /\ Runs(new) /\ new.late = job.late /\ Extends(job.events, new.events)
             /\ Explained(new) /\ Has(new, "spec.missing") /\ ~Has(new, "spec.detected")
<1> DEFINE new == AddEvent(job, "spec.missing")
           e   == [type |-> "spec.missing", name |-> None, code |-> 0, last |-> IsTerminal(job.status)]
<1>1. job \in JobRecords /\ ~IsTerminal(job.status)
  BY DEF Runs, IsTerminal
<1>2. /\ new \in JobRecords /\ Adds(job, new, e)
      /\ new.status = job.status /\ new.issues = job.issues /\ new.late = job.late
  <2>1. job \in JobRecords
    BY <1>1
  <2>2. "spec.missing" \in EventTypes /\ None \in Steps \union {None} /\ 0 \in {0, 1}
    BY DEF EventTypes
  <2>3. QED BY ONLY <2>1, <2>2, AddsEvent DEF AddEvent
<1>3. e.type = "spec.missing" /\ ~e.last
  BY <1>1
<1> HIDE DEF new, e
<1>4. /\ Runs(new) /\ Extends(job.events, new.events)
  BY <1>2, <1>3, RunsOn, Appended
<1>t. /\ \A t : Has(new, t) <=> Has(job, t) \/ e.type = t
      /\ Review(new) = Review(job) \union
           (IF e.type = "step.completed" /\ IsCheck(e.name) THEN {Len(job.events) + 1} ELSE {})
      /\ FailedChecks(new) = FailedChecks(job) \union
           (IF e.type = "step.completed" /\ IsCheck(e.name) /\ e.code # 0
            THEN {Len(job.events) + 1} ELSE {})
      /\ \A i \in Review(job) : CheckAt(new, i) = CheckAt(job, i)
  BY <1>2, ToldMore
<1>5. /\ Has(new, "spec.missing") /\ ~Has(new, "spec.detected") /\ ~Has(new, SummaryLost)
      /\ FailedChecks(new) = FailedChecks(job)
  BY <1>3, <1>t DEF Undetected, SummaryLost
<1>6. Explained(new)
  BY <1>2, <1>5 DEF Explained, Undetected
<1>7. QED BY <1>2, <1>4, <1>5, <1>6 DEF new

\* The summary and its fallback fail: the one issue that is no check.
LEMMA SummaryIsLost ==
  ASSUME NEW job, Runs(job), Explained(job), Checked(job, 0), ~Has(job, SummaryLost)
  PROVE  LET new == MarkIssue(AddEvent(job, SummaryLost))
         IN  /\ Runs(new) /\ new.late = job.late /\ Extends(job.events, new.events)
             /\ Explained(new) /\ Checked(new, 0)
<1> DEFINE mid == AddEvent(job, SummaryLost)
           new == [mid EXCEPT !.issues = @ + 1]
           e   == [type |-> SummaryLost, name |-> None, code |-> 0, last |-> IsTerminal(job.status)]
<1>1. job \in JobRecords /\ ~IsTerminal(job.status) /\ job.events \in Seq(Events)
  BY DEF Runs, IsTerminal, JobRecords
<1>2. /\ mid \in JobRecords /\ Adds(job, mid, e)
      /\ mid.status = job.status /\ mid.issues = job.issues /\ mid.late = job.late
  <2>1. job \in JobRecords
    BY <1>1
  <2>2. SummaryLost \in EventTypes /\ None \in Steps \union {None} /\ 0 \in {0, 1}
    BY DEF EventTypes, SummaryLost
  <2>3. QED BY ONLY <2>1, <2>2, AddsEvent DEF AddEvent
<1>3. e.type = SummaryLost /\ ~e.last
  BY <1>1
<1>4. MarkIssue(AddEvent(job, SummaryLost)) = new
  BY DEF MarkIssue
<1> HIDE DEF mid, e
<1>5. /\ new \in JobRecords /\ new.events = mid.events /\ new.status = mid.status
      /\ new.late = mid.late /\ new.issues = mid.issues + 1 /\ mid.issues \in Nat
  <2>1. mid.issues \in Nat
    BY <1>2 DEF JobRecords
  <2>2. mid.issues + 1 \in Nat
    BY <2>1
  <2>3. QED BY <1>2, <2>1, <2>2 DEF JobRecords
<1> HIDE DEF new
<1>6. Adds(job, new, e)
  BY <1>2, <1>5 DEF Adds
<1>7. Runs(new) /\ Extends(job.events, new.events)
  BY <1>2, <1>3, <1>5, <1>6, RunsOn, Appended
<1>t. /\ \A t : Has(new, t) <=> Has(job, t) \/ e.type = t
      /\ Review(new) = Review(job) \union
           (IF e.type = "step.completed" /\ IsCheck(e.name) THEN {Len(job.events) + 1} ELSE {})
      /\ FailedChecks(new) = FailedChecks(job) \union
           (IF e.type = "step.completed" /\ IsCheck(e.name) /\ e.code # 0
            THEN {Len(job.events) + 1} ELSE {})
      /\ \A i \in Review(job) : CheckAt(new, i) = CheckAt(job, i)
  BY <1>6, ToldMore
<1>8. /\ Has(new, SummaryLost)
      /\ Has(new, "spec.detected") <=> Has(job, "spec.detected")
      /\ Review(new) = Review(job) /\ FailedChecks(new) = FailedChecks(job)
      /\ \A i \in Review(job) : CheckAt(new, i) = CheckAt(job, i)
  BY <1>3, <1>t DEF SummaryLost
<1>9. Cardinality(FailedChecks(job)) \in Nat
  BY <1>1, FailedAreFinite, FS_CardinalityType
<1>10. Explained(new)
  BY <1>2, <1>5, <1>8, <1>9 DEF Explained
<1>11. Checked(new, 0)
  BY <1>8 DEF Checked
<1>12. QED BY <1>2, <1>4, <1>5, <1>7, <1>10, <1>11

\* The handler of a command's "close" explains the issue it marks.
LEMMA CloseIsTold ==
  ASSUME NEW job \in JobRecords, Explained(job), NEW step \in Steps, NEW code \in {0, 1}
  PROVE  LET new == Closed(job, step, code)
             e   == [type |-> "step.completed", name |-> step, code |-> code,
                     last |-> IsTerminal(job.status)]
         IN  /\ new \in JobRecords /\ Adds(job, new, e) /\ Explained(new)
             /\ new.status = job.status /\ new.waits = job.waits
             /\ new.child = job.child /\ new.late = job.late
<1> DEFINE new == Closed(job, step, code)
           mid == AddStepEvent(job, "step.completed", step, code)
           e   == [type |-> "step.completed", name |-> step, code |-> code,
                   last |-> IsTerminal(job.status)]
           marked == [mid EXCEPT !.issues = @ + 1]
<1>1. job.events \in Seq(Events) /\ job.issues \in Nat
  BY DEF JobRecords
<1>2. /\ mid \in JobRecords /\ Adds(job, mid, e)
      /\ mid.status = job.status /\ mid.issues = job.issues
      /\ mid.waits = job.waits /\ mid.child = job.child /\ mid.late = job.late
  BY AddsEvent, ZenonT(60) DEF EventTypes
<1>3. e.type = "step.completed" /\ e.name = step /\ e.code = code
  OBVIOUS
<1>4. new = IF code # 0 /\ IsCheck(step) THEN marked ELSE mid
  BY DEF Closed, MarkIssue
<1> HIDE DEF mid, e
<1>5. /\ marked \in JobRecords /\ marked.events = mid.events /\ marked.issues = mid.issues + 1
      /\ marked.status = mid.status /\ marked.waits = mid.waits
      /\ marked.child = mid.child /\ marked.late = mid.late
  <2>1. mid.issues + 1 \in Nat
    BY <1>1, <1>2
  <2>2. QED BY <1>2, <2>1 DEF JobRecords
<1> HIDE DEF new, marked
<1>6. /\ new \in JobRecords /\ Adds(job, new, e)
      /\ new.status = job.status /\ new.waits = job.waits
      /\ new.child = job.child /\ new.late = job.late
      /\ new.issues = IF code # 0 /\ IsCheck(step) THEN job.issues + 1 ELSE job.issues
  BY <1>2, <1>4, <1>5 DEF Adds
<1>7. /\ \A t : Has(new, t) <=> Has(job, t) \/ e.type = t
      /\ FailedChecks(new) = FailedChecks(job) \union
           (IF e.type = "step.completed" /\ IsCheck(e.name) /\ e.code # 0
            THEN {Len(job.events) + 1} ELSE {})
  BY <1>6, ToldMore
<1>8. Has(new, SummaryLost) <=> Has(job, SummaryLost)
  BY <1>3, <1>7 DEF SummaryLost
<1>9. /\ IsFiniteSet(FailedChecks(job)) /\ Len(job.events) + 1 \notin FailedChecks(job)
      /\ Cardinality(FailedChecks(job)) \in Nat
  BY <1>1, FailedAreFinite, FS_CardinalityType
<1>10. Explained(new)
  <2>1. CASE code # 0 /\ IsCheck(step)
    <3>1. FailedChecks(new) = FailedChecks(job) \union {Len(job.events) + 1}
      BY <1>3, <1>7, <2>1
    <3>2. Cardinality(FailedChecks(new)) = Cardinality(FailedChecks(job)) + 1
      BY <1>9, <3>1, FS_AddElement
    <3>3. QED BY <1>1, <1>6, <1>8, <1>9, <2>1, <3>2 DEF Explained
  <2>2. CASE ~(code # 0 /\ IsCheck(step))
    <3>1. FailedChecks(new) = FailedChecks(job)
      BY <1>3, <1>7, <2>2
    <3>2. QED BY <1>6, <1>8, <2>2, <3>1 DEF Explained
  <2>3. QED BY <2>1, <2>2
<1>11. QED BY <1>6, <1>10 DEF new, e

\* The k-th check runs after those before it, and once.
LEMMA CheckCloses ==
  ASSUME NEW job, Runs(job), Explained(job), NEW k \in 1 .. 4, Checked(job, k - 1),
         NEW code \in {0, 1}
  PROVE  LET new == Closed(job, Checks[k], code)
         IN  /\ Runs(new) /\ new.late = job.late /\ Extends(job.events, new.events)
             /\ Explained(new) /\ Checked(new, k)
<1> DEFINE new == Closed(job, Checks[k], code)
           e   == [type |-> "step.completed", name |-> Checks[k], code |-> code,
                   last |-> IsTerminal(job.status)]
           n   == Len(job.events) + 1
<1>1. /\ job \in JobRecords /\ ~IsTerminal(job.status)
      /\ job.events \in Seq(Events) /\ Len(job.events) \in Nat
      /\ DOMAIN job.events = 1 .. Len(job.events)
  <2>1. job \in JobRecords /\ ~IsTerminal(job.status)
    BY DEF Runs, IsTerminal
  <2>2. job.events \in Seq(Events)
    BY <2>1 DEF JobRecords
  <2>3. QED BY <2>1, <2>2
<1>2. Checks[k] \in Steps /\ IsCheck(Checks[k]) /\ Place(Checks[k]) = k
  BY TheChecks
<1>3. /\ new \in JobRecords /\ Adds(job, new, e) /\ Explained(new)
      /\ new.status = job.status /\ new.late = job.late
  BY <1>1, <1>2, CloseIsTold
<1>4. e.type = "step.completed" /\ e.name = Checks[k] /\ ~e.last
  BY <1>1
<1> HIDE DEF new, e
<1>5. Runs(new) /\ Extends(job.events, new.events)
  BY <1>3, <1>4, RunsOn, Appended
<1>6. /\ \A t : Has(new, t) <=> Has(job, t) \/ e.type = t
      /\ Review(new) = Review(job) \union
           (IF e.type = "step.completed" /\ IsCheck(e.name) THEN {Len(job.events) + 1} ELSE {})
      /\ \A i \in Review(job) : CheckAt(new, i) = CheckAt(job, i)
      /\ CheckAt(new, Len(job.events) + 1) = Place(e.name)
  BY <1>3, ToldMore
<1>7. /\ Has(new, "spec.detected") /\ Review(new) = Review(job) \union {n}
      /\ CheckAt(new, n) = k /\ \A i \in Review(job) : CheckAt(new, i) = CheckAt(job, i)
  BY <1>2, <1>4, <1>6 DEF Checked
<1>8. \A i \in Review(job) : i < n /\ i \in Nat
  BY <1>1 DEF Review
<1>9. {CheckAt(job, i) : i \in Review(job)} = 1 .. k - 1
  BY DEF Checked
<1>10. {CheckAt(new, i) : i \in Review(new)} = 1 .. k
  <2>1. {CheckAt(new, i) : i \in Review(new)} = {CheckAt(job, i) : i \in Review(job)} \union {k}
    BY <1>7
  <2>2. (1 .. k - 1) \union {k} = 1 .. k
    OBVIOUS
  <2>3. QED BY <1>9, <2>1, <2>2
<1>11. ASSUME NEW i \in Review(new), NEW l \in Review(new), i < l
       PROVE  CheckAt(new, i) < CheckAt(new, l)
  <2>1. CASE l = n
    <3>1. i \in Review(job)
      BY <1>1, <1>7, <1>11, <2>1
    <3>2. CheckAt(job, i) \in 1 .. k - 1
      BY <1>9, <3>1
    <3>3. QED BY <1>7, <2>1, <3>1, <3>2
  <2>2. CASE l \in Review(job)
    <3>1. i \in Review(job)
      BY <1>1, <1>7, <1>8, <1>11, <2>2
    <3>2. QED BY <1>7, <1>11, <2>2, <3>1 DEF Checked
  <2>3. QED BY <1>7, <2>1, <2>2
<1>12. Checked(new, k)
  BY <1>7, <1>10, <1>11 DEF Checked
<1>13. QED BY <1>3, <1>5, <1>12 DEF new

\* A status that is terminal, set while the runner waits for nothing.
LEMMA Ends ==
  ASSUME NEW job, Runs(job), job.waits = "nothing", job.child = None,
         NEW status \in {"completed", "completed_with_issues", "failed"}
  PROVE  LET new == SetStatus(job, status)
         IN  /\ new \in JobRecords /\ new.status = status
             /\ new.waits = "nothing" /\ new.child = None /\ new.late = job.late
             /\ new.issues = job.issues /\ Extends(job.events, new.events)
             /\ \E m \in DOMAIN new.events : EndsAt(new, m)
             /\ Explained(job) => Explained(new)
             /\ Checked(job, 4) => Checked(new, 4)
             /\ Has(new, "spec.missing") <=> Has(job, "spec.missing")
             /\ Has(new, "spec.detected") <=> Has(job, "spec.detected")
<1> DEFINE mid == [job EXCEPT !.status = status]
           new == AddEvent(mid, status)
           e   == [type |-> status, name |-> None, code |-> 0, last |-> IsTerminal(mid.status)]
           n   == Len(mid.events) + 1
<1>1. job \in JobRecords
  BY DEF Runs
<1>2. /\ mid \in JobRecords /\ mid.status = status /\ mid.events = job.events
      /\ mid.waits = "nothing" /\ mid.child = None /\ mid.late = job.late
      /\ mid.issues = job.issues
  BY <1>1 DEF JobRecords, Statuses
<1>3. SetStatus(job, status) = new
  BY DEF SetStatus
<1>4. status \in EventTypes
  BY DEF EventTypes, JobEvents
<1> HIDE DEF mid
<1>5. /\ new \in JobRecords /\ Adds(mid, new, e)
      /\ new.status = mid.status /\ new.issues = mid.issues
      /\ new.waits = mid.waits /\ new.child = mid.child /\ new.late = mid.late
  <2>1. mid \in JobRecords
    BY <1>2
  <2>2. None \in Steps \union {None} /\ 0 \in {0, 1}
    OBVIOUS
  <2>3. QED BY ONLY <1>4, <2>1, <2>2, AddsEvent DEF AddEvent
<1>6. e.type = status /\ e.last
  BY <1>2 DEF IsTerminal
<1> HIDE DEF new, e
<1>7. Adds(job, new, e)
  BY <1>2, <1>5 DEF Adds
<1>8. /\ Len(job.events) \in Nat /\ DOMAIN job.events = 1 .. Len(job.events)
      /\ DOMAIN new.events = (DOMAIN job.events) \union {n}
      /\ \A i \in DOMAIN job.events : new.events[i] = job.events[i]
      /\ new.events[n] = e /\ Extends(job.events, new.events)
  BY <1>2, <1>7, Appended
<1>9. EndsAt(new, n)
  <2>1. \A i \in DOMAIN new.events : new.events[i].last <=> i >= n
    <3>1. \A i \in DOMAIN job.events : ~job.events[i].last /\ ~(i >= n)
      BY <1>2, <1>8 DEF Runs
    <3>2. QED BY <1>2, <1>6, <1>8, <3>1
  <2>2. \A i \in DOMAIN new.events : ~(i > n)
    BY <1>2, <1>8
  <2>3. QED BY <1>2, <1>5, <1>6, <1>8, <2>1, <2>2 DEF EndsAt
<1>10. /\ \A t : Has(new, t) <=> Has(job, t) \/ e.type = t
       /\ Review(new) = Review(job) \union
            (IF e.type = "step.completed" /\ IsCheck(e.name) THEN {Len(job.events) + 1} ELSE {})
       /\ FailedChecks(new) = FailedChecks(job) \union
            (IF e.type = "step.completed" /\ IsCheck(e.name) /\ e.code # 0
             THEN {Len(job.events) + 1} ELSE {})
       /\ \A i \in Review(job) : CheckAt(new, i) = CheckAt(job, i)
  BY <1>7, ToldMore
<1>11. e.type \notin {"step.completed", SummaryLost, "spec.detected", "spec.missing"}
  BY <1>6 DEF SummaryLost
<1>12. /\ Review(new) = Review(job) /\ FailedChecks(new) = FailedChecks(job)
       /\ \A t \in {SummaryLost, "spec.detected", "spec.missing"} : Has(new, t) <=> Has(job, t)
  BY <1>10, <1>11
<1>13. Explained(job) => Explained(new)
  BY <1>2, <1>5, <1>12 DEF Explained
<1>14. Checked(job, 4) => Checked(new, 4)
  BY <1>10, <1>12 DEF Checked
<1>15. n \in DOMAIN new.events
  BY <1>8
<1>16. QED BY <1>2, <1>3, <1>5, <1>8, <1>9, <1>12, <1>13, <1>14, <1>15

\* A job that fails says so once.
LEMMA Fails ==
  ASSUME NEW job, Runs(job), Explained(job)
  PROVE  /\ Explained(Fail(job)) /\ HasEnded(Fail(job))
         /\ Extends(job.events, Fail(job).events)
<1> DEFINE mid  == WaitFor(job, "nothing")
           told == AddEvent(mid, "error")
           new  == SetStatus(told, "failed")
<1>1. Keeps(job, mid) /\ mid.waits = "nothing" /\ mid.child = None
  BY Waits
<1>2. Keeps(mid, told) /\ told.waits = "nothing" /\ told.child = None
  <2>1. Runs(mid)
    BY <1>1 DEF Keeps
  <2>2. Plain("error", None) /\ "error" \in EventTypes
    BY DEF Plain, EventTypes, JobEvents, SummaryLost
  <2> HIDE DEF mid
  <2>3. QED BY <1>1, <2>1, <2>2, PlainKeeps DEF AddEvent
<1>3. Fail(job) = new
  BY DEF Fail
<1> HIDE DEF mid, told
<1>4. Keeps(job, told)
  BY <1>1, <1>2, KeepsFurther
<1>5. Runs(told) /\ Explained(told)
  BY <1>4 DEF Keeps
<1>6. /\ new \in JobRecords /\ new.status = "failed"
      /\ new.waits = "nothing" /\ new.child = None
      /\ Extends(told.events, new.events)
      /\ \E m \in DOMAIN new.events : EndsAt(new, m)
      /\ Explained(new)
  BY <1>2, <1>5, Ends
<1> HIDE DEF new
<1>7. Extends(job.events, new.events)
  <2>1. /\ job.events \in Seq(Events) /\ told.events \in Seq(Events)
        /\ new.events \in Seq(Events)
    BY <1>5, <1>6 DEF Runs, JobRecords
  <2>2. QED BY <1>4, <1>6, <2>1, ExtendsFurther DEF Keeps
<1>8. HasEnded(new)
  BY <1>6 DEF HasEnded, IsTerminal
<1>9. QED BY <1>3, <1>6, <1>7, <1>8

\* A job that completed can show for it what Outcome says.
LEMMA Finishes ==
  ASSUME NEW job, Runs(job), Explained(job), job.late = {},
         Checked(job, 4) \/ (Has(job, "spec.missing") /\ ~Has(job, "spec.detected"))
  PROVE  /\ Explained(Finish(job)) /\ HasEnded(Finish(job))
         /\ Extends(job.events, Finish(job).events)
<1> DEFINE mid    == WaitFor(job, "nothing")
           status == IF job.issues > 0 THEN "completed_with_issues" ELSE "completed"
           new    == SetStatus(mid, status)
<1>1. /\ Keeps(job, mid) /\ mid.waits = "nothing" /\ mid.child = None
  BY Waits
<1>2. mid.events = job.events /\ mid.issues = job.issues /\ job.issues \in Nat
  BY DEF WaitFor, Runs, JobRecords
<1>3. Finish(job) = new
  BY DEF Finish
<1> HIDE DEF mid
<1>4. Runs(mid) /\ Explained(mid) /\ mid.late = {}
  BY <1>1 DEF Keeps
<1>5. Checked(mid, 4) \/ (Has(mid, "spec.missing") /\ ~Has(mid, "spec.detected"))
  <2>1. Checked(job, 4) => Checked(mid, 4)
    BY <1>1 DEF Keeps
  <2>2. \A t : Has(mid, t) <=> Has(job, t)
    BY <1>2 DEF Has
  <2>3. QED BY <2>1, <2>2
<1>6. status \in {"completed", "completed_with_issues", "failed"}
  OBVIOUS
<1>7. (status = "completed") <=> (mid.issues = 0)
  BY <1>2
<1>8. status # "failed"
  OBVIOUS
<1> HIDE DEF status
<1>9. /\ new \in JobRecords /\ new.status = status
      /\ new.waits = "nothing" /\ new.child = None /\ new.late = mid.late
      /\ new.issues = mid.issues /\ Extends(mid.events, new.events)
      /\ \E m \in DOMAIN new.events : EndsAt(new, m)
      /\ Explained(mid) => Explained(new)
      /\ Checked(mid, 4) => Checked(new, 4)
      /\ Has(new, "spec.missing") <=> Has(mid, "spec.missing")
      /\ Has(new, "spec.detected") <=> Has(mid, "spec.detected")
  BY <1>1, <1>4, <1>6, Ends
<1> HIDE DEF new
<1>10. Outcome(new)
  BY <1>5, <1>7, <1>9 DEF Outcome
<1>11. HasEnded(new)
  BY <1>4, <1>6, <1>9, <1>10 DEF HasEnded, IsTerminal
<1>12. QED BY <1>2, <1>3, <1>4, <1>9, <1>11

-----------------------------------------------------------------------------
(* Where a step may leave a job.                                            *)

Stepped(job, new) == JobInv(new) /\ Extends(job.events, new.events)

\* On its way there the job is at `mid`.
Reached(job, mid) ==
  /\ Runs(mid) /\ Explained(mid) /\ mid.late = {}
  /\ job.events \in Seq(Events) /\ Extends(job.events, mid.events)

\* An update that keeps what was told leads further.
LEMMA ReachesOn ==
  ASSUME NEW job, NEW mid, NEW new, Reached(job, mid), Keeps(mid, new)
  PROVE  Reached(job, new)
<1>1. mid.events \in Seq(Events) /\ new.events \in Seq(Events)
  BY DEF Reached, Keeps, Runs, JobRecords
<1>2. Extends(job.events, new.events)
  BY <1>1, ExtendsFurther DEF Reached, Keeps
<1>3. QED BY <1>2 DEF Reached, Keeps

\* Plain events on the way.
LEMMA ReachesPlain ==
  ASSUME NEW job, NEW mid, Reached(job, mid), NEW type \in EventTypes, Plain(type, None)
  PROVE  Keeps(mid, AddEvent(mid, type)) /\ Reached(job, AddEvent(mid, type))
<1>1. Runs(mid)
  BY DEF Reached
<1>2. Keeps(mid, AddEvent(mid, type))
  BY <1>1, PlainKeeps DEF AddEvent
<1>3. QED BY <1>2, ReachesOn

\* Before the specification is looked for.
LEMMA GoesOnEarly ==
  ASSUME NEW job, NEW mid, Reached(job, mid), Undetected(mid)
  PROVE  /\ \A what \in EarlyWaits : Stepped(job, WaitFor(mid, what))
         /\ \A step \in EarlySteps : Stepped(job, RunStep(mid, step))
<1>1. ASSUME NEW what \in EarlyWaits PROVE Stepped(job, WaitFor(mid, what))
  <2> DEFINE new == WaitFor(mid, what)
  <2>1. Keeps(mid, new) /\ new.waits = what /\ new.child = None
    BY Waits DEF Reached
  <2> HIDE DEF new
  <2>2. Reached(job, new) /\ Undetected(new)
    BY <2>1, ReachesOn DEF Keeps
  <2>3. QED BY <2>1, <2>2 DEF Stepped, JobInv, Stage, Reached, new
<1>2. ASSUME NEW step \in EarlySteps PROVE Stepped(job, RunStep(mid, step))
  <2> DEFINE new == RunStep(mid, step)
  <2>1. Keeps(mid, new) /\ new.waits = "command" /\ new.child = step
    BY Begins, TheChecks DEF Reached
  <2> HIDE DEF new
  <2>2. Reached(job, new) /\ Undetected(new)
    BY <2>1, ReachesOn DEF Keeps
  <2>3. QED BY <2>1, <2>2 DEF Stepped, JobInv, Stage, Reached, new
<1>3. QED BY <1>1, <1>2

\* While the hashes are fixed and the documentation is written.
LEMMA GoesOnDocs ==
  ASSUME NEW job, NEW mid, Reached(job, mid), Checked(mid, 0), ~Has(mid, SummaryLost)
  PROVE  /\ \A what \in {"docs", "local query"} : Stepped(job, WaitFor(mid, what))
         /\ \A step \in DocsSteps : Stepped(job, RunStep(mid, step))
<1>0. 0 \in 0 .. 4
  OBVIOUS
<1>1. ASSUME NEW what \in {"docs", "local query"} PROVE Stepped(job, WaitFor(mid, what))
  <2> DEFINE new == WaitFor(mid, what)
  <2>1. Keeps(mid, new) /\ new.waits = what /\ new.child = None
    BY Waits DEF Reached
  <2> HIDE DEF new
  <2>2. Reached(job, new) /\ Checked(new, 0) /\ ~Has(new, SummaryLost)
    <3>1. Checked(mid, 0) => Checked(new, 0)
      BY <1>0, <2>1 DEF Keeps
    <3>2. QED BY <2>1, <3>1, ReachesOn DEF Keeps
  <2>3. QED BY <2>1, <2>2 DEF Stepped, JobInv, Stage, Reached, new
<1>2. ASSUME NEW step \in DocsSteps PROVE Stepped(job, RunStep(mid, step))
  <2> DEFINE new == RunStep(mid, step)
  <2>1. Keeps(mid, new) /\ new.waits = "command" /\ new.child = step
    BY Begins, TheChecks DEF Reached
  <2> HIDE DEF new
  <2>2. Reached(job, new) /\ Checked(new, 0) /\ ~Has(new, SummaryLost)
    <3>1. Checked(mid, 0) => Checked(new, 0)
      BY <1>0, <2>1 DEF Keeps
    <3>2. QED BY <2>1, <3>1, ReachesOn DEF Keeps
  <2>3. QED BY <2>1, <2>2 DEF Stepped, JobInv, Stage, Reached, new
<1>3. QED BY <1>1, <1>2

\* At a check.
LEMMA GoesOnCheck ==
  ASSUME NEW job, NEW mid, Reached(job, mid), NEW k \in 1 .. 4, Checked(mid, k - 1)
  PROVE  Stepped(job, RunStep(mid, Checks[k]))
<1> DEFINE new == RunStep(mid, Checks[k])
<1>1. Keeps(mid, new) /\ new.waits = "command" /\ new.child = Checks[k]
  BY Begins, TheChecks DEF Reached
<1> HIDE DEF new
<1>2. Reached(job, new)
  BY <1>1, ReachesOn
<1>3. k - 1 \in 0 .. 4
  OBVIOUS
<1>4. Checked(new, k - 1)
  BY <1>1, <1>3 DEF Keeps
<1>5. QED BY <1>1, <1>2, <1>4 DEF Stepped, JobInv, Stage, Reached, new

\* The runner ends a job from where it is.
LEMMA GoesToEnd ==
  ASSUME NEW job, NEW mid, Reached(job, mid)
  PROVE  /\ Stepped(job, Fail(mid))
         /\ Checked(mid, 4) \/ (Has(mid, "spec.missing") /\ ~Has(mid, "spec.detected")) =>
              Stepped(job, Finish(mid))
<1>1. Runs(mid) /\ Explained(mid) /\ mid.late = {} /\ mid.events \in Seq(Events)
  BY DEF Reached, Runs, JobRecords
<1>2. ASSUME NEW new, Explained(new), HasEnded(new), Extends(mid.events, new.events)
      PROVE  Stepped(job, new)
  <2>1. new.events \in Seq(Events)
    BY <1>2 DEF HasEnded, JobRecords
  <2>2. Extends(job.events, new.events)
    BY <1>1, <1>2, <2>1, ExtendsFurther DEF Reached
  <2>3. QED BY <1>2, <2>2 DEF Stepped, JobInv
<1>3. Stepped(job, Fail(mid))
  BY <1>1, <1>2, Fails
<1>4. CASE Checked(mid, 4) \/ (Has(mid, "spec.missing") /\ ~Has(mid, "spec.detected"))
  BY <1>1, <1>2, <1>3, <1>4, Finishes
<1>5. QED BY <1>3, <1>4

\* A job that has not ended is at the start of its own step.
LEMMA ReachedAtOnce ==
  ASSUME NEW job, JobInv(job), ~IsTerminal(job.status)
  PROVE  Reached(job, job) /\ Stage(job)
<1>1. Runs(job) /\ job.late = {} /\ Stage(job) /\ Explained(job)
  BY DEF JobInv, HasEnded
<1>2. job.events \in Seq(Events)
  BY <1>1 DEF Runs, JobRecords
<1>3. Extends(job.events, job.events)
  BY <1>2 DEF Extends
<1>4. QED BY <1>1, <1>2, <1>3 DEF Reached

-----------------------------------------------------------------------------
(* The runner's steps.                                                      *)

\* What a waiting job knows is told by what it waits for.
LEMMA WaitingKnows ==
  ASSUME NEW job, Stage(job)
  PROVE  /\ job.waits \in EarlyWaits => Undetected(job) /\ job.child = None
         /\ job.waits \in {"docs", "local query"} =>
              Checked(job, 0) /\ ~Has(job, SummaryLost) /\ job.child = None
         /\ job.waits = "command" => job.child \in Steps
         /\ job.waits # "command" => job.child = None
         /\ job.waits # "nothing"
         /\ job.child \in EarlySteps => Undetected(job)
         /\ job.child \in DocsSteps => Checked(job, 0) /\ ~Has(job, SummaryLost)
         /\ \A k \in 1 .. 4 : job.child = Checks[k] => Checked(job, k - 1)
<1>1. /\ \A k \in 1 .. 4 : Checks[k] \in Steps /\ IsCheck(Checks[k]) /\ Place(Checks[k]) = k
      /\ \A step \in EarlySteps \union DocsSteps : step \in Steps /\ ~IsCheck(step)
  BY TheChecks
<1>2. EarlySteps \intersect DocsSteps = {} /\ None \notin Steps
  BY NoneIsApart DEF EarlySteps, DocsSteps
<1>3. CASE job.waits \in EarlyWaits /\ job.child = None /\ Undetected(job)
  BY <1>1, <1>2, <1>3 DEF EarlyWaits
<1>4. CASE job.waits = "command" /\ job.child \in EarlySteps /\ Undetected(job)
  BY <1>1, <1>2, <1>4 DEF EarlyWaits
<1>5. CASE /\ job.waits \in {"docs", "local query"} /\ job.child = None
           /\ Checked(job, 0) /\ ~Has(job, SummaryLost)
  BY <1>1, <1>2, <1>5 DEF EarlyWaits
<1>6. CASE /\ job.waits = "command" /\ job.child \in DocsSteps
           /\ Checked(job, 0) /\ ~Has(job, SummaryLost)
  BY <1>1, <1>2, <1>6 DEF EarlyWaits
<1>7. CASE /\ job.waits = "command"
           /\ \E k \in 1 .. 4 : job.child = Checks[k] /\ Checked(job, k - 1)
  <2>1. PICK l \in 1 .. 4 : job.child = Checks[l] /\ Checked(job, l - 1)
    BY <1>7
  <2>2. \A k \in 1 .. 4 : job.child = Checks[k] => k = l
    BY <1>1, <2>1
  <2>3. job.child \in Steps /\ job.child \notin EarlySteps /\ job.child \notin DocsSteps
    BY <1>1, <2>1
  <2>4. QED BY <1>7, <2>1, <2>2, <2>3 DEF EarlyWaits
<1>8. QED BY <1>3, <1>4, <1>5, <1>6, <1>7 DEF Stage

\* synchronise, from a state of the job before the specification is looked for.
LEMMA SynchroniseSteps ==
  ASSUME NEW job, NEW mid, Reached(job, mid), Undetected(mid)
  PROVE  Stepped(job, Synchronise(mid))
<1> DEFINE told == AddEvent(mid, "core.capability.missing")
<1>1. Reached(job, told) /\ Undetected(told)
  <2>1. Keeps(mid, told) /\ Reached(job, told)
    BY ReachesPlain DEF Plain, EventTypes, SummaryLost
  <2>2. QED BY <2>1 DEF Keeps
<1> HIDE DEF told
<1>2. /\ Stepped(job, WaitFor(mid, "result")) /\ Stepped(job, RunStep(mid, "clayers.sync"))
      /\ Stepped(job, WaitFor(told, "generator"))
  BY <1>1, GoesOnEarly DEF EarlyWaits, EarlySteps
<1>3. QED BY <1>2 DEF Synchronise, told

\* What the runner waited for is there.
LEMMA ResumeSteps ==
  ASSUME NEW job, JobInv(job), ~IsTerminal(job.status), NEW new \in Resumed(job)
  PROVE  Stepped(job, new)
<1>1. Reached(job, job) /\ Stage(job)
  BY ReachedAtOnce
<1>2. 0 \in 0 .. 4
  OBVIOUS
<1>p. ASSUME NEW mid, Reached(job, mid),
             NEW type \in {"repo.local", "core.bootstrap", "core.capabilities", "clayers.adopt.skipped",
                           "clayers.generate.local", "clayers.docs.generated", "clayers.docs.fallback",
                           "clayers.query-summary.fallback"}
      PROVE  Keeps(mid, AddEvent(mid, type)) /\ Reached(job, AddEvent(mid, type))
  <2>1. type \in EventTypes /\ Plain(type, None)
    BY DEF Plain, EventTypes, SummaryLost
  <2>2. QED BY <1>p, <2>1, ReachesPlain
<1>e. Stepped(job, Fail(job))
  BY <1>1, GoesToEnd
<1>3. CASE job.waits = "repository"
  <2> DEFINE told == AddEvent(job, "repo.local")
  <2>1. Undetected(job)
    BY <1>1, <1>3, WaitingKnows DEF EarlyWaits
  <2>2. Reached(job, told) /\ Undetected(told)
    <3>1. Keeps(job, told) /\ Reached(job, told)
      BY <1>1, <1>p
    <3>2. QED BY <2>1, <3>1 DEF Keeps
  <2> HIDE DEF told
  <2>3. Stepped(job, WaitFor(told, "binary")) /\ Stepped(job, RunStep(job, "git.clone"))
    BY <1>1, <2>1, <2>2, GoesOnEarly DEF EarlyWaits, EarlySteps
  <2>4. new \in PrepareRepository(job)
    BY <1>3 DEF Resumed
  <2>5. QED BY <1>e, <2>3, <2>4 DEF PrepareRepository, told
<1>4. CASE job.waits = "binary"
  <2> DEFINE found  == ResolveClayersBin(job)
             set(s) == [found EXCEPT !.sync = s]
             told(s) == AddEvent(set(s), "core.capabilities")
  <2>1. Undetected(job)
    BY <1>1, <1>4, WaitingKnows DEF EarlyWaits
  <2>2. Reached(job, found) /\ Undetected(found)
    <3>1. CASE Bootstraps
      <4>1. found = AddEvent(job, "core.bootstrap")
        BY <3>1 DEF ResolveClayersBin
      <4>2. Keeps(job, AddEvent(job, "core.bootstrap")) /\ Reached(job, AddEvent(job, "core.bootstrap"))
        BY <1>1, <1>p
      <4>3. QED BY <2>1, <4>1, <4>2 DEF Keeps
    <3>2. CASE ~Bootstraps
      BY <1>1, <2>1, <3>2 DEF ResolveClayersBin
    <3>3. QED BY <3>1, <3>2
  <2> HIDE DEF found
  <2>3. ASSUME NEW s \in BOOLEAN PROVE Stepped(job, WaitFor(told(s), "specification"))
    <3>1. found \in JobRecords /\ Runs(found)
      BY <2>2 DEF Reached, Runs
    <3>2. /\ set(s) \in JobRecords /\ set(s).events = found.events
          /\ set(s).status = found.status /\ set(s).late = found.late
          /\ set(s).issues = found.issues
      BY <3>1 DEF JobRecords
    <3> HIDE DEF set
    <3>3. Keeps(found, set(s))
      BY <3>1, <3>2, SameEventsKeep
    <3>4. Reached(job, set(s))
      BY <2>2, <3>3, ReachesOn
    <3>5. Keeps(set(s), told(s)) /\ Reached(job, told(s))
      BY <3>4, <1>p
    <3>6. Undetected(told(s))
      BY <2>2, <3>3, <3>5 DEF Keeps
    <3> HIDE DEF told
    <3>7. QED BY <3>5, <3>6, GoesOnEarly DEF EarlyWaits
  <2>4. Stepped(job, Fail(found))
    BY <2>2, GoesToEnd
  <2>5. new \in DetectCapabilities(job)
    BY <1>4 DEF Resumed
  <2>6. new = Fail(found) \/ \E s \in BOOLEAN : new = WaitFor(told(s), "specification")
    BY <2>5 DEF DetectCapabilities, found
  <2> HIDE DEF told
  <2>7. QED BY <2>3, <2>4, <2>6
<1>5. CASE job.waits = "specification"
  <2> DEFINE told == AddEvent(job, "clayers.adopt.skipped")
  <2>1. Undetected(job)
    BY <1>1, <1>5, WaitingKnows DEF EarlyWaits
  <2>2. Reached(job, told) /\ Undetected(told)
    <3>1. Keeps(job, told) /\ Reached(job, told)
      BY <1>1, <1>p
    <3>2. QED BY <2>1, <3>1 DEF Keeps
  <2> HIDE DEF told
  <2>3. Stepped(job, WaitFor(job, "result")) /\ Stepped(job, RunStep(job, "clayers.adopt"))
    BY <1>1, <2>1, GoesOnEarly DEF EarlyWaits, EarlySteps
  <2>4. Stepped(job, Synchronise(told))
    BY <2>2, SynchroniseSteps
  <2>5. new \in Adopt(job)
    BY <1>5 DEF Resumed
  <2>6. QED BY <2>3, <2>4, <2>5 DEF Adopt, told
<1>6. CASE job.waits = "generator"
  <2> DEFINE told == AddEvent(job, "clayers.generate.local")
  <2>1. Undetected(job)
    BY <1>1, <1>6, WaitingKnows DEF EarlyWaits
  <2>2. Reached(job, told) /\ Undetected(told)
    <3>1. Keeps(job, told) /\ Reached(job, told)
      BY <1>1, <1>p
    <3>2. QED BY <2>1, <3>1 DEF Keeps
  <2> HIDE DEF told
  <2>3. Stepped(job, WaitFor(told, "result"))
    BY <2>2, GoesOnEarly DEF EarlyWaits
  <2>4. new \in Generate(job)
    BY <1>6 DEF Resumed
  <2>5. QED BY <1>e, <2>3, <2>4 DEF Generate, told
<1>7. CASE job.waits = "result"
  <2> DEFINE missed == AddEvent(job, "spec.missing")
             found  == AddEvent(job, "spec.detected")
             step   == IF job.mode = "sync" THEN "clayers.fix-node-hash" ELSE Checks[1]
  <2>1. Undetected(job) /\ Runs(job) /\ Explained(job)
    BY <1>1, <1>7, WaitingKnows DEF EarlyWaits, Reached
  <2>2. Reached(job, missed) /\ Has(missed, "spec.missing") /\ ~Has(missed, "spec.detected")
    BY <1>1, <2>1, SpecMissing DEF Reached
  <2>3. Reached(job, found) /\ Checked(found, 0) /\ ~Has(found, SummaryLost)
    BY <1>1, <2>1, SpecFound DEF Reached
  <2> HIDE DEF missed, found
  <2>4. Stepped(job, Finish(missed))
    BY <2>2, GoesToEnd
  <2>5. Stepped(job, RunStep(found, "clayers.fix-node-hash"))
    BY <2>3, GoesOnDocs DEF DocsSteps
  <2>6. Stepped(job, RunStep(found, Checks[1]))
    <3>1. 1 \in 1 .. 4 /\ 1 - 1 = 0
      OBVIOUS
    <3>2. QED BY <2>3, <3>1, GoesOnCheck
  <2>7. new \in DetectSpec(job)
    BY <1>7 DEF Resumed
  <2>8. new = Finish(missed) \/ new = RunStep(found, step)
    BY <2>7 DEF DetectSpec, missed, found
  <2>9. QED BY <2>4, <2>5, <2>6, <2>8
<1>8. CASE job.waits = "docs"
  <2> DEFINE other == AddEvent(job, "clayers.docs.fallback")
             told(r) == AddEvent(r, "clayers.docs.generated")
  <2>1. Checked(job, 0) /\ ~Has(job, SummaryLost)
    BY <1>1, <1>8, WaitingKnows
  <2>2. Reached(job, other) /\ Checked(other, 0) /\ ~Has(other, SummaryLost)
    <3>1. Keeps(job, other) /\ Reached(job, other)
      BY <1>1, <1>p
    <3>2. QED BY <2>1, <3>1, <1>2 DEF Keeps
  <2> HIDE DEF other
  <2>3. ASSUME NEW r \in {job, other} PROVE Stepped(job, RunStep(told(r), "clayers.query-summary"))
    <3>1. Reached(job, r) /\ Checked(r, 0) /\ ~Has(r, SummaryLost)
      BY <1>1, <2>1, <2>2
    <3>2. Keeps(r, told(r)) /\ Reached(job, told(r))
      BY <3>1, <1>p
    <3> HIDE DEF told
    <3>3. Checked(told(r), 0) /\ ~Has(told(r), SummaryLost)
      BY <3>1, <3>2, <1>2 DEF Keeps
    <3>4. QED BY <3>2, <3>3, GoesOnDocs DEF DocsSteps
  <2>4. new \in GenerateDocs(job)
    BY <1>8 DEF Resumed
  <2>5. new = Fail(job) \/ \E r \in {job, other} : new = RunStep(told(r), "clayers.query-summary")
    BY <2>4 DEF GenerateDocs, other
  <2> HIDE DEF told
  <2>6. QED BY <1>e, <2>3, <2>5
<1>9. CASE job.waits = "local query"
  <2> DEFINE told == AddEvent(job, "clayers.query-summary.fallback")
             lost == MarkIssue(AddEvent(job, "clayers.query-summary.fallback_failed"))
  <2>1. Checked(job, 0) /\ ~Has(job, SummaryLost) /\ Runs(job) /\ Explained(job)
    BY <1>1, <1>9, WaitingKnows DEF Reached
  <2>2. Reached(job, told) /\ Checked(told, 0)
    <3>1. Keeps(job, told) /\ Reached(job, told)
      BY <1>1, <1>p
    <3>2. QED BY <2>1, <3>1, <1>2 DEF Keeps
  <2>3. Reached(job, lost) /\ Checked(lost, 0)
    <3>1. lost = MarkIssue(AddEvent(job, SummaryLost))
      BY DEF SummaryLost
    <3>2. QED BY <1>1, <2>1, <3>1, SummaryIsLost DEF Reached
  <2> HIDE DEF told, lost
  <2>4. 1 \in 1 .. 4 /\ 1 - 1 = 0
    OBVIOUS
  <2>5. Stepped(job, RunStep(told, Checks[1])) /\ Stepped(job, RunStep(lost, Checks[1]))
    BY <2>2, <2>3, <2>4, GoesOnCheck
  <2>6. new \in SummariseLocally(job)
    BY <1>9 DEF Resumed
  <2>7. QED BY <2>5, <2>6 DEF SummariseLocally, told, lost
<1>10. QED BY <1>3, <1>4, <1>5, <1>6, <1>7, <1>8, <1>9 DEF Resumed

\* The command a job waits for ends.
LEMMA ExitSteps ==
  ASSUME NEW job, JobInv(job), job.child # None, NEW code \in {0, 1}
  PROVE  ~IsTerminal(job.status) /\ Stepped(job, StepEnded(job, job.child, code))
<1> DEFINE step   == job.child
           closed == Closed(job, step, code)
<1>1. ~IsTerminal(job.status) /\ Reached(job, job) /\ Stage(job)
  <2>1. ~HasEnded(job)
    BY DEF HasEnded
  <2>2. ~IsTerminal(job.status)
    BY <2>1 DEF JobInv, Runs, IsTerminal
  <2>3. QED BY <2>2, ReachedAtOnce
<1>2. step \in Steps
  BY <1>1, WaitingKnows
<1>3. Runs(job) /\ Explained(job) /\ job.late = {} /\ job.events \in Seq(Events)
  BY <1>1 DEF Reached
<1>4. CASE IsCheck(step)
  <2>1. PICK k \in 1 .. 4 : step = Checks[k]
    BY <1>2, <1>4, TheChecks
  <2>2. Checked(job, k - 1)
    BY <1>1, <2>1, WaitingKnows
  <2>3. /\ Runs(closed) /\ closed.late = job.late /\ Extends(job.events, closed.events)
        /\ Explained(closed) /\ Checked(closed, k)
    BY <1>3, <2>1, <2>2, CheckCloses
  <2> HIDE DEF closed
  <2>4. Reached(job, closed)
    BY <1>3, <2>3 DEF Reached
  <2>5. CASE k < 4
    <3>1. k + 1 \in 1 .. 4 /\ (k + 1) - 1 = k
      BY <2>5
    <3>2. PICK l \in 1 .. 4 : l = k + 1
      BY <3>1
    <3>3. Stepped(job, RunStep(closed, Checks[l]))
      BY <2>3, <2>4, <3>1, <3>2, GoesOnCheck
    <3>4. AfterStep(closed, step, code) = RunStep(closed, Checks[l])
      <4>1. Len(Checks) = 4 /\ Place(step) = k /\ step \notin EarlySteps \union DocsSteps
        BY <1>4, <2>1, TheChecks
      <4> HIDE DEF step
      <4>2. QED BY <1>4, <2>5, <3>2, <4>1 DEF AfterStep, EarlySteps, DocsSteps
    <3>5. QED BY <1>1, <1>4, <3>3, <3>4 DEF StepEnded, MayFail, closed
  <2>6. CASE k = 4
    <3>1. Stepped(job, Finish(closed))
      BY <2>3, <2>4, <2>6, GoesToEnd
    <3>2. AfterStep(closed, step, code) = Finish(closed)
      <4>1. Len(Checks) = 4 /\ Place(step) = 4 /\ step \notin EarlySteps \union DocsSteps
        BY <1>4, <2>1, <2>6, TheChecks
      <4> HIDE DEF step
      <4>2. QED BY <1>4, <4>1 DEF AfterStep, EarlySteps, DocsSteps
    <3>3. QED BY <1>1, <1>4, <3>1, <3>2 DEF StepEnded, MayFail, closed
  <2>7. QED BY <2>5, <2>6
<1>5. CASE ~IsCheck(step)
  <2>1. Keeps(job, closed)
    <3>1. closed = AddStepEvent(job, "step.completed", step, code)
      BY <1>5 DEF Closed
    <3>2. "step.completed" \in EventTypes /\ Plain("step.completed", step)
      BY <1>5 DEF EventTypes, Plain, SummaryLost
    <3> HIDE DEF closed
    <3>3. QED BY <1>2, <1>3, <3>1, <3>2, PlainKeeps
  <2> HIDE DEF closed
  <2>2. Reached(job, closed)
    BY <1>1, <2>1, ReachesOn
  <2>3. Stepped(job, Fail(closed))
    BY <2>2, GoesToEnd
  <2>4. step \in EarlySteps \union DocsSteps
    <3>1. step \notin {Checks[k] : k \in 1 .. 4}
      BY <1>5, TheChecks
    <3>2. \A s \in Steps : s \in EarlySteps \union DocsSteps \/ s \in {Checks[k] : k \in 1 .. 4}
      <4>1. /\ Checks[1] = "clayers.validate" /\ Checks[2] = "clayers.drift"
            /\ Checks[3] = "clayers.coverage" /\ Checks[4] = "clayers.connectivity"
        BY DEF Checks
      <4>2. QED BY <4>1 DEF Steps, EarlySteps, DocsSteps
    <3>3. QED BY <1>2, <3>1, <3>2
  <2>5. CASE step \in EarlySteps
    <3>1. Undetected(closed)
      BY <1>1, <2>1, <2>5, WaitingKnows DEF Keeps
    <3> DEFINE told == AddEvent(closed, "repo.cloned")
    <3>2. Reached(job, told) /\ Undetected(told)
      <4>1. Keeps(closed, told) /\ Reached(job, told)
        BY <2>2, ReachesPlain DEF Plain, EventTypes, SummaryLost
      <4>2. QED BY <3>1, <4>1 DEF Keeps
    <3> HIDE DEF told
    <3>3. /\ Stepped(job, WaitFor(told, "binary")) /\ Stepped(job, WaitFor(closed, "result"))
          /\ Stepped(job, Synchronise(closed))
      BY <2>2, <3>1, <3>2, GoesOnEarly, SynchroniseSteps DEF EarlyWaits
    <3>4. AfterStep(closed, step, code)
            \in {WaitFor(told, "binary"), WaitFor(closed, "result"), Synchronise(closed)}
      <4>1. step \in {"git.clone", "clayers.adopt", "clayers.sync"}
        BY <2>5 DEF EarlySteps
      <4>2. CASE step = "git.clone"
        BY <1>5, <4>2 DEF AfterStep, told
      <4>3. CASE step = "clayers.adopt"
        BY <1>5, <4>3 DEF AfterStep
      <4>4. CASE step = "clayers.sync"
        BY <1>5, <4>4 DEF AfterStep
      <4>5. QED BY <4>1, <4>2, <4>3, <4>4
    <3>5. StepEnded(job, step, code) \in {AfterStep(closed, step, code), Fail(closed)}
      BY DEF StepEnded, closed
    <3>6. QED BY <1>1, <2>3, <3>3, <3>4, <3>5
  <2>6. CASE step \in DocsSteps
    <3>0. 0 \in 0 .. 4 /\ 1 \in 1 .. 4 /\ 1 - 1 = 0
      OBVIOUS
    <3>1. Checked(closed, 0) /\ ~Has(closed, SummaryLost)
      <4>1. Checked(job, 0) /\ ~Has(job, SummaryLost)
        BY <1>1, <2>6, WaitingKnows
      <4>2. QED BY <2>1, <3>0, <4>1 DEF Keeps
    <3>2. /\ \A what \in {"docs", "local query"} : Stepped(job, WaitFor(closed, what))
          /\ \A s \in DocsSteps : Stepped(job, RunStep(closed, s))
          /\ Stepped(job, RunStep(closed, Checks[1]))
      <4>1. Stepped(job, RunStep(closed, Checks[1]))
        BY <2>2, <3>0, <3>1, GoesOnCheck
      <4>2. QED BY <2>2, <3>1, <4>1, GoesOnDocs
    <3>3. \/ \E what \in {"docs", "local query"} : AfterStep(closed, step, code) = WaitFor(closed, what)
          \/ \E s \in DocsSteps : AfterStep(closed, step, code) = RunStep(closed, s)
          \/ AfterStep(closed, step, code) = RunStep(closed, Checks[1])
      <4>1. step \in {"clayers.fix-node-hash", "clayers.fix-artifact-hash", "clayers.docs",
                      "clayers.query-summary"}
        BY <2>6 DEF DocsSteps
      <4>2. CASE step = "clayers.fix-node-hash"
        <5>1. AfterStep(closed, step, code) = RunStep(closed, "clayers.fix-artifact-hash")
          BY <1>5, <4>2 DEF AfterStep
        <5>2. QED BY <5>1 DEF DocsSteps
      <4>3. CASE step = "clayers.fix-artifact-hash"
        <5>1. AfterStep(closed, step, code) = RunStep(closed, "clayers.docs")
          BY <1>5, <4>3 DEF AfterStep
        <5>2. QED BY <5>1 DEF DocsSteps
      <4>4. CASE step = "clayers.docs"
        BY <1>5, <4>4 DEF AfterStep
      <4>5. CASE step = "clayers.query-summary"
        <5>1. AfterStep(closed, step, code) = IF code = 0 THEN RunStep(closed, Checks[1])
                                              ELSE WaitFor(closed, "local query")
          BY <1>5, <4>5 DEF AfterStep
        <5>2. QED BY <5>1
      <4>6. QED BY <4>1, <4>2, <4>3, <4>4, <4>5
    <3>4. Stepped(job, AfterStep(closed, step, code))
      BY <3>2, <3>3
    <3>5. StepEnded(job, step, code) \in {AfterStep(closed, step, code), Fail(closed)}
      BY DEF StepEnded, closed
    <3>6. QED BY <1>1, <2>3, <3>4, <3>5
  <2>7. QED BY <2>4, <2>5, <2>6
<1>6. QED BY <1>4, <1>5

\* The command cannot be started.
LEMMA StartFailsSteps ==
  ASSUME NEW job, JobInv(job), job.child # None, job.extras < MaxExtras,
         NEW new, new = Fail(More([AddStepEvent(job, "step.error", job.child, 0)
                                     EXCEPT !.late = @ \cup {job.child}]))
  PROVE  ~IsTerminal(job.status) /\ Stepped(job, new)
<1> DEFINE step == job.child
           told == AddStepEvent(job, "step.error", step, 0)
           left == [told EXCEPT !.late = @ \cup {step}]
           more == [left EXCEPT !.extras = @ + 1]
<1>1. ~IsTerminal(job.status) /\ Reached(job, job) /\ Stage(job)
  <2>1. ~HasEnded(job)
    BY DEF HasEnded
  <2>2. ~IsTerminal(job.status)
    BY <2>1 DEF JobInv, Runs, IsTerminal
  <2>3. QED BY <2>2, ReachedAtOnce
<1>2. step \in Steps
  BY <1>1, WaitingKnows
<1>3. Runs(job) /\ Explained(job) /\ job.events \in Seq(Events)
  BY <1>1 DEF Reached
<1>4. Keeps(job, told) /\ told.extras = job.extras
  <2>1. "step.error" \in EventTypes /\ Plain("step.error", step)
    BY DEF EventTypes, Plain, SummaryLost
  <2>2. Keeps(job, told)
    BY <1>2, <1>3, <2>1, PlainKeeps
  <2>3. told.extras = job.extras
    BY <1>3 DEF AddStepEvent, Runs, JobRecords
  <2>4. QED BY <2>2, <2>3
<1>5. Runs(told) /\ Explained(told) /\ told \in JobRecords /\ Extends(job.events, told.events)
  BY <1>3, <1>4 DEF Keeps, Runs
<1>6. new = Fail(more)
  BY DEF More
<1> HIDE DEF told
<1>7. /\ left \in JobRecords /\ left.events = told.events /\ left.status = told.status
      /\ left.issues = told.issues /\ left.extras = told.extras
  BY <1>2, <1>5 DEF JobRecords
<1> HIDE DEF left
<1>8. /\ more \in JobRecords /\ more.events = told.events /\ more.status = told.status
      /\ more.issues = told.issues
  <2>1. left.extras \in 0 .. MaxExtras /\ left.extras < MaxExtras
    BY <1>4, <1>7 DEF JobRecords
  <2>2. left.extras + 1 \in 0 .. MaxExtras
    BY <2>1, MaxExtrasIsNatural
  <2>3. QED BY <1>7, <2>2 DEF JobRecords
<1> HIDE DEF more
<1>9. Runs(more) /\ Explained(more)
  <2>1. Review(more) = Review(told) /\ FailedChecks(more) = FailedChecks(told)
    BY <1>8 DEF Review, FailedChecks
  <2>2. Has(more, SummaryLost) <=> Has(told, SummaryLost)
    BY <1>8 DEF Has
  <2>3. QED BY <1>5, <1>8, <2>1, <2>2 DEF Runs, Explained
<1>10. Explained(new) /\ HasEnded(new) /\ Extends(more.events, new.events)
  BY <1>6, <1>9, Fails
<1>11. Extends(job.events, new.events)
  <2>1. told.events \in Seq(Events) /\ new.events \in Seq(Events)
    BY <1>5, <1>10 DEF HasEnded, JobRecords
  <2>2. QED BY <1>3, <1>5, <1>8, <1>10, <2>1, ExtendsFurther
<1>12. QED BY <1>1, <1>10, <1>11 DEF Stepped, JobInv

-----------------------------------------------------------------------------
(* What else happens to a job, whether it has ended or not.                 *)

Quietly(job, new) ==
  /\ JobInv(new) /\ Extends(job.events, new.events)
  /\ new.status = job.status

\* Every job is a record of the store.
LEMMA IsRecord ==
  ASSUME NEW job, JobInv(job)
  PROVE  job \in JobRecords /\ job.events \in Seq(Events) /\ Explained(job)
<1>1. job \in JobRecords /\ Explained(job)
  BY DEF JobInv, Runs, HasEnded
<1>2. QED BY <1>1 DEF JobRecords

\* Quietly is transitive.
LEMMA QuietlyFurther ==
  ASSUME NEW job, NEW mid, NEW new, JobInv(job), Quietly(job, mid), Quietly(mid, new)
  PROVE  Quietly(job, new)
<1>1. /\ job.events \in Seq(Events) /\ mid.events \in Seq(Events)
      /\ new.events \in Seq(Events)
  BY IsRecord DEF Quietly
<1>2. QED BY <1>1, ExtendsFurther DEF Quietly

\* A job that waits for the same thing is at the same stage.
LEMMA StageKept ==
  ASSUME NEW job, NEW new, Keeps(job, new), Stage(job),
         new.waits = job.waits, new.child = job.child
  PROVE  Stage(new)
<1>1. \A k \in 1 .. 4 : k - 1 \in 0 .. 4
  OBVIOUS
<1>2. 0 \in 0 .. 4
  OBVIOUS
<1>3. (Undetected(job) => Undetected(new)) /\ (~Has(job, SummaryLost) => ~Has(new, SummaryLost))
  BY DEF Keeps
<1>4. (Checked(job, 0) => Checked(new, 0)) /\ \A k \in 1 .. 4 : Checked(job, k - 1) => Checked(new, k - 1)
  BY <1>1, <1>2 DEF Keeps
<1>5. QED BY <1>3, <1>4 DEF Stage

\* Queries and extras are not told.
LEMMA SameQuietly ==
  ASSUME NEW job, JobInv(job), NEW new \in JobRecords, new.events = job.events,
         new.status = job.status, new.issues = job.issues, new.waits = job.waits,
         new.child = job.child, new.late = job.late
  PROVE  Quietly(job, new)
<1>1. job.events \in Seq(Events) /\ Explained(job)
  BY IsRecord
<1>2. Extends(job.events, new.events)
  BY <1>1 DEF Extends
<1>3. Review(new) = Review(job) /\ FailedChecks(new) = FailedChecks(job)
  BY DEF Review, FailedChecks
<1>4. \A type : Has(new, type) <=> Has(job, type)
  BY DEF Has
<1>5. Explained(new)
  BY <1>1, <1>3, <1>4 DEF Explained
<1>6. CASE Runs(job) /\ job.late = {} /\ Stage(job)
  <2>1. Keeps(job, new)
    BY <1>6, SameEventsKeep
  <2>2. Stage(new) /\ Runs(new)
    BY <1>6, <2>1, StageKept DEF Keeps
  <2>3. QED BY <1>2, <1>5, <1>6, <2>2 DEF Quietly, JobInv
<1>7. CASE HasEnded(job)
  <2>1. \A m : EndsAt(job, m) => EndsAt(new, m)
    BY DEF EndsAt
  <2>2. Checked(job, 4) => Checked(new, 4)
    <3>1. \A i : CheckAt(new, i) = CheckAt(job, i)
      BY DEF CheckAt
    <3>2. QED BY <1>3, <1>4, <3>1 DEF Checked
  <2>3. Outcome(job) => Outcome(new)
    BY <1>4, <2>2 DEF Outcome
  <2>4. \E m \in DOMAIN new.events : EndsAt(new, m)
    BY <1>7, <2>1 DEF HasEnded
  <2>5. HasEnded(new)
    BY <1>7, <2>3, <2>4 DEF HasEnded
  <2>6. QED BY <1>2, <1>5, <2>5 DEF Quietly, JobInv
<1>8. QED BY <1>6, <1>7 DEF JobInv

\* An event after the end announces nothing.
LEMMA EndKept ==
  ASSUME NEW job, NEW new, NEW e, NEW m, Adds(job, new, e), EndsAt(job, m),
         e.last, e.type \notin JobEvents, new.status = job.status
  PROVE  EndsAt(new, m)
<1> DEFINE n == Len(job.events) + 1
<1>1. /\ Len(job.events) \in Nat /\ DOMAIN job.events = 1 .. Len(job.events)
      /\ DOMAIN new.events = (DOMAIN job.events) \union {n}
      /\ \A i \in DOMAIN job.events : new.events[i] = job.events[i]
      /\ new.events[n] = e
  BY Appended
<1>2. m \in DOMAIN job.events /\ n > m
  BY <1>1 DEF EndsAt
<1>3. n >= m
  BY <1>1, <1>2
<1> HIDE DEF n
<1>4. \A i \in DOMAIN new.events : new.events[i].last <=> i >= m
  BY <1>1, <1>3 DEF EndsAt
<1>5. \A i \in DOMAIN new.events : i > m => new.events[i].type \notin JobEvents
  BY <1>1 DEF EndsAt
<1>6. QED BY <1>1, <1>2, <1>4, <1>5 DEF EndsAt

\* Such an event is quiet whether the job is under way or has ended.
LEMMA PlainQuietly ==
  ASSUME NEW job, JobInv(job), NEW type \in EventTypes \ JobEvents,
         NEW name \in Steps \union {None}, NEW code \in {0, 1}, Plain(type, name)
  PROVE  Quietly(job, AddStepEvent(job, type, name, code))
<1> DEFINE new == AddStepEvent(job, type, name, code)
           e   == [type |-> type, name |-> name, code |-> code, last |-> IsTerminal(job.status)]
<1>1. job \in JobRecords /\ Explained(job)
  BY IsRecord
<1>2. /\ new \in JobRecords /\ Adds(job, new, e)
      /\ new.status = job.status /\ new.issues = job.issues
      /\ new.waits = job.waits /\ new.child = job.child /\ new.late = job.late
  BY <1>1, AddsEvent
<1>3. e.type = type /\ e.name = name /\ (e.last <=> IsTerminal(job.status))
  OBVIOUS
<1>4. CASE Runs(job) /\ job.late = {} /\ Stage(job)
  <2>1. Keeps(job, new)
    BY <1>4, PlainKeeps
  <2> HIDE DEF new, e
  <2>2. Stage(new) /\ Runs(new) /\ Explained(new) /\ Extends(job.events, new.events)
    BY <1>1, <1>2, <1>4, <2>1, StageKept DEF Keeps
  <2>3. QED BY <1>2, <1>4, <2>2 DEF Quietly, JobInv, new
<1>5. CASE HasEnded(job)
  <2> HIDE DEF new, e
  <2>1. PICK m \in DOMAIN job.events : EndsAt(job, m)
    BY <1>5 DEF HasEnded
  <2>2. e.last
    BY <1>3, <1>5 DEF HasEnded
  <2>3. EndsAt(new, m) /\ Extends(job.events, new.events)
    BY <1>2, <1>3, <2>1, <2>2, EndKept, Appended
  <2>4. m \in DOMAIN new.events
    BY <2>3 DEF EndsAt
  <2>5. /\ \A t : Has(new, t) <=> Has(job, t) \/ e.type = t
        /\ Review(new) = Review(job) \union
             (IF e.type = "step.completed" /\ IsCheck(e.name) THEN {Len(job.events) + 1} ELSE {})
        /\ FailedChecks(new) = FailedChecks(job) \union
             (IF e.type = "step.completed" /\ IsCheck(e.name) /\ e.code # 0
              THEN {Len(job.events) + 1} ELSE {})
        /\ \A i \in Review(job) : CheckAt(new, i) = CheckAt(job, i)
    BY <1>2, ToldMore
  <2>6. /\ Review(new) = Review(job) /\ FailedChecks(new) = FailedChecks(job)
        /\ \A t \in {"spec.detected", "spec.missing", SummaryLost} : Has(new, t) <=> Has(job, t)
    BY <1>3, <2>5 DEF Plain
  <2>7. Explained(new)
    BY <1>1, <1>2, <2>6 DEF Explained
  <2>8. Checked(job, 4) => Checked(new, 4)
    BY <2>5, <2>6 DEF Checked
  <2>9. Outcome(job) => Outcome(new)
    BY <1>2, <2>6, <2>8 DEF Outcome
  <2>10. HasEnded(new)
    BY <1>2, <1>5, <2>3, <2>4, <2>9 DEF HasEnded
  <2>11. QED BY <1>2, <2>3, <2>7, <2>10 DEF Quietly, JobInv, new
<1>6. QED BY <1>4, <1>5 DEF JobInv

\* The late "close" of a command that could not be started: its job has failed.
LEMMA LateCloseSteps ==
  ASSUME NEW job, JobInv(job), NEW step \in job.late
  PROVE  Quietly(job, Closed([job EXCEPT !.late = @ \ {step}], step, 1))
<1> DEFINE left == [job EXCEPT !.late = @ \ {step}]
           new  == Closed(left, step, 1)
           e    == [type |-> "step.completed", name |-> step, code |-> 1,
                    last |-> IsTerminal(left.status)]
<1>1. HasEnded(job) /\ job.status = "failed" /\ job \in JobRecords /\ Explained(job)
  BY IsRecord DEF JobInv, HasEnded
<1>2. step \in Steps
  BY <1>1 DEF JobRecords
<1>3. /\ left \in JobRecords /\ left.events = job.events /\ left.status = "failed"
      /\ left.issues = job.issues /\ left.waits = "nothing" /\ left.child = None
  BY <1>1 DEF JobRecords, HasEnded
<1> HIDE DEF left
<1>4. Explained(left)
  <2>1. Review(left) = Review(job) /\ FailedChecks(left) = FailedChecks(job)
    BY <1>3 DEF Review, FailedChecks
  <2>2. Has(left, SummaryLost) <=> Has(job, SummaryLost)
    BY <1>3 DEF Has
  <2>3. QED BY <1>1, <1>3, <2>1, <2>2 DEF Explained
<1>5. /\ new \in JobRecords /\ Adds(left, new, e) /\ Explained(new)
      /\ new.status = left.status /\ new.waits = left.waits
      /\ new.child = left.child
  BY <1>2, <1>3, <1>4, CloseIsTold
<1>6. e.last /\ e.type \notin JobEvents
  BY <1>3 DEF IsTerminal, JobEvents
<1> HIDE DEF new, e
<1>7. Adds(job, new, e)
  BY <1>3, <1>5 DEF Adds
<1>8. PICK m \in DOMAIN job.events : EndsAt(job, m)
  BY <1>1 DEF HasEnded
<1>9. EndsAt(new, m) /\ Extends(job.events, new.events)
  BY <1>1, <1>3, <1>5, <1>6, <1>7, <1>8, EndKept, Appended
<1>10. HasEnded(new)
  BY <1>3, <1>5, <1>9 DEF HasEnded, IsTerminal, EndsAt
<1>11. QED BY <1>1, <1>3, <1>5, <1>9, <1>10 DEF Quietly, JobInv, new, left

\* Output of a command.
LEMMA OutputSteps ==
  ASSUME NEW job, JobInv(job), job.child # None, job.extras < MaxExtras
  PROVE  Quietly(job, More(AddStepEvent(job, "step.output", job.child, 0)))
<1> DEFINE told == AddStepEvent(job, "step.output", job.child, 0)
           new  == [told EXCEPT !.extras = @ + 1]
<1>1. job \in JobRecords /\ job.child \in Steps \union {None}
  <2>1. job \in JobRecords
    BY IsRecord
  <2>2. QED BY <2>1 DEF JobRecords
<1>2. "step.output" \in EventTypes \ JobEvents /\ Plain("step.output", job.child)
  BY DEF EventTypes, JobEvents, Plain, SummaryLost
<1>3. Quietly(job, told) /\ told \in JobRecords /\ told.extras = job.extras
  <2>1. Quietly(job, told)
    BY <1>1, <1>2, PlainQuietly
  <2>2. told.extras = job.extras
    BY <1>1, AddsNoExtra
  <2>3. QED BY <2>1, <2>2, IsRecord DEF Quietly
<1>4. More(told) = new
  BY DEF More
<1> HIDE DEF told
<1>5. told.extras + 1 \in 0 .. MaxExtras
  <2>1. told.extras \in 0 .. MaxExtras /\ told.extras < MaxExtras
    BY <1>3 DEF JobRecords
  <2>2. QED BY <2>1, MaxExtrasIsNatural
<1>6. /\ new \in JobRecords /\ new.events = told.events /\ new.status = told.status
      /\ new.issues = told.issues /\ new.waits = told.waits /\ new.child = told.child
      /\ new.late = told.late
  BY <1>3, <1>5 DEF JobRecords
<1> HIDE DEF new
<1>7. Quietly(told, new)
  BY <1>3, <1>6, SameQuietly DEF Quietly
<1>8. QED BY <1>3, <1>4, <1>7, QuietlyFurther DEF told

\* A query, whatever the job does meanwhile.
LEMMA QuerySteps ==
  ASSUME NEW job, JobInv(job), job.extras < MaxExtras, NEW failed \in {0, 1}
  PROVE  Quietly(job, More([AddEvent(ResolveClayersBin(job), "clayers.query.api")
                              EXCEPT !.queries = @ + failed]))
<1> DEFINE found == ResolveClayersBin(job)
           told  == AddEvent(found, "clayers.query.api")
           asked == [told EXCEPT !.queries = @ + failed]
           new   == [asked EXCEPT !.extras = @ + 1]
<1>1. job \in JobRecords
  BY IsRecord
<1>2. /\ "core.bootstrap" \in EventTypes \ JobEvents /\ Plain("core.bootstrap", None)
      /\ "clayers.query.api" \in EventTypes \ JobEvents /\ Plain("clayers.query.api", None)
  BY DEF EventTypes, JobEvents, Plain, SummaryLost
<1>3. Quietly(job, job)
  BY <1>1, SameQuietly
<1>4. Quietly(job, found) /\ found.extras = job.extras
  <2>1. CASE Bootstraps
    <3>1. found = AddStepEvent(job, "core.bootstrap", None, 0)
      BY <2>1 DEF ResolveClayersBin, AddEvent
    <3>2. /\ Quietly(job, AddStepEvent(job, "core.bootstrap", None, 0))
          /\ AddStepEvent(job, "core.bootstrap", None, 0).extras = job.extras
      <4>1. Quietly(job, AddStepEvent(job, "core.bootstrap", None, 0))
        BY <1>2, PlainQuietly
      <4>2. QED BY <1>1, <4>1, AddsNoExtra
    <3>3. QED BY <3>1, <3>2
  <2>2. CASE ~Bootstraps
    BY <1>3, <2>2 DEF ResolveClayersBin
  <2>3. QED BY <2>1, <2>2
<1> HIDE DEF found
<1>5. JobInv(found) /\ found \in JobRecords
  BY <1>4, IsRecord DEF Quietly
<1>6. Quietly(found, told) /\ told \in JobRecords /\ told.extras = found.extras
  <2>1. told = AddStepEvent(found, "clayers.query.api", None, 0)
    BY DEF AddEvent
  <2> HIDE DEF told
  <2>2. Quietly(found, told)
    BY <1>2, <1>5, <2>1, PlainQuietly
  <2>3. told.extras = found.extras
    BY <1>5, <2>1, AddsNoExtra
  <2>4. QED BY <2>2, <2>3, IsRecord DEF Quietly
<1> HIDE DEF told
<1>7. told.queries \in Nat /\ told.extras \in 0 .. MaxExtras
  BY <1>6 DEF JobRecords
<1>8. told.queries + failed \in Nat /\ told.extras + 1 \in 0 .. MaxExtras
  BY <1>4, <1>6, <1>7, MaxExtrasIsNatural
<1>9. /\ asked \in JobRecords /\ asked.events = told.events /\ asked.status = told.status
      /\ asked.issues = told.issues /\ asked.waits = told.waits /\ asked.child = told.child
      /\ asked.late = told.late /\ asked.extras = told.extras
  BY <1>6, <1>8 DEF JobRecords
<1>10. More(asked) = new
  BY DEF More
<1> HIDE DEF asked
<1>11. /\ new \in JobRecords /\ new.events = told.events /\ new.status = told.status
       /\ new.issues = told.issues /\ new.waits = told.waits /\ new.child = told.child
       /\ new.late = told.late
  BY <1>8, <1>9 DEF JobRecords
<1> HIDE DEF new
<1>12. Quietly(told, new)
  BY <1>6, <1>11, SameQuietly DEF Quietly
<1>13. Quietly(found, new)
  BY <1>5, <1>6, <1>12, QuietlyFurther
<1>14. Quietly(job, new)
  BY <1>4, <1>13, QuietlyFurther
<1>15. QED BY <1>10, <1>14 DEF asked, told, found

\* The local fallback of a query.
LEMMA QueryFallbackSteps ==
  ASSUME NEW job, JobInv(job), job.queries > 0,
         NEW type \in {"clayers.query.api.fallback", "clayers.query.api.fallback_failed"}
  PROVE  Quietly(job, AddEvent([job EXCEPT !.queries = @ - 1], type))
<1> DEFINE left == [job EXCEPT !.queries = @ - 1]
<1>1. job \in JobRecords
  BY IsRecord
<1>2. job.queries - 1 \in Nat
  <2>1. job.queries \in Nat
    BY <1>1 DEF JobRecords
  <2>2. QED BY <2>1
<1>3. /\ left \in JobRecords /\ left.events = job.events /\ left.status = job.status
      /\ left.issues = job.issues /\ left.waits = job.waits /\ left.child = job.child
      /\ left.late = job.late
  BY <1>1, <1>2 DEF JobRecords
<1>4. type \in EventTypes \ JobEvents /\ Plain(type, None)
  BY DEF EventTypes, JobEvents, Plain, SummaryLost
<1> HIDE DEF left
<1>5. Quietly(job, left)
  BY <1>3, SameQuietly
<1>6. Quietly(left, AddEvent(left, type))
  BY <1>4, <1>5, PlainQuietly DEF AddEvent, Quietly
<1>7. QED BY <1>5, <1>6, QuietlyFurther DEF left

-----------------------------------------------------------------------------
(* What viewers are sent.                                                   *)

\* What the listener of an open stream leaves.
\* What of a sequence has not been sent.
LEMMA TheRest ==
  ASSUME NEW s \in Seq(Events), NEW n \in Nat, n <= Len(s)
  PROVE  /\ SubSeq(s, n + 1, Len(s)) \in Seq(Events)
         /\ Len(SubSeq(s, n + 1, Len(s))) = Len(s) - n
<1>1. n + 1 \in Nat /\ Len(s) \in Nat /\ n + 1 <= Len(s) + 1
  OBVIOUS
<1>2. \A i \in n + 1 .. Len(s) : s[i] \in Events
  OBVIOUS
<1>3. QED BY <1>1, <1>2, SubSeqProperties

\* A listener writes what is new up to the event that announces the end.
LEMMA WrittenWell ==
  ASSUME NEW job, Runs(job), NEW new, JobInv(new), Extends(job.events, new.events),
         NEW viewer \in Streams, viewer.state = "open", viewer.sent = job.events
  PROVE  LET left == Written(viewer, new.events)
         IN  /\ left \in Streams /\ left.job = viewer.job /\ Extends(left.sent, new.events)
             /\ left.state = "open" => ~IsTerminal(new.status) /\ left.sent = new.events
             /\ left.state = "ended" =>
                  IsTerminal(new.status) /\ \E m \in DOMAIN left.sent : left.sent[m].last
<1> DEFINE old  == job.events
           all  == new.events
           n    == Len(old)
           more == SubSeq(all, n + 1, Len(all))
           stop == {i \in DOMAIN more : more[i].last}
           upTo == CHOOSE i \in stop : \A k \in stop : i <= k
           left == Written(viewer, all)
<1>1. /\ old \in Seq(Events) /\ all \in Seq(Events) /\ n \in Nat /\ Len(all) \in Nat
      /\ n <= Len(all) /\ \A i \in 1 .. n : all[i] = old[i]
      /\ DOMAIN old = 1 .. n /\ DOMAIN all = 1 .. Len(all)
  <2>1. old \in Seq(Events) /\ all \in Seq(Events)
    BY IsRecord DEF Runs, JobRecords
  <2> HIDE DEF old, all
  <2>2. Extends(old, all)
    BY DEF old, all
  <2>3. QED BY <2>1, <2>2 DEF Extends
<1>2. \A i \in 1 .. n : ~old[i].last
  BY <1>1 DEF Runs
<1>3. left = IF stop = {} THEN [viewer EXCEPT !.sent = all]
             ELSE [viewer EXCEPT !.sent = @ \o SubSeq(more, 1, upTo), !.state = "ended"]
  BY DEF Written
<1>4. CASE Runs(new)
  <2>1. \A i \in 1 .. Len(all) : ~all[i].last
    BY <1>1, <1>4 DEF Runs
  <2> HIDE DEF old, all
  <2>2. \A i \in DOMAIN more : i + n \in 1 .. Len(all) /\ more[i] = all[i + n]
    BY <1>1
  <2> HIDE DEF more
  <2>3. stop = {}
    BY <2>1, <2>2
  <2>4. left = [viewer EXCEPT !.sent = all]
    BY <1>3, <2>3
  <2>5. left \in Streams /\ left.job = viewer.job /\ left.sent = all /\ left.state = "open"
    BY <1>1, <2>4 DEF Streams
  <2>6. Extends(all, all)
    BY <1>1 DEF Extends
  <2>7. ~IsTerminal(new.status)
    BY <1>4 DEF Runs, IsTerminal
  <2> HIDE DEF left
  <2>8. QED BY <2>5, <2>6, <2>7 DEF left, all
<1>5. CASE HasEnded(new)
  <2>1. PICK m \in 1 .. Len(all) : \A i \in 1 .. Len(all) : all[i].last <=> i >= m
    BY <1>1, <1>5 DEF HasEnded, EndsAt
  <2> HIDE DEF old, all
  <2>2. m > n
    <3>1. all[m].last
      BY <1>1, <2>1
    <3>2. m \in 1 .. n => ~all[m].last
      BY <1>1, <1>2
    <3>3. QED BY <1>1, <3>1, <3>2
  <2>3. PICK d \in Nat : d = m - n
    <3>1. m - n \in Nat
      BY <1>1, <2>1, <2>2
    <3> HIDE DEF n
    <3>2. QED BY <3>1
  <2>4. d >= 1 /\ m = n + d /\ d <= Len(all) - n /\ m <= Len(all) /\ m \in Nat
    BY <1>1, <2>1, <2>2, <2>3
  <2>5. /\ more \in Seq(Events) /\ DOMAIN more = 1 .. Len(more) /\ Len(more) = Len(all) - n
        /\ \A i \in DOMAIN more : i + n \in 1 .. Len(all) /\ more[i] = all[i + n]
    <3>1. more \in Seq(Events) /\ Len(more) = Len(all) - n
      BY <1>1, TheRest
    <3>2. DOMAIN more = 1 .. Len(more)
      BY <3>1
    <3>3. \A i \in DOMAIN more : i + n \in 1 .. Len(all) /\ more[i] = all[i + n]
      BY <1>1
    <3>4. QED BY <3>1, <3>2, <3>3
  <2> HIDE DEF more
  <2>6. \A i \in DOMAIN more : i \in Nat /\ (more[i].last <=> i >= d)
    <3>1. ASSUME NEW i \in DOMAIN more PROVE i \in Nat /\ (more[i].last <=> i >= d)
      <4>1. more[i] = all[i + n] /\ i + n \in 1 .. Len(all) /\ i \in Nat
        BY <1>1, <2>5
      <4>2. all[i + n].last <=> i + n >= m
        BY <2>1, <4>1
      <4>3. i + n >= m <=> i >= d
        BY <1>1, <2>4, <4>1
      <4>4. QED BY <4>1, <4>2, <4>3
    <3>2. QED BY <3>1
  <2>7. d \in DOMAIN more
    BY <1>1, <2>4, <2>5
  <2>8. d \in stop /\ \A i \in stop : i \in Nat /\ d <= i
    <3>1. d >= d
      BY <2>4
    <3>2. QED BY <2>6, <2>7, <3>1
  <2>9. upTo = d
    <3> HIDE DEF stop
    <3>1. \A i \in stop : (\A k \in stop : i <= k) => i = d
      BY <2>8
    <3>2. QED BY <2>8, <3>1
  <2> DEFINE sent == old \o SubSeq(more, 1, d)
  <2>10. left = [viewer EXCEPT !.sent = sent, !.state = "ended"]
    <3>1. viewer.sent = old
      BY DEF old
    <3> HIDE DEF stop, upTo
    <3>2. stop # {}
      BY <2>8
    <3>3. QED BY <1>3, <2>9, <3>1, <3>2
  <2>11. /\ sent \in Seq(Events) /\ Len(sent) = m /\ DOMAIN sent = 1 .. m
         /\ \A i \in 1 .. m : sent[i] = all[i]
    <3> DEFINE part == SubSeq(more, 1, d)
    <3>1. /\ part \in Seq(Events) /\ Len(part) = d /\ DOMAIN part = 1 .. d
          /\ \A i \in 1 .. d : part[i] = more[i]
      BY <2>4, <2>5, <2>7
    <3> HIDE DEF part
    <3>2. /\ old \o part \in Seq(Events) /\ Len(old \o part) = m
          /\ \A i \in 1 .. n : (old \o part)[i] = old[i]
          /\ \A i \in 1 .. m : i > n => (old \o part)[i] = part[i - n]
      BY <1>1, <2>4, <3>1
    <3>3. ASSUME NEW i \in 1 .. m, i > n PROVE (old \o part)[i] = all[i]
      <4>1. PICK k \in Nat : k = i - n
        <5>1. i - n \in Nat
          BY <1>1, <3>3
        <5> HIDE DEF n
        <5>2. QED BY <5>1
      <4>2. k >= 1 /\ k <= d /\ k + n = i
        BY <1>1, <2>4, <3>3, <4>1
      <4>3. k \in 1 .. d /\ k \in DOMAIN more
        BY <2>4, <2>5, <2>7, <4>1, <4>2
      <4>4. part[k] = more[k] /\ more[k] = all[k + n]
        BY <2>5, <3>1, <4>3
      <4>5. (old \o part)[i] = part[k]
        BY <3>2, <3>3, <4>1
      <4>6. QED BY <4>2, <4>4, <4>5
    <3>4. ASSUME NEW i \in 1 .. m PROVE (old \o part)[i] = all[i]
      <4>1. CASE i \in 1 .. n
        BY <1>1, <3>2, <4>1
      <4>2. CASE i > n
        BY <3>3, <4>2
      <4>3. i \in 1 .. n \/ i > n
        BY <1>1, <2>4
      <4>4. QED BY <4>1, <4>2, <4>3
    <3>5. DOMAIN (old \o part) = 1 .. m
      BY <3>2
    <3>6. QED BY <3>2, <3>4, <3>5 DEF part
  <2> HIDE DEF sent, stop, upTo
  <2>12. /\ left \in Streams /\ left.job = viewer.job /\ left.sent = sent
         /\ left.state = "ended"
    BY <2>10, <2>11 DEF Streams
  <2> HIDE DEF left
  <2>13. Extends(sent, all)
    BY <1>1, <2>4, <2>11 DEF Extends
  <2>14. m \in DOMAIN sent /\ sent[m].last
    <3>1. m \in 1 .. m /\ m >= m
      BY <2>4
    <3>2. QED BY <2>1, <2>11, <3>1
  <2>15. IsTerminal(new.status)
    BY <1>5 DEF HasEnded
  <2>16. QED BY <2>12, <2>13, <2>14, <2>15 DEF left, all
<1>6. QED BY <1>4, <1>5 DEF JobInv

\* How a step moves a job.
Goes(old, new) ==
  IF old = None THEN new.status = "running" /\ new.child = None
  ELSE Extends(old.events, new.events) /\ (IsTerminal(old.status) => new.status = old.status)

\* A job moves, and the viewers that stream it are told.
LEMMA UpdateKeeps ==
  ASSUME Inv, NEW j \in Jobs, NEW new, Update(j, new), JobInv(new), Goes(jobs[j], new)
  PROVE  Inv'
<1>1. new \in JobRecords /\ new # None
  BY IsRecord, NoneIsApart
<1>2. /\ jobs' \in [Jobs -> JobRecords \union {None}] /\ jobs'[j] = new
      /\ \A k \in Jobs \ {j} : jobs'[k] = jobs[k]
  BY <1>1 DEF Update, Inv
<1>3. \A k \in Jobs : jobs'[k] # None => JobInv(jobs'[k])
  <2>1. \A k \in Jobs : jobs[k] # None => JobInv(jobs[k])
    BY DEF Inv
  <2>2. QED BY <1>2, <2>1
<1>4. ASSUME NEW v \in Viewers
      PROVE  viewers'[v] \in Streams \union {None} /\ ViewerInv(v)'
  <2>1. /\ viewers[v] \in Streams \union {None} /\ ViewerInv(v)
        /\ viewers'[v] = IF Streaming(v) /\ viewers[v].job = j
                         THEN Written(viewers[v], new.events) ELSE viewers[v]
    BY DEF Inv, Update
  <2>2. CASE viewers[v] = None
    <3>1. viewers'[v] = None
      BY <2>1, <2>2 DEF Streaming
    <3>2. QED BY <3>1 DEF ViewerInv
  <2>3. CASE viewers[v] # None /\ viewers[v].job # j
    <3>1. viewers'[v] = viewers[v] /\ viewers[v].job \in Jobs
      BY <2>1, <2>3 DEF Streams
    <3>2. jobs'[viewers[v].job] = jobs[viewers[v].job]
      BY <1>2, <2>3, <3>1
    <3>3. QED BY <2>1, <3>1, <3>2 DEF ViewerInv
  <2>4. CASE viewers[v] # None /\ viewers[v].job = j
    <3>1. viewers[v] \in Streams /\ jobs[j] # None /\ JobInv(jobs[j])
      BY <2>1, <2>4 DEF ViewerInv, Inv
    <3>2. /\ Extends(jobs[j].events, new.events)
          /\ IsTerminal(jobs[j].status) => new.status = jobs[j].status
      BY <3>1 DEF Goes
    <3>3. CASE viewers[v].state = "open"
      <4>1. viewers[v].sent = jobs[j].events /\ Runs(jobs[j])
        BY <2>1, <2>4, <3>1, <3>3 DEF ViewerInv, JobInv, HasEnded
      <4>2. viewers'[v] = Written(viewers[v], new.events)
        BY <2>1, <2>4, <3>3 DEF Streaming
      <4>3. /\ viewers'[v] \in Streams /\ viewers'[v].job = j
            /\ Extends(viewers'[v].sent, new.events)
            /\ viewers'[v].state = "open" =>
                 ~IsTerminal(new.status) /\ viewers'[v].sent = new.events
            /\ viewers'[v].state = "ended" =>
                 IsTerminal(new.status) /\ \E m \in DOMAIN viewers'[v].sent : viewers'[v].sent[m].last
        BY <2>4, <3>1, <3>2, <3>3, <4>1, <4>2, WrittenWell
      <4>4. QED BY <1>1, <1>2, <4>3 DEF ViewerInv
    <3>4. CASE viewers[v].state # "open"
      <4>1. viewers'[v] = viewers[v] /\ viewers[v].state = "ended"
        BY <2>1, <2>4, <3>1, <3>4 DEF Streaming, Streams
      <4>2. /\ Extends(viewers[v].sent, jobs[j].events)
            /\ IsTerminal(jobs[j].status) /\ \E m \in DOMAIN viewers[v].sent : viewers[v].sent[m].last
        BY <2>1, <2>4, <4>1 DEF ViewerInv
      <4>3. Extends(viewers[v].sent, new.events)
        <5>1. viewers[v].sent \in Seq(Events)
          BY <3>1 DEF Streams
        <5>2. jobs[j].events \in Seq(Events) /\ new.events \in Seq(Events)
          BY <3>1, IsRecord
        <5>3. QED BY <3>2, <4>2, <5>1, <5>2, ExtendsFurther
      <4>4. /\ jobs'[viewers'[v].job] = new /\ new # None
            /\ Extends(viewers'[v].sent, new.events)
            /\ viewers'[v].state = "ended"
            /\ IsTerminal(new.status)
            /\ \E m \in DOMAIN viewers'[v].sent : viewers'[v].sent[m].last
        BY <1>1, <1>2, <2>4, <3>2, <4>1, <4>2, <4>3
      <4>5. ViewerInv(v)'
        BY <4>4 DEF ViewerInv
      <4>6. viewers'[v] \in Streams
        BY <3>1, <4>1
      <4>7. QED BY <4>5, <4>6
    <3>5. QED BY <3>3, <3>4
  <2>5. QED BY <2>2, <2>3, <2>4
<1>5. viewers' \in [Viewers -> Streams \union {None}]
  <2>1. viewers' = [v \in Viewers |-> viewers'[v]]
    BY DEF Update
  <2>2. QED BY <1>4, <2>1
<1>6. QED BY <1>2, <1>3, <1>4, <1>5 DEF Inv

-----------------------------------------------------------------------------
(* Every step.                                                              *)

\* A step of the server moves one job, and its viewers with it.
Moves(j) == \E new \in JobRecords : Update(j, new) /\ JobInv(new) /\ Goes(jobs[j], new)

\* A job begins to run with nothing told but that.
LEMMA CreateBegins ==
  ASSUME NEW input \in Inputs
  PROVE  LET new == Create(input)
         IN  JobInv(new) /\ new.status = "running" /\ new.child = None
<1> DEFINE blank  == [status |-> None, mode |-> input.mode, source |-> input.source,
                      events |-> <<>>, issues |-> 0, waits |-> "repository", child |-> None,
                      late |-> {}, sync |-> FALSE, queries |-> 0, extras |-> 0]
           first  == [blank EXCEPT !.status = "queued"]
           queued == AddStepEvent(first, "queued", None, 0)
           second == [queued EXCEPT !.status = "running"]
           new    == AddStepEvent(second, "running", None, 0)
           e      == [type |-> "queued", name |-> None, code |-> 0, last |-> IsTerminal(first.status)]
           f      == [type |-> "running", name |-> None, code |-> 0, last |-> IsTerminal(second.status)]
<1>0. /\ "queued" \in EventTypes /\ "running" \in EventTypes
      /\ None \in Steps \union {None} /\ 0 \in {0, 1}
  BY DEF EventTypes, JobEvents
<1>1. Create(input) = new
  BY DEF Create, SetStatus, AddEvent
<1>2. /\ first \in JobRecords /\ first.status = "queued" /\ first.events = <<>>
      /\ first.issues = 0 /\ first.waits = "repository" /\ first.child = None /\ first.late = {}
  <2>1. input.mode \in {"sync", "review", "adopt"} /\ input.source \in {"path", "repoUrl"}
    BY InputsAreJobs
  <2>2. <<>> \in Seq(Events)
    OBVIOUS
  <2>3. 0 \in Nat /\ 0 \in 0 .. MaxExtras
    BY MaxExtrasIsNatural
  <2>4. QED BY <2>1, <2>2, <2>3 DEF JobRecords, Statuses
<1> HIDE DEF first
<1>3. /\ queued \in JobRecords /\ Adds(first, queued, e)
      /\ queued.issues = first.issues /\ queued.waits = first.waits
      /\ queued.child = first.child /\ queued.late = first.late
  <2>1. first \in JobRecords
    BY <1>2
  <2>2. QED BY ONLY <1>0, <2>1, AddsEvent
<1>4. e.type = "queued" /\ ~e.last
  BY <1>2 DEF IsTerminal
<1> HIDE DEF queued, e
<1>5. /\ second \in JobRecords /\ second.status = "running" /\ second.events = queued.events
      /\ second.issues = 0 /\ second.waits = "repository" /\ second.child = None
      /\ second.late = {}
  BY <1>2, <1>3 DEF JobRecords, Statuses
<1> HIDE DEF second
<1>6. /\ new \in JobRecords /\ Adds(second, new, f) /\ new.status = second.status
      /\ new.issues = second.issues /\ new.waits = second.waits
      /\ new.child = second.child /\ new.late = second.late
  <2>1. second \in JobRecords
    BY <1>5
  <2>2. QED BY ONLY <1>0, <2>1, AddsEvent
<1>7. f.type = "running" /\ ~f.last
  BY <1>5 DEF IsTerminal
<1> HIDE DEF new, f
<1>8. /\ Review(first) = {} /\ FailedChecks(first) = {}
      /\ \A type : ~Has(first, type)
  BY <1>2 DEF Review, FailedChecks, Has
<1>9. /\ \A type : Has(queued, type) <=> Has(first, type) \/ e.type = type
      /\ Review(queued) = Review(first) \union
           (IF e.type = "step.completed" /\ IsCheck(e.name) THEN {Len(first.events) + 1} ELSE {})
      /\ FailedChecks(queued) = FailedChecks(first) \union
           (IF e.type = "step.completed" /\ IsCheck(e.name) /\ e.code # 0
            THEN {Len(first.events) + 1} ELSE {})
  BY <1>3, ToldMore
<1>10. /\ \A type : Has(second, type) <=> Has(queued, type)
       /\ Review(second) = Review(queued) /\ FailedChecks(second) = FailedChecks(queued)
  BY <1>5 DEF Has, Review, FailedChecks
<1>11. /\ \A type : Has(new, type) <=> Has(second, type) \/ f.type = type
       /\ Review(new) = Review(second) \union
            (IF f.type = "step.completed" /\ IsCheck(f.name) THEN {Len(second.events) + 1} ELSE {})
       /\ FailedChecks(new) = FailedChecks(second) \union
            (IF f.type = "step.completed" /\ IsCheck(f.name) /\ f.code # 0
             THEN {Len(second.events) + 1} ELSE {})
  BY <1>6, ToldMore
<1>12. Review(new) = {} /\ FailedChecks(new) = {}
  BY <1>4, <1>7, <1>8, <1>9, <1>10, <1>11
<1>13. ~Has(new, "spec.detected") /\ ~Has(new, SummaryLost)
  BY <1>4, <1>7, <1>8, <1>9, <1>10, <1>11 DEF SummaryLost
<1>14. Explained(new)
  <2>1. Cardinality(FailedChecks(new)) = 0
    BY <1>12, FS_EmptySet
  <2>2. QED BY <1>5, <1>6, <1>13, <2>1 DEF Explained
<1>15. Runs(new)
  <2>1. /\ DOMAIN queued.events = (DOMAIN first.events) \union {Len(first.events) + 1}
        /\ queued.events[Len(first.events) + 1] = e
    BY <1>3, Appended
  <2>2. \A i \in DOMAIN second.events : ~second.events[i].last
    BY <1>2, <1>4, <1>5, <2>1
  <2>3. Runs(second)
    BY <1>5, <2>2 DEF Runs
  <2>4. QED BY <1>6, <1>7, <2>3, RunsOn
<1>16. Stage(new)
  BY <1>5, <1>6, <1>12, <1>13 DEF Stage, Undetected, EarlyWaits
<1>17. JobInv(new) /\ new.status = "running" /\ new.child = None
  BY <1>5, <1>6, <1>14, <1>15, <1>16 DEF JobInv
<1>18. QED BY <1>1, <1>17

\* Whatever a job does keeps what is told of it.
LEMMA SteppedMoves ==
  ASSUME NEW j \in Jobs, jobs[j] # None, NEW new, Update(j, new),
         (~IsTerminal(jobs[j].status) /\ Stepped(jobs[j], new)) \/ Quietly(jobs[j], new)
  PROVE  Moves(j)
<1>1. JobInv(new) /\ Goes(jobs[j], new)
  BY DEF Stepped, Quietly, Goes
<1>2. new \in JobRecords
  BY <1>1, IsRecord
<1>3. QED BY <1>1, <1>2 DEF Moves

\* Every callback of a job, one by one.
LEMMA JobsMove ==
  ASSUME Inv, NEW j \in Jobs,
         \/ \E input \in Inputs : Submit(j, input)
         \/ Resume(j)
         \/ \E code \in {0, 1} : Exit(j, code)
         \/ Output(j)
         \/ StartFails(j)
         \/ LateClose(j)
         \/ Query(j)
         \/ QueryFallback(j)
  PROVE  Moves(j)
<1>1. jobs[j] # None => JobInv(jobs[j])
  BY DEF Inv
<1>2. ASSUME NEW input \in Inputs, Submit(j, input) PROVE Moves(j)
  <2>1. PICK new : new = Create(input)
    OBVIOUS
  <2>2. JobInv(new) /\ new.status = "running" /\ new.child = None
    BY <2>1, CreateBegins
  <2>3. Update(j, new) /\ jobs[j] = None
    BY <1>2, <2>1 DEF Submit
  <2>4. new \in JobRecords
    BY <2>2, IsRecord
  <2>5. QED BY <2>2, <2>3, <2>4 DEF Moves, Goes
<1>3. CASE Resume(j)
  <2>1. PICK new \in Resumed(jobs[j]) : Update(j, new)
    BY <1>3 DEF Resume
  <2>2. jobs[j] # None /\ JobInv(jobs[j])
    BY <1>1, <1>3 DEF Resume
  <2>3. ~IsTerminal(jobs[j].status)
    <3>1. HasEnded(jobs[j]) => Resumed(jobs[j]) = {}
      BY DEF HasEnded, Resumed
    <3>2. QED BY <2>1, <2>2, <3>1 DEF JobInv, Runs, IsTerminal
  <2>4. Stepped(jobs[j], new)
    BY <2>1, <2>2, <2>3, ResumeSteps
  <2>5. QED BY <2>1, <2>2, <2>3, <2>4, SteppedMoves
<1>4. ASSUME NEW code \in {0, 1}, Exit(j, code) PROVE Moves(j)
  <2>1. PICK new : new = StepEnded(jobs[j], jobs[j].child, code)
    OBVIOUS
  <2>2. jobs[j] # None /\ jobs[j].child # None /\ Update(j, new)
    BY <1>4, <2>1 DEF Exit
  <2>3. ~IsTerminal(jobs[j].status) /\ Stepped(jobs[j], StepEnded(jobs[j], jobs[j].child, code))
    BY <1>1, <2>2, ExitSteps
  <2>4. QED BY <2>1, <2>2, <2>3, SteppedMoves
<1>5. CASE Output(j)
  <2>1. PICK new : new = More(AddStepEvent(jobs[j], "step.output", jobs[j].child, 0))
    OBVIOUS
  <2>2. /\ jobs[j] # None /\ jobs[j].child # None /\ jobs[j].extras < MaxExtras
        /\ Update(j, new)
    BY <1>5, <2>1 DEF Output, MayHaveMore
  <2>3. Quietly(jobs[j], More(AddStepEvent(jobs[j], "step.output", jobs[j].child, 0)))
    BY <1>1, <2>2, OutputSteps
  <2>4. QED BY <2>1, <2>2, <2>3, SteppedMoves
<1>6. CASE StartFails(j)
  <2>1. PICK new : new = Fail(More([AddStepEvent(jobs[j], "step.error", jobs[j].child, 0)
                                      EXCEPT !.late = @ \cup {jobs[j].child}]))
    OBVIOUS
  <2>2. /\ jobs[j] # None /\ jobs[j].child # None /\ jobs[j].extras < MaxExtras
        /\ Update(j, new)
    BY <1>6, <2>1 DEF StartFails, MayHaveMore
  <2>3. ~IsTerminal(jobs[j].status) /\ Stepped(jobs[j], new)
    BY <1>1, <2>1, <2>2, StartFailsSteps
  <2>4. QED BY <2>2, <2>3, SteppedMoves
<1>7. CASE LateClose(j)
  <2>1. jobs[j] # None
    BY <1>7 DEF LateClose
  <2>2. PICK step \in jobs[j].late :
          Update(j, Closed([jobs[j] EXCEPT !.late = @ \ {step}], step, 1))
    BY <1>7 DEF LateClose
  <2>3. PICK new : new = Closed([jobs[j] EXCEPT !.late = @ \ {step}], step, 1)
    OBVIOUS
  <2>4. Quietly(jobs[j], Closed([jobs[j] EXCEPT !.late = @ \ {step}], step, 1))
    BY <1>1, <2>1, LateCloseSteps
  <2>5. Update(j, new) /\ Quietly(jobs[j], new)
    BY <2>2, <2>3, <2>4
  <2>6. QED BY <2>1, <2>5, SteppedMoves
<1>8. CASE Query(j)
  <2>1. jobs[j] # None /\ jobs[j].extras < MaxExtras
    BY <1>8 DEF Query, MayHaveMore
  <2>2. PICK failed \in {0, 1} :
          Update(j, More([AddEvent(ResolveClayersBin(jobs[j]), "clayers.query.api")
                            EXCEPT !.queries = @ + failed]))
    BY <1>8 DEF Query
  <2>3. PICK new : new = More([AddEvent(ResolveClayersBin(jobs[j]), "clayers.query.api")
                                 EXCEPT !.queries = @ + failed])
    OBVIOUS
  <2>4. Quietly(jobs[j], More([AddEvent(ResolveClayersBin(jobs[j]), "clayers.query.api")
                                 EXCEPT !.queries = @ + failed]))
    BY <1>1, <2>1, QuerySteps
  <2>5. Update(j, new) /\ Quietly(jobs[j], new)
    BY <2>2, <2>3, <2>4
  <2>6. QED BY <2>1, <2>5, SteppedMoves
<1>9. CASE QueryFallback(j)
  <2>1. jobs[j] # None /\ jobs[j].queries > 0
    BY <1>9 DEF QueryFallback
  <2>2. PICK type \in {"clayers.query.api.fallback", "clayers.query.api.fallback_failed"} :
          Update(j, AddEvent([jobs[j] EXCEPT !.queries = @ - 1], type))
    BY <1>9 DEF QueryFallback
  <2>3. PICK new : new = AddEvent([jobs[j] EXCEPT !.queries = @ - 1], type)
    OBVIOUS
  <2>4. Quietly(jobs[j], AddEvent([jobs[j] EXCEPT !.queries = @ - 1], type))
    BY <1>1, <2>1, QueryFallbackSteps
  <2>5. Update(j, new) /\ Quietly(jobs[j], new)
    BY <2>2, <2>3, <2>4
  <2>6. QED BY <2>1, <2>5, SteppedMoves
<1>10. QED BY <1>2, <1>3, <1>4, <1>5, <1>6, <1>7, <1>8, <1>9

\* A step is one of a job, or opens or leaves a stream.
LEMMA NextMoves ==
  ASSUME Inv, Next
  PROVE  \/ \E j \in Jobs : Moves(j)
         \/ \E v \in Viewers : Disconnect(v) \/ \E j \in Jobs : StreamEvents(v, j)
<1>1. ASSUME NEW j \in Jobs,
             \/ \E input \in Inputs : Submit(j, input)
             \/ Resume(j)
             \/ \E code \in {0, 1} : Exit(j, code)
             \/ Output(j)
             \/ StartFails(j)
             \/ LateClose(j)
             \/ Query(j)
             \/ QueryFallback(j)
      PROVE  Moves(j)
  BY <1>1, JobsMove
<1>2. QED BY <1>1 DEF Next

\* A viewer opens the stream of a job that runs, or has ended.
LEMMA StreamKeeps ==
  ASSUME Inv, NEW v \in Viewers, NEW j \in Jobs, StreamEvents(v, j)
  PROVE  Inv'
<1>1. jobs[j] # None /\ JobInv(jobs[j]) /\ jobs' = jobs
  BY DEF StreamEvents, Inv
<1>2. PICK state : state = IF IsTerminal(jobs[j].status) THEN "ended" ELSE "open"
  OBVIOUS
<1>3. PICK opened : opened = [job |-> j, sent |-> jobs[j].events, state |-> state]
  OBVIOUS
<1>4. /\ opened \in Streams /\ opened.job = j /\ opened.sent = jobs[j].events
      /\ opened.state = state
  <2>1. jobs[j].events \in Seq(Events)
    BY <1>1, IsRecord
  <2>2. state \in {"open", "ended"}
    BY <1>2
  <2>3. QED BY <1>3, <2>1, <2>2 DEF Streams
<1>5. viewers' = [viewers EXCEPT ![v] = opened]
  BY <1>2, <1>3 DEF StreamEvents
<1>6. viewers' \in [Viewers -> Streams \union {None}]
  BY <1>4, <1>5 DEF Inv
<1>7. Extends(jobs[j].events, jobs[j].events)
  <2>1. jobs[j].events \in Seq(Events)
    BY <1>1, IsRecord
  <2>2. QED BY <2>1 DEF Extends
<1>8. IsTerminal(jobs[j].status) =>
        \E m \in DOMAIN jobs[j].events : jobs[j].events[m].last
  <2>1. ASSUME NEW m \in DOMAIN jobs[j].events, EndsAt(jobs[j], m) PROVE jobs[j].events[m].last
    <3>1. jobs[j].events \in Seq(Events)
      BY <1>1, IsRecord
    <3>2. m \in Nat
      BY <3>1
    <3>3. m >= m
      BY <3>2
    <3>4. QED BY <2>1, <3>3 DEF EndsAt
  <2>2. QED BY <1>1, <2>1 DEF JobInv, Runs, HasEnded, IsTerminal
<1>9. ASSUME NEW w \in Viewers PROVE ViewerInv(w)'
  <2>1. CASE w = v
    <3>1. viewers'[w] = opened
      BY <1>5, <2>1 DEF Inv
    <3>2. /\ jobs'[viewers'[w].job] = jobs[j] /\ viewers'[w].sent = jobs[j].events
          /\ viewers'[w].state = state
      BY <1>1, <1>4, <3>1
    <3>3. QED BY <1>1, <1>2, <1>7, <1>8, <3>2 DEF ViewerInv
  <2>2. CASE w # v
    <3>1. viewers'[w] = viewers[w] /\ ViewerInv(w)
      BY <1>5, <2>2 DEF Inv
    <3>2. QED BY <1>1, <3>1 DEF ViewerInv
  <2>3. QED BY <2>1, <2>2
<1>10. QED BY <1>1, <1>6, <1>9 DEF Inv

\* A viewer leaves.
LEMMA DisconnectKeeps ==
  ASSUME Inv, NEW v \in Viewers, Disconnect(v)
  PROVE  Inv'
<1>1. jobs' = jobs /\ viewers' = [viewers EXCEPT ![v] = None]
  BY DEF Disconnect
<1>2. viewers' \in [Viewers -> Streams \union {None}]
  BY <1>1 DEF Inv
<1>3. ASSUME NEW w \in Viewers PROVE ViewerInv(w)'
  <2>1. viewers'[w] = None \/ viewers'[w] = viewers[w]
    BY <1>1 DEF Inv
  <2>2. ViewerInv(w)
    BY DEF Inv
  <2>3. QED BY <1>1, <2>1, <2>2 DEF ViewerInv
<1>4. QED BY <1>1, <1>2, <1>3 DEF Inv

\* A step of a job keeps the invariant, its viewers included.
LEMMA MovesKeep ==
  ASSUME Inv, NEW j \in Jobs, Moves(j)
  PROVE  Inv'
  BY UpdateKeeps DEF Moves

\* No jobs and no viewers.
LEMMA InitInv == Init => Inv
<1> SUFFICES ASSUME Init PROVE Inv
  OBVIOUS
<1>1. /\ \A j \in Jobs : jobs[j] = None
      /\ \A v \in Viewers : viewers[v] = None
  BY DEF Init
<1>2. /\ jobs \in [Jobs -> JobRecords \union {None}]
      /\ viewers \in [Viewers -> Streams \union {None}]
  BY DEF Init
<1>3. QED BY <1>1, <1>2 DEF Inv, ViewerInv

\* Every step keeps the invariant.
LEMMA NextKeeps ==
  ASSUME Inv, [Next]_vars
  PROVE  Inv'
<1>1. CASE Next
  BY <1>1, NextMoves, MovesKeep, StreamKeeps, DisconnectKeeps
<1>2. CASE UNCHANGED vars
  <2>1. jobs' = jobs /\ viewers' = viewers
    BY <1>2 DEF vars
  <2>2. \A v \in Viewers : ViewerInv(v)'
    BY <2>1 DEF Inv, ViewerInv
  <2>3. QED BY <2>1, <2>2 DEF Inv
<1>3. QED BY <1>1, <1>2

-----------------------------------------------------------------------------
(* What follows.                                                            *)

\* The invariant holds (runner.ts, job-store.ts, server.ts).
THEOREM InvHolds == Spec => []Inv
<1>1. Inv /\ [Next]_vars => Inv'
  BY NextKeeps
<1>2. QED BY InitInv, <1>1, PTL DEF Spec

\* A job waits for one thing at a time, and for nothing once it has ended.
LEMMA InvTyped == Inv => TypeOK
<1> SUFFICES ASSUME Inv PROVE TypeOK
  OBVIOUS
<1>1. ASSUME NEW j \in Jobs, jobs[j] # None
      PROVE  /\ jobs[j].status \notin {None, "queued"}
             /\ jobs[j].child # None <=> jobs[j].waits = "command"
             /\ IsTerminal(jobs[j].status) <=> jobs[j].waits = "nothing"
  <2>1. JobInv(jobs[j])
    BY <1>1 DEF Inv
  <2>2. CASE HasEnded(jobs[j])
    <3>1. jobs[j].status \notin {None, "queued"}
      BY <2>2, NoneIsApart DEF HasEnded, IsTerminal
    <3>2. QED BY <2>2, <3>1 DEF HasEnded
  <2>3. CASE Runs(jobs[j]) /\ Stage(jobs[j])
    <3>1. jobs[j].status = "running" /\ ~IsTerminal(jobs[j].status) /\ "running" \in Statuses
      BY <2>3 DEF Runs, IsTerminal, Statuses
    <3>2. /\ jobs[j].waits = "command" => jobs[j].child \in Steps
          /\ jobs[j].waits # "command" => jobs[j].child = None
          /\ jobs[j].waits # "nothing"
      BY <2>3, WaitingKnows
    <3>3. QED BY <3>1, <3>2, NoneIsApart
  <2>4. QED BY <2>1, <2>2, <2>3 DEF JobInv
<1>2. QED BY <1>1 DEF Inv, TypeOK

\* Every job is a record of the store and waits for one thing at a time.
THEOREM JobsAreTyped == Spec => []TypeOK
  BY InvHolds, InvTyped, PTL

\* A job that has ended announced it at one place of its events.
LEMMA EndedAt ==
  ASSUME NEW job, JobInv(job), IsTerminal(job.status)
  PROVE  \E m \in 1 .. Len(job.events) : EndsAt(job, m)
<1>1. HasEnded(job) /\ job.events \in Seq(Events)
  BY IsRecord DEF JobInv, Runs, IsTerminal
<1>2. QED BY <1>1 DEF HasEnded

\* The events a client has been sent up to that one tell it the status.
LEMMA StatusIsTold ==
  ASSUME NEW job, job.events \in Seq(Events), IsTerminal(job.status),
         NEW m \in 1 .. Len(job.events), EndsAt(job, m),
         NEW sent \in Seq(Events), Extends(sent, job.events), NEW p \in DOMAIN sent, sent[p].last
  PROVE  Len(sent) >= Len(UpToEnd(job.events)) /\ ClientStatus(sent) = job.status
<1> DEFINE all  == job.events
           ends == {i \in DOMAIN all : all[i].last}
           of   == {i \in DOMAIN sent : sent[i].type \in JobEvents}
<1>1. /\ Len(sent) \in Nat /\ Len(all) \in Nat /\ Len(sent) <= Len(all)
      /\ DOMAIN sent = 1 .. Len(sent) /\ DOMAIN all = 1 .. Len(all)
      /\ \A i \in 1 .. Len(sent) : all[i] = sent[i] /\ i \in DOMAIN all
  BY DEF Extends
<1>2. /\ all[m].type = job.status /\ m \in Nat
      /\ \A i \in DOMAIN all : i \in Nat /\ (all[i].last <=> i >= m)
      /\ \A i \in DOMAIN all : i > m => all[i].type \notin JobEvents
  BY <1>1 DEF EndsAt
<1>3. p >= m /\ p <= Len(sent) /\ p \in Nat
  BY <1>1, <1>2
<1>4. m \in DOMAIN sent /\ m <= Len(sent) /\ sent[m] = all[m]
  <2>1. m <= Len(sent) /\ m >= 1
    BY <1>1, <1>2, <1>3
  <2>2. QED BY <1>1, <1>2, <2>1
<1>5. Len(UpToEnd(all)) = m
  <2>1. m \in ends /\ \A i \in ends : i \in Nat /\ m <= i
    <3>1. m >= m
      BY <1>2
    <3>2. QED BY <1>1, <1>2, <3>1
  <2> HIDE DEF all
  <2>2. UpToEnd(all) = IF ends = {} THEN all
                       ELSE SubSeq(all, 1, CHOOSE i \in ends : \A k \in ends : i <= k)
    BY DEF UpToEnd
  <2> HIDE DEF ends
  <2>3. \A i \in ends : (\A k \in ends : i <= k) => i = m
    BY <1>2, <2>1
  <2>4. (CHOOSE i \in ends : \A k \in ends : i <= k) = m
    BY <2>1, <2>3
  <2>5. UpToEnd(all) = SubSeq(all, 1, m)
    BY <2>1, <2>2, <2>4
  <2>6. all \in Seq(Events) /\ m \in 1 .. Len(all)
    BY DEF all
  <2>7. Len(SubSeq(all, 1, m)) = m
    BY <2>6
  <2>8. QED BY <2>5, <2>7
<1>6. ClientStatus(sent) = job.status
  <2>1. job.status \in JobEvents
    BY DEF IsTerminal, JobEvents
  <2>2. m \in of /\ \A i \in of : i \in Nat /\ i <= m
    <3>1. m \in of
      BY <1>2, <1>4, <2>1
    <3>2. ASSUME NEW i \in of PROVE i \in Nat /\ i <= m
      <4>1. i \in 1 .. Len(sent) /\ all[i] = sent[i] /\ i \in DOMAIN all /\ i \in Nat
        BY <1>1
      <4>2. ~(i > m)
        BY <1>2, <4>1
      <4>3. QED BY <1>2, <4>1, <4>2
    <3>3. QED BY <3>1, <3>2
  <2>3. ClientStatus(sent) = IF of = {} THEN "running"
                             ELSE sent[CHOOSE i \in of : \A k \in of : k <= i].type
    BY DEF ClientStatus
  <2> HIDE DEF of
  <2>4. \A i \in of : (\A k \in of : k <= i) => i = m
    BY <1>2, <2>2
  <2>5. (CHOOSE i \in of : \A k \in of : k <= i) = m
    <3>1. \A k \in of : k <= m
      BY <2>2
    <3>2. QED BY <2>2, <2>4, <3>1
  <2>6. QED BY <1>2, <1>4, <2>2, <2>3, <2>5
<1>7. QED BY <1>2, <1>4, <1>5, <1>6

\* What a viewer was sent is what its client has to report.
LEMMA InvTold == Inv => StreamsAreFaithful
<1> SUFFICES ASSUME Inv, NEW v \in Viewers, viewers[v] # None
             PROVE  LET job  == jobs[viewers[v].job]
                        sent == viewers[v].sent
                    IN  /\ sent = SubSeq(job.events, 1, Len(sent))
                        /\ viewers[v].state = "open" => ~IsTerminal(job.status) /\ sent = job.events
                        /\ viewers[v].state = "ended" =>
                             /\ Len(sent) >= Len(UpToEnd(job.events))
                             /\ IsTerminal(job.status) /\ ClientStatus(sent) = job.status
  BY DEF StreamsAreFaithful
<1>1. viewers[v] \in Streams /\ ViewerInv(v)
  BY DEF Inv
<1>2. PICK job : job = jobs[viewers[v].job]
  OBVIOUS
<1>3. PICK sent : sent = viewers[v].sent
  OBVIOUS
<1>4. /\ sent \in Seq(Events) /\ job # None /\ JobInv(job) /\ job.events \in Seq(Events)
      /\ Extends(sent, job.events)
  <2>1. sent \in Seq(Events) /\ viewers[v].job \in Jobs
    BY <1>1, <1>3 DEF Streams
  <2>2. job # None /\ Extends(sent, job.events)
    BY <1>1, <1>2, <1>3 DEF ViewerInv
  <2>3. JobInv(job)
    BY <1>2, <2>1, <2>2 DEF Inv
  <2>4. QED BY <2>1, <2>2, <2>3, IsRecord
<1>5. sent = SubSeq(job.events, 1, Len(sent))
  <2> DEFINE n == Len(sent)
             part == SubSeq(job.events, 1, n)
  <2>1. /\ n \in Nat /\ n <= Len(job.events) /\ \A i \in 1 .. n : job.events[i] = sent[i]
        /\ \A i \in 1 .. n : sent[i] \in Events
    BY <1>4 DEF Extends
  <2> HIDE DEF n
  <2>2. \A i \in 1 .. n : job.events[i] \in Events
    BY <2>1
  <2>3. /\ part \in Seq(Events) /\ Len(part) = IF 1 <= n THEN n - 1 + 1 ELSE 0
        /\ \A i \in 1 .. n - 1 + 1 : part[i] = job.events[1 + i - 1]
    BY <2>1, <2>2, SubSeqProperties
  <2> HIDE DEF part
  <2>4. Len(part) = n /\ \A i \in 1 .. n : part[i] = job.events[i]
    BY <2>1, <2>3
  <2>5. sent = part
    BY <1>4, <2>1, <2>3, <2>4 DEF n
  <2>6. QED BY <2>5 DEF part, n
<1>6. viewers[v].state = "open" => ~IsTerminal(job.status) /\ sent = job.events
  BY <1>1, <1>2, <1>3 DEF ViewerInv
<1>7. viewers[v].state = "ended" =>
        /\ Len(sent) >= Len(UpToEnd(job.events))
        /\ IsTerminal(job.status) /\ ClientStatus(sent) = job.status
  <2> SUFFICES ASSUME viewers[v].state = "ended"
               PROVE  /\ Len(sent) >= Len(UpToEnd(job.events))
                      /\ IsTerminal(job.status) /\ ClientStatus(sent) = job.status
    OBVIOUS
  <2>1. IsTerminal(job.status) /\ \E p \in DOMAIN sent : sent[p].last
    BY <1>1, <1>2, <1>3 DEF ViewerInv
  <2>2. PICK m \in 1 .. Len(job.events) : EndsAt(job, m)
    BY <1>4, <2>1, EndedAt
  <2>3. QED BY <1>4, <2>1, <2>2, StatusIsTold
<1>8. QED BY <1>2, <1>3, <1>5, <1>6, <1>7

\* The outcome of a job explains its issues.
LEMMA InvExplained == Inv => IssuesAreExplained
<1> SUFFICES ASSUME Inv, NEW j \in Jobs, NEW job, job = jobs[j], job # None,
                    job.status \in {"completed", "completed_with_issues"}
             PROVE  /\ Has(job, "spec.detected") \/ Has(job, "spec.missing")
                    /\ Has(job, "spec.detected") =>
                         /\ \A i, k \in Review(job) : i < k => CheckAt(job, i) < CheckAt(job, k)
                         /\ {CheckAt(job, i) : i \in Review(job)} = DOMAIN Checks
                    /\ job.issues = Cardinality(FailedChecks(job))
                                    + (IF Has(job, SummaryLost) THEN 1 ELSE 0)
                    /\ job.status = "completed" <=> job.issues = 0
  BY DEF IssuesAreExplained, SummaryLost
<1>1. Explained(job) /\ Outcome(job)
  BY DEF Inv, JobInv, Runs, HasEnded
<1>2. DOMAIN Checks = 1 .. 4
  BY DEF Checks
<1>3. Checked(job, 4) =>
        /\ Has(job, "spec.detected")
        /\ \A i, k \in Review(job) : i < k => CheckAt(job, i) < CheckAt(job, k)
        /\ {CheckAt(job, i) : i \in Review(job)} = DOMAIN Checks
  BY <1>2 DEF Checked
<1>4. QED BY <1>1, <1>3 DEF Explained, Outcome

\* What viewers and reviews are told of a job is what happened to it, however
\* its callbacks, its viewers and late exits interleave (job-store.ts,
\* server.ts, client.ts, runner.ts).
THEOREM JobsAreTold == Spec => []JobIsTold
<1>1. Inv => JobIsTold
  BY InvTold, InvExplained DEF JobIsTold
<1>2. QED BY InvHolds, <1>1, PTL

-----------------------------------------------------------------------------
(* A job's life.                                                            *)

StatusOf(j) == IF jobs[j] = None THEN "none" ELSE jobs[j].status
IsBusy(j) == jobs[j] # None /\ jobs[j].child # None

\* The status of a job and whether a command runs for it, by its invariant.
LEMMA StatusAndChild ==
  ASSUME NEW job, JobInv(job)
  PROVE  \/ job.status = "running"
         \/ job.status \in Life!Ended /\ job.child = None /\ IsTerminal(job.status)
  BY DEF JobInv, Runs, HasEnded, IsTerminal, Life!Ended

\* A step of one job is a step of its life, or none.
LEMMA MovesLive ==
  ASSUME Inv, NEW j \in Jobs, Moves(j)
  PROVE  [Life!Next]_Life!jobVars
<1> DEFINE before == [k \in Jobs |-> StatusOf(k)]
           after  == [k \in Jobs |-> StatusOf(k)']
           at     == {k \in Jobs : IsBusy(k)}
           then   == {k \in Jobs : IsBusy(k)'}
<1>1. PICK new \in JobRecords : Update(j, new) /\ JobInv(new) /\ Goes(jobs[j], new)
  BY DEF Moves
<1>2. /\ new # None /\ jobs'[j] = new
      /\ \A k \in Jobs : k # j => jobs'[k] = jobs[k]
  BY <1>1, NoneIsApart DEF Update, Inv
<1>3. /\ StatusOf(j)' = new.status /\ (IsBusy(j)' <=> new.child # None)
      /\ \A k \in Jobs : k # j => StatusOf(k)' = StatusOf(k) /\ (IsBusy(k)' <=> IsBusy(k))
  BY <1>2 DEF StatusOf, IsBusy
<1>4. after = [before EXCEPT ![j] = new.status]
  BY <1>3
<1>5. then = IF new.child # None THEN at \union {j} ELSE at \ {j}
  BY <1>3
<1>6. /\ before[j] = StatusOf(j) /\ before \in [Jobs -> {StatusOf(k) : k \in Jobs}]
      /\ j \in at <=> IsBusy(j)
  OBVIOUS
<1>7. CASE jobs[j] = None
  <2>1. before[j] = "none" /\ j \notin at
    BY <1>7 DEF StatusOf, IsBusy
  <2>2. new.status = "running" /\ new.child = None
    BY <1>1, <1>7 DEF Goes
  <2>3. then = at /\ after = [before EXCEPT ![j] = "running"]
    BY <1>4, <1>5, <2>1, <2>2
  <2>4. Life!Submit(j)
    BY <2>1, <2>3 DEF Life!Submit, StatusOf, IsBusy
  <2>5. QED BY <2>4 DEF Life!Next
<1>8. CASE jobs[j] # None /\ jobs[j].status = "running"
  <2>1. before[j] = "running"
    BY <1>8 DEF StatusOf
  <2>2. CASE new.status = "running"
    <3>1. after = before
      BY <1>4, <1>6, <2>1, <2>2
    <3>2. then \in {at, at \union {j}, at \ {j}}
      BY <1>5
    <3>3. Life!Work(j)
      BY <2>1, <3>1, <3>2 DEF Life!Work, StatusOf, IsBusy
    <3>4. QED BY <3>3 DEF Life!Next
  <2>3. CASE new.status \in Life!Ended /\ new.child = None
    <3>1. after \in {[before EXCEPT ![j] = s] : s \in Life!Ended}
      BY <1>4, <2>3
    <3>2. then = at \ {j}
      BY <1>5, <2>3
    <3>3. Life!End(j)
      BY <2>1, <3>1, <3>2 DEF Life!End, StatusOf, IsBusy
    <3>4. QED BY <3>3 DEF Life!Next
  <2>4. QED BY <1>1, <2>2, <2>3, StatusAndChild
<1>9. CASE jobs[j] # None /\ jobs[j].status # "running"
  <2>1. JobInv(jobs[j])
    BY <1>9 DEF Inv
  <2>2. IsTerminal(jobs[j].status) /\ jobs[j].child = None
    BY <1>9, <2>1, StatusAndChild
  <2>3. new.status = jobs[j].status
    BY <1>1, <1>9, <2>2 DEF Goes
  <2>4. new.child = None
    BY <1>1, <1>9, <2>3, StatusAndChild
  <2>5. before[j] = new.status /\ j \notin at
    BY <1>9, <2>2, <2>3 DEF StatusOf, IsBusy
  <2>6. after = before /\ then = at
    BY <1>4, <1>5, <1>6, <2>4, <2>5
  <2>7. UNCHANGED Life!jobVars
    BY <2>6 DEF Life!jobVars, StatusOf, IsBusy
  <2>8. QED BY <2>7
<1>10. QED BY <1>7, <1>8, <1>9

\* A job ends once, with no command of it running, and starts nothing more,
\* not even for a late "close" or a query (runner.ts, job-store.ts).
THEOREM JobsLiveOnce == Spec => ImplementsJobLife
<1>1. Init => Life!Init
  BY DEF Init, Life!Init
<1>2. Inv /\ [Next]_vars => [Life!Next]_Life!jobVars
  <2> SUFFICES ASSUME Inv, [Next]_vars PROVE [Life!Next]_Life!jobVars
    OBVIOUS
  <2>1. ASSUME jobs' = jobs PROVE UNCHANGED Life!jobVars
    BY <2>1 DEF Life!jobVars
  <2>2. CASE UNCHANGED vars
    BY <2>1, <2>2 DEF vars
  <2>3. CASE Next
    <3>1. ASSUME NEW v \in Viewers, Disconnect(v) \/ \E j \in Jobs : StreamEvents(v, j)
          PROVE  jobs' = jobs
      BY <3>1 DEF Disconnect, StreamEvents
    <3>2. QED BY <2>1, <2>3, <3>1, NextMoves, MovesLive
  <2>4. QED BY <2>2, <2>3
<1>3. QED BY InvHolds, <1>1, <1>2, PTL DEF Spec, ImplementsJobLife, Life!Spec
=============================================================================
