------------------------------ MODULE Watcher ------------------------------
(* The watch command (watcher.ts, client.ts): it polls the files of a        *)
(* repository, submits a job to the orchestrator once a change has settled,  *)
(* and takes what it finds after the run as its new baseline. The job and    *)
(* the user change files at any time; the orchestrator is as JobLife says.   *)
(*                                                                           *)
(* There is one file of each kind: "source" is the user's, "model" is what a *)
(* job generates (it holds the time it was made, so every job changes it).   *)
(* A file's signature is a number, None when there is no file. Reading a     *)
(* directory takes several steps.                                            *)
EXTENDS JobLife, Naturals

CONSTANTS
  None,
  Stream,       \* FALSE for --no-stream
  RunInitial,   \* FALSE for --no-initial
  Once,         \* TRUE for --once
  Debounce,     \* the debounce time, in polls
  MaxEdits      \* edits by the user

Files == {"source", "model"}

VARIABLES
  files,        \* the signature of each file
  edits,        \* edits so far
  wrote,        \* jobs that have written the model
  pc,           \* "walk", "wait", "submit", "run" or "over"
  goal,         \* what the walk is for: "start", "poll" or "baseline"
  listed,       \* the files the walk found in the directory
  shot,         \* the signatures it has read
  baseline,     \* the snapshot changes are told from
  candidate,    \* the changed snapshot that has to settle, or None
  age,          \* polls since the candidate was first seen
  run,          \* the job of the current run
  edited        \* the user has edited since the last run began

watchVars == <<pc, goal, listed, shot, baseline, candidate, age, run>>
vars == <<status, busy, files, edits, wrote, watchVars, edited>>

-----------------------------------------------------------------------------
(* createSnapshot.                                                           *)

Walk(for) ==
  /\ pc' = "walk" /\ goal' = for
  /\ listed' = {f \in Files : files[f] # None}
  /\ shot' = <<>>

Unchanged == UNCHANGED <<jobVars, files, edits, wrote>>

ReadFile(f) ==
  /\ pc = "walk" /\ f \notin DOMAIN shot
  /\ ~(f \in listed /\ files[f] = None)
  /\ shot' = [g \in DOMAIN shot \cup {f} |-> IF g # f THEN shot[g]
                                             ELSE IF f \in listed THEN files[f] ELSE None]
  /\ UNCHANGED <<pc, goal, listed, baseline, candidate, age, run, edited>> /\ Unchanged

\* The file was deleted after its directory was read: stat throws, and
\* nothing catches it.
StatFails(f) ==
  /\ pc = "walk" /\ f \in listed \ DOMAIN shot
  /\ files[f] = None
  /\ pc' = "over"
  /\ UNCHANGED <<goal, listed, shot, baseline, candidate, age, run, edited>> /\ Unchanged

-----------------------------------------------------------------------------
(* watchRepository and waitForStableChange.                                  *)

Started ==
  /\ pc = "walk" /\ goal = "start" /\ DOMAIN shot = Files
  /\ baseline' = shot
  /\ pc' = IF RunInitial THEN "submit" ELSE "wait"
  /\ UNCHANGED <<goal, listed, shot, candidate, age, run, edited>> /\ Unchanged

Poll ==
  /\ pc = "wait"
  /\ age' = IF age < Debounce THEN age + 1 ELSE age
  /\ Walk("poll")
  /\ UNCHANGED <<baseline, candidate, run, edited>> /\ Unchanged

Polled == pc = "walk" /\ goal = "poll" /\ DOMAIN shot = Files

SeenNoChange ==
  /\ Polled /\ shot = baseline
  /\ candidate' = None
  /\ pc' = "wait"
  /\ UNCHANGED <<goal, listed, shot, baseline, age, run, edited>> /\ Unchanged

SeenChange ==
  /\ Polled /\ shot # baseline /\ shot # candidate
  /\ candidate' = shot /\ age' = 0
  /\ pc' = "wait"
  /\ UNCHANGED <<goal, listed, shot, baseline, run, edited>> /\ Unchanged

\* Mutant of NotSettled: the time is taken again at every poll.
NotSettledRestarts ==
  /\ Polled /\ shot # baseline /\ shot = candidate /\ age < Debounce
  /\ pc' = "wait" /\ age' = 0
  /\ UNCHANGED <<goal, listed, shot, baseline, candidate, run, edited>> /\ Unchanged

NotSettled ==
  /\ Polled /\ shot # baseline /\ shot = candidate /\ age < Debounce
  /\ pc' = "wait"
  /\ UNCHANGED <<goal, listed, shot, baseline, candidate, age, run, edited>> /\ Unchanged

Settled ==
  /\ Polled /\ shot # baseline /\ shot = candidate /\ age >= Debounce
  /\ pc' = "submit"
  /\ UNCHANGED <<goal, listed, shot, baseline, candidate, age, run, edited>> /\ Unchanged

\* runWatchedJob: without --stream, the run is over when the job is accepted.
SubmitRun(j) ==
  /\ pc = "submit"
  /\ Submit(j)
  /\ run' = j /\ candidate' = None /\ age' = 0
  /\ edited' = FALSE
  /\ IF Stream THEN pc' = "run" /\ UNCHANGED <<goal, listed, shot>> ELSE Walk("baseline")
  /\ UNCHANGED <<baseline, files, edits, wrote>>

\* Mutant of RunEnds: the baseline is what was seen before the run.
RunEndsAsSeen ==
  /\ pc = "run" /\ status[run] \in Ended
  /\ pc' = "wait"
  /\ UNCHANGED <<goal, listed, shot, baseline, candidate, age, run, edited>> /\ Unchanged

\* The stream of the job ends when the job does.
RunEnds ==
  /\ pc = "run" /\ status[run] \in Ended
  /\ Walk("baseline")
  /\ UNCHANGED <<baseline, candidate, age, run, edited>> /\ Unchanged

TakeBaseline ==
  /\ pc = "walk" /\ goal = "baseline" /\ DOMAIN shot = Files
  /\ baseline' = shot
  /\ pc' = IF Once THEN "over" ELSE "wait"
  /\ UNCHANGED <<goal, listed, shot, candidate, age, run, edited>> /\ Unchanged

\* SIGINT while it waits, or a server that is gone when it submits or streams.
Stop ==
  /\ pc \in {"wait", "submit", "run"}
  /\ pc' = "over"
  /\ UNCHANGED <<goal, listed, shot, baseline, candidate, age, run, edited>> /\ Unchanged

-----------------------------------------------------------------------------
(* The others.                                                               *)

\* An edit gives the file another signature, deletes it, or puts it back.
Edit ==
  /\ edits < MaxEdits
  /\ \E s \in (0 .. MaxEdits) \cup {None} :
       s # files["source"] /\ files' = [files EXCEPT !["source"] = s]
  /\ edits' = edits + 1
  /\ edited' = TRUE
  /\ UNCHANGED <<jobVars, wrote, watchVars>>

WriteModel(j) ==
  /\ j \in busy \ wrote
  /\ files' = [files EXCEPT !["model"] = IF @ = None THEN 1 ELSE @ + 1]
  /\ wrote' = wrote \cup {j}
  /\ UNCHANGED <<jobVars, edits, watchVars, edited>>

JobRuns(j) ==
  /\ Work(j) \/ End(j)
  /\ UNCHANGED <<files, edits, wrote, watchVars, edited>>

WatchInit ==
  /\ Init
  /\ files = [f \in Files |-> IF f = "source" THEN 0 ELSE None]
  /\ edits = 0 /\ wrote = {}
  /\ pc = "walk" /\ goal = "start" /\ listed = {"source"} /\ shot = <<>>
  /\ baseline = <<>> /\ candidate = None /\ age = 0 /\ run = None
  /\ edited = FALSE

\* The watcher itself, but for handing a run over and hearing of its end.
WatcherStep ==
  \/ \E f \in Files : ReadFile(f) \/ StatFails(f)
  \/ Started \/ Poll \/ SeenNoChange \/ SeenChange \/ NotSettled \/ Settled \/ TakeBaseline

WatchNext ==
  \/ WatcherStep \/ RunEnds \/ Stop \/ Edit
  \/ \E j \in Jobs : SubmitRun(j) \/ WriteModel(j) \/ JobRuns(j)

WatchSpec == WatchInit /\ [][WatchNext]_vars

\* The watcher's own steps; nobody has to edit, and no job has to end.
Fairness == WF_vars(WatcherStep)

FairSpec == WatchSpec /\ Fairness

-----------------------------------------------------------------------------
TypeOK ==
  /\ pc \in {"walk", "wait", "submit", "run", "over"} /\ goal \in {"start", "poll", "baseline"}
  /\ pc # "over" => DOMAIN shot \subseteq Files /\ age \in 0 .. Debounce
  /\ pc = "run" => status[run] # "none"
  /\ (pc \in {"walk", "over"} /\ goal = "start") \/ DOMAIN baseline = Files
  /\ candidate \notin {None, baseline} => DOMAIN candidate = Files

\* A run for a change begins only if the user has edited something since the
\* run before: what a job writes itself never starts another. watcher.ts:66-69
\* says that the new baseline prevents such a loop; it does where the job's
\* end is waited for.
RunIsAsked == \A j \in Jobs : SubmitRun(j) /\ goal = "poll" => edited
NoSelfTrigger == [][RunIsAsked]_vars

\* Once edits have stopped, a change the waiting watcher can see is followed
\* by a run, unless it is taken back or the watch is over. An edit made
\* during a run is not such a change: it is part of the baseline taken
\* afterwards.
ChangeIsVisible == pc \in {"wait", "walk"} /\ goal = "poll" /\ files # baseline
ChangeIsRun == pc \in {"submit", "over"} \/ files = baseline
=============================================================================
