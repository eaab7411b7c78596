------------------------------- MODULE Serve --------------------------------
(* clayers serve (serve.rs): the configuration file is read at the start and *)
(* again after every change; a thread debounces the file events and spawns a *)
(* task for each reload, which replaces the repositories of the provider and *)
(* then the tokens of the validator (websocket.rs).                          *)
EXTENDS Naturals

CONSTANTS
  None,
  Broken,        \* a file that cannot be parsed or names a repository that cannot be opened
  Names,         \* repository names
  Tokens,        \* bearer tokens
  MaxWrites      \* how often the file is written

VARIABLES
  file,          \* what the configuration file holds
  writes,
  pc,            \* where the command and then its watcher thread are
  loaded,        \* what was read last
  events,        \* a file event waits to be received
  tasks,         \* reloads under way: [conf, at, age]
  repos, tokens, \* what is served, and the token set of the validator
  validator,     \* connections are put before the validator
  current,       \* the last configuration that was read and could be opened
  missed,        \* the file was written after it was read, before it was watched
  overlapped     \* two reloads were under way at once

vars == <<file, writes, pc, loaded, events, tasks, repos, tokens, validator, current, missed,
          overlapped>>

Good == [repos : SUBSET Names, tokens : SUBSET Tokens]

Init ==
  /\ file \in Good \cup {Broken}
  /\ writes = 0 /\ pc = "start" /\ loaded = None /\ events = FALSE
  /\ tasks = {} /\ repos = {} /\ tokens = {} /\ validator = FALSE /\ current = None
  /\ missed = FALSE /\ overlapped = FALSE

\* An editor writes the file.
Write ==
  /\ writes < MaxWrites
  /\ writes' = writes + 1
  /\ file' \in (Good \cup {Broken}) \ {file}
  /\ events' = (events \/ pc \in {"wait", "debounce", "spawn"})
  /\ missed' = (missed \/ pc = "bound")
  /\ UNCHANGED <<pc, loaded, tasks, repos, tokens, validator, current, overlapped>>

\* cmd_serve reads the configuration, opens its repositories and binds.  The
\* server is given a validator if the configuration has tokens.
Start ==
  /\ pc = "start"
  /\ loaded' = file
  /\ IF file = Broken
     THEN pc' = "over" /\ UNCHANGED <<repos, tokens, validator, current>>
     ELSE /\ pc' = "bound" /\ current' = file
          /\ repos' = file.repos /\ tokens' = file.tokens /\ validator' = (file.tokens # {})
  /\ UNCHANGED <<file, writes, events, tasks, missed, overlapped>>

\* The watcher is made after the server is bound.  One that cannot be made is
\* a warning: the server goes on, and never reads the file again.
Watch ==
  /\ pc = "bound" /\ pc' \in {"wait", "unwatched"}
  /\ UNCHANGED <<file, writes, loaded, events, tasks, repos, tokens, validator, current, missed,
                 overlapped>>

-----------------------------------------------------------------------------
(* The watcher thread.                                                       *)

Event ==
  /\ pc = "wait" /\ events
  /\ events' = FALSE /\ pc' = "debounce"
  /\ UNCHANGED <<file, writes, loaded, tasks, repos, tokens, validator, current, missed,
                 overlapped>>

\* Another event within 200 ms.
Drain ==
  /\ pc = "debounce" /\ events
  /\ events' = FALSE
  /\ UNCHANGED <<file, writes, pc, loaded, tasks, repos, tokens, validator, current, missed,
                 overlapped>>

\* 200 ms without one; load_config.
Load ==
  /\ pc = "debounce" /\ ~events
  /\ loaded' = file /\ pc' = "spawn"
  /\ missed' = FALSE
  /\ UNCHANGED <<file, writes, events, tasks, repos, tokens, validator, current, overlapped>>

\* build_repos; what cannot be parsed or opened leaves the old configuration.
Spawn ==
  /\ pc = "spawn" /\ pc' = "wait"
  /\ IF loaded = Broken THEN UNCHANGED <<tasks, current, overlapped>>
     ELSE /\ current' = loaded
          /\ tasks' = tasks \cup {[conf |-> loaded, at |-> "repos", age |-> writes]}
          /\ overlapped' = (overlapped \/ tasks # {})
  /\ UNCHANGED <<file, writes, loaded, events, repos, tokens, missed, validator>>

-----------------------------------------------------------------------------
(* A reload, a task of the runtime.                                          *)

\* Mutant of ReloadRepos: repositories that are no longer configured stay.
ReloadReposAdds(t) ==
  /\ t.at = "repos"
  /\ repos' = repos \cup t.conf.repos
  /\ tasks' = (tasks \ {t}) \cup {[t EXCEPT !.at = "tokens"]}
  /\ UNCHANGED <<file, writes, pc, loaded, events, tokens, validator, current, missed, overlapped>>

ReloadRepos(t) ==
  /\ t.at = "repos"
  /\ repos' = t.conf.repos
  /\ tasks' = (tasks \ {t}) \cup {[t EXCEPT !.at = "tokens"]}
  /\ UNCHANGED <<file, writes, pc, loaded, events, tokens, validator, current, missed, overlapped>>

UpdateTokens(t) ==
  /\ t.at = "tokens"
  /\ tokens' = t.conf.tokens
  /\ tasks' = tasks \ {t}
  /\ UNCHANGED <<file, writes, pc, loaded, events, repos, validator, current, missed, overlapped>>

Thread == Event \/ Drain \/ Load \/ Spawn
Reload == \E t \in tasks : ReloadRepos(t) \/ UpdateTokens(t)

Next == Write \/ Start \/ Watch \/ Thread \/ Reload

Spec == Init /\ [][Next]_vars

\* The command, its thread and the runtime run.
Fairness == WF_vars(Start) /\ WF_vars(Watch) /\ WF_vars(Thread) /\ WF_vars(Reload)

FairSpec == Spec /\ Fairness

-----------------------------------------------------------------------------
(* Properties.                                                               *)

\* Who may connect; None is a client without a token.
Admitted == IF validator THEN tokens ELSE Tokens \union {None}

AtRest == tasks = {} /\ current # None /\ pc # "spawn" /\ ~overlapped

\* With no reload under way, what is served is the last configuration that
\* could be opened: its repositories, to the holders of its tokens, or to
\* everyone if the server was started without tokens.  Unless two reloads were
\* once under way together.
ServesLastGood ==
  AtRest =>
    /\ repos = current.repos
    /\ Admitted = IF validator THEN current.tokens ELSE Tokens \union {None}

\* "The token set can be updated at runtime through config hot-reload": with
\* no reload under way, the tokens of the last configuration that has some
\* decide who may connect.
TokensAreReloaded == AtRest /\ current.tokens # {} => Admitted = current.tokens

\* Debouncing loses no change: once the file rests, it has been read as it is
\* and its reload has ended, if it is watched and was not written between the
\* start and the first watch.
UpToDate == pc \in {"over", "unwatched"} \/ missed \/ (loaded = file /\ tasks = {})
=============================================================================
