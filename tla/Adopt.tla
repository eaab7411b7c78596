------------------------------- MODULE Adopt -------------------------------
(***************************************************************************)
(* clayers adopt (clayers/src/adopt.rs, gitignore.rs): the files it puts   *)
(* into a project and keeps current as the tool is upgraded, next to what  *)
(* the user writes into the same files. A command makes a list of what to  *)
(* write and writes one file after the other; it can be cut off between    *)
(* two of them. The managed content of a file is the version of the tool   *)
(* it comes from; CLAUDE.md, AGENTS.md and .gitignore are sequences of     *)
(* lines.                                                                  *)
(***************************************************************************)
EXTENDS Naturals, Sequences, SequencesExt, FiniteSets

CONSTANTS
  None,
  Xsds, Skills,
  MaxVersion, MaxEdits, MaxCommands    \* bounds

Schemas == Xsds \cup {"catalog.xml"}
Texts == {"CLAUDE.md", "AGENTS.md", ".gitignore"}

VARIABLES
  version,       \* of the tool
  planted,       \* schema or skill -> the version there, or None
  spec,          \* clayers/<project>: "none", "directory", "index" or "done"
  text,          \* file -> its lines, or None
  todo,          \* what the command has still to write
  command,       \* the command that runs or ended last, "none" after anything else
  theirs,        \* file -> what is the user's in it since the last edit, see Theirs
  edits, commands

vars == <<version, planted, spec, text, todo, command, theirs, edits, commands>>

-----------------------------------------------------------------------------
(* Managed blocks.                                                           *)

Open == <<"open", 0>>
Close == <<"close", 0>>
Block(v) == <<Open, <<"managed", v>>, Close>>
User(n) == <<"user", n>>

\* str::find of a marker, from a line on: the first one, or 0.
First(lines, marker, from) ==
  LET at == {i \in from .. Len(lines) : lines[i] = marker} IN IF at = {} THEN 0 ELSE CHOOSE i \in at : \A j \in at : i <= j

FirstOpen(lines) == First(lines, Open, 1)
\* The closing marker of the first opening one.
CloseAfter(lines) == IF FirstOpen(lines) = 0 THEN 0 ELSE First(lines, Close, FirstOpen(lines))

\* A block in the place of the lines from `first` to `last`.
Replace(lines, first, last, block) == SubSeq(lines, 1, first - 1) \o block \o SubSeq(lines, last + 1, Len(lines))

\* splice_block: the first block is replaced where it is; a file without one,
\* or with an opening marker that nothing closes, gets it at its end.
Splice(lines, block) ==
  IF CloseAfter(lines) = 0 THEN lines \o block
  ELSE Replace(lines, FirstOpen(lines), CloseAfter(lines), block)

\* Mutant of Amend: the block is put after the old one.
AmendAppends(lines, block) == lines \o block

\* amend_agent_file: the closing marker is the first of the file, so that the
\* lines between it and an opening one below it are repeated.
Amend(lines, block) ==
  IF FirstOpen(lines) = 0 \/ First(lines, Close, 1) = 0 THEN lines \o block
  ELSE Replace(lines, FirstOpen(lines), First(lines, Close, 1), block)

-----------------------------------------------------------------------------
(* The user's lines.                                                         *)

Markers(lines) == SelectSeq(lines, LAMBDA l : l \in {Open, Close})
Paired(lines) == Markers(lines) \in {<<>>, <<Open, Close>>}

\* What is the user's beyond doubt: all lines outside the managed block, or, if
\* the markers are no pair, those above the first of them.
Theirs(lines) ==
  CASE lines = None -> [paired |-> TRUE, lines |-> <<>>]
    [] lines # None /\ Paired(lines) ->
         [paired |-> TRUE, lines |-> IF Markers(lines) = <<>> THEN lines ELSE Splice(lines, <<>>)]
    [] OTHER ->
         [paired |-> FALSE,
          lines |-> SubSeq(lines, 1, (CHOOSE i \in DOMAIN lines : /\ lines[i] \in {Open, Close}
                                        /\ \A j \in 1 .. i - 1 : lines[j] \notin {Open, Close}) - 1)]

-----------------------------------------------------------------------------
(* What is there, and whether it is current.                                 *)

HasMarker(f) == text[f] # None /\ Open \in ToSet(text[f])

IsAdopted == (\E x \in Xsds : planted[x] # None) \/ HasMarker("CLAUDE.md") \/ HasMarker("AGENTS.md")

\* The file the instructions are in, or go to.
AgentFile == IF text["CLAUDE.md"] # None THEN "CLAUDE.md" ELSE "AGENTS.md"

\* extract_between_markers finds the managed lines in the first block.
InstructionsCurrent ==
  LET lines == text[AgentFile]
  IN  /\ lines # None /\ CloseAfter(lines) # 0
      /\ SubSeq(lines, FirstOpen(lines), CloseAfter(lines)) = Block(version)

\* gitignore::check is content with the block anywhere in the file.
IgnoreCurrent ==
  LET lines == text[".gitignore"]
  IN  lines # None /\ \E i, j \in DOMAIN lines : SubSeq(lines, i, j) = Block(version)

Current(item) ==
  CASE item \in Schemas \cup Skills -> planted[item] = version
    [] item = "instructions"        -> InstructionsCurrent
    [] item = ".gitignore"          -> IgnoreCurrent

SkillList == SetToSeq(Skills)
SchemaList == SetToSeq(Schemas)

\* Mutant of Items: the instructions are left out.
ItemsOfSchemas == SchemaList \o <<".gitignore">> \o SkillList

\* check_freshness and check_skills_freshness, in their order.
Items == SchemaList \o <<"instructions", ".gitignore">> \o SkillList

\* Every skill that is not current has all of them written.
Writes(item) == IF item \in Skills THEN SkillList ELSE <<item>>

-----------------------------------------------------------------------------
(* The command.                                                              *)

Begin(c, list) ==
  /\ todo = <<>> /\ commands < MaxCommands
  /\ todo' = list /\ command' = c /\ commands' = commands + 1
  /\ UNCHANGED <<version, planted, spec, text, theirs, edits>>

\* A project that has not been adopted: everything, and the skills if wanted.
AdoptNew(skills) ==
  /\ ~IsAdopted
  /\ Begin("adopt",
           SchemaList \o <<".gitignore">>
             \o (IF spec = "none" THEN <<"directory", "index", "revision">> ELSE <<>>)
             \o <<"instructions">> \o (IF skills THEN SkillList ELSE <<>>))

\* --update, and --skills alone. (Without either, or with everything current,
\* nothing is written.)
Outdated == SelectSeq(Items, LAMBDA i : ~Current(i))

UpdateAdopted ==
  /\ IsAdopted /\ Outdated # <<>>
  /\ Begin("update", FlattenSeq([i \in DOMAIN Outdated |-> Writes(Outdated[i])]))

PlantSkills ==
  /\ IsAdopted /\ \E k \in Skills : ~Current(k)
  /\ Begin("skills", SkillList)

\* A file that is not there is made of the block alone.
Put(f, amended) ==
  /\ text' = [text EXCEPT ![f] = IF @ = None THEN Block(version) ELSE amended]
  /\ UNCHANGED <<planted, spec>>

Write ==
  /\ todo # <<>>
  /\ todo' = Tail(todo)
  /\ CASE Head(todo) \in Schemas \cup Skills ->
            planted' = [planted EXCEPT ![Head(todo)] = version] /\ UNCHANGED <<spec, text>>
       [] Head(todo) = "instructions" -> Put(AgentFile, Amend(text[AgentFile], Block(version)))
       [] Head(todo) = ".gitignore" -> Put(".gitignore", Splice(text[".gitignore"], Block(version)))
       [] Head(todo) = "directory" -> spec' = "directory" /\ UNCHANGED <<planted, text>>
       [] Head(todo) = "index" -> spec' = "index" /\ UNCHANGED <<planted, text>>
       [] Head(todo) = "revision" -> spec' = "done" /\ UNCHANGED <<planted, text>>
  /\ UNCHANGED <<version, command, theirs, edits, commands>>

\* The process is killed, or a file cannot be written.
CutOff ==
  /\ todo # <<>>
  /\ todo' = <<>> /\ command' = "none"
  /\ UNCHANGED <<version, planted, spec, text, theirs, edits, commands>>

-----------------------------------------------------------------------------
(* The user, while no command runs.                                          *)

Touch == todo = <<>> /\ edits < MaxEdits /\ edits' = edits + 1 /\ command' = "none"

Change(f, lines) ==
  /\ text' = [text EXCEPT ![f] = lines]
  /\ theirs' = [theirs EXCEPT ![f] = Theirs(lines)]
  /\ UNCHANGED planted

\* A line is written anywhere, in the managed block too; it may be a marker.
EditText(f, i, line) ==
  /\ Touch
  /\ LET lines == IF text[f] = None THEN <<>> ELSE text[f]
     IN  i <= Len(lines) /\ Change(f, InsertAt(lines, i + 1, line))
  /\ UNCHANGED <<version, spec, todo, commands>>

\* Any line is removed, a marker too.
RemoveLine(f, i) ==
  /\ Touch /\ text[f] # None /\ i \in DOMAIN text[f]
  /\ Change(f, RemoveAt(text[f], i))
  /\ UNCHANGED <<version, spec, todo, commands>>

Delete(f) ==
  /\ Touch
  /\ IF f \in Texts
     THEN Change(f, None)
     ELSE planted' = [planted EXCEPT ![f] = None] /\ UNCHANGED <<text, theirs>>
  /\ UNCHANGED <<version, spec, todo, commands>>

Upgrade ==
  /\ todo = <<>> /\ version < MaxVersion
  /\ version' = version + 1 /\ command' = "none"
  /\ UNCHANGED <<planted, spec, text, todo, theirs, edits, commands>>

\* A project with or without files of its own.
Init ==
  /\ version = 1
  /\ planted = [i \in Schemas \cup Skills |-> None]
  /\ spec \in {"none", "done"}
  /\ text \in [Texts -> {None, <<User(0)>>}]
  /\ theirs = [f \in Texts |-> Theirs(text[f])]
  /\ todo = <<>> /\ command = "none"
  /\ edits = 0 /\ commands = 0

Next ==
  \/ \E skills \in BOOLEAN : AdoptNew(skills)
  \/ UpdateAdopted \/ PlantSkills \/ Write \/ CutOff
  \/ \E f \in Texts, i \in 0 .. 4, line \in {User(1), Open, Close} : EditText(f, i, line)
  \/ \E f \in Texts, i \in 1 .. 4 : RemoveLine(f, i)
  \/ \E f \in Texts \cup Schemas : Delete(f)
  \/ Upgrade

Spec == Init /\ [][Next]_vars

-----------------------------------------------------------------------------
\* gitignore.rs:32 promises it, and the agent file is treated alike: as long as
\* the user leaves the two markers a pair, or none, no line outside the managed
\* block is lost, moved or repeated, whatever was upgraded, deleted or cut off
\* before, and no file has two blocks. If not, the lines above the first marker
\* stay; those below it do not: an update after the user removed the closing
\* marker appends a block, and the next one replaces all from the first marker on.
UserTextKept ==
  \A f \in Texts :
    IF theirs[f].paired THEN Theirs(text[f]) = theirs[f]
    ELSE IsPrefix(theirs[f].lines, text[f])

\* An update that ends leaves everything current, from any state an earlier
\* command that was cut off, an older tool or the user left behind. Only
\* instructions between markers that are no pair may stay outdated.
UpdateSettles ==
  todo = <<>> /\ command = "update" =>
    \A item \in Schemas \cup Skills \cup {"instructions", ".gitignore"} :
      Current(item) \/ (item = "instructions" /\ ~theirs[AgentFile].paired)

\* An adoption that ends leaves everything current but the skills (and
\* instructions between markers that are no pair), and a
\* specification directory. (One that was cut off while it wrote the starter
\* specification leaves it incomplete, and nothing completes it later.)
AdoptCompletes ==
  todo = <<>> /\ command = "adopt" =>
    /\ spec # "none" /\ \A item \in Schemas \cup {".gitignore"} : Current(item)
    /\ Current("instructions") \/ ~theirs[AgentFile].paired

AdoptReport == UserTextKept /\ UpdateSettles /\ AdoptCompletes
=============================================================================
