-------------------------- MODULE MCAncestorSearch --------------------------
EXTENDS AncestorSearch

CONSTANTS N, MaxParents

\* Commits are numbered in the order they were made; a commit has at most
\* MaxParents distinct parents, all older.
MCCommits == 1 .. N
OlderParents(c) ==
  UNION {{s \in [1 .. n -> 1 .. c - 1] : \A i, j \in 1 .. n : s[i] = s[j] => i = j}
           : n \in 0 .. MaxParents}

\* Every graph an object store may hold.
MCHistories ==
  LET first[n \in 0 .. N] ==
        IF n = 0 THEN {<<>>}
        ELSE {Append(h, ps) : h \in first[n - 1], ps \in OlderParents(n)}
  IN  first[N]
=============================================================================
