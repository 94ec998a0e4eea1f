------------------------------ MODULE HostTree ------------------------------
(***************************************************************************)
(* The directory tree under the Q-Vault home, as the shell, the trash and  *)
(* the file manager see it through pathlib and shutil on a POSIX system.   *)
(* A tree is a function from its paths to DirMark or to a file's content;  *)
(* a path is the sequence of names below the home, which always exists.    *)
(***************************************************************************)
EXTENDS Naturals, Sequences, SequencesExt, FiniteSets

Home == << >>
DirMark == {"directory"}   \* no file's content

Exists(fs, p) == p = Home \/ p \in DOMAIN fs
IsDir(fs, p) == p = Home \/ (p \in DOMAIN fs /\ fs[p] = DirMark)
IsFile(fs, p) == Exists(fs, p) /\ ~IsDir(fs, p)
Files(fs) == {p \in DOMAIN fs : fs[p] # DirMark}

\* p itself and what is below it.
Subtree(fs, p) == {q \in DOMAIN fs : IsPrefix(p, q)}
Children(fs, p) == {q \in DOMAIN fs : Len(q) = Len(p) + 1 /\ IsPrefix(p, q)}

With(fs, p, content) == [q \in DOMAIN fs \cup {p} |-> IF q = p THEN content ELSE fs[q]]
Without(fs, p) == [q \in DOMAIN fs \ Subtree(fs, p) |-> fs[q]]

\* mkdir(parents=True): the missing ancestors of p, and p; nothing is made when one
\* of them is a file.
PathTo(p) == {SubSeq(p, 1, i) : i \in 1..Len(p)}
Blocked(fs, p) == \E q \in PathTo(p) : IsFile(fs, q)
WithDirs(fs, p) ==
  IF Blocked(fs, p) THEN fs
  ELSE [q \in DOMAIN fs \cup PathTo(p) |-> IF q \in DOMAIN fs THEN fs[q] ELSE DirMark]

\* open(p, "w") works: p is no directory and its parent is one.
Writable(fs, p) == ~IsDir(fs, p) /\ IsDir(fs, Front(p))
Write(fs, p, content) == IF Writable(fs, p) THEN With(fs, p, content) ELSE fs

\* Path.rename: a file replaces a file, a directory an empty directory, and nothing
\* goes below itself.
CanRename(fs, p, q) ==
  /\ p # Home /\ q # Home /\ Exists(fs, p) /\ IsDir(fs, Front(q))
  /\ ~IsStrictPrefix(p, q)
  /\ Exists(fs, q) => /\ IsDir(fs, p) = IsDir(fs, q)
                      /\ IsDir(fs, q) => p = q \/ Children(fs, q) = {}

Graft(fs, p, q) ==
  LET moved == {q \o SubSeq(r, Len(p) + 1, Len(r)) : r \in Subtree(fs, p)}
      rest == Without(fs, p)
  IN [r \in DOMAIN rest \cup moved |->
        IF r \in moved THEN fs[p \o SubSeq(r, Len(q) + 1, Len(r))] ELSE rest[r]]

Renamed(fs, p, q) == IF p # q /\ CanRename(fs, p, q) THEN Graft(fs, p, q) ELSE fs

\* shutil.move: into q when that is a directory, unless the name is taken there.
MoveTarget(fs, p, q) == IF IsDir(fs, q) /\ p # q THEN Append(q, Last(p)) ELSE q
CanMove(fs, p, q) ==
  /\ p # Home /\ CanRename(fs, p, MoveTarget(fs, p, q))
  /\ IsDir(fs, q) /\ p # q => ~Exists(fs, MoveTarget(fs, p, q))
Moved(fs, p, q) ==
  IF CanMove(fs, p, q) /\ p # q THEN Graft(fs, p, MoveTarget(fs, p, q)) ELSE fs

\* shutil.copy2, and copytree without and with dirs_exist_ok.  Copying a file onto
\* itself raises; a tree is copied from what it holds at the start.
CopyInto(fs, p, q) ==
  LET copies == {q \o SubSeq(r, Len(p) + 1, Len(r)) : r \in Subtree(fs, p)}
  IN [r \in DOMAIN fs \cup copies |->
        IF r \in copies THEN fs[p \o SubSeq(r, Len(q) + 1, Len(r))] ELSE fs[r]]

CopiedFile(fs, p, q) ==
  LET target == IF IsDir(fs, q) THEN Append(q, Last(p)) ELSE q
  IN IF p # target /\ Writable(fs, target) THEN With(fs, target, fs[p]) ELSE fs

\* A file in the way of a directory, or the reverse, stops the copy: what the copy
\* has done by then stays, so such copies are left out of the model's inputs.
CopyFits(fs, p, q) ==
  /\ ~IsPrefix(p, q) /\ ~Blocked(fs, q)
  /\ \A r \in Subtree(fs, p) :
       LET t == q \o SubSeq(r, Len(p) + 1, Len(r))
       IN Exists(fs, t) => IsDir(fs, r) = IsDir(fs, t)
=============================================================================
