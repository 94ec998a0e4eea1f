------------------------------ MODULE VirtualFS ------------------------------
(***************************************************************************)
(* The virtual file system of src/core/filesystem.py with its resolver,    *)
(* its permission checker and the file of /vault_data/db/vfs.bin, and the  *)
(* explorer (file_explorer_ui.py) that works on it through the shim of     *)
(* src/system/vfs.py, which moves the file system's own directory about.   *)
(*                                                                         *)
(* A node has a kind, a text and readable_by_user; owner, group, mode,     *)
(* times and the inode number are left out.  A text is 0 in the built-in   *)
(* tree, and a number of its own for everything that is written.           *)
(***************************************************************************)
EXTENDS HostTree

CONSTANTS
  Default,       \* the paths of the built-in tree: TRUE for a directory
  Names,         \* names that are typed
  Typed,         \* absolute paths that are typed
  MaxNodes,      \* bound on the nodes beside the built-in ones
  MaxTexts,      \* bound on the texts written
  MaxRestarts,   \* bound on the restarts
  Callers        \* who calls, and for how many steps

VARIABLES
  tree,          \* _tree: the nodes below the root
  cwd,           \* _cwd
  stored,        \* vfs.bin: the tree saved last, with the key it is encrypted with
  key,           \* _key: from the security engine, or the emergency one
  restarts,
  caller, steps, \* bounds: the commands alone, or the explorer beside some of them
  path, nav, idx,    \* the explorer: _current_path, _nav_history, _nav_idx
  texts,         \* history: the texts written so far
  sealed,        \* history: those that were nowhere but in /home at a lock_all
  dirty          \* history: the last save failed

explorer == <<path, nav, idx>>
history == <<texts, sealed>>
fsVars == <<tree, cwd, stored, key, restarts, explorer, history, dirty>>
vfsVars == <<fsVars, caller, steps>>

\* Whatever stands in the paths that are built in or typed.
Segment ==
  {"home", "user", "root"} \cup Names \cup UNION {Range(p) : p \in DOMAIN Default \cup Typed}

\* Every entry of the built-in tree is in a directory of it.
VfsAssumption ==
  /\ DOMAIN Default \cup Typed \subseteq Seq(Segment)
  /\ \A p \in DOMAIN Default :
       /\ p # Home /\ Default[p] \in BOOLEAN
       /\ Front(p) = Home \/ (Front(p) \in DOMAIN Default /\ Default[Front(p)])

UserHome == <<"home", "user">>
NewDir == [kind |-> "dir", text |-> 0, readable |-> TRUE]
NewFile(n) == [kind |-> "file", text |-> n, readable |-> TRUE]
BuiltIn == [p \in DOMAIN Default |-> IF Default[p] THEN NewDir ELSE NewFile(0)]
NoFile == [tree |-> BuiltIn, key |-> "none"]

VfsInit ==
  /\ tree = BuiltIn /\ cwd = UserHome /\ stored = NoFile
  /\ key = "vault" /\ restarts = 0
  /\ path = UserHome /\ nav = <<UserHome>> /\ idx = 1
  /\ texts = 0 /\ sealed = {} /\ dirty = FALSE
  /\ \E c \in Callers : caller = c.name /\ steps = c.steps

Directory(t, p) == p = Home \/ (p \in DOMAIN t /\ t[p].kind = "dir")
Readable(t, p) == IF p = Home THEN TRUE ELSE t[p].readable
TopEntry(p) == IF p = Home THEN "/" ELSE p[1]

\* PathResolver.resolve: what is typed, segment by segment, from where it starts.
Enter(p, segment) ==
  CASE segment = "." -> p
    [] segment = ".." -> (IF p = Home THEN Home ELSE Front(p))
    [] segment \notin {".", ".."} -> Append(p, segment)
Resolved(segments, from) == FoldLeft(Enter, from, segments)

-----------------------------------------------------------------------------
(* Permissions                                                             *)

CheckWritable(p, root) ==
  TopEntry(p) # "proc" /\ (root \/ TopEntry(p) \notin {"etc", "bin", "dev", "var"})
CheckRemovable(t, p, root) == root \/ Readable(t, p)
CheckEnter(t, p, root) == root \/ (TopEntry(p) # "root" /\ Readable(t, p))

\* lock_all_home: nothing below /home, nor it, is readable any more.
Revoked(t) ==
  [p \in DOMAIN t |-> IF p[1] = "home" THEN [t[p] EXCEPT !.readable = FALSE] ELSE t[p]]

-----------------------------------------------------------------------------
(* Saving                                                                  *)

Dynamic == {"proc", "sys"}
Saved(t) == [p \in {q \in DOMAIN t : q[1] \notin Dynamic} |-> t[p]]

\* _notify: the event, then save, whose failure is logged only.
Notify(t) ==
  \/ stored' = [tree |-> Saved(t), key |-> key] /\ dirty' = FALSE
  \/ UNCHANGED stored /\ dirty' = TRUE

Changed(t) ==
  /\ Cardinality(DOMAIN t \ DOMAIN BuiltIn) <= MaxNodes
  /\ \A p \in DOMAIN t : Len(p) <= 3
  /\ tree' = t /\ Notify(t)
  /\ UNCHANGED <<key, restarts>>

\* load: each top-level entry of the file replaces the built-in one.
Loaded(saved) ==
  LET tops == {p[1] : p \in DOMAIN saved}
      kept == {p \in DOMAIN BuiltIn : p[1] \notin tops}
  IN [p \in kept \cup DOMAIN saved |-> IF p \in DOMAIN saved THEN saved[p] ELSE BuiltIn[p]]

\* _refresh_proc: /proc is built anew, of the same entries, and nothing is saved.
Rebuilt(t) ==
  LET kept == {p \in DOMAIN t : p[1] # "proc"}
      built == {p \in DOMAIN BuiltIn : p[1] = "proc"}
  IN [p \in kept \cup built |-> IF p \in built THEN BuiltIn[p] ELSE t[p]]

\* The program ends, perhaps in the middle of a save, and starts again with the
\* key it can get.
Restart(torn) ==
  /\ restarts < MaxRestarts /\ restarts' = restarts + 1
  /\ key' \in {"vault", "emergency"}
  /\ LET readable == stored.key = key' /\ ~torn
     IN /\ tree' = IF readable THEN Loaded(stored.tree) ELSE BuiltIn
        /\ sealed' = IF readable /\ ~dirty THEN sealed ELSE {}
  /\ stored' = IF torn THEN [stored EXCEPT !.key = "torn"] ELSE stored
  /\ dirty' = FALSE
  /\ cwd' = UserHome /\ path' = UserHome /\ nav' = <<UserHome>> /\ idx' = 1
  /\ UNCHANGED texts

-----------------------------------------------------------------------------
(* Operations; n is a name in the working directory                        *)

Here(n) == Append(cwd, n)
InCwd(n) == Directory(tree, cwd) /\ Here(n) \in DOMAIN tree
Quiet == UNCHANGED <<cwd, explorer, sealed>>

\* _set_node: what is missing on the way, or is a file there, becomes a directory.
SetNode(t, q, sub) ==
  LET way == PathTo(Front(q))
      old == {p \in DOMAIN t : ~IsPrefix(q, p) /\ ~\E w \in way : IsStrictPrefix(w, p) /\ ~Directory(t, w)}
      new == {q \o r : r \in DOMAIN sub}
  IN [p \in old \cup way \cup new |->
        IF p \in new THEN sub[SubSeq(p, Len(q) + 1, Len(p))]
        ELSE IF p \in way THEN (IF Directory(t, p) THEN t[p] ELSE NewDir) ELSE t[p]]

Part(t, p) == [r \in {SubSeq(q, Len(p) + 1, Len(q)) : q \in Subtree(t, p)} |-> t[p \o r]]
One(node) == [r \in {<< >>} |-> node]

MkDir(n, root) ==
  /\ CheckWritable(cwd, root) /\ Directory(tree, cwd) /\ ~InCwd(n)
  /\ Changed(With(tree, Here(n), NewDir)) /\ Quiet /\ UNCHANGED texts

\* mkdir -p: a file on the way raises, before anything is made.
MkDirParents(p, root) ==
  LET files == {i \in 1..Len(p) - 1 : SubSeq(p, 1, i) \in DOMAIN tree /\ ~Directory(tree, SubSeq(p, 1, i))}
      made == [q \in DOMAIN tree \cup PathTo(p) |-> IF q \in DOMAIN tree THEN tree[q] ELSE NewDir]
  IN /\ CheckWritable(IF Len(p) > 1 THEN Front(p) ELSE cwd, root)
     /\ files = {} /\ Changed(made)
     /\ Quiet /\ UNCHANGED texts

RmDir(n) ==
  /\ InCwd(n) /\ Directory(tree, Here(n)) /\ Children(tree, Here(n)) = {}
  /\ Changed(Without(tree, Here(n))) /\ Quiet /\ UNCHANGED texts

Rm(n, recursive, root) ==
  /\ InCwd(n) /\ (Directory(tree, Here(n)) => recursive)
  /\ CheckRemovable(tree, Here(n), root)
  /\ Changed(Without(tree, Here(n))) /\ Quiet /\ UNCHANGED texts

Written(n) ==
  /\ texts < MaxTexts /\ texts' = texts + 1
  /\ Changed(With(tree, Here(n), IF InCwd(n) THEN [tree[Here(n)] EXCEPT !.text = texts + 1]
                                 ELSE NewFile(texts + 1)))

WriteFile(n, root) ==
  /\ CheckWritable(cwd, root) /\ Directory(tree, cwd) /\ ~Directory(tree, Here(n))
  /\ Written(n) /\ Quiet

\* touch, of a file that is there, changes its time only.
Touch(n, root) ==
  /\ CheckWritable(cwd, root) /\ Directory(tree, cwd)
  /\ Changed(IF InCwd(n) THEN tree ELSE With(tree, Here(n), NewFile(0)))
  /\ Quiet /\ UNCHANGED texts

\* cp and mv: into the destination when it is a directory.
Target(p, q) == IF Directory(tree, q) THEN Append(q, Last(p)) ELSE q
MayPut(q, root) == CheckWritable(IF Len(q) > 1 THEN Front(q) ELSE cwd, root)

\* Mutant: a copy is a file of its own.
FreshCopy(t, p) == [r \in DOMAIN Part(t, p) |-> [Part(t, p)[r] EXCEPT !.readable = TRUE]]

\* deepcopy: the flags are copied too, and of the root the whole tree.
DeepCopy(t, p) == IF p = Home THEN With(t, Home, NewDir) ELSE Part(t, p)

\* The root has no name to be put under in a directory, and src_parts[-1] raises.
Named(p, q) == p = Home => ~Directory(tree, q)

Cp(p, q, recursive, root) ==
  /\ Exists(tree, p) /\ (Directory(tree, p) => recursive)
  /\ Named(p, q) /\ MayPut(Target(p, q), root)
  /\ Changed(SetNode(tree, Target(p, q), DeepCopy(tree, p))) /\ Quiet /\ UNCHANGED texts

\* The entry is put into its new place and then deleted from the old one, which may
\* be the same, or above it: then it is gone.  The root as a source would become an entry
\* of itself, before the deletion raises: no set of paths stands for that.
Mv(p, q, root) ==
  /\ p \in DOMAIN tree /\ MayPut(Target(p, q), root)
  /\ Changed(Without(SetNode(tree, Target(p, q), Part(tree, p)), p)) /\ Quiet /\ UNCHANGED texts

LnSymbolic(n, root) ==
  /\ CheckWritable(cwd, root) /\ Directory(tree, cwd)
  /\ Changed(SetNode(tree, Here(n), One([NewFile(0) EXCEPT !.kind = "link"])))
  /\ Quiet /\ UNCHANGED texts

\* "Hard links are simulated as copies."
LnHard(p, n, root) ==
  /\ CheckWritable(cwd, root) /\ Directory(tree, cwd) /\ Exists(tree, p)
  /\ Changed(SetNode(tree, Here(n), DeepCopy(tree, p))) /\ Quiet /\ UNCHANGED texts

\* chmod, chown: the bits, which nothing reads back, and a save.
ChMod(n) == InCwd(n) /\ dirty /\ Changed(tree) /\ Quiet /\ UNCHANGED texts

Cd(p, root) ==
  /\ Directory(tree, p) /\ CheckEnter(tree, p, root) /\ cwd # p /\ cwd' = p
  /\ UNCHANGED <<tree, stored, key, restarts, explorer, history, dirty>>

\* "cd" and "cd ~" look at nothing.
CdHome(root) ==
  /\ cwd' = (IF root THEN <<"root">> ELSE UserHome) /\ cwd' # cwd
  /\ UNCHANGED <<tree, stored, key, restarts, explorer, history, dirty>>

\* lock_all; it is suppressed when there is no /home.
LockAll ==
  /\ <<"home">> \in DOMAIN tree
  /\ Changed(Revoked(tree))
  /\ sealed' = sealed \cup (1..texts \ {tree[p].text : p \in DOMAIN tree \ Subtree(tree, <<"home">>)})
  /\ UNCHANGED <<cwd, explorer, texts>>

-----------------------------------------------------------------------------
(* What is read                                                            *)

\* ls and cat rebuild /proc before they read it, ls once it has found the old one.
AsRead(p) == IF TopEntry(p) = "proc" THEN Rebuilt(tree) ELSE tree
ReadsProc(root) ==
  /\ \/ TopEntry(cwd) = "proc"
     \/ \E p \in Typed : TopEntry(p) = "proc" /\ Directory(tree, p) /\ CheckEnter(tree, p, root)
  /\ tree' = Rebuilt(tree)
  /\ UNCHANGED <<cwd, stored, key, restarts, explorer, history, dirty>>

\* cat, of a name in the working directory.
Cat(n, root) ==
  LET t == AsRead(cwd)
  IN IF Directory(t, cwd) /\ Here(n) \in DOMAIN t /\ ~Directory(t, Here(n)) /\ (root \/ t[Here(n)].readable)
     THEN {t[Here(n)].text} ELSE {}

\* find and grep -r skip what is not readable; grep enters a directory that is not.
Found(p, root) ==
  {q \in Subtree(tree, p) \ {p} :
     root \/ \A i \in Len(p) + 1..Len(q) : tree[SubSeq(q, 1, i)].readable}
Grep(p, root) ==
  {tree[q].text : q \in {r \in Subtree(tree, p) : tree[r].kind = "file" /\ (root \/ tree[r].readable)}}
Ls(p, root) ==
  IF Directory(tree, p) /\ CheckEnter(tree, p, root)
  THEN {q \in Children(AsRead(p), p) : root \/ AsRead(p)[q].readable} ELSE {}

\* list_for_explorer, which does not ask whether the directory may be entered.
Listed(p, root) ==
  IF Directory(tree, p) THEN {q \in Children(tree, p) : root \/ tree[q].readable} ELSE {}
\* get_meta_for_explorer asks nothing at all; stat, of a name in the working directory.
MetaForExplorer(p, n) ==
  IF Directory(tree, p) /\ Append(p, n) \in DOMAIN tree THEN {tree[Append(p, n)]} ELSE {}
Stat(n, root) ==
  IF InCwd(n) /\ (root \/ tree[Here(n)].readable) THEN MetaForExplorer(cwd, n) ELSE {}

\* du: the texts whose sizes it adds up, readable or not.
SubtreeSize(p) == {tree[q].text : q \in {r \in Subtree(tree, p) : tree[r].kind # "dir"}}
Du(segments) == SubtreeSize(Resolved(segments, cwd))

-----------------------------------------------------------------------------
(* The shim and the explorer                                               *)

\* Mutant: the directory is not put back.
LeftThere(was, reached, t) == reached

\* finally: cd(original).  It fails when that directory is gone or not readable any
\* more: the file system stays where the operation took it.
PutBack(was, reached, t) == IF Directory(t, was) /\ CheckEnter(t, was, FALSE) THEN was ELSE reached

\* cd(dest, cwd): dest is resolved from the file system's directory, not from cwd.
CanCd(p) == Directory(tree, p) /\ CheckEnter(tree, p, FALSE)
Reached(p) == IF CanCd(p) THEN p ELSE cwd
CdReturns(p) == CanCd(p) /\ CanCd(cwd)

Probe(p) == cwd' = PutBack(cwd, Reached(p), tree)
OnlyCwd == UNCHANGED <<tree, stored, key, restarts, history, dirty>>

\* _navigate_to.  The list is read through the shim too, which changes nothing more.
NavigateTo(p) ==
  /\ Probe(p)
  /\ IF CdReturns(p)
     THEN /\ path' = p
          /\ nav' = Append(SubSeq(nav, 1, idx), p) /\ idx' = idx + 1
          /\ idx < 3
     ELSE UNCHANGED explorer
  /\ OnlyCwd

\* _go_back and _go_forward: the index moves whether or not the directory is there.
Step(by) ==
  /\ idx + by \in DOMAIN nav /\ idx' = idx + by
  /\ Probe(nav[idx + by])
  /\ path' = IF CdReturns(nav[idx + by]) THEN nav[idx + by] ELSE path
  /\ UNCHANGED nav /\ OnlyCwd

\* _go_up, from wherever the explorer is, and a double click: relative to cwd.
GoUp == path # Home /\ NavigateTo(Resolved(<<"..">>, cwd))
DoubleClick(n) == NavigateTo(Resolved(<<n>>, cwd))

\* _delete_item: rm -r in the directory shown.
DeleteItem(n) ==
  LET p == Append(path, n)
      t == Without(tree, p)
  IN /\ CanCd(path) /\ p \in DOMAIN tree /\ CheckRemovable(tree, p, FALSE)
     /\ Changed(t) /\ cwd' = PutBack(cwd, path, t)
     /\ UNCHANGED <<explorer, history>>

Explorer ==
  \/ \E p \in Typed : NavigateTo(p)
  \/ Step(-1) \/ Step(1) \/ GoUp
  \/ \E n \in Names : DoubleClick(n) \/ DeleteItem(n)

\* -r is given exactly for directories: otherwise the call is refused, or the same.
Commands(root) ==
  \/ \E n \in Names :
       \/ MkDir(n, root) \/ RmDir(n) \/ WriteFile(n, root) \/ Touch(n, root) \/ ChMod(n)
       \/ Rm(n, Directory(tree, Here(n)), root) \/ LnSymbolic(n, root)
       \/ \E p \in Typed : LnHard(p, n, root)
  \/ \E p \in Typed :
       \/ MkDirParents(p, root) \/ Cd(p, root)
       \/ \E q \in Typed : Mv(p, q, root) \/ Cp(p, q, Directory(tree, p), root)
  \/ CdHome(root) \/ ReadsProc(root) \/ LockAll \/ \E torn \in BOOLEAN : Restart(torn)

\* What moves the explorer's directories away under it.
Beside == LockAll \/ \E n \in Names : WriteFile(n, FALSE) \/ Rm(n, TRUE, FALSE)

VfsNext ==
  /\ steps > 0 /\ steps' = steps - 1 /\ UNCHANGED caller
  /\ \/ caller = "user" /\ Commands(FALSE)
     \/ caller = "root" /\ Commands(TRUE)
     \/ caller = "explorer" /\ Explorer
     \/ caller = "explorer" /\ Beside

VfsSpec == VfsInit /\ [][VfsNext]_vfsVars

-----------------------------------------------------------------------------
(* Properties                                                              *)

\* Every entry is in a directory, however copies and moves land on files, on
\* themselves or inside one another.
TreeHangsTogether == \A p \in DOMAIN tree : Directory(tree, Front(p))

\* Unless the last save failed, a restart with the same key
\* brings back the tree as it is, and in addition the built-in top-level directories
\* that had been removed.
RestartKeeps ==
  ~dirty /\ stored.key = key =>
    \A p \in DOMAIN tree \cup DOMAIN Loaded(stored.tree) :
      \/ p[1] \in Dynamic
      \/ p \in DOMAIN tree /\ p \in DOMAIN Loaded(stored.tree) /\ tree[p] = Loaded(stored.tree)[p]
      \/ p \in DOMAIN BuiltIn /\ <<p[1]>> \notin DOMAIN tree

\* What was nowhere but under /home when it was locked is not shown to a user
\* again, wherever it is copied or moved and however often the program restarts, as
\* long as a restart brings back the tree that was there.
LockdownLasts ==
  /\ \A p \in Typed : Directory(tree, p) =>
       (Grep(p, FALSE) \cup {tree[q].text : q \in Listed(p, FALSE)}) \cap sealed = {}
  /\ \A n \in Names :
       (Cat(n, FALSE) \cup {node.text : node \in Stat(n, FALSE)}) \cap sealed = {}

\* The ways to look agree: a name can be asked about exactly when the explorer lists it, what
\* is found begins with what is listed, a directory that may be entered shows the same by ls,
\* and what root finds, as what is locked away, is what du counts, from wherever it is asked.
WaysAgree ==
  \A p \in Typed : Directory(tree, p) =>
    /\ {q \in Found(p, FALSE) : Front(q) = p} = Listed(p, FALSE)
    /\ CheckEnter(tree, p, FALSE) /\ tree = AsRead(p) => Ls(p, FALSE) = Listed(p, FALSE)
    /\ cwd = p => \A n \in Names : (Stat(n, FALSE) # {}) = (Here(n) \in Listed(p, FALSE))
    /\ Grep(p, TRUE) \subseteq Du([i \in 1..Len(cwd) |-> ".."] \o p)

VfsSound == TreeHangsTogether /\ RestartKeeps /\ LockdownLasts /\ WaysAgree

\* The explorer borrows the file system's directory and puts it back, also when the
\* operation fails; but for a directory it cannot enter any more.
CwdRestored ==
  [][caller = "explorer" /\ cwd' # cwd =>
       (Explorer => ~Directory(tree', cwd) \/ ~CheckEnter(tree', cwd, FALSE))]_vfsVars
=============================================================================
