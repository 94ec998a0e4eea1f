------------------------------ MODULE HostFiles ------------------------------
(***************************************************************************)
(* What the programs of the desktop do to the files under the Q-Vault      *)
(* home: the shell's commands (_commands.py, with the parser, the          *)
(* redirection of _command_executor.py and the pipes of                    *)
(* terminal_engine.py), the trash (trash_manager.py, trash_app.py) and the *)
(* file manager (file_manager_app.py).  All run on the interface thread,   *)
(* so an operation is one step; what is between two of them is what each   *)
(* program remembers: a listing, a clipboard, a history of directories.    *)
(*                                                                         *)
(* A file's content is the set of the pieces written to it.  Names     *)
(* that end in .meta are the trash's own; nobody else makes or edits one.  *)
(***************************************************************************)
EXTENDS HostTree

CONSTANTS
  Plain,        \* names that are typed
  Places,       \* paths that are typed
  Desks,
  Arrow,        \* the name ">"
  MaxEntries,   \* bound on the files and directories beside the trash itself
  MaxHistory,   \* bound on the file manager's history
  HiddenNames,  \* the names that begin with a dot
  PageSize      \* lines that less shows

VARIABLES
  disk,          \* the tree below the home
  meta,          \* the .meta files of the trash: a name's original path
  desk,          \* a bound: which programs are in use, and for how many steps yet
  steps,
  current,       \* the file manager's directory
  history, forward,
  listing,       \* the entries its list shows, read when it was last filled
  clipboard, cut,
  bin,           \* the names the trash window shows
  origin         \* history: where move_to_trash took the entry of a name from

managerVars == <<current, history, forward, listing, clipboard, cut>>
filesVars == <<disk, meta, managerVars, bin, origin>>
vars == <<filesVars, desk, steps>>

Trash == <<".trash">>
Nowhere == <<"nowhere">>
Counted(n) == n \o "_1"             \* the stem with a counter, given on a collision at a restore
Unique(n) == n \o "_uuid"           \* the stem with a fresh suffix, on one in the trash
Names == Plain \cup {Arrow}
InTrash(n) == <<Trash[1], n>>

\* Paths a user can name: at home, in a directory there, in the trash.
Typed == Places

\* What the bounds admit: three levels, so many entries, and a free fresh name.
Bounded(fs) ==
  /\ Cardinality(DOMAIN fs \ {Trash}) <= MaxEntries
  /\ \A p \in DOMAIN fs : Len(p) <= 3 /\ (Len(p) = 3 => p[1] = Trash[1])

Init ==
  /\ \E p, q \in Places :
       /\ ~IsPrefix(p, q) /\ ~IsPrefix(q, p)
       /\ disk = [r \in {p, q, Trash} \cup PathTo(p) \cup PathTo(q) |->
                    CASE r = p -> {"first"} [] r = q -> {"second"} [] OTHER -> DirMark]
  /\ meta = << >> /\ origin = << >>
  /\ \E d \in Desks : desk = d.name /\ steps = d.steps
  /\ current = Home /\ history = << >> /\ forward = << >>
  /\ listing = Children(disk, Home)
  /\ clipboard = Nowhere /\ cut = FALSE
  /\ bin = {}

\* An operation leaves this tree; entries that left the trash lose their origin.
Leaves(fs) ==
  /\ Bounded(fs) /\ disk' = fs
  /\ origin' = [n \in {m \in DOMAIN origin : InTrash(m) \in DOMAIN fs} |-> origin[n]]

-----------------------------------------------------------------------------
(* The trash                                                               *)

\* Mutant: no look at what the trash already has.
TrashNameTaken(fs, n) == n

\* Path.name of an entry in the trash.
TrashName(fs, n) == IF InTrash(n) \in DOMAIN fs THEN Unique(n) ELSE n

\* Mutant: the .meta file is named after the entry's old name.
MetaOfOldName(p, n) == Last(p)

\* The entry whose .meta file is written.
MetaName(p, n) == n

\* move_to_trash(p): the move, then the .meta file.  The trash is made when missing.
Discarded(fs, p) == Moved(WithDirs(fs, Trash), p, InTrash(TrashName(fs, Last(p))))
Discard(p) ==
  LET n == TrashName(disk, Last(p))
      fs == Discarded(disk, p)
  IN /\ Last(p) \in Names /\ InTrash(Unique(Last(p))) \notin DOMAIN disk
     /\ Bounded(fs) /\ disk' = fs
     /\ IF InTrash(n) \in DOMAIN fs /\ p \notin DOMAIN fs
        THEN /\ meta' = [m \in DOMAIN meta \cup {MetaName(p, n)} |->
                           IF m = MetaName(p, n) THEN p ELSE meta[m]]
             /\ origin' = [m \in {k \in DOMAIN origin : InTrash(k) \in DOMAIN fs} \cup {n} |->
                             IF m = n THEN p ELSE origin[m]]
        ELSE UNCHANGED <<meta, origin>>

WithoutMeta(names) == [n \in DOMAIN meta \ names |-> meta[n]]

\* Mutant: the name is not checked for a collision.
RestoreOver(p) == p

\* The first free of stem, stem_1, ... beside the original path.
RestoreTarget(p) ==
  IF Exists(disk, p) THEN Append(Front(p), Counted(Last(p))) ELSE p

\* restore_from_trash(n), to the home when there is no .meta file.
Restore(n) ==
  LET wanted == IF n \in DOMAIN meta THEN meta[n] ELSE <<n>>
      target == RestoreTarget(wanted)
      made == WithDirs(disk, Front(target))
      moved == Moved(made, InTrash(n), target)
  IN /\ n \in bin /\ ~Exists(disk, Append(Front(wanted), Counted(Last(wanted))))
     /\ IF ~Exists(disk, InTrash(n)) THEN UNCHANGED <<disk, meta, origin>>
        ELSE IF Blocked(disk, Front(target)) THEN UNCHANGED <<disk, meta, origin>>
        ELSE /\ Leaves(moved)
             /\ meta' = IF InTrash(n) \in DOMAIN moved THEN meta ELSE WithoutMeta({n})

TrashEntries(fs) == {Last(p) : p \in Children(fs, Trash)}

\* Each operation of the trash window ends in refresh; another program's change is
\* announced by FS_CHANGED and shown 150 ms later.
RestoreSelected(n) == Restore(n) /\ bin' = TrashEntries(disk') /\ UNCHANGED <<managerVars>>

DeletePermanently(n) ==
  /\ n \in bin
  /\ Leaves(Without(disk, InTrash(n))) /\ meta' = WithoutMeta({n})
  /\ bin' = TrashEntries(disk') /\ UNCHANGED <<managerVars>>

EmptyTrash ==
  /\ TrashEntries(disk) # {}
  /\ Leaves(With(Without(disk, Trash), Trash, DirMark)) /\ meta' = << >>
  /\ bin' = {} /\ UNCHANGED <<managerVars>>

RefreshTrash ==
  /\ bin # TrashEntries(disk) /\ bin' = TrashEntries(disk)
  /\ UNCHANGED <<disk, meta, managerVars, origin>>

-----------------------------------------------------------------------------
(* The shell                                                               *)

\* CommandParser keeps ">" among the arguments of a redirected line and drops only
\* the words equal to the redirection's target.
Words(args, target) ==
  IF target = Nowhere THEN args
  ELSE SelectSeq(Append(args, <<Arrow>>), LAMBDA a : a # target)

Touched(fs, p) == IF Exists(fs, p) THEN fs ELSE Write(fs, p, {})
MadeDir(fs, p, parents) ==
  IF parents THEN WithDirs(fs, p)
  ELSE IF ~Exists(fs, p) /\ IsDir(fs, Front(p)) THEN With(fs, p, DirMark) ELSE fs
RemovedDir(fs, p) == IF IsDir(fs, p) /\ Children(fs, p) = {} THEN Without(fs, p) ELSE fs

\* mv: into the destination when it is a directory, whose missing parents are made.
MvTarget(fs, p, dest) == IF IsDir(fs, dest) THEN Append(dest, Last(p)) ELSE dest
MvOne(fs, p, dest) ==
  LET target == MvTarget(fs, p, dest)
      made == WithDirs(fs, Front(target))
  IN IF p = Home \/ ~Exists(fs, p) THEN fs ELSE Renamed(made, p, target)
CpOne(fs, p, dest) ==
  LET made == WithDirs(fs, Front(dest))
  IN IF ~IsFile(fs, p) THEN fs
     ELSE CopiedFile(IF IsDir(fs, dest) THEN fs ELSE made, p, dest)

\* The words of a command, one after the other.
ForEach(op(_, _), fs, words) == FoldLeft(op, fs, words)
Mv(fs, words) ==
  IF Len(words) < 2 THEN fs
  ELSE LET One(t, p) == MvOne(t, p, Last(words)) IN ForEach(One, fs, Front(words))
Cp(fs, words) ==
  IF Len(words) < 2 THEN fs
  ELSE LET One(t, p) == CpOne(t, p, Last(words)) IN ForEach(One, fs, Front(words))
Touch(fs, words) == ForEach(Touched, fs, words)
MkDir(fs, words) == LET One(t, p) == MadeDir(t, p, FALSE) IN ForEach(One, fs, words)
MkDirParents(fs, words) == LET One(t, p) == MadeDir(t, p, TRUE) IN ForEach(One, fs, words)
RmDir(fs, words) == ForEach(RemovedDir, fs, words)

\* rm -f and rm -rf, for the admin role; protected names are refused.
RmForce(fs, words) ==
  LET One(t, p) == IF IsFile(t, p) THEN Without(t, p) ELSE t IN ForEach(One, fs, words)
RmForceTree(fs, words) ==
  LET One(t, p) == IF p = Home THEN [q \in {} |-> DirMark]
                   ELSE IF Exists(t, p) THEN Without(t, p) ELSE t
  IN ForEach(One, fs, words)

\* curl -o and wget -O write what they pretend to have fetched, over whatever file is there.
Fetched(fs, words) == Write(fs, Last(words), {"text"})

\* What a command prints: the files' contents and a message for what is no file.
Printed(fs, words) ==
  FoldLeft(LAMBDA out, p : out \cup (IF IsFile(fs, p) THEN fs[p] ELSE {"message"}), {}, words)
EchoOutput == {"text"}

ShellCommands == {"cat", "echo", "touch", "mkdir", "mkdir -p", "rmdir", "mv", "cp",
                  "rm -f", "rm -rf", "wget"}

Effect(c, fs, words) ==
  CASE c = "touch" -> Touch(fs, words)
    [] c = "mkdir" -> MkDir(fs, words)
    [] c = "mkdir -p" -> MkDirParents(fs, words)
    [] c = "rmdir" -> RmDir(fs, words)
    [] c = "mv" -> Mv(fs, words)
    [] c = "cp" -> Cp(fs, words)
    [] c = "rm -f" -> RmForce(fs, words)
    [] c = "rm -rf" -> RmForceTree(fs, words)
    [] c = "wget" -> Fetched(fs, words)
    [] OTHER -> fs

Output(c, fs, words) ==
  CASE c = "cat" -> Printed(fs, words)
    [] c = "echo" -> IF Contains(words, <<Arrow>>) THEN EchoOutput \cup {"message"} ELSE EchoOutput
    [] OTHER -> {}

\* Only the trash's own .meta files share the fate of what is in it.
Settled(fs) ==
  /\ Leaves(fs)
  /\ meta' = IF Trash \in DOMAIN fs THEN meta ELSE << >>
  /\ UNCHANGED <<managerVars, bin>>

\* A line without redirection; with one the target is opened, and emptied, before
\* the command runs, and holds its output when it is closed.
Line(c, args) == Settled(Effect(c, disk, args))
Redirected(c, args, target, append) ==
  LET words == Words(args, target)
      opened == IF append /\ Exists(disk, target) THEN disk ELSE Write(disk, target, {})
      after == Effect(c, opened, words)
      written == opened[target] \cup Output(c, opened, words)
  IN IF ~Writable(disk, target) THEN UNCHANGED filesVars
     ELSE /\ IsFile(after, target)
          /\ Settled(With(after, target, written))

\* echo text | c args: the output goes to a temporary file whose name is the last
\* word of the second command, and which is removed afterwards.
Pipe(c, args, cwd) ==
  LET tmp == Append(cwd, "pipe")
      after == Effect(c, Write(disk, tmp, EchoOutput), Append(args, tmp))
  IN IF ~Writable(disk, tmp) THEN UNCHANGED filesVars
     ELSE Settled(IF IsFile(after, tmp) THEN Without(after, tmp) ELSE after)

\* rm, and rm -r for a directory: to the trash.
Rm(p) ==
  /\ p # Home /\ Discard(p)
  /\ UNCHANGED <<managerVars, bin>>

ArgLists == {<<p>> : p \in Typed} \cup {<<p, q>> : p \in Typed, q \in Typed}
Shell ==
  \/ \E p \in Typed : Rm(p)
  \/ \E c \in ShellCommands \ {"cat", "echo"}, args \in ArgLists : Line(c, args)
  \/ \E p, q, d \in Typed : p # q /\ Line("mv", <<p, q, d>>)
  \/ \E c \in {"cat", "echo", "touch", "mv"}, p, t \in Typed, append \in BOOLEAN :
       Redirected(c, IF c = "echo" THEN << >> ELSE <<p>>, t, append)
  \/ \E c \in {"mv", "cp", "touch", "rm -f"}, p \in Typed, cwd \in Typed \cup {Home} :
       Pipe(c, <<p>>, cwd)

-----------------------------------------------------------------------------
(* The file manager                                                        *)

Load(fs, p) == IF IsDir(fs, p) THEN Children(fs, p) ELSE {}
Refreshed == listing' = Load(disk', current) /\ UNCHANGED <<current, history, forward>>
NotFiles == UNCHANGED <<disk, meta, origin>>
OthersOfManager == UNCHANGED bin

\* _navigate: a new place is recorded and forgets the way forward.
Navigate(p) ==
  /\ IF p = current THEN UNCHANGED <<history, forward>>
     ELSE history' = Append(history, current) /\ forward' = << >>
  /\ Len(history') <= MaxHistory
  /\ current' = p /\ listing' = Load(disk, p)
  /\ NotFiles /\ OthersOfManager /\ UNCHANGED <<clipboard, cut>>

Back ==
  /\ history # << >>
  /\ forward' = Append(forward, current) /\ history' = Front(history)
  /\ current' = Last(history) /\ listing' = Load(disk, Last(history))
  /\ NotFiles /\ OthersOfManager /\ UNCHANGED <<clipboard, cut>>

Forward ==
  /\ forward # << >>
  /\ history' = Append(history, current) /\ forward' = Front(forward)
  /\ current' = Last(forward) /\ listing' = Load(disk, Last(forward))
  /\ NotFiles /\ OthersOfManager /\ UNCHANGED <<clipboard, cut>>

\* A click on an entry, the button Up, the sidebar.
OpenEntry(p) == p \in listing /\ IsDir(disk, p) /\ Navigate(p)
Up == current # Home /\ Navigate(Front(current))
Sidebar == Navigate(Home) \/ Navigate(Trash)

ManagerChanges(fs) == Leaves(fs) /\ Refreshed /\ OthersOfManager

NewFile(n) == /\ ManagerChanges(Touched(disk, Append(current, n)))
              /\ UNCHANGED <<meta, clipboard, cut>>
NewFolder(n) ==
  LET p == Append(current, n)
  IN /\ ManagerChanges(IF Exists(disk, p) THEN disk ELSE WithDirs(disk, p))
     /\ UNCHANGED <<meta, clipboard, cut>>

\* A selected entry need not exist any more.  Rename replaces a file of that name.
Rename(p, n) ==
  /\ p \in listing /\ n # Last(p)
  /\ ManagerChanges(Renamed(disk, p, Append(Front(p), n)))
  /\ UNCHANGED <<meta, clipboard, cut>>

\* Inside the trash an entry is deleted, and its .meta file stays.
TrashSelected(p) ==
  /\ p \in listing
  /\ IF IsPrefix(Trash, p)
     THEN Leaves(Without(disk, p)) /\ meta' = IF p = Trash THEN << >> ELSE meta
     ELSE IF Exists(disk, p) THEN Discard(p) ELSE UNCHANGED <<disk, meta, origin>>
  /\ Refreshed /\ OthersOfManager /\ UNCHANGED <<clipboard, cut>>

Clip(p, cutting) ==
  /\ p \in listing /\ clipboard' = p /\ cut' = cutting
  /\ NotFiles /\ OthersOfManager /\ UNCHANGED <<current, history, forward, listing>>

\* _paste: the first of the entries, to the same name here; a cut moves it, into a
\* directory that has the name, or over a file that has it.  A directory shown that is gone
\* is made again for a directory, for a file nothing is done.
Paste ==
  LET dest == Append(current, Last(clipboard))
      made == IF IsDir(disk, clipboard) THEN WithDirs(disk, current) ELSE disk
      copied == IF ~IsDir(disk, clipboard) THEN CopiedFile(disk, clipboard, dest)
                ELSE IF ~Exists(disk, dest) /\ CopyFits(disk, clipboard, dest)
                THEN CopyInto(made, clipboard, dest) ELSE disk
      moves == CanMove(made, clipboard, dest)
  IN /\ clipboard # Nowhere /\ Exists(disk, clipboard)
     /\ ManagerChanges(IF ~cut THEN copied ELSE IF moves THEN Moved(made, clipboard, dest) ELSE disk)
     /\ clipboard' = IF cut /\ moves THEN Nowhere ELSE clipboard
     /\ UNCHANGED <<meta, cut>>

\* FS_CHANGED below the directory shown, or F5.
Refresh ==
  /\ listing # Load(disk, current) /\ listing' = Load(disk, current)
  /\ NotFiles /\ OthersOfManager /\ UNCHANGED <<current, history, forward, clipboard, cut>>

Manager ==
  \/ Back \/ Forward \/ Up \/ Sidebar \/ Refresh \/ Paste
  \/ \E p \in listing : \/ OpenEntry(p) \/ TrashSelected(p)
                        \/ \E cutting \in BOOLEAN : Clip(p, cutting)
                        \/ \E n \in Plain : Rename(p, n)
  \/ \E n \in Plain : NewFile(n) \/ NewFolder(n)

TrashWindow ==
  \/ EmptyTrash \/ RefreshTrash
  \/ \E n \in bin : RestoreSelected(n) \/ DeletePermanently(n)

\* Another program takes a freed name, or trashes an entry the windows still show.
Elsewhere == \E p \in Typed : Rm(p) \/ Line("touch", <<p>>)

\* The shell works alone; the trash window and the file manager each with another
\* program beside them.
Next ==
  \/ /\ desk = "trash"
     /\ TrashWindow \/ Elsewhere
     /\ UNCHANGED <<desk, steps>>
  \/ /\ steps > 0 /\ steps' = steps - 1 /\ UNCHANGED desk
     /\ \/ desk = "shell" /\ Shell
        \/ desk = "windows" /\ Manager
        \/ desk = "windows" /\ Elsewhere

Spec == Init /\ [][Next]_vars

-----------------------------------------------------------------------------
(* Properties                                                              *)

Pieces(fs) == UNION {fs[p] : p \in Files(fs)}

\* A file that takes the place of another under its name, as rename and paste do.
Replaced == \E p \in Files(disk) : IsFile(disk', p) /\ disk'[p] # disk[p]

\* Trashing, restoring, moving and copying lose nothing, whatever has the name in the
\* trash or at the old place, and however old the list or the clipboard is that the
\* user clicks on: what was written leaves the disk by a deletion in the trash, or,
\* in the file manager, under a file that is given its name.
NothingLost ==
  [][desk # "shell" =>
       \/ Pieces(disk) \subseteq Pieces(disk')
       \/ EmptyTrash \/ \E n \in bin : DeletePermanently(n)
       \/ desk = "windows" /\ (Replaced \/ \E p \in listing : IsPrefix(Trash, p) /\ TrashSelected(p))]_vars

\* The .meta file of what move_to_trash put into the trash names the place it came
\* from as long as it is there: also when the trash had the name already, when other
\* entries came and went, and when the file manager worked inside the trash.
MetaTellsOrigin ==
  \A n \in DOMAIN origin : n \in DOMAIN meta /\ meta[n] = origin[n]

-----------------------------------------------------------------------------
(* The shell's commands that only look at a directory tree: ls, find, du,      *)
(* tree, stat and grep -r.  They walk it in five different ways, and people    *)
(* compare what they say.                                                      *)

Hidden(p) == Last(p) \in HiddenNames
Size(fs, p) == IF IsFile(fs, p) THEN Cardinality(fs[p]) ELSE 0

\* rglob: what is below p.
Below(fs, p) == Subtree(fs, p) \ {p}

\* Mutant: ls leaves out what is below a hidden directory.
LsPruned(fs, p, all, recursive) ==
  {q \in IF recursive THEN Below(fs, p) ELSE Children(fs, p) :
     all \/ \A i \in Len(p) + 1..Len(q) : ~Hidden(SubSeq(q, 1, i))}

\* ls: the entries, of which one is hidden by its own name only.
Ls(fs, p, all, recursive) ==
  IF IsFile(fs, p) THEN {p}
  ELSE {q \in IF recursive THEN Below(fs, p) ELSE Children(fs, p) : all \/ ~Hidden(q)}

\* find -name -type -size: a criterion that is not given is the set of all values.
Find(fs, p, names, kinds, least) ==
  {q \in Below(fs, p) : /\ Last(q) \in names
                        /\ (IF IsFile(fs, q) THEN "f" ELSE "d") \in kinds
                        /\ Size(fs, q) >= least}

\* grep -r: the files that are searched.
Searched(fs, p) == IF IsDir(fs, p) THEN {q \in Below(fs, p) : IsFile(fs, q)} ELSE {p}

\* du: the line of a file has its size, that of a directory the running total of the
\* directory above it, in the order in which that one is read.
RECURSIVE DuTotal(_, _)
DuTotal(fs, p) ==
  IF IsFile(fs, p) THEN Size(fs, p)
  ELSE FoldSet(LAMBDA q, sum : sum + DuTotal(fs, q), 0, Children(fs, p))

DuLine(fs, order, i) ==
  IF IsFile(fs, order[i]) THEN Size(fs, order[i])
  ELSE FoldLeft(LAMBDA sum, q : sum + DuTotal(fs, q), 0, SubSeq(order, 1, i))

\* tree: hidden entries are neither shown nor entered.
MaxDepth == 3
RECURSIVE Shown(_, _, _, _)
Shown(fs, p, all, depth) ==
  IF depth > MaxDepth THEN {}
  ELSE LET here == {q \in Children(fs, p) : all \/ ~Hidden(q)}
       IN here \cup UNION {Shown(fs, q, all, depth + 1) : q \in {r \in here : IsDir(fs, r)}}
TreeCounts(fs, p, all) ==
  LET seen == Shown(fs, p, all, 0)
  IN [directories |-> Cardinality({q \in seen : IsDir(fs, q)}),
      files       |-> Cardinality({q \in seen : IsFile(fs, q)})]

Stat(fs, p) == [kind |-> IF IsDir(fs, p) THEN "directory" ELSE "regular file",
                size |-> Size(fs, p)]

-----------------------------------------------------------------------------
AllNames(fs) == UNION {{p[i] : i \in DOMAIN p} : p \in DOMAIN fs}
SumOf(f(_), S) == FoldSet(LAMBDA q, sum : sum + f(q), 0, S)

\* Five walks over one tree agree: find's files and directories are those of ls -aR
\* and the ones tree -a counts; grep -r searches find's files and du adds up their
\* sizes, whatever the order of the entries; and without -a, tree shows what ls -R
\* shows but for the contents of hidden directories, which ls -R lists.
QueriesAgree(fs) ==
  \A p \in {q \in DOMAIN fs \cup {Home} : IsDir(fs, q)} :
    LET found(kind) == Find(fs, p, AllNames(fs), {kind}, 0)
        counted(all) == TreeCounts(fs, p, all)
        inHidden == {q \in Below(fs, p) : \E i \in Len(p) + 1..Len(q) - 1 : Hidden(SubSeq(q, 1, i))}
    IN /\ found("f") \cup found("d") = Ls(fs, p, TRUE, TRUE)
       /\ counted(TRUE) = [directories |-> Cardinality(found("d")), files |-> Cardinality(found("f"))]
       /\ Searched(fs, p) = found("f")
       /\ DuTotal(fs, p) = SumOf(LAMBDA q : Size(fs, q), found("f"))
       /\ \A order \in SetToSeqs(Children(fs, p)) :
            order # << >> /\ IsDir(fs, Last(order))
              => DuLine(fs, order, Len(order)) = DuTotal(fs, p)
       /\ Ls(fs, p, FALSE, TRUE) = Shown(fs, p, FALSE, 0) \cup {q \in inHidden : ~Hidden(q)}
       /\ \A q \in Ls(fs, p, TRUE, FALSE) :
            Stat(fs, q).kind = "regular file" <=> q \in found("f")

-----------------------------------------------------------------------------
(* The commands on the lines of a text: head, tail, less, cat -n, grep, sort,  *)
(* uniq, wc, diff.  A line is what they tell apart: its words in lower case,   *)
(* given by a rank in their order, and whether it has a capital; rank 0 is the *)
(* empty line.                                                                 *)

Least(a, b) == IF a <= b THEN a ELSE b

\* head N, tail N: the sign of N is ignored; tail 0 is everything.
HeadLines(text, n) == SubSeq(text, 1, Least(n, Len(text)))
TailLines(text, n) == IF n = 0 THEN text ELSE SubSeq(text, Len(text) - Least(n, Len(text)) + 1, Len(text))
LessLines(text) == [shown |-> HeadLines(text, PageSize), more |-> Len(text) > PageSize]
Numbered(text) == [i \in DOMAIN text |-> <<i, text[i]>>]

\* grep: -w finds the word and forgets -v.  Here a line is a word.
Same(line, word, ignore_case) == line.rank = word.rank /\ (ignore_case \/ line.capital = word.capital)
Selected(line, word, flags) ==
  LET hit == Same(line, word, "i" \in flags)
  IN IF "w" \in flags THEN hit ELSE IF "v" \in flags THEN ~hit ELSE hit
Grep(text, word, flags) ==
  LET matches == SelectSeq(Numbered(text), LAMBDA m : Selected(m[2], word, flags))
  IN IF "c" \in flags THEN <<Len(matches)>>
     ELSE IF "l" \in flags THEN (IF matches = << >> THEN << >> ELSE <<"path">>)
     ELSE IF "n" \in flags THEN matches
     ELSE [i \in DOMAIN matches |-> matches[i][2]]

\* Mutant: a line goes before the ones of its rank.
InsertedFirst(sorted, line, reverse) ==
  LET before == SelectSeq(sorted, LAMBDA l : IF reverse THEN l.rank > line.rank ELSE l.rank < line.rank)
  IN before \o <<line>> \o SubSeq(sorted, Len(before) + 1, Len(sorted))

\* sorted(key=str.lower, reverse=...) is stable, backwards too.
Inserted(sorted, line, reverse) ==
  LET before == SelectSeq(sorted, LAMBDA l : IF reverse THEN l.rank >= line.rank ELSE l.rank <= line.rank)
  IN before \o <<line>> \o SubSeq(sorted, Len(before) + 1, Len(sorted))
SortedLines(text, reverse) == FoldLeft(LAMBDA s, l : Inserted(s, l, reverse), << >>, text)

\* sort -u: the set of the lines, in no order of its own, is sorted.
Sort(text, unique, reverse) ==
  IF unique
  THEN {SortedLines(s, reverse) : s \in SetToSeqs(ToSet(text))}
  ELSE {SortedLines(text, reverse)}

\* uniq -c: the runs of equal lines.
Uniq(text) ==
  FoldLeft(LAMBDA runs, l :
             IF runs # << >> /\ Last(runs).line = l
             THEN [runs EXCEPT ![Len(runs)].count = @ + 1]
             ELSE Append(runs, [count |-> 1, line |-> l]), << >>, text)

\* wc: a line that is not empty is a word.
WC(text) == [lines |-> Len(text), words |-> Len(SelectSeq(text, LAMBDA l : l.rank # 0))]
WCTotal(texts) ==
  FoldLeft(LAMBDA t, w : [lines |-> t.lines + w.lines, words |-> t.words + w.words],
           [lines |-> 0, words |-> 0], [i \in DOMAIN texts |-> WC(texts[i])])

-----------------------------------------------------------------------------
Positions(text, l) == SelectSeq(Numbered(text), LAMBDA m : m[2].rank = l.rank)

\* What the commands promise of one text:  head and tail cut it in two, except that
\* tail 0 shows it all;  grep and grep -v share it out, unless -w hides -v;  sort
\* orders it and moves no line past one of its rank, in either direction;  the runs
\* of uniq add up to it and none is next to its like, while after sort two runs of
\* one line can remain, since the order does not see capitals;  sort -u leaves
\* every line once;  and wc of the parts is wc of the whole.
TextAnswers(text, word) ==
  /\ \A n \in 0..Len(text) :
       HeadLines(text, n) \o TailLines(text, Len(text) - n)
         = IF n = Len(text) THEN text \o text ELSE text
  /\ LessLines(text).shown = text <=> ~LessLines(text).more
  /\ \A flags \in SUBSET {"i", "w"} :
       LET n == Grep(text, word, flags \cup {"c"})[1]
           v == Grep(text, word, flags \cup {"c", "v"})[1]
       IN /\ IF "w" \in flags THEN v = n ELSE n + v = Len(text)
          /\ Grep(text, word, flags \cup {"l"}) = << >> <=> n = 0
          /\ \A m \in ToSet(Grep(text, word, flags \cup {"n"})) : text[m[1]] = m[2]
  /\ \A reverse \in BOOLEAN :
       LET s == SortedLines(text, reverse)
       IN /\ Sort(text, FALSE, reverse) = {s} /\ Len(s) = Len(text)
          /\ \A i, j \in DOMAIN s :
               i < j => IF reverse THEN s[i].rank >= s[j].rank ELSE s[i].rank <= s[j].rank
          /\ \A l \in ToSet(text) :
               LET before == Positions(text, l) after == Positions(s, l)
               IN Len(before) = Len(after) /\ \A i \in DOMAIN before : before[i][2] = after[i][2]
          /\ \A u \in Sort(text, TRUE, reverse) : IsInjective(u) /\ ToSet(u) = ToSet(text)
  /\ LET runs == Uniq(text)
     IN /\ FoldLeft(LAMBDA sum, r : sum + r.count, 0, runs) = Len(text)
        /\ \A i \in 1..Len(runs) - 1 : runs[i].line # runs[i + 1].line
  /\ \A n \in 0..Len(text) :
       WCTotal(<<HeadLines(text, n), SubSeq(text, n + 1, Len(text))>>) = WC(text)
=============================================================================
