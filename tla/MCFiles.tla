------------------------------- MODULE MCFiles -------------------------------
(* Five parts in one run, of which the initial state picks the one that moves: *)
(* the files of the home under the shell, the trash and the file manager, with *)
(* the commands that look at them; the commands on a text; the virtual file    *)
(* system with its explorer; the windows and the taskbar; and where a window   *)
(* may be.                                                                     *)
EXTENDS HostFiles, Windows, WindowGeometry, TLC

CONSTANTS
  MaxLines, Ranks,
  VfsNames, MaxNodes, MaxTexts, MaxRestarts

VARIABLES
  part, text, word,
  tree, cwd, stored, key, restarts, caller, calls, path, nav, idx, texts, sealed, dirty

BuiltInTree == <<"home">> :> TRUE @@ <<"home", "user">> :> TRUE
               @@ <<"home", "user", "f">> :> FALSE @@ <<"tmp">> :> TRUE @@ <<"proc">> :> TRUE
VfsTyped == {<<"home", "user">>, <<"home", "user", "f">>, <<"tmp">>, <<"proc">>}

\* A user for four commands, root for two, and the explorer for four.
VfsCallers == {[name |-> "user", steps |-> 4], [name |-> "root", steps |-> 2],
               [name |-> "explorer", steps |-> 4]}

Vfs == INSTANCE VirtualFS WITH Default <- BuiltInTree, Names <- VfsNames, Typed <- VfsTyped,
                               Callers <- VfsCallers, steps <- calls

ASSUME Vfs!VfsAssumption

vfsTuple == <<tree, cwd, stored, key, restarts, caller, calls, path, nav, idx, texts, sealed, dirty>>

\* Where the pointer takes the window, and how an edge is dragged: off to the left, inside, off
\* to the right, and the corner whose movement also moves the window.
MCPoints == {[x |-> -5, y |-> 2], [x |-> 2, y |-> 2], [x |-> 9, y |-> 0]}
MCGrowth == {2}
MCCorners == {[left |-> TRUE, top |-> FALSE]}

\* The two applications are interchangeable.
TitleSymmetry == Permutations(Title)

MCPlaces == {<<"a">>, <<"b">>, <<"b", "a">>}

\* A shell for three commands, windows for six steps, and the trash for ever.
MCDesks == {[name |-> "shell", steps |-> 3], [name |-> "windows", steps |-> 6],
            [name |-> "trash", steps |-> 0]}

Lines == {l \in [rank : Ranks, capital : BOOLEAN] : l.rank = 0 => ~l.capital}
Patterns == {l \in Lines : l.rank # 0}

NoWindowMoves ==
  /\ state = "normal" /\ slot = "normal" /\ geom = Empty /\ prev = Empty /\ mouse = "resize"
  /\ start = Empty /\ snapped = << >> /\ applying = FALSE /\ doing = [t \in Thread |-> Rest]
  /\ begun = 0 /\ crossed = TRUE /\ strayed = TRUE

NoHost ==
  /\ disk = << >> /\ meta = << >> /\ origin = << >> /\ desk = "trash" /\ steps = 0
  /\ current = Home /\ history = << >> /\ forward = << >> /\ listing = {}
  /\ clipboard = Nowhere /\ cut = FALSE /\ bin = {}

MCInit ==
  /\ part \in {"tree", "text", "vfs", "windows", "geometry"}
  /\ IF part = "tree" THEN Init ELSE NoHost
  /\ IF part = "text"
     THEN text \in UNION {[1..n -> Lines] : n \in 0..MaxLines} /\ word \in Patterns
     ELSE text = << >> /\ word = CHOOSE l \in Patterns : TRUE
  /\ IF part = "geometry" THEN GeometryInit ELSE NoWindowMoves
  /\ WindowsInit
  /\ Vfs!VfsInit /\ (part # "vfs" => caller = "root")

MCNext ==
  /\ UNCHANGED <<part, text, word>>
  /\ \/ part = "tree" /\ Next /\ UNCHANGED vfsTuple
        /\ UNCHANGED windowVars /\ UNCHANGED geometryVars
     \/ part = "vfs" /\ Vfs!VfsNext /\ UNCHANGED vars
        /\ UNCHANGED windowVars /\ UNCHANGED geometryVars
     \/ part = "windows" /\ WindowsNext /\ UNCHANGED vars
        /\ UNCHANGED vfsTuple /\ UNCHANGED geometryVars
     \/ part = "geometry" /\ GeometryNext /\ UNCHANGED vars
        /\ UNCHANGED vfsTuple /\ UNCHANGED windowVars

MCSpec == MCInit /\ [][MCNext]_<<part, text, word, vars, vfsTuple, windowVars, geometryVars>>

\* The geometry alone, of a window that is dragged to one place and resized by its top.
GatePoints == {[x |-> 2, y |-> 0]}
GateCorners == {[left |-> FALSE, top |-> TRUE]}
GateSpec == MCInit /\ part = "geometry" /\ [][MCNext]_<<part, text, word, vars, vfsTuple, windowVars, geometryVars>>

\* HostFiles.QueriesAgree and HostFiles.TextAnswers: the commands that walk the tree
\* agree about it, and those on lines answer what they promise, for every text.
CommandsAnswer ==
  IF part = "tree" THEN QueriesAgree(disk)
  ELSE part = "text" => TextAnswers(text, word)

\* HostFiles.MetaTellsOrigin, the trash knows where its entries came from; what the commands
\* answer; and VirtualFS.VfsSound: the tree hangs together, a restart keeps it, a lockdown lasts.
FilesSound == MetaTellsOrigin /\ CommandsAnswer /\ (part = "vfs" => Vfs!VfsSound)

\* HostFiles.NothingLost: a file leaves the disk only by a deletion or under another; and
\* VirtualFS.CwdRestored: the explorer puts the file system's directory back.
StepsKeep == NothingLost /\ Vfs!CwdRestored
=============================================================================
