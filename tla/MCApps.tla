-------------------------------- MODULE MCApps --------------------------------
(* What surrounds an application, in one run of which the initial state picks  *)
(* the part that moves: the bridge to the engine of an isolated one, the       *)
(* gateway and the launch of any, the desktop's icons with its wallpaper, the  *)
(* program behind the security dashboard, a terminal's line and what all terminals *)
(* share, and the notepads.                                                    *)
EXTENDS AppBridge, AppSandbox, Mediator, Editors

CONSTANTS
  Apps, Files, Folders, Rows, Layouts, Moves, Spots, MaxSteps,            \* of the desktop
  MaxKeys, MaxBlocks,                                                     \* of a line
  Tabs, TypedLines, KeptLines, Letters, Variables, Values, Defaults, Inherited, MaxCommands  \* of shells

VARIABLES
  part,
  disk, dir, watched, due, icons, recreated, cells, saved, stored, held, rows, wallpaper, painted,
  repaint, placed, dragged, strayed, steps,
  doc, prompt_pos, pos, anchor, history, hist_idx, posts, busy, later, line_sent, slipped, plain, keys,
  tabs, entered, history_file, env, aliases, torn, forgotten, typed, count

Desktop == INSTANCE DesktopIcons

desktopTuple ==
  <<disk, dir, watched, due, icons, recreated, cells, saved, stored, held, rows, wallpaper,
    painted, repaint, placed, dragged, strayed, steps>>

Line == INSTANCE TerminalLine WITH sent <- line_sent

lineTuple ==
  <<doc, prompt_pos, pos, anchor, history, hist_idx, posts, busy, later, line_sent, slipped, plain,
    keys>>

Shells == INSTANCE ShellSession WITH commands <- entered

shellsTuple == <<tabs, entered, history_file, env, aliases, torn, forgotten, typed, count>>

earlier == <<bridgeVars, sandboxVars, desktopTuple>>
others == <<mediatorVars, lineTuple, editorVars, shellsTuple>>

MCAppIcons == <<"bin">>
MCEntries == <<"d", "f">>
MCLines == {<<"x">>, <<"y">>, <<"x", "y">>}
MCVariables == {<<"a">>, <<"a", "b">>, <<"b">>}
MCValues == {<<"b">>, <<"$", "b">>}
MCDefaults == <<[name |-> <<"a">>, value |-> <<"b">>]>>
MCInherited == [v \in {<<"b">>} |-> <<"/">>]
MCMoves == {<<1, 0>>, <<-1, 1>>}
MCSpots == {<<0, 0>>, <<1, 1>>}

\* No layout yet, and one in which an icon was put where an entry that is gone had been.
MCLayouts == {<< >>, [k \in {"bin", "d"} |-> <<0, 0>>]}

\* A part that does not move starts in one of its states only.
MCInit ==
  /\ part \in {"bridge", "gateway", "icons", "picture", "token", "line", "notes", "history", "env"}
  /\ BridgeInit
  /\ SandboxInit /\ (part # "gateway" => studied = "launches")
  /\ Desktop!IconsInit
  /\ part # "icons" => disk = {} /\ saved = << >> /\ rows = CHOOSE r \in Rows : TRUE
  /\ MediatorInit
  /\ Line!LineInit
  /\ Shells!SessionInit
  /\ EditorsInit /\ (part # "notes" => content = [f \in Texts |-> 0])

MCNext ==
  /\ part' = part
  /\ \/ part = "bridge" /\ BridgeNext /\ UNCHANGED <<sandboxVars, desktopTuple, others>>
     \/ part = "gateway" /\ SandboxNext /\ UNCHANGED <<bridgeVars, desktopTuple, others>>
     \/ part = "icons" /\ Desktop!IconsNext /\ UNCHANGED <<bridgeVars, sandboxVars, others>>
     \/ part = "picture" /\ Desktop!PictureNext /\ UNCHANGED <<bridgeVars, sandboxVars, others>>
     \/ part = "token" /\ MediatorNext /\ UNCHANGED <<earlier, lineTuple, editorVars, shellsTuple>>
     \/ part = "line" /\ Line!LineNext /\ UNCHANGED <<earlier, mediatorVars, editorVars, shellsTuple>>
     \/ part = "notes" /\ EditorsNext /\ UNCHANGED <<earlier, mediatorVars, lineTuple, shellsTuple>>
     \/ part = "history" /\ Shells!HistoryNext /\ UNCHANGED <<earlier, mediatorVars, lineTuple, editorVars>>
     \/ part = "env" /\ Shells!VariablesNext /\ UNCHANGED <<earlier, mediatorVars, lineTuple, editorVars>>

MCSpec == MCInit /\ [][MCNext]_<<part, earlier, others>>

\* DesktopIcons.IconsSound: the icons are the directory's, one to a cell, and stay where they
\* were put.  TerminalLine.LineSound: a command begins after the last prompt and is what was
\* typed.  ShellSession.HistoryKept, ExpansionsAgree: the history is what was typed, and a
\* variable means the same to a file's name and to echo.
AppsSound ==
  IF part \in {"icons", "picture"} THEN Desktop!IconsSound
  ELSE IF part = "line" THEN Line!LineSound
  ELSE IF part = "history" THEN Shells!SessionTypeOK /\ Shells!HistoryKept
  ELSE part = "env" => Shells!SessionTypeOK /\ Shells!ExpansionsAgree
=============================================================================
