----------------------------- MODULE DesktopIcons -----------------------------
(* The icons of the desktop (ui/widgets/desktop.py): the applications and the  *)
(* files of the Desktop directory on one grid, selected, dragged and snapped,  *)
(* with the saved layout, the directory's watcher and the wallpaper behind.    *)
(* The icons are widgets that every reload replaces; one whose file went to    *)
(* the trash is deleted, yet stays in the desktop's list until then, and       *)
(* moving it raises.  Positions are cells; a drag in progress may leave the    *)
(* grid.  A resize lays nothing out, for the second resizeEvent of the class   *)
(* replaces the first.                                                         *)
EXTENDS Integers, FiniteSets, SequencesExt

CONSTANTS
  Apps,           \* names in order of the list _APPS
  Files,          \* possible names in the directory, in the order of the listing
  Folders,        \* those of directories
  Rows,           \* rows that fit, by the sizes the desktop can have
  Layouts,        \* layout files that earlier sessions left
  Moves, Spots,   \* by how much icons are dragged; where things are dropped
  MaxSteps        \* bound

Key == Range(Apps) \cup Range(Files)
NoIcon == "none"

VARIABLES
  disk, dir, watched,   \* entries of the directory, whether it exists, and is watched
  due,                  \* a reload was announced
  icons,                \* key -> the widget: its path, place, selection, and whether it lives
  recreated,            \* the application icons were made after the others
  cells,                \* _grid_cells, in order of insertion
  saved, stored,        \* _saved_positions, and the layout file
  held,                 \* the icon under the pressed button
  rows,
  wallpaper, painted,   \* _wallpaper with the size it is for, and what is on the screen
  repaint,              \* the screen is to be painted
  placed, dragged, strayed,   \* ghosts
  steps                 \* bound

directory == <<disk, dir, watched, due>>
grid == <<icons, recreated, cells>>
layout == <<saved, stored>>
picture == <<wallpaper, painted, repaint>>
ghosts == <<placed, dragged, strayed>>
iconVars == <<directory, grid, layout, held, rows, picture, ghosts, steps>>

IsApp(k) == k \in Range(Apps)
Order(keys) == SelectSeq(Apps \o Files, LAMBDA k : k \in keys)
NewIcon(k) == [path |-> k, at |-> <<0, 0>>, selected |-> FALSE, alive |-> TRUE]

-----------------------------------------------------------------------------
(* The layout *)

\* Mutant: a saved place is taken whoever else has it.
AlwaysKept(ic, wish, k) == ic[k].path \in DOMAIN wish

\* Whether an icon gets its saved place: no item before it has the same.
Keeps(ic, wish, k) ==
  /\ ic[k].path \in DOMAIN wish
  /\ LET order == Order(DOMAIN ic)
     IN  \A i \in 1..(SelectInSeq(order, LAMBDA j : j = k) - 1) :
           LET other == ic[order[i]].path
           IN  other \in DOMAIN wish => wish[other] # wish[ic[k].path]

\* _layout_all_items: the saved places first, then column by column what is free; it ends at
\* the first icon that does not live.  The items as they are placed, each with its cell.
Placing(ic, wish) ==
  LET order == Order(DOMAIN ic)
      kept == SelectSeq(order, LAMBDA k : Keeps(ic, wish, k))
      others == SelectSeq(order, LAMBDA k : ~Keeps(ic, wish, k))
      taken == {wish[ic[kept[i]].path] : i \in DOMAIN kept}
      scan == [n \in 1..(Len(order) + Cardinality(taken)) |-> <<(n - 1) \div rows, (n - 1) % rows>>]
      free == SelectSeq(scan, LAMBDA c : c \notin taken)
      all == [i \in DOMAIN kept |-> [key |-> kept[i], cell |-> wish[ic[kept[i]].path]]]
             \o [i \in DOMAIN others |-> [key |-> others[i], cell |-> free[i]]]
      dead == SelectInSeq(all, LAMBDA p : ~ic[p.key].alive)
  IN  IF dead = 0 THEN all ELSE SubSeq(all, 1, dead - 1)

CellsOf(ic, wish) ==
  LET placing == Placing(ic, wish)
  IN  [i \in DOMAIN placing |-> [cell |-> placing[i].cell, id |-> ic[placing[i].key].path]]

PlacesOf(ic, wish) ==
  LET placing == Range(Placing(ic, wish))
  IN  [k \in DOMAIN ic |-> [ic[k] EXCEPT !.at =
         IF \E p \in placing : p.key = k THEN (CHOOSE p \in placing : p.key = k).cell ELSE @]]

LaysOut(ic, wish) == cells' = CellsOf(ic, wish) /\ icons' = PlacesOf(ic, wish)

\* _load_desktop_files: every icon is replaced, and the directory made when it is missing.
Loads(entries, wish) ==
  /\ LaysOut([k \in Range(Apps) \cup entries |-> NewIcon(k)], wish)
  /\ recreated' = FALSE /\ held' = NoIcon /\ dir' = TRUE

\* _pixel_to_grid and the search in growing squares, column by column.
Nearest(spot, taken) ==
  LET Clip(n) == IF n < 0 THEN 0 ELSE n
      home == <<Clip(spot[1]), Clip(spot[2])>>
      Around(r) == (-r..r) \X (-r..r)
      Cell(d) == <<Clip(home[1] + d[1]), Clip(home[2] + d[2])>>
      Free(r) == {d \in Around(r) : Cell(d) \notin taken}
      ring == CHOOSE r \in 0..Cardinality(taken) :
                Free(r) # {} /\ \A q \in 0..(r - 1) : Free(q) = {}
  IN  Cell(CHOOSE d \in Free(ring) : \A e \in Free(ring) :
             d[1] < e[1] \/ (d[1] = e[1] /\ d[2] <= e[2]))

\* Mutant: the place an icon leaves is not given back.
KeepsOld(list, id) == list

Without(list, id) ==
  LET i == SelectInSeq(list, LAMBDA c : c.id = id)
  IN  IF i = 0 THEN list ELSE RemoveAt(list, i)

\* One icon of _snap_selected_icons, and of dropEvent.
SnapOne(grid_, k, spot) ==
  LET id == grid_.icons[k].path
      left == Without(grid_.cells, id)
      cell == Nearest(spot, {c.cell : c \in Range(left)})
  IN  [icons |-> [grid_.icons EXCEPT ![k].at = cell],
       cells |-> Append(left, [cell |-> cell, id |-> id]),
       saved |-> [p \in DOMAIN grid_.saved \cup {id} |->
                    IF p = id THEN cell ELSE grid_.saved[p]]]

\* _save_layout: the file is emptied before it is written.
Saves(ok) == stored' = IF ok THEN [ok |-> TRUE, at |-> saved'] ELSE [ok |-> FALSE, at |-> << >>]

-----------------------------------------------------------------------------

IconsInit ==
  /\ disk \in {{}, {Head(Files)}} /\ dir = TRUE /\ watched = TRUE /\ due = FALSE
  /\ saved \in Layouts /\ stored = [ok |-> TRUE, at |-> saved]
  /\ rows \in Rows /\ recreated = FALSE /\ held = NoIcon
  /\ LET ic == [k \in Range(Apps) \cup disk |-> NewIcon(k)]
     IN  cells = CellsOf(ic, saved) /\ icons = PlacesOf(ic, saved)
  /\ wallpaper = [of |-> "none", rows |-> 0] /\ painted = wallpaper /\ repaint = TRUE
  /\ placed = {} /\ dragged = FALSE /\ strayed = FALSE /\ steps = 0

Counted == steps < MaxSteps /\ steps' = steps + 1
Idle == held = NoIcon /\ Counted

\* Nothing is announced, and no button pressed.
Settled == ~due /\ watched /\ held = NoIcon

\* The desktop is made anew, with the layout that can be read.
Restart ==
  /\ Counted
  /\ saved' = stored.at
  /\ Loads(disk, stored.at)
  /\ watched' = TRUE /\ due' = FALSE
  /\ wallpaper' = [of |-> "none", rows |-> 0] /\ painted' = wallpaper' /\ repaint' = TRUE
  /\ dragged' = FALSE
  /\ UNCHANGED <<disk, stored, rows, placed, strayed>>

-----------------------------------------------------------------------------
(* The mouse *)

\* mousePressEvent of an icon: with Shift or Ctrl it toggles; an icon that is not selected
\* becomes the only one.
Press(k, multi) ==
  /\ held = NoIcon /\ icons[k].alive /\ steps < MaxSteps
  /\ held' = k /\ dragged' = FALSE
  /\ icons' = IF multi THEN [icons EXCEPT ![k].selected = ~@]
              ELSE IF icons[k].selected THEN icons
              ELSE [j \in DOMAIN icons |-> [icons[j] EXCEPT !.selected = j = k]]
  /\ UNCHANGED <<directory, recreated, cells, layout, rows, picture, placed, strayed, steps>>

\* mouseMoveEvent, its calls together: all that is selected moves along.
Drag(move) ==
  /\ held # NoIcon /\ ~dragged
  /\ icons' = [k \in DOMAIN icons |->
                 IF icons[k].selected /\ icons[k].alive
                 THEN [icons[k] EXCEPT !.at = <<@[1] + move[1], @[2] + move[2]>>] ELSE icons[k]]
  /\ dragged' = TRUE
  /\ UNCHANGED <<directory, recreated, cells, layout, held, rows, picture, placed, strayed, steps>>

Chosen == {k \in DOMAIN icons : icons[k].selected /\ icons[k].alive}

\* The workspace's children, in the order they were made.
Children ==
  LET Made(names) == SelectSeq(names, LAMBDA k : k \in Chosen)
  IN  IF recreated THEN Made(Files) \o Made(Apps) ELSE Made(Apps) \o Made(Files)

\* mouseReleaseEvent with _snap_selected_icons, of a click as well as of a drag.
Release(ok) ==
  /\ held # NoIcon /\ held' = NoIcon /\ Counted
  /\ LET snapped == FoldLeft(LAMBDA g, k : SnapOne(g, k, icons[k].at),
                             [icons |-> icons, cells |-> cells, saved |-> saved], Children)
     IN  /\ icons' = snapped.icons /\ cells' = snapped.cells /\ saved' = snapped.saved
  /\ IF Chosen = {} THEN UNCHANGED <<stored, placed>>
     ELSE Saves(ok) /\ placed' = {icons[k].path : k \in Chosen}
  /\ strayed' = (strayed \/ (~dragged /\ ~due /\ watched /\ icons' # icons))
  /\ UNCHANGED <<directory, recreated, rows, picture, dragged>>

\* DesktopWorkspace: the rubber band adds what it touches; without a modifier, to nothing.
Band(from, to, multi) ==
  /\ Idle
  /\ icons' = [k \in DOMAIN icons |->
       [icons[k] EXCEPT !.selected = (multi /\ @) \/
          (icons[k].at[1] \in from[1]..to[1] /\ icons[k].at[2] \in from[2]..to[2])]]
  /\ UNCHANGED <<directory, recreated, cells, layout, held, rows, picture, ghosts>>

\* dropEvent: a text that names an icon is dropped.  When the icon does not live, its move
\* raises, after its cell was given back.
Drop(k, spot, ok) ==
  /\ Idle
  /\ IF icons[k].alive
     THEN LET g == SnapOne([icons |-> icons, cells |-> cells, saved |-> saved], k, spot)
          IN  icons' = g.icons /\ cells' = g.cells /\ saved' = g.saved
              /\ Saves(ok) /\ placed' = {icons[k].path}
     ELSE cells' = Without(cells, icons[k].path) /\ UNCHANGED <<icons, layout, placed>>
  /\ UNCHANGED <<directory, recreated, held, rows, picture, dragged, strayed>>

-----------------------------------------------------------------------------
(* Menus, each while no button is held *)

\* _rename: onto a name that exists it fails or replaces the file, as the system does.  The
\* layout keeps the old name.
Rename(k, name, replaces) ==
  /\ Idle /\ k \notin Range(Apps) /\ icons[k].alive /\ icons[k].path \in disk
  /\ name # icons[k].path /\ (name \in disk => replaces)
  /\ disk' = (disk \ {icons[k].path}) \cup {name}
  /\ icons' = [icons EXCEPT ![k].path = name]
  /\ due' = watched
  /\ UNCHANGED <<dir, watched, recreated, cells, layout, held, rows, picture, ghosts>>

\* _move_to_trash: the widget goes, the list keeps it.
MoveToTrash(k) ==
  /\ Idle /\ k \notin Range(Apps) /\ icons[k].alive
  /\ disk' = disk \ {icons[k].path}
  /\ icons' = [icons EXCEPT ![k].alive = FALSE]
  /\ due' = (due \/ (watched /\ disk' # disk))
  /\ UNCHANGED <<dir, watched, recreated, cells, layout, held, rows, picture, ghosts>>

\* _desktop_new_file and _desktop_new_folder; only the latter makes the directory.
NewEntry(name) ==
  /\ Idle /\ (dir \/ name \in Folders)
  /\ disk' = disk \cup {name}
  /\ Loads(disk', saved)
  /\ due' = (due \/ (watched /\ disk' # disk))
  /\ UNCHANGED <<watched, layout, rows, picture, ghosts>>

\* _create_icons: new application icons, and a layout of all.
Refresh ==
  /\ Idle
  /\ LaysOut([k \in DOMAIN icons |-> IF IsApp(k) THEN NewIcon(k) ELSE icons[k]], saved)
  /\ recreated' = TRUE
  /\ UNCHANGED <<directory, layout, held, rows, picture, ghosts>>

\* _sort_icons
Sort(ok) ==
  /\ Idle
  /\ saved' = << >> /\ Saves(ok) /\ placed' = {}
  /\ LaysOut(icons, saved')
  /\ UNCHANGED <<directory, recreated, held, rows, picture, dragged, strayed>>

-----------------------------------------------------------------------------
(* The directory and its watcher *)

\* Somebody else adds or removes an entry, the trash when it restores one among them.
DirectoryChanges(name) ==
  /\ dir /\ Counted
  /\ disk' = IF name \in disk THEN disk \ {name} ELSE disk \cup {name}
  /\ due' = watched
  /\ UNCHANGED <<dir, watched, grid, layout, held, rows, picture, ghosts>>

\* The directory itself is removed, which the watcher tells, and watches it no longer.
DirectoryGone ==
  /\ dir /\ Counted
  /\ dir' = FALSE /\ disk' = {} /\ watched' = FALSE /\ due' = (due \/ watched)
  /\ UNCHANGED <<grid, layout, held, rows, picture, ghosts>>

\* The timer of _on_desktop_changed.
Reload ==
  /\ due /\ due' = FALSE
  /\ Loads(disk, saved)
  /\ UNCHANGED <<disk, watched, layout, rows, picture, ghosts, steps>>

-----------------------------------------------------------------------------
(* The wallpaper *)

Resize(r) ==
  /\ rows # r /\ rows' = r /\ repaint' = TRUE /\ Counted
  /\ UNCHANGED <<directory, grid, layout, held, wallpaper, painted, ghosts>>

\* _change_wallpaper_dialog: the picture as it is, in its own size.  The path is saved, which
\* nobody reads.
ChangeWallpaper(r) ==
  /\ Idle /\ wallpaper' = [of |-> "chosen", rows |-> r] /\ repaint' = TRUE
  /\ UNCHANGED <<directory, grid, layout, held, rows, painted, ghosts>>

\* Mutant: what was rendered once is kept.
KeptAnyway == wallpaper.of # "none"

WallpaperFits == wallpaper.of # "none" /\ wallpaper.rows = rows

\* paintEvent and _load_wallpaper: what does not fit is rendered again, from the default.
Paint ==
  /\ repaint /\ repaint' = FALSE
  /\ wallpaper' = IF WallpaperFits THEN wallpaper ELSE [of |-> "default", rows |-> rows]
  /\ painted' = wallpaper'
  /\ UNCHANGED <<directory, grid, layout, held, rows, ghosts, steps>>

-----------------------------------------------------------------------------
OnIcons ==
  \E k \in DOMAIN icons :
    \/ \E multi \in BOOLEAN : Press(k, multi)
    \/ MoveToTrash(k)
    \/ \E name \in Range(Files), replaces \in BOOLEAN : Rename(k, name, replaces)
    \/ \E spot \in Spots, ok \in BOOLEAN : Drop(k, spot, ok)

IconsNext ==
  \/ OnIcons \/ Refresh \/ Reload \/ Restart \/ DirectoryGone
  \/ \E move \in Moves : Drag(move)
  \/ \E ok \in BOOLEAN : Release(ok) \/ Sort(ok)
  \/ \E from \in Spots, to \in Spots, multi \in BOOLEAN : Band(from, to, multi)
  \/ \E name \in Range(Files) : NewEntry(name) \/ DirectoryChanges(name)
  \/ \E r \in Rows : Resize(r)

\* Nothing but the size ties the wallpaper to the icons.
PictureNext == Restart \/ Paint \/ \E r \in Rows : Resize(r) \/ ChangeWallpaper(r)

-----------------------------------------------------------------------------
IconsTypeOK ==
  /\ disk \subseteq Range(Files) /\ {dir, watched, due, recreated, stored.ok} \subseteq BOOLEAN
  /\ Range(Apps) \subseteq DOMAIN icons /\ DOMAIN icons \subseteq Key
  /\ held \in DOMAIN icons \cup {NoIcon} /\ (held # NoIcon => icons[held].alive)

\* Once the announced reload was made, the icons are the applications and the directory's
\* entries, whatever was renamed, trashed, added or removed.
FollowsDisk ==
  Settled => /\ DOMAIN icons = Range(Apps) \cup disk
             /\ \A k \in DOMAIN icons : icons[k].alive /\ icons[k].path = k

\* And no two of them lie in one cell, and the registry knows where each lies.
OneIconACell ==
  Settled =>
    /\ {[cell |-> icons[k].at, id |-> k] : k \in DOMAIN icons} = Range(cells)
    /\ \A i, j \in DOMAIN icons : icons[i].at = icons[j].at => i = j

\* A click without a drag saves a place but moves nothing.
ClicksMoveNothing == ~strayed

\* Where the user put an icon is in the layout file, until an entry that shares its cell comes
\* back to the directory, or the file could not be written.
PutIsSaved ==
  Settled /\ stored.ok =>
    /\ stored.at = saved
    /\ \A k \in DOMAIN icons : k \in placed => \/ saved[k] = icons[k].at
                                                \/ \E j \in DOMAIN saved \ {k} : saved[j] = saved[k]

\* What is on the screen has the desktop's size, once it was painted.
PictureFits == ~repaint => painted.rows = rows

IconsSound == IconsTypeOK /\ FollowsDisk /\ OneIconACell /\ ClicksMoveNothing /\ PutIsSaved
              /\ PictureFits
=============================================================================
