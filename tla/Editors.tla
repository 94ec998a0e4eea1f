-------------------------------- MODULE Editors --------------------------------
(* NotepadApp: some notepads over the same files.  A text is the stamp of the  *)
(* edit that made it, 0 when it is empty; a write that fails may leave a file  *)
(* emptied, and reading what is not UTF-8 changes it.  The terminal's nano     *)
(* writes in the same way, but building it raises before it is shown.          *)
EXTENDS Integers, FiniteSets

CONSTANTS Notepads, Texts, MaxEdits     \* a bound on the edits

ASSUME EditorsAssumption ==
  "none" \notin Texts /\ "host" \notin Notepads /\ MaxEdits \in Nat

None == "none"
Missing == -1
Garbled == -2                           \* bytes that are not UTF-8, or the text read from them

VARIABLES
  content,                              \* what each file holds
  writer,                               \* history: who wrote it last, "host" for nobody here
  text, current_file, dirty,            \* of each notepad: the text, current_file, _is_dirty
  title,                                \* the file and the mark its title shows
  open,                                 \* the notepads there are
  opening,                              \* a file given at the start, read a moment later
  misnamed,                             \* history: named for a file that "Save as" failed to write
  edits

editorVars == <<content, writer, text, current_file, dirty, title, open, opening, misnamed, edits>>

Set(f, e, v) == [f EXCEPT ![e] = v]
Titled(e, file, mark) == title' = Set(title, e, <<file, mark>>)

EditorsInit ==
  /\ content \in [Texts -> {Missing, Garbled, 0}] /\ writer = [f \in Texts |-> "host"]
  /\ text = [e \in Notepads |-> 0] /\ current_file = [e \in Notepads |-> None]
  /\ dirty = [e \in Notepads |-> FALSE] /\ title = [e \in Notepads |-> <<None, FALSE>>]
  /\ open = {} /\ opening = [e \in Notepads |-> None] /\ misnamed = {} /\ edits = 0

\* A notepad starts empty, also one that is given a file.
Start(e) ==
  /\ e \notin open /\ open' = open \cup {e}
  /\ opening' \in {Set(opening, e, f) : f \in Texts \cup {None}}
  /\ text' = Set(text, e, 0) /\ current_file' = Set(current_file, e, None)
  /\ dirty' = Set(dirty, e, FALSE) /\ Titled(e, None, FALSE)
  /\ misnamed' = misnamed \ {e}
  /\ UNCHANGED <<content, writer, edits>>

\* _on_text_changed
Edit(e) ==
  /\ edits < MaxEdits /\ edits' = edits + 1
  /\ text' = Set(text, e, edits + 1) /\ dirty' = Set(dirty, e, TRUE)
  /\ IF dirty[e] THEN UNCHANGED title ELSE Titled(e, current_file[e], TRUE)
  /\ UNCHANGED <<content, writer, current_file, open, opening, misnamed>>

\* _open_file, after the dialog or a moment after the start; nothing asks for unsaved text.
Read(e, f) ==
  IF content[f] = Missing THEN UNCHANGED <<text, current_file, dirty, title, misnamed>>
  ELSE /\ text' = Set(text, e, content[f]) /\ current_file' = Set(current_file, e, f)
       /\ dirty' = Set(dirty, e, FALSE) /\ Titled(e, f, FALSE)
       /\ misnamed' = misnamed \ {e}

OpenFile(e) ==
  /\ \E f \in Texts : Read(e, f)
  /\ UNCHANGED <<content, writer, open, opening, edits>>

OpenGiven(e) ==
  /\ opening[e] # None /\ Read(e, opening[e])
  /\ opening' = Set(opening, e, None)
  /\ UNCHANGED <<content, writer, open, edits>>

\* Mutant: a save that fails counts as one.
WrittenOrNot(e, f) ==
  /\ content' \in {content, Set(content, f, text[e])} /\ writer' = Set(writer, f, e)
  /\ dirty' = Set(dirty, e, FALSE) /\ Titled(e, f, FALSE)
  /\ misnamed' = misnamed \ {e}

\* _save_file to a file: written, or not; a write that fails may have emptied it.
Written(e, f) ==
  /\ content' = Set(content, f, text[e]) /\ writer' = Set(writer, f, e)
  /\ dirty' = Set(dirty, e, FALSE) /\ Titled(e, f, FALSE)
  /\ misnamed' = misnamed \ {e}

Fails(e, f) ==
  /\ \/ UNCHANGED <<content, writer>>
     \/ content' = Set(content, f, 0) /\ writer' = Set(writer, f, "host")
  /\ misnamed' = IF f = current_file[e] THEN misnamed ELSE misnamed \cup {e}
  /\ UNCHANGED <<dirty, title>>

\* _save_file_as names the file before it is written.
Targets(e) == IF current_file[e] = None THEN Texts ELSE {current_file[e]}

SaveFile(e) ==
  /\ \E f \in Targets(e) : current_file' = Set(current_file, e, f) /\ (Written(e, f) \/ Fails(e, f))
  /\ UNCHANGED <<text, open, opening, edits>>

SaveFileAs(e) ==
  /\ \E f \in Texts : current_file' = Set(current_file, e, f) /\ (Written(e, f) \/ Fails(e, f))
  /\ UNCHANGED <<text, open, opening, edits>>

\* What is left of a notepad after "New".
Emptied(e) ==
  /\ text' = Set(text, e, 0) /\ current_file' = Set(current_file, e, None)
  /\ dirty' = Set(dirty, e, FALSE) /\ Titled(e, None, FALSE)
  /\ misnamed' = misnamed \ {e}

\* _new_file: the answer "Yes" saves, and clears the text whether that went well or not.
NewFile(e) ==
  /\ Emptied(e)
  /\ \/ UNCHANGED <<content, writer>>
     \/ /\ dirty[e]
        /\ \E f \in Targets(e) :
             \/ content' = Set(content, f, text[e]) /\ writer' = Set(writer, f, e)
             \/ content' = Set(content, f, 0) /\ writer' = Set(writer, f, "host")
  /\ UNCHANGED <<open, opening, edits>>

\* closeEvent asks nothing.
Close(e) ==
  /\ open' = open \ {e} /\ opening' = Set(opening, e, None)
  /\ Emptied(e)
  /\ UNCHANGED <<content, writer, edits>>

EditorsNext ==
  \E e \in Notepads :
    \/ Start(e)
    \/ e \in open /\ (Edit(e) \/ OpenFile(e) \/ OpenGiven(e) \/ SaveFile(e) \/ SaveFileAs(e))
    \/ e \in open /\ (NewFile(e) \/ Close(e))

EditorsSpec == EditorsInit /\ [][EditorsNext]_editorVars

EditorsTypeOK ==
  /\ content \in [Texts -> -2..MaxEdits] /\ text \in [Notepads -> -2..MaxEdits]
  /\ current_file \in [Notepads -> Texts \cup {None}] /\ dirty \in [Notepads -> BOOLEAN]
  /\ open \subseteq Notepads /\ misnamed \subseteq Notepads

\* A notepad without the mark of unsaved text shows what its file holds, as long as nobody else
\* wrote that file since: a save that failed keeps the mark, and only "Save as" may leave a
\* notepad that is named for a file it never wrote.
CleanIsSaved ==
  \A e \in open, f \in Texts :
    ~dirty[e] /\ current_file[e] = f /\ writer[f] = e /\ e \notin misnamed => content[f] = text[e]

\* The title has that mark, and the file's name with the same exception.
TitleTells ==
  \A e \in open : title[e][2] = dirty[e] /\ (title[e][1] # current_file[e] => e \in misnamed)

EditorsSound == EditorsTypeOK /\ CleanIsSaved /\ TitleTells
===============================================================================
