----------------------------- MODULE TerminalLine -----------------------------
(* TerminalBuffer: the text of a terminal tab, of which all after _prompt_pos  *)
(* is the command being typed.  The text is a sequence of marks: "o" output,   *)
(* "p" a prompt, "k" what was typed, "n" a new line; a position counts the     *)
(* marks before it.  Output is added through a copy of the cursor, which moves *)
(* the widget's own only from the end of the text, as Qt's cursors do; a       *)
(* position past the end is refused by Qt and leaves the cursor where it is.   *)
(* What the engine says comes as posted signals.  The mode in which a password *)
(* is typed without echo is Terminal's.                                        *)
EXTENDS Naturals, Sequences, FiniteSets

CONSTANTS MaxKeys, MaxBlocks     \* a bound on what the user does; the lines kept (3000)

VARIABLES
  doc, prompt_pos,               \* the text, _prompt_pos
  pos, anchor,                   \* the widget's cursor and the other end of its selection
  history, hist_idx,             \* _history; _hist_idx, 0 for none
  posts,                         \* signals of the engine on their way
  busy,                          \* an OS command runs in the executor's thread
  later,                         \* what the timers of a command have still to post
  sent,                          \* the command sent last, where that is plain
  slipped, plain,                \* history: see BoundaryHolds; nothing came since the last prompt
  keys

lineVars ==
  <<doc, prompt_pos, pos, anchor, history, hist_idx, posts, busy, later, sent,
    slipped, plain, keys>>

Least(a, b) == IF a < b THEN a ELSE b
Most(a, b) == IF a < b THEN b ELSE a
End == Len(doc)

\* Where the last prompt of a text ends.
AfterPrompt(d) ==
  LET at == {i \in 1..Len(d) : d[i] = "p"}
  IN IF at = {} THEN 0 ELSE CHOOSE i \in at : \A j \in at : j <= i

\* A text with its cursor: t.doc, t.pos, t.anchor.
Now == [doc |-> doc, pos |-> pos, anchor |-> anchor]

Lines(d) == 1 + Cardinality({i \in 1..Len(d) : d[i] = "n"})
LinesEnd(d, many) == CHOOSE i \in 1..Len(d) : d[i] = "n" /\ Lines(SubSeq(d, 1, i)) = many + 1

\* setMaximumBlockCount: the first lines go, and with them the positions after them shift.
Trimmed(t) ==
  IF Lines(t.doc) <= MaxBlocks THEN t
  ELSE LET cut == LinesEnd(t.doc, Lines(t.doc) - MaxBlocks)
           Shift(x) == IF x < cut THEN 0 ELSE x - cut
       IN [doc |-> SubSeq(t.doc, cut + 1, Len(t.doc)), pos |-> Shift(t.pos), anchor |-> Shift(t.anchor)]

\* Marks put in at a position; a cursor there moves behind them.
Put(t, at, marks) ==
  LET Shift(x) == IF x >= at THEN x + Len(marks) ELSE x
  IN Trimmed([doc |-> SubSeq(t.doc, 1, at) \o marks \o SubSeq(t.doc, at + 1, Len(t.doc)),
              pos |-> Shift(t.pos), anchor |-> Shift(t.anchor)])

\* append_output and all that writes at the end.
Added(t, marks) == Put(t, Len(t.doc), marks)

Without(t, from, to) ==
  LET Shift(x) == IF x <= from THEN x ELSE IF x >= to THEN x - (to - from) ELSE from
  IN [doc |-> SubSeq(t.doc, 1, from) \o SubSeq(t.doc, to + 1, Len(t.doc)),
      pos |-> Shift(t.pos), anchor |-> Shift(t.anchor)]

At(t, p) == [t EXCEPT !.pos = p, !.anchor = p]
ToEnd(t) == At(t, Len(t.doc))

\* Where the command being typed begins: setPosition(_prompt_pos), where it is a position.
Begin(t) == IF prompt_pos <= Len(t.doc) THEN prompt_pos ELSE t.anchor
CurrentInput == SubSeq(doc, Begin(Now) + 1, End)

\* _replace_current_input; the widget's cursor goes to the end.
Replaced(t, marks) == ToEnd(Added(Without(t, Begin(t), Len(t.doc)), marks))

\* Whatever typing works on: a cursor before the prompt goes to the end first.
Typing == IF pos < prompt_pos THEN ToEnd(Now) ELSE Now

Selected(t) == t.pos # t.anchor
Low(t) == Least(t.pos, t.anchor)
High(t) == Most(t.pos, t.anchor)
Over(t, marks) == Put(Without(t, Low(t), High(t)), Low(t), marks)

\* What a step leaves.  The boundary slips where the text before it changes in length and
\* _prompt_pos does not follow.
Leaves(t) ==
  /\ doc' = t.doc /\ pos' = t.pos /\ anchor' = t.anchor

Brings(t, marks) ==
  slipped' = \/ slipped
             \/ Lines(SubSeq(t.doc, 1, Begin(t)) \o marks) > MaxBlocks
             \/ \E i \in 1..Len(marks) : marks[i] \in {"o", "p"}
Reaches(from) == slipped' = (slipped \/ from < prompt_pos)
Cuts(d) == slipped' = (slipped \/ Lines(d) >= MaxBlocks)

LineInit ==
  /\ doc = <<"o", "n", "p">> /\ prompt_pos = 3 /\ pos = 3 /\ anchor = 3
  /\ history = << >> /\ hist_idx = 0
  /\ posts = << >> /\ busy = FALSE /\ later = << >> /\ sent = << >>
  /\ slipped = FALSE /\ plain = TRUE /\ keys = 0

\* ping tells of its replies one by one and gives a second prompt at the end, as the reports do
\* that come after some time; pressure-test tells of three steps.
Pings == << <<"out">>, <<"out", "prompt">> >>
Report == << <<"out", "prompt">> >>
PressureSteps == << <<"out">>, <<"out">>, <<"out">> >>

\* What the engine answers: output and a prompt, one of them, or nothing (a line that comes too
\* soon, one that asks for a password); it starts an OS command that answers later, or timers,
\* of the first command here, to bound the states.
Answers(cmd) ==
  \/ posts' = posts \o <<"prompt">> /\ UNCHANGED <<busy, later>>
  \/ /\ cmd # << >> /\ posts' = posts \o <<"out", "prompt">> /\ UNCHANGED busy
     /\ \/ UNCHANGED later
        \/ history = << >> /\ later' \in {Pings, Report, PressureSteps}
  \/ posts' = posts /\ busy' = (cmd # << >>) /\ UNCHANGED later

Fires ==
  /\ later # << >> /\ later' = Tail(later)
  /\ posts' = posts \o Head(later)
  /\ UNCHANGED <<doc, prompt_pos, pos, anchor, history, hist_idx, busy, sent, slipped, plain, keys>>

Finishes ==
  /\ busy /\ busy' = FALSE
  /\ posts' = posts \o <<"out", "prompt">>
  /\ UNCHANGED <<doc, prompt_pos, pos, anchor, history, hist_idx, later, sent, slipped, plain, keys>>

\* An empty line is plain with an empty line.
Empty == posts' = posts \o <<"line">> /\ UNCHANGED <<busy, later>>

Enter ==
  LET cmd == SubSeq(Typing.doc, Begin(Typing) + 1, Len(Typing.doc))
      typed == \E i \in 1..Len(cmd) : cmd[i] # "n"
  IN /\ Leaves(Added(Typing, <<"n">>)) /\ Cuts(doc)
     /\ sent' = IF plain /\ ~slipped THEN cmd ELSE << >>
     /\ history' = IF typed /\ (history = << >> \/ history[Len(history)] # cmd)
                   THEN Append(history, cmd) ELSE history
     /\ hist_idx' = 0 /\ plain' = FALSE
     /\ IF typed THEN Answers(cmd) ELSE Empty
     /\ UNCHANGED prompt_pos

\* A key with a character takes the place of what is selected.
Type ==
  /\ Leaves(Over(Typing, <<"k">>)) /\ Reaches(Low(Typing))
  /\ UNCHANGED <<prompt_pos, history, hist_idx, posts, busy, later, sent, plain>>

\* Mutant: one position too far to the left may be deleted.
ProtectedBut(t) == Low(t) < prompt_pos

\* Nothing before the prompt is deleted.
IsRangeProtected(t) == IF Selected(t) THEN Low(t) < prompt_pos ELSE t.pos <= prompt_pos

\* Qt looks for the word itself: with Ctrl a key takes all back to where it finds the word's
\* beginning, or on to its end, somewhere in the line; going back that may be in the prompt.
Back(t) == {at \in 0..t.pos - 1 : \A i \in at + 1..t.pos - 1 : t.doc[i] # "n"}
Forth(t) == {at \in t.pos..Len(t.doc) : \A i \in t.pos + 2..at : t.doc[i] # "n"}

Backspace ==
  /\ ~IsRangeProtected(Typing)
  /\ IF Selected(Typing)
     THEN Leaves(Without(Typing, Low(Typing), High(Typing))) /\ UNCHANGED slipped
     ELSE \E at \in Back(Typing) :
            /\ Leaves(Without(Typing, at, Typing.pos))
            /\ Reaches(IF at = Typing.pos - 1 THEN prompt_pos ELSE at)
  /\ UNCHANGED <<prompt_pos, history, hist_idx, posts, busy, later, sent, plain>>

Delete ==
  /\ ~IsRangeProtected(Typing)
  /\ IF Selected(Typing) THEN Leaves(Without(Typing, Low(Typing), High(Typing)))
     ELSE \E at \in Forth(Typing) : Leaves(Without(Typing, Typing.pos, at))
  /\ UNCHANGED <<prompt_pos, history, hist_idx, posts, busy, later, sent, slipped, plain>>

\* Home, Ctrl+A, Ctrl+E, Left, and the mouse, which may put the cursor anywhere.
MovesCursor ==
  /\ \/ Leaves(IF prompt_pos <= End THEN At(Now, prompt_pos) ELSE Now)
     \/ Leaves(ToEnd(Now))
     \/ pos > prompt_pos /\ Leaves(At(Now, IF Selected(Now) THEN Low(Now) ELSE pos - 1))
     \/ \E p, a \in 0..End : Leaves([Now EXCEPT !.pos = p, !.anchor = a])
  /\ UNCHANGED <<prompt_pos, history, hist_idx, posts, busy, later, sent, slipped, plain>>

\* Ctrl+U, Ctrl+K and Ctrl+W take away from the other end of the selection to the prompt, to the
\* end, or to the word before; and Qt's own Ctrl+X what is selected.  None looks where that is.
Word == IF Least(pos - 1, anchor) < prompt_pos THEN prompt_pos ELSE pos - 1

TakesAway ==
  /\ \E to \in {Least(prompt_pos, End), End, IF pos > prompt_pos THEN Word ELSE anchor, pos} :
       /\ Leaves(Without(Now, Least(anchor, to), Most(anchor, to)))
       /\ Reaches(IF to = anchor THEN End + prompt_pos ELSE Least(anchor, to))
  /\ UNCHANGED <<prompt_pos, history, hist_idx, posts, busy, later, sent, plain>>

\* Pasted text and dropped paths go to the end.
Paste ==
  /\ Leaves(ToEnd(Added(ToEnd(Now), <<"k">>)))
  /\ UNCHANGED <<prompt_pos, history, hist_idx, posts, busy, later, sent, slipped, plain>>

\* Ctrl+C with nothing selected: the sign it adds is taken away again with the line.
Interrupt ==
  /\ ~Selected(Now)
  /\ Leaves(Replaced(Added(Now, <<"o", "n">>), << >>)) /\ Cuts(doc)
  /\ Empty
  /\ UNCHANGED <<prompt_pos, history, hist_idx, sent, plain>>

\* Ctrl+L, and the command it sends.
Clear ==
  /\ Leaves([doc |-> << >>, pos |-> 0, anchor |-> 0]) /\ prompt_pos' = 0
  /\ posts' = posts \o <<"clear", "prompt">> /\ plain' = FALSE
  /\ UNCHANGED <<history, hist_idx, busy, later, sent, slipped>>

Up ==
  /\ history # << >>
  /\ hist_idx' = IF hist_idx = 0 THEN Len(history) ELSE Most(hist_idx - 1, 1)
  /\ Leaves(Replaced(Typing, history[hist_idx'])) /\ Brings(Typing, history[hist_idx'])
  /\ UNCHANGED <<prompt_pos, history, posts, busy, later, sent, plain>>

Down ==
  /\ hist_idx # 0
  /\ hist_idx' = IF hist_idx = Len(history) THEN 0 ELSE hist_idx + 1
  /\ LET entry == IF hist_idx' = 0 THEN << >> ELSE history[hist_idx']
     IN Leaves(Replaced(Typing, entry)) /\ Brings(Typing, entry)
  /\ UNCHANGED <<prompt_pos, history, posts, busy, later, sent, plain>>

\* Tab: one match completes the command, as a suggestion does; of several the list goes with the
\* line it replaces, and the prompt that was asked for comes after the command.
Complete ==
  /\ CurrentInput # << >>
  /\ \/ Leaves(Replaced(Typing, CurrentInput \o <<"k">>)) /\ UNCHANGED <<posts, slipped>>
     \/ /\ Leaves(Replaced(Added(Typing, <<"n", "o", "n">>), CurrentInput))
        /\ posts' = posts \o <<"prompt">>
        /\ slipped' = (slipped \/ Lines(doc) + 1 >= MaxBlocks)
  /\ UNCHANGED <<prompt_pos, history, hist_idx, busy, later, sent, plain>>

\* set_prompt_text: a line of its own, and the widget's cursor is taken for its end.
SetPrompt ==
  LET fresh == doc # << >> /\ doc[End] # "n"
      t == Added(IF fresh THEN Added(Now, <<"n">>) ELSE Now, <<"p">>)
  IN /\ Leaves(t) /\ prompt_pos' = t.pos
     /\ slipped' = (t.pos # Len(t.doc))
     /\ plain' = TRUE
     /\ UNCHANGED <<history, hist_idx, busy, later, sent, keys>>

Shows(signal) ==
  /\ plain' = FALSE
  /\ IF signal = "clear" THEN Leaves([doc |-> << >>, pos |-> 0, anchor |-> 0]) /\ prompt_pos' = 0
                              /\ UNCHANGED slipped
     ELSE /\ Leaves(Added(Now, IF signal = "out" THEN <<"o", "n">> ELSE <<"n">>)) /\ Cuts(doc)
          /\ UNCHANGED prompt_pos
  /\ UNCHANGED <<history, hist_idx, busy, later, sent, keys>>

Delivered ==
  /\ posts # << >> /\ posts' = Tail(posts)
  /\ IF Head(posts) = "prompt" THEN SetPrompt ELSE Shows(Head(posts))

UserActs ==
  /\ keys < MaxKeys /\ keys' = keys + 1
  /\ \/ Enter \/ Type \/ Backspace \/ Delete \/ MovesCursor \/ TakesAway \/ Paste \/ Interrupt
     \/ Clear \/ Up \/ Down \/ Complete

LineNext == UserActs \/ Delivered \/ Finishes \/ Fires

LineTypeOK ==
  /\ doc \in Seq({"o", "n", "p", "k"}) /\ {pos, anchor} \subseteq 0..Len(doc)
  /\ prompt_pos \in Nat /\ hist_idx \in 0..Len(history)
  /\ {busy, slipped, plain} \subseteq BOOLEAN

\* The command begins right after the last prompt, whatever is typed, deleted, pasted, dropped,
\* completed or taken from the history, unless the boundary slipped: a prompt came while the
\* cursor was elsewhere, a selection that reaches before it was typed over, one of the keys that
\* do not look where they take away did, the lines were more than are kept, or an entry of the
\* history brought back what an earlier slip had sent.
BoundaryHolds == ~slipped => prompt_pos = AfterPrompt(doc)

\* And where nothing came since the prompt either, Enter sends what was typed and nothing else;
\* a new line in it is one of the history, whose entries hold what an unanswered line sent.
SendsTyped == \A i \in 1..Len(sent) : sent[i] \in {"k", "n"}

LineSound == LineTypeOK /\ BoundaryHolds /\ SendsTyped
===============================================================================
