----------------------------- MODULE ShellSession -----------------------------
(* What all terminal tabs share, CommandContext's class attributes: the history *)
(* of commands with its file, the aliases and the session's variables.  A new   *)
(* tab takes the history anew from the file, every command saves it.  A line    *)
(* is a list of the lines the file has of it: splitlines() ends a line at a     *)
(* paragraph separator too, which the widget puts into a command (TerminalLine).*)
(* Text is a sequence of letters, of "$" and of "/", which ends a name.         *)
EXTENDS Naturals, Sequences, FiniteSets

LOCAL INSTANCE SequencesExt

CONSTANTS
  Tabs,
  TypedLines,           \* what is typed
  KeptLines,       \* lines of the history that are saved (1000)
  Letters,
  Variables,       \* names that are exported, sequences of letters
  Values,          \* and their values
  Defaults,        \* the session's own, with their values
  Inherited,       \* the variables the parser knows, from the environment or by itself
  MaxCommands      \* a bound

VARIABLES
  tabs,            \* open tabs; none, and the program may be down
  commands,        \* CommandContext._history
  history_file,    \* terminal_history.txt, or <<"gone">>
  env, aliases,    \* _session_env, a dict in its order; the names in _aliases
  torn,            \* history: the file does not hold what the last save meant
  forgotten,       \* history: a torn file was read
  typed,           \* history: all lines of all programs, what repeats its predecessor left out
  count

sessionVars ==
  <<tabs, commands, history_file, env, aliases, torn, forgotten, typed, count>>

Gone == <<"gone">>
Split(entries) == FlattenSeq(entries)
LastFew(s, n) == IF Len(s) <= n THEN s ELSE SubSeq(s, Len(s) - n + 1, Len(s))

-----------------------------------------------------------------------------
(* Variables: a dict, as the sequence of its keys and values               *)

Names(dict) == {dict[i].name : i \in 1..Len(dict)}
PlaceOf(dict, name) == CHOOSE i \in 1..Len(dict) : dict[i].name = name

\* dict[name] = value keeps the place of a name that is there.
Assigned(dict, name, value) ==
  IF name \in Names(dict) THEN [dict EXCEPT ![PlaceOf(dict, name)].value = value]
  ELSE Append(dict, [name |-> name, value |-> value])

Popped(dict, name) == SelectSeq(dict, LAMBDA e : e.name # name)

\* A text where what begins at i, Size(i) long, is replaced by By(i).
Rewritten(text, Size(_), By(_)) ==
  FlattenSeq([i \in 1..Len(text) |->
    IF Size(i) > 0 THEN By(i)
    ELSE IF \E d \in 1..i - 1 : i < d + Size(d) THEN << >>
    ELSE <<text[i]>>])

\* Mutant: the first "$name" only, as it is with "~".
FirstReplaced(text, e) ==
  LET mark == <<"$">> \o e.name
      Begins(i) == IsPrefix(mark, SubSeq(text, i, Len(text)))
      Size(i) == IF Begins(i) /\ \A j \in 1..i - 1 : ~Begins(j) THEN Len(mark) ELSE 0
  IN Rewritten(text, Size, LAMBDA i : e.value)

\* str.replace of "$name", which cannot overlap itself.
OneReplaced(text, e) ==
  LET mark == <<"$">> \o e.name
      Size(i) == IF IsPrefix(mark, SubSeq(text, i, Len(text))) THEN Len(mark) ELSE 0
  IN Rewritten(text, Size, LAMBDA i : e.value)

\* resolve_targets, resolve_one: one variable after the other in the dict's order, each looked
\* for in what the ones before it left.
Replaced(text, dict) == FoldLeft(OneReplaced, text, dict)

\* The name that begins at a place of a text: all the letters there.
NameAt(text, i) ==
  LET end == CHOOSE j \in i..Len(text) + 1 :
               /\ \A k \in i..j - 1 : text[k] \in Letters
               /\ j > Len(text) \/ text[j] \notin Letters
  IN SubSeq(text, i, end - 1)
StartsName(text, i) == text[i] = "$" /\ NameAt(text, i + 1) # << >>

\* re.sub: each "$name" once, by what Sub says of the name.
Substituted(text, Sub(_)) ==
  LET Size(i) == IF StartsName(text, i) THEN 1 + Len(NameAt(text, i + 1)) ELSE 0
  IN Rewritten(text, Size, LAMBDA i : Sub(NameAt(text, i + 1)))

\* CommandParser.parse, before a command sees its line.
Parsed(text) ==
  Substituted(text, LAMBDA name :
    IF name \in DOMAIN Inherited THEN Inherited[name] ELSE <<"$">> \o name)

\* What echo makes of it: nothing of a variable the session does not have.
Echoed(text, dict) ==
  Substituted(text, LAMBDA name :
    IF name \in Names(dict) THEN dict[PlaceOf(dict, name)].value ELSE << >>)

-----------------------------------------------------------------------------
SessionInit ==
  /\ tabs = {} /\ commands = << >> /\ history_file = Gone
  /\ env = Defaults
  /\ aliases = {}
  /\ torn = FALSE /\ forgotten = FALSE /\ typed = << >> /\ count = 0

\* load_history: without the file, or when it cannot be read, the list stays.
LoadHistory ==
  \/ /\ history_file # Gone
     /\ commands' = [i \in 1..Len(history_file) |-> <<history_file[i]>>]
     /\ forgotten' = (forgotten \/ torn)
  \/ /\ UNCHANGED commands
     /\ forgotten' = (forgotten \/ (commands = << >> /\ typed # << >>))

OpenTab(t) ==
  /\ t \notin tabs /\ tabs' = tabs \cup {t}
  /\ LoadHistory
  /\ UNCHANGED <<history_file, env, aliases, torn, typed, count>>

\* The engine of a tab that is closed is left alone.
CloseTab(t) ==
  /\ t \in tabs /\ Cardinality(tabs) > 1 /\ tabs' = tabs \ {t}
  /\ UNCHANGED <<commands, history_file, env, aliases, torn, forgotten, typed, count>>

\* The program ends, and what only it knew.
Ends ==
  /\ tabs' = {} /\ commands' = << >> /\ aliases' = {}
  /\ env' = Defaults

Exits ==
  /\ tabs # {} /\ Ends
  /\ UNCHANGED <<history_file, torn, forgotten, typed, count>>

\* The file is among those that commands remove.
FileRemoved ==
  /\ history_file # Gone /\ ~torn
  /\ history_file' = Gone /\ torn' = TRUE
  /\ UNCHANGED <<tabs, commands, env, aliases, forgotten, typed, count>>

\* Mutant: the first lines are kept.
FirstSaved(entries) ==
  Split(SubSeq(entries, 1, IF Len(entries) < KeptLines THEN Len(entries) ELSE KeptLines))

\* save_history: the last lines, joined.
Saved(entries) == Split(LastFew(entries, KeptLines))

\* It writes the whole file anew, which it empties first: it may come to nothing, or stop
\* anywhere, by an error that is ignored or with the program.
SaveHistory(entries) ==
  \/ history_file' = Saved(entries) /\ torn' = FALSE
  \/ /\ torn' = TRUE
     /\ \/ UNCHANGED history_file
        \/ \E n \in 0..Len(Saved(entries)) - 1 : history_file' = SubSeq(Saved(entries), 1, n)

\* A line that is not the last one again is put into the history and saved.
Recorded(line) ==
  IF commands # << >> /\ commands[Len(commands)] = line
  THEN UNCHANGED <<commands, history_file, torn, typed>>
  ELSE /\ commands' = Append(commands, line)
       /\ typed' = typed \o line
       /\ SaveHistory(commands')

\* export, unset and alias change what all tabs share.
Export(name, value) == env' = Assigned(env, name, value) /\ UNCHANGED aliases
Unset(name) == env' = Popped(env, name) /\ UNCHANGED aliases
Alias(name) == aliases' = aliases \cup {name} /\ UNCHANGED env

Enters(line) ==
  /\ tabs # {} /\ count < MaxCommands /\ count' = count + 1
  /\ Recorded(line)
  /\ UNCHANGED <<tabs, forgotten>>

Command(line) == Enters(line) /\ UNCHANGED <<env, aliases>>

Sets(line) ==
  /\ Enters(line)
  /\ \/ Alias("ll")
     \/ \E v \in Variables : Unset(v) \/ \E x \in Values : Export(v, x)

\* The program may end while it saves.
Crash(line) ==
  /\ tabs # {} /\ count < MaxCommands /\ count' = count + 1
  /\ SaveHistory(Append(commands, line)) /\ torn'
  /\ typed' = typed \o line
  /\ Ends /\ UNCHANGED forgotten

\* The history with its file, and the variables, for which a line stands for all.
Opens == \E t \in Tabs : OpenTab(t) \/ CloseTab(t)
HistoryNext == Opens \/ Exits \/ FileRemoved \/ \E line \in TypedLines : Command(line) \/ Crash(line)
TheLine == CHOOSE line \in TypedLines : TRUE
VariablesNext == Opens \/ Exits \/ (Sets(TheLine) /\ ~torn')

-----------------------------------------------------------------------------
\* history: the last n entries, or all, each with a number; "history 0" shows all.
Shown(n) ==
  LET few == IF n = 0 THEN commands ELSE LastFew(commands, n)
      first == IF n < Len(commands) THEN Len(commands) - n + 1 ELSE 1
  IN [i \in 1..Len(few) |-> [number |-> first + i - 1, entry |-> few[i]]]

SessionTypeOK ==
  /\ tabs \subseteq Tabs /\ count \in 0..MaxCommands
  /\ {torn, forgotten} \subseteq BOOLEAN
  /\ Names(env) \subseteq Variables /\ Len(env) = Cardinality(Names(env))

\* Whatever tabs are opened and whenever the program is started again, "history" shows the
\* last lines that were typed, as many as are saved or more, and so does the file; unless a
\* save that did not come to its end, or a removal of the file, was followed by no other save
\* before the file was read.  What is shown has the number of its place, however few are asked for.
HistoryKept ==
  ~forgotten =>
    /\ tabs # {} => /\ IsSuffix(Split(commands), typed)
                    /\ Len(Split(commands)) >= Len(LastFew(typed, KeptLines))
    /\ ~torn /\ history_file # Gone => IsSuffix(LastFew(typed, KeptLines), history_file)
    /\ \A n \in 1..MaxCommands : \A i \in 1..Len(Shown(n)) :
         commands[Shown(n)[i].number] = Shown(n)[i].entry

\* A file's name and echo mean the same by a text, as long as no variable's name begins with
\* another's, no value has a "$", no "$" comes right before another, and every variable that is
\* left to the session is set.
Prefixed(dict) == \E v, w \in Names(dict) : v # w /\ IsPrefix(v, w)
Dollars(dict) == \E i \in 1..Len(dict) : "$" \in ToSet(dict[i].value)
Doubled(text) == \E i \in 2..Len(text) : text[i - 1] = "$" /\ text[i] = "$"
AllSet(text, dict) == \A i \in 1..Len(text) : StartsName(text, i) => NameAt(text, i + 1) \in Names(dict)
RawTexts == UNION {[1..n -> Letters \cup {"$", "/"}] : n \in 2..4}

ExpansionsAgree ==
  ~(Prefixed(env) \/ Dollars(env)) =>
    \A raw \in RawTexts : LET text == Parsed(raw)
                       IN ~Doubled(text) /\ AllSet(text, env) => Replaced(text, env) = Echoed(text, env)
===============================================================================
