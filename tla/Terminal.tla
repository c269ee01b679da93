------------------------------ MODULE Terminal ------------------------------
(***************************************************************************)
(* The text screen: printChar() of terminal.cpp with its cursor, wrapping, *)
(* scrolling and backspace, as called for each character by sysWrite() on  *)
(* descriptors 1 and 2 and by the keyboard handler of the ps2 module.      *)
(*                                                                         *)
(* printChar() takes no lock.  It is cut into the steps between which a    *)
(* second writer (a keyboard interrupt, another CPU) meets a cursor that   *)
(* is not where it belongs.                                                *)
(***************************************************************************)
EXTENDS Naturals, Sequences, FiniteSets

CONSTANTS
    Writers,   \* threads in sysWrite() and CPUs in the keyboard handler
    Width, Height,
    Letters,   \* printable characters other than the space
    Keys,      \* the keyboard maps: [lower, upper], "none" for no character
    MaxText,   \* bound: letters on the paper
    MaxRows,   \* bound: rows used, counted from the first one printed
    MaxBelow   \* bound: rows the cursor may be below the screen

Cell == Letters \cup {"space", "blank"}
Char == Letters \cup {"space", "newline", "backspace"}

ASSUME TerminalAssumption ==
    /\ Width \in Nat \ {0} /\ Height \in Nat \ {0}
    /\ MaxText \in Nat /\ MaxRows \in Nat /\ MaxBelow \in Nat
    /\ {"newline", "backspace", "space", "blank", "none"} \cap Letters = {}
    /\ Keys \subseteq [lower : Char \cup {"none"}, upper : Char \cup {"none"}]

VARIABLES
    x, y,      \* the cursor
    screen,    \* video memory: row -> column -> cell
    shifting,  \* the keyboard's shift state
    job,       \* writer -> [pc, char]
    gone,      \* rows scrolled off the top so far
    text       \* the letters printed and not erased, in order

vars == <<x, y, screen, shifting, job, gone, text>>
history == <<gone, text>>

Column == 0 .. Width - 1
Row == 0 .. Height - 1
BlankRow == [c \in Column |-> "blank"]

Idle == [pc |-> "idle", char |-> "blank"]

Init ==
    /\ x = 0 /\ y = 0
    /\ screen = [r \in Row |-> BlankRow]
    /\ shifting = FALSE
    /\ job = [w \in Writers |-> Idle]
    /\ gone = <<>>
    /\ text = <<>>

\* printChar(): the branch the character takes.
Starts(char) ==
    [pc |-> IF char \in {"newline", "backspace"} THEN char ELSE "fit", char |-> char]

PrintChar(w, char) ==
    /\ job[w].pc = "idle"
    /\ char = "newline" => y < Height + MaxBelow /\ Len(gone) + y < MaxRows
    /\ char \in Letters => Len(text) < MaxText
    /\ char \in Cell => Len(gone) + y < MaxRows
    /\ job' = [job EXCEPT ![w] = Starts(char)]

\* sysWrite() to the terminal: printStr() hands over one character at a time.
SysWrite(w, char) ==
    /\ PrintChar(w, char)
    /\ UNCHANGED <<x, y, screen, shifting, history>>

\* The keyboard handler: a shift key, or one the map of the shift state gives
\* a character.
Shift(pressed) ==
    /\ shifting' = pressed
    /\ UNCHANGED <<x, y, screen, job, history>>
KeyMap(key) == IF shifting THEN key.upper ELSE key.lower
Key(w, key) ==
    /\ KeyMap(key) # "none"
    /\ PrintChar(w, KeyMap(key))
    /\ UNCHANGED <<x, y, screen, shifting, history>>

-----------------------------------------------------------------------------
Goto(w, pc) == job' = [job EXCEPT ![w].pc = pc]
Done(w) == job' = [job EXCEPT ![w] = Idle]

\* A failed assert stops the CPU of the writer.
Panic(w, line) == Goto(w, line) /\ UNCHANGED <<x, y, screen, shifting, history>>

\* Mutant: the last row is not cleared.
ScrolledDirty == [r \in Row |-> IF r = Height - 1 THEN screen[r] ELSE screen[r + 1]]
Scrolled == [r \in Row |-> IF r = Height - 1 THEN BlankRow ELSE screen[r + 1]]

\* if (y >= height): back to the last row, and the screen one row up.
Scroll(row) ==
    \/ /\ row >= Height
       /\ y' = Height - 1
       /\ screen' = Scrolled
       /\ gone' = Append(gone, screen[0])
    \/ /\ row < Height
       /\ y' = row
       /\ UNCHANGED <<screen, gone>>

Newline(w) ==
    /\ job[w].pc = "newline"
    /\ x' = 0 /\ y' = y + 1
    /\ Done(w)
    /\ UNCHANGED <<screen, shifting, history>>

Fit(w) ==
    /\ job[w].pc = "fit"
    /\ Scroll(y)
    /\ Goto(w, "draw")
    /\ UNCHANGED <<x, shifting, text>>

\* drawChar(), with its asserts on the cursor.
Draw(w) ==
    /\ job[w].pc = "draw"
    /\ \/ x >= Width /\ Panic(w, "panic x")
       \/ x < Width /\ y >= Height /\ Panic(w, "panic y")
       \/ /\ x < Width /\ y < Height
          /\ screen' = [screen EXCEPT ![y][x] = job[w].char]
          /\ text' = IF job[w].char \in Letters THEN Append(text, job[w].char) ELSE text
          /\ Goto(w, "advance")
          /\ UNCHANGED <<x, y, shifting, gone>>

\* ++x >= width
Advance(w) ==
    /\ job[w].pc = "advance"
    /\ x' = x + 1
    /\ IF x + 1 >= Width THEN Goto(w, "wrap") ELSE Done(w)
    /\ UNCHANGED <<y, screen, shifting, history>>

Wrap(w) ==
    /\ job[w].pc = "wrap"
    /\ x' = 0
    /\ Scroll(y + 1)
    /\ Done(w)
    /\ UNCHANGED <<shifting, text>>

-----------------------------------------------------------------------------
(* Backspace *)

\* getChar() from the right end of row r: the last cell that shows something,
\* or column 0.
LastShown(r) ==
    LET shown == {c \in Column : screen[r][c] \notin {"blank", "space"}}
    IN IF shown = {} THEN 0 ELSE CHOOSE c \in shown : \A d \in shown : d <= c

\* Erase the cell at column c of row r and leave the cursor there.
EraseAt(w, c, r) ==
    /\ x' = c /\ y' = r
    /\ screen' = [screen EXCEPT ![r][c] = "blank"]
    /\ text' = IF screen[r][c] \in Letters
               THEN SubSeq(text, 1, Len(text) - 1) ELSE text
    /\ Done(w)
    /\ UNCHANGED <<shifting, gone>>

Backspace(w) ==
    /\ job[w].pc = "backspace"
    /\ \/ x > 0 /\ y >= Height /\ Panic(w, "panic y")
       \/ x > 0 /\ y < Height /\ EraseAt(w, x - 1, y)
       \/ x = 0 /\ y > Height /\ Panic(w, "panic y")
       \/ x = 0 /\ y > 0 /\ y <= Height /\ EraseAt(w, LastShown(y - 1), y - 1)
       \/ x = 0 /\ y = 0 /\ EraseAt(w, 0, 0)

Next ==
    \/ \E w \in Writers :
        \/ \E char \in Char : SysWrite(w, char)
        \/ \E key \in Keys : Key(w, key)
        \/ Newline(w)
        \/ Fit(w)
        \/ Draw(w)
        \/ Advance(w)
        \/ Wrap(w)
        \/ Backspace(w)
    \/ \E pressed \in BOOLEAN : Shift(pressed)

Spec == Init /\ [][Next]_vars

-----------------------------------------------------------------------------
\* Between characters the cursor is in a column; every variable has its type.
TypeOK ==
    /\ x \in 0 .. Width /\ y \in Nat
    /\ (\A w \in Writers : job[w].pc = "idle") => x < Width
    /\ screen \in [Row -> [Column -> Cell]]
    /\ shifting \in BOOLEAN
    /\ \A i \in DOMAIN gone : gone[i] \in [Column -> Cell]
    /\ \A i \in DOMAIN text : text[i] \in Letters

\* The cells that show a letter, counted in reading order.
Rows == gone \o [i \in 1 .. Height |-> screen[i - 1]]
Cells == {a \in (1 .. Len(Rows)) \X Column : Rows[a[1]][a[2]] \in Letters}
Before(a, b) == a[1] < b[1] \/ (a[1] = b[1] /\ a[2] < b[2])
Rank(a) == Cardinality({b \in Cells : Before(b, a)}) + 1

\* Reading the rows that scrolled away and then the screen gives the letters
\* written, in order: wrapping, scrolling and newlines lose, overwrite and
\* double none, and a backspace takes the last one and no other.  Nothing is
\* shown at the cursor or after it, so that a character never falls on one
\* that is there.
ReadsBack ==
    /\ TypeOK
    /\ Cardinality(Cells) = Len(text)
    /\ \A a \in Cells : Rows[a[1]][a[2]] = text[Rank(a)]
    /\ \A w \in Writers : job[w].pc = "idle" =>
          \A r \in Row, c \in Column :
              r > y \/ (r = y /\ c >= x) => screen[r][c] \notin Letters
=============================================================================
