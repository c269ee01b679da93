---------------------------- MODULE TerminalProofs ----------------------------
(***************************************************************************)
(* What the terminal shows, for every size of the screen and every text,   *)
(* while one writer prints at a time.                                      *)
(***************************************************************************)
EXTENDS Terminal, Integers, FiniteSetTheorems, WellFoundedInduction, TLAPS

-----------------------------------------------------------------------------
(* Finite sets of positions in reading order.                              *)

Place == Nat \X Nat

RankIn(S, a) == Cardinality({b \in S : Before(b, a)}) + 1

LEMMA BeforeOrder ==
  ASSUME NEW a \in Place, NEW b \in Place
  PROVE  ~Before(a, a) /\ (Before(a, b) => ~Before(b, a))
  BY DEF Place, Before

\* A place after all the others is counted last and moves none of them.
LEMMA AddLast ==
  ASSUME NEW S, S \subseteq Place, IsFiniteSet(S), NEW a \in Place, a \notin S,
         \A b \in S : Before(b, a)
  PROVE  /\ IsFiniteSet(S \cup {a})
         /\ Cardinality(S \cup {a}) = Cardinality(S) + 1
         /\ RankIn(S \cup {a}, a) = Cardinality(S) + 1
         /\ \A b \in S : RankIn(S \cup {a}, b) = RankIn(S, b)
  <1>1. {b \in S \cup {a} : Before(b, a)} = S
    BY BeforeOrder
  <1>2. ASSUME NEW b \in S PROVE {d \in S \cup {a} : Before(d, b)} = {d \in S : Before(d, b)}
    BY BeforeOrder
  <1>3. \A b \in S : RankIn(S \cup {a}, b) = RankIn(S, b)
    BY <1>2 DEF RankIn
  <1> QED
    BY <1>1, <1>3, FS_AddElement DEF RankIn

\* Taking the last place away moves none of the others.
LEMMA RemoveLast ==
  ASSUME NEW S, S \subseteq Place, IsFiniteSet(S), NEW a \in S,
         \A b \in S : b # a => Before(b, a)
  PROVE  /\ IsFiniteSet(S \ {a})
         /\ Cardinality(S \ {a}) = Cardinality(S) - 1
         /\ \A b \in S \ {a} : RankIn(S \ {a}, b) = RankIn(S, b)
  <1> DEFINE R == S \ {a}
  <1>1. R \cup {a} = S /\ R \subseteq Place /\ a \in Place /\ a \notin R
    OBVIOUS
  <1>2. IsFiniteSet(R) /\ Cardinality(R) = Cardinality(S) - 1
    BY FS_RemoveElement
  <1>3. \A b \in R : Before(b, a)
    OBVIOUS
  <1> HIDE DEF R
  <1>4. \A b \in R : RankIn(R \cup {a}, b) = RankIn(R, b)
    BY <1>1, <1>2, <1>3, AddLast
  <1>5. \A b \in R : RankIn(S, b) = RankIn(R, b)
    BY <1>1, <1>4
  <1> QED
    BY <1>2, <1>5 DEF R

LEMMA RankBound ==
  ASSUME NEW S, S \subseteq Place, IsFiniteSet(S), NEW a \in S
  PROVE  RankIn(S, a) \in 1..Cardinality(S)
  <1> DEFINE B == {b \in S : Before(b, a)}
  <1>1. B \subseteq S \ {a}
    BY BeforeOrder
  <1>2. IsFiniteSet(S \ {a}) /\ Cardinality(S \ {a}) = Cardinality(S) - 1
    BY FS_RemoveElement
  <1>3. IsFiniteSet(B) /\ Cardinality(B) <= Cardinality(S \ {a})
    BY <1>1, <1>2, FS_Subset
  <1>4. Cardinality(B) \in Nat /\ Cardinality(S) \in Nat
    BY <1>3, FS_CardinalityType
  <1>5. RankIn(S, a) = Cardinality(B) + 1
    BY DEF RankIn
  <1> QED
    BY <1>2, <1>3, <1>4, <1>5

\* S shows the letters of t in order, row being what a row number stands for.
Spells(S, rows, t) ==
  /\ S \subseteq Place /\ IsFiniteSet(S)
  /\ Cardinality(S) = Len(t)
  /\ \A a \in S : rows[a[1]][a[2]] = t[RankIn(S, a)]

\* The rows keep what they show.
LEMMA SpellsSame ==
  ASSUME NEW S, NEW rows, NEW new, NEW t, Spells(S, rows, t),
         \A a \in S : new[a[1]][a[2]] = rows[a[1]][a[2]]
  PROVE  Spells(S, new, t)
  BY DEF Spells

LEMMA SpellsMore ==
  ASSUME NEW S, NEW rows, NEW new, NEW E, NEW t \in Seq(E), NEW a \in Place, NEW e \in E,
         Spells(S, rows, t), a \notin S, \A b \in S : Before(b, a),
         \A b \in S : new[b[1]][b[2]] = rows[b[1]][b[2]],
         new[a[1]][a[2]] = e
  PROVE  Spells(S \cup {a}, new, Append(t, e))
  <1>1. /\ IsFiniteSet(S \cup {a})
        /\ Cardinality(S \cup {a}) = Cardinality(S) + 1
        /\ RankIn(S \cup {a}, a) = Cardinality(S) + 1
        /\ \A b \in S : RankIn(S \cup {a}, b) = RankIn(S, b)
    BY AddLast DEF Spells
  <1>2. Cardinality(S) = Len(t) /\ Len(t) \in Nat
    BY DEF Spells
  <1>3. \A b \in S : RankIn(S, b) \in 1..Len(t)
    BY <1>2, RankBound DEF Spells
  <1>4. /\ Len(Append(t, e)) = Len(t) + 1 /\ Append(t, e)[Len(t) + 1] = e
        /\ \A k \in 1..Len(t) : Append(t, e)[k] = t[k]
    OBVIOUS
  <1>5. ASSUME NEW b \in S \cup {a}
        PROVE  new[b[1]][b[2]] = Append(t, e)[RankIn(S \cup {a}, b)]
    <2>1. CASE b = a
      BY <1>1, <1>2, <1>4, <2>1
    <2>2. CASE b \in S
      BY <1>1, <1>3, <1>4, <2>2 DEF Spells
    <2> QED
      BY <2>1, <2>2
  <1> QED
    BY <1>1, <1>2, <1>4, <1>5 DEF Spells

LEMMA SpellsLess ==
  ASSUME NEW S, NEW rows, NEW new, NEW E, NEW t \in Seq(E), NEW a \in S,
         Spells(S, rows, t), \A b \in S : b # a => Before(b, a),
         \A b \in S : b # a => new[b[1]][b[2]] = rows[b[1]][b[2]]
  PROVE  Spells(S \ {a}, new, SubSeq(t, 1, Len(t) - 1))
  <1>1. /\ IsFiniteSet(S \ {a})
        /\ Cardinality(S \ {a}) = Cardinality(S) - 1
        /\ \A b \in S \ {a} : RankIn(S \ {a}, b) = RankIn(S, b)
    BY RemoveLast DEF Spells
  <1>2. Cardinality(S) = Len(t) /\ Len(t) \in Nat
    BY DEF Spells
  <1>3. Len(t) >= 1
    <2>1. RankIn(S, a) \in 1..Len(t)
      BY <1>2, RankBound DEF Spells
    <2> QED
      BY <1>2, <2>1
  <1>4. \A b \in S \ {a} : RankIn(S, b) \in 1..Len(t)-1
    <2>1. \A b \in S \ {a} : RankIn(S \ {a}, b) \in 1..Cardinality(S \ {a})
      BY <1>1, RankBound DEF Spells
    <2> QED
      BY <1>1, <1>2, <2>1
  <1>5. /\ Len(SubSeq(t, 1, Len(t) - 1)) = Len(t) - 1
        /\ \A k \in 1..Len(t)-1 : SubSeq(t, 1, Len(t) - 1)[k] = t[k]
    BY <1>2, <1>3
  <1> QED
    BY <1>1, <1>2, <1>4, <1>5 DEF Spells

-----------------------------------------------------------------------------
(* The paper: rows that scrolled away, then those of the screen.           *)

Line == [Column -> Cell]
Screen == [Row -> Line]

Paper(g, s) == g \o [i \in 1 .. Height |-> s[i - 1]]
Lit(rows) == {a \in (1 .. Len(rows)) \X Column : rows[a[1]][a[2]] \in Letters}

\* A character put at column px of row py of the screen, and that place on
\* the paper.
Put(s, py, px, ch) == [s EXCEPT ![py][px] = ch]
PlaceOf(g, py, px) == <<Len(g) + py + 1, px>>

\* Nothing is shown at or after column px of row py.
Nothing(s, px, py) ==
  \A r \in Row, c \in Column : (r > py \/ (r = py /\ c >= px)) => s[r][c] \notin Letters

LEMMA SizeType ==
  /\ Width \in Nat /\ Width >= 1 /\ Height \in Nat /\ Height >= 1
  /\ 0 \in Column /\ 0 \in Row /\ Height - 1 \in Row
  /\ BlankRow \in Line /\ \A c \in Column : BlankRow[c] \notin Letters
  BY TerminalAssumption DEF Column, Row, BlankRow, Line, Cell

LEMMA PaperType ==
  ASSUME NEW g \in Seq(Line), NEW s \in Screen
  PROVE  /\ Len(g) \in Nat /\ Len(Paper(g, s)) = Len(g) + Height
         /\ \A k \in 1..Len(g) : Paper(g, s)[k] = g[k]
         /\ \A r \in Row : Paper(g, s)[Len(g) + r + 1] = s[r]
  <1> DEFINE p == [i \in 1 .. Height |-> s[i - 1]]
             n == Len(g)
  <1>1. n \in Nat /\ g \in Seq(Line)
    OBVIOUS
  <1>2. \A i \in 1..Height : i - 1 \in Row
    BY SizeType DEF Row
  <1>3. p \in Seq(Line) /\ Len(p) = Height
    BY <1>2, SizeType DEF Screen
  <1>4. \A r \in Row : r + 1 \in 1..Height /\ p[r + 1] = s[r]
    BY SizeType DEF Row
  <1> HIDE DEF p
  <1>5. /\ Len(g \o p) = n + Height
        /\ \A k \in 1..n : (g \o p)[k] = g[k]
        /\ \A j \in 1..Height : (g \o p)[n + j] = p[j]
    BY <1>1, <1>3, SizeType
  <1>6. Paper(g, s) = g \o p
    BY DEF Paper, p
  <1> HIDE DEF n
  <1>7. ASSUME NEW r \in Row PROVE Paper(g, s)[n + r + 1] = s[r]
    <2>1. n + r + 1 = n + (r + 1)
      BY <1>1, SizeType DEF Row
    <2>2. (g \o p)[n + (r + 1)] = p[r + 1]
      BY <1>4, <1>5
    <2> QED
      BY <1>4, <1>6, <2>1, <2>2
  <1> QED
    BY <1>1, <1>5, <1>6, <1>7 DEF n

\* A row on paper scrolled away or is on the screen.
LEMMA OnPaper ==
  ASSUME NEW g \in Seq(Line), NEW k \in 1..Len(g) + Height
  PROVE  k \in 1..Len(g) \/ \E r \in Row : k = Len(g) + r + 1
  <1>1. Len(g) \in Nat
    OBVIOUS
  <1>2. k > Len(g) => (k - Len(g) - 1 \in Row /\ k = Len(g) + (k - Len(g) - 1) + 1)
    BY <1>1, SizeType DEF Row
  <1> QED
    BY <1>1, <1>2

LEMMA LitType ==
  ASSUME NEW g \in Seq(Line), NEW s \in Screen
  PROVE  /\ Lit(Paper(g, s)) \subseteq Place
         /\ \A a : a \in Lit(Paper(g, s)) <=>
              /\ a \in (1..Len(g) + Height) \X Column
              /\ Paper(g, s)[a[1]][a[2]] \in Letters
  BY PaperType, SizeType DEF Lit, Place, Column

\* Where nothing is shown at the cursor and after it, every letter is before.
LEMMA LettersBefore ==
  ASSUME NEW g \in Seq(Line), NEW s \in Screen, NEW px \in Nat, NEW py \in Nat,
         Nothing(s, px, py), NEW a \in Lit(Paper(g, s))
  PROVE  Before(a, PlaceOf(g, py, px))
  <1>1. /\ a[1] \in 1..Len(g) + Height /\ a[2] \in Column /\ Paper(g, s)[a[1]][a[2]] \in Letters
        /\ a[2] \in Nat /\ Len(g) \in Nat
    BY LitType, PaperType DEF Column
  <1>2. CASE a[1] \in 1..Len(g)
    BY <1>1, <1>2 DEF Before, PlaceOf
  <1>3. ASSUME NEW r \in Row, a[1] = Len(g) + r + 1 PROVE Before(a, PlaceOf(g, py, px))
    <2>1. s[r][a[2]] \in Letters
      BY <1>1, <1>3, PaperType
    <2>2. ~(r > py \/ (r = py /\ a[2] >= px))
      BY <1>1, <2>1 DEF Nothing
    <2>3. r \in Nat
      BY SizeType DEF Row
    <2> QED
      BY <1>1, <1>3, <2>2, <2>3 DEF Before, PlaceOf
  <1> QED
    BY <1>1, <1>2, <1>3, OnPaper

\* The screen one row up, its top row on the paper above it.
Up(s) == [r \in Row |-> IF r = Height - 1 THEN BlankRow ELSE s[r + 1]]

LEMMA UpPaper ==
  ASSUME NEW g \in Seq(Line), NEW s \in Screen
  PROVE  /\ Up(s) \in Screen /\ Append(g, s[0]) \in Seq(Line)
         /\ Lit(Paper(Append(g, s[0]), Up(s))) = Lit(Paper(g, s))
         /\ \A a \in Lit(Paper(g, s)) :
              Paper(Append(g, s[0]), Up(s))[a[1]][a[2]] = Paper(g, s)[a[1]][a[2]]
  <1> DEFINE h == Append(g, s[0])
             u == Up(s)
             n == Len(g)
  <1>1. /\ n \in Nat /\ h \in Seq(Line) /\ Len(h) = n + 1 /\ h[n + 1] = s[0]
        /\ \A k \in 1..n : h[k] = g[k]
    BY SizeType DEF Screen
  <1>2. /\ \A r \in Row : u[r] = IF r = Height - 1 THEN BlankRow ELSE s[r + 1]
        /\ \A r \in Row : r # Height - 1 => r + 1 \in Row
    BY SizeType DEF Up, Row
  <1>3. u \in Screen
    BY <1>2, SizeType DEF Screen, Up
  <1> HIDE DEF h, u
  <1>4. ASSUME NEW k \in 1..n+Height PROVE Paper(h, u)[k] = Paper(g, s)[k]
    <2>1. CASE k \in 1..n
      <3>1. k \in 1..Len(h)
        BY <1>1, <2>1
      <3> QED
        BY <1>1, <1>3, <2>1, <3>1, PaperType
    <2>2. CASE k = n + 1
      <3>1. k \in 1..Len(h) /\ k = n + 0 + 1
        BY <1>1, <2>2
      <3> QED
        BY <1>1, <1>3, <2>2, <3>1, PaperType, SizeType
    <2>3. CASE k > n + 1
      <3> DEFINE r == k - n - 2
      <3>1. r \in Row /\ r # Height - 1 /\ r + 1 \in Row /\ k = Len(h) + r + 1 /\ k = n + (r + 1) + 1
        BY <1>1, <2>3, SizeType DEF Row
      <3> HIDE DEF r
      <3>2. Paper(h, u)[k] = u[r] /\ Paper(g, s)[k] = s[r + 1]
        BY <1>1, <1>3, <3>1, PaperType
      <3> QED
        BY <1>2, <3>1, <3>2
    <2> QED
      BY <1>1, <2>1, <2>2, <2>3
  <1>5. \A c \in Column : Paper(h, u)[n + 1 + Height][c] \notin Letters
    <2>1. n + 1 + Height = Len(h) + (Height - 1) + 1
      BY <1>1, SizeType
    <2>2. Paper(h, u)[n + 1 + Height] = BlankRow
      BY <1>1, <1>2, <1>3, <2>1, PaperType, SizeType
    <2> QED
      BY <2>2, SizeType
  <1>6. ASSUME NEW a \in (1..n+1+Height) \X Column
        PROVE  a \in Lit(Paper(h, u)) <=> a \in Lit(Paper(g, s))
    <2>1. a \in Lit(Paper(h, u)) <=> Paper(h, u)[a[1]][a[2]] \in Letters
      <3>1. Len(h) + Height = n + 1 + Height
        BY <1>1, SizeType
      <3>2. a \in (1..Len(h) + Height) \X Column
        BY <3>1
      <3> QED
        BY <1>1, <1>3, <3>2, LitType
    <2>2. a[1] \in 1..n+Height \/ a[1] = n + 1 + Height
      <3>1. a[1] \in 1..n+1+Height
        OBVIOUS
      <3>2. ASSUME NEW k \in 1..n+1+Height PROVE k \in 1..n+Height \/ k = n + 1 + Height
        <4>1. n \in Nat /\ Height \in Nat
          BY <1>1, SizeType
        <4> HIDE DEF n
        <4> QED
          BY <4>1
      <3> QED
        BY <3>1, <3>2
    <2>3. CASE a[1] \in 1..n+Height
      BY <1>4, <2>1, <2>3, LitType
    <2>4. CASE a[1] = n + 1 + Height
      <3>1. a \notin Lit(Paper(g, s))
        BY <1>1, <2>4, LitType, SizeType
      <3> QED
        BY <1>5, <2>1, <2>4, <3>1
    <2> QED
      BY <2>2, <2>3, <2>4
  <1>7. /\ \A a \in Lit(Paper(h, u)) : a \in (1..n+1+Height) \X Column
        /\ \A a \in Lit(Paper(g, s)) : a \in (1..n+1+Height) \X Column /\ a[1] \in 1..n+Height
    <2>1. \A a \in Lit(Paper(h, u)) : a \in (1..Len(h)+Height) \X Column
      BY <1>1, <1>3, LitType
    <2>2. \A a \in Lit(Paper(g, s)) : a \in (1..n+Height) \X Column
      BY LitType
    <2>3. 1..n+Height \subseteq 1..n+1+Height /\ Len(h) + Height = n + 1 + Height
      BY <1>1, SizeType
    <2> QED
      BY <2>1, <2>2, <2>3
  <1>8. Lit(Paper(h, u)) = Lit(Paper(g, s))
    BY <1>6, <1>7
  <1>9. \A a \in Lit(Paper(g, s)) : Paper(h, u)[a[1]][a[2]] = Paper(g, s)[a[1]][a[2]]
    BY <1>4, <1>7
  <1> QED
    BY <1>1, <1>3, <1>8, <1>9 DEF h, u

\* A character at (px, py) changes nothing else on the paper.
LEMMA PutPaper ==
  ASSUME NEW g \in Seq(Line), NEW s \in Screen, NEW py \in Row, NEW px \in Column, NEW ch \in Cell
  PROVE  /\ Put(s, py, px, ch) \in Screen /\ PlaceOf(g, py, px) \in Place
         /\ Paper(g, Put(s, py, px, ch))[PlaceOf(g, py, px)[1]][PlaceOf(g, py, px)[2]] = ch
         /\ \A b \in (1..Len(g) + Height) \X Column :
              b # PlaceOf(g, py, px) => Paper(g, Put(s, py, px, ch))[b[1]][b[2]] = Paper(g, s)[b[1]][b[2]]
         /\ PlaceOf(g, py, px) \in Lit(Paper(g, s)) <=> s[py][px] \in Letters
         /\ ch \in Letters => Lit(Paper(g, Put(s, py, px, ch))) = Lit(Paper(g, s)) \cup {PlaceOf(g, py, px)}
         /\ ch \notin Letters => Lit(Paper(g, Put(s, py, px, ch))) = Lit(Paper(g, s)) \ {PlaceOf(g, py, px)}
  <1> DEFINE n == Len(g)
             new == Put(s, py, px, ch)
             a == PlaceOf(g, py, px)
  <1>1. /\ n \in Nat /\ new \in Screen /\ new[py][px] = ch
        /\ \A r \in Row, c \in Column : (r # py \/ c # px) => new[r][c] = s[r][c]
    BY DEF Put, Screen, Line
  <1>2. /\ a \in (1..n+Height) \X Column /\ a \in Place
    BY <1>1, SizeType DEF PlaceOf, Place, Column, Row
  <1>3. Paper(g, new)[a[1]][a[2]] = ch /\ Paper(g, s)[a[1]][a[2]] = s[py][px]
    <2>1. Paper(g, new)[n + py + 1] = new[py]
      BY <1>1, PaperType
    <2>2. Paper(g, s)[n + py + 1] = s[py]
      BY PaperType
    <2>3. a[1] = n + py + 1 /\ a[2] = px
      BY DEF PlaceOf
    <2> QED
      BY <1>1, <2>1, <2>2, <2>3
  <1>4. ASSUME NEW b \in (1..n+Height) \X Column, b # a
        PROVE  Paper(g, new)[b[1]][b[2]] = Paper(g, s)[b[1]][b[2]]
    <2>1. CASE b[1] \in 1..n
      BY <1>1, <2>1, PaperType
    <2>2. ASSUME NEW r \in Row, b[1] = n + r + 1
          PROVE  Paper(g, new)[b[1]][b[2]] = Paper(g, s)[b[1]][b[2]]
      <3>0. Paper(g, new)[n + r + 1] = new[r] /\ Paper(g, s)[n + r + 1] = s[r]
        BY <1>1, PaperType
      <3>1. Paper(g, new)[b[1]] = new[r] /\ Paper(g, s)[b[1]] = s[r]
        BY <2>2, <3>0
      <3>2. r # py \/ b[2] # px
        BY <1>4, <2>2 DEF PlaceOf
      <3> QED
        BY <1>1, <3>1, <3>2
    <2> QED
      BY <2>1, <2>2, OnPaper
  <1> HIDE DEF new, a
  <1>5. \A b : b \in Lit(Paper(g, new)) <=>
               b \in (1..n+Height) \X Column /\ Paper(g, new)[b[1]][b[2]] \in Letters
    BY <1>1, LitType
  <1>6. \A b : b \in Lit(Paper(g, s)) <=>
               b \in (1..n+Height) \X Column /\ Paper(g, s)[b[1]][b[2]] \in Letters
    BY LitType
  <1>7. ch \in Letters => Lit(Paper(g, new)) = Lit(Paper(g, s)) \cup {a}
    BY <1>2, <1>3, <1>4, <1>5, <1>6
  <1>8. ch \notin Letters => Lit(Paper(g, new)) = Lit(Paper(g, s)) \ {a}
    BY <1>2, <1>3, <1>4, <1>5, <1>6
  <1> QED
    BY <1>1, <1>2, <1>3, <1>4, <1>6, <1>7, <1>8 DEF new, a

-----------------------------------------------------------------------------
(* The invariant, for a single writer w.                                   *)

JobPc == {"idle", "newline", "backspace", "fit", "draw", "advance", "wrap", "panic y"}

Job == [pc : JobPc, char : Char \cup {"blank"}]

Types(w) ==
  /\ x \in Nat /\ y \in Nat
  /\ screen \in Screen
  /\ shifting \in BOOLEAN
  /\ gone \in Seq(Line)
  /\ text \in Seq(Letters)
  /\ job \in [{w} -> Job]

\* Where the cursor is, by where the writer is in printChar(): nothing is
\* shown at it or after it, except for the character that was just drawn.
CursorInv(w) ==
  /\ job[w].pc \in {"fit", "draw", "advance"} => job[w].char \in Cell
  /\ job[w].pc = "wrap" => x = Width
  /\ job[w].pc # "wrap" => x < Width
  /\ job[w].pc \in {"draw", "advance", "wrap"} => y < Height
  /\ job[w].pc = "advance" => Nothing(screen, x + 1, y)
  /\ job[w].pc # "advance" => Nothing(screen, x, y)

Reading == Spells(Lit(Paper(gone, screen)), Paper(gone, screen), text)

TInv(w) == Types(w) /\ CursorInv(w) /\ Reading

LEMMA JobType ==
  ASSUME NEW w, Types(w)
  PROVE  /\ job[w] \in Job /\ job[w].pc \in JobPc /\ job[w].char \in Char \cup {"blank"}
         /\ \A j \in Job : job' = [job EXCEPT ![w] = j] => job'[w] = j /\ job' \in [{w} -> Job]
         /\ \A p \in JobPc : Goto(w, p) =>
              /\ job'[w].pc = p /\ job'[w].char = job[w].char /\ job' \in [{w} -> Job]
         /\ Done(w) => job'[w].pc = "idle" /\ job' \in [{w} -> Job]
  <1>1. job \in [{w} -> Job]
    BY DEF Types
  <1>2. job[w] \in Job
    BY <1>1
  <1>3. job[w].pc \in JobPc /\ job[w].char \in Char \cup {"blank"}
    BY <1>2 DEF Job
  <1>4. ASSUME NEW j \in Job, job' = [job EXCEPT ![w] = j]
        PROVE  job'[w] = j /\ job' \in [{w} -> Job]
    BY <1>1, <1>4
  <1>5. ASSUME NEW p \in JobPc, Goto(w, p)
        PROVE  job'[w].pc = p /\ job'[w].char = job[w].char /\ job' \in [{w} -> Job]
    <2>1. job' = [job EXCEPT ![w] = [job[w] EXCEPT !.pc = p]]
      BY <1>5 DEF Goto
    <2>2. [job[w] EXCEPT !.pc = p] \in Job
      BY <1>2 DEF Job
    <2>3. job'[w] = [job[w] EXCEPT !.pc = p] /\ job' \in [{w} -> Job]
      BY <1>1, <2>1, <2>2
    <2>4. [job[w] EXCEPT !.pc = p].pc = p /\ [job[w] EXCEPT !.pc = p].char = job[w].char
      BY <1>2 DEF Job
    <2> QED
      BY <2>3, <2>4
  <1>6. ASSUME Done(w) PROVE job'[w].pc = "idle" /\ job' \in [{w} -> Job]
    <2>1. Idle \in Job /\ Idle.pc = "idle"
      BY DEF Idle, Job, JobPc
    <2> QED
      BY <1>4, <1>6, <2>1 DEF Done
  <1> QED
    BY <1>2, <1>3, <1>4, <1>5, <1>6

\* memmove() and memset(): the top row leaves the screen for the paper above
\* it, and the last row is empty.
LEMMA ScrollStep ==
  ASSUME NEW w, Types(w), Reading, NEW px \in Nat, NEW row \in Nat, Nothing(screen, px, row),
         Scroll(row), text' = text
  PROVE  /\ y' \in Nat /\ y' < Height /\ screen' \in Screen /\ gone' \in Seq(Line)
         /\ Nothing(screen', px, y')
         /\ Reading'
  <1>0. gone \in Seq(Line) /\ screen \in Screen /\ y \in Nat
    BY DEF Types
  <1>1. CASE row >= Height /\ y' = Height - 1 /\ screen' = Scrolled /\ gone' = Append(gone, screen[0])
    <2>1. screen' = Up(screen)
      BY <1>1 DEF Scrolled, Up
    <2>2. /\ Up(screen) \in Screen /\ Append(gone, screen[0]) \in Seq(Line)
          /\ Lit(Paper(Append(gone, screen[0]), Up(screen))) = Lit(Paper(gone, screen))
          /\ \A a \in Lit(Paper(gone, screen)) :
               Paper(Append(gone, screen[0]), Up(screen))[a[1]][a[2]] = Paper(gone, screen)[a[1]][a[2]]
      BY <1>0, UpPaper
    <2>3. Spells(Lit(Paper(gone, screen)), Paper(Append(gone, screen[0]), Up(screen)), text)
      BY <2>2, SpellsSame DEF Reading
    <2>4. Reading'
      BY <1>1, <2>1, <2>2, <2>3 DEF Reading
    <2>5. Nothing(screen', px, Height - 1)
      <3>1. \A r \in Row : ~(r > Height - 1)
        BY SizeType DEF Row
      <3>2. screen'[Height - 1] = BlankRow
        BY <2>1, SizeType DEF Up
      <3> QED
        BY <3>1, <3>2, SizeType DEF Nothing
    <2> QED
      BY <1>1, <2>1, <2>2, <2>4, <2>5, SizeType
  <1>2. CASE row < Height /\ y' = row /\ UNCHANGED <<screen, gone>>
    BY <1>0, <1>2 DEF Reading
  <1> QED
    BY <1>1, <1>2 DEF Scroll

LEMMA FitStep ==
  ASSUME NEW w, TInv(w), Fit(w)
  PROVE  TInv(w)'
  <1>1. /\ Types(w) /\ Reading /\ job[w].pc = "fit" /\ x \in Nat /\ y \in Nat /\ x < Width
        /\ Nothing(screen, x, y) /\ job[w].char \in Cell
    BY DEF TInv, CursorInv, Fit, Types
  <1>2. /\ y' \in Nat /\ y' < Height /\ screen' \in Screen /\ gone' \in Seq(Line)
        /\ Nothing(screen', x, y') /\ Reading'
    BY <1>1, ScrollStep DEF Fit
  <1>3. /\ job'[w].pc = "draw" /\ job'[w].char = job[w].char
        /\ job' \in [{w} -> Job]
    BY <1>1, JobType DEF Fit, JobPc
  <1>4. Types(w)' /\ CursorInv(w)'
    BY <1>1, <1>2, <1>3 DEF Fit, Types, CursorInv
  <1> QED
    BY <1>2, <1>4 DEF TInv

LEMMA WrapStep ==
  ASSUME NEW w, TInv(w), Wrap(w)
  PROVE  TInv(w)'
  <1>1. /\ Types(w) /\ Reading /\ job[w].pc = "wrap" /\ x = Width /\ y \in Nat
        /\ Nothing(screen, x, y)
    BY DEF TInv, CursorInv, Wrap, Types
  <1>2. Nothing(screen, 0, y + 1) /\ 0 \in Nat /\ y + 1 \in Nat
    <2>1. ASSUME NEW r \in Row, NEW c \in Column, r > y + 1 \/ (r = y + 1 /\ c >= 0)
          PROVE  r > y
      BY <1>1, <2>1 DEF Row
    <2> QED
      BY <1>1, <2>1 DEF Nothing
  <1>3. /\ y' \in Nat /\ y' < Height /\ screen' \in Screen /\ gone' \in Seq(Line)
        /\ Nothing(screen', 0, y') /\ Reading'
    BY <1>1, <1>2, ScrollStep DEF Wrap
  <1>4. job'[w].pc = "idle" /\ job' \in [{w} -> Job]
    BY <1>1, JobType DEF Wrap
  <1>5. Types(w)' /\ CursorInv(w)'
    BY <1>1, <1>3, <1>4, SizeType DEF Wrap, Types, CursorInv
  <1> QED
    BY <1>3, <1>5 DEF TInv

\* drawChar(): the character falls where nothing is shown and after all that is.
LEMMA DrawStep ==
  ASSUME NEW w, TInv(w), Draw(w)
  PROVE  TInv(w)'
  <1> DEFINE ch == job[w].char
             new == Put(screen, y, x, ch)
             a == PlaceOf(gone, y, x)
             S == Lit(Paper(gone, screen))
             rows == Paper(gone, new)
  <1>1. /\ Types(w) /\ Reading /\ job[w].pc = "draw" /\ x \in Nat /\ y \in Nat /\ x < Width /\ y < Height
        /\ Nothing(screen, x, y) /\ ch \in Cell /\ gone \in Seq(Line) /\ screen \in Screen
        /\ text \in Seq(Letters)
    BY DEF TInv, CursorInv, Draw, Types
  <1>2. y \in Row /\ x \in Column
    BY <1>1, SizeType DEF Row, Column
  <1>3. /\ screen' = new /\ Goto(w, "advance") /\ UNCHANGED <<x, y, shifting, gone>>
        /\ text' = IF ch \in Letters THEN Append(text, ch) ELSE text
    <2>1. ~(x >= Width) /\ ~(y >= Height)
      BY <1>1, SizeType
    <2> QED
      BY <2>1 DEF Draw, Put
  <1>4. /\ new \in Screen /\ a \in Place /\ rows[a[1]][a[2]] = ch
        /\ \A b \in (1..Len(gone) + Height) \X Column :
             b # a => rows[b[1]][b[2]] = Paper(gone, screen)[b[1]][b[2]]
        /\ a \in S <=> screen[y][x] \in Letters
        /\ ch \in Letters => Lit(rows) = S \cup {a}
        /\ ch \notin Letters => Lit(rows) = S \ {a}
    <2> HIDE DEF ch
    <2> QED
      BY <1>1, <1>2, PutPaper
  <1>5. a \notin S
    BY <1>1, <1>2, <1>4 DEF Nothing, Put
  <1>6. \A b \in S : Before(b, a)
    BY <1>1, LettersBefore
  <1>7. \A b \in S : b \in (1..Len(gone) + Height) \X Column
    BY <1>1, LitType
  <1>8. \A b \in S : rows[b[1]][b[2]] = Paper(gone, screen)[b[1]][b[2]]
    BY <1>4, <1>5, <1>7
  <1>9. Nothing(new, x + 1, y)
    <2>1. ASSUME NEW r \in Row, NEW c \in Column, r > y \/ (r = y /\ c >= x + 1)
          PROVE  new[r][c] \notin Letters
      <3>1. r # y \/ c # x
        BY <1>1, <2>1 DEF Row, Column
      <3>2. new[r][c] = screen[r][c]
        BY <1>1, <1>2, <3>1 DEF Screen, Line, Put
      <3>3. r > y \/ (r = y /\ c >= x)
        BY <1>1, <2>1 DEF Row, Column
      <3> QED
        BY <1>1, <3>2, <3>3 DEF Nothing
    <2> QED
      BY <2>1 DEF Nothing
  <1>10. Reading' /\ text' \in Seq(Letters)
    <2> HIDE DEF ch, S, rows, a, new
    <2>1. CASE ch \in Letters
      <3>1. Spells(S \cup {a}, rows, Append(text, ch))
        BY <1>1, <1>4, <1>5, <1>6, <1>8, <2>1, SpellsMore DEF Reading, S
      <3>2. text' = Append(text, ch) /\ Lit(rows) = S \cup {a} /\ Append(text, ch) \in Seq(Letters)
        BY <1>1, <1>3, <1>4, <2>1
      <3> QED
        BY <1>3, <3>1, <3>2 DEF Reading, rows
    <2>2. CASE ch \notin Letters
      <3>1. Spells(S, rows, text)
        BY <1>1, <1>8, SpellsSame DEF Reading, S
      <3>2. text' = text /\ Lit(rows) = S
        BY <1>3, <1>4, <1>5, <2>2
      <3> QED
        BY <1>1, <1>3, <3>1, <3>2 DEF Reading, rows
    <2> QED
      BY <2>1, <2>2
  <1>11. /\ job'[w].pc = "advance" /\ job'[w].char = ch
         /\ job' \in [{w} -> Job]
    BY <1>1, <1>3, JobType DEF JobPc
  <1> HIDE DEF ch, S, rows, a, new
  <1>12. Types(w)'
    BY <1>1, <1>3, <1>4, <1>10, <1>11 DEF Types
  <1>13. CursorInv(w)'
    BY <1>1, <1>3, <1>9, <1>11 DEF CursorInv
  <1> QED
    BY <1>10, <1>12, <1>13 DEF TInv

LEMMA AdvanceStep ==
  ASSUME NEW w, TInv(w), Advance(w)
  PROVE  TInv(w)'
  <1>1. /\ Types(w) /\ Reading /\ job[w].pc = "advance" /\ x \in Nat /\ y \in Nat /\ x < Width
        /\ y < Height /\ Nothing(screen, x + 1, y)
    BY DEF TInv, CursorInv, Advance, Types
  <1>2. x' = x + 1 /\ UNCHANGED <<y, screen, shifting, gone, text>>
    BY DEF Advance, history
  <1>3. /\ job'[w].pc = IF x + 1 >= Width THEN "wrap" ELSE "idle"
        /\ job' \in [{w} -> Job]
    BY <1>1, JobType DEF Advance, JobPc
  <1>4. Types(w)' /\ Reading'
    BY <1>1, <1>2, <1>3 DEF Types, Reading
  <1>5. CursorInv(w)'
    BY <1>1, <1>2, <1>3, SizeType DEF CursorInv
  <1> QED
    BY <1>4, <1>5 DEF TInv

LEMMA NewlineStep ==
  ASSUME NEW w, TInv(w), Newline(w)
  PROVE  TInv(w)'
  <1>1. /\ Types(w) /\ Reading /\ job[w].pc = "newline" /\ x \in Nat /\ y \in Nat
        /\ Nothing(screen, x, y)
    BY DEF TInv, CursorInv, Newline, Types
  <1>2. x' = 0 /\ y' = y + 1 /\ UNCHANGED <<screen, shifting, gone, text>>
    BY DEF Newline, history
  <1>3. job'[w].pc = "idle" /\ job' \in [{w} -> Job]
    BY <1>1, JobType DEF Newline
  <1>4. Nothing(screen, 0, y + 1)
    <2>1. ASSUME NEW r \in Row, NEW c \in Column, r > y + 1 \/ (r = y + 1 /\ c >= 0)
          PROVE  r > y
      BY <1>1, <2>1 DEF Row
    <2> QED
      BY <1>1, <2>1 DEF Nothing
  <1>5. Types(w)' /\ Reading'
    BY <1>1, <1>2, <1>3 DEF Types, Reading
  <1>6. CursorInv(w)'
    BY <1>1, <1>2, <1>3, <1>4, SizeType DEF CursorInv
  <1> QED
    BY <1>5, <1>6 DEF TInv

-----------------------------------------------------------------------------
(* Backspace.                                                              *)

\* Erasing the cell (px, py), after which nothing is shown, takes the last
\* letter away, or none.
LEMMA EraseStep ==
  ASSUME NEW w, TInv(w), NEW px \in Column, NEW py \in Row, EraseAt(w, px, py),
         Nothing(Put(screen, py, px, "blank"), px, py)
  PROVE  TInv(w)'
  <1> DEFINE new == Put(screen, py, px, "blank")
             a == PlaceOf(gone, py, px)
             S == Lit(Paper(gone, screen))
             rows == Paper(gone, new)
  <1>1. /\ Types(w) /\ Reading /\ gone \in Seq(Line) /\ screen \in Screen /\ text \in Seq(Letters)
        /\ px \in Nat /\ py \in Nat /\ px < Width /\ py < Height
        /\ "blank" \in Cell /\ "blank" \notin Letters
    BY SizeType, TerminalAssumption DEF TInv, Types, Column, Row, Cell
  <1>2. /\ screen' = new /\ x' = px /\ y' = py /\ UNCHANGED <<shifting, gone>>
        /\ text' = IF screen[py][px] \in Letters THEN SubSeq(text, 1, Len(text) - 1) ELSE text
    BY DEF EraseAt, Put
  <1>3. /\ new \in Screen /\ a \in Place
        /\ \A b \in (1..Len(gone) + Height) \X Column :
             b # a => rows[b[1]][b[2]] = Paper(gone, screen)[b[1]][b[2]]
        /\ a \in S <=> screen[py][px] \in Letters
        /\ Lit(rows) = S \ {a}
    BY <1>1, PutPaper
  <1>4. \A b \in S : b \in (1..Len(gone) + Height) \X Column
    BY <1>1, LitType
  <1>5. \A b \in S : b # a => rows[b[1]][b[2]] = Paper(gone, screen)[b[1]][b[2]]
    BY <1>3, <1>4
  <1>6. \A b \in S : b # a => Before(b, a)
    <2>1. \A b \in Lit(rows) : Before(b, a)
      BY <1>1, <1>3, LettersBefore
    <2> QED
      BY <1>3, <2>1
  <1>7. job'[w].pc = "idle" /\ job' \in [{w} -> Job]
    BY <1>1, JobType DEF EraseAt
  <1>8. Reading' /\ text' \in Seq(Letters)
    <2> HIDE DEF S, rows, a, new
    <2>1. CASE a \in S
      <3>1. Spells(S \ {a}, rows, SubSeq(text, 1, Len(text) - 1))
        BY <1>1, <1>5, <1>6, <2>1, SpellsLess DEF Reading, S
      <3>2. text' = SubSeq(text, 1, Len(text) - 1)
        BY <1>2, <1>3, <2>1
      <3>3. SubSeq(text, 1, Len(text) - 1) \in Seq(Letters)
        BY <1>1
      <3> QED
        BY <1>2, <1>3, <3>1, <3>2, <3>3 DEF Reading, rows
    <2>2. CASE a \notin S
      <3>1. Spells(S, rows, text)
        BY <1>1, <1>5, <2>2, SpellsSame DEF Reading, S
      <3>2. text' = text /\ Lit(rows) = S
        BY <1>2, <1>3, <2>2
      <3> QED
        BY <1>1, <1>2, <3>1, <3>2 DEF Reading, rows
    <2> QED
      BY <2>1, <2>2
  <1> HIDE DEF S, rows, a, new
  <1>9. Types(w)'
    BY <1>1, <1>2, <1>3, <1>7, <1>8 DEF Types
  <1>10. CursorInv(w)'
    BY <1>1, <1>2, <1>7 DEF CursorInv, new
  <1> QED
    BY <1>8, <1>9, <1>10 DEF TInv

\* A nonempty finite set of numbers has a last one.
LEMMA LastOne ==
  ASSUME NEW A, A \subseteq Nat, IsFiniteSet(A), A # {}
  PROVE  \E c \in A : \A d \in A : d <= c
  <1> DEFINE Above(c) == {d \in A : d > c}
             T == {Above(c) : c \in A}
  <1>1. T \subseteq FiniteSubsetsOf(A) /\ T # {}
    <2>1. ASSUME NEW c \in A PROVE Above(c) \in SUBSET A /\ IsFiniteSet(Above(c))
      BY FS_Subset
    <2> QED
      BY <2>1 DEF FiniteSubsetsOf
  <1>2. PICK t \in T : \A u \in T : <<u, t>> \notin StrictSubsetOrdering(A)
    <2>1. IsWellFoundedOn(StrictSubsetOrdering(A), FiniteSubsetsOf(A))
      BY FS_StrictSubsetOrderingWellFounded
    <2> HIDE DEF T
    <2> QED
      BY <1>1, <2>1, WFMin
  <1>3. PICK c \in A : t = Above(c)
    BY <1>2
  <1>4. ASSUME NEW e \in A, e > c PROVE FALSE
    <2>0. c \in Nat /\ e \in Nat /\ \A d \in A : d \in Nat
      OBVIOUS
    <2>1. Above(e) \subseteq t /\ e \in t /\ e \notin Above(e) /\ t \subseteq A
      <3>1. \A d \in Nat : d > e => d > c
        BY <1>4, <2>0
      <3>2. ~(e > e)
        BY <2>0
      <3> QED
        BY <1>3, <1>4, <2>0, <3>1, <3>2
    <2>2. <<Above(e), t>> \in StrictSubsetOrdering(A)
      <3>1. Above(e) \in SUBSET A /\ t \in SUBSET A /\ Above(e) # t /\ Above(e) \subseteq t
        BY <2>1
      <3> HIDE DEF Above
      <3> QED
        BY <3>1 DEF StrictSubsetOrdering
    <2> QED
      BY <1>2, <2>2
  <1> QED
    BY <1>4

\* getChar() leftwards stops at the last letter of the row.
LEMMA LastShownType ==
  ASSUME screen \in Screen, NEW r \in Row
  PROVE  /\ LastShown(r) \in Column
         /\ \A c \in Column : c > LastShown(r) => screen[r][c] \notin Letters
  <1> DEFINE shown == {c \in Column : screen[r][c] \notin {"blank", "space"}}
  <1>1. \A c \in Column \ shown : screen[r][c] \notin Letters
    BY TerminalAssumption
  <1>2. CASE shown = {}
    <2>1. LastShown(r) = 0
      BY <1>2 DEF LastShown
    <2> QED
      BY <1>1, <1>2, <2>1, SizeType
  <1>3. CASE shown # {}
    <2>1. shown \subseteq Nat /\ IsFiniteSet(shown)
      <3>1. IsFiniteSet(Column)
        BY SizeType, FS_Interval DEF Column
      <3>2. shown \subseteq Column /\ Column \subseteq Nat
        BY DEF Column
      <3> QED
        BY <3>1, <3>2, FS_Subset
    <2>2. LastShown(r) = CHOOSE c \in shown : \A d \in shown : d <= c
      BY <1>3 DEF LastShown
    <2> HIDE DEF shown
    <2>3. \E c \in shown : \A d \in shown : d <= c
      BY <1>3, <2>1, LastOne
    <2>4. LastShown(r) \in shown /\ \A d \in shown : d <= LastShown(r)
      BY <2>2, <2>3
    <2>5. ASSUME NEW c \in Column, c > LastShown(r) PROVE c \notin shown
      <3>1. c \in Nat /\ LastShown(r) \in Nat
        <4>1. c \in Nat
          BY DEF Column
        <4>2. LastShown(r) \in Nat
          BY <2>1, <2>4
        <4> QED
          BY <4>1, <4>2
      <3>2. c \in shown => c <= LastShown(r)
        BY <2>4
      <3> QED
        BY <2>5, <3>1, <3>2
    <2> QED
      BY <1>1, <2>4, <2>5 DEF shown
  <1> QED
    BY <1>2, <1>3

LEMMA PanicStep ==
  ASSUME NEW w, TInv(w), job[w].pc \in {"draw", "backspace"}, Panic(w, "panic y")
  PROVE  TInv(w)'
  <1>1. Types(w) /\ Reading /\ CursorInv(w)
    BY DEF TInv
  <1>2. UNCHANGED <<x, y, screen, shifting, gone, text>>
    BY DEF Panic, history
  <1>3. job'[w].pc = "panic y" /\ job' \in [{w} -> Job]
    BY <1>1, JobType DEF Panic, JobPc
  <1>4. Types(w)' /\ Reading'
    BY <1>1, <1>2, <1>3 DEF Types, Reading
  <1>5. CursorInv(w)'
    BY <1>1, <1>2, <1>3 DEF CursorInv
  <1> QED
    BY <1>4, <1>5 DEF TInv

LEMMA BackspaceStep ==
  ASSUME NEW w, TInv(w), Backspace(w)
  PROVE  TInv(w)'
  <1>1. /\ job[w].pc = "backspace" /\ x \in Nat /\ y \in Nat /\ x < Width
        /\ Nothing(screen, x, y) /\ screen \in Screen
        /\ "blank" \notin Letters
    BY TerminalAssumption DEF TInv, CursorInv, Backspace, Types
  <1>2. ASSUME NEW px \in Column, NEW py \in Row, EraseAt(w, px, py),
               \A r \in Row, c \in Column :
                 (r > py \/ (r = py /\ c > px)) => screen[r][c] \notin Letters
        PROVE  TInv(w)'
    <2>1. ASSUME NEW r \in Row, NEW c \in Column, r > py \/ (r = py /\ c >= px)
          PROVE  Put(screen, py, px, "blank")[r][c] \notin Letters
      <3>1. CASE r = py /\ c = px
        BY <1>1, <3>1 DEF Put, Screen, Line
      <3>2. CASE ~(r = py /\ c = px)
        <4>1. Put(screen, py, px, "blank")[r][c] = screen[r][c]
          BY <1>1, <3>2 DEF Put, Screen, Line
        <4>2. r > py \/ (r = py /\ c > px)
          BY <2>1, <3>2 DEF Column, Row
        <4> QED
          BY <1>2, <4>1, <4>2
      <3> QED
        BY <3>1, <3>2
    <2>2. Nothing(Put(screen, py, px, "blank"), px, py)
      BY <2>1 DEF Nothing
    <2> QED
      BY <1>2, <2>2, EraseStep
  <1>3. CASE Panic(w, "panic y")
    BY <1>1, <1>3, PanicStep
  <1>4. CASE x > 0 /\ y < Height /\ EraseAt(w, x - 1, y)
    <2>1. x - 1 \in Column /\ y \in Row
      BY <1>1, <1>4, SizeType DEF Column, Row
    <2>2. ASSUME NEW r \in Row, NEW c \in Column, r > y \/ (r = y /\ c > x - 1)
          PROVE  screen[r][c] \notin Letters
      <3>1. r > y \/ (r = y /\ c >= x)
        BY <1>1, <2>2 DEF Column
      <3> QED
        BY <1>1, <3>1 DEF Nothing
    <2> QED
      BY <1>2, <1>4, <2>1, <2>2
  <1>5. CASE x = 0 /\ y > 0 /\ y <= Height /\ EraseAt(w, LastShown(y - 1), y - 1)
    <2>1. y - 1 \in Row
      BY <1>1, <1>5, SizeType DEF Row
    <2>2. /\ LastShown(y - 1) \in Column
          /\ \A c \in Column : c > LastShown(y - 1) => screen[y - 1][c] \notin Letters
      BY <1>1, <2>1, LastShownType
    <2>3. ASSUME NEW r \in Row, NEW c \in Column, r > y - 1 PROVE screen[r][c] \notin Letters
      <3>1. r > y \/ (r = y /\ c >= x)
        BY <1>1, <1>5, <2>3 DEF Column, Row
      <3> QED
        BY <1>1, <3>1 DEF Nothing
    <2>4. \A r \in Row, c \in Column :
            (r > y - 1 \/ (r = y - 1 /\ c > LastShown(y - 1))) => screen[r][c] \notin Letters
      BY <2>2, <2>3
    <2> QED
      BY <1>2, <1>5, <2>1, <2>2, <2>4
  <1>6. CASE x = 0 /\ y = 0 /\ EraseAt(w, 0, 0)
    <2>1. ASSUME NEW r \in Row, NEW c \in Column PROVE screen[r][c] \notin Letters
      <3>1. r > y \/ (r = y /\ c >= x)
        BY <1>6 DEF Column, Row
      <3> QED
        BY <1>1, <3>1 DEF Nothing
    <2> QED
      BY <1>2, <1>6, <2>1, SizeType
  <1> QED
    BY <1>3, <1>4, <1>5, <1>6 DEF Backspace

-----------------------------------------------------------------------------
(* The other steps, and the theorem.                                       *)

\* A character in hand: printChar() begins where the cursor is.
LEMMA StartStep ==
  ASSUME NEW w, TInv(w), NEW char \in Char, PrintChar(w, char),
         UNCHANGED <<x, y, screen, shifting, history>>
  PROVE  TInv(w)'
  <1>1. /\ Types(w) /\ Reading /\ job[w].pc = "idle" /\ x < Width /\ Nothing(screen, x, y)
    BY DEF TInv, CursorInv, PrintChar
  <1>2. UNCHANGED <<x, y, screen, shifting, gone, text>>
    BY DEF history
  <1>3. /\ Starts(char) \in Job /\ Starts(char).char = char
        /\ Starts(char).pc \in {"newline", "backspace", "fit"}
        /\ Starts(char).pc = "fit" => char \in Cell
    <2>1. /\ Starts(char).pc = IF char \in {"newline", "backspace"} THEN char ELSE "fit"
          /\ Starts(char).char = char
      BY DEF Starts
    <2>2. char \notin {"newline", "backspace"} => char \in Cell
      BY DEF Char, Cell
    <2>3. Starts(char).pc \in {"newline", "backspace", "fit"}
      BY <2>1
    <2>4. Starts(char).pc = "fit" => char \notin {"newline", "backspace"}
      BY <2>1
    <2>5. Starts(char) \in Job
      BY <2>1, <2>3 DEF Starts, Job, JobPc
    <2> QED
      BY <2>1, <2>2, <2>3, <2>4, <2>5
  <1>4. job'[w] = Starts(char) /\ job' \in [{w} -> Job]
    BY <1>1, <1>3, JobType DEF PrintChar
  <1>5. Types(w)' /\ Reading'
    BY <1>1, <1>2, <1>4 DEF Types, Reading
  <1>6. CursorInv(w)'
    BY <1>1, <1>2, <1>3, <1>4 DEF CursorInv
  <1> QED
    BY <1>5, <1>6 DEF TInv

\* What is unchanged where only the shift state moves.
LEMMA KeepStep ==
  ASSUME NEW w, TInv(w), UNCHANGED <<x, y, screen, job, gone, text>>, shifting' \in BOOLEAN
  PROVE  TInv(w)'
  <1>1. Types(w)'
    BY DEF TInv, Types
  <1>2. CursorInv(w)'
    BY DEF TInv, CursorInv
  <1>3. Reading'
    BY DEF TInv, Reading
  <1> QED
    BY <1>1, <1>2, <1>3 DEF TInv

LEMMA TInitial ==
  ASSUME NEW w, Writers = {w}, Init
  PROVE  TInv(w)
  <1>1. screen \in Screen /\ \A r \in Row, c \in Column : screen[r][c] \notin Letters
    BY SizeType DEF Init, Screen
  <1>2. gone = <<>> /\ gone \in Seq(Line) /\ text = <<>> /\ text \in Seq(Letters)
    BY DEF Init
  <1>3. job[w].pc = "idle" /\ job \in [{w} -> Job]
    <2>1. job = [v \in {w} |-> Idle] /\ Idle \in Job /\ Idle.pc = "idle"
      BY DEF Init, Idle, Job, JobPc
    <2> QED
      BY <2>1
  <1>4. Types(w) /\ CursorInv(w)
    <2>1. x = 0 /\ y = 0 /\ shifting = FALSE
      BY DEF Init
    <2>2. Types(w)
      BY <1>1, <1>2, <1>3, <2>1 DEF Types
    <2>3. Nothing(screen, x, y)
      BY <1>1 DEF Nothing
    <2>4. x < Width
      BY <2>1, SizeType
    <2> QED
      BY <1>3, <2>2, <2>3, <2>4 DEF CursorInv
  <1>5. Lit(Paper(gone, screen)) = {}
    <2>1. ASSUME NEW a \in Lit(Paper(gone, screen)) PROVE FALSE
      <3>1. /\ a \in (1..Len(gone) + Height) \X Column
            /\ Paper(gone, screen)[a[1]][a[2]] \in Letters
        BY <1>1, <1>2, LitType
      <3>2. PICK r \in Row : a[1] = Len(gone) + r + 1
        <4>1. a[1] \in 1..Len(gone) + Height /\ Len(gone) = 0
          BY <1>2, <3>1
        <4>2. a[1] \in 1..Len(gone) \/ \E r \in Row : a[1] = Len(gone) + r + 1
          BY <1>2, <4>1, OnPaper
        <4>3. a[1] \notin 1..Len(gone)
          BY <4>1
        <4> QED
          BY <4>2, <4>3
      <3>3. Paper(gone, screen)[Len(gone) + r + 1] = screen[r] /\ a[2] \in Column
        BY <1>1, <1>2, <3>1, PaperType
      <3> QED
        BY <1>1, <3>1, <3>2, <3>3
    <2> QED
      BY <2>1
  <1>6. Reading
    <2>1. IsFiniteSet({}) /\ Cardinality({}) = 0 /\ Len(text) = 0
      BY <1>2, FS_EmptySet
    <2> QED
      BY <1>5, <2>1 DEF Reading, Spells
  <1> QED
    BY <1>4, <1>6 DEF TInv

LEMMA TNext ==
  ASSUME NEW w, Writers = {w}, TInv(w), [Next]_vars
  PROVE  TInv(w)'
  <1>0. shifting \in BOOLEAN
    BY DEF TInv, Types
  <1>1. CASE UNCHANGED vars
    BY <1>0, <1>1, KeepStep DEF vars
  <1>2. ASSUME NEW pressed \in BOOLEAN, Shift(pressed) PROVE TInv(w)'
    BY <1>2, KeepStep DEF Shift, history
  <1>3. ASSUME NEW char \in Char, SysWrite(w, char) PROVE TInv(w)'
    BY <1>3, StartStep DEF SysWrite
  <1>4. ASSUME NEW key \in Keys, Key(w, key) PROVE TInv(w)'
    <2>1. key \in [lower : Char \cup {"none"}, upper : Char \cup {"none"}]
      BY TerminalAssumption
    <2>2. KeyMap(key) \in Char \cup {"none"}
      BY <2>1 DEF KeyMap
    <2>3. KeyMap(key) \in Char
      BY <1>4, <2>2 DEF Key
    <2> QED
      BY <1>4, <2>3, StartStep DEF Key
  <1>5. CASE Draw(w)
    BY <1>5, DrawStep
  <1> QED
    BY <1>1, <1>2, <1>3, <1>4, <1>5, NewlineStep, FitStep, AdvanceStep, WrapStep, BackspaceStep
       DEF Next

LEMMA TSafe ==
  ASSUME NEW w, Writers = {w}, TInv(w)
  PROVE  ReadsBack
  <1>1. Rows = Paper(gone, screen) /\ Cells = Lit(Paper(gone, screen))
    BY DEF Rows, Paper, Cells, Lit
  <1>2. \A a : Rank(a) = RankIn(Cells, a)
    BY DEF Rank, RankIn
  <1>3. TypeOK
    <2>1. x \in Nat /\ y \in Nat /\ (x < Width \/ x = Width) /\ (job[w].pc = "idle" => x < Width)
      BY DEF TInv, Types, CursorInv
    <2>2. x \in 0 .. Width
      BY <2>1, SizeType
    <2>3. screen \in [Row -> [Column -> Cell]] /\ shifting \in BOOLEAN
      BY DEF TInv, Types, Screen, Line
    <2>4. \A i \in DOMAIN gone : gone[i] \in [Column -> Cell]
      BY DEF TInv, Types, Line
    <2>5. \A i \in DOMAIN text : text[i] \in Letters
      BY DEF TInv, Types
    <2> QED
      BY <2>1, <2>2, <2>3, <2>4, <2>5 DEF TypeOK
  <1>4. Spells(Cells, Rows, text)
    BY <1>1 DEF TInv, Reading
  <1>5. job[w].pc = "idle" => Nothing(screen, x, y)
    BY DEF TInv, CursorInv
  <1> QED
    BY <1>2, <1>3, <1>4, <1>5 DEF ReadsBack, Spells, Nothing

\* terminal.cpp, printChar(): on a screen of any size, while one writer prints
\* at a time, the rows that scrolled away and the screen read as the letters
\* printed and not erased, in order.
THEOREM ReadsBackOneWriter ==
  ASSUME NEW w, Writers = {w}
  PROVE  Spec => []ReadsBack
  <1>1. Init => TInv(w)
    BY TInitial
  <1>2. TInv(w) /\ [Next]_vars => TInv(w)'
    BY TNext
  <1>3. TInv(w) => ReadsBack
    BY TSafe
  <1> QED
    BY <1>1, <1>2, <1>3, PTL DEF Spec
=============================================================================
