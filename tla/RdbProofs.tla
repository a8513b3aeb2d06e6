------------------------------ MODULE RdbProofs -----------------------------
(***************************************************************************)
(* Proofs about Rdb, for any keys, texts, lengths, deadlines and clock     *)
(* that satisfy its assumptions: the loading loop ends for every file, a   *)
(* snapshot loads and gives back what was saved, and a damaged one leaves  *)
(* nothing.  Induction over the turns of the loop is by the least          *)
(* counterexample.                                                         *)
(***************************************************************************)
EXTENDS Rdb, WellFoundedInduction, SequenceTheorems, TLAPS

-----------------------------------------------------------------------------
(***************************************************************************)
(* Least elements.                                                         *)
(***************************************************************************)
Less == OpToRel(<, Nat)

LEMMA LessWellFounded == IsWellFoundedOn(Less, Nat)
  BY NatLessThanWellFounded DEF Less

LEMMA LessPairs ==
  ASSUME NEW x \in Nat, NEW y \in Nat, x < y
  PROVE  <<x, y>> \in Less
  BY DEF Less, OpToRel

\* A set of numbers that is not empty has a least element.
LEMMA LeastElement ==
  ASSUME NEW T \in SUBSET Nat, T # {}
  PROVE  \E x \in T : \A y \in T : x <= y
  <1>1. PICK x \in T : \A y \in T : ~ (<<y, x>> \in Less)
    BY LessWellFounded, WFMin
  <1>2. \A y \in T : ~ (y < x)
    BY <1>1, LessPairs
  <1> QED BY <1>2

-----------------------------------------------------------------------------
(***************************************************************************)
(* The loop: the recursion that defines it has a solution.                 *)
(***************************************************************************)
Solves(f, g, n) ==
  g = [m \in 0..n |-> IF m = 0 THEN LoopStart ELSE Turn(f, g[m - 1])]

LEMMA SolutionExists ==
  ASSUME NEW f, NEW n \in Nat
  PROVE  \E g : Solves(f, g, n)
  <1> DEFINE T == {m \in Nat : ~ \E g : Solves(f, g, m)}
  <1> SUFFICES ASSUME T # {} PROVE FALSE
    OBVIOUS
  <1>1. PICK x \in T : \A y \in T : x <= y
    BY LeastElement
  <1>2. x # 0
    <2> DEFINE g == [m \in 0..0 |-> LoopStart]
    <2>1. Solves(f, g, 0)
      BY DEF Solves
    <2> QED BY <2>1
  <1>3. x - 1 \in Nat /\ x - 1 \notin T
    BY <1>1, <1>2
  <1>4. PICK g : Solves(f, g, x - 1)
    BY <1>3
  <1> DEFINE h == [m \in 0..x |-> IF m = x THEN Turn(f, g[x - 1]) ELSE g[m]]
  <1>5. \A m \in 0..x - 1 : g[m] = IF m = 0 THEN LoopStart ELSE Turn(f, g[m - 1])
    BY <1>4 DEF Solves
  <1>6. \A m \in 0..x - 1 : h[m] = g[m]
    BY <1>3
  <1>7. h[x] = Turn(f, g[x - 1])
    BY <1>1
  <1>8. \A m \in 0..x : h[m] = IF m = 0 THEN LoopStart ELSE Turn(f, h[m - 1])
    <2> SUFFICES ASSUME NEW m \in 0..x
                 PROVE  h[m] = IF m = 0 THEN LoopStart ELSE Turn(f, h[m - 1])
      OBVIOUS
    <2>1. CASE m = x
      <3>1. h[x - 1] = g[x - 1]
        BY <1>3, <1>6
      <3> QED BY <1>2, <1>7, <2>1, <3>1
    <2>2. CASE m # x
      <3>1. m \in 0..x - 1 /\ (m # 0 => m - 1 \in 0..x - 1)
        BY <1>3, <2>2
      <3>2. m # 0 => h[m - 1] = g[m - 1]
        BY <1>6, <3>1
      <3> HIDE DEF h
      <3> QED BY <1>5, <1>6, <3>1, <3>2
    <2> QED BY <2>1, <2>2
  <1>9. h = [m \in 0..x |-> h[m]]
    OBVIOUS
  <1> HIDE DEF h
  <1>10. Solves(f, h, x)
    BY <1>8, <1>9 DEF Solves
  <1> QED BY <1>10

\* Loop(f) starts in LoopStart, and goes on by a Turn each time.
LEMMA LoopUnfolds ==
  ASSUME NEW f, Len(f) \in Nat
  PROVE  /\ Loop(f)[0] = LoopStart
         /\ \A n \in 1..Len(f) : Loop(f)[n] = Turn(f, Loop(f)[n - 1])
  <1>1. \E g : Solves(f, g, Len(f))
    BY SolutionExists
  <1>2. Loop(f) = CHOOSE g : Solves(f, g, Len(f))
    BY DEF Loop, Solves
  <1>3. Solves(f, Loop(f), Len(f))
    BY <1>1, <1>2
  <1> QED BY <1>3 DEF Solves

-----------------------------------------------------------------------------
(***************************************************************************)
(* The loop ends.                                                          *)
(***************************************************************************)
IsLoop(s) ==
  /\ s = LoopState(s.status, s.at, s.pending, s.db)
  /\ s.at \in Nat
  /\ s.status \in {"reading", "ok", "failed"}

LEMMA LoopStateFields ==
  ASSUME NEW status, NEW at, NEW pending, NEW d
  PROVE  /\ LoopState(status, at, pending, d).status = status
         /\ LoopState(status, at, pending, d).at = at
         /\ LoopState(status, at, pending, d).pending = pending
         /\ LoopState(status, at, pending, d).db = d
         /\ at \in Nat /\ status \in {"reading", "ok", "failed"}
              => IsLoop(LoopState(status, at, pending, d))
  BY DEF LoopState, IsLoop

LEMMA StartIsLoop == IsLoop(LoopStart)
  BY LoopStateFields DEF LoopStart

LEMMA IOErrorFields ==
  ASSUME NEW d
  PROVE  IsLoop(IOError(d)) /\ IOError(d).status = "failed"
  BY LoopStateFields DEF IOError

\* A string that can be read takes at least one value of the file.
LEMMA ReadAdvances ==
  ASSUME NEW f, NEW i \in Nat, read_string(f, i).ok
  PROVE  read_string(f, i).next \in Nat /\ read_string(f, i).next > i
  <1>1. \A len : \A j \in Nat : ReadText(f, j, len).ok =>
          ReadText(f, j, len).next \in Nat /\ ReadText(f, j, len).next >= j
    BY DEF ReadText, Unreadable
  <1>2. ~ Unreadable.ok
    BY DEF Unreadable
  <1> QED BY <1>1, <1>2 DEF read_string

\* The turn has ended the loop, or it has moved on from position i.
Moved(s, i) == IsLoop(s) /\ (s.status = "reading" => s.at > i)

LEMMA LoadStringMoves ==
  ASSUME NEW f, NEW j \in Nat, NEW pending, NEW d
  PROVE  Moved(LoadString(f, j, pending, d), j)
  <1> DEFINE key   == read_string(f, j + 1)
             value == read_string(f, key.next)
  <1>1. CASE ~ key.ok \/ ~ value.ok
    BY <1>1, IOErrorFields DEF LoadString, Moved
  <1>2. CASE key.ok /\ value.ok
    <2>1. key.next \in Nat /\ key.next > j + 1
      BY <1>2, ReadAdvances
    <2>2. value.next \in Nat /\ value.next > key.next
      BY <1>2, <2>1, ReadAdvances
    <2> QED BY <1>2, <2>1, <2>2, LoopStateFields DEF LoadString, Moved
  <1> QED BY <1>1, <1>2

LEMMA LoadTypedMoves ==
  ASSUME NEW f, NEW j \in Nat, NEW pending, NEW d
  PROVE  Moved(LoadTyped(f, j, pending, d), j)
  BY LoadStringMoves, LoopStateFields, IOErrorFields DEF LoadTyped, Moved

LEMMA TurnMoves ==
  ASSUME NEW f, NEW s, IsLoop(s), s.status = "reading"
  PROVE  Moved(Turn(f, s), s.at)
  <1>1. s.at \in Nat /\ s.at + 2 \in Nat
    BY DEF IsLoop
  <1>2. Moved(LoadTyped(f, s.at, s.pending, s.db), s.at)
    BY <1>1, LoadTypedMoves
  <1>3. Moved(LoadTyped(f, s.at + 2, f[s.at + 1][2], s.db), s.at + 2)
    BY <1>1, LoadTypedMoves
  <1>4. Moved(LoadTyped(f, s.at + 2, f[s.at + 1][2], s.db), s.at)
    BY <1>1, <1>3 DEF Moved, IsLoop
  <1>5. Moved(IOError(s.db), s.at)
    BY IOErrorFields DEF Moved
  <1>6. /\ Moved(LoopState("ok", s.at + 2, s.pending, s.db), s.at)
        /\ Moved(LoopState("reading", s.at + 2, s.pending, s.db), s.at)
    BY <1>1, LoopStateFields DEF Moved
  <1>7. Moved(ReadTurn(f, s.at, s.pending, s.db), s.at)
    BY <1>2, <1>4, <1>5, <1>6 DEF ReadTurn
  <1> QED BY <1>7 DEF Turn

\* As long as the loop goes on, it moves by one value in a turn.
LEMMA LoopMoves ==
  ASSUME NEW f, Len(f) \in Nat, NEW n \in 0..Len(f)
  PROVE  IsLoop(Loop(f)[n]) /\ (Loop(f)[n].status = "reading" => Loop(f)[n].at >= n + 3)
  <1> DEFINE P(m) == IsLoop(Loop(f)[m]) /\ (Loop(f)[m].status = "reading" => Loop(f)[m].at >= m + 3)
             T == {m \in 0..Len(f) : ~ P(m)}
  <1> SUFFICES ASSUME T # {} PROVE FALSE
    OBVIOUS
  <1>0. T \in SUBSET Nat
    OBVIOUS
  <1>1. PICK x \in T : \A y \in T : x <= y
    BY <1>0, LeastElement
  <1>2. x # 0
    <2>1. P(0)
      BY LoopUnfolds, StartIsLoop, LoopStateFields DEF LoopStart
    <2> QED BY <2>1
  <1>3. x \in 1..Len(f) /\ x - 1 \in 0..Len(f) /\ x - 1 \notin T
    BY <1>1, <1>2
  <1>4. P(x - 1)
    BY <1>3
  <1>5. Loop(f)[x] = Turn(f, Loop(f)[x - 1])
    BY <1>3, LoopUnfolds
  <1>6. CASE Loop(f)[x - 1].status = "reading"
    <2>1. Moved(Loop(f)[x], Loop(f)[x - 1].at)
      BY <1>4, <1>5, <1>6, TurnMoves
    <2> QED BY <1>1, <1>3, <1>4, <1>6, <2>1 DEF Moved, IsLoop
  <1>7. CASE Loop(f)[x - 1].status # "reading"
    BY <1>1, <1>4, <1>5, <1>7 DEF Turn
  <1> QED BY <1>6, <1>7

\* Once the loop has ended, it stays as it is.
LEMMA LoopStays ==
  ASSUME NEW f, Len(f) \in Nat, NEW n \in 0..Len(f), Loop(f)[n].status # "reading"
  PROVE  Loop(f)[Len(f)] = Loop(f)[n]
  <1> DEFINE T == {m \in n..Len(f) : Loop(f)[m] # Loop(f)[n]}
  <1> SUFFICES ASSUME T # {} PROVE FALSE
    OBVIOUS
  <1>0. T \in SUBSET Nat
    OBVIOUS
  <1>1. PICK x \in T : \A y \in T : x <= y
    BY <1>0, LeastElement
  <1>2. x \in 1..Len(f) /\ x - 1 \in n..Len(f) /\ x - 1 \notin T
    BY <1>1
  <1>3. Loop(f)[x - 1] = Loop(f)[n]
    BY <1>2
  <1>4. Loop(f)[x] = Turn(f, Loop(f)[x - 1])
    BY <1>2, LoopUnfolds
  <1> QED BY <1>1, <1>3, <1>4 DEF Turn

\* The loop of rdb_load ends for every file, whatever is in it: no file makes a
\* turn that stays where it is, and rdb_load returns with a status.
THEOREM LoadingEnds ==
  ASSUME NEW S, NEW f \in Seq(S), f # << >>
  PROVE  Loop(f)[Len(f)].status \in {"ok", "failed"}
  <1>1. Len(f) \in Nat /\ Len(f) - 1 \in 0..Len(f) /\ DOMAIN f = 1..Len(f)
    OBVIOUS
  <1> DEFINE s == Loop(f)[Len(f) - 1]
  <1>2. IsLoop(s) /\ (s.status = "reading" => s.at >= Len(f) + 2)
    BY <1>1, LoopMoves
  <1>3. Loop(f)[Len(f)] = Turn(f, s)
    BY <1>1, LoopUnfolds
  <1>4. CASE s.status = "reading"
    <2>1. s.at \notin DOMAIN f
      BY <1>1, <1>2, <1>4 DEF IsLoop
    <2>2. Turn(f, s) = IOError(s.db)
      BY <1>4, <2>1 DEF Turn, ReadTurn, NextIs
    <2> QED BY <1>3, <2>2, IOErrorFields
  <1>5. CASE s.status # "reading"
    BY <1>2, <1>3, <1>5 DEF Turn, IsLoop
  <1> QED BY <1>4, <1>5

-----------------------------------------------------------------------------
(***************************************************************************)
(* Reading a file that begins with another.                                *)
(***************************************************************************)
Extension(p, f) == \A i \in DOMAIN p : i \in DOMAIN f /\ f[i] = p[i]

LEMMA ExtensionNextIs ==
  ASSUME NEW p, NEW f, Extension(p, f), NEW i, NEW w, NextIs(p, i, w)
  PROVE  NextIs(f, i, w) /\ f[i] = p[i]
  BY DEF Extension, NextIs

LEMMA ExtensionReadText ==
  ASSUME NEW p, NEW f, Extension(p, f), NEW i, NEW len, ReadText(p, i, len).ok
  PROVE  ReadText(f, i, len) = ReadText(p, i, len)
  <1>1. ~ Unreadable.ok
    BY DEF Unreadable
  <1>2. CASE len = 0
    BY <1>2 DEF ReadText
  <1>3. CASE len # 0
    <2>1. NextIs(p, i, "raw") /\ Length[p[i][2]] = len
      BY <1>1, <1>3 DEF ReadText
    <2>2. NextIs(f, i, "raw") /\ f[i] = p[i]
      BY <2>1, ExtensionNextIs
    <2> QED BY <1>3, <2>1, <2>2 DEF ReadText
  <1> QED BY <1>2, <1>3

LEMMA ExtensionReadString ==
  ASSUME NEW p, NEW f, Extension(p, f), NEW i, read_string(p, i).ok
  PROVE  read_string(f, i) = read_string(p, i)
  <1> DEFINE first == p[i][2]
             form  == first \div 64
  <1>0. ~ Unreadable.ok
    BY DEF Unreadable
  <1>1. NextIs(p, i, "u8")
    BY <1>0 DEF read_string
  <1>2. NextIs(f, i, "u8") /\ f[i] = p[i]
    BY <1>1, ExtensionNextIs
  <1>3. CASE form = 0
    <2>1. read_string(p, i) = ReadText(p, i + 1, first)
      BY <1>1, <1>3 DEF read_string
    <2>2. read_string(f, i) = ReadText(f, i + 1, first)
      BY <1>2, <1>3 DEF read_string
    <2> QED BY <2>1, <2>2, ExtensionReadText
  <1>4. CASE form # 0 /\ form = 2 /\ NextIs(p, i + 1, "u8")
    <2>0. NextIs(f, i + 1, "u8") /\ f[i + 1] = p[i + 1]
      BY <1>4, ExtensionNextIs
    <2>1. read_string(p, i) = ReadText(p, i + 2, (first % 64) * 256 + p[i + 1][2])
      BY <1>1, <1>4 DEF read_string
    <2>2. read_string(f, i) = ReadText(f, i + 2, (first % 64) * 256 + p[i + 1][2])
      BY <1>2, <1>4, <2>0 DEF read_string
    <2> QED BY <2>1, <2>2, ExtensionReadText
  <1>5. CASE form # 0 /\ form = 3 /\ NextIs(p, i + 1, "u32")
    <2>0. NextIs(f, i + 1, "u32") /\ f[i + 1] = p[i + 1]
      BY <1>5, ExtensionNextIs
    <2>1. read_string(p, i) = ReadText(p, i + 2, p[i + 1][2])
      BY <1>1, <1>5 DEF read_string
    <2>2. read_string(f, i) = ReadText(f, i + 2, p[i + 1][2])
      BY <1>2, <1>5, <2>0 DEF read_string
    <2> QED BY <2>1, <2>2, ExtensionReadText
  <1>6. form = 0 \/ (form # 0 /\ form = 2 /\ NextIs(p, i + 1, "u8"))
          \/ (form # 0 /\ form = 3 /\ NextIs(p, i + 1, "u32"))
    BY <1>0, <1>1 DEF read_string
  <1> QED BY <1>3, <1>4, <1>5, <1>6

LEMMA ExtensionLoadString ==
  ASSUME NEW p, NEW f, Extension(p, f), NEW j, NEW pending, NEW d,
         LoadString(p, j, pending, d).status = "reading"
  PROVE  LoadString(f, j, pending, d) = LoadString(p, j, pending, d)
  <1> DEFINE key(g)   == read_string(g, j + 1)
             value(g) == read_string(g, key(g).next)
  <1>1. key(p).ok /\ value(p).ok
    BY IOErrorFields DEF LoadString
  <1>2. key(f) = key(p)
    BY <1>1, ExtensionReadString
  <1>3. value(f) = value(p)
    BY <1>1, <1>2, ExtensionReadString
  <1> QED BY <1>2, <1>3 DEF LoadString

LEMMA ExtensionLoadTyped ==
  ASSUME NEW p, NEW f, Extension(p, f), NEW j, NEW pending, NEW d,
         LoadTyped(p, j, pending, d).status = "reading"
  PROVE  LoadTyped(f, j, pending, d) = LoadTyped(p, j, pending, d)
  <1>1. NextIs(p, j, "u8")
    BY IOErrorFields DEF LoadTyped
  <1>2. NextIs(f, j, "u8") /\ f[j] = p[j]
    BY <1>1, ExtensionNextIs
  <1>3. CASE p[j][2] = RDB_TYPE_STRING
    BY <1>1, <1>2, <1>3, ExtensionLoadString DEF LoadTyped
  <1>4. CASE p[j][2] # RDB_TYPE_STRING
    BY <1>1, <1>2, <1>4 DEF LoadTyped
  <1> QED BY <1>3, <1>4

LEMMA ExtensionTurn ==
  ASSUME NEW p, NEW f, Extension(p, f), NEW s, Turn(p, s).status = "reading"
  PROVE  Turn(f, s) = Turn(p, s)
  <1> DEFINE i == s.at
             op == p[i][2]
  <1>1. s.status = "reading"
    BY DEF Turn
  <1>2. Turn(p, s) = ReadTurn(p, i, s.pending, s.db) /\ Turn(f, s) = ReadTurn(f, i, s.pending, s.db)
    BY <1>1 DEF Turn
  <1>3. NextIs(p, i, "u8")
    BY <1>2, IOErrorFields DEF ReadTurn
  <1>4. NextIs(f, i, "u8") /\ f[i] = p[i]
    BY <1>3, ExtensionNextIs
  <1>5. op # RDB_OPCODE_EOF
    BY <1>2, <1>3, IOErrorFields, LoopStateFields DEF ReadTurn
  <1>6. CASE op = RDB_OPCODE_DB
    <2>1. NextIs(p, i + 1, "u32")
      BY <1>2, <1>3, <1>5, <1>6, IOErrorFields DEF ReadTurn
    <2>2. NextIs(f, i + 1, "u32")
      BY <2>1, ExtensionNextIs
    <2> QED BY <1>2, <1>3, <1>4, <1>5, <1>6, <2>1, <2>2 DEF ReadTurn
  <1>7. CASE op # RDB_OPCODE_DB /\ op = RDB_OPCODE_EXPIRE
    <2>1. NextIs(p, i + 1, "i64")
      BY <1>2, <1>3, <1>5, <1>7, IOErrorFields DEF ReadTurn
    <2>2. NextIs(f, i + 1, "i64") /\ f[i + 1] = p[i + 1]
      BY <2>1, ExtensionNextIs
    <2>3. Turn(p, s) = LoadTyped(p, i + 2, p[i + 1][2], s.db)
      BY <1>2, <1>3, <1>5, <1>7, <2>1 DEF ReadTurn
    <2>4. Turn(f, s) = LoadTyped(f, i + 2, p[i + 1][2], s.db)
      BY <1>2, <1>4, <1>5, <1>7, <2>2 DEF ReadTurn
    <2> QED BY <2>3, <2>4, ExtensionLoadTyped
  <1>8. CASE op # RDB_OPCODE_DB /\ op # RDB_OPCODE_EXPIRE
    <2>1. Turn(p, s) = LoadTyped(p, i, s.pending, s.db)
      BY <1>2, <1>3, <1>5, <1>8 DEF ReadTurn
    <2>2. Turn(f, s) = LoadTyped(f, i, s.pending, s.db)
      BY <1>2, <1>4, <1>5, <1>8 DEF ReadTurn
    <2> QED BY <2>1, <2>2, ExtensionLoadTyped
  <1> QED BY <1>6, <1>7, <1>8

\* As long as p lasts, the loop reads f as it reads p.
LEMMA ExtensionLoop ==
  ASSUME NEW p, NEW f, Extension(p, f), Len(p) \in Nat, Len(f) \in Nat, Len(p) <= Len(f),
         NEW n \in 0..Len(p), Loop(p)[n].status = "reading"
  PROVE  Loop(f)[n] = Loop(p)[n]
  <1> DEFINE T == {m \in 0..Len(p) : Loop(p)[m].status = "reading" /\ Loop(f)[m] # Loop(p)[m]}
  <1> SUFFICES ASSUME T # {} PROVE FALSE
    OBVIOUS
  <1>0. T \in SUBSET Nat
    OBVIOUS
  <1>1. PICK x \in T : \A y \in T : x <= y
    BY <1>0, LeastElement
  <1>2. x # 0
    BY <1>1, LoopUnfolds
  <1>3. x \in 1..Len(p) /\ x \in 1..Len(f) /\ x - 1 \in 0..Len(p) /\ x - 1 \notin T
    BY <1>1, <1>2
  <1>4. Loop(p)[x] = Turn(p, Loop(p)[x - 1]) /\ Loop(f)[x] = Turn(f, Loop(f)[x - 1])
    BY <1>3, LoopUnfolds
  <1>5. Loop(p)[x - 1].status = "reading"
    BY <1>1, <1>4 DEF Turn
  <1>6. Loop(f)[x - 1] = Loop(p)[x - 1]
    BY <1>3, <1>5
  <1> QED BY <1>1, <1>4, <1>6, ExtensionTurn

-----------------------------------------------------------------------------
(***************************************************************************)
(* What is written is read.                                                *)
(***************************************************************************)
\* The values that a file has before its checksum.
Cell ==
  ({"u8", "u16", "u32"} \X Nat) \cup ({"i64"} \X Int)
    \cup ({"raw"} \X Text) \cup ({"magic"} \X {"KEVA"})

\* The file f has the values w from position i on.
Has(f, i, w) == \A j \in 1..Len(w) : i + j - 1 \in DOMAIN f /\ f[i + j - 1] = w[j]

LEMMA HasParts ==
  ASSUME NEW f, NEW i \in Nat, NEW v \in Seq(Cell), NEW w \in Seq(Cell), Has(f, i, v \o w)
  PROVE  Has(f, i, v) /\ Has(f, i + Len(v), w)
  <1>1. /\ Len(v \o w) = Len(v) + Len(w)
        /\ \A j \in 1..Len(v) : j \in 1..Len(v \o w) /\ (v \o w)[j] = v[j]
        /\ \A j \in 1..Len(w) : Len(v) + j \in 1..Len(v \o w) /\ (v \o w)[Len(v) + j] = w[j]
    OBVIOUS
  <1>2. Has(f, i, v)
    BY <1>1 DEF Has
  <1>3. ASSUME NEW j \in 1..Len(w)
        PROVE  i + Len(v) + j - 1 \in DOMAIN f /\ f[i + Len(v) + j - 1] = w[j]
    <2>1. i + (Len(v) + j) - 1 = i + Len(v) + j - 1
      OBVIOUS
    <2> QED BY <1>1, <2>1 DEF Has
  <1> QED BY <1>2, <1>3 DEF Has

LEMMA HasAppended ==
  ASSUME NEW p \in Seq(Cell), NEW w \in Seq(Cell)
  PROVE  Has(p \o w, Len(p) + 1, w) /\ Extension(p, p \o w)
  BY DEF Has, Extension

LEMMA HasSingle ==
  ASSUME NEW f, NEW i \in Nat, NEW x, Has(f, i, <<x>>)
  PROVE  i \in DOMAIN f /\ f[i] = x
  <1>1. i + 1 - 1 = i
    OBVIOUS
  <1> QED BY <1>1 DEF Has

LEMMA TwoCells ==
  ASSUME NEW x, NEW y
  PROVE  LET w == <<x>> \o <<y>>
         IN  Len(w) = 2 /\ w[1] = x /\ w[2] = y
  <1> DEFINE S == {x, y}
  <1>1. <<x>> \in Seq(S) /\ <<y>> \in Seq(S) /\ Len(<<x>>) = 1 /\ Len(<<y>>) = 1
    OBVIOUS
  <1>2. /\ Len(<<x>> \o <<y>>) = Len(<<x>>) + Len(<<y>>)
        /\ \A j \in 1..Len(<<x>>) + Len(<<y>>) :
             (<<x>> \o <<y>>)[j] = IF j <= Len(<<x>>) THEN <<x>>[j] ELSE <<y>>[j - Len(<<x>>)]
    BY <1>1, ConcatProperties
  <1>3. 1 \in 1..2 /\ 2 \in 1..2 /\ 2 - 1 = 1 /\ 1 + 1 = 2 /\ 1 <= 1 /\ ~ (2 <= 1)
    OBVIOUS
  <1> QED BY <1>1, <1>2, <1>3

LEMMA HasPair ==
  ASSUME NEW f, NEW i \in Nat, NEW x, NEW y, Has(f, i, <<x>> \o <<y>>)
  PROVE  i \in DOMAIN f /\ f[i] = x /\ i + 1 \in DOMAIN f /\ f[i + 1] = y
  <1> DEFINE w == <<x>> \o <<y>>
  <1>1. Len(w) = 2 /\ w[1] = x /\ w[2] = y
    BY TwoCells
  <1> HIDE DEF w
  <1>2. Has(f, i, w)
    BY DEF w
  <1>3. i + 1 - 1 = i /\ i + 2 - 1 = i + 1 /\ 1 \in 1..2 /\ 2 \in 1..2
    OBVIOUS
  <1> QED BY <1>1, <1>2, <1>3 DEF Has

\* The length of the text, in one value or two.
Prefix(s) ==
  IF Length[s] < 64 THEN u8(Length[s])
  ELSE IF Length[s] < 16384 THEN u8(128 + Length[s] \div 256) \o u8(Length[s] % 256)
  ELSE u8(192) \o u32(Length[s])

LEMMA StringCells ==
  ASSUME NEW s \in Text
  PROVE  /\ write_string(s) = Prefix(s) \o write_bytes(s)
         /\ Prefix(s) \in Seq(Cell) /\ Prefix(s) # << >>
         /\ write_bytes(s) \in Seq(Cell) /\ Len(write_bytes(s)) = IF s = EmptyText THEN 0 ELSE 1
         /\ write_string(s) \in Seq(Cell)
  <1>1. Length[s] \in Nat
    BY RdbAssumption
  <1>2. \A n \in Nat : u8(n) \in Seq(Cell) /\ Len(u8(n)) = 1
    BY DEF u8, Cell
  <1>3. u32(Length[s]) \in Seq(Cell) /\ Len(u32(Length[s])) = 1
    <2>1. Length[s] % (U32Max + 1) \in Nat
      BY <1>1, RdbAssumption
    <2> QED BY <2>1 DEF u32, Cell
  <1>4. write_bytes(s) \in Seq(Cell) /\ Len(write_bytes(s)) = IF s = EmptyText THEN 0 ELSE 1
    BY DEF write_bytes, Cell
  <1>5. Length[s] \div 256 \in Nat /\ Length[s] % 256 \in Nat
    BY <1>1
  <1>6. Prefix(s) \in Seq(Cell) /\ Len(Prefix(s)) > 0
    <2>2. 128 + Length[s] \div 256 \in Nat
      BY <1>5
    <2>3. CASE Length[s] < 64
      <3>1. Prefix(s) = u8(Length[s])
        BY <2>3 DEF Prefix
      <3> QED BY <1>1, <1>2, <3>1
    <2>4. CASE ~ (Length[s] < 64) /\ Length[s] < 16384
      <3>1. Prefix(s) = u8(128 + Length[s] \div 256) \o u8(Length[s] % 256)
        BY <2>4 DEF Prefix
      <3>2. u8(128 + Length[s] \div 256) \in Seq(Cell) /\ u8(Length[s] % 256) \in Seq(Cell)
        BY <1>2, <1>5, <2>2
      <3>3. Len(u8(128 + Length[s] \div 256)) = 1 /\ Len(u8(Length[s] % 256)) = 1
        BY <1>2, <1>5, <2>2
      <3> DEFINE v == u8(128 + Length[s] \div 256)
                 w == u8(Length[s] % 256)
      <3> HIDE DEF v, w
      <3>4. v \in Seq(Cell) /\ w \in Seq(Cell) /\ Len(v) = 1 /\ Len(w) = 1
        BY <3>2, <3>3 DEF v, w
      <3>5. v \o w \in Seq(Cell) /\ Len(v \o w) = 2
        BY <3>4
      <3> QED BY <3>1, <3>5 DEF v, w
    <2>5. CASE ~ (Length[s] < 64) /\ ~ (Length[s] < 16384)
      <3>1. Prefix(s) = u8(192) \o u32(Length[s])
        BY <2>5 DEF Prefix
      <3>2. u8(192) \in Seq(Cell) /\ Len(u8(192)) = 1
        BY <1>2
      <3>3. Len(Prefix(s)) = 1 + 1 /\ Prefix(s) \in Seq(Cell)
        BY <1>3, <3>1, <3>2, ConcatProperties
      <3> QED BY <3>3
    <2> QED BY <2>3, <2>4, <2>5
  <1>7. write_string(s) = Prefix(s) \o write_bytes(s)
    BY DEF write_string, Prefix
  <1> QED BY <1>4, <1>6, <1>7

\* The text behind its length.
LEMMA TextReads ==
  ASSUME NEW s \in Text, NEW f, NEW i \in Nat, Has(f, i, write_bytes(s))
  PROVE  ReadText(f, i, Length[s])
           = [ok |-> TRUE, text |-> s, next |-> i + Len(write_bytes(s))]
  <1>1. Length[s] = 0 <=> s = EmptyText
    BY RdbAssumption
  <1>2. CASE s = EmptyText
    <2>1. Len(write_bytes(s)) = 0
      BY <1>2 DEF write_bytes
    <2>2. i + Len(write_bytes(s)) = i
      BY <2>1
    <2> QED BY <1>1, <1>2, <2>2 DEF ReadText
  <1>3. CASE s # EmptyText
    <2>1. i \in DOMAIN f /\ f[i] = <<"raw", s>>
      BY <1>3, HasSingle DEF write_bytes
    <2>2. Len(write_bytes(s)) = 1
      BY <1>3 DEF write_bytes
    <2>3. <<"raw", s>>[1] = "raw" /\ <<"raw", s>>[2] = s
      OBVIOUS
    <2> QED BY <1>1, <1>3, <2>1, <2>2, <2>3 DEF ReadText, NextIs
  <1> QED BY <1>2, <1>3

\* Every length, in each of its forms, is read as it was written.
LEMMA StringReads ==
  ASSUME NEW s \in Text, NEW f, NEW i \in Nat, Has(f, i, write_string(s))
  PROVE  read_string(f, i)
           = [ok |-> TRUE, text |-> s, next |-> i + Len(write_string(s))]
  <1> DEFINE len == Length[s]
             at  == i + Len(Prefix(s))
  <1>1. len \in 0..U32Max /\ U32Max \in Nat
    BY RdbAssumption
  <1>2. Has(f, i, Prefix(s)) /\ Has(f, at, write_bytes(s)) /\ at \in Nat
    <2> DEFINE v == Prefix(s)
               w == write_bytes(s)
    <2>1. v \in Seq(Cell) /\ w \in Seq(Cell) /\ write_string(s) = v \o w
      BY StringCells
    <2> HIDE DEF v, w
    <2>2. Has(f, i, v) /\ Has(f, i + Len(v), w)
      BY <2>1, HasParts
    <2>3. i + Len(v) \in Nat
      BY <2>1
    <2> QED BY <2>2, <2>3 DEF v, w
  <1>3. ReadText(f, at, len) = [ok |-> TRUE, text |-> s, next |-> at + Len(write_bytes(s))]
    BY <1>2, TextReads
  <1>4. at + Len(write_bytes(s)) = i + Len(write_string(s))
    <2>1. /\ Prefix(s) \in Seq(Cell) /\ write_bytes(s) \in Seq(Cell)
          /\ write_string(s) = Prefix(s) \o write_bytes(s)
      BY StringCells
    <2>2. Len(write_string(s)) = Len(Prefix(s)) + Len(write_bytes(s))
      BY <2>1, ConcatProperties
    <2> QED BY <2>1, <2>2
  <1>5. SUFFICES read_string(f, i) = ReadText(f, at, len)
    BY <1>3, <1>4
  <1>6. CASE len < 64
    <2>1. Prefix(s) = <<<<"u8", len>>>>
      BY <1>6 DEF Prefix, u8
    <2>2. i \in DOMAIN f /\ f[i] = <<"u8", len>> /\ at = i + 1
      BY <1>2, <2>1, HasSingle
    <2>3. len \div 64 = 0
      BY <1>1, <1>6
    <2> QED BY <2>2, <2>3 DEF read_string, NextIs
  <1>7. CASE ~ (len < 64) /\ len < 16384
    <2> DEFINE first == 128 + len \div 256
               second == len % 256
    <2>1. Prefix(s) = u8(first) \o u8(second) /\ first \in Nat /\ second \in Nat
      BY <1>1, <1>7 DEF Prefix
    <2>2. Prefix(s) = <<<<"u8", first>>>> \o <<<<"u8", second>>>>
      BY <2>1 DEF u8
    <2>3. /\ i \in DOMAIN f /\ f[i] = <<"u8", first>>
          /\ i + 1 \in DOMAIN f /\ f[i + 1] = <<"u8", second>>
          /\ at = i + 2
      BY <1>2, <2>2, HasPair, TwoCells
    <2>4. first \div 64 = 2 /\ first % 64 = len \div 256
      <3>1. len \div 256 \in 0..63
        BY <1>1, <1>7
      <3>2. \A q \in 0..63 : (128 + q) \div 64 = 2 /\ (128 + q) % 64 = q
        OBVIOUS
      <3> QED BY <3>1, <3>2
    <2>5. (len \div 256) * 256 + (len % 256) = len
      <3>1. \A n \in Nat : (n \div 256) * 256 + (n % 256) = n
        <4> TAKE n \in Nat
        <4> DEFINE q == n \div 256
                   r == n % 256
        <4>1. q \in Int /\ r \in 0..255 /\ n = 256 * q + r
          OBVIOUS
        <4> HIDE DEF q, r
        <4>2. q * 256 + r = n
          BY <4>1
        <4> QED BY <4>2 DEF q, r
      <3> QED BY <1>1, <3>1
    <2>6. (first % 64) * 256 + second = len
      BY <2>4, <2>5
    <2>7. first \div 64 # 0
      BY <2>4
    <2> HIDE DEF first, second, len, at
    <2>8. NextIs(f, i, "u8") /\ f[i][2] = first /\ NextIs(f, i + 1, "u8") /\ f[i + 1][2] = second
      BY <2>3 DEF NextIs
    <2>9. read_string(f, i) = ReadText(f, i + 2, (first % 64) * 256 + second)
      BY <2>4, <2>7, <2>8 DEF read_string
    <2> QED BY <2>3, <2>6, <2>9
  <1>8. CASE ~ (len < 64) /\ ~ (len < 16384)
    <2>1. len % (U32Max + 1) = len
      BY <1>1
    <2>2. Prefix(s) = <<<<"u8", 192>>>> \o <<<<"u32", len>>>>
      BY <1>8, <2>1 DEF Prefix, u8, u32
    <2>3. /\ i \in DOMAIN f /\ f[i] = <<"u8", 192>>
          /\ i + 1 \in DOMAIN f /\ f[i + 1] = <<"u32", len>>
          /\ at = i + 2
      BY <1>2, <2>2, HasPair, TwoCells
    <2>4. 192 \div 64 = 3
      OBVIOUS
    <2> QED BY <2>3, <2>4 DEF read_string, NextIs
  <1> QED BY <1>6, <1>7, <1>8

\* What loading a key makes of the database d.
Loaded(d, k, v, at) ==
  IF at # -1 THEN set_expire(set(d, k, v), k, at) ELSE set(d, k, v)

\* The type, the key and the value.
LEMMA TypedReads ==
  ASSUME NEW k \in Text, NEW v \in Text, create_string(v) = v,
         NEW f, NEW j \in Nat, NEW pending, NEW d,
         Has(f, j, u8(RDB_TYPE_STRING) \o write_string(k) \o write_string(v))
  PROVE  LoadTyped(f, j, pending, d)
           = LoopState("reading", j + 1 + Len(write_string(k)) + Len(write_string(v)), -1,
                       Loaded(d, k, v, pending))
  <1> DEFINE a == u8(RDB_TYPE_STRING)
             b == write_string(k)
             c == write_string(v)
  <1>1. a \in Seq(Cell) /\ Len(a) = 1 /\ a = <<<<"u8", 0>>>>
    BY DEF u8, RDB_TYPE_STRING, Cell
  <1>2. b \in Seq(Cell) /\ c \in Seq(Cell) /\ a \o b \in Seq(Cell)
    BY <1>1, StringCells
  <1>3. Len(a) \in Nat /\ Len(b) \in Nat /\ Len(c) \in Nat /\ Len(a \o b) = 1 + Len(b)
    BY <1>1, <1>2
  <1> HIDE DEF a, b, c
  <1>4. Has(f, j, (a \o b) \o c)
    BY DEF a, b, c
  <1>5. Has(f, j, a \o b) /\ Has(f, j + Len(a \o b), c)
    BY <1>2, <1>4, HasParts
  <1>6. Has(f, j, a) /\ Has(f, j + Len(a), b)
    BY <1>1, <1>2, <1>5, HasParts
  <1>7. j \in DOMAIN f /\ f[j] = <<"u8", 0>>
    BY <1>1, <1>6, HasSingle
  <1>8. read_string(f, j + 1) = [ok |-> TRUE, text |-> k, next |-> j + 1 + Len(b)]
    <2>1. Has(f, j + 1, b) /\ j + 1 \in Nat
      BY <1>1, <1>6
    <2> QED BY <2>1, StringReads DEF b
  <1>9. j + Len(a \o b) = j + 1 + Len(b) /\ j + 1 + Len(b) \in Nat
    BY <1>3
  <1>10. read_string(f, j + 1 + Len(b)) = [ok |-> TRUE, text |-> v, next |-> j + 1 + Len(b) + Len(c)]
    BY <1>5, <1>9, StringReads DEF c
  <1>11. LoadString(f, j, pending, d)
           = LoopState("reading", j + 1 + Len(b) + Len(c), -1, Loaded(d, k, v, pending))
    BY <1>8, <1>10 DEF LoadString, Loaded, AfterKey
  <1>12. LoadTyped(f, j, pending, d) = LoadString(f, j, pending, d)
    BY <1>7 DEF LoadTyped, NextIs, RDB_TYPE_STRING
  <1> QED BY <1>11, <1>12 DEF b, c

\* The deadline of an entry, or -1.
Deadline(ttl, t) == IF ttl >= 0 THEN Wrap(t + ttl) ELSE -1

DeadlineCells(ttl, t) ==
  IF ttl >= 0 THEN u8(RDB_OPCODE_EXPIRE) \o <<<<"i64", Wrap(t + ttl)>>>> ELSE << >>

LEMMA WrapInt ==
  ASSUME NEW n \in Int
  PROVE  Wrap(n) \in i64 /\ (n \in i64 => Wrap(n) = n)
  BY IntAssumption DEF Wrap, i64, IntMin

LEMMA ConcatCells ==
  ASSUME NEW x \in Seq(Cell), NEW y \in Seq(Cell)
  PROVE  /\ x \o y \in Seq(Cell) /\ Len(x \o y) = Len(x) + Len(y)
         /\ Len(x) \in Nat /\ Len(y) \in Nat
  OBVIOUS

LEMMA EntryCells ==
  ASSUME NEW k \in Text, NEW v \in Text, NEW ttl \in Int, NEW t \in Int
  PROVE  LET w == u8(RDB_TYPE_STRING) \o write_string(k) \o write_string(v)
         IN  /\ DeadlineCells(ttl, t) \in Seq(Cell)
             /\ Len(DeadlineCells(ttl, t)) = IF ttl >= 0 THEN 2 ELSE 0
             /\ w \in Seq(Cell)
             /\ Len(w) = 1 + Len(write_string(k)) + Len(write_string(v))
             /\ Len(write_string(k)) \in Nat /\ Len(write_string(v)) \in Nat
             /\ EntryOf(k, v, ttl, t) = DeadlineCells(ttl, t) \o w
             /\ EntryOf(k, v, ttl, t) \in Seq(Cell)
             /\ Len(EntryOf(k, v, ttl, t)) = Len(DeadlineCells(ttl, t)) + Len(w)
  <1> DEFINE h == DeadlineCells(ttl, t)
             a == u8(RDB_TYPE_STRING)
             b == write_string(k)
             c == write_string(v)
             e == EntryOf(k, v, ttl, t)
  <1>1. Wrap(t + ttl) \in Int
    BY WrapInt DEF i64, IntMin
  <1>2. h \in Seq(Cell) /\ Len(h) = IF ttl >= 0 THEN 2 ELSE 0
    <2>1. CASE ttl >= 0
      <3> DEFINE x == u8(RDB_OPCODE_EXPIRE)
                 y == <<<<"i64", Wrap(t + ttl)>>>>
      <3>1. x \in Seq(Cell) /\ Len(x) = 1
        BY DEF u8, RDB_OPCODE_EXPIRE, Cell
      <3>2. y \in Seq(Cell) /\ Len(y) = 1
        BY <1>1 DEF Cell
      <3>3. h = x \o y
        BY <2>1 DEF DeadlineCells
      <3> HIDE DEF x, y, h
      <3>4. h \in Seq(Cell) /\ Len(h) = 1 + 1
        BY <3>1, <3>2, <3>3, ConcatCells
      <3> QED BY <2>1, <3>4
    <2>2. CASE ~ (ttl >= 0)
      BY <2>2 DEF DeadlineCells
    <2> QED BY <2>1, <2>2
  <1>3. a \in Seq(Cell) /\ Len(a) = 1
    BY DEF u8, RDB_TYPE_STRING, Cell
  <1>4. b \in Seq(Cell) /\ c \in Seq(Cell)
    BY StringCells
  <1>5. e = h \o ((a \o b) \o c)
    BY DEF EntryOf, DeadlineCells
  <1> HIDE DEF h, a, b, c, e
  <1>6. a \o b \in Seq(Cell) /\ Len(a \o b) = Len(a) + Len(b) /\ Len(b) \in Nat
    BY <1>3, <1>4, ConcatCells
  <1>7. /\ (a \o b) \o c \in Seq(Cell) /\ Len((a \o b) \o c) = Len(a \o b) + Len(c)
        /\ Len(c) \in Nat
    BY <1>4, <1>6, ConcatCells
  <1>8. e \in Seq(Cell) /\ Len(e) = Len(h) + Len((a \o b) \o c)
    BY <1>2, <1>5, <1>7, ConcatCells
  <1> QED BY <1>2, <1>3, <1>5, <1>6, <1>7, <1>8 DEF h, a, b, c, e

\* An entry is read in one turn.
LEMMA EntryReads ==
  ASSUME NEW k \in Text, NEW v \in Text, create_string(v) = v, NEW ttl \in Int, NEW t \in Int,
         NEW f, NEW i \in Nat, NEW d, Has(f, i, EntryOf(k, v, ttl, t))
  PROVE  ReadTurn(f, i, -1, d)
           = LoopState("reading", i + Len(EntryOf(k, v, ttl, t)), -1,
                       Loaded(d, k, v, Deadline(ttl, t)))
  <1> DEFINE h == DeadlineCells(ttl, t)
             w == u8(RDB_TYPE_STRING) \o write_string(k) \o write_string(v)
             e == EntryOf(k, v, ttl, t)
             n == Len(write_string(k))
             m == Len(write_string(v))
  <1>1. /\ h \in Seq(Cell) /\ w \in Seq(Cell) /\ e = h \o w
        /\ Len(h) = IF ttl >= 0 THEN 2 ELSE 0
        /\ Len(w) = 1 + n + m /\ n \in Nat /\ m \in Nat
        /\ Len(e) = Len(h) + Len(w)
    BY EntryCells
  <1>2. Has(f, i, h) /\ Has(f, i + Len(h), w)
    <2> HIDE DEF h, w, e
    <2>1. Has(f, i, h \o w)
      BY <1>1 DEF e
    <2> QED BY <1>1, <2>1, HasParts
  <1>3. ASSUME NEW j \in Nat, NEW pending, Has(f, j, w)
        PROVE  LoadTyped(f, j, pending, d)
                 = LoopState("reading", j + 1 + n + m, -1, Loaded(d, k, v, pending))
    BY <1>3, TypedReads
  <1>4. ASSUME Has(f, i, w)
        PROVE  i \in DOMAIN f /\ f[i] = <<"u8", 0>>
    <2> DEFINE a == u8(RDB_TYPE_STRING) \o write_string(k)
               c == write_string(v)
    <2>1. u8(RDB_TYPE_STRING) \in Seq(Cell) /\ write_string(k) \in Seq(Cell) /\ c \in Seq(Cell)
      BY StringCells DEF u8, RDB_TYPE_STRING, Cell
    <2>2. a \in Seq(Cell)
      BY <2>1
    <2>3. Has(f, i, a \o c)
      BY <1>4
    <2>4. Has(f, i, a)
      BY <2>1, <2>2, <2>3, HasParts
    <2>5. Has(f, i, u8(RDB_TYPE_STRING))
      BY <2>1, <2>4, HasParts
    <2> QED BY <2>5, HasSingle DEF u8, RDB_TYPE_STRING
  <1> HIDE DEF h, w, e, n, m
  <1>5. CASE ttl >= 0
    <2>1. h = <<<<"u8", 252>>>> \o <<<<"i64", Wrap(t + ttl)>>>>
      BY <1>5 DEF h, DeadlineCells, u8, RDB_OPCODE_EXPIRE
    <2>2. /\ i \in DOMAIN f /\ f[i] = <<"u8", 252>>
          /\ i + 1 \in DOMAIN f /\ f[i + 1] = <<"i64", Wrap(t + ttl)>>
      <3> DEFINE x == <<"u8", 252>>
                 y == <<"i64", Wrap(t + ttl)>>
      <3> HIDE DEF x, y
      <3>1. Has(f, i, <<x>> \o <<y>>)
        BY <1>2, <2>1 DEF x, y
      <3>2. i \in DOMAIN f /\ f[i] = x /\ i + 1 \in DOMAIN f /\ f[i + 1] = y
        BY <3>1, HasPair
      <3> QED BY <3>2 DEF x, y
    <2>3. ReadTurn(f, i, -1, d) = LoadTyped(f, i + 2, Wrap(t + ttl), d)
      BY <2>2 DEF ReadTurn, NextIs, RDB_OPCODE_EOF, RDB_OPCODE_DB, RDB_OPCODE_EXPIRE
    <2>4. i + Len(h) = i + 2 /\ i + 2 \in Nat /\ i + 2 + 1 + n + m = i + Len(e)
      BY <1>1, <1>5
    <2>5. LoadTyped(f, i + 2, Wrap(t + ttl), d)
            = LoopState("reading", i + 2 + 1 + n + m, -1, Loaded(d, k, v, Wrap(t + ttl)))
      BY <1>2, <1>3, <2>4
    <2>6. Deadline(ttl, t) = Wrap(t + ttl)
      BY <1>5 DEF Deadline
    <2> QED BY <2>3, <2>4, <2>5, <2>6 DEF e
  <1>6. CASE ~ (ttl >= 0)
    <2>1. i + Len(h) = i /\ i + 1 + n + m = i + Len(e)
      BY <1>1, <1>6
    <2>2. Has(f, i, w)
      BY <1>2, <2>1
    <2>3. i \in DOMAIN f /\ f[i] = <<"u8", 0>>
      BY <1>4, <2>2
    <2>4. ReadTurn(f, i, -1, d) = LoadTyped(f, i, -1, d)
      BY <2>3 DEF ReadTurn, NextIs, RDB_OPCODE_EOF, RDB_OPCODE_DB, RDB_OPCODE_EXPIRE
    <2>5. LoadTyped(f, i, -1, d)
            = LoopState("reading", i + 1 + n + m, -1, Loaded(d, k, v, -1))
      BY <1>3, <2>2
    <2>6. Deadline(ttl, t) = -1
      BY <1>6 DEF Deadline
    <2> QED BY <2>1, <2>4, <2>5, <2>6 DEF e
  <1> QED BY <1>5, <1>6

-----------------------------------------------------------------------------
(***************************************************************************)
(* A file in the making: reading comes to its end, with the database d.    *)
(***************************************************************************)
HeaderOK(f) ==
  /\ NextIs(f, 1, "magic") /\ f[1][2] = "KEVA"
  /\ NextIs(f, 2, "u16") /\ f[2][2] <= RDB_VERSION

ReadsTo(p, d) ==
  /\ p \in Seq(Cell) /\ HeaderOK(p)
  /\ \E n \in 0..Len(p) : Loop(p)[n] = LoopState("reading", Len(p) + 1, -1, d)

LEMMA HeaderExtension ==
  ASSUME NEW p, NEW f, Extension(p, f), HeaderOK(p)
  PROVE  HeaderOK(f)
  BY ExtensionNextIs DEF HeaderOK

LEMMA OneMore ==
  ASSUME NEW x \in Seq(Cell), NEW y \in Seq(Cell), Len(y) = 1
  PROVE  /\ x \o y \in Seq(Cell) /\ Len(x \o y) = Len(x) + 1
         /\ DOMAIN (x \o y) = 1..Len(x) + 1
         /\ \A i \in 1..Len(x) : (x \o y)[i] = x[i]
         /\ (x \o y)[Len(x) + 1] = y[1]
  <1>1. /\ x \o y \in Seq(Cell) /\ Len(x \o y) = Len(x) + Len(y)
        /\ \A i \in 1..Len(x) + Len(y) :
             (x \o y)[i] = IF i <= Len(x) THEN x[i] ELSE y[i - Len(x)]
    BY ConcatProperties
  <1>2. Len(x) \in Nat /\ Len(x) + 1 \in 1..Len(x) + Len(y)
    OBVIOUS
  <1>3. ~ (Len(x) + 1 <= Len(x)) /\ Len(x) + 1 - Len(x) = 1
    BY <1>2
  <1>4. (x \o y)[Len(x) + 1] = y[1]
    BY <1>1, <1>2, <1>3
  <1>5. \A i \in 1..Len(x) : (x \o y)[i] = x[i]
    BY <1>1, <1>2
  <1>6. DOMAIN (x \o y) = 1..Len(x \o y)
    BY <1>1
  <1> QED BY <1>1, <1>4, <1>5, <1>6

LEMMA HeaderCells ==
  /\ Header \in Seq(Cell) /\ Len(Header) = 4 /\ DOMAIN Header = 1..4
  /\ Header[1] = <<"magic", "KEVA">> /\ Header[2] = <<"u16", 1>>
  /\ Header[3] = <<"u8", 254>> /\ Header[4] = <<"u32", 0>>
  <1> DEFINE a == <<<<"magic", "KEVA">>, <<"u16", RDB_VERSION>>>>
             b == u8(RDB_OPCODE_DB)
             c == u32(0)
  <1>1. a \in Seq(Cell) /\ Len(a) = 2 /\ a[1] = <<"magic", "KEVA">> /\ a[2] = <<"u16", 1>>
    BY DEF Cell, RDB_VERSION
  <1>2. b \in Seq(Cell) /\ Len(b) = 1 /\ b[1] = <<"u8", 254>>
    BY DEF Cell, u8, RDB_OPCODE_DB
  <1>3. c \in Seq(Cell) /\ Len(c) = 1 /\ c[1] = <<"u32", 0>>
    <2>1. 0 % (U32Max + 1) = 0
      BY RdbAssumption
    <2> QED BY <2>1 DEF Cell, u32
  <1>4. Header = (a \o b) \o c
    BY DEF Header
  <1> HIDE DEF a, b, c
  <1> DEFINE ab == a \o b
  <1>5. /\ ab \in Seq(Cell) /\ Len(ab) = 3
        /\ ab[1] = <<"magic", "KEVA">> /\ ab[2] = <<"u16", 1>> /\ ab[3] = <<"u8", 254>>
    <2>1. /\ ab \in Seq(Cell) /\ Len(ab) = Len(a) + 1
          /\ \A i \in 1..Len(a) : ab[i] = a[i]
          /\ ab[Len(a) + 1] = b[1]
      BY <1>1, <1>2, OneMore
    <2> QED BY <1>1, <1>2, <2>1
  <1> HIDE DEF ab
  <1>6. Header = ab \o c
    BY <1>4 DEF ab
  <1>7. /\ ab \o c \in Seq(Cell) /\ Len(ab \o c) = Len(ab) + 1
        /\ DOMAIN (ab \o c) = 1..Len(ab) + 1
        /\ \A i \in 1..Len(ab) : (ab \o c)[i] = ab[i]
        /\ (ab \o c)[Len(ab) + 1] = c[1]
    BY <1>3, <1>5, OneMore
  <1> QED BY <1>3, <1>5, <1>6, <1>7

LEMMA HeaderReads == ReadsTo(Header, EmptyDb)
  <1>1. HeaderOK(Header)
    BY HeaderCells DEF HeaderOK, NextIs, RDB_VERSION
  <1>2. Loop(Header)[1] = Turn(Header, LoopStart)
    <2>1. Len(Header) \in Nat /\ 1 \in 1..Len(Header) /\ 1 - 1 = 0
      BY HeaderCells
    <2> QED BY <2>1, LoopUnfolds
  <1>3. Turn(Header, LoopStart) = ReadTurn(Header, 3, -1, EmptyDb)
    BY LoopStateFields DEF Turn, LoopStart
  <1>4. NextIs(Header, 3, "u8") /\ Header[3][2] = 254 /\ NextIs(Header, 3 + 1, "u32")
    BY HeaderCells DEF NextIs
  <1>5. ReadTurn(Header, 3, -1, EmptyDb) = LoopState("reading", 3 + 2, -1, EmptyDb)
    BY <1>4 DEF ReadTurn, RDB_OPCODE_EOF, RDB_OPCODE_DB
  <1>6. 3 + 2 = Len(Header) + 1 /\ 1 \in 0..Len(Header)
    BY HeaderCells
  <1> QED BY <1>1, <1>2, <1>3, <1>5, <1>6, HeaderCells DEF ReadsTo

\* One more entry.
LEMMA EntryAppended ==
  ASSUME NEW p, NEW d, ReadsTo(p, d), NEW k \in Text, NEW v \in Text, create_string(v) = v,
         NEW ttl \in Int, NEW t \in Int
  PROVE  ReadsTo(p \o EntryOf(k, v, ttl, t), Loaded(d, k, v, Deadline(ttl, t)))
  <1> DEFINE e == EntryOf(k, v, ttl, t)
             f == p \o e
  <1>1. p \in Seq(Cell) /\ HeaderOK(p)
    BY DEF ReadsTo
  <1>2. PICK n \in 0..Len(p) : Loop(p)[n] = LoopState("reading", Len(p) + 1, -1, d)
    BY DEF ReadsTo
  <1>3. e \in Seq(Cell) /\ Len(e) \in Nat /\ Len(e) > 0
    <2>1. /\ e \in Seq(Cell)
          /\ Len(e) = Len(DeadlineCells(ttl, t))
                      + Len(u8(RDB_TYPE_STRING) \o write_string(k) \o write_string(v))
          /\ Len(DeadlineCells(ttl, t)) = IF ttl >= 0 THEN 2 ELSE 0
          /\ Len(u8(RDB_TYPE_STRING) \o write_string(k) \o write_string(v))
               = 1 + Len(write_string(k)) + Len(write_string(v))
          /\ Len(write_string(k)) \in Nat /\ Len(write_string(v)) \in Nat
      BY EntryCells
    <2> QED BY <2>1
  <1> HIDE DEF e
  <1>4. /\ f \in Seq(Cell) /\ Len(f) = Len(p) + Len(e) /\ Len(p) \in Nat
        /\ Extension(p, f) /\ Has(f, Len(p) + 1, e)
    BY <1>1, <1>3, ConcatCells, HasAppended
  <1> HIDE DEF f
  <1>5. Loop(f)[n] = Loop(p)[n]
    BY <1>2, <1>3, <1>4, ExtensionLoop, LoopStateFields
  <1>6. Loop(f)[n + 1] = Turn(f, Loop(f)[n])
    <2>1. n + 1 \in 1..Len(f) /\ n + 1 - 1 = n /\ Len(f) \in Nat
      BY <1>2, <1>3, <1>4
    <2> QED BY <2>1, LoopUnfolds
  <1>7. Turn(f, Loop(f)[n]) = ReadTurn(f, Len(p) + 1, -1, d)
    BY <1>2, <1>5, LoopStateFields DEF Turn
  <1>8. ReadTurn(f, Len(p) + 1, -1, d)
          = LoopState("reading", Len(p) + 1 + Len(e), -1, Loaded(d, k, v, Deadline(ttl, t)))
    BY <1>4, EntryReads DEF e
  <1>9. Len(p) + 1 + Len(e) = Len(f) + 1 /\ n + 1 \in 0..Len(f)
    BY <1>2, <1>3, <1>4
  <1>10. HeaderOK(f)
    BY <1>1, <1>4, HeaderExtension
  <1>11. ReadsTo(f, Loaded(d, k, v, Deadline(ttl, t)))
    BY <1>4, <1>6, <1>7, <1>8, <1>9, <1>10 DEF ReadsTo
  <1> QED BY <1>11 DEF e, f

-----------------------------------------------------------------------------
(***************************************************************************)
(* A complete file, and a damaged one.                                     *)
(***************************************************************************)
LEMMA SealedCells ==
  ASSUME NEW p \in Seq(Cell)
  PROVE  LET f == Sealed(p)
             n == Len(p) + 1
         IN  /\ \E S : f \in Seq(S)
             /\ Len(f) = n + 1 /\ Len(p) \in Nat /\ DOMAIN f = 1..n + 1
             /\ Extension(p, f)
             /\ f[n] = <<"u8", 255>>
             /\ f[n + 1] = Checksum(SubSeq(f, 1, n))
             /\ \A i \in 1..n : f[i] \in Cell
  <1> DEFINE g == p \o u8(RDB_OPCODE_EOF)
             c == Checksum(g)
             f == Append(g, c)
             S == Cell \cup {c}
             n == Len(p) + 1
  <1>1. u8(RDB_OPCODE_EOF) \in Seq(Cell) /\ Len(u8(RDB_OPCODE_EOF)) = 1
          /\ u8(RDB_OPCODE_EOF)[1] = <<"u8", 255>>
    BY DEF u8, RDB_OPCODE_EOF, Cell
  <1>2. /\ g \in Seq(Cell) /\ Len(g) = Len(p) + 1
        /\ \A i \in 1..Len(p) : g[i] = p[i]
        /\ g[Len(p) + 1] = <<"u8", 255>>
    BY <1>1, OneMore
  <1>3. f = Sealed(p)
    BY DEF Sealed
  <1> HIDE DEF g, c
  <1>4. g \in Seq(S) /\ c \in S
    BY <1>2
  <1>5. Len(p) \in Nat /\ n \in Nat /\ n \in 1..n + 1
    OBVIOUS
  <1>6. /\ f \in Seq(S) /\ Len(f) = Len(g) + 1
        /\ \A i \in 1..Len(g) : f[i] = g[i]
        /\ f[Len(g) + 1] = c
    BY <1>4, AppendProperties
  <1>7. DOMAIN f = 1..n + 1 /\ Len(f) = n + 1
    BY <1>2, <1>6
  <1> HIDE DEF f, S
  <1>8. Extension(p, f)
    BY <1>2, <1>5, <1>6, <1>7 DEF Extension
  <1>9. f[n] = <<"u8", 255>>
    BY <1>2, <1>5, <1>6
  <1>10. \A i \in 1..n : f[i] \in Cell
    BY <1>2, <1>6
  <1>11. SubSeq(f, 1, n) = g
    <2>1. SubSeq(f, 1, n) \in Seq(S) /\ Len(SubSeq(f, 1, n)) = n
      BY <1>5, <1>6, <1>7
    <2>2. \A i \in 1..n : SubSeq(f, 1, n)[i] = f[i]
      BY <1>5, <1>6, <1>7
    <2> QED BY <1>2, <1>4, <1>6, <2>1, <2>2, SeqEqual
  <1>12. f[n + 1] = Checksum(SubSeq(f, 1, n))
    BY <1>2, <1>6, <1>11 DEF c
  <1> QED BY <1>3, <1>5, <1>6, <1>7, <1>8, <1>9, <1>10, <1>12

\* A snapshot that was written to its end loads.
LEMMA SealedLoads ==
  ASSUME NEW p, NEW d, ReadsTo(p, d)
  PROVE  rdb_load(Sealed(p)) = [ok |-> TRUE, db |-> d] /\ Sealed(p) # << >>
  <1> DEFINE f == Sealed(p)
             m == Len(p) + 1
  <1>1. p \in Seq(Cell) /\ HeaderOK(p)
    BY DEF ReadsTo
  <1>2. PICK n \in 0..Len(p) : Loop(p)[n] = LoopState("reading", Len(p) + 1, -1, d)
    BY DEF ReadsTo
  <1>3. /\ Len(f) = m + 1 /\ Len(p) \in Nat /\ DOMAIN f = 1..m + 1
        /\ Extension(p, f) /\ f[m] = <<"u8", 255>>
        /\ f[m + 1] = Checksum(SubSeq(f, 1, m))
    BY <1>1, SealedCells
  <1> HIDE DEF f
  <1>4. Loop(f)[n] = Loop(p)[n]
    BY <1>2, <1>3, ExtensionLoop, LoopStateFields
  <1>5. Loop(f)[n + 1] = Turn(f, Loop(f)[n])
    <2>1. n + 1 \in 1..Len(f) /\ n + 1 - 1 = n /\ Len(f) \in Nat
      BY <1>2, <1>3
    <2> QED BY <2>1, LoopUnfolds
  <1>6. Turn(f, Loop(f)[n]) = ReadTurn(f, m, -1, d)
    BY <1>2, <1>4, LoopStateFields DEF Turn
  <1>7. NextIs(f, m, "u8") /\ f[m][2] = 255
    BY <1>3 DEF NextIs
  <1>8. verify_crc64(f, m + 1)
    <2>1. m + 1 - 1 = m /\ m + 1 \in 1..m + 1
      BY <1>3
    <2> QED BY <1>3, <2>1 DEF verify_crc64, NextIs, Checksum
  <1>9. ReadTurn(f, m, -1, d) = LoopState("ok", m + 2, -1, d)
    BY <1>7, <1>8 DEF ReadTurn, RDB_OPCODE_EOF
  <1>10. Loop(f)[Len(f)] = LoopState("ok", m + 2, -1, d)
    <2>1. n + 1 \in 0..Len(f) /\ Len(f) \in Nat
      BY <1>2, <1>3
    <2>2. Loop(f)[n + 1].status # "reading"
      BY <1>5, <1>6, <1>9, LoopStateFields
    <2> QED BY <1>5, <1>6, <1>9, <2>1, <2>2, LoopStays
  <1>11. HeaderOK(f)
    BY <1>1, <1>3, HeaderExtension
  <1>12. Loop(f)[Len(f)].status = "ok" /\ Loop(f)[Len(f)].db = d
    BY <1>10, LoopStateFields
  <1>13. rdb_load(f) = [ok |-> TRUE, db |-> d]
    BY <1>11, <1>12 DEF rdb_load, HeaderOK
  <1>14. f # << >>
    BY <1>3
  <1> QED BY <1>13, <1>14 DEF f

\* Nothing loads without a checksum that is right.
LEMMA LoadNeedsChecksum ==
  ASSUME NEW f, Len(f) \in Nat, rdb_load(f).ok
  PROVE  \E j \in Nat : verify_crc64(f, j)
  <1> DEFINE C == \E j \in Nat : verify_crc64(f, j)
             T == {m \in 0..Len(f) : Loop(f)[m].status = "ok"}
  <1> SUFFICES ASSUME ~ C PROVE FALSE
    OBVIOUS
  <1>1. Loop(f)[Len(f)].status = "ok"
    BY DEF rdb_load
  <1>2. T \in SUBSET Nat /\ T # {}
    BY <1>1
  <1> HIDE DEF C
  <1>3. PICK x \in T : \A y \in T : x <= y
    BY <1>2, LeastElement
  <1>4. x # 0
    BY <1>3, LoopUnfolds, LoopStateFields DEF LoopStart
  <1>5. x \in 1..Len(f) /\ x - 1 \in 0..Len(f) /\ x - 1 \notin T
    BY <1>3, <1>4
  <1> DEFINE s == Loop(f)[x - 1]
  <1>6. Loop(f)[x] = Turn(f, s) /\ Turn(f, s).status = "ok"
    BY <1>3, <1>5, LoopUnfolds
  <1>7. IsLoop(s) /\ s.status # "ok"
    BY <1>5, LoopMoves
  <1> HIDE DEF s
  <1>8. Turn(f, s) = ReadTurn(f, s.at, s.pending, s.db)
    BY <1>6, <1>7 DEF Turn
  <1>9. \A j, pending, d : LoadTyped(f, j, pending, d).status # "ok"
    BY LoopStateFields, IOErrorFields DEF LoadTyped, LoadString
  <1>10. verify_crc64(f, s.at + 1)
    BY <1>6, <1>8, <1>9, LoopStateFields, IOErrorFields DEF ReadTurn
  <1>11. s.at + 1 \in Nat
    BY <1>7 DEF IsLoop
  <1> QED BY <1>10, <1>11 DEF C

LEMMA CellsAreNoChecksums ==
  ASSUME NEW c \in Cell
  PROVE  c[1] # "crc"
  BY DEF Cell

\* The last value of a complete file is its only checksum.
LEMMA SealedChecksum ==
  ASSUME NEW p \in Seq(Cell), NEW i \in DOMAIN Sealed(p), Sealed(p)[i][1] = "crc"
  PROVE  i = Len(p) + 2
  <1>1. /\ DOMAIN Sealed(p) = 1..Len(p) + 1 + 1 /\ Len(p) \in Nat
        /\ \A j \in 1..Len(p) + 1 : Sealed(p)[j] \in Cell
    BY SealedCells
  <1>2. i \notin 1..Len(p) + 1
    BY <1>1, CellsAreNoChecksums
  <1> QED BY <1>1, <1>2

\* A file without its end does not load.
LEMMA CutFails ==
  ASSUME NEW p \in Seq(Cell), NEW n \in 1..Len(Sealed(p)) - 1
  PROVE  ~ rdb_load(SubSeq(Sealed(p), 1, n)).ok /\ SubSeq(Sealed(p), 1, n) # << >>
  <1> DEFINE f == Sealed(p)
             g == SubSeq(f, 1, n)
  <1>1. /\ DOMAIN f = 1..Len(p) + 1 + 1 /\ Len(p) \in Nat /\ Len(f) = Len(p) + 1 + 1
    BY SealedCells
  <1>2. PICK S : f \in Seq(S)
    BY SealedCells
  <1> HIDE DEF f
  <1>3. n \in Nat /\ n < Len(p) + 2 /\ n \in 1..Len(f)
    BY <1>1 DEF f
  <1>4. g \in Seq(S) /\ Len(g) = n /\ \A i \in 1..n : g[i] = f[i]
    BY <1>2, <1>3
  <1>5. DOMAIN g = 1..n
    BY <1>4
  <1> HIDE DEF g
  <1>6. g # << >>
    BY <1>3, <1>4
  <1>7. ASSUME rdb_load(g).ok PROVE FALSE
    <2>1. PICK j \in Nat : verify_crc64(g, j)
      BY <1>3, <1>4, <1>7, LoadNeedsChecksum
    <2>2. j \in 1..n /\ g[j][1] = "crc"
      BY <1>5, <2>1 DEF verify_crc64, NextIs
    <2>3. j \in DOMAIN f /\ f[j][1] = "crc"
      BY <1>1, <1>3, <1>4, <2>2
    <2>4. j = Len(p) + 2
      BY <2>3, SealedChecksum DEF f
    <2> QED BY <1>3, <2>2, <2>4
  <1> QED BY <1>6, <1>7 DEF f, g

\* A file in which one value has changed does not load.
LEMMA ChangeFails ==
  ASSUME NEW p \in Seq(Cell), NEW i \in DOMAIN Sealed(p), NEW x,
         x[1] = Sealed(p)[i][1], x[2] # Sealed(p)[i][2]
  PROVE  /\ ~ rdb_load([Sealed(p) EXCEPT ![i] = x]).ok
         /\ [Sealed(p) EXCEPT ![i] = x] # << >>
  <1> DEFINE f == Sealed(p)
             m == Len(p) + 1
             g == [f EXCEPT ![i] = x]
  <1>1. /\ DOMAIN f = 1..m + 1 /\ Len(p) \in Nat /\ Len(f) = m + 1
        /\ f[m + 1] = Checksum(SubSeq(f, 1, m))
    BY SealedCells
  <1>2. PICK S : f \in Seq(S)
    BY SealedCells
  <1>3. x[1] = f[i][1] /\ x[2] # f[i][2] /\ i \in 1..m + 1
    BY <1>1
  <1> HIDE DEF f
  <1> DEFINE R == S \cup {x}
  <1>4. f \in Seq(R) /\ x \in R
    BY <1>2
  <1>5. g \in Seq(R) /\ Len(g) = m + 1 /\ DOMAIN g = 1..m + 1
    BY <1>1, <1>3, <1>4
  <1>6. g[i] = x /\ \A j \in 1..m + 1 : j # i => g[j] = f[j]
    BY <1>1, <1>3
  <1> HIDE DEF g, R
  <1>7. g # << >>
    BY <1>1, <1>5
  <1>8. ASSUME rdb_load(g).ok PROVE FALSE
    <2>0. Len(g) \in Nat
      BY <1>1, <1>5
    <2>1. PICK j \in Nat : verify_crc64(g, j)
      BY <1>8, <2>0, LoadNeedsChecksum
    <2>2. j \in 1..m + 1 /\ g[j][1] = "crc" /\ g[j] = Checksum(SubSeq(g, 1, j - 1))
      BY <1>5, <2>1 DEF verify_crc64, NextIs
    <2>3. f[j][1] = "crc"
      BY <1>3, <1>6, <2>2
    <2>4. j = m + 1
      <3>1. j = Len(p) + 2
        BY <1>1, <2>2, <2>3, SealedChecksum DEF f
      <3> QED BY <1>1, <3>1
    <2>5. j - 1 = m /\ m \in Nat
      BY <1>1, <2>4
    <2>6. g[m + 1][2] = SubSeq(g, 1, m) /\ f[m + 1][2] = SubSeq(f, 1, m)
      BY <1>1, <2>2, <2>4, <2>5 DEF Checksum
    <2>7. \A k \in 1..m : SubSeq(g, 1, m)[k] = g[k] /\ SubSeq(f, 1, m)[k] = f[k]
      BY <1>1, <1>4, <1>5, <2>5
    <2>8. CASE i = m + 1
      <3>1. \A k \in 1..m : k \in 1..m + 1 /\ k # i
        BY <1>1, <2>8
      <3>2. \A k \in 1..m : g[k] = f[k]
        BY <1>6, <3>1
      <3>3. SubSeq(g, 1, m) = SubSeq(f, 1, m)
        <4>1. /\ SubSeq(g, 1, m) \in Seq(R) /\ SubSeq(f, 1, m) \in Seq(R)
              /\ Len(SubSeq(g, 1, m)) = m /\ Len(SubSeq(f, 1, m)) = m
          BY <1>1, <1>4, <1>5, <2>5
        <4>2. \A k \in 1..m : SubSeq(g, 1, m)[k] = SubSeq(f, 1, m)[k]
          BY <2>7, <3>2
        <4> QED BY <4>1, <4>2, SeqEqual
      <3> QED BY <1>3, <1>6, <2>6, <2>8, <3>3
    <2>9. CASE i # m + 1
      <3>1. i \in 1..m /\ m + 1 \in 1..m + 1
        BY <1>1, <1>3, <2>9
      <3>2. g[m + 1] = f[m + 1]
        BY <1>6, <2>9, <3>1
      <3>3. SubSeq(g, 1, m) = SubSeq(f, 1, m)
        BY <2>6, <3>2
      <3>4. g[i] = f[i]
        BY <2>7, <3>1, <3>3
      <3> QED BY <1>3, <1>6, <3>4
    <2> QED BY <2>8, <2>9
  <1> QED BY <1>7, <1>8 DEF f, g

-----------------------------------------------------------------------------
(***************************************************************************)
(* The invariant.  Until there is a dump, the databases hold what          *)
(* create_string makes, and deadlines that are not negative.  The file of  *)
(* a save reads to a database that has the keys written so far, with       *)
(* deadlines late by no more than the time since the save began; a dump is *)
(* such a file with its end, or does not load.                             *)
(***************************************************************************)
DbGood(d) ==
  /\ DbType(d)
  /\ \A k \in DOMAIN d.keys : create_string(d.keys[k]) = d.keys[k]
  /\ \A k \in DOMAIN d.expires : d.expires[k] \in Nat

\* The database d is a copy of the keys done of the database e.
Copies(d, e, done, late) ==
  /\ d = [keys |-> d.keys, expires |-> d.expires]
  /\ d.keys = [k \in done |-> e.keys[k]]
  /\ DOMAIN d.expires = done \cap DOMAIN e.expires
  /\ d.expires \in [DOMAIN d.expires -> i64]
  /\ \A k \in DOMAIN d.expires :
       e.expires[k] + late <= IntMax => d.expires[k] \in e.expires[k]..e.expires[k] + late

\* A time to live that was read since start, to be used at t.
TtlGood(e, start, k, ttl, t) ==
  IF k \notin DOMAIN e.expires THEN ttl = -1
  ELSE ttl \in 0..IntMax /\ t + ttl \in e.expires[k]..e.expires[k] + (t - start)

SaveState(pc, d, start, file, todo, key, ttl) ==
  [pc |-> pc, db |-> d, start |-> start, file |-> file, todo |-> todo, key |-> key, ttl |-> ttl]

\* The keys that the save s has written.
Written(s) ==
  for_each(s.db, s.start) \ (s.todo \cup IF s.pc = "write" THEN {s.key} ELSE {})

SaverGood(s, t) ==
  /\ s = SaveState(s.pc, s.db, s.start, s.file, s.todo, s.key, s.ttl)
  /\ s.pc \in {"next", "write"}
  /\ DbGood(s.db) /\ s.start \in 0..t
  /\ s.todo \subseteq for_each(s.db, s.start)
  /\ s.pc = "write" => /\ s.key \in for_each(s.db, s.start) \ s.todo
                       /\ TtlGood(s.db, s.start, s.key, s.ttl, t)
  /\ \E d : ReadsTo(s.file, d) /\ Copies(d, s.db, Written(s), t - s.start)

OriginGood(o, f, t) ==
  /\ o = [pc |-> "done", db |-> o.db, start |-> o.start, end |-> o.end]
  /\ DbGood(o.db) /\ o.start \in 0..o.end /\ o.end \in 0..t
  /\ \E p, d : /\ f = Sealed(p) /\ ReadsTo(p, d)
               /\ Copies(d, o.db, for_each(o.db, o.start), o.end - o.start)

IInv ==
  /\ DbType(db) /\ now \in 0..MaxTime /\ writes \in 0..MaxWrites
  /\ dump = << >> => DbGood(db) /\ origin = Idle
  /\ saver # Idle => dump = << >> /\ SaverGood(saver, now)
  /\ origin # Idle => OriginGood(origin, dump, now)
  /\ dump # << >> /\ origin = Idle => ~ rdb_load(dump).ok

-----------------------------------------------------------------------------
(***************************************************************************)
(* What the steps of a save do to databases and times.                     *)
(***************************************************************************)
LEMMA CreateString ==
  ASSUME NEW s \in Text
  PROVE  create_string(s) \in Text /\ create_string(create_string(s)) = create_string(s)
  BY TextAssumption, IntAssumption DEF create_string

LEMMA EmptyGood == DbGood(EmptyDb)
  BY DEF DbGood, DbType, EmptyDb, EmptyMap

LEMMA SetGood ==
  ASSUME NEW d, DbGood(d), NEW k \in Key, NEW v \in Text, create_string(v) = v
  PROVE  DbGood(set(d, k, v))
  <1> DEFINE e == set(d, k, v)
  <1>1. e.keys = Write(d.keys, k, v) /\ e.expires = Erase(d.expires, k)
          /\ e = [keys |-> e.keys, expires |-> e.expires]
    BY DEF set
  <1> HIDE DEF e
  <1>2. DOMAIN e.keys = DOMAIN d.keys \cup {k} /\ DOMAIN e.expires = DOMAIN d.expires \ {k}
    BY <1>1 DEF Write, Erase
  <1>3. \A j \in DOMAIN e.keys : e.keys[j] = IF j = k THEN v ELSE d.keys[j]
    BY <1>1 DEF Write
  <1>4. \A j \in DOMAIN e.expires : j \in DOMAIN d.expires /\ e.expires[j] = d.expires[j]
    BY <1>1 DEF Erase
  <1>5. e.keys = [j \in DOMAIN e.keys |-> e.keys[j]] /\ e.expires = [j \in DOMAIN e.expires |-> e.expires[j]]
    BY <1>1 DEF Write, Erase
  <1>6. /\ DOMAIN d.keys \subseteq Key /\ \A j \in DOMAIN d.keys : d.keys[j] \in Text
        /\ DOMAIN d.expires \subseteq DOMAIN d.keys
        /\ \A j \in DOMAIN d.expires : d.expires[j] \in i64
    BY DEF DbGood, DbType
  <1>7. e.keys \in [DOMAIN e.keys -> Text]
    BY <1>2, <1>3, <1>5, <1>6
  <1>8. e.expires \in [DOMAIN e.expires -> i64]
    BY <1>4, <1>5, <1>6
  <1>9. DbType(e)
    BY <1>1, <1>2, <1>6, <1>7, <1>8 DEF DbType
  <1> QED BY <1>2, <1>3, <1>4, <1>9 DEF DbGood, e

LEMMA SetExpireGood ==
  ASSUME NEW d, DbGood(d), NEW k \in DOMAIN d.keys, NEW at \in i64 \cap Nat
  PROVE  DbGood(set_expire(d, k, at))
  <1> DEFINE e == set_expire(d, k, at)
  <1>1. e.keys = d.keys /\ e.expires = Write(d.expires, k, at)
          /\ e = [keys |-> e.keys, expires |-> e.expires]
    BY DEF set_expire
  <1> HIDE DEF e
  <1>2. DOMAIN e.expires = DOMAIN d.expires \cup {k}
    BY <1>1 DEF Write
  <1>3. \A j \in DOMAIN e.expires : e.expires[j] = IF j = k THEN at ELSE d.expires[j]
    BY <1>1 DEF Write
  <1>4. e.expires = [j \in DOMAIN e.expires |-> e.expires[j]]
    BY <1>1 DEF Write
  <1>5. DbType(d) /\ \A j \in DOMAIN d.expires : d.expires[j] \in i64
    BY DEF DbGood, DbType
  <1>6. e.expires \in [DOMAIN e.expires -> i64]
    BY <1>2, <1>3, <1>4, <1>5
  <1>7. DbType(e)
    BY <1>1, <1>2, <1>5, <1>6 DEF DbType
  <1> QED BY <1>1, <1>2, <1>3, <1>7 DEF DbGood, e

\* A time to live that has just been read.
LEMMA TtlRead ==
  ASSUME NEW e, DbGood(e), NEW t \in 0..MaxTime, NEW start \in 0..t, NEW k \in for_each(e, start)
  PROVE  TtlGood(e, start, k, pttl(e, k, t), t)
  <1>1. k \in DOMAIN e.keys /\ ~ is_expired(e, k, start)
    BY DEF for_each
  <1>2. CASE k \notin DOMAIN e.expires
    BY <1>1, <1>2 DEF pttl, TtlGood
  <1>3. CASE k \in DOMAIN e.expires
    <2> DEFINE at == e.expires[k]
    <2>1. at \in Nat /\ at \in i64 /\ start < at
      BY <1>1, <1>3 DEF DbGood, DbType, is_expired, i64, IntMin
    <2> HIDE DEF at
    <2>2. t \in Nat /\ t <= IntMax /\ start \in Nat /\ start <= t /\ IntMax \in Nat
      BY RdbAssumption, IntAssumption
    <2>3. at <= IntMax
      BY <2>1 DEF i64
    <2>4. at - t \in i64
      BY <2>1, <2>2, <2>3 DEF i64, IntMin
    <2>5. Wrap(at - t) = at - t
      BY <2>1, <2>2, <2>4, WrapInt
    <2>6. pttl(e, k, t) = IF at - t > 0 THEN at - t ELSE 0
      BY <1>1, <1>3, <2>5 DEF pttl, at
    <2>7. pttl(e, k, t) \in 0..IntMax /\ t + pttl(e, k, t) \in at..at + (t - start)
      BY <2>1, <2>2, <2>3, <2>6
    <2> QED BY <1>3, <2>7 DEF TtlGood, at
  <1> QED BY <1>2, <1>3

\* The clock goes on while a save is under way.
LEMMA TtlLater ==
  ASSUME NEW e, DbGood(e), NEW t \in Nat, NEW start \in 0..t, NEW k, NEW ttl, TtlGood(e, start, k, ttl, t)
  PROVE  TtlGood(e, start, k, ttl, t + 1)
  <1>1. k \in DOMAIN e.expires => e.expires[k] \in Nat
    BY DEF DbGood
  <1> QED BY <1>1, IntAssumption DEF TtlGood

LEMMA CopiesLater ==
  ASSUME NEW d, NEW e, DbGood(e), NEW done, NEW late \in Nat, Copies(d, e, done, late)
  PROVE  Copies(d, e, done, late + 1)
  <1>1. \A k \in DOMAIN d.expires : e.expires[k] \in Nat /\ d.expires[k] \in i64
    BY DEF DbGood, Copies
  <1>2. \A k \in DOMAIN d.expires :
          e.expires[k] + (late + 1) <= IntMax => d.expires[k] \in e.expires[k]..e.expires[k] + (late + 1)
    BY <1>1, IntAssumption DEF Copies, i64, IntMin
  <1> QED BY <1>2 DEF Copies

\* One more key has been copied.
LEMMA CopiesMore ==
  ASSUME NEW d, NEW e, DbGood(e), NEW done, NEW t \in 0..MaxTime, NEW start \in 0..t,
         done \subseteq DOMAIN e.keys,
         Copies(d, e, done, t - start),
         NEW k \in DOMAIN e.keys, NEW ttl, TtlGood(e, start, k, ttl, t)
  PROVE  Copies(Loaded(d, k, e.keys[k], Deadline(ttl, t)), e, done \cup {k}, t - start)
  <1> DEFINE at   == Deadline(ttl, t)
             g    == Loaded(d, k, e.keys[k], at)
             late == t - start
  <1>1. t \in Nat /\ t <= IntMax /\ IntMax \in Nat /\ late \in Nat
    BY RdbAssumption, IntAssumption
  <1> HIDE DEF late
  <1>2. CASE k \notin DOMAIN e.expires
    <2>1. at = -1
      BY <1>2 DEF Deadline, TtlGood
    <2>2. g = set(d, k, e.keys[k])
      BY <2>1 DEF Loaded
    <2> HIDE DEF at, g
    <2>3. /\ g.keys = Write(d.keys, k, e.keys[k]) /\ g.expires = Erase(d.expires, k)
          /\ g = [keys |-> g.keys, expires |-> g.expires]
      BY <2>2 DEF set
    <2>4. k \notin DOMAIN d.expires /\ d.expires \in [DOMAIN d.expires -> i64]
      BY <1>2 DEF Copies
    <2>5. g.expires = d.expires
      BY <2>3, <2>4 DEF Erase
    <2>6. g.keys = [j \in done \cup {k} |-> e.keys[j]]
      BY <2>3 DEF Copies, Write
    <2>7. DOMAIN g.expires = (done \cup {k}) \cap DOMAIN e.expires
      BY <1>2, <2>5 DEF Copies
    <2>8. Copies(g, e, done \cup {k}, late)
      BY <2>3, <2>5, <2>6, <2>7 DEF Copies, late
    <2> QED BY <2>8 DEF g, at, late
  <1>3. CASE k \in DOMAIN e.expires
    <2>1. /\ ttl \in 0..IntMax /\ t + ttl \in e.expires[k]..e.expires[k] + late
          /\ e.expires[k] \in Nat
      BY <1>3 DEF TtlGood, late, DbGood
    <2>2. at = Wrap(t + ttl) /\ at \in i64
      BY <1>1, <2>1, WrapInt DEF Deadline
    <2>3. t + ttl <= IntMax => at = t + ttl
      <3>1. t + ttl <= IntMax => t + ttl \in i64
        BY <1>1, <2>1 DEF i64, IntMin
      <3> QED BY <1>1, <2>1, <2>2, <3>1, WrapInt
    <2>4. at # -1
      <3>1. CASE t + ttl <= IntMax
        BY <1>1, <2>1, <2>3, <3>1
      <3>2. CASE t + ttl > IntMax
        <4>1. Wrap(t + ttl) = t + ttl - 2 * (IntMax + 1)
          <5> DEFINE n == t + ttl
                     m == 2 * (IntMax + 1)
          <5>1. n \in Int /\ n - IntMin \in m..2 * m - 1 /\ m \in Nat \ {0}
            BY <1>1, <2>1, <3>2 DEF IntMin
          <5>2. IntMax - IntMin + 1 = m
            BY <1>1 DEF IntMin
          <5>3. Wrap(n) = ((n - IntMin) % m) + IntMin
            BY <5>2 DEF Wrap
          <5>3a. n - IntMin \in Int
            BY <5>1
          <5> DEFINE x == n - IntMin
          <5> HIDE DEF m, n, x
          <5>4. x \in m..2 * m - 1 /\ x \in Int /\ m \in Nat \ {0}
            BY <5>1, <5>3a DEF x
          <5>5. x % m = x - m
            BY <5>4
          <5> QED BY <1>1, <2>1, <5>3, <5>5 DEF m, n, x, IntMin
        <4> QED BY <1>1, <2>1, <2>2, <4>1
      <3> QED BY <1>1, <2>1, <3>1, <3>2
    <2>5. g = set_expire(set(d, k, e.keys[k]), k, at)
      BY <2>4 DEF Loaded
    <2> HIDE DEF at, g
    <2>6. /\ g.keys = Write(d.keys, k, e.keys[k])
          /\ g.expires = Write(Erase(d.expires, k), k, at)
          /\ g = [keys |-> g.keys, expires |-> g.expires]
      BY <2>5 DEF set, set_expire
    <2>7. g.keys = [j \in done \cup {k} |-> e.keys[j]]
      BY <2>6 DEF Copies, Write
    <2>8. DOMAIN g.expires = DOMAIN d.expires \cup {k}
      BY <2>6 DEF Erase, Write
    <2>9. DOMAIN g.expires = (done \cup {k}) \cap DOMAIN e.expires
      BY <1>3, <2>8 DEF Copies
    <2>10. \A j \in DOMAIN g.expires : g.expires[j] = IF j = k THEN at ELSE d.expires[j]
      BY <2>6 DEF Erase, Write
    <2>11. g.expires = [j \in DOMAIN g.expires |-> g.expires[j]]
      BY <2>6 DEF Write
    <2>12. g.expires \in [DOMAIN g.expires -> i64]
      BY <2>2, <2>8, <2>10, <2>11 DEF Copies
    <2>13. e.expires[k] + late <= IntMax => at \in e.expires[k]..e.expires[k] + late
      BY <1>1, <2>1, <2>3
    <2>14. \A j \in DOMAIN g.expires :
             e.expires[j] + late <= IntMax => g.expires[j] \in e.expires[j]..e.expires[j] + late
      BY <2>8, <2>10, <2>13 DEF Copies, late
    <2>15. Copies(g, e, done \cup {k}, late)
      BY <2>6, <2>7, <2>9, <2>12, <2>14 DEF Copies
    <2> QED BY <2>15 DEF g, at, late
  <1> QED BY <1>2, <1>3

\* A copy is a database of the server.
LEMMA CopiesType ==
  ASSUME NEW d, NEW e, DbGood(e), NEW done, done \subseteq DOMAIN e.keys, NEW late, Copies(d, e, done, late)
  PROVE  DbType(d)
  <1>1. DOMAIN d.keys = done /\ d.keys \in [DOMAIN d.keys -> Text] /\ DOMAIN e.keys \subseteq Key
    BY DEF DbGood, DbType, Copies
  <1> QED BY <1>1 DEF DbType, Copies

LEMMA VisitedKeys ==
  ASSUME NEW d, NEW t
  PROVE  for_each(d, t) \subseteq DOMAIN d.keys
  BY DEF for_each

LEMMA SaveStateFields ==
  ASSUME NEW pc, NEW d, NEW start, NEW file, NEW todo, NEW key, NEW ttl
  PROVE  LET s == SaveState(pc, d, start, file, todo, key, ttl)
         IN  /\ s.pc = pc /\ s.db = d /\ s.start = start /\ s.file = file
             /\ s.todo = todo /\ s.key = key /\ s.ttl = ttl
             /\ s = SaveState(s.pc, s.db, s.start, s.file, s.todo, s.key, s.ttl)
  BY DEF SaveState

-----------------------------------------------------------------------------
(***************************************************************************)
(* The steps of a save preserve what the invariant says of it.             *)
(***************************************************************************)
LEMMA BeginSaveGood ==
  ASSUME NEW d, DbGood(d), NEW t \in 0..MaxTime
  PROVE  SaverGood(SaveState("next", d, t, Header, for_each(d, t), Nil, Nil), t)
  <1> DEFINE s == SaveState("next", d, t, Header, for_each(d, t), Nil, Nil)
  <1>1. /\ s.pc = "next" /\ s.db = d /\ s.start = t /\ s.file = Header /\ s.todo = for_each(d, t)
        /\ s = SaveState(s.pc, s.db, s.start, s.file, s.todo, s.key, s.ttl)
    BY SaveStateFields
  <1> HIDE DEF s
  <1>2. Written(s) = {}
    BY <1>1 DEF Written
  <1>3. Copies(EmptyDb, d, {}, t - t)
    BY DEF Copies, EmptyDb, EmptyMap
  <1>4. ReadsTo(s.file, EmptyDb) /\ Copies(EmptyDb, s.db, Written(s), t - s.start)
    BY <1>1, <1>2, <1>3, HeaderReads
  <1>5. t \in 0..t
    BY RdbAssumption
  <1> QED BY <1>1, <1>4, <1>5 DEF SaverGood, s

LEMMA ReadTtlGood ==
  ASSUME NEW s, NEW t \in 0..MaxTime, SaverGood(s, t), s.pc = "next", NEW k \in s.todo
  PROVE  SaverGood(SaveState("write", s.db, s.start, s.file, s.todo \ {k}, k, pttl(s.db, k, t)), t)
  <1> DEFINE r == SaveState("write", s.db, s.start, s.file, s.todo \ {k}, k, pttl(s.db, k, t))
  <1>1. /\ r.pc = "write" /\ r.db = s.db /\ r.start = s.start /\ r.file = s.file
        /\ r.todo = s.todo \ {k} /\ r.key = k /\ r.ttl = pttl(s.db, k, t)
        /\ r = SaveState(r.pc, r.db, r.start, r.file, r.todo, r.key, r.ttl)
    BY SaveStateFields
  <1> HIDE DEF r
  <1>2. k \in for_each(s.db, s.start) /\ DbGood(s.db) /\ s.start \in 0..t
    BY DEF SaverGood
  <1>3. Written(r) = Written(s)
    BY <1>1, <1>2 DEF Written
  <1>4. TtlGood(s.db, s.start, k, pttl(s.db, k, t), t)
    BY <1>2, TtlRead
  <1>5. \E d : ReadsTo(r.file, d) /\ Copies(d, r.db, Written(r), t - r.start)
    BY <1>1, <1>3 DEF SaverGood
  <1>6. r.key \in for_each(r.db, r.start) \ r.todo /\ r.todo \subseteq for_each(r.db, r.start)
    BY <1>1, <1>2 DEF SaverGood
  <1>7. SaverGood(r, t)
    BY <1>1, <1>2, <1>4, <1>5, <1>6 DEF SaverGood
  <1> QED BY <1>7 DEF r

LEMMA WriteEntryGood ==
  ASSUME NEW s, NEW t \in 0..MaxTime, SaverGood(s, t), s.pc = "write"
  PROVE  SaverGood(SaveState("next", s.db, s.start,
                             s.file \o EntryOf(s.key, s.db.keys[s.key], s.ttl, t),
                             s.todo, s.key, s.ttl), t)
  <1> DEFINE k == s.key
             v == s.db.keys[k]
             file == s.file \o EntryOf(k, v, s.ttl, t)
             r == SaveState("next", s.db, s.start, file, s.todo, s.key, s.ttl)
  <1> HIDE DEF file
  <1>1. /\ r.pc = "next" /\ r.db = s.db /\ r.start = s.start /\ r.file = file
        /\ r.todo = s.todo /\ r.key = s.key /\ r.ttl = s.ttl
        /\ r = SaveState(r.pc, r.db, r.start, r.file, r.todo, r.key, r.ttl)
    BY SaveStateFields
  <1> HIDE DEF r
  <1>2. PICK d : ReadsTo(s.file, d) /\ Copies(d, s.db, Written(s), t - s.start)
    BY DEF SaverGood
  <1>3. /\ k \in for_each(s.db, s.start) /\ k \notin s.todo
        /\ DbGood(s.db) /\ s.start \in 0..t /\ TtlGood(s.db, s.start, k, s.ttl, t)
    BY DEF SaverGood
  <1>4. k \in DOMAIN s.db.keys
    BY <1>3, VisitedKeys
  <1>5. k \in Text /\ v \in Text /\ create_string(v) = v
    BY <1>3, <1>4, RdbAssumption DEF DbGood, DbType
  <1>6. s.ttl \in Int /\ t \in Int
    BY <1>3, RdbAssumption, IntAssumption DEF TtlGood
  <1> DEFINE g == Loaded(d, k, v, Deadline(s.ttl, t))
  <1>7. ReadsTo(file, g)
    BY <1>2, <1>5, <1>6, EntryAppended DEF file
  <1>8. Written(s) \subseteq DOMAIN s.db.keys
    BY VisitedKeys DEF Written
  <1>9. Copies(g, s.db, Written(s) \cup {k}, t - s.start)
    BY <1>2, <1>3, <1>4, <1>8, CopiesMore
  <1>10. Written(r) = Written(s) \cup {k}
    BY <1>1, <1>3 DEF Written
  <1> HIDE DEF g
  <1>11. ReadsTo(r.file, g) /\ Copies(g, r.db, Written(r), t - r.start)
    BY <1>1, <1>7, <1>9, <1>10
  <1>12. r.todo \subseteq for_each(r.db, r.start)
    BY <1>1 DEF SaverGood
  <1>13. SaverGood(r, t)
    BY <1>1, <1>3, <1>11, <1>12 DEF SaverGood
  <1> QED BY <1>13 DEF r, file

LEMMA SaverLater ==
  ASSUME NEW s, NEW t \in 0..MaxTime, SaverGood(s, t)
  PROVE  SaverGood(s, t + 1)
  <1>1. t \in Nat /\ s.start \in 0..t /\ s.start \in 0..t + 1 /\ DbGood(s.db)
    BY RdbAssumption DEF SaverGood
  <1>2. PICK d : ReadsTo(s.file, d) /\ Copies(d, s.db, Written(s), t - s.start)
    BY DEF SaverGood
  <1>3. t - s.start \in Nat /\ (t - s.start) + 1 = (t + 1) - s.start
    BY <1>1
  <1>4. Copies(d, s.db, Written(s), (t + 1) - s.start)
    <2>1. Copies(d, s.db, Written(s), (t - s.start) + 1)
      BY <1>1, <1>2, <1>3, CopiesLater
    <2> QED BY <1>3, <2>1
  <1>5. s.pc = "write" => TtlGood(s.db, s.start, s.key, s.ttl, t + 1)
    BY <1>1, TtlLater DEF SaverGood
  <1> QED BY <1>1, <1>2, <1>4, <1>5 DEF SaverGood

LEMMA EndSaveGood ==
  ASSUME NEW s, NEW t \in 0..MaxTime, SaverGood(s, t), s.pc = "next", s.todo = {}
  PROVE  OriginGood([pc |-> "done", db |-> s.db, start |-> s.start, end |-> t], Sealed(s.file), t)
  <1> DEFINE o == [pc |-> "done", db |-> s.db, start |-> s.start, end |-> t]
  <1>1. /\ o = [pc |-> "done", db |-> o.db, start |-> o.start, end |-> o.end]
        /\ o.db = s.db /\ o.start = s.start /\ o.end = t
    OBVIOUS
  <1> HIDE DEF o
  <1>2. DbGood(s.db) /\ s.start \in 0..t /\ t \in 0..t
    BY RdbAssumption DEF SaverGood
  <1>3. Written(s) = for_each(s.db, s.start)
    BY DEF Written
  <1>4. PICK d : ReadsTo(s.file, d) /\ Copies(d, s.db, Written(s), t - s.start)
    BY DEF SaverGood
  <1>5. \E p, e : /\ Sealed(s.file) = Sealed(p) /\ ReadsTo(p, e)
                  /\ Copies(e, o.db, for_each(o.db, o.start), o.end - o.start)
    BY <1>1, <1>3, <1>4
  <1>6. OriginGood(o, Sealed(s.file), t)
    BY <1>1, <1>2, <1>5 DEF OriginGood
  <1> QED BY <1>6 DEF o

\* What a dump that nobody has damaged loads to.
LEMMA OriginLoads ==
  ASSUME NEW o, NEW f, NEW t, OriginGood(o, f, t)
  PROVE  /\ f # << >> /\ rdb_load(f).ok
         /\ Copies(rdb_load(f).db, o.db, for_each(o.db, o.start), o.end - o.start)
         /\ DbType(rdb_load(f).db)
  <1>1. PICK p, d : /\ f = Sealed(p) /\ ReadsTo(p, d)
                    /\ Copies(d, o.db, for_each(o.db, o.start), o.end - o.start)
    BY DEF OriginGood
  <1>2. rdb_load(f) = [ok |-> TRUE, db |-> d] /\ f # << >>
    BY <1>1, SealedLoads
  <1>3. rdb_load(f).ok /\ rdb_load(f).db = d
    BY <1>2
  <1>4. DbGood(o.db) /\ for_each(o.db, o.start) \subseteq DOMAIN o.db.keys
    BY VisitedKeys DEF OriginGood
  <1>5. DbType(d)
    BY <1>1, <1>4, CopiesType
  <1> QED BY <1>1, <1>2, <1>3, <1>5

\* A damaged dump does not load.
LEMMA DamagedFails ==
  ASSUME NEW o, NEW f, NEW t, OriginGood(o, f, t)
  PROVE  /\ \A n \in 1..Len(f) - 1 : ~ rdb_load(SubSeq(f, 1, n)).ok /\ SubSeq(f, 1, n) # << >>
         /\ \A x : \A i \in DOMAIN f : x[1] = f[i][1] /\ x[2] # f[i][2] =>
              ~ rdb_load([f EXCEPT ![i] = x]).ok /\ [f EXCEPT ![i] = x] # << >>
  <1>1. PICK p, d : f = Sealed(p) /\ ReadsTo(p, d)
    BY DEF OriginGood
  <1>2. p \in Seq(Cell)
    BY <1>1 DEF ReadsTo
  <1>3. \A n \in 1..Len(f) - 1 : ~ rdb_load(SubSeq(f, 1, n)).ok /\ SubSeq(f, 1, n) # << >>
    BY <1>1, <1>2, CutFails
  <1>4. ASSUME NEW i \in DOMAIN f, NEW x, x[1] = f[i][1], x[2] # f[i][2]
        PROVE  ~ rdb_load([f EXCEPT ![i] = x]).ok /\ [f EXCEPT ![i] = x] # << >>
    BY <1>1, <1>2, <1>4, ChangeFails
  <1> QED BY <1>3, <1>4

-----------------------------------------------------------------------------
(***************************************************************************)
(* The invariant holds.                                                    *)
(***************************************************************************)
LEMMA InitInvariant == Init => IInv
  <1> SUFFICES ASSUME Init PROVE IInv
    OBVIOUS
  <1>1. DbGood(db) /\ DbType(db)
    BY EmptyGood DEF Init, DbGood
  <1>2. now \in 0..MaxTime /\ writes \in 0..MaxWrites
    BY RdbAssumption DEF Init
  <1> QED BY <1>1, <1>2 DEF Init, IInv

LEMMA StoreInvariant ==
  ASSUME IInv, NEW k \in Key, Store(k)
  PROVE  IInv'
  <1>1. DbGood(db) /\ dump = << >> /\ origin = Idle
    BY DEF IInv, Store
  <1>2. PICK s \in Values :
          \/ db' = set(db, k, create_string(s))
          \/ \E at \in Deadlines : db' = set_expire(set(db, k, create_string(s)), k, at)
    BY DEF Store
  <1> DEFINE v == create_string(s)
             e == set(db, k, v)
  <1>3. v \in Text /\ create_string(v) = v
    BY CreateString, RdbAssumption
  <1> HIDE DEF v
  <1>4. DbGood(e) /\ k \in DOMAIN e.keys
    BY <1>1, <1>3, SetGood DEF set, Write
  <1> HIDE DEF e
  <1>5. \A at \in Deadlines : DbGood(set_expire(e, k, at))
    BY <1>4, SetExpireGood, RdbAssumption
  <1>6. DbGood(db')
    BY <1>2, <1>4, <1>5 DEF e, v
  <1>7. DbGood(db)' /\ DbType(db)'
    BY <1>6 DEF DbGood, DbType
  <1>8. writes' \in 0..MaxWrites
    BY RdbAssumption DEF IInv, Store
  <1> QED BY <1>1, <1>7, <1>8 DEF IInv, Store

LEMMA BeginSaveInvariant ==
  ASSUME IInv, BeginSave
  PROVE  IInv'
  <1>1. /\ saver' = SaveState("next", db, now, Header, for_each(db, now), Nil, Nil)
        /\ UNCHANGED <<db, now, dump, origin, writes>>
    BY DEF BeginSave, SaveState
  <1>2. DbGood(db) /\ dump = << >> /\ now \in 0..MaxTime
    BY DEF IInv, BeginSave
  <1>3. SaverGood(saver', now')
    BY <1>1, <1>2, BeginSaveGood
  <1> QED BY <1>1, <1>2, <1>3 DEF IInv

LEMMA ReadTtlInvariant ==
  ASSUME IInv, NEW k, ReadTtl(k)
  PROVE  IInv'
  <1>1. saver # Idle /\ now \in 0..MaxTime
    BY DEF IInv, ReadTtl, Idle
  <1>2. dump = << >> /\ SaverGood(saver, now)
    BY <1>1 DEF IInv
  <1>3. saver = SaveState(saver.pc, saver.db, saver.start, saver.file, saver.todo, saver.key, saver.ttl)
    BY <1>2 DEF SaverGood
  <1>4. saver' = SaveState("write", saver.db, saver.start, saver.file, saver.todo \ {k}, k,
                           pttl(saver.db, k, now))
    BY <1>3 DEF ReadTtl, SaveState
  <1>5. SaverGood(saver', now)
    BY <1>1, <1>2, <1>4, ReadTtlGood DEF ReadTtl
  <1> QED BY <1>2, <1>5 DEF IInv, ReadTtl

LEMMA WriteEntryInvariant ==
  ASSUME IInv, WriteEntry
  PROVE  IInv'
  <1>1. saver # Idle /\ now \in 0..MaxTime
    BY DEF IInv, WriteEntry, Idle
  <1>2. dump = << >> /\ SaverGood(saver, now)
    BY <1>1 DEF IInv
  <1>3. saver = SaveState(saver.pc, saver.db, saver.start, saver.file, saver.todo, saver.key, saver.ttl)
    BY <1>2 DEF SaverGood
  <1>4. saver' = SaveState("next", saver.db, saver.start,
                           saver.file \o EntryOf(saver.key, saver.db.keys[saver.key], saver.ttl, now),
                           saver.todo, saver.key, saver.ttl)
    BY <1>3 DEF WriteEntry, SaveState
  <1>5. SaverGood(saver', now)
    BY <1>1, <1>2, <1>4, WriteEntryGood DEF WriteEntry
  <1> QED BY <1>2, <1>5 DEF IInv, WriteEntry

LEMMA EndSaveInvariant ==
  ASSUME IInv, EndSave
  PROVE  IInv'
  <1>1. saver # Idle /\ now \in 0..MaxTime
    BY DEF IInv, EndSave, Idle
  <1>2. dump = << >> /\ SaverGood(saver, now)
    BY <1>1 DEF IInv
  <1>3. OriginGood(origin', dump', now)
    BY <1>1, <1>2, EndSaveGood DEF EndSave
  <1>4. dump' # << >> /\ origin' # Idle
    BY <1>3, OriginLoads DEF EndSave, Idle
  <1> QED BY <1>3, <1>4 DEF IInv, EndSave

LEMMA DamageInvariant ==
  ASSUME IInv, Damage
  PROVE  IInv'
  <1>1. OriginGood(origin, dump, now) /\ dump # << >>
    BY DEF IInv, Damage
  <1>2. ~ rdb_load(dump').ok /\ dump' # << >>
    <2>1. CASE \E n \in 1..Len(dump) - 1 : dump' = SubSeq(dump, 1, n)
      BY <1>1, <2>1, DamagedFails
    <2>2. CASE \E i \in DOMAIN dump, x \in Noise :
                 /\ x[1] = dump[i][1] /\ x[2] # dump[i][2]
                 /\ dump' = [dump EXCEPT ![i] = x]
      <3>1. PICK i \in DOMAIN dump, x \in Noise :
              x[1] = dump[i][1] /\ x[2] # dump[i][2] /\ dump' = [dump EXCEPT ![i] = x]
        BY <2>2
      <3>2. ~ rdb_load([dump EXCEPT ![i] = x]).ok /\ [dump EXCEPT ![i] = x] # << >>
        BY <1>1, <3>1, DamagedFails
      <3> QED BY <3>1, <3>2
    <2> QED BY <2>1, <2>2 DEF Damage
  <1>3. saver' = Idle
    BY <1>1 DEF IInv, Damage
  <1> QED BY <1>2, <1>3 DEF IInv, Damage

LEMMA RestartInvariant ==
  ASSUME IInv, Restart
  PROVE  IInv'
  <1>1. DbGood(EmptyDb) /\ DbType(EmptyDb)
    BY EmptyGood DEF DbGood
  <1>2. CASE dump = << >>
    <2>1. db' = EmptyDb
      BY <1>2 DEF Restart, Started
    <2> QED BY <1>1, <1>2, <2>1 DEF IInv, Restart
  <1>3. CASE dump # << >>
    <2>1. rdb_load(dump).ok => DbType(rdb_load(dump).db)
      BY <1>3, OriginLoads DEF IInv
    <2>2. DbType(db')
      BY <1>1, <1>3, <2>1 DEF Restart, Started
    <2> QED BY <1>3, <2>2 DEF IInv, Restart
  <1> QED BY <1>2, <1>3

LEMMA TickInvariant ==
  ASSUME IInv, Tick
  PROVE  IInv'
  <1>1. now' \in 0..MaxTime /\ now \in 0..MaxTime
    BY RdbAssumption DEF IInv, Tick
  <1>2. saver # Idle => SaverGood(saver, now + 1)
    BY <1>1, SaverLater DEF IInv
  <1>3. saver' # Idle => SaverGood(saver', now')
    BY <1>2 DEF Tick
  <1>4. origin # Idle => OriginGood(origin, dump, now + 1)
    <2>1. \A n \in 0..now : n \in 0..now + 1
      BY <1>1, RdbAssumption
    <2> QED BY <2>1 DEF IInv, OriginGood
  <1>5. origin' # Idle => OriginGood(origin', dump', now')
    BY <1>4 DEF Tick
  <1> QED BY <1>1, <1>3, <1>5 DEF IInv, Tick

LEMMA StutterInvariant ==
  ASSUME IInv, UNCHANGED vars
  PROVE  IInv'
  BY DEF IInv, vars

LEMMA NextInvariant == IInv /\ [Next]_vars => IInv'
  BY StoreInvariant, BeginSaveInvariant, ReadTtlInvariant, WriteEntryInvariant, EndSaveInvariant,
     DamageInvariant, RestartInvariant, TickInvariant, StutterInvariant DEF Next

LEMMA Invariant == Spec => []IInv
  BY InitInvariant, NextInvariant, PTL DEF Spec

-----------------------------------------------------------------------------
(***************************************************************************)
(* What the invariant implies.                                             *)
(***************************************************************************)
\* The databases keep their types: a snapshot that loads brings in no key that
\* the server could not have, and no deadline without its key.
THEOREM RdbTypeCorrect == Spec => []TypeOK
  <1>1. IInv => TypeOK
    <2> SUFFICES ASSUME IInv PROVE TypeOK
      OBVIOUS
    <2>1. saver # Idle => /\ DbType(saver.db) /\ saver.start \in 0..now
                          /\ saver.todo \subseteq DOMAIN saver.db.keys
      BY VisitedKeys DEF IInv, SaverGood, DbGood
    <2>2. origin # Idle => DbType(origin.db) /\ origin.end \in origin.start..now
      <3> SUFFICES ASSUME origin # Idle
                   PROVE  DbType(origin.db) /\ origin.end \in origin.start..now
        OBVIOUS
      <3>1. DbGood(origin.db) /\ origin.start \in 0..origin.end /\ origin.end \in 0..now
        BY DEF IInv, OriginGood
      <3>2. now \in Nat
        BY RdbAssumption DEF IInv
      <3> QED BY <3>1, <3>2 DEF DbGood
    <2> QED BY <2>1, <2>2 DEF TypeOK, IInv
  <1> QED BY <1>1, Invariant, PTL

\* What a client sees of a copy of the snapshot, now.  A key is visible in the copy
\* if it is alive, as its deadline there is no earlier.
LEMMA CopyRestores ==
  ASSUME IInv, origin # Idle, NEW d, Copies(d, origin.db, Kept, Late)
  PROVE  Restores(d)
  <1> DEFINE o == origin.db
  <1>1. /\ DOMAIN d.keys = Kept /\ \A k \in Kept : d.keys[k] = o.keys[k]
        /\ DOMAIN d.expires = Kept \cap DOMAIN o.expires
    BY DEF Copies
  <1>2. \A k \in for_each(d, now) : k \in Kept /\ d.keys[k] = o.keys[k]
    BY <1>1 DEF for_each
  <1>3. ASSUME NEW k \in Alive PROVE k \in for_each(d, now)
    <2>1. k \in Kept /\ Fits(k) /\ ~ is_expired(o, k, now)
      BY DEF Alive
    <2>2. CASE k \notin DOMAIN o.expires
      BY <1>1, <2>1, <2>2 DEF for_each, is_expired
    <2>3. CASE k \in DOMAIN o.expires
      <3>1. k \in DOMAIN d.expires /\ d.expires[k] \in o.expires[k]..o.expires[k] + Late
        BY <1>1, <2>1, <2>3 DEF Copies, Fits
      <3>2. o.expires[k] \in Int /\ now \in Int /\ ~ (now >= o.expires[k])
        BY <2>1, <2>3, RdbAssumption DEF IInv, OriginGood, DbGood, is_expired
      <3>3. ~ (now >= d.expires[k])
        BY <3>1, <3>2
      <3> QED BY <1>1, <2>1, <3>3 DEF for_each, is_expired
    <2> QED BY <2>2, <2>3
  <1> QED BY <1>2, <1>3 DEF Restores

\* What rdb_load makes of a dump that nobody has damaged.
LEMMA DumpIsCopy ==
  ASSUME IInv, origin # Idle
  PROVE  /\ dump # << >> /\ rdb_load(dump).ok
         /\ Copies(rdb_load(dump).db, origin.db, Kept, Late)
  BY OriginLoads DEF IInv, Kept, Late

\* A dump that nobody has damaged loads, at whatever time, and has the keys that
\* are alive by then, with the values of the moment the save began: for texts of
\* every length, in each of the three forms in which write_string writes it and
\* read_string reads it.
THEOREM SnapshotsComplete == Spec => []SnapshotComplete
  <1>1. IInv => SnapshotComplete
    BY DumpIsCopy, CopyRestores DEF SnapshotComplete
  <1> QED BY <1>1, Invariant, PTL

\* A deadline comes through save and load as it was, or later by no more than
\* the save took, for every clock and every order of the keys.
THEOREM DeadlinesSurvive == Spec => []DeadlinesKept
  <1>1. IInv => DeadlinesKept
    <2> SUFFICES ASSUME IInv, origin # Idle, NEW k \in for_each(rdb_load(dump).db, now)
                 PROVE  /\ k \in DOMAIN rdb_load(dump).db.expires <=> k \in DOMAIN origin.db.expires
                        /\ k \in DOMAIN origin.db.expires /\ Fits(k) =>
                             rdb_load(dump).db.expires[k]
                               \in origin.db.expires[k]..origin.db.expires[k] + Late
      BY DEF DeadlinesKept
    <2> DEFINE d == rdb_load(dump).db
    <2>1. Copies(d, origin.db, Kept, Late)
      BY DumpIsCopy
    <2> HIDE DEF d
    <2>2. k \in Kept
      BY <2>1 DEF d, Copies, for_each
    <2>3. k \in DOMAIN d.expires <=> k \in DOMAIN origin.db.expires
      BY <2>1, <2>2 DEF Copies
    <2>4. k \in DOMAIN origin.db.expires /\ Fits(k) =>
            d.expires[k] \in origin.db.expires[k]..origin.db.expires[k] + Late
      BY <2>1, <2>3 DEF Copies, Fits
    <2> QED BY <2>3, <2>4 DEF d
  <1> QED BY <1>1, Invariant, PTL

\* main starts with all of a snapshot that is alive or, when rdb_load fails, with
\* nothing.
THEOREM RestartsAllOrNothing == Spec => RestartAllOrNothing
  <1>1. IInv /\ [Next]_vars =>
          [Restart => IF origin = Idle THEN db' = EmptyDb ELSE Restores(db')]_vars
    <2> SUFFICES ASSUME IInv, Restart
                 PROVE  IF origin = Idle THEN db' = EmptyDb ELSE Restores(db')
      OBVIOUS
    <2>1. CASE origin = Idle
      BY <2>1 DEF IInv, Restart, Started
    <2>2. CASE origin # Idle
      <3>1. db' = rdb_load(dump).db
        BY <2>2, DumpIsCopy DEF Restart, Started
      <3>2. Restores(rdb_load(dump).db)
        BY <2>2, DumpIsCopy, CopyRestores
      <3> QED BY <2>2, <3>1, <3>2
    <2> QED BY <2>1, <2>2
  <1> QED BY <1>1, Invariant, PTL DEF Spec, RestartAllOrNothing
=============================================================================
