--------------------------- MODULE PipelineProofs ---------------------------
(***************************************************************************)
(* Proofs about the operators of Network that work through a buffer: the   *)
(* replies to the commands in it, where the pipeline loop stops, and what  *)
(* it leaves.  Induction over a sequence is by the least counterexample.   *)
(***************************************************************************)
EXTENDS Network, WellFoundedInduction, TLAPS

-----------------------------------------------------------------------------
(***************************************************************************)
(* Least elements.                                                         *)
(***************************************************************************)
Less == OpToRel(<, Nat)

LEMMA LessWellFounded == IsWellFoundedOn(Less, Nat)
  BY NatLessThanWellFounded DEF Less

LEMMA LessPairs ==
  ASSUME NEW x \in Nat, NEW y \in Nat, x < y
  PROVE  <<x, y>> \in Less
  BY DEF Less, OpToRel

\* A set of numbers that is not empty has a least element.
LEMMA LeastElement ==
  ASSUME NEW T \in SUBSET Nat, T # {}
  PROVE  \E x \in T : \A y \in T : x <= y
  <1>1. PICK x \in T : \A y \in T : ~ (<<y, x>> \in Less)
    BY LessWellFounded, WFMin
  <1>2. \A y \in T : ~ (y < x)
    BY <1>1, LessPairs
  <1> QED BY <1>2

\* ... and, if it is bounded, a greatest one.
LEMMA GreatestElement ==
  ASSUME NEW b \in Nat, NEW T \in SUBSET (0..b), T # {}
  PROVE  \E x \in T : \A y \in T : y <= x
  <1> DEFINE U == {b - x : x \in T}
  <1>1. U \in SUBSET Nat /\ U # {}
    <2>1. \A x \in T : b - x \in Nat
      OBVIOUS
    <2>2. PICK x : x \in T
      OBVIOUS
    <2>3. b - x \in U
      BY <2>2
    <2> QED BY <2>1, <2>3
  <1>2. PICK u \in U : \A w \in U : u <= w
    BY <1>1, LeastElement
  <1>3. PICK x \in T : u = b - x
    BY <1>2
  <1>4. ASSUME NEW y \in T PROVE y <= x
    <2>1. b - y \in U
      OBVIOUS
    <2>2. u <= b - y
      BY <1>2, <2>1
    <2> QED BY <1>3, <2>2
  <1> QED BY <1>4

-----------------------------------------------------------------------------
(***************************************************************************)
(* Answers: the recursion that defines it has one solution.                *)
(***************************************************************************)
Step(v, f, i) == IF Completes(v[i]) THEN Append(f[i - 1], v[i]) ELSE f[i - 1]

Solves(v, f, n) ==
  /\ f = [i \in 0..n |-> f[i]]
  /\ f[0] = << >>
  /\ \A i \in 1..n : f[i] = Step(v, f, i)

LEMMA SolutionType ==
  ASSUME NEW v \in Seq(Piece), NEW n \in 0..Len(v), NEW f, Solves(v, f, n), NEW j \in 0..n
  PROVE  f[j] \in Seq(Piece)
  <1> DEFINE T == {i \in 0..n : f[i] \notin Seq(Piece)}
  <1> SUFFICES ASSUME T # {} PROVE FALSE
    OBVIOUS
  <1>1. T \in SUBSET Nat
    OBVIOUS
  <1>2. PICK x \in T : \A y \in T : x <= y
    BY <1>1, LeastElement
  <1>3. x # 0
    <2>1. f[0] = << >>
      BY DEF Solves
    <2>2. f[0] \in Seq(Piece)
      BY <2>1
    <2> QED BY <2>2
  <1>4. x \in 1..n /\ x - 1 \in 0..n /\ x - 1 \notin T /\ x \in 1..Len(v)
    BY <1>2, <1>3
  <1>5. f[x - 1] \in Seq(Piece) /\ v[x] \in Piece
    <2>1. f[x - 1] \in Seq(Piece)
      BY <1>4
    <2>2. v[x] \in Piece
      BY <1>4
    <2> QED BY <2>1, <2>2
  <1>6. f[x] = Step(v, f, x)
    BY <1>4 DEF Solves
  <1>7. f[x] \in Seq(Piece)
    BY <1>5, <1>6 DEF Step
  <1> QED BY <1>7

LEMMA SolutionExists ==
  ASSUME NEW v \in Seq(Piece), NEW n \in 0..Len(v)
  PROVE  \E f : Solves(v, f, n)
  <1> DEFINE T == {i \in 0..Len(v) : ~ \E f : Solves(v, f, i)}
  <1> SUFFICES ASSUME T # {} PROVE FALSE
    OBVIOUS
  <1>1. T \in SUBSET Nat
    OBVIOUS
  <1>2. PICK x \in T : \A y \in T : x <= y
    BY <1>1, LeastElement
  <1>3. x # 0
    <2> DEFINE f == [i \in 0..0 |-> << >>]
    <2>1. Solves(v, f, 0)
      BY DEF Solves
    <2> QED BY <2>1
  <1>4. x - 1 \in 0..Len(v) /\ x - 1 \notin T /\ x \in Nat
    BY <1>2, <1>3
  <1>5. PICK f : Solves(v, f, x - 1)
    BY <1>4
  <1> DEFINE g == [i \in 0..x |-> IF i = x THEN Step(v, f, x) ELSE f[i]]
  <1>6. g = [i \in 0..x |-> g[i]] /\ g[0] = << >> /\ g[x] = Step(v, f, x)
    BY <1>3, <1>4, <1>5 DEF Solves
  <1>7. \A i \in 0..x - 1 : g[i] = f[i]
    BY <1>4
  <1>8. \A i \in 1..x : Step(v, g, i) = Step(v, f, i)
    BY <1>4, <1>7 DEF Step
  <1>9. \A i \in 1..x - 1 : g[i] = Step(v, f, i)
    BY <1>4, <1>5, <1>7 DEF Solves
  <1> HIDE DEF g
  <1>10. ASSUME NEW i \in 1..x PROVE g[i] = Step(v, g, i)
    <2>1. CASE i = x
      BY <1>6, <1>8, <2>1
    <2>2. CASE i # x
      <3>1. i \in 1..x - 1
        BY <1>4, <2>2
      <3> QED BY <1>8, <1>9, <3>1
    <2> QED BY <2>1, <2>2
  <1>11. Solves(v, g, x)
    BY <1>6, <1>10 DEF Solves
  <1> QED BY <1>11

LEMMA SolutionsAgree ==
  ASSUME NEW v, NEW w, NEW f, NEW g, NEW n \in Nat, NEW m \in Nat,
         Solves(v, f, n), Solves(w, g, m),
         NEW j \in Nat, j <= n, j <= m, \A i \in 1..j : v[i] = w[i]
  PROVE  f[j] = g[j]
  <1> DEFINE T == {i \in 0..j : f[i] # g[i]}
  <1> SUFFICES ASSUME T # {} PROVE FALSE
    OBVIOUS
  <1>1. T \in SUBSET Nat
    OBVIOUS
  <1>2. PICK x \in T : \A y \in T : x <= y
    BY <1>1, LeastElement
  <1>3. x # 0
    BY DEF Solves
  <1>4. x \in 1..j /\ x \in 1..n /\ x \in 1..m /\ x - 1 \in 0..j /\ x - 1 \notin T
    BY <1>2, <1>3
  <1>5. f[x - 1] = g[x - 1] /\ v[x] = w[x]
    BY <1>4
  <1>6. f[x] = Step(v, f, x) /\ g[x] = Step(w, g, x)
    BY <1>4 DEF Solves
  <1>7. f[x] = g[x]
    BY <1>5, <1>6 DEF Step
  <1> QED BY <1>7

LEMMA AnswersSolve ==
  ASSUME NEW v \in Seq(Piece)
  PROVE  \E f : Solves(v, f, Len(v)) /\ Answers(v) = f[Len(v)]
  <1> DEFINE n == Len(v)
             Body(f) == [i \in 0..n |-> IF i = 0 THEN << >>
                                        ELSE IF Completes(v[i]) THEN Append(f[i - 1], v[i])
                                        ELSE f[i - 1]]
             g == CHOOSE f : f = Body(f)
  <1>1. n \in Nat /\ n \in 0..Len(v)
    OBVIOUS
  <1>2. PICK h : Solves(v, h, n)
    BY <1>1, SolutionExists
  <1>3. h = Body(h)
    <2>1. \A i \in 0..n : h[i] = IF i = 0 THEN << >>
                                 ELSE IF Completes(v[i]) THEN Append(h[i - 1], v[i])
                                 ELSE h[i - 1]
      <3>1. h[0] = << >> /\ \A i \in 1..n : h[i] = Step(v, h, i)
        BY <1>2 DEF Solves
      <3>2. \A i \in 0..n : i = 0 \/ i \in 1..n
        BY <1>1
      <3> QED BY <3>1, <3>2 DEF Step
    <2>2. h = [i \in 0..n |-> h[i]]
      BY <1>2 DEF Solves
    <2> QED BY <2>1, <2>2
  <1>4. g = Body(g)
    BY <1>3
  <1>5. Answers(v) = g[n]
    BY DEF Answers
  <1> HIDE DEF g
  <1>6. Solves(v, g, n)
    <2>1. \A i \in 0..n : g[i] = IF i = 0 THEN << >>
                                 ELSE IF Completes(v[i]) THEN Append(g[i - 1], v[i])
                                 ELSE g[i - 1]
      BY <1>4
    <2>2. g = [i \in 0..n |-> g[i]]
      BY <1>4
    <2> QED BY <1>1, <2>1, <2>2 DEF Solves, Step
  <1> QED BY <1>5, <1>6

LEMMA AnswersType ==
  ASSUME NEW v \in Seq(Piece)
  PROVE  Answers(v) \in Seq(Piece)
  <1>1. PICK f : Solves(v, f, Len(v)) /\ Answers(v) = f[Len(v)]
    BY AnswersSolve
  <1>2. Len(v) \in 0..Len(v)
    OBVIOUS
  <1> QED BY <1>1, <1>2, SolutionType

LEMMA AppendToConcat ==
  ASSUME NEW s \in Seq(Piece), NEW t \in Seq(Piece), NEW x \in Piece
  PROVE  Append(s \o t, x) = s \o Append(t, x)
  OBVIOUS

\* The replies to a longer pipeline are those to its parts.
LEMMA AnswersConcat ==
  ASSUME NEW v \in Seq(Piece), NEW w \in Seq(Piece)
  PROVE  Answers(v \o w) = Answers(v) \o Answers(w)
  <1> DEFINE a == Len(v)
             b == Len(w)
             u == v \o w
  <1>1. /\ a \in Nat /\ b \in Nat /\ u \in Seq(Piece) /\ Len(u) = a + b
        /\ \A i \in 1..a : u[i] = v[i]
        /\ \A i \in 1..b : u[a + i] = w[i]
    OBVIOUS
  <1>2. PICK f : Solves(v, f, a) /\ Answers(v) = f[a]
    BY AnswersSolve
  <1>3. PICK g : Solves(w, g, b) /\ Answers(w) = g[b]
    BY AnswersSolve
  <1> HIDE DEF u, a, b
  <1>4. PICK h : Solves(u, h, a + b) /\ Answers(u) = h[a + b]
    BY <1>1, AnswersSolve
  <1>5. h[a] = f[a]
    BY <1>1, <1>2, <1>4, SolutionsAgree
  <1>6. f[a] \in Seq(Piece)
    BY <1>2, AnswersType
  <1>7. \A j \in 0..b : g[j] \in Seq(Piece)
    BY <1>1, <1>3, SolutionType DEF b
  <1> DEFINE Holds(j) == h[a + j] = f[a] \o g[j]
             T == {j \in 0..b : ~ Holds(j)}
  <1> HIDE DEF Holds
  <1>8. T = {}
    <2> SUFFICES ASSUME T # {} PROVE FALSE
      OBVIOUS
    <2>1. T \in SUBSET Nat
      BY <1>1
    <2>2. PICK x \in T : \A y \in T : x <= y
      BY <2>1, LeastElement
    <2>3. x # 0
      <3>1. g[0] = << >>
        BY <1>3 DEF Solves
      <3>2. f[a] \o << >> = f[a]
        BY <1>6
      <3>3. a + 0 = a
        BY <1>1
      <3> QED BY <1>5, <3>1, <3>2, <3>3 DEF Holds
    <2>4. x \in 1..b /\ x - 1 \in 0..b /\ x - 1 \notin T
      BY <1>1, <2>2, <2>3
    <2>5. h[a + (x - 1)] = f[a] \o g[x - 1]
      BY <2>4 DEF Holds
    <2>6. a + x \in 1..(a + b) /\ (a + x) - 1 = a + (x - 1)
      BY <1>1, <2>4
    <2>7. h[a + x] = Step(u, h, a + x) /\ g[x] = Step(w, g, x)
      BY <1>3, <1>4, <2>4, <2>6 DEF Solves
    <2>8. u[a + x] = w[x] /\ w[x] \in Piece /\ g[x - 1] \in Seq(Piece)
      BY <1>1, <1>7, <2>4 DEF b
    <2>9. Append(f[a] \o g[x - 1], w[x]) = f[a] \o Append(g[x - 1], w[x])
      BY <1>6, <2>8, AppendToConcat, Zenon
    <2>10. h[a + x] = f[a] \o g[x]
      BY <2>5, <2>6, <2>7, <2>8, <2>9 DEF Step
    <2> QED BY <2>10 DEF Holds
  <1>9. b \in 0..b
    BY <1>1
  <1>10. h[a + b] = f[a] \o g[b]
    BY <1>8, <1>9 DEF Holds
  <1> QED BY <1>2, <1>3, <1>4, <1>10 DEF u

\* Pieces that complete nothing are not answered.
LEMMA AnswersNone ==
  ASSUME NEW v \in Seq(Piece), \A i \in 1..Len(v) : ~ Completes(v[i])
  PROVE  Answers(v) = << >>
  <1> DEFINE n == Len(v)
  <1>1. PICK f : Solves(v, f, n) /\ Answers(v) = f[n]
    BY AnswersSolve
  <1>2. n \in Nat
    OBVIOUS
  <1> DEFINE T == {j \in 0..n : f[j] # << >>}
  <1>3. T = {}
    <2> SUFFICES ASSUME T # {} PROVE FALSE
      OBVIOUS
    <2>1. T \in SUBSET Nat
      BY <1>2
    <2>2. PICK x \in T : \A y \in T : x <= y
      BY <2>1, LeastElement
    <2>3. x # 0
      BY <1>1 DEF Solves
    <2>4. x \in 1..n /\ x - 1 \in 0..n /\ x - 1 \notin T
      BY <1>2, <2>2, <2>3
    <2>5. f[x] = Step(v, f, x)
      BY <1>1, <2>4 DEF Solves
    <2>6. f[x] = f[x - 1]
      BY <2>4, <2>5 DEF Step
    <2> QED BY <2>4, <2>6
  <1> QED BY <1>1, <1>2, <1>3

-----------------------------------------------------------------------------
(***************************************************************************)
(* Where the pipeline loop stops.                                          *)
(***************************************************************************)
LEMMA FirstJunkIs ==
  ASSUME NEW v \in Seq(Piece)
  PROVE  /\ FirstJunk(v) \in 1..Len(v) + 1
         /\ FirstJunk(v) = Len(v) + 1 \/ v[FirstJunk(v)].kind = "junk"
         /\ \A j \in 1..FirstJunk(v) - 1 : v[j].kind # "junk"
  <1> DEFINE T == {i \in 1..Len(v) + 1 : i = Len(v) + 1 \/ v[i].kind = "junk"}
             Is(i) == /\ i = Len(v) + 1 \/ v[i].kind = "junk"
                      /\ \A j \in 1..i - 1 : v[j].kind # "junk"
  <1>1. Len(v) \in Nat
    OBVIOUS
  <1>2. T \in SUBSET Nat
    BY <1>1
  <1>3. Len(v) + 1 \in T
    BY <1>1
  <1>4. PICK x \in T : \A y \in T : x <= y
    BY <1>2, <1>3, LeastElement
  <1>5. \A j \in 1..x - 1 : j \in 1..Len(v) + 1 /\ j \notin T
    BY <1>1, <1>4
  <1>6. x \in 1..Len(v) + 1 /\ Is(x)
    BY <1>4, <1>5
  <1>7. \E i \in 1..Len(v) + 1 : Is(i)
    BY <1>6
  <1>8. FirstJunk(v) = CHOOSE i \in 1..Len(v) + 1 : Is(i)
    BY DEF FirstJunk
  <1> HIDE DEF Is
  <1>9. FirstJunk(v) \in 1..Len(v) + 1 /\ Is(FirstJunk(v))
    BY <1>7, <1>8
  <1> QED BY <1>9 DEF Is

LEMMA ConsumedIs ==
  ASSUME NEW v \in Seq(Piece), NEW i \in 0..Len(v)
  PROVE  /\ Consumed(v, i) \in 0..i
         /\ Consumed(v, i) = 0 \/ Completes(v[Consumed(v, i)])
         /\ \A j \in Consumed(v, i) + 1..i : ~ Completes(v[j])
  <1> DEFINE T == {n \in 0..i : n = 0 \/ Completes(v[n])}
             Is(n) == /\ n = 0 \/ Completes(v[n])
                      /\ \A j \in n + 1..i : ~ Completes(v[j])
  <1>1. i \in Nat
    OBVIOUS
  <1>2. T \in SUBSET (0..i) /\ 0 \in T
    BY <1>1
  <1>3. PICK x \in T : \A y \in T : y <= x
    BY <1>1, <1>2, GreatestElement
  <1>4. \A j \in x + 1..i : j \in 0..i /\ j \notin T
    BY <1>1, <1>3
  <1>5. x \in 0..i /\ Is(x)
    BY <1>3, <1>4
  <1>6. \E n \in 0..i : Is(n)
    BY <1>5
  <1>7. Consumed(v, i) = CHOOSE n \in 0..i : Is(n)
    BY DEF Consumed
  <1> HIDE DEF Is
  <1>8. Consumed(v, i) \in 0..i /\ Is(Consumed(v, i))
    BY <1>6, <1>7
  <1> QED BY <1>8 DEF Is

-----------------------------------------------------------------------------
(***************************************************************************)
(* Parts of sequences.                                                     *)
(***************************************************************************)
LEMMA Parts ==
  ASSUME NEW s \in Seq(Piece), NEW a \in 0..Len(s), NEW b \in a..Len(s)
  PROVE  /\ SubSeq(s, a + 1, b) \in Seq(Piece)
         /\ Len(SubSeq(s, a + 1, b)) = b - a
         /\ \A x \in 1..b - a : SubSeq(s, a + 1, b)[x] = s[a + x]
  OBVIOUS

LEMMA SplitParts ==
  ASSUME NEW s \in Seq(Piece), NEW m \in 0..Len(s), NEW b \in m..Len(s)
  PROVE  SubSeq(s, 1, b) = SubSeq(s, 1, m) \o SubSeq(s, m + 1, b)
  OBVIOUS

LEMMA ConcatAssoc ==
  ASSUME NEW s \in Seq(Piece), NEW t \in Seq(Piece), NEW u \in Seq(Piece)
  PROVE  (s \o t) \o u = s \o (t \o u)
  OBVIOUS

LEMMA ConcatEmpty ==
  ASSUME NEW s \in Seq(Piece)
  PROVE  s \o << >> = s /\ << >> \o s = s /\ << >> \in Seq(Piece)
  OBVIOUS

LEMMA ConcatType ==
  ASSUME NEW s \in Seq(Piece), NEW t \in Seq(Piece)
  PROVE  /\ s \o t \in Seq(Piece)
         /\ Len(s \o t) = Len(s) + Len(t)
         /\ \A x \in 1..Len(s) : (s \o t)[x] = s[x]
         /\ \A x \in 1..Len(t) : (s \o t)[Len(s) + x] = t[x]
  OBVIOUS

LEMMA SeqEqual ==
  ASSUME NEW s \in Seq(Piece), NEW t \in Seq(Piece), Len(s) = Len(t),
         \A x \in 1..Len(s) : s[x] = t[x]
  PROVE  s = t
  OBVIOUS

LEMMA LenType == \A s \in Seq(Piece) : Len(s) \in Nat
  OBVIOUS

LEMMA StreamType ==
  ASSUME NEW c \in Client
  PROVE  Stream(c) \in Seq(Piece) /\ Len(Stream(c)) = Len(Script[c]) /\ Len(Script[c]) \in Nat
  <1>1. Script[c] \in Seq(Kind)
    BY NetworkAssumption
  <1> QED BY <1>1 DEF Stream, Piece

-----------------------------------------------------------------------------
(***************************************************************************)
(* What is left to do for a client: v is the unread part of the buffer, q  *)
(* the receive queue, and `sent' counts the pieces sent.                   *)
(***************************************************************************)
Place(v, q, sent) == sent - Len(v) - Len(q)

\* v and q are the last pieces sent, and what is before them ends with a
\* command.
InStream(c, v, q, sent) ==
  LET i == Place(v, q, sent)
  IN  /\ i >= 0
      /\ \A x \in 1..Len(v) : v[x] = Stream(c)[i + x]
      /\ \A x \in 1..Len(q) : q[x] = Stream(c)[i + Len(v) + x]
      /\ i = 0 \/ Completes(Stream(c)[i])

\* The loop is stuck: what it looks at next cannot be parsed.
JunkAhead(v) ==
  \E p \in 1..Len(v) : v[p].kind = "junk" /\ \A x \in 1..p - 1 : ~ Completes(v[x])

\* The replies r answer the first i pieces, and then repeat a protocol error.
Answered(c, v, i, r) ==
  \E e \in Seq(Piece) :
    /\ r = AnswersTo(c, i) \o e
    /\ \A x \in 1..Len(e) : e[x].kind = "junk"
    /\ e # << >> => JunkAhead(v)

LEMMA AnswersToType ==
  ASSUME NEW c \in Client, NEW i \in 0..Len(Script[c])
  PROVE  AnswersTo(c, i) \in Seq(Piece) /\ SubSeq(Stream(c), 1, i) \in Seq(Piece)
  <1>1. Stream(c) \in Seq(Piece) /\ Len(Stream(c)) = Len(Script[c]) /\ Len(Script[c]) \in Nat
    BY StreamType
  <1>2. SubSeq(Stream(c), 1, i) \in Seq(Piece)
    BY <1>1
  <1> QED BY <1>2, AnswersType DEF AnswersTo

\* A read moves the receive queue into the buffer.
LEMMA ReadInStream ==
  ASSUME NEW c \in Client, NEW v \in Seq(Piece), NEW q \in Seq(Piece), NEW sent \in Nat,
         InStream(c, v, q, sent)
  PROVE  /\ InStream(c, v \o q, << >>, sent)
         /\ Place(v \o q, << >>, sent) = Place(v, q, sent)
         /\ Place(v, q, sent) \in Nat /\ Place(v, q, sent) <= sent
  <1> DEFINE w == v \o q
             i == Place(v, q, sent)
  <1>1. /\ w \in Seq(Piece) /\ Len(w) = Len(v) + Len(q)
        /\ \A x \in 1..Len(v) : w[x] = v[x]
        /\ \A x \in 1..Len(q) : w[Len(v) + x] = q[x]
    BY ConcatType
  <1>2. Len(v) \in Nat /\ Len(q) \in Nat
    OBVIOUS
  <1> HIDE DEF w
  <1>3. Place(w, << >>, sent) = i /\ i \in Int /\ i <= sent
    BY <1>1, <1>2 DEF Place
  <1> HIDE DEF i
  <1>4. /\ i >= 0 /\ (i = 0 \/ Completes(Stream(c)[i]))
        /\ \A x \in 1..Len(v) : v[x] = Stream(c)[i + x]
        /\ \A x \in 1..Len(q) : q[x] = Stream(c)[i + Len(v) + x]
    BY DEF InStream, i
  <1>5. ASSUME NEW x \in 1..Len(w) PROVE w[x] = Stream(c)[i + x]
    <2>1. CASE x \in 1..Len(v)
      BY <1>1, <1>4, <2>1
    <2>2. CASE x \notin 1..Len(v)
      <3> DEFINE y == x - Len(v)
      <3>1. y \in 1..Len(q) /\ x = Len(v) + y /\ i + Len(v) + y = i + x
        BY <1>1, <1>2, <1>3, <2>2
      <3> HIDE DEF y
      <3> QED BY <1>1, <1>4, <3>1
    <2> QED BY <2>1, <2>2
  <1>6. InStream(c, w, << >>, sent)
    BY <1>3, <1>4, <1>5 DEF InStream
  <1> QED BY <1>3, <1>4, <1>6 DEF w, i

\* More in the buffer does not free the loop.
LEMMA ReadAnswered ==
  ASSUME NEW c, NEW v \in Seq(Piece), NEW q \in Seq(Piece), NEW i, NEW r,
         Answered(c, v, i, r)
  PROVE  Answered(c, v \o q, i, r)
  <1>1. JunkAhead(v) => JunkAhead(v \o q)
    <2> SUFFICES ASSUME JunkAhead(v) PROVE JunkAhead(v \o q)
      OBVIOUS
    <2> DEFINE w == v \o q
    <2>1. /\ Len(w) = Len(v) + Len(q) /\ Len(v) \in Nat /\ Len(q) \in Nat
          /\ \A x \in 1..Len(v) : w[x] = v[x]
      BY ConcatType, LenType
    <2> HIDE DEF w
    <2>2. PICK p \in 1..Len(v) : v[p].kind = "junk" /\ \A x \in 1..p - 1 : ~ Completes(v[x])
      BY DEF JunkAhead
    <2>3. p \in 1..Len(w) /\ w[p] = v[p] /\ \A x \in 1..p - 1 : w[x] = v[x]
      BY <2>1
    <2>4. JunkAhead(w)
      BY <2>2, <2>3 DEF JunkAhead
    <2> QED BY <2>4 DEF w
  <1> QED BY <1>1 DEF Answered

\* What is left of a buffer when its first m pieces are consumed.
LEMMA ConsumeInStream ==
  ASSUME NEW c \in Client, NEW v \in Seq(Piece), NEW sent \in Nat,
         InStream(c, v, << >>, sent), NEW m \in 0..Len(v), m = 0 \/ Completes(v[m])
  PROVE  /\ InStream(c, SubSeq(v, m + 1, Len(v)), << >>, sent)
         /\ Place(SubSeq(v, m + 1, Len(v)), << >>, sent) = Place(v, << >>, sent) + m
  <1> DEFINE w == SubSeq(v, m + 1, Len(v))
             i == Place(v, << >>, sent)
  <1>1. Len(v) \in Nat /\ m \in Nat /\ Len(v) \in m..Len(v)
    OBVIOUS
  <1>2. /\ w \in Seq(Piece) /\ Len(w) = Len(v) - m
        /\ \A x \in 1..Len(v) - m : w[x] = v[m + x]
    BY <1>1, Parts
  <1> HIDE DEF w
  <1>3. Place(w, << >>, sent) = i + m /\ i \in Int
    BY <1>1, <1>2 DEF Place
  <1> HIDE DEF i
  <1>4. /\ i >= 0 /\ (i = 0 \/ Completes(Stream(c)[i]))
        /\ \A x \in 1..Len(v) : v[x] = Stream(c)[i + x]
    BY DEF InStream, i
  <1>5. ASSUME NEW x \in 1..Len(w) PROVE w[x] = Stream(c)[(i + m) + x]
    <2>1. x \in 1..Len(v) - m /\ m + x \in 1..Len(v) /\ i + (m + x) = (i + m) + x
      BY <1>1, <1>2, <1>3
    <2> QED BY <1>2, <1>4, <2>1
  <1>6. i + m = 0 \/ Completes(Stream(c)[i + m])
    <2>1. CASE m = 0
      BY <1>3, <1>4, <2>1
    <2>2. CASE m # 0
      <3>1. m \in 1..Len(v)
        BY <1>1, <2>2
      <3> QED BY <1>4, <2>2, <3>1
    <2> QED BY <2>1, <2>2
  <1>7. i + m >= 0
    BY <1>1, <1>3, <1>4
  <1>8. InStream(c, w, << >>, sent)
    BY <1>3, <1>5, <1>6, <1>7 DEF InStream
  <1> QED BY <1>3, <1>8 DEF w, i

-----------------------------------------------------------------------------
(***************************************************************************)
(* What dispatch does with the unread part v of a buffer: it consumes      *)
(* Taken(v) pieces and sends Replies(v).                                   *)
(***************************************************************************)
Taken(v) == Consumed(v, FirstJunk(v) - 1)

Complaint(v) == IF FirstJunk(v) <= Len(v) THEN <<v[FirstJunk(v)]>> ELSE << >>

Replies(v) == Answers(SubSeq(v, 1, FirstJunk(v) - 1)) \o Complaint(v)

LEMMA ComplaintIs ==
  ASSUME NEW v \in Seq(Piece)
  PROVE  /\ Complaint(v) \in Seq(Piece)
         /\ \A x \in 1..Len(Complaint(v)) : Complaint(v)[x].kind = "junk"
         /\ Complaint(v) # << >> => FirstJunk(v) \in 1..Len(v) /\ v[FirstJunk(v)].kind = "junk"
  <1> DEFINE j == FirstJunk(v)
  <1>1. j \in 1..Len(v) + 1 /\ (j = Len(v) + 1 \/ v[j].kind = "junk") /\ Len(v) \in Nat
    BY FirstJunkIs
  <1> HIDE DEF j
  <1>2. CASE j <= Len(v)
    <2>1. j \in 1..Len(v) /\ v[j].kind = "junk" /\ v[j] \in Piece
      BY <1>1, <1>2
    <2>2. Complaint(v) = <<v[j]>>
      BY <1>2 DEF Complaint, j
    <2> QED BY <2>1, <2>2 DEF j
  <1>3. CASE ~ (j <= Len(v))
    <2>1. Complaint(v) = << >>
      BY <1>3 DEF Complaint, j
    <2> QED BY <2>1
  <1> QED BY <1>2, <1>3

LEMMA TakenIs ==
  ASSUME NEW v \in Seq(Piece)
  PROVE  /\ Taken(v) \in 0..FirstJunk(v) - 1
         /\ Taken(v) \in 0..Len(v)
         /\ FirstJunk(v) - 1 \in Taken(v)..Len(v)
         /\ Taken(v) = 0 \/ Completes(v[Taken(v)])
         /\ \A x \in Taken(v) + 1..FirstJunk(v) - 1 : ~ Completes(v[x])
  <1>1. FirstJunk(v) \in 1..Len(v) + 1 /\ Len(v) \in Nat
    BY FirstJunkIs
  <1>2. FirstJunk(v) - 1 \in 0..Len(v)
    BY <1>1
  <1>3. /\ Taken(v) \in 0..FirstJunk(v) - 1
        /\ Taken(v) = 0 \/ Completes(v[Taken(v)])
        /\ \A x \in Taken(v) + 1..FirstJunk(v) - 1 : ~ Completes(v[x])
    BY <1>2, ConsumedIs DEF Taken
  <1>4. Taken(v) \in 0..Len(v) /\ FirstJunk(v) - 1 \in Taken(v)..Len(v)
    BY <1>1, <1>3
  <1> QED BY <1>3, <1>4

LEMMA RepliesType ==
  ASSUME NEW v \in Seq(Piece)
  PROVE  Replies(v) \in Seq(Piece)
  <1>1. FirstJunk(v) \in 1..Len(v) + 1 /\ Len(v) \in Nat
    BY FirstJunkIs
  <1>2. SubSeq(v, 1, FirstJunk(v) - 1) \in Seq(Piece)
    BY <1>1
  <1> QED BY <1>2, AnswersType, ComplaintIs, ConcatType DEF Replies

\* What is sent, but for the complaint, answers what is consumed.
LEMMA RepliesAnswerTaken ==
  ASSUME NEW v \in Seq(Piece)
  PROVE  Answers(SubSeq(v, 1, FirstJunk(v) - 1)) = Answers(SubSeq(v, 1, Taken(v)))
  <1> DEFINE j == FirstJunk(v) - 1
             m == Taken(v)
             s == SubSeq(v, 1, m)
             t == SubSeq(v, m + 1, j)
  <1>1. /\ m \in 0..j /\ m \in 0..Len(v) /\ j \in m..Len(v) /\ Len(v) \in Nat
        /\ \A x \in m + 1..j : ~ Completes(v[x])
    BY TakenIs, LenType
  <1> HIDE DEF j, m
  <1>2. m \in Nat /\ j \in Nat /\ m \in 0..m /\ 0 \in 0..Len(v) /\ m \in 0..Len(v)
    BY <1>1
  <1>3. s \in Seq(Piece)
    BY <1>1
  <1>4. /\ t \in Seq(Piece) /\ Len(t) = j - m
        /\ \A x \in 1..j - m : t[x] = v[m + x]
    BY <1>1, Parts
  <1>5. SubSeq(v, 1, j) = s \o t
    BY <1>1, SplitParts
  <1> HIDE DEF s, t
  <1>6. \A x \in 1..Len(t) : ~ Completes(t[x])
    <2> SUFFICES ASSUME NEW x \in 1..Len(t) PROVE ~ Completes(t[x])
      OBVIOUS
    <2>1. x \in 1..j - m /\ m + x \in m + 1..j
      BY <1>2, <1>4
    <2> QED BY <1>1, <1>4, <2>1
  <1>7. Answers(t) = << >>
    BY <1>4, <1>6, AnswersNone
  <1>8. Answers(s \o t) = Answers(s) \o Answers(t)
    BY <1>3, <1>4, AnswersConcat
  <1>9. Answers(s) \in Seq(Piece)
    BY <1>3, AnswersType
  <1>10. Answers(SubSeq(v, 1, j)) = Answers(s)
    BY <1>5, <1>7, <1>8, <1>9, ConcatEmpty
  <1> QED BY <1>10 DEF j, m, s

\* Every command that is consumed is answered, in order and once.
LEMMA DispatchAnswers ==
  ASSUME NEW c \in Client, NEW v \in Seq(Piece), NEW sent \in 0..Len(Script[c]),
         InStream(c, v, << >>, sent), NEW r \in Seq(Piece),
         Answered(c, v, Place(v, << >>, sent), r)
  PROVE  Answered(c, SubSeq(v, Taken(v) + 1, Len(v)), Place(v, << >>, sent) + Taken(v),
                  r \o Replies(v))
  <1> DEFINE i == Place(v, << >>, sent)
             m == Taken(v)
             j == FirstJunk(v)
             w == SubSeq(v, m + 1, Len(v))
             A == Answers(SubSeq(v, 1, j - 1))
             B == Complaint(v)
             S == Stream(c)
  <1>1. /\ m \in 0..j - 1 /\ m \in 0..Len(v) /\ j - 1 \in m..Len(v)
        /\ m = 0 \/ Completes(v[m])
        /\ \A x \in m + 1..j - 1 : ~ Completes(v[x])
    BY TakenIs
  <1>2. j \in 1..Len(v) + 1 /\ Len(v) \in Nat /\ sent \in Nat /\ Len(Script[c]) \in Nat
    BY FirstJunkIs, StreamType, LenType
  <1>3. S \in Seq(Piece) /\ Len(S) = Len(Script[c])
    BY StreamType
  <1>4. /\ B \in Seq(Piece)
        /\ \A x \in 1..Len(B) : B[x].kind = "junk"
        /\ B # << >> => j \in 1..Len(v) /\ v[j].kind = "junk"
    BY ComplaintIs
  <1>5. SubSeq(v, 1, m) \in Seq(Piece) /\ SubSeq(v, 1, j - 1) \in Seq(Piece)
    BY <1>1, <1>2
  <1>6. A = Answers(SubSeq(v, 1, m)) /\ A \in Seq(Piece)
    BY <1>5, RepliesAnswerTaken, AnswersType
  <1>7. /\ w \in Seq(Piece) /\ Len(w) = Len(v) - m
        /\ \A x \in 1..Len(v) - m : w[x] = v[m + x]
    <2>1. Len(v) \in m..Len(v)
      BY <1>1, <1>2
    <2> QED BY <1>1, <2>1, Parts
  <1>8. i \in Int /\ i = sent - Len(v) /\ i >= 0 /\ \A x \in 1..Len(v) : v[x] = S[i + x]
    BY <1>2 DEF InStream, Place
  <1>9. i \in 0..Len(Script[c]) /\ i + m \in 0..Len(Script[c])
    BY <1>1, <1>2, <1>8
  <1>10. AnswersTo(c, i) \in Seq(Piece) /\ SubSeq(S, 1, i) \in Seq(Piece)
    BY <1>9, AnswersToType
  <1> HIDE DEF i, m, j, w, A, B, S
  <1>11. B # << >> => JunkAhead(w)
    <2> SUFFICES ASSUME B # << >> PROVE JunkAhead(w)
      OBVIOUS
    <2>1. j \in 1..Len(v) /\ v[j].kind = "junk"
      BY <1>4
    <2> DEFINE p == j - m
    <2>2. p \in 1..Len(v) - m /\ m + p = j /\ p \in 1..Len(w)
      BY <1>1, <1>2, <1>7, <2>1
    <2>3. \A x \in 1..p - 1 : x \in 1..Len(v) - m /\ m + x \in m + 1..j - 1
      BY <1>1, <1>2, <2>1
    <2> HIDE DEF p
    <2>4. w[p].kind = "junk"
      BY <1>7, <2>1, <2>2
    <2>5. \A x \in 1..p - 1 : ~ Completes(w[x])
      BY <1>1, <1>7, <2>3
    <2> QED BY <2>2, <2>4, <2>5 DEF JunkAhead
  <1>12. AnswersTo(c, i + m) = AnswersTo(c, i) \o A
    <2>1. i \in 0..Len(S) /\ i + m \in i..Len(S)
      BY <1>1, <1>3, <1>8, <1>9
    <2>2. SubSeq(S, 1, i + m) = SubSeq(S, 1, i) \o SubSeq(S, i + 1, i + m)
      BY <1>3, <2>1, SplitParts
    <2>3. SubSeq(S, i + 1, i + m) = SubSeq(v, 1, m)
      <3>1. /\ SubSeq(S, i + 1, i + m) \in Seq(Piece)
            /\ Len(SubSeq(S, i + 1, i + m)) = (i + m) - i
            /\ \A x \in 1..(i + m) - i : SubSeq(S, i + 1, i + m)[x] = S[i + x]
        BY <1>3, <2>1, Parts
      <3>2. /\ Len(SubSeq(v, 1, m)) = m
            /\ \A x \in 1..m : SubSeq(v, 1, m)[x] = v[x]
        BY <1>1, <1>2
      <3>3. (i + m) - i = m /\ \A x \in 1..m : x \in 1..Len(v)
        BY <1>1, <1>2, <1>8
      <3>4. \A x \in 1..m : SubSeq(S, i + 1, i + m)[x] = SubSeq(v, 1, m)[x]
        BY <1>8, <3>1, <3>2, <3>3
      <3> QED BY <1>5, <3>1, <3>2, <3>3, <3>4, SeqEqual
    <2>4. Answers(SubSeq(S, 1, i) \o SubSeq(v, 1, m)) =
            Answers(SubSeq(S, 1, i)) \o Answers(SubSeq(v, 1, m))
      BY <1>5, <1>10, AnswersConcat
    <2> QED BY <1>6, <2>2, <2>3, <2>4 DEF AnswersTo, S
  <1>13. PICK e \in Seq(Piece) :
           /\ r = AnswersTo(c, i) \o e
           /\ \A x \in 1..Len(e) : e[x].kind = "junk"
           /\ e # << >> => JunkAhead(v)
    BY DEF Answered, i
  <1>14. Replies(v) = A \o B
    BY DEF Replies, A, B, j
  <1>15. CASE e = << >>
    <2>1. r = AnswersTo(c, i)
      BY <1>10, <1>13, <1>15, ConcatEmpty
    <2>2. r \o (A \o B) = AnswersTo(c, i + m) \o B
      <3>1. (AnswersTo(c, i) \o A) \o B = AnswersTo(c, i) \o (A \o B)
        <4>1. A \in Seq(Piece) /\ B \in Seq(Piece) /\ AnswersTo(c, i) \in Seq(Piece)
          BY <1>4, <1>6, <1>10
        <4> QED BY <4>1, ConcatAssoc, Zenon
      <3> QED BY <1>12, <2>1, <3>1, Zenon
    <2>3. Answered(c, w, i + m, r \o (A \o B))
      BY <1>4, <1>11, <2>2 DEF Answered
    <2> QED BY <1>14, <2>3 DEF i, m, w
  <1>16. CASE e # << >>
    <2>1. PICK p \in 1..Len(v) : v[p].kind = "junk" /\ \A x \in 1..p - 1 : ~ Completes(v[x])
      BY <1>13, <1>16 DEF JunkAhead
    <2>2. \A x \in 1..j - 1 : v[x].kind # "junk"
      BY FirstJunkIs DEF j
    <2>3. j = p
      <3>1. ~ (j < p)
        <4> SUFFICES ASSUME j < p PROVE FALSE
          OBVIOUS
        <4>1. j \in 1..p - 1 /\ j # Len(v) + 1
          BY <1>2, <2>1
        <4>2. v[j].kind = "junk"
          BY <4>1, FirstJunkIs DEF j
        <4> QED BY <2>1, <4>1, <4>2 DEF Completes
      <3>2. ~ (p < j)
        <4> SUFFICES ASSUME p < j PROVE FALSE
          OBVIOUS
        <4>1. p \in 1..j - 1
          BY <1>2
        <4> QED BY <2>1, <2>2, <4>1
      <3> QED BY <1>2, <3>1, <3>2
    <2>4. m = 0
      <3> SUFFICES ASSUME m # 0 PROVE FALSE
        OBVIOUS
      <3>1. m \in 1..p - 1
        BY <1>1, <1>2, <2>3
      <3> QED BY <1>1, <2>1, <3>1
    <2>5. SubSeq(v, 1, m) = << >>
      BY <2>4
    <2>6. A = << >>
      <3>1. << >> \in Seq(Piece) /\ \A x \in 1..Len(<< >>) : ~ Completes(<< >>[x])
        OBVIOUS
      <3>2. Answers(<< >>) = << >>
        BY <3>1, AnswersNone
      <3> QED BY <1>6, <2>5, <3>2
    <2>7. AnswersTo(c, i + m) = AnswersTo(c, i)
      BY <1>10, <1>12, <2>6, ConcatEmpty
    <2>8. r \o (A \o B) = AnswersTo(c, i + m) \o (e \o B)
      <3>1. A \o B = B
        BY <1>4, <2>6, ConcatEmpty
      <3>2. (AnswersTo(c, i) \o e) \o B = AnswersTo(c, i) \o (e \o B)
        <4>1. e \in Seq(Piece) /\ B \in Seq(Piece) /\ AnswersTo(c, i) \in Seq(Piece)
          BY <1>4, <1>10
        <4> QED BY <4>1, ConcatAssoc, Zenon
      <3> QED BY <1>13, <2>7, <3>1, <3>2, Zenon
    <2>9. e \o B \in Seq(Piece) /\ \A x \in 1..Len(e \o B) : (e \o B)[x].kind = "junk"
      BY <1>4, <1>13
    <2>10. JunkAhead(w)
      <3>1. w = v
        BY <1>7, <1>2, <2>4, SeqEqual DEF w
      <3> QED BY <1>13, <1>16, <3>1
    <2>11. Answered(c, w, i + m, r \o (A \o B))
      BY <2>8, <2>9, <2>10 DEF Answered
    <2> QED BY <1>14, <2>11 DEF i, m, w
  <1> QED BY <1>15, <1>16
=============================================================================
