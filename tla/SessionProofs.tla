---------------------------- MODULE SessionProofs ---------------------------
(***************************************************************************)
(* Proofs about Resp and Session, for any bytes, scripts and patterns: the *)
(* parser's verdict on a message does not depend on how the stream is cut  *)
(* in reads, glob_match finds a match wherever there is one, every handler *)
(* keeps the database well typed and counts its change, and the messages   *)
(* are executed whole, once and in order.                                  *)
(* Induction over positions and counts is by the least counterexample.     *)
(***************************************************************************)
EXTENDS Session, WellFoundedInduction, SequenceTheorems, TLAPS

-----------------------------------------------------------------------------
(***************************************************************************)
(* Least elements.                                                         *)
(***************************************************************************)
Less == OpToRel(<, Nat)

LEMMA LessWellFounded == IsWellFoundedOn(Less, Nat)
  BY NatLessThanWellFounded DEF Less

LEMMA LessPairs ==
  ASSUME NEW x \in Nat, NEW y \in Nat, x < y
  PROVE  <<x, y>> \in Less
  BY DEF Less, OpToRel

LEMMA LeastElement ==
  ASSUME NEW T \in SUBSET Nat, T # {}
  PROVE  \E x \in T : \A y \in T : x <= y
  <1>1. PICK x \in T : \A y \in T : ~ (<<y, x>> \in Less)
    BY LessWellFounded, WFMin
  <1>2. \A y \in T : ~ (y < x)
    BY <1>1, LessPairs
  <1> QED BY <1>2

\* A set of numbers up to some bound has a greatest element.
LEMMA GreatestElement ==
  ASSUME NEW b \in Nat, NEW T \in SUBSET (0..b), T # {}
  PROVE  \E x \in T : \A y \in T : y <= x
  <1> DEFINE U == {b - x : x \in T}
  <1>0. \A x \in T : x \in Int /\ 0 <= x /\ x <= b /\ b - x \in Nat
    OBVIOUS
  <1>1. U \in SUBSET Nat /\ U # {}
    BY <1>0
  <1>2. PICK u \in U : \A w \in U : u <= w
    BY <1>1, LeastElement
  <1>3. PICK x \in T : u = b - x
    BY <1>2
  <1>4. \A y \in T : b - y \in U
    OBVIOUS
  <1> HIDE DEF U
  <1>5. \A y \in T : b - x <= b - y
    BY <1>2, <1>3, <1>4
  <1>6. \A y \in T : y <= x
    BY <1>0, <1>3, <1>5
  <1> QED BY <1>6

-----------------------------------------------------------------------------
(***************************************************************************)
(* Lines and numbers.                                                      *)
(***************************************************************************)
\* What from_chars gives is a 64-bit number or NotInt.
LEMMA NumberRange ==
  ASSUME NEW s
  PROVE  from_chars(s).value \in (IntMin..IntMax) \cup {NotInt}
  BY DEF from_chars

LEMMA NumberIsInt ==
  ASSUME NEW s, from_chars(s).value # NotInt
  PROVE  from_chars(s).value \in Int /\ from_chars(s).value <= IntMax
  <1>1. from_chars(s).value \in IntMin..IntMax
    BY NumberRange
  <1> QED BY <1>1, RespAssumption DEF IntMin

\* The places of a CR LF from pos on.
Ends(input, pos) ==
  {i \in pos..Len(input) - 2 : At(input, i) = "CR" /\ At(input, i + 1) = "LF"}

LEMMA FirstEnd ==
  ASSUME NEW S, NEW input \in Seq(S), NEW pos \in Nat
  PROVE  IF Ends(input, pos) = {} THEN find_crlf(input, pos) = -1
         ELSE \E i \in Ends(input, pos) : /\ \A j \in Ends(input, pos) : i <= j
                                          /\ find_crlf(input, pos) = i - pos
  <1> DEFINE T == Ends(input, pos)
  <1>1. T \in SUBSET Nat
    BY DEF Ends
  <1>2. find_crlf(input, pos)
          = IF T = {} THEN -1 ELSE (CHOOSE i \in T : \A j \in T : i <= j) - pos
    BY DEF find_crlf, Ends
  <1> HIDE DEF T
  <1>3. ASSUME T # {}
        PROVE  \E i \in T : (\A j \in T : i <= j) /\ find_crlf(input, pos) = i - pos
    <2>1. \E i \in T : \A j \in T : i <= j
      BY <1>1, <1>3, LeastElement
    <2> DEFINE m == CHOOSE i \in T : \A j \in T : i <= j
    <2>2. m \in T /\ \A j \in T : m <= j
      BY <2>1
    <2>3. find_crlf(input, pos) = m - pos
      BY <1>2, <1>3
    <2> QED BY <2>2, <2>3
  <1>4. T = {} => find_crlf(input, pos) = -1
    BY <1>2
  <1> QED BY <1>3, <1>4 DEF T

\* A line ends within the input.
LEMMA LineBounds ==
  ASSUME NEW S, NEW input \in Seq(S), NEW pos \in Nat, parse_line(input, pos).ok
  PROVE  parse_line(input, pos).pos \in pos + 2..Len(input)
  <1>1. find_crlf(input, pos) >= 0
    BY DEF parse_line
  <1>2. PICK i \in Ends(input, pos) : find_crlf(input, pos) = i - pos
    BY <1>1, FirstEnd
  <1>3. i \in pos..Len(input) - 2
    BY DEF Ends
  <1>4. parse_line(input, pos).pos = pos + (i - pos) + 2
    BY <1>2 DEF parse_line
  <1> QED BY <1>3, <1>4

-----------------------------------------------------------------------------
(***************************************************************************)
(* The outcome of a parse: more is needed, or it is an error, or an        *)
(* exception, or a value that ends behind its beginning and within the     *)
(* input.                                                                  *)
(***************************************************************************)
Outcome(r, pos, len) ==
  \/ r = Incomplete
  \/ r = Malformed
  \/ r = Throws
  \/ r.result = "Complete" /\ r.pos \in pos + 1..len

LEMMA OutcomeCases ==
  /\ Incomplete.result = "Incomplete" /\ Malformed.result = "Error"
  /\ Throws.result = "Throws"
  /\ \A v, pos : Parsed(v, pos).result = "Complete" /\ Parsed(v, pos).pos = pos
                   /\ Parsed(v, pos).value = v
  BY DEF Incomplete, Malformed, Throws, Parsed

LEMMA SimpleOutcome ==
  ASSUME NEW S, NEW input \in Seq(S), NEW pos \in Nat, At(input, pos) \in {"+", "-", ":"}
  PROVE  Outcome(parse_simple(input, pos), pos, Len(input))
  <1> DEFINE l == parse_line(input, pos + 1)
             r == parse_simple(input, pos)
  <1>1. CASE ~ l.ok
    BY <1>1 DEF parse_simple, Outcome
  <1>2. CASE l.ok
    <2>1. l.pos \in pos + 1..Len(input)
      <3>1. l.pos \in pos + 1 + 2..Len(input)
        BY <1>2, LineBounds
      <3> QED BY <3>1
    <2>2. r = Malformed \/ \E v : r = Parsed(v, l.pos)
      BY <1>2 DEF parse_simple
    <2> QED BY <2>1, <2>2, OutcomeCases DEF Outcome
  <1> QED BY <1>1, <1>2

LEMMA InsideInput ==
  ASSUME NEW S, NEW input \in Seq(S), NEW pos \in Nat, At(input, pos) # "outside"
  PROVE  pos < Len(input)
  BY DEF At

LEMMA BulkOutcome ==
  ASSUME NEW S, NEW input \in Seq(S), NEW pos \in Nat
  PROVE  Outcome(parse_bulk_string(input, pos), pos, Len(input))
  <1> DEFINE l == parse_line(input, pos + 1)
             n == from_chars(l.line).value
             r == parse_bulk_string(input, pos)
  <1>1. CASE ~ l.ok
    BY <1>1 DEF parse_bulk_string, Outcome
  <1>2. CASE l.ok
    <2>1. l.pos \in Nat /\ l.pos \in pos + 1..Len(input)
      <3>1. l.pos \in pos + 1 + 2..Len(input)
        BY <1>2, LineBounds
      <3> QED BY <3>1
    <2>2. CASE n = NotInt \/ n = -1
      BY <1>2, <2>1, <2>2, OutcomeCases DEF parse_bulk_string, Outcome
    <2>3. CASE n # NotInt /\ n # -1
      <3>1. n \in Int
        BY <2>3, NumberIsInt
      <3>2. CASE n < 0 \/ payload_end(l.pos, n) > Len(input)
        BY <1>2, <2>3, <3>2 DEF parse_bulk_string, Outcome
      <3>3. CASE ~ (n < 0 \/ payload_end(l.pos, n) > Len(input))
        <4> DEFINE tail == <<At(input, l.pos + n), At(input, l.pos + n + 1)>>
        <4>1. CASE tail # CRLF
          BY <1>2, <2>3, <3>3, <4>1 DEF parse_bulk_string, Outcome
        <4>2. CASE tail = CRLF
          <5>1. At(input, l.pos + n + 1) # "outside"
            BY <4>2 DEF CRLF
          <5>2. l.pos + n + 1 \in Nat /\ n >= 0
            BY <2>1, <3>1, <3>3
          <5>3. l.pos + n + 1 < Len(input)
            BY <5>1, <5>2, InsideInput
          <5>4. r = Parsed(BulkString(SubSeq(input, l.pos + 1, l.pos + n)), l.pos + n + 2)
            BY <1>2, <2>3, <3>3, <4>2 DEF parse_bulk_string
          <5>5. l.pos + n + 2 \in pos + 1..Len(input)
            BY <2>1, <3>1, <5>2, <5>3
          <5> QED BY <5>4, <5>5, OutcomeCases DEF Outcome
        <4> QED BY <4>1, <4>2
      <3> QED BY <3>2, <3>3
    <2> QED BY <2>2, <2>3
  <1> QED BY <1>1, <1>2

-----------------------------------------------------------------------------
(***************************************************************************)
(* The elements of an array.                                               *)
(***************************************************************************)
ElementsSolve(values, pos, g, count) ==
  g = [n \in 0..count |-> IF n = 0 THEN Parsed(Array(<< >>), pos) ELSE NextElement(values, g[n - 1])]

LEMMA ElementsExist ==
  ASSUME NEW values, NEW pos, NEW count \in Nat
  PROVE  \E g : ElementsSolve(values, pos, g, count)
  <1> DEFINE Start == Parsed(Array(<< >>), pos)
             T == {m \in Nat : ~ \E g : ElementsSolve(values, pos, g, m)}
  <1> SUFFICES ASSUME T # {} PROVE FALSE
    OBVIOUS
  <1>1. PICK x \in T : \A y \in T : x <= y
    BY LeastElement
  <1>2. x # 0
    <2> DEFINE g == [m \in 0..0 |-> Start]
    <2>1. ElementsSolve(values, pos, g, 0)
      BY DEF ElementsSolve
    <2> QED BY <2>1
  <1>3. x - 1 \in Nat /\ x - 1 \notin T
    BY <1>1, <1>2
  <1>4. PICK g : ElementsSolve(values, pos, g, x - 1)
    BY <1>3
  <1> DEFINE h == [m \in 0..x |-> IF m = x THEN NextElement(values, g[x - 1]) ELSE g[m]]
  <1> HIDE DEF Start
  <1>5. \A m \in 0..x - 1 : g[m] = IF m = 0 THEN Start ELSE NextElement(values, g[m - 1])
    BY <1>4 DEF ElementsSolve, Start
  <1>6. \A m \in 0..x - 1 : h[m] = g[m]
    BY <1>3
  <1>7. h[x] = NextElement(values, g[x - 1])
    BY <1>1
  <1>8. \A m \in 0..x : h[m] = IF m = 0 THEN Start ELSE NextElement(values, h[m - 1])
    <2> SUFFICES ASSUME NEW m \in 0..x
                 PROVE  h[m] = IF m = 0 THEN Start ELSE NextElement(values, h[m - 1])
      OBVIOUS
    <2>1. CASE m = x
      <3>1. h[x - 1] = g[x - 1]
        BY <1>3, <1>6
      <3> QED BY <1>2, <1>7, <2>1, <3>1
    <2>2. CASE m # x
      <3>1. m \in 0..x - 1 /\ (m # 0 => m - 1 \in 0..x - 1)
        BY <1>3, <2>2
      <3>2. m # 0 => h[m - 1] = g[m - 1]
        BY <1>6, <3>1
      <3> HIDE DEF h
      <3> QED BY <1>5, <1>6, <3>1, <3>2
    <2> QED BY <2>1, <2>2
  <1>9. h = [m \in 0..x |-> h[m]]
    OBVIOUS
  <1> HIDE DEF h
  <1>10. ElementsSolve(values, pos, h, x)
    BY <1>8, <1>9 DEF ElementsSolve, Start
  <1> QED BY <1>10

LEMMA ElementsUnfold ==
  ASSUME NEW values, NEW pos, NEW count \in Nat
  PROVE  LET e == Elements(values, pos, count)
         IN  /\ e[0] = Parsed(Array(<< >>), pos)
             /\ \A n \in 1..count : e[n] = NextElement(values, e[n - 1])
  <1> DEFINE e == Elements(values, pos, count)
  <1>1. \E g : ElementsSolve(values, pos, g, count)
    BY ElementsExist
  <1>2. e = CHOOSE g : ElementsSolve(values, pos, g, count)
    BY DEF Elements, ElementsSolve
  <1>3. ElementsSolve(values, pos, e, count)
    BY <1>1, <1>2
  <1> HIDE DEF e
  <1>4. /\ e[0] = Parsed(Array(<< >>), pos)
        /\ \A n \in 1..count : e[n] = NextElement(values, e[n - 1])
    BY <1>3 DEF ElementsSolve
  <1> QED BY <1>4 DEF e

\* What values says of the positions from lo on is an outcome.
OutcomesFrom(values, lo, len) == \A p \in lo..len : Outcome(values[p], p, len)

\* The loop, too, comes to an outcome, if at the position where it began.
LEMMA ElementsOutcome ==
  ASSUME NEW values, NEW len \in Nat, NEW lo \in Nat, OutcomesFrom(values, lo, len),
         NEW pos \in lo..len, NEW count \in Nat, NEW n \in 0..count
  PROVE  LET r == Elements(values, pos, count)[n]
         IN  r = Incomplete \/ r = Malformed \/ r = Throws \/ (r.result = "Complete" /\ r.pos \in pos..len)
  <1> DEFINE e == Elements(values, pos, count)
             P(m) == e[m] = Incomplete \/ e[m] = Malformed \/ e[m] = Throws
                       \/ (e[m].result = "Complete" /\ e[m].pos \in pos..len)
             T == {m \in 0..count : ~ P(m)}
  <1>e. /\ e[0] = Parsed(Array(<< >>), pos)
        /\ \A m \in 1..count : e[m] = NextElement(values, e[m - 1])
    BY ElementsUnfold
  <1> HIDE DEF e
  <1> SUFFICES ASSUME T # {} PROVE FALSE
    BY DEF e
  <1>0. T \in SUBSET Nat
    OBVIOUS
  <1>1. PICK x \in T : \A y \in T : x <= y
    BY <1>0, LeastElement
  <1>2. P(0)
    BY <1>e, OutcomeCases
  <1>3. x \in 1..count /\ x - 1 \in 0..count /\ x - 1 \notin T
    BY <1>1, <1>2
  <1>4. P(x - 1) /\ e[x] = NextElement(values, e[x - 1])
    BY <1>e, <1>3
  <1>5. CASE e[x - 1].result # "Complete"
    <2>1. e[x] = e[x - 1]
      BY <1>4, <1>5 DEF NextElement
    <2> QED BY <1>1, <1>4, <2>1
  <1>6. CASE e[x - 1].result = "Complete"
    <2> DEFINE p == e[x - 1].pos
    <2>1. p \in pos..len
      BY <1>4, <1>6, OutcomeCases
    <2>2. Outcome(values[p], p, len)
      BY <2>1 DEF OutcomesFrom
    <2>3. CASE values[p].result # "Complete"
      <3>1. e[x] = values[p]
        BY <1>4, <1>6, <2>3 DEF NextElement
      <3>2. P(x)
        BY <2>2, <2>3, <3>1 DEF Outcome
      <3> QED BY <1>1, <3>2
    <2>4. CASE values[p].result = "Complete"
      <3>1. values[p].pos \in p + 1..len
        BY <2>2, <2>4, OutcomeCases DEF Outcome
      <3>2. e[x].result = "Complete" /\ e[x].pos = values[p].pos
        BY <1>4, <1>6, <2>4, OutcomeCases DEF NextElement
      <3>3. e[x].pos \in pos..len
        BY <2>1, <3>1, <3>2
      <3> QED BY <1>1, <3>2, <3>3
    <2> QED BY <2>3, <2>4
  <1> QED BY <1>5, <1>6

AgreeFrom(values, others, lo, len) == \A p \in lo..len : values[p] = others[p]

\* The loop reads the values at its own position and behind.
LEMMA ElementsAgree ==
  ASSUME NEW values, NEW others, NEW len \in Nat, NEW lo \in Nat,
         OutcomesFrom(values, lo, len), AgreeFrom(values, others, lo, len),
         NEW pos \in lo..len, NEW count \in Nat, NEW n \in 0..count
  PROVE  Elements(values, pos, count)[n] = Elements(others, pos, count)[n]
  <1> DEFINE e == Elements(values, pos, count)
             f == Elements(others, pos, count)
             T == {m \in 0..count : e[m] # f[m]}
  <1>e. /\ e[0] = Parsed(Array(<< >>), pos) /\ f[0] = e[0]
        /\ \A m \in 1..count : e[m] = NextElement(values, e[m - 1])
        /\ \A m \in 1..count : f[m] = NextElement(others, f[m - 1])
    BY ElementsUnfold
  <1>o. \A m \in 0..count : e[m].result = "Complete" => e[m].pos \in pos..len
    BY ElementsOutcome, OutcomeCases
  <1> HIDE DEF e, f
  <1> SUFFICES ASSUME T # {} PROVE FALSE
    BY DEF e, f
  <1>0. T \in SUBSET Nat
    OBVIOUS
  <1>1. PICK x \in T : \A y \in T : x <= y
    BY <1>0, LeastElement
  <1>3. x \in 1..count /\ x - 1 \in 0..count /\ x - 1 \notin T
    BY <1>1, <1>e
  <1>4. e[x - 1] = f[x - 1] /\ e[x] = NextElement(values, e[x - 1]) /\ f[x] = NextElement(others, e[x - 1])
    BY <1>e, <1>3
  <1>5. e[x - 1].result = "Complete" => values[e[x - 1].pos] = others[e[x - 1].pos]
    BY <1>o, <1>3 DEF AgreeFrom
  <1>6. NextElement(values, e[x - 1]) = NextElement(others, e[x - 1])
    BY <1>5 DEF NextElement
  <1> QED BY <1>1, <1>4, <1>6

-----------------------------------------------------------------------------
(***************************************************************************)
(* parse_value: the recursion that defines it has a solution, as a value   *)
(* depends on values that begin behind it only.                            *)
(***************************************************************************)
LEMMA ValueOutcome ==
  ASSUME NEW S, NEW input \in Seq(S), NEW pos \in 0..Len(input),
         NEW values, OutcomesFrom(values, pos + 1, Len(input))
  PROVE  Outcome(ValueAt(input, pos, values), pos, Len(input))
  <1> DEFINE prefix == At(input, pos)
             r == ValueAt(input, pos, values)
  <1>1. CASE pos >= Len(input)
    <2>1. prefix = "outside"
      BY <1>1 DEF At
    <2>2. r = Incomplete
      BY <1>1, <2>1 DEF ValueAt
    <2> QED BY <2>2 DEF Outcome
  <1>2. CASE ~ (pos >= Len(input)) /\ prefix \in {"+", "-", ":"}
    <2>1. r = parse_simple(input, pos)
      BY <1>2 DEF ValueAt
    <2> QED BY <1>2, <2>1, SimpleOutcome
  <1>3. CASE ~ (pos >= Len(input)) /\ prefix = "$"
    <2>1. r = parse_bulk_string(input, pos)
      BY <1>3 DEF ValueAt
    <2> QED BY <2>1, BulkOutcome
  <1>4. CASE ~ (pos >= Len(input)) /\ prefix = "*"
    <2>1. r = parse_array(input, pos, values)
      BY <1>4 DEF ValueAt
    <2> DEFINE l == parse_line(input, pos + 1)
               n == from_chars(l.line).value
    <2>2. CASE ~ l.ok
      BY <2>1, <2>2 DEF parse_array, Outcome
    <2>3. CASE l.ok
      <3>1. l.pos \in Nat /\ l.pos \in pos + 1..Len(input)
        <4>1. l.pos \in pos + 1 + 2..Len(input)
          BY <2>3, LineBounds
        <4> QED BY <4>1
      <3>2. CASE n = NotInt \/ n = -1
        BY <2>1, <2>3, <3>1, <3>2, OutcomeCases DEF parse_array, Outcome
      <3>3. CASE n # NotInt /\ n # -1
        <4>1. n \in Int
          BY <3>3, NumberIsInt
        <4>2. CASE n < 0 \/ n > MaxElements
          BY <2>1, <2>3, <3>3, <4>2 DEF parse_array, Outcome
        <4>3. CASE ~ (n < 0) /\ ~ (n > MaxElements)
          <5>1. r = Elements(values, l.pos, n)[n]
            BY <2>1, <2>3, <3>3, <4>3 DEF parse_array
          <5>2. n \in Nat /\ n \in 0..n /\ pos + 1 \in Nat /\ Len(input) \in Nat
            BY <4>1, <4>3
          <5> HIDE DEF n, l, r
          <5>3. r = Incomplete \/ r = Malformed \/ r = Throws
                  \/ (r.result = "Complete" /\ r.pos \in l.pos..Len(input))
            BY <3>1, <5>1, <5>2, ElementsOutcome
          <5>4. r.pos \in l.pos..Len(input) => r.pos \in pos + 1..Len(input)
            BY <3>1
          <5>5. Outcome(r, pos, Len(input))
            BY <5>3, <5>4 DEF Outcome
          <5> QED BY <5>5 DEF r
        <4> QED BY <4>2, <4>3
      <3> QED BY <3>2, <3>3
    <2> QED BY <2>2, <2>3
  <1>5. CASE ~ (pos >= Len(input)) /\ prefix \notin {"+", "-", ":", "$", "*"}
    <2>1. r = Malformed
      BY <1>5 DEF ValueAt
    <2> QED BY <2>1 DEF Outcome
  <1> QED BY <1>1, <1>2, <1>3, <1>4, <1>5

LEMMA ValueAgrees ==
  ASSUME NEW S, NEW input \in Seq(S), NEW pos \in 0..Len(input),
         NEW values, NEW others, OutcomesFrom(values, pos + 1, Len(input)),
         \A p \in pos + 1..Len(input) : values[p] = others[p]
  PROVE  ValueAt(input, pos, values) = ValueAt(input, pos, others)
  <1>1. parse_array(input, pos, values) = parse_array(input, pos, others)
    <2> DEFINE l == parse_line(input, pos + 1)
               n == from_chars(l.line).value
    <2>1. CASE ~ l.ok \/ n = NotInt \/ n = -1
      BY <2>1 DEF parse_array
    <2>2. CASE l.ok /\ n # NotInt /\ n # -1
      <3>1. n \in Int
        BY <2>2, NumberIsInt
      <3>2. CASE n < 0 \/ n > MaxElements
        BY <2>2, <3>2 DEF parse_array
      <3>3. CASE ~ (n < 0) /\ ~ (n > MaxElements)
        <4>1. l.pos \in pos + 1 + 2..Len(input)
          BY <2>2, LineBounds
        <4>2. l.pos \in pos + 1..Len(input) /\ pos + 1 \in Nat /\ Len(input) \in Nat
                /\ n \in Nat /\ n \in 0..n
          BY <3>1, <3>3, <4>1
        <4>3. Elements(values, l.pos, n)[n] = Elements(others, l.pos, n)[n]
          <5> DEFINE lo == pos + 1
                     len == Len(input)
                     at == l.pos
          <5>1. OutcomesFrom(values, lo, len) /\ AgreeFrom(values, others, lo, len)
            BY DEF AgreeFrom
          <5>2. at \in lo..len /\ lo \in Nat /\ len \in Nat /\ n \in Nat /\ n \in 0..n
            BY <4>2
          <5> HIDE DEF l, n, lo, len, at
          <5>3. \A m \in 0..n : Elements(values, at, n)[m] = Elements(others, at, n)[m]
            BY <5>1, <5>2, ElementsAgree
          <5>4. Elements(values, at, n)[n] = Elements(others, at, n)[n]
            BY <5>2, <5>3
          <5> QED BY <5>4 DEF at
        <4> QED BY <2>2, <3>3, <4>3 DEF parse_array
      <3> QED BY <3>2, <3>3
    <2> QED BY <2>1, <2>2
  <1> QED BY <1>1 DEF ValueAt

\* g says what parse_value says, from lo on.
Says(input, g, lo) ==
  /\ g = [pos \in lo..Len(input) |-> ValueAt(input, pos, g)]
  /\ OutcomesFrom(g, lo, Len(input))

LEMMA ValuesExist ==
  ASSUME NEW S, NEW input \in Seq(S), NEW lo \in 0..Len(input)
  PROVE  \E g : Says(input, g, lo)
  <1> DEFINE len == Len(input)
             T == {x \in 0..len : ~ \E g : Says(input, g, x)}
  <1> SUFFICES ASSUME T # {} PROVE FALSE
    OBVIOUS
  <1>l. len \in Nat /\ T \in SUBSET (0..len)
    OBVIOUS
  <1>1. PICK x \in T : \A y \in T : y <= x
    <2> HIDE DEF T, len
    <2> QED BY <1>l, GreatestElement
  <1>2. \E g : g = [pos \in x + 1..len |-> ValueAt(input, pos, g)] /\ OutcomesFrom(g, x + 1, len)
    <2>1. CASE x = len
      <3> DEFINE g == [pos \in {} |-> pos]
      <3>1. x + 1..len = {}
        BY <1>l, <2>1
      <3>2. g = [pos \in x + 1..len |-> ValueAt(input, pos, g)] /\ OutcomesFrom(g, x + 1, len)
        BY <3>1 DEF OutcomesFrom
      <3> QED BY <3>2
    <2>2. CASE x # len
      <3>1. x + 1 \in 0..len /\ x + 1 \notin T
        BY <1>l, <1>1, <2>2
      <3> QED BY <3>1 DEF Says
    <2> QED BY <2>1, <2>2
  <1>3. PICK g : g = [pos \in x + 1..len |-> ValueAt(input, pos, g)] /\ OutcomesFrom(g, x + 1, len)
    BY <1>2
  <1> DEFINE h == [pos \in x..len |-> IF pos = x THEN ValueAt(input, x, g) ELSE g[pos]]
  <1>x. x \in 0..len /\ x \in Nat /\ x + 1 \in Nat
    BY <1>l
  <1> HIDE DEF T
  <1>4. \A p \in x + 1..len : h[p] = g[p]
    BY <1>l, <1>x
  <1>5. h[x] = ValueAt(input, x, g)
    BY <1>l, <1>x
  <1>6. h = [pos \in x..len |-> h[pos]]
    OBVIOUS
  <1> HIDE DEF h
  <1>7. OutcomesFrom(h, x, len)
    <2>1. Outcome(h[x], x, len)
      BY <1>3, <1>5, <1>x, ValueOutcome
    <2>2. \A p \in x + 1..len : Outcome(h[p], p, len)
      BY <1>3, <1>4 DEF OutcomesFrom
    <2>3. \A p \in x..len : p = x \/ p \in x + 1..len
      BY <1>l, <1>x
    <2> QED BY <2>1, <2>2, <2>3 DEF OutcomesFrom
  <1>8. \A pos \in x..len : h[pos] = ValueAt(input, pos, h)
    <2> SUFFICES ASSUME NEW pos \in x..len PROVE h[pos] = ValueAt(input, pos, h)
      OBVIOUS
    <2>1. pos \in 0..len /\ \A p \in pos + 1..len : p \in x + 1..len
      BY <1>l, <1>x
    <2>2. OutcomesFrom(g, pos + 1, len) /\ \A p \in pos + 1..len : g[p] = h[p]
      BY <1>3, <1>4, <2>1 DEF OutcomesFrom
    <2>3. ValueAt(input, pos, g) = ValueAt(input, pos, h)
      BY <2>1, <2>2, ValueAgrees
    <2>4. CASE pos = x
      BY <1>5, <2>3, <2>4
    <2>5. CASE pos # x
      <3>1. pos \in x + 1..len
        BY <1>l, <1>x, <2>5
      <3>2. g[pos] = ValueAt(input, pos, g)
        BY <1>3, <3>1
      <3> QED BY <1>4, <2>3, <3>1, <3>2
    <2> QED BY <2>4, <2>5
  <1>9. Says(input, h, x)
    BY <1>6, <1>7, <1>8 DEF Says
  <1> QED BY <1>1, <1>9 DEF T

LEMMA ValuesUnfold ==
  ASSUME NEW S, NEW input \in Seq(S)
  PROVE  /\ \A pos \in 0..Len(input) :
              parse_value(input)[pos] = ValueAt(input, pos, parse_value(input))
         /\ OutcomesFrom(parse_value(input), 0, Len(input))
  <1> DEFINE Eq(g) == g = [pos \in 0..Len(input) |-> ValueAt(input, pos, g)]
             v == parse_value(input)
             len == Len(input)
  <1>1. PICK g : Says(input, g, 0)
    <2>1. 0 \in 0..Len(input)
      OBVIOUS
    <2> QED BY <2>1, ValuesExist
  <1>2. Eq(g)
    BY <1>1 DEF Says
  <1>3. v = CHOOSE h : Eq(h)
    BY DEF parse_value
  <1>4. Eq(v)
    BY <1>2, <1>3
  <1>5. \A pos \in 0..len : v[pos] = ValueAt(input, pos, v)
    BY <1>4
  <1> HIDE DEF v, Eq
  <1>6. OutcomesFrom(v, 0, len)
    <2> DEFINE T == {x \in 0..len : ~ Outcome(v[x], x, len)}
    <2>l. len \in Nat /\ T \in SUBSET (0..len)
      OBVIOUS
    <2>1. ASSUME T # {} PROVE FALSE
      <3>1. PICK x \in T : \A y \in T : y <= x
        <4> HIDE DEF T, len
        <4> QED BY <2>l, <2>1, GreatestElement
      <3>2. \A p \in x + 1..len : p \in 0..len /\ p \notin T
        BY <2>l, <3>1
      <3>3. OutcomesFrom(v, x + 1, len) /\ x \in 0..len
        BY <3>1, <3>2 DEF OutcomesFrom
      <3>4. Outcome(ValueAt(input, x, v), x, len)
        BY <3>3, ValueOutcome
      <3> QED BY <1>5, <3>1, <3>3, <3>4
    <2> QED BY <2>1 DEF OutcomesFrom
  <1> QED BY <1>5, <1>6 DEF v

-----------------------------------------------------------------------------
(***************************************************************************)
(* Parsing the beginning p of an input f.  SIZE_MAX is 2 * IntMax + 1.     *)
(***************************************************************************)
Begins(p, f) ==
  /\ Len(p) <= Len(f) /\ \A i \in 1..Len(p) : f[i] = p[i]
  /\ Len(f) <= 2 * IntMax

LEMMA AtStable ==
  ASSUME NEW S, NEW p \in Seq(S), NEW f \in Seq(S), Begins(p, f), NEW pos \in Nat, pos < Len(p)
  PROVE  At(f, pos) = At(p, pos) /\ pos < Len(f)
  BY DEF Begins, At

LEMMA SubSeqStable ==
  ASSUME NEW S, NEW p \in Seq(S), NEW f \in Seq(S), Begins(p, f),
         NEW a \in Nat \ {0}, NEW b \in Int, b <= Len(p)
  PROVE  SubSeq(f, a, b) = SubSeq(p, a, b)
  <1>1. \A i \in a..b : f[i] = p[i]
    BY DEF Begins
  <1>2. Len(p) <= Len(f) /\ Len(f) \in Nat
    BY DEF Begins
  <1>3. CASE b < a
    BY <1>3
  <1>4. CASE a <= b
    <2>0. a \in 1..Len(p) /\ a \in 1..Len(f) /\ b \in 1..Len(p) /\ b \in 1..Len(f)
      BY <1>2, <1>4
    <2>1. /\ SubSeq(f, a, b) \in Seq(S) /\ Len(SubSeq(f, a, b)) = b - a + 1
          /\ \A i \in 1..b - a + 1 : SubSeq(f, a, b)[i] = f[a + i - 1]
      BY <1>4, <2>0
    <2>2. /\ SubSeq(p, a, b) \in Seq(S) /\ Len(SubSeq(p, a, b)) = b - a + 1
          /\ \A i \in 1..b - a + 1 : SubSeq(p, a, b)[i] = p[a + i - 1]
      BY <1>4, <2>0
    <2>3. \A i \in 1..b - a + 1 : a + i - 1 \in a..b
      BY <1>4
    <2>4. \A i \in 1..b - a + 1 : SubSeq(f, a, b)[i] = SubSeq(p, a, b)[i]
      BY <1>1, <2>1, <2>2, <2>3
    <2> QED BY <2>1, <2>2, <2>4, SeqEqual
  <1> QED BY <1>3, <1>4

\* The first CR LF stays the first.
LEMMA LineStable ==
  ASSUME NEW S, NEW p \in Seq(S), NEW f \in Seq(S), Begins(p, f), NEW pos \in Nat,
         parse_line(p, pos).ok
  PROVE  parse_line(f, pos) = parse_line(p, pos)
  <1>0. find_crlf(p, pos) >= 0
    BY DEF parse_line
  <1>1. PICK i \in Ends(p, pos) : (\A j \in Ends(p, pos) : i <= j) /\ find_crlf(p, pos) = i - pos
    BY <1>0, FirstEnd
  <1>2. i \in pos..Len(p) - 2 /\ At(p, i) = "CR" /\ At(p, i + 1) = "LF"
    BY DEF Ends
  <1>l. Len(p) \in Nat /\ Len(f) \in Nat /\ Len(p) <= Len(f)
    BY DEF Begins
  <1>3. \A j \in Nat : j < Len(p) => At(f, j) = At(p, j)
    BY AtStable
  <1>4. i \in Ends(f, pos)
    <2>1. i \in pos..Len(f) - 2 /\ i \in Nat /\ i + 1 \in Nat /\ i < Len(p) /\ i + 1 < Len(p)
      BY <1>2, <1>l
    <2> QED BY <1>2, <1>3, <2>1 DEF Ends
  <1>5. \A j \in Ends(f, pos) : i <= j
    <2> SUFFICES ASSUME NEW j \in Ends(f, pos), ~ (i <= j) PROVE FALSE
      OBVIOUS
    <2>1. j \in pos..Len(f) - 2 /\ At(f, j) = "CR" /\ At(f, j + 1) = "LF"
      BY DEF Ends
    <2>2. j \in pos..Len(p) - 2 /\ j \in Nat /\ j + 1 \in Nat /\ j < Len(p) /\ j + 1 < Len(p)
      BY <1>2, <1>l, <2>1
    <2>3. j \in Ends(p, pos)
      BY <1>3, <2>1, <2>2 DEF Ends
    <2> QED BY <1>1, <2>3
  <1>6. find_crlf(f, pos) = find_crlf(p, pos)
    <2>1. PICK k \in Ends(f, pos) : (\A j \in Ends(f, pos) : k <= j) /\ find_crlf(f, pos) = k - pos
      BY <1>4, FirstEnd
    <2>2. k \in Int /\ i \in Int
      BY <1>2 DEF Ends
    <2>3. k = i
      BY <1>4, <1>5, <2>1, <2>2
    <2> QED BY <1>1, <2>1, <2>3
  <1>7. SubSeq(f, pos + 1, pos + find_crlf(p, pos)) = SubSeq(p, pos + 1, pos + find_crlf(p, pos))
    <2>1. pos + find_crlf(p, pos) = i /\ pos + 1 \in Nat \ {0} /\ i \in Int /\ i <= Len(p)
      BY <1>1, <1>2, <1>l
    <2> QED BY <2>1, SubSeqStable
  <1> QED BY <1>6, <1>7 DEF parse_line

LEMMA SimpleStable ==
  ASSUME NEW S, NEW p \in Seq(S), NEW f \in Seq(S), Begins(p, f), NEW pos \in Nat, pos < Len(p),
         At(p, pos) \in {"+", "-", ":"}, parse_simple(p, pos) # Incomplete
  PROVE  parse_simple(f, pos) = parse_simple(p, pos)
  <1>1. parse_line(p, pos + 1).ok
    BY DEF parse_simple
  <1>2. parse_line(f, pos + 1) = parse_line(p, pos + 1)
    BY <1>1, LineStable
  <1>3. At(f, pos) = At(p, pos)
    BY AtStable
  <1>4. CASE At(p, pos) = "+"
    BY <1>1, <1>2, <1>3, <1>4 DEF parse_simple
  <1>5. CASE At(p, pos) = "-"
    BY <1>1, <1>2, <1>3, <1>5 DEF parse_simple
  <1>6. CASE At(p, pos) = ":"
    BY <1>1, <1>2, <1>3, <1>6 DEF parse_simple
  <1> QED BY <1>4, <1>5, <1>6

LEMMA BulkStable ==
  ASSUME NEW S, NEW p \in Seq(S), NEW f \in Seq(S), Begins(p, f), NEW pos \in Nat,
         parse_bulk_string(p, pos) # Incomplete
  PROVE  parse_bulk_string(f, pos) = parse_bulk_string(p, pos)
  <1> DEFINE l == parse_line(p, pos + 1)
             n == from_chars(l.line).value
             tail(g) == <<At(g, l.pos + n), At(g, l.pos + n + 1)>>
  <1>1. l.ok
    BY DEF parse_bulk_string
  <1>2. parse_line(f, pos + 1) = l
    BY <1>1, LineStable
  <1>3. CASE n = NotInt \/ n = -1
    BY <1>1, <1>2, <1>3 DEF parse_bulk_string
  <1>4. CASE n # NotInt /\ n # -1
    <2>1. n \in Int /\ n <= IntMax
      BY <1>4, NumberIsInt
    <2>2. CASE n < 0
      BY <1>1, <1>2, <1>4, <2>2 DEF parse_bulk_string
    <2>3. CASE ~ (n < 0)
      <3>1. l.pos \in Nat /\ n \in Nat /\ l.pos + n \in Nat /\ l.pos + n + 1 \in Nat
        <4>1. l.pos \in pos + 1 + 2..Len(p)
          BY <1>1, LineBounds
        <4> QED BY <2>1, <2>3, <4>1
      <3>2. ~ (payload_end(l.pos, n) > Len(p))
        BY <1>1, <1>4, <2>3 DEF parse_bulk_string
      <3>3. Len(p) \in Nat /\ Len(f) \in Nat /\ Len(p) <= Len(f) /\ Len(f) <= 2 * IntMax /\ IntMax \in Nat
        BY RespAssumption DEF Begins
      <3> DEFINE x == l.pos + n + 2
                 m == 2 * (IntMax + 1)
      <3>4. payload_end(l.pos, n) = x % m /\ x \in Nat /\ m \in Nat /\ m > 0
        BY <3>1, <3>3 DEF payload_end, usize
      <3>5. ~ (payload_end(l.pos, n) > Len(f))
        <4>1. x % m \in Int
          <5> HIDE DEF x, m
          <5> QED BY <3>4
        <4> QED BY <3>2, <3>3, <3>4, <4>1
      <3>6. tail(f) = tail(p) /\ (tail(p) = CRLF => l.pos + n <= Len(p))
        <4>1. CASE x < m
          <5>1. x % m = x
            <6> HIDE DEF x, m
            <6> QED BY <3>4, <4>1
          <5>2. x <= Len(p)
            BY <3>2, <3>3, <3>4, <5>1
          <5>3. l.pos + n < Len(p) /\ l.pos + n + 1 < Len(p)
            BY <3>1, <3>3, <5>2
          <5>4. At(f, l.pos + n) = At(p, l.pos + n) /\ At(f, l.pos + n + 1) = At(p, l.pos + n + 1)
            BY <3>1, <5>3, AtStable
          <5> QED BY <3>1, <3>3, <5>3, <5>4
        <4>2. CASE ~ (x < m)
          <5>1. l.pos + n >= Len(f) /\ l.pos + n + 1 >= Len(f)
            BY <3>1, <3>3, <4>2
          <5>2. \A k \in Nat : k >= Len(f) => At(f, k) = "outside" /\ At(p, k) = "outside"
            BY <3>3 DEF At
          <5>3. At(f, l.pos + n) = "outside" /\ At(p, l.pos + n) = "outside"
                  /\ At(f, l.pos + n + 1) = "outside" /\ At(p, l.pos + n + 1) = "outside"
            BY <3>1, <5>1, <5>2
          <5>4. tail(p) # CRLF
            BY <5>3 DEF CRLF
          <5> QED BY <5>3, <5>4
        <4> QED BY <4>1, <4>2
      <3>7. CASE tail(p) # CRLF
        <4>1. parse_bulk_string(p, pos) = Malformed
          BY <1>1, <1>4, <2>3, <3>2, <3>7 DEF parse_bulk_string
        <4>2. parse_bulk_string(f, pos) = Malformed
          BY <1>1, <1>2, <1>4, <2>3, <3>5, <3>6, <3>7 DEF parse_bulk_string
        <4> QED BY <4>1, <4>2
      <3>8. CASE tail(p) = CRLF
        <4>1. parse_bulk_string(p, pos)
                = Parsed(BulkString(SubSeq(p, l.pos + 1, l.pos + n)), l.pos + n + 2)
          BY <1>1, <1>4, <2>3, <3>2, <3>8 DEF parse_bulk_string
        <4>2. parse_bulk_string(f, pos)
                = Parsed(BulkString(SubSeq(f, l.pos + 1, l.pos + n)), l.pos + n + 2)
          BY <1>1, <1>2, <1>4, <2>3, <3>5, <3>6, <3>8 DEF parse_bulk_string
        <4>3. SubSeq(f, l.pos + 1, l.pos + n) = SubSeq(p, l.pos + 1, l.pos + n)
          <5>1. l.pos + 1 \in Nat \ {0} /\ l.pos + n \in Int /\ l.pos + n <= Len(p)
            BY <3>1, <3>6, <3>8
          <5> HIDE DEF l, n
          <5> QED BY <5>1, SubSeqStable
        <4> QED BY <4>1, <4>2, <4>3
      <3> QED BY <3>7, <3>8
    <2> QED BY <2>2, <2>3
  <1> QED BY <1>3, <1>4

\* The verdicts from lo on, of the beginning and of the whole.
StableFrom(values, wholes, lo, len) ==
  \A q \in lo..len : values[q] # Incomplete => wholes[q] = values[q]

LEMMA ElementsStable ==
  ASSUME NEW values, NEW wholes, NEW len \in Nat, NEW lo \in Nat,
         OutcomesFrom(values, lo, len), StableFrom(values, wholes, lo, len),
         NEW pos \in lo..len, NEW count \in Nat, NEW n \in 0..count,
         Elements(values, pos, count)[n] # Incomplete
  PROVE  Elements(wholes, pos, count)[n] = Elements(values, pos, count)[n]
  <1> DEFINE e == Elements(values, pos, count)
             f == Elements(wholes, pos, count)
             T == {m \in 0..count : e[m] # Incomplete /\ f[m] # e[m]}
  <1>e. /\ e[0] = Parsed(Array(<< >>), pos) /\ f[0] = e[0]
        /\ \A m \in 1..count : e[m] = NextElement(values, e[m - 1])
        /\ \A m \in 1..count : f[m] = NextElement(wholes, f[m - 1])
    BY ElementsUnfold
  <1>o. \A m \in 0..count : e[m].result = "Complete" => e[m].pos \in pos..len
    BY ElementsOutcome, OutcomeCases
  <1> HIDE DEF e, f
  <1> SUFFICES ASSUME T # {} PROVE FALSE
    BY DEF e, f
  <1>0. T \in SUBSET Nat
    OBVIOUS
  <1>1. PICK x \in T : \A y \in T : x <= y
    BY <1>0, LeastElement
  <1>2. x \in 1..count /\ x - 1 \in 0..count /\ x - 1 \notin T
    BY <1>1, <1>e
  <1>3. e[x] = NextElement(values, e[x - 1]) /\ f[x] = NextElement(wholes, f[x - 1])
    BY <1>e, <1>2
  <1>4. e[x] # Incomplete /\ f[x] # e[x]
    BY <1>1
  <1>5. e[x - 1] # Incomplete
    BY <1>3, <1>4, OutcomeCases DEF NextElement
  <1>6. f[x - 1] = e[x - 1]
    BY <1>2, <1>5
  <1>7. CASE e[x - 1].result # "Complete"
    BY <1>3, <1>4, <1>6, <1>7 DEF NextElement
  <1>8. CASE e[x - 1].result = "Complete"
    <2> DEFINE q == e[x - 1].pos
    <2>1. q \in lo..len
      <3>1. q \in pos..len
        BY <1>o, <1>2, <1>8
      <3> QED BY <3>1
    <2>2. values[q] # Incomplete
      BY <1>3, <1>4, <1>8, OutcomeCases DEF NextElement
    <2>3. wholes[q] = values[q]
      BY <2>1, <2>2 DEF StableFrom
    <2>4. NextElement(wholes, e[x - 1]) = NextElement(values, e[x - 1])
      BY <1>8, <2>3 DEF NextElement
    <2> QED BY <1>3, <1>4, <1>6, <2>4
  <1> QED BY <1>7, <1>8

LEMMA ArrayStable ==
  ASSUME NEW S, NEW p \in Seq(S), NEW f \in Seq(S), Begins(p, f), NEW pos \in Nat,
         NEW values, NEW wholes, OutcomesFrom(values, pos + 1, Len(p)),
         StableFrom(values, wholes, pos + 1, Len(p)),
         parse_array(p, pos, values) # Incomplete
  PROVE  parse_array(f, pos, wholes) = parse_array(p, pos, values)
  <1> DEFINE l == parse_line(p, pos + 1)
             n == from_chars(l.line).value
  <1>1. l.ok
    BY DEF parse_array
  <1>2. parse_line(f, pos + 1) = l
    BY <1>1, LineStable
  <1>3. CASE n = NotInt \/ n = -1
    BY <1>1, <1>2, <1>3 DEF parse_array
  <1>4. CASE n # NotInt /\ n # -1
    <2>1. n \in Int
      BY <1>4, NumberIsInt
    <2>2. CASE n < 0 \/ n > MaxElements
      BY <1>1, <1>2, <1>4, <2>2 DEF parse_array
    <2>3. CASE ~ (n < 0) /\ ~ (n > MaxElements)
      <3> DEFINE lo == pos + 1
                 len == Len(p)
                 at == l.pos
      <3>1. l.pos \in pos + 1 + 2..Len(p)
        BY <1>1, LineBounds
      <3>2. at \in lo..len /\ lo \in Nat /\ len \in Nat /\ n \in Nat /\ n \in 0..n
        BY <2>1, <2>3, <3>1
      <3>3. OutcomesFrom(values, lo, len) /\ StableFrom(values, wholes, lo, len)
        OBVIOUS
      <3>4. parse_array(p, pos, values) = Elements(values, at, n)[n]
        BY <1>1, <1>4, <2>3 DEF parse_array
      <3>5. parse_array(f, pos, wholes) = Elements(wholes, at, n)[n]
        BY <1>1, <1>2, <1>4, <2>3 DEF parse_array
      <3> HIDE DEF l, n, lo, len, at
      <3>6. \A m \in 0..n : Elements(values, at, n)[m] # Incomplete =>
              Elements(wholes, at, n)[m] = Elements(values, at, n)[m]
        BY <3>2, <3>3, ElementsStable
      <3> QED BY <3>2, <3>4, <3>5, <3>6
    <2> QED BY <2>2, <2>3
  <1> QED BY <1>3, <1>4

LEMMA ValueStable ==
  ASSUME NEW S, NEW p \in Seq(S), NEW f \in Seq(S), Begins(p, f), NEW pos \in 0..Len(p),
         NEW values, NEW wholes, OutcomesFrom(values, pos + 1, Len(p)),
         StableFrom(values, wholes, pos + 1, Len(p)),
         ValueAt(p, pos, values) # Incomplete
  PROVE  ValueAt(f, pos, wholes) = ValueAt(p, pos, values)
  <1> DEFINE prefix == At(p, pos)
  <1>1. ~ (pos >= Len(p))
    <2>1. pos >= Len(p) => prefix = "outside"
      BY DEF At
    <2> QED BY <2>1 DEF ValueAt
  <1>2. pos \in Nat /\ pos < Len(p) /\ ~ (pos >= Len(f)) /\ At(f, pos) = prefix
    BY <1>1, AtStable
  <1>3. CASE prefix \in {"+", "-", ":"}
    <2>1. ValueAt(p, pos, values) = parse_simple(p, pos)
      BY <1>1, <1>3 DEF ValueAt
    <2>2. ValueAt(f, pos, wholes) = parse_simple(f, pos)
      BY <1>2, <1>3 DEF ValueAt
    <2> QED BY <1>2, <1>3, <2>1, <2>2, SimpleStable
  <1>4. CASE prefix = "$"
    <2>1. ValueAt(p, pos, values) = parse_bulk_string(p, pos)
      BY <1>1, <1>4 DEF ValueAt
    <2>2. ValueAt(f, pos, wholes) = parse_bulk_string(f, pos)
      BY <1>2, <1>4 DEF ValueAt
    <2> QED BY <1>2, <2>1, <2>2, BulkStable
  <1>5. CASE prefix = "*"
    <2>1. ValueAt(p, pos, values) = parse_array(p, pos, values)
      BY <1>1, <1>5 DEF ValueAt
    <2>2. ValueAt(f, pos, wholes) = parse_array(f, pos, wholes)
      BY <1>2, <1>5 DEF ValueAt
    <2> QED BY <1>2, <2>1, <2>2, ArrayStable
  <1>6. CASE prefix \notin {"+", "-", ":", "$", "*"}
    <2>1. ValueAt(p, pos, values) = Malformed
      BY <1>1, <1>6 DEF ValueAt
    <2>2. ValueAt(f, pos, wholes) = Malformed
      BY <1>2, <1>6 DEF ValueAt
    <2> QED BY <2>1, <2>2
  <1> QED BY <1>3, <1>4, <1>5, <1>6

\* What the parser says of the beginning of an input, it says of the whole,
\* unless it asks for more.
LEMMA ParseStable ==
  ASSUME NEW S, NEW p \in Seq(S), NEW f \in Seq(S), Begins(p, f), parse(p) # Incomplete
  PROVE  parse(f) = parse(p)
  <1> DEFINE v == parse_value(p)
             w == parse_value(f)
             len == Len(p)
             T == {x \in 0..len : v[x] # Incomplete /\ w[x] # v[x]}
  <1>v. /\ \A pos \in 0..len : v[pos] = ValueAt(p, pos, v)
        /\ OutcomesFrom(v, 0, len)
    BY ValuesUnfold
  <1>w. \A pos \in 0..len : w[pos] = ValueAt(f, pos, w)
    <2>1. len \in Nat /\ Len(f) \in Nat /\ len <= Len(f)
      BY DEF Begins
    <2>2. \A pos \in 0..Len(f) : w[pos] = ValueAt(f, pos, w)
      BY ValuesUnfold
    <2> HIDE DEF w
    <2> QED BY <2>1, <2>2
  <1> HIDE DEF v, w
  <1>l. len \in Nat /\ T \in SUBSET (0..len)
    OBVIOUS
  <1>1. ASSUME T # {} PROVE FALSE
    <2>1. PICK x \in T : \A y \in T : y <= x
      <3> HIDE DEF T, len
      <3> QED BY <1>l, <1>1, GreatestElement
    <2>2. \A q \in x + 1..len : q \in 0..len /\ q \notin T
      BY <1>l, <2>1
    <2>3. OutcomesFrom(v, x + 1, len) /\ StableFrom(v, w, x + 1, len) /\ x \in 0..len
      BY <1>v, <2>1, <2>2 DEF OutcomesFrom, StableFrom
    <2>4. v[x] # Incomplete /\ w[x] # v[x] /\ v[x] = ValueAt(p, x, v) /\ w[x] = ValueAt(f, x, w)
      BY <1>v, <1>w, <2>1
    <2> QED BY <2>3, <2>4, ValueStable
  <1>2. 0 \in 0..len
    BY <1>l
  <1> QED BY <1>1, <1>2 DEF parse, v, w

LEMMA ParseOutcome ==
  ASSUME NEW S, NEW input \in Seq(S)
  PROVE  Outcome(parse(input), 0, Len(input))
  <1>1. 0 \in 0..Len(input)
    OBVIOUS
  <1>2. OutcomesFrom(parse_value(input), 0, Len(input))
    BY ValuesUnfold
  <1> QED BY <1>1, <1>2 DEF OutcomesFrom, parse

-----------------------------------------------------------------------------
(***************************************************************************)
(* The bytes of a script.                                                  *)
(***************************************************************************)
\* g has the bytes behind each message of s, from the one at lo on.
HasBytes(s, g, lo) ==
  g = [i \in lo..Len(s) |-> IF i = Len(s) THEN << >> ELSE s[i + 1].bytes \o g[i + 1]]

LEMMA BytesExist ==
  ASSUME NEW S, NEW s \in Seq(S), NEW lo \in 0..Len(s)
  PROVE  \E g : HasBytes(s, g, lo)
  <1> DEFINE len == Len(s)
             T == {x \in 0..len : ~ \E g : HasBytes(s, g, x)}
  <1> SUFFICES ASSUME T # {} PROVE FALSE
    OBVIOUS
  <1>l. len \in Nat /\ T \in SUBSET (0..len)
    OBVIOUS
  <1>1. PICK x \in T : \A y \in T : y <= x
    <2> HIDE DEF T, len
    <2> QED BY <1>l, GreatestElement
  <1>2. x # len
    <2> DEFINE g == [i \in len..len |-> << >>]
    <2>1. \A i \in len..len : i = len
      BY <1>l
    <2>2. g = [i \in len..len |-> IF i = len THEN << >> ELSE s[i + 1].bytes \o g[i + 1]]
      BY <2>1
    <2>3. HasBytes(s, g, len)
      BY <2>2 DEF HasBytes
    <2> QED BY <1>1, <2>3
  <1>3. x + 1 \in 0..len /\ x + 1 \notin T /\ x \in Nat
    <2> HIDE DEF T, len
    <2> QED BY <1>l, <1>1, <1>2
  <1>4. PICK g : HasBytes(s, g, x + 1)
    BY <1>3
  <1>5. \A i \in x + 1..len : g[i] = IF i = len THEN << >> ELSE s[i + 1].bytes \o g[i + 1]
    BY <1>4 DEF HasBytes
  <1> DEFINE h == [i \in x..len |-> IF i = x THEN s[x + 1].bytes \o g[x + 1] ELSE g[i]]
  <1> HIDE DEF T, len
  <1>6. \A i \in x + 1..len : h[i] = g[i]
    <2>1. \A i \in x + 1..len : i \in x..len /\ i # x
      BY <1>l, <1>3
    <2> QED BY <2>1
  <1>7. h[x] = s[x + 1].bytes \o g[x + 1]
    <2>1. x \in x..len
      BY <1>l, <1>3
    <2> QED BY <2>1
  <1>8. h = [i \in x..len |-> h[i]]
    OBVIOUS
  <1> HIDE DEF h
  <1>9. \A i \in x..len : h[i] = IF i = len THEN << >> ELSE s[i + 1].bytes \o h[i + 1]
    <2> SUFFICES ASSUME NEW i \in x..len
                 PROVE  h[i] = IF i = len THEN << >> ELSE s[i + 1].bytes \o h[i + 1]
      OBVIOUS
    <2>1. CASE i = x
      <3>1. h[x + 1] = g[x + 1]
        BY <1>l, <1>3, <1>6
      <3> QED BY <1>2, <1>7, <2>1, <3>1
    <2>2. CASE i # x
      <3>1. i \in x + 1..len /\ (i # len => i + 1 \in x + 1..len)
        BY <1>l, <1>3, <2>2
      <3> QED BY <1>5, <1>6, <3>1
    <2> QED BY <2>1, <2>2
  <1>10. HasBytes(s, h, x)
    BY <1>8, <1>9 DEF HasBytes, len
  <1> QED BY <1>1, <1>10 DEF T

LEMMA BytesUnfold ==
  ASSUME NEW S, NEW s \in Seq(S)
  PROVE  /\ BytesFrom(s)[Len(s)] = << >>
         /\ \A i \in 0..Len(s) - 1 : BytesFrom(s)[i] = s[i + 1].bytes \o BytesFrom(s)[i + 1]
  <1> DEFINE e == BytesFrom(s)
             len == Len(s)
  <1>1. len \in Nat /\ 0 \in 0..len
    OBVIOUS
  <1>2. \E g : HasBytes(s, g, 0)
    BY <1>1, BytesExist
  <1>3. e = CHOOSE g : HasBytes(s, g, 0)
    BY DEF BytesFrom, HasBytes
  <1>4. HasBytes(s, e, 0)
    BY <1>2, <1>3
  <1> HIDE DEF e
  <1>5. \A i \in 0..len : e[i] = IF i = len THEN << >> ELSE s[i + 1].bytes \o e[i + 1]
    BY <1>4 DEF HasBytes
  <1> HIDE DEF len
  <1>6. e[len] = << >> /\ \A i \in 0..len - 1 : e[i] = s[i + 1].bytes \o e[i + 1]
    <2>1. len \in 0..len /\ \A i \in 0..len - 1 : i \in 0..len /\ i # len
      BY <1>1
    <2> QED BY <1>5, <2>1
  <1> QED BY <1>6 DEF e, len

LEMMA BytesAreStrings ==
  ASSUME NEW s \in Scripts
  PROVE  \A i \in 0..Len(s) : BytesFrom(s)[i] \in Strings
  <1> DEFINE F == BytesFrom(s)
             len == Len(s)
             T == {i \in 0..len : F[i] \notin Strings}
  <1>1. s \in Seq(Range(s)) /\ \A i \in 1..len : s[i].bytes \in Strings
    BY ScriptAssumption
  <1>l. len \in Nat /\ T \in SUBSET (0..len)
    BY <1>1
  <1>2. F[len] = << >> /\ \A i \in 0..len - 1 : F[i] = s[i + 1].bytes \o F[i + 1]
    BY <1>1, BytesUnfold
  <1> HIDE DEF F, len
  <1> SUFFICES ASSUME T # {} PROVE FALSE
    BY DEF F, len
  <1>3. PICK x \in T : \A y \in T : y <= x
    <2> HIDE DEF T
    <2> QED BY <1>l, GreatestElement
  <1>4. x # len
    <2>1. << >> \in Strings
      BY DEF Strings
    <2> QED BY <1>2, <1>3, <2>1
  <1>5. x + 1 \in 0..len /\ x + 1 \notin T /\ x \in 0..len - 1 /\ x + 1 \in 1..len
    BY <1>l, <1>3, <1>4
  <1>6. F[x + 1] \in Seq(Byte) /\ s[x + 1].bytes \in Seq(Byte)
    BY <1>1, <1>5 DEF Strings
  <1>7. F[x] \in Strings
    BY <1>2, <1>5, <1>6, ConcatProperties DEF Strings
  <1> QED BY <1>3, <1>7

-----------------------------------------------------------------------------
(***************************************************************************)
(* The stream: what has been read and what has not are bytes of the        *)
(* client, and shorter than SIZE_MAX together.                             *)
(***************************************************************************)
StreamOK ==
  /\ buf \in Strings /\ wire \in Strings
  /\ Len(buf) + Len(wire) <= 2 * IntMax

LEMMA InitStream == Init => StreamOK
  <1> SUFFICES ASSUME Init PROVE StreamOK
    OBVIOUS
  <1>1. script \in Scripts /\ wire = BytesFrom(script)[0] /\ buf = << >>
    BY DEF Init
  <1>2. script \in Seq(Range(script)) /\ Len(BytesFrom(script)[0]) <= 2 * IntMax
    BY <1>1, ScriptAssumption
  <1>3. 0 \in 0..Len(script)
    BY <1>2
  <1>4. wire \in Strings /\ Len(wire) <= 2 * IntMax
    BY <1>1, <1>2, <1>3, BytesAreStrings
  <1> QED BY <1>1, <1>4 DEF StreamOK, Strings

LEMMA ReadStream ==
  ASSUME StreamOK, Read
  PROVE  StreamOK'
  <1>1. PICK n \in 1..Len(wire) : /\ buf' = buf \o SubSeq(wire, 1, n)
                                  /\ wire' = SubSeq(wire, n + 1, Len(wire))
    BY DEF Read
  <1> DEFINE a == SubSeq(wire, 1, n)
             b == SubSeq(wire, n + 1, Len(wire))
  <1>2. wire \in Seq(Byte) /\ buf \in Seq(Byte) /\ Len(wire) \in Nat /\ Len(buf) \in Nat
    BY DEF StreamOK, Strings
  <1>3. a \in Seq(Byte) /\ Len(a) = n
    BY <1>2
  <1>4. b \in Seq(Byte) /\ Len(b) = Len(wire) - n
    <2>1. CASE n = Len(wire)
      BY <1>2, <2>1
    <2>2. CASE n # Len(wire)
      BY <1>2, <2>2
    <2> QED BY <2>1, <2>2
  <1> HIDE DEF a, b
  <1>5. buf \o a \in Seq(Byte) /\ Len(buf \o a) = Len(buf) + n
    BY <1>2, <1>3
  <1>6. buf' = buf \o a /\ wire' = b
    BY <1>1 DEF a, b
  <1>7. Len(buf') + Len(wire') <= 2 * IntMax
    BY <1>2, <1>4, <1>5, <1>6, RespAssumption DEF StreamOK
  <1> QED BY <1>4, <1>5, <1>6, <1>7 DEF StreamOK, Strings

LEMMA ConsumeStream ==
  ASSUME StreamOK, NEW n \in 1..Len(buf), consume(n), wire' = wire
  PROVE  StreamOK'
  <1>1. wire \in Seq(Byte) /\ buf \in Seq(Byte) /\ Len(wire) \in Nat /\ Len(buf) \in Nat
    BY DEF StreamOK, Strings
  <1>2. buf' \in Seq(Byte) /\ Len(buf') = Len(buf) - n
    <2>1. CASE n = Len(buf)
      BY <1>1, <2>1 DEF consume
    <2>2. CASE n # Len(buf)
      BY <1>1, <2>2 DEF consume
    <2> QED BY <2>1, <2>2
  <1>3. Len(buf') + Len(wire') <= 2 * IntMax
    BY <1>1, <1>2, RespAssumption DEF StreamOK
  <1> QED BY <1>1, <1>2, <1>3 DEF StreamOK, Strings

\* Every outcome of a turn keeps the buffer, or consumes one message.
LEMMA TurnBuffer ==
  ASSUME StreamOK, Turn
  PROVE  wire' = wire /\ (buf' = buf \/ \E n \in 1..Len(buf) : consume(n))
  <1> DEFINE p == parse(buf)
  <1>1. \/ Wait(p) \/ ProtocolError(p) \/ Terminate(p)
        \/ NotACommand(p) \/ UnknownCommand(p) \/ RunCommand(p)
    BY DEF Turn
  <1>2. p.result = "Complete" => p.pos \in 1..Len(buf)
    <2>1. buf \in Seq(Byte)
      BY DEF StreamOK, Strings
    <2>2. Outcome(p, 0, Len(buf))
      BY <2>1, ParseOutcome
    <2> QED BY <2>2, OutcomeCases DEF Outcome
  <1> HIDE DEF p
  <1>3. CASE Wait(p) \/ ProtocolError(p) \/ Terminate(p)
    BY <1>3 DEF Wait, ProtocolError, Terminate
  <1>4. CASE NotACommand(p)
    BY <1>2, <1>4 DEF NotACommand, Refuse
  <1>5. CASE UnknownCommand(p)
    BY <1>2, <1>5 DEF UnknownCommand, Refuse
  <1>6. CASE RunCommand(p)
    <2>1. p.pos \in 1..Len(buf) /\ consume(p.pos)
      BY <1>2, <1>6 DEF RunCommand
    <2>2. PICK c \in find(p.value.elements[1].str) :
            IF WrongArity(c, Len(p.value.elements))
            THEN Refuse(<<"wrong number of arguments for ", c.name>>)
            ELSE Call(c, p.value.elements)
      BY <1>6 DEF RunCommand
    <2>3. wire' = wire
      BY <2>2 DEF Refuse, Call
    <2> QED BY <2>1, <2>3
  <1> QED BY <1>1, <1>3, <1>4, <1>5, <1>6

LEMMA NextStream == StreamOK /\ [Next]_vars => StreamOK'
  <1> SUFFICES ASSUME StreamOK, [Next]_vars PROVE StreamOK'
    OBVIOUS
  <1>1. CASE Read
    BY <1>1, ReadStream
  <1>2. CASE Turn
    BY <1>2, TurnBuffer, ConsumeStream DEF StreamOK
  <1>3. CASE UNCHANGED vars
    BY <1>3 DEF vars, StreamOK
  <1> QED BY <1>1, <1>2, <1>3 DEF Next

LEMMA StreamInvariant == Spec => []StreamOK
  BY InitStream, NextStream, PTL DEF Spec

LEMMA StreamVerdict == StreamOK => VerdictFinal
  <1> SUFFICES ASSUME StreamOK PROVE VerdictFinal
    OBVIOUS
  <1> DEFINE f == buf \o wire
  <1>1. buf \in Seq(Byte) /\ wire \in Seq(Byte)
    BY DEF StreamOK, Strings
  <1>2. f \in Seq(Byte) /\ Len(f) = Len(buf) + Len(wire) /\ \A i \in 1..Len(buf) : f[i] = buf[i]
    BY <1>1
  <1> HIDE DEF f
  <1>3. Begins(buf, f)
    BY <1>1, <1>2 DEF Begins, StreamOK
  <1>4. parse(buf) # Incomplete => parse(f) = parse(buf)
    BY <1>1, <1>2, <1>3, ParseStable
  <1> QED BY <1>4 DEF VerdictFinal, f

\* However the reads cut a client's stream, the parser asks for more or says of
\* the next message what it would say of the whole stream: for any bytes, any
\* nesting of arrays and any lengths and counts that a client gives.
THEOREM VerdictsFinal == Spec => []VerdictFinal
  BY StreamInvariant, StreamVerdict, PTL

-----------------------------------------------------------------------------
(***************************************************************************)
(* glob_match.                                                             *)
(***************************************************************************)
RowsSolve(pattern, str, g, count) ==
  g = [n \in 0..count |-> IF n = 0 THEN [j \in 0..Len(str) |-> j = Len(str)]
                          ELSE GlobRow(pattern, str, n, g[n - 1])]

LEMMA RowsExist ==
  ASSUME NEW pattern, NEW str, NEW count \in Nat
  PROVE  \E g : RowsSolve(pattern, str, g, count)
  <1> DEFINE Start == [j \in 0..Len(str) |-> j = Len(str)]
             T == {m \in Nat : ~ \E g : RowsSolve(pattern, str, g, m)}
  <1> SUFFICES ASSUME T # {} PROVE FALSE
    OBVIOUS
  <1>1. PICK x \in T : \A y \in T : x <= y
    BY LeastElement
  <1> HIDE DEF Start
  <1>2. x # 0
    <2> DEFINE g == [m \in 0..0 |-> Start]
    <2>1. RowsSolve(pattern, str, g, 0)
      BY DEF RowsSolve, Start
    <2> QED BY <2>1
  <1>3. x - 1 \in Nat /\ x - 1 \notin T
    BY <1>1, <1>2
  <1>4. PICK g : RowsSolve(pattern, str, g, x - 1)
    BY <1>3
  <1> DEFINE h == [m \in 0..x |-> IF m = x THEN GlobRow(pattern, str, x, g[x - 1]) ELSE g[m]]
  <1>5. \A m \in 0..x - 1 : g[m] = IF m = 0 THEN Start ELSE GlobRow(pattern, str, m, g[m - 1])
    BY <1>4 DEF RowsSolve, Start
  <1>6. \A m \in 0..x - 1 : h[m] = g[m]
    BY <1>3
  <1>7. h[x] = GlobRow(pattern, str, x, g[x - 1])
    BY <1>1
  <1>8. \A m \in 0..x : h[m] = IF m = 0 THEN Start ELSE GlobRow(pattern, str, m, h[m - 1])
    <2> SUFFICES ASSUME NEW m \in 0..x
                 PROVE  h[m] = IF m = 0 THEN Start ELSE GlobRow(pattern, str, m, h[m - 1])
      OBVIOUS
    <2>1. CASE m = x
      <3>1. h[x - 1] = g[x - 1]
        BY <1>3, <1>6
      <3> QED BY <1>2, <1>7, <2>1, <3>1
    <2>2. CASE m # x
      <3>1. m \in 0..x - 1 /\ (m # 0 => m - 1 \in 0..x - 1)
        BY <1>3, <2>2
      <3>2. m # 0 => h[m - 1] = g[m - 1]
        BY <1>6, <3>1
      <3> HIDE DEF h
      <3> QED BY <1>5, <1>6, <3>1, <3>2
    <2> QED BY <2>1, <2>2
  <1>9. h = [m \in 0..x |-> h[m]]
    OBVIOUS
  <1> HIDE DEF h
  <1>10. RowsSolve(pattern, str, h, x)
    BY <1>8, <1>9 DEF RowsSolve, Start
  <1> QED BY <1>10

LEMMA RowsUnfold ==
  ASSUME NEW pattern, NEW str, Len(pattern) \in Nat
  PROVE  LET r == GlobRows(pattern, str)
         IN  /\ r[0] = [j \in 0..Len(str) |-> j = Len(str)]
             /\ \A n \in 1..Len(pattern) : r[n] = GlobRow(pattern, str, n, r[n - 1])
  <1> DEFINE r == GlobRows(pattern, str)
  <1>1. \E g : RowsSolve(pattern, str, g, Len(pattern))
    BY RowsExist
  <1>2. r = CHOOSE g : RowsSolve(pattern, str, g, Len(pattern))
    BY DEF GlobRows, RowsSolve
  <1>3. RowsSolve(pattern, str, r, Len(pattern))
    BY <1>1, <1>2
  <1> DEFINE Start == [j \in 0..Len(str) |-> j = Len(str)]
  <1> HIDE DEF r, Start
  <1>4. r = [n \in 0..Len(pattern) |-> IF n = 0 THEN Start ELSE GlobRow(pattern, str, n, r[n - 1])]
    BY <1>3 DEF RowsSolve, Start
  <1>5. r[0] = Start /\ \A n \in 1..Len(pattern) : r[n] = GlobRow(pattern, str, n, r[n - 1])
    BY <1>4
  <1> QED BY <1>5 DEF r, Start

\* The symbol c fits the piece of str between two cuts.
Fits(c, str, from, to) ==
  IF c = "*" THEN to >= from ELSE to = from + 1 /\ c \in {"?", str[to]}

\* The last n symbols of the pattern have cuts from j to the end of str.
Cut(pattern, str, n, j, cut) ==
  /\ cut \in [0..n -> 0..Len(str)] /\ cut[0] = j /\ cut[n] = Len(str)
  /\ \A i \in 1..n : Fits(pattern[Len(pattern) - n + i], str, cut[i - 1], cut[i])

LEMMA CutMore ==
  ASSUME NEW S, NEW pattern \in Seq(S), NEW R, NEW str \in Seq(R),
         NEW n \in 1..Len(pattern), NEW j \in 0..Len(str), NEW i \in 0..Len(str),
         Fits(pattern[Len(pattern) - n + 1], str, j, i),
         NEW cut, Cut(pattern, str, n - 1, i, cut)
  PROVE  \E new : Cut(pattern, str, n, j, new)
  <1> DEFINE new == [m \in 0..n |-> IF m = 0 THEN j ELSE cut[m - 1]]
             len == Len(pattern)
  <1>0. len \in Nat /\ n \in Nat /\ n - 1 \in Nat /\ Len(str) \in Nat
    OBVIOUS
  <1>1. /\ cut \in [0..n - 1 -> 0..Len(str)] /\ cut[0] = i /\ cut[n - 1] = Len(str)
        /\ \A m \in 1..n - 1 : Fits(pattern[len - (n - 1) + m], str, cut[m - 1], cut[m])
    BY DEF Cut
  <1>2. \A m \in 1..n : m - 1 \in 0..n - 1 /\ new[m] = cut[m - 1]
    BY <1>0
  <1>3. new[0] = j /\ new[1] = i
    BY <1>0, <1>1
  <1>4. new \in [0..n -> 0..Len(str)]
    BY <1>0, <1>1
  <1>5. new[n] = Len(str)
    BY <1>0, <1>1, <1>2
  <1> HIDE DEF new
  <1>6. \A m \in 1..n : Fits(pattern[len - n + m], str, new[m - 1], new[m])
    <2> SUFFICES ASSUME NEW m \in 1..n PROVE Fits(pattern[len - n + m], str, new[m - 1], new[m])
      OBVIOUS
    <2>1. CASE m = 1
      BY <1>3, <2>1
    <2>2. CASE m # 1
      <3>1. m - 1 \in 1..n - 1 /\ m - 1 \in 1..n /\ len - (n - 1) + (m - 1) = len - n + m
        BY <1>0, <2>2
      <3>2. new[m] = cut[m - 1] /\ new[m - 1] = cut[(m - 1) - 1]
        BY <1>2, <3>1
      <3>3. Fits(pattern[len - (n - 1) + (m - 1)], str, cut[(m - 1) - 1], cut[m - 1])
        BY <1>1, <3>1
      <3> QED BY <3>1, <3>2, <3>3
    <2> QED BY <2>1, <2>2
  <1>7. Cut(pattern, str, n, j, new)
    BY <1>3, <1>4, <1>5, <1>6 DEF Cut
  <1> QED BY <1>7

LEMMA CutLess ==
  ASSUME NEW S, NEW pattern \in Seq(S), NEW R, NEW str \in Seq(R),
         NEW n \in 1..Len(pattern), NEW j \in 0..Len(str),
         NEW cut, Cut(pattern, str, n, j, cut)
  PROVE  \E i \in 0..Len(str) : /\ Fits(pattern[Len(pattern) - n + 1], str, j, i)
                                /\ \E new : Cut(pattern, str, n - 1, i, new)
  <1> DEFINE new == [m \in 0..n - 1 |-> cut[m + 1]]
             len == Len(pattern)
             i == cut[1]
  <1>0. len \in Nat /\ n \in Nat /\ n - 1 \in Nat /\ Len(str) \in Nat
    OBVIOUS
  <1>1. /\ cut \in [0..n -> 0..Len(str)] /\ cut[0] = j /\ cut[n] = Len(str)
        /\ \A m \in 1..n : Fits(pattern[len - n + m], str, cut[m - 1], cut[m])
    BY DEF Cut
  <1>2. i \in 0..Len(str) /\ Fits(pattern[len - n + 1], str, j, i)
    <2>1. 1 \in 1..n /\ 1 \in 0..n /\ 1 - 1 = 0
      BY <1>0
    <2> QED BY <1>1, <2>1
  <1>3. \A m \in 0..n - 1 : m + 1 \in 0..n /\ new[m] = cut[m + 1]
    BY <1>0
  <1>4. new \in [0..n - 1 -> 0..Len(str)]
    BY <1>0, <1>1
  <1>5. new[0] = i /\ new[n - 1] = Len(str)
    BY <1>0, <1>1, <1>3
  <1> HIDE DEF new, i
  <1>6. \A m \in 1..n - 1 : Fits(pattern[len - (n - 1) + m], str, new[m - 1], new[m])
    <2> SUFFICES ASSUME NEW m \in 1..n - 1
                 PROVE  Fits(pattern[len - (n - 1) + m], str, new[m - 1], new[m])
      OBVIOUS
    <2>1. m + 1 \in 1..n /\ m \in 0..n - 1 /\ m - 1 \in 0..n - 1 /\ len - n + (m + 1) = len - (n - 1) + m
            /\ (m + 1) - 1 = m /\ (m - 1) + 1 = m
      BY <1>0
    <2>2. new[m] = cut[m + 1] /\ new[m - 1] = cut[m]
      BY <1>3, <2>1
    <2>3. Fits(pattern[len - n + (m + 1)], str, cut[(m + 1) - 1], cut[m + 1])
      BY <1>1, <2>1
    <2> QED BY <2>1, <2>2, <2>3
  <1>7. Cut(pattern, str, n - 1, i, new)
    BY <1>4, <1>5, <1>6 DEF Cut
  <1> QED BY <1>2, <1>7

\* A row says which cuts there are.
LEMMA RowsExact ==
  ASSUME NEW S, NEW pattern \in Seq(S), NEW R, NEW str \in Seq(R),
         NEW n \in 0..Len(pattern), NEW j \in 0..Len(str)
  PROVE  GlobRows(pattern, str)[n][j] <=> \E cut : Cut(pattern, str, n, j, cut)
  <1> DEFINE r == GlobRows(pattern, str)
             len == Len(str)
             Exact(m) == \A k \in 0..len : r[m][k] <=> \E cut : Cut(pattern, str, m, k, cut)
             T == {m \in 0..Len(pattern) : ~ Exact(m)}
  <1>0. Len(pattern) \in Nat /\ len \in Nat
    OBVIOUS
  <1>r. /\ r[0] = [k \in 0..len |-> k = len]
        /\ \A m \in 1..Len(pattern) : r[m] = GlobRow(pattern, str, m, r[m - 1])
    BY <1>0, RowsUnfold
  <1> HIDE DEF r
  <1> SUFFICES ASSUME T # {} PROVE FALSE
    BY DEF r
  <1>1. T \in SUBSET Nat
    BY <1>0
  <1>2. PICK x \in T : \A y \in T : x <= y
    BY <1>1, LeastElement
  <1>3. Exact(0)
    <2> SUFFICES ASSUME NEW k \in 0..len PROVE r[0][k] <=> \E cut : Cut(pattern, str, 0, k, cut)
      OBVIOUS
    <2>1. r[0][k] <=> k = len
      BY <1>r
    <2>2. ASSUME k = len PROVE \E cut : Cut(pattern, str, 0, k, cut)
      <3> DEFINE cut == [m \in 0..0 |-> k]
      <3>1. Cut(pattern, str, 0, k, cut)
        BY <2>2 DEF Cut
      <3> QED BY <3>1
    <2>3. ASSUME NEW cut, Cut(pattern, str, 0, k, cut) PROVE k = len
      BY <2>3 DEF Cut
    <2> QED BY <2>1, <2>2, <2>3
  <1>4. x \in 1..Len(pattern) /\ x - 1 \in 0..Len(pattern) /\ x - 1 \notin T
    BY <1>0, <1>2, <1>3
  <1>5. Exact(x - 1) /\ r[x] = GlobRow(pattern, str, x, r[x - 1])
    BY <1>r, <1>4
  <1>6. Exact(x)
    <2> SUFFICES ASSUME NEW k \in 0..len PROVE r[x][k] <=> \E cut : Cut(pattern, str, x, k, cut)
      OBVIOUS
    <2> DEFINE c == pattern[Len(pattern) - x + 1]
    <2>1. r[x][k] <=> IF c = "*" THEN \E i \in k..len : r[x - 1][i]
                      ELSE k < len /\ c \in {"?", str[k + 1]} /\ r[x - 1][k + 1]
      BY <1>5 DEF GlobRow
    <2>2. r[x][k] <=> \E i \in 0..len : Fits(c, str, k, i) /\ r[x - 1][i]
      <3>1. CASE c = "*"
        <4>1. \A i \in 0..len : Fits(c, str, k, i) <=> i \in k..len
          BY <1>0, <3>1 DEF Fits
        <4>2. \A i \in k..len : i \in 0..len
          BY <1>0
        <4> QED BY <2>1, <3>1, <4>1, <4>2
      <3>2. CASE c # "*"
        <4>1. \A i \in 0..len : Fits(c, str, k, i) <=> i = k + 1 /\ c \in {"?", str[k + 1]}
          BY <1>0, <3>2 DEF Fits
        <4>2. k + 1 \in 0..len <=> k < len
          BY <1>0
        <4> QED BY <2>1, <3>2, <4>1, <4>2
      <3> QED BY <3>1, <3>2
    <2>3. ASSUME NEW i \in 0..len, Fits(c, str, k, i), r[x - 1][i]
          PROVE  \E cut : Cut(pattern, str, x, k, cut)
      <3>1. PICK cut : Cut(pattern, str, x - 1, i, cut)
        BY <1>5, <2>3
      <3> QED BY <1>4, <2>3, <3>1, CutMore
    <2>4. ASSUME NEW cut, Cut(pattern, str, x, k, cut)
          PROVE  \E i \in 0..len : Fits(c, str, k, i) /\ r[x - 1][i]
      <3>1. PICK i \in 0..len : Fits(c, str, k, i) /\ \E new : Cut(pattern, str, x - 1, i, new)
        BY <1>4, <2>4, CutLess
      <3> QED BY <1>5, <3>1
    <2> QED BY <2>2, <2>3, <2>4
  <1> QED BY <1>2, <1>6

LEMMA MatchesIsCut ==
  ASSUME NEW S, NEW pattern \in Seq(S), NEW str
  PROVE  Matches(pattern, str) <=> \E cut : Cut(pattern, str, Len(pattern), 0, cut)
  <1>1. Len(pattern) \in Nat /\ DOMAIN pattern = 1..Len(pattern)
    OBVIOUS
  <1>2. \A i \in 1..Len(pattern) : Len(pattern) - Len(pattern) + i = i
    BY <1>1
  <1> DEFINE M(cut) ==
               /\ cut \in [0..Len(pattern) -> 0..Len(str)]
               /\ cut[0] = 0 /\ cut[Len(pattern)] = Len(str)
               /\ \A i \in DOMAIN pattern :
                    IF pattern[i] = "*" THEN cut[i] >= cut[i - 1]
                    ELSE cut[i] = cut[i - 1] + 1 /\ pattern[i] \in {"?", str[cut[i]]}
  <1>3. Matches(pattern, str) <=> \E cut : M(cut)
    BY DEF Matches
  <1>4. ASSUME NEW cut PROVE M(cut) <=> Cut(pattern, str, Len(pattern), 0, cut)
    <2>1. \A i \in 1..Len(pattern) :
            Fits(pattern[Len(pattern) - Len(pattern) + i], str, cut[i - 1], cut[i])
              <=> IF pattern[i] = "*" THEN cut[i] >= cut[i - 1]
                  ELSE cut[i] = cut[i - 1] + 1 /\ pattern[i] \in {"?", str[cut[i]]}
      BY <1>2 DEF Fits
    <2> QED BY <1>1, <2>1 DEF Cut
  <1> HIDE DEF M
  <1> QED BY <1>3, <1>4

\* glob_match, which recurses for each place where a star may end and returns at
\* the first that fits, says yes exactly if the pattern matches: for patterns and
\* keys of any length.
THEOREM GlobMatchExact ==
  ASSUME NEW S, NEW pattern \in Seq(S), NEW R, NEW str \in Seq(R)
  PROVE  glob_match(pattern, str) <=> Matches(pattern, str)
  <1>1. Len(pattern) \in 0..Len(pattern) /\ 0 \in 0..Len(str)
    OBVIOUS
  <1> QED BY <1>1, RowsExact, MatchesIsCut DEF glob_match

-----------------------------------------------------------------------------
(***************************************************************************)
(* What a parsed value is made of: the bytes of the input.                 *)
(***************************************************************************)
Spelled(v, S) ==
  /\ v.str \in Seq(S)
  /\ \E T : v.elements \in Seq(T)
  /\ \A i \in 1..Len(v.elements) : v.elements[i].str \in Seq(S)

SpelledOutcome(r, S) == r.result = "Complete" => Spelled(r.value, S)

LEMMA PlainSpelled ==
  ASSUME NEW S, NEW s \in Seq(S), NEW n
  PROVE  /\ Spelled(SimpleString(s), S) /\ Spelled(ErrorValue(s), S)
         /\ Spelled(BulkString(s), S) /\ Spelled(IntegerValue(n), S) /\ Spelled(NilValue, S)
         /\ Spelled(Array(<< >>), S)
  <1>1. << >> \in Seq({}) /\ << >> \in Seq(S) /\ Len(<< >>) = 0
    OBVIOUS
  <1> QED
    BY <1>1 DEF Spelled, SimpleString, ErrorValue, BulkString, IntegerValue, NilValue, Array, Value

LEMMA LineSpelled ==
  ASSUME NEW S, NEW input \in Seq(S), NEW pos \in Nat, parse_line(input, pos).ok
  PROVE  parse_line(input, pos).line \in Seq(S)
  <1> DEFINE n == find_crlf(input, pos)
  <1>1. n >= 0
    BY DEF parse_line
  <1>2. PICK i \in Ends(input, pos) : n = i - pos
    BY <1>1, FirstEnd
  <1>3. i \in pos..Len(input) - 2
    BY DEF Ends
  <1>4. parse_line(input, pos).line = SubSeq(input, pos + 1, i)
    BY <1>2, <1>3 DEF parse_line
  <1>5. \A j \in pos + 1..i : input[j] \in S
    BY <1>3
  <1> QED BY <1>3, <1>4, <1>5, SubSeqProperties

LEMMA SimpleSpelled ==
  ASSUME NEW S, NEW input \in Seq(S), NEW pos \in Nat, At(input, pos) \in {"+", "-", ":"}
  PROVE  SpelledOutcome(parse_simple(input, pos), S)
  <1> DEFINE l == parse_line(input, pos + 1)
             r == parse_simple(input, pos)
  <1>1. CASE ~ l.ok
    BY <1>1, OutcomeCases DEF parse_simple, SpelledOutcome
  <1>2. CASE l.ok
    <2>1. l.line \in Seq(S)
      BY <1>2, LineSpelled
    <2>2. \/ r = Malformed
          \/ \E v : r = Parsed(v, l.pos) /\ (v = SimpleString(l.line) \/ v = ErrorValue(l.line)
                                              \/ \E n : v = IntegerValue(n))
      BY <1>2 DEF parse_simple
    <2> HIDE DEF l, r
    <2>3. SpelledOutcome(r, S)
      BY <2>1, <2>2, PlainSpelled, OutcomeCases DEF SpelledOutcome
    <2> QED BY <2>3 DEF r
  <1> QED BY <1>1, <1>2

LEMMA BulkSpelled ==
  ASSUME NEW S, NEW input \in Seq(S), NEW pos \in Nat
  PROVE  SpelledOutcome(parse_bulk_string(input, pos), S)
  <1> DEFINE l == parse_line(input, pos + 1)
             n == from_chars(l.line).value
             r == parse_bulk_string(input, pos)
             s == SubSeq(input, l.pos + 1, l.pos + n)
  <1>1. r.result # "Complete" \/ r = Parsed(NilValue, l.pos)
          \/ (l.ok /\ n # NotInt /\ ~ (n < 0) /\ At(input, l.pos + n + 1) = "LF"
               /\ r = Parsed(BulkString(s), l.pos + n + 2))
    BY OutcomeCases DEF parse_bulk_string, CRLF
  <1>2. CASE r.result # "Complete"
    BY <1>2 DEF SpelledOutcome
  <1>3. CASE r = Parsed(NilValue, l.pos)
    BY <1>3, PlainSpelled, OutcomeCases, EmptySeq DEF SpelledOutcome
  <1>4. CASE l.ok /\ n # NotInt /\ ~ (n < 0) /\ At(input, l.pos + n + 1) = "LF"
               /\ r = Parsed(BulkString(s), l.pos + n + 2)
    <2>1. l.pos \in pos + 1 + 2..Len(input) /\ n \in Int
      BY <1>4, LineBounds, NumberIsInt
    <2>2. l.pos + n + 1 \in Nat /\ At(input, l.pos + n + 1) # "outside" /\ n \in Nat /\ l.pos \in Nat
      BY <1>4, <2>1
    <2> HIDE DEF n, l
    <2>3. l.pos + n + 1 < Len(input)
      BY <2>2, InsideInput
    <2>4. \A j \in l.pos + 1..l.pos + n : input[j] \in S
      BY <2>2, <2>3
    <2>5. s \in Seq(S)
      BY <2>2, <2>3, <2>4, SubSeqProperties
    <2> HIDE DEF s
    <2>6. SpelledOutcome(r, S)
      BY <1>4, <2>5, PlainSpelled, OutcomeCases DEF SpelledOutcome
    <2> QED BY <2>6
  <1> QED BY <1>1, <1>2, <1>3, <1>4

LEMMA MoreSpelled ==
  ASSUME NEW S, NEW v, Spelled(v, S), NEW w, Spelled(w, S)
  PROVE  Spelled(Array(Append(v.elements, w)), S)
  <1>1. PICK T : v.elements \in Seq(T)
    BY DEF Spelled
  <1> DEFINE e == v.elements
             f == Append(e, w)
  <1>2. e \in Seq(T \cup {w}) /\ w \in T \cup {w}
    BY <1>1
  <1>3. f \in Seq(T \cup {w}) /\ Len(f) = Len(e) + 1 /\ f[Len(e) + 1] = w
          /\ \A i \in 1..Len(e) : f[i] = e[i]
    BY <1>2, AppendProperties
  <1>4. \A i \in 1..Len(f) : i \in 1..Len(e) \/ i = Len(e) + 1
    BY <1>2, <1>3
  <1>5. \A i \in 1..Len(e) : e[i].str \in Seq(S)
    BY DEF Spelled
  <1>6. w.str \in Seq(S)
    BY DEF Spelled
  <1> HIDE DEF f, e
  <1>7. \A i \in 1..Len(f) : f[i].str \in Seq(S)
    BY <1>3, <1>4, <1>5, <1>6
  <1>8. Array(f).elements = f /\ Array(f).str = << >>
    BY DEF Array, Value
  <1>9. Spelled(Array(f), S)
    BY <1>3, <1>7, <1>8 DEF Spelled
  <1> QED BY <1>9 DEF f, e

SpelledFrom(values, lo, len, S) == \A p \in lo..len : SpelledOutcome(values[p], S)

LEMMA ElementsSpelled ==
  ASSUME NEW S, NEW values, NEW len \in Nat, NEW lo \in Nat, OutcomesFrom(values, lo, len),
         SpelledFrom(values, lo, len, S),
         NEW pos \in lo..len, NEW count \in Nat, NEW n \in 0..count
  PROVE  SpelledOutcome(Elements(values, pos, count)[n], S)
  <1> DEFINE e == Elements(values, pos, count)
             T == {m \in 0..count : ~ SpelledOutcome(e[m], S)}
  <1>e. /\ e[0] = Parsed(Array(<< >>), pos)
        /\ \A m \in 1..count : e[m] = NextElement(values, e[m - 1])
    BY ElementsUnfold
  <1>o. \A m \in 0..count : e[m].result = "Complete" => e[m].pos \in pos..len
    BY ElementsOutcome, OutcomeCases
  <1> HIDE DEF e
  <1> SUFFICES ASSUME T # {} PROVE FALSE
    BY DEF e
  <1>0. T \in SUBSET Nat
    OBVIOUS
  <1>1. PICK x \in T : \A y \in T : x <= y
    BY <1>0, LeastElement
  <1>2. SpelledOutcome(e[0], S)
    <2>1. << >> \in Seq(S)
      OBVIOUS
    <2>2. Spelled(Array(<< >>), S)
      BY <2>1, PlainSpelled
    <2>3. e[0].value = Array(<< >>)
      BY <1>e, OutcomeCases
    <2> QED BY <2>2, <2>3 DEF SpelledOutcome
  <1>3. x \in 1..count /\ x - 1 \in 0..count /\ x - 1 \notin T
    BY <1>1, <1>2
  <1>4. SpelledOutcome(e[x - 1], S) /\ e[x] = NextElement(values, e[x - 1])
    BY <1>e, <1>3
  <1> DEFINE b == e[x - 1]
             w == values[b.pos]
  <1> HIDE DEF b
  <1>5. CASE b.result # "Complete" \/ w.result # "Complete"
    <2>1. e[x] = b \/ (e[x] = w /\ w.result # "Complete")
      BY <1>4, <1>5 DEF NextElement, b
    <2>2. SpelledOutcome(e[x], S)
      BY <1>4, <2>1 DEF SpelledOutcome, b
    <2> QED BY <1>1, <2>2
  <1>6. CASE b.result = "Complete" /\ w.result = "Complete"
    <2>1. b.pos \in pos..len
      BY <1>3, <1>6, <1>o DEF b
    <2>2. Spelled(w.value, S) /\ Spelled(b.value, S)
      BY <1>4, <1>6, <2>1 DEF SpelledFrom, SpelledOutcome, b
    <2>3. e[x] = Parsed(Array(Append(b.value.elements, w.value)), w.pos)
      BY <1>4, <1>6 DEF NextElement, b
    <2>4. Spelled(Array(Append(b.value.elements, w.value)), S)
      BY <2>2, MoreSpelled
    <2>5. SpelledOutcome(e[x], S)
      BY <2>3, <2>4, OutcomeCases DEF SpelledOutcome
    <2> QED BY <1>1, <2>5
  <1> QED BY <1>5, <1>6

LEMMA ArraySpelled ==
  ASSUME NEW S, NEW input \in Seq(S), NEW pos \in 0..Len(input), NEW values,
         OutcomesFrom(values, pos + 1, Len(input)), SpelledFrom(values, pos + 1, Len(input), S)
  PROVE  SpelledOutcome(parse_array(input, pos, values), S)
  <1> DEFINE l == parse_line(input, pos + 1)
             n == from_chars(l.line).value
             r == parse_array(input, pos, values)
  <1>1. r.result # "Complete" \/ r = Parsed(NilValue, l.pos)
          \/ (l.ok /\ n # NotInt /\ ~ (n < 0) /\ r = Elements(values, l.pos, n)[n])
    BY OutcomeCases DEF parse_array
  <1>2. CASE r.result # "Complete"
    BY <1>2 DEF SpelledOutcome
  <1>3. CASE r = Parsed(NilValue, l.pos)
    BY <1>3, PlainSpelled, OutcomeCases, EmptySeq DEF SpelledOutcome
  <1>4. CASE l.ok /\ n # NotInt /\ ~ (n < 0) /\ r = Elements(values, l.pos, n)[n]
    <2>1. l.pos \in pos + 1 + 2..Len(input) /\ n \in Int
      BY <1>4, LineBounds, NumberIsInt
    <2>2. n \in Nat /\ n \in 0..n /\ l.pos \in pos + 1..Len(input) /\ pos + 1 \in Nat
            /\ Len(input) \in Nat
      BY <1>4, <2>1
    <2> HIDE DEF n, l, r
    <2>3. SpelledOutcome(Elements(values, l.pos, n)[n], S)
      BY <2>2, ElementsSpelled
    <2> QED BY <1>4, <2>3 DEF r
  <1> QED BY <1>1, <1>2, <1>3, <1>4

LEMMA ParseSpelled ==
  ASSUME NEW S, NEW input \in Seq(S)
  PROVE  SpelledOutcome(parse(input), S)
  <1> DEFINE v == parse_value(input)
             len == Len(input)
             T == {x \in 0..len : ~ SpelledOutcome(v[x], S)}
  <1>l. len \in Nat /\ T \in SUBSET (0..len)
    OBVIOUS
  <1>u. (\A pos \in 0..len : v[pos] = ValueAt(input, pos, v)) /\ OutcomesFrom(v, 0, len)
    BY ValuesUnfold
  <1> HIDE DEF v
  <1>1. ASSUME T # {} PROVE FALSE
    <2>1. PICK x \in T : \A y \in T : y <= x
      <3> HIDE DEF T, len
      <3> QED BY <1>l, <1>1, GreatestElement
    <2>2. \A p \in x + 1..len : p \in 0..len /\ p \notin T
      BY <1>l, <2>1
    <2>3. SpelledFrom(v, x + 1, len, S) /\ OutcomesFrom(v, x + 1, len) /\ x \in 0..len /\ x \in Nat
      BY <1>u, <2>1, <2>2 DEF OutcomesFrom, SpelledFrom
    <2> DEFINE prefix == At(input, x)
               r == ValueAt(input, x, v)
    <2>4. \/ r = Incomplete \/ r = Malformed
          \/ prefix \in {"+", "-", ":"} /\ r = parse_simple(input, x)
          \/ r = parse_bulk_string(input, x)
          \/ r = parse_array(input, x, v)
      BY DEF ValueAt
    <2>5. SpelledOutcome(r, S)
      BY <2>3, <2>4, SimpleSpelled, BulkSpelled, ArraySpelled, OutcomeCases DEF SpelledOutcome
    <2> QED BY <1>u, <2>1, <2>3, <2>5
  <1>2. 0 \in 0..len /\ 0 \notin T
    BY <1>l, <1>1
  <1> QED BY <1>2 DEF parse, v

-----------------------------------------------------------------------------
(***************************************************************************)
(* The text of a number.                                                   *)
(***************************************************************************)
DigitsOf(g, k) ==
  IF k < 10 THEN <<Digits[k + 1]>> ELSE Append(g[k \div 10], Digits[(k % 10) + 1])

LEMMA Quotient ==
  ASSUME NEW k \in Nat, k >= 10
  PROVE  k \div 10 \in 0..k - 1 /\ (k % 10) + 1 \in 1..10
  OBVIOUS

LEMMA DecimalExists ==
  ASSUME NEW m \in Nat
  PROVE  \E g : g = [k \in 0..m |-> DigitsOf(g, k)]
  <1> DEFINE T == {x \in Nat : ~ \E g : g = [k \in 0..x |-> DigitsOf(g, k)]}
  <1> SUFFICES ASSUME T # {} PROVE FALSE
    OBVIOUS
  <1>1. PICK x \in T : \A y \in T : x <= y
    BY LeastElement
  <1>2. x # 0
    <2> DEFINE g == [k \in 0..0 |-> <<Digits[1]>>]
    <2>1. \A k \in 0..0 : DigitsOf(g, k) = <<Digits[1]>>
      BY DEF DigitsOf
    <2>2. g = [k \in 0..0 |-> DigitsOf(g, k)]
      BY <2>1
    <2> QED BY <2>2
  <1>3. x - 1 \in Nat /\ x - 1 \notin T /\ x \in Nat
    BY <1>1, <1>2
  <1>4. PICK g : g = [k \in 0..x - 1 |-> DigitsOf(g, k)]
    BY <1>3
  <1> DEFINE h == [k \in 0..x |-> IF k = x THEN DigitsOf(g, x) ELSE g[k]]
  <1>5. \A k \in 0..x - 1 : h[k] = g[k] /\ g[k] = DigitsOf(g, k)
    <2>1. \A k \in 0..x - 1 : k \in 0..x /\ k # x
      BY <1>3
    <2>2. \A k \in 0..x - 1 : h[k] = g[k]
      BY <2>1
    <2>3. \A k \in 0..x - 1 : g[k] = DigitsOf(g, k)
      <3> HIDE DEF h, T
      <3> QED BY <1>4
    <2> QED BY <2>2, <2>3
  <1>6. h[x] = DigitsOf(g, x)
    BY <1>3
  <1>7. h = [k \in 0..x |-> h[k]]
    OBVIOUS
  <1> HIDE DEF h
  <1>8. \A k \in 0..x : DigitsOf(h, k) = DigitsOf(g, k)
    <2> SUFFICES ASSUME NEW k \in 0..x, ~ (k < 10) PROVE h[k \div 10] = g[k \div 10]
      BY DEF DigitsOf
    <2>1. k \in Nat /\ k >= 10 /\ k <= x
      BY <1>3
    <2>2. k \div 10 \in 0..k - 1
      BY <2>1, Quotient
    <2>3. k \div 10 \in 0..x - 1
      BY <1>3, <2>1, <2>2
    <2> QED BY <1>5, <2>3
  <1>9. \A k \in 0..x : k = x \/ k \in 0..x - 1
    BY <1>3
  <1>10. \A k \in 0..x : h[k] = DigitsOf(h, k)
    BY <1>5, <1>6, <1>8, <1>9
  <1>11. h = [k \in 0..x |-> DigitsOf(h, k)]
    BY <1>7, <1>10
  <1> QED BY <1>1, <1>11

LEMMA DecimalSpelled ==
  ASSUME NEW m \in Nat, NEW k \in 0..m
  PROVE  DecimalUpTo(m)[k] \in Strings
  <1> DEFINE e == DecimalUpTo(m)
             T == {x \in 0..m : e[x] \notin Strings}
  <1>1. e = CHOOSE g : g = [x \in 0..m |-> DigitsOf(g, x)]
    BY DEF DecimalUpTo, DigitsOf
  <1>2. \A x \in 0..m : e[x] = DigitsOf(e, x)
    <2>1. \E g : g = [x \in 0..m |-> DigitsOf(g, x)]
      BY DecimalExists
    <2>2. e = [x \in 0..m |-> DigitsOf(e, x)]
      BY <1>1, <2>1
    <2> HIDE DEF e
    <2> QED BY <2>2
  <1> HIDE DEF e
  <1> SUFFICES ASSUME T # {} PROVE FALSE
    BY DEF e
  <1>3. T \in SUBSET Nat
    OBVIOUS
  <1>4. PICK x \in T : \A y \in T : x <= y
    BY <1>3, LeastElement
  <1>5. x \in 0..m /\ x \in Nat
    BY <1>4
  <1>6. CASE x < 10
    <2>1. Digits[x + 1] \in Byte
      BY <1>5, <1>6, ByteAssumption
    <2>2. e[x] = <<Digits[x + 1]>>
      BY <1>2, <1>5, <1>6 DEF DigitsOf
    <2>3. \A c \in Byte : <<c>> \in Strings
      BY DEF Strings
    <2>4. e[x] \in Strings
      BY <2>1, <2>2, <2>3
    <2> QED BY <1>4, <2>4
  <1>7. CASE ~ (x < 10)
    <2>1. x \div 10 \in 0..x - 1 /\ (x % 10) + 1 \in 1..10
      BY <1>5, <1>7, Quotient
    <2>2. Digits[(x % 10) + 1] \in Byte
      BY <2>1, ByteAssumption
    <2>3. x \div 10 \in 0..m /\ x \div 10 \notin T
      BY <1>4, <1>5, <2>1
    <2>4. e[x \div 10] \in Seq(Byte)
      BY <2>3 DEF Strings
    <2>5. e[x] = Append(e[x \div 10], Digits[(x % 10) + 1])
      BY <1>2, <1>5, <1>7 DEF DigitsOf
    <2>6. \A s \in Seq(Byte), c \in Byte : Append(s, c) \in Strings
      BY AppendProperties DEF Strings
    <2>7. e[x] \in Strings
      BY <2>2, <2>4, <2>5, <2>6
    <2> QED BY <1>4, <2>7
  <1> QED BY <1>6, <1>7

LEMMA NumbersSpelled ==
  ASSUME NEW n \in Int
  PROVE  to_chars(n) \in Strings
  <1>1. CASE n < 0
    <2>1. -n \in Nat /\ -n \in 0..-n
      BY <1>1
    <2>2. DecimalUpTo(-n)[-n] \in Seq(Byte)
      BY <2>1, DecimalSpelled DEF Strings
    <2>3. <<"-">> \in Seq(Byte)
      BY ByteAssumption
    <2>4. to_chars(n) = <<"-">> \o DecimalUpTo(-n)[-n]
      BY <1>1 DEF to_chars
    <2> QED BY <2>2, <2>3, <2>4, ConcatProperties DEF Strings
  <1>2. CASE ~ (n < 0)
    <2>1. n \in Nat /\ n \in 0..n
      BY <1>2
    <2> QED BY <1>2, <2>1, DecimalSpelled DEF to_chars
  <1> QED BY <1>1, <1>2

-----------------------------------------------------------------------------
(***************************************************************************)
(* The operations of the database, on byte strings and at time 0.          *)
(***************************************************************************)
i64 == IntMin..IntMax

\* Keys and values are byte strings, deadlines are numbers, and only what is
\* stored has one.
DbGood(d) ==
  /\ d = [keys |-> d.keys, expires |-> d.expires]
  /\ DOMAIN d.keys \subseteq Strings
  /\ d.keys \in [DOMAIN d.keys -> Strings]
  /\ DOMAIN d.expires \subseteq DOMAIN d.keys
  /\ d.expires \in [DOMAIN d.expires -> i64]

LEMMA Range64 == IntMin \in Int /\ IntMax \in Int /\ 0 \in i64 /\ KS!IntMin = IntMin /\ i64 \subseteq Int
  BY RespAssumption DEF i64, IntMin, KS!IntMin

LEMMA WrapRange ==
  ASSUME NEW n \in Int
  PROVE  KS!Wrap(n) \in i64
  <1> DEFINE m == IntMax - IntMin + 1
  <1>1. IntMin \in Int /\ IntMax \in Int /\ m \in Nat /\ m > 0
    BY RespAssumption DEF IntMin
  <1>2. n - IntMin \in Int
    BY <1>1
  <1> HIDE DEF m
  <1>3. (n - IntMin) % m \in 0..m - 1
    BY <1>1, <1>2
  <1>4. KS!Wrap(n) = ((n - IntMin) % m) + IntMin
    BY DEF KS!Wrap, m, KS!IntMin, IntMin
  <1> QED BY <1>1, <1>3, <1>4 DEF i64, m

LEMMA ObjectText ==
  /\ \A s \in Strings : KS!create_string(s) \in Strings
  /\ \A i \in i64 : KS!create_string_from_int(i) \in Strings
  /\ \A s \in Strings : KS!get_integer_obj(s) \in i64 \cup {NotInt}
  <1>1. \A s : try_parse_int(s) \in i64 \cup {NotInt}
    BY NumberRange DEF try_parse_int, i64
  <1>2. \A i \in i64 : to_chars(i) \in Strings
    BY Range64, NumbersSpelled
  <1>3. \A i \in i64 : KS!create_string_from_int(i) = to_chars(i)
    BY DEF KS!create_string_from_int, i64
  <1>4. \A s \in Strings :
          KS!create_string(s) = IF try_parse_int(s) = NotInt THEN s ELSE to_chars(try_parse_int(s))
    BY <1>1 DEF KS!create_string, i64
  <1>5. \A s \in Strings : KS!get_integer_obj(s) = 0 \/ KS!get_integer_obj(s) = try_parse_int(s)
    BY DEF KS!get_integer_obj
  <1> QED BY <1>1, <1>2, <1>3, <1>4, <1>5, Range64

LEMMA EmptyGood == DbGood(KS!EmptyDb)
  BY DEF DbGood, KS!EmptyDb, KS!EmptyMap

LEMMA SetGood ==
  ASSUME NEW d, DbGood(d), NEW k \in Strings, NEW s \in Strings
  PROVE  DbGood(KS!set(d, k, s)) /\ k \in DOMAIN KS!set(d, k, s).keys
  BY DEF DbGood, KS!set, KS!Write, KS!Erase

LEMMA SetExpireGood ==
  ASSUME NEW d, DbGood(d), NEW k \in DOMAIN d.keys, NEW at \in i64
  PROVE  DbGood(KS!set_expire(d, k, at))
  BY DEF DbGood, KS!set_expire, KS!Write

LEMMA RemoveExpireGood ==
  ASSUME NEW d, DbGood(d), NEW k
  PROVE  DbGood(KS!remove_expire(d, k))
  BY DEF DbGood, KS!remove_expire, KS!Erase

LEMMA WithoutGood ==
  ASSUME NEW d, DbGood(d), NEW K
  PROVE  DbGood([keys    |-> [k \in DOMAIN d.keys \ K |-> d.keys[k]],
                 expires |-> [k \in DOMAIN d.expires \ K |-> d.expires[k]]])
  BY DEF DbGood

\* A lookup gives a stored value or nothing.
LEMMA PeekGood ==
  ASSUME NEW d, DbGood(d), NEW k
  PROVE  /\ KS!peek(d, k, 0) = Nil \/ KS!peek(d, k, 0) \in Strings
         /\ KS!exists(d, k, 0) => k \in DOMAIN d.keys /\ KS!peek(d, k, 0) \in Strings
         /\ KS!get_integer_obj(KS!peek(d, k, 0)) \in i64 \cup {NotInt}
  <1>1. KS!peek(d, k, 0) = Nil \/ (k \in DOMAIN d.keys /\ KS!peek(d, k, 0) = d.keys[k])
    BY DEF KS!peek
  <1>2. k \in DOMAIN d.keys => d.keys[k] \in Strings
    BY DEF DbGood
  <1>3. KS!get_integer_obj(Nil) = 0
    BY DEF KS!get_integer_obj
  <1> QED BY <1>1, <1>2, <1>3, ObjectText, Range64 DEF KS!exists

\* What get, for one key or several, leaves behind shows the same to a client.
LEMMA GetsGood ==
  ASSUME NEW d, DbGood(d), NEW K
  PROVE  /\ DbGood(KS!AfterGets(d, K, 0))
         /\ KS!Live(KS!AfterGets(d, K, 0), 0) = KS!Live(d, 0)
  <1> DEFINE gone == {k \in K : k \in DOMAIN d.keys /\ KS!is_expired(d, k, 0)}
             e == KS!AfterGets(d, K, 0)
  <1>1. e = [keys    |-> [k \in DOMAIN d.keys \ gone |-> d.keys[k]],
             expires |-> [k \in DOMAIN d.expires \ gone |-> d.expires[k]]]
    BY DEF KS!AfterGets
  <1>2. \A k \in gone : KS!is_expired(d, k, 0)
    OBVIOUS
  <1> HIDE DEF gone, e
  <1>3. DbGood(e)
    BY <1>1, WithoutGood
  <1>4. /\ DOMAIN e.keys = DOMAIN d.keys \ gone /\ DOMAIN e.expires = DOMAIN d.expires \ gone
        /\ \A k \in DOMAIN e.keys : e.keys[k] = d.keys[k]
        /\ \A k \in DOMAIN e.expires : e.expires[k] = d.expires[k]
    BY <1>1
  <1>5. KS!for_each(e, 0) = KS!for_each(d, 0)
    BY <1>2, <1>4 DEF KS!for_each, KS!is_expired
  <1>6. \A k \in KS!for_each(d, 0) : k \in DOMAIN e.keys /\ k \notin gone
    BY <1>5, <1>4 DEF KS!for_each
  <1>7. \A k \in KS!for_each(d, 0) :
          [val |-> e.keys[k], at |-> KS!Lookup(e.expires, k, Nil)] =
            [val |-> d.keys[k], at |-> KS!Lookup(d.expires, k, Nil)]
    BY <1>4, <1>6 DEF KS!Lookup
  <1>8. KS!Live(e, 0) = KS!Live(d, 0)
    BY <1>5, <1>7 DEF KS!Live
  <1> QED BY <1>3, <1>8 DEF e

LEMMA GetGood ==
  ASSUME NEW d, DbGood(d), NEW k
  PROVE  /\ DbGood(KS!AfterGet(d, k, 0))
         /\ KS!Live(KS!AfterGet(d, k, 0), 0) = KS!Live(d, 0)
  <1>1. CASE k \in DOMAIN d.keys /\ KS!is_expired(d, k, 0)
    <2> DEFINE gone == {x \in {k} : x \in DOMAIN d.keys /\ KS!is_expired(d, x, 0)}
    <2>1. gone = {k}
      BY <1>1
    <2>2. KS!AfterGet(d, k, 0) =
            [keys    |-> [x \in DOMAIN d.keys \ {k} |-> d.keys[x]],
             expires |-> [x \in DOMAIN d.expires \ {k} |-> d.expires[x]]]
      BY <1>1 DEF KS!AfterGet, KS!delete_key, KS!Erase
    <2>3. KS!AfterGets(d, {k}, 0) =
            [keys    |-> [x \in DOMAIN d.keys \ gone |-> d.keys[x]],
             expires |-> [x \in DOMAIN d.expires \ gone |-> d.expires[x]]]
      BY DEF KS!AfterGets
    <2>4. KS!AfterGet(d, k, 0) = KS!AfterGets(d, {k}, 0)
      BY <2>1, <2>2, <2>3
    <2> QED BY <2>4, GetsGood
  <1>2. CASE ~ (k \in DOMAIN d.keys /\ KS!is_expired(d, k, 0))
    BY <1>2 DEF KS!AfterGet
  <1> QED BY <1>1, <1>2

-----------------------------------------------------------------------------
(***************************************************************************)
(* The handlers: what they leave is a good database, and those of the      *)
(* commands that are not marked as writes change nothing that can be seen. *)
(***************************************************************************)
Reads(d, o) == DbGood(o.db) /\ KS!Live(o.db, 0) = KS!Live(d, 0)

LEMMA ReplyDb ==
  ASSUME NEW d, NEW r
  PROVE  KS!Reply(d, r).db = d
  BY DEF KS!Reply

LEMMA ReadersGood ==
  ASSUME NEW d, DbGood(d), NEW k, NEW ks, NEW K
  PROVE  /\ Reads(d, KS!handle_get(d, 0, k)) /\ Reads(d, KS!handle_strlen(d, 0, k))
         /\ Reads(d, KS!handle_mget(d, 0, ks)) /\ Reads(d, KS!handle_exists(d, 0, ks))
         /\ Reads(d, KS!handle_type(d, 0, k))
         /\ Reads(d, KS!handle_pttl(d, 0, k)) /\ Reads(d, KS!handle_ttl(d, 0, k))
         /\ Reads(d, KS!handle_keys(d, 0, K)) /\ Reads(d, KS!handle_dbsize(d))
  <1>1. KS!handle_get(d, 0, k).db = KS!AfterGet(d, k, 0)
    BY DEF KS!handle_get, KS!Reply
  <1>2. KS!handle_strlen(d, 0, k).db = KS!AfterGet(d, k, 0)
    BY DEF KS!handle_strlen, KS!Reply
  <1>3. KS!handle_mget(d, 0, ks).db = KS!AfterGets(d, KS!ArgsOf(ks), 0)
    BY DEF KS!handle_mget, KS!Reply
  <1>4. KS!handle_exists(d, 0, ks).db = KS!AfterGets(d, KS!ArgsOf(ks), 0)
    BY DEF KS!handle_exists, KS!Reply
  <1>5. /\ KS!handle_type(d, 0, k).db = d /\ KS!handle_pttl(d, 0, k).db = d
        /\ KS!handle_ttl(d, 0, k).db = d /\ KS!handle_keys(d, 0, K).db = d
        /\ KS!handle_dbsize(d).db = d
    BY DEF KS!handle_type, KS!handle_pttl, KS!handle_ttl, KS!handle_keys, KS!handle_dbsize, KS!Reply
  <1> QED BY <1>1, <1>2, <1>3, <1>4, <1>5, GetGood, GetsGood DEF Reads

\* SET, GETSET, SETNX, APPEND.
LEMMA SetHandlerGood ==
  ASSUME NEW d, DbGood(d), NEW k \in Strings, NEW s \in Strings,
         NEW nx \in BOOLEAN, NEW xx \in BOOLEAN,
         NEW unit \in {"EX", "PX", "none"}, NEW n \in i64 \cup {NotInt}
  PROVE  DbGood(KS!handle_set(d, 0, k, s, nx, xx, unit, n).db)
  <1> DEFINE d1 == KS!AfterGet(d, k, 0)
             d2 == KS!set(d1, k, KS!create_string(s))
             ms == KS!ExpireMs(unit, n)
             e  == KS!handle_set(d, 0, k, s, nx, xx, unit, n).db
  <1>1. e = d \/ e = d1 \/ e = d2
          \/ (~ (unit # "none" /\ KS!BadTime(n)) /\ ms > 0 /\ e = KS!set_expire(d2, k, KS!Wrap(0 + ms)))
    BY DEF KS!handle_set, KS!Reply
  <1>2. DbGood(d1)
    BY GetGood
  <1>3. DbGood(d2) /\ k \in DOMAIN d2.keys
    BY <1>2, ObjectText, SetGood
  <1>4. ASSUME ~ (unit # "none" /\ KS!BadTime(n))
        PROVE  ms \in Int
    <2>1. unit # "none" => n \in Int
      BY <1>4, Range64 DEF KS!BadTime
    <2>2. CASE unit = "EX"
      <3>1. n * 2 \in Int
        BY <2>1, <2>2
      <3>2. ms = KS!Wrap(n * 2)
        BY <2>2 DEF KS!ExpireMs
      <3> QED BY <3>1, <3>2, WrapRange, Range64
    <2>3. CASE unit = "PX"
      BY <2>1, <2>3 DEF KS!ExpireMs
    <2>4. CASE unit = "none"
      BY <2>4 DEF KS!ExpireMs
    <2> QED BY <2>2, <2>3, <2>4
  <1> HIDE DEF d1, d2, ms, e
  <1>5. ms \in Int => KS!Wrap(0 + ms) \in i64
    BY WrapRange
  <1>6. DbGood(e)
    BY <1>1, <1>2, <1>3, <1>4, <1>5, SetExpireGood
  <1> QED BY <1>6 DEF e

LEMMA WritersGood ==
  ASSUME NEW d, DbGood(d), NEW k \in Strings, NEW s \in Strings
  PROVE  /\ DbGood(KS!handle_getset(d, 0, k, s).db) /\ DbGood(KS!handle_setnx(d, 0, k, s).db)
         /\ DbGood(KS!handle_append(d, 0, k, s).db)
  <1> DEFINE d1 == KS!AfterGet(d, k, 0)
             old == KS!peek(d, k, 0)
  <1>1. DbGood(d1)
    BY GetGood
  <1>2. \A v \in Strings : DbGood(KS!set(d1, k, KS!create_string(v)))
    BY <1>1, ObjectText, SetGood
  <1>3. KS!handle_getset(d, 0, k, s).db = KS!set(d1, k, KS!create_string(s))
    BY DEF KS!handle_getset, KS!Reply
  <1>4. \/ KS!handle_setnx(d, 0, k, s).db = d1
        \/ KS!handle_setnx(d, 0, k, s).db = KS!set(d1, k, KS!create_string(s))
    BY DEF KS!handle_setnx, KS!Reply
  <1>5. \E v \in Strings : KS!handle_append(d, 0, k, s).db = KS!set(d1, k, KS!create_string(v))
    <2> DEFINE v == IF old = Nil THEN s ELSE [p \in Strings \X Strings |-> p[1] \o p[2]][<<old, s>>]
    <2>1. old = Nil \/ old \in Strings
      BY PeekGood
    <2>2. old \in Strings => old \o s \in Strings
      BY ConcatProperties DEF Strings
    <2>3. old # Nil => v = old \o s
      BY <2>1
    <2>4. v \in Strings
      BY <2>1, <2>2, <2>3
    <2>5. KS!handle_append(d, 0, k, s).db = KS!set(d1, k, KS!create_string(v))
      BY DEF KS!handle_append, KS!Reply
    <2> HIDE DEF v
    <2> QED BY <2>4, <2>5
  <1> HIDE DEF d1
  <1> QED BY <1>1, <1>2, <1>3, <1>4, <1>5

LEMMA CountersGood ==
  ASSUME NEW d, DbGood(d), NEW k \in Strings, NEW n \in i64 \cup {NotInt}
  PROVE  /\ DbGood(KS!handle_incr(d, 0, k).db) /\ DbGood(KS!handle_decr(d, 0, k).db)
         /\ DbGood(KS!handle_incrby(d, 0, k, n).db) /\ DbGood(KS!handle_decrby(d, 0, k, n).db)
  <1> DEFINE d1 == KS!AfterGet(d, k, 0)
             c  == KS!get_integer_obj(KS!peek(d, k, 0))
             Stores(i) == KS!set(d1, k, KS!create_string_from_int(i))
  <1>1. DbGood(d1)
    BY GetGood
  <1>2. \A i \in i64 : DbGood(Stores(i))
    BY <1>1, ObjectText, SetGood
  <1>3. c \in i64 \cup {NotInt}
    BY PeekGood
  <1>4. \A i : KS!StoreInt(d1, k, i).db = Stores(i)
    BY DEF KS!StoreInt, KS!Reply
  <1>5. \/ KS!handle_incr(d, 0, k).db = d1
        \/ c # NotInt /\ c # IntMax /\ KS!handle_incr(d, 0, k).db = KS!StoreInt(d1, k, c + 1).db
    BY ReplyDb DEF KS!handle_incr
  <1>6. \/ KS!handle_decr(d, 0, k).db = d1
        \/ c # NotInt /\ c # IntMin /\ KS!handle_decr(d, 0, k).db = KS!StoreInt(d1, k, c - 1).db
    BY ReplyDb, Range64 DEF KS!handle_decr
  <1>7. \/ KS!handle_incrby(d, 0, k, n).db \in {d, d1}
        \/ /\ c # NotInt /\ n # NotInt /\ ~ ((n > 0 /\ c > IntMax - n) \/ (n < 0 /\ c < IntMin - n))
           /\ KS!handle_incrby(d, 0, k, n).db = KS!StoreInt(d1, k, c + n).db
    BY ReplyDb, Range64 DEF KS!handle_incrby
  <1>8. \/ KS!handle_decrby(d, 0, k, n).db \in {d, d1}
        \/ /\ c # NotInt /\ n # NotInt
           /\ KS!handle_decrby(d, 0, k, n).db = KS!StoreInt(d1, k, KS!Wrap(c - n)).db
    BY ReplyDb DEF KS!handle_decrby
  <1> HIDE DEF d1, c, Stores
  <1>9. c # NotInt /\ c # IntMax => c + 1 \in i64
    BY <1>3, Range64 DEF i64
  <1>10. c # NotInt /\ c # IntMin => c - 1 \in i64
    BY <1>3, Range64 DEF i64
  <1>11. c # NotInt /\ n # NotInt /\ ~ ((n > 0 /\ c > IntMax - n) \/ (n < 0 /\ c < IntMin - n))
           => c + n \in i64
    BY <1>3, Range64 DEF i64
  <1>12. c # NotInt /\ n # NotInt => KS!Wrap(c - n) \in i64
    <2>1. c # NotInt /\ n # NotInt => c - n \in Int
      BY <1>3, Range64 DEF i64
    <2> QED BY <2>1, WrapRange
  <1>13. DbGood(KS!handle_incr(d, 0, k).db)
    BY <1>1, <1>2, <1>4, <1>5, <1>9
  <1>14. DbGood(KS!handle_decr(d, 0, k).db)
    BY <1>1, <1>2, <1>4, <1>6, <1>10
  <1>15. DbGood(KS!handle_incrby(d, 0, k, n).db)
    BY <1>1, <1>2, <1>4, <1>7, <1>11
  <1>16. DbGood(KS!handle_decrby(d, 0, k, n).db)
    BY <1>1, <1>2, <1>4, <1>8, <1>12
  <1> QED BY <1>13, <1>14, <1>15, <1>16

\* SETEX, PSETEX, EXPIRE, PEXPIRE, EXPIREAT.
LEMMA TimedGood ==
  ASSUME NEW d, DbGood(d), NEW k \in Strings, NEW s \in Strings, NEW n \in i64 \cup {NotInt}
  PROVE  /\ DbGood(KS!handle_setex(d, 0, k, n, s).db) /\ DbGood(KS!handle_psetex(d, 0, k, n, s).db)
         /\ DbGood(KS!handle_expire(d, 0, k, n).db) /\ DbGood(KS!handle_pexpire(d, 0, k, n).db)
         /\ DbGood(KS!handle_expireat(d, 0, k, n).db)
  <1> DEFINE d2 == KS!set(d, k, KS!create_string(s))
  <1>1. DbGood(d2) /\ k \in DOMAIN d2.keys
    BY ObjectText, SetGood
  <1>2. n # NotInt => n \in Int /\ n * 2 \in Int /\ KS!Wrap(n * 2) \in Int
    <2>1. n # NotInt => n \in Int
      BY Range64
    <2>2. n # NotInt => n * 2 \in Int
      BY <2>1
    <2> QED BY <2>1, <2>2, WrapRange, Range64
  <1>3. ASSUME NEW ms \in Int
        PROVE  DbGood(KS!SetWithDelay(d, 0, k, s, n, ms).db)
    <2> DEFINE e == KS!SetWithDelay(d, 0, k, s, n, ms).db
    <2>1. e = d \/ e = KS!set_expire(d2, k, KS!Wrap(0 + ms))
      BY ReplyDb DEF KS!SetWithDelay
    <2>2. KS!Wrap(0 + ms) \in i64
      BY WrapRange
    <2> HIDE DEF d2, e
    <2>3. DbGood(e)
      BY <1>1, <2>1, <2>2, SetExpireGood
    <2> QED BY <2>3 DEF e
  <1>4. ASSUME NEW ms, n = NotInt
        PROVE  DbGood(KS!SetWithDelay(d, 0, k, s, n, ms).db)
    BY <1>4, ReplyDb DEF KS!SetWithDelay, KS!BadTime
  <1>5. DbGood(KS!handle_psetex(d, 0, k, n, s).db)
    BY <1>2, <1>3, <1>4 DEF KS!handle_psetex
  <1>6. DbGood(KS!handle_setex(d, 0, k, n, s).db)
    <2>1. KS!ExpireMs("EX", n) = KS!Wrap(n * 2)
      BY DEF KS!ExpireMs
    <2> QED BY <1>2, <1>3, <1>4, <2>1 DEF KS!handle_setex
  <1>7. ASSUME NEW at, n # NotInt => at \in i64
        PROVE  DbGood(KS!SetDeadline(d, 0, k, n, at).db)
    <2> DEFINE e == KS!SetDeadline(d, 0, k, n, at).db
    <2>1. \/ e = d \/ e = KS!AfterGet(d, k, 0)
          \/ n # NotInt /\ KS!exists(d, k, 0) /\ e = KS!set_expire(d, k, at)
      BY ReplyDb DEF KS!SetDeadline
    <2> HIDE DEF e
    <2>2. DbGood(e)
      BY <1>7, <2>1, GetGood, PeekGood, SetExpireGood
    <2> QED BY <2>2 DEF e
  <1>8. n # NotInt => /\ KS!Wrap(0 + KS!Wrap(n * 2)) \in i64 /\ KS!Wrap(0 + n) \in i64
                      /\ KS!Wrap(n * 2) \in i64
    BY <1>2, WrapRange
  <1>9. DbGood(KS!handle_expire(d, 0, k, n).db)
    BY <1>7, <1>8 DEF KS!handle_expire
  <1>10. DbGood(KS!handle_pexpire(d, 0, k, n).db)
    BY <1>7, <1>8 DEF KS!handle_pexpire
  <1>11. DbGood(KS!handle_expireat(d, 0, k, n).db)
    BY <1>7, <1>8 DEF KS!handle_expireat
  <1> QED BY <1>5, <1>6, <1>9, <1>10, <1>11

\* DEL, PERSIST, RENAME, FLUSHDB.
LEMMA KeyWritersGood ==
  ASSUME NEW d, DbGood(d), NEW k \in Strings, NEW j \in Strings, NEW ks
  PROVE  /\ DbGood(KS!handle_del(d, ks).db) /\ DbGood(KS!handle_persist(d, 0, k).db)
         /\ DbGood(KS!handle_rename(d, 0, j, k).db) /\ DbGood(KS!handle_flushdb.db)
  <1>1. DbGood(KS!handle_del(d, ks).db)
    BY WithoutGood DEF KS!handle_del, KS!Reply
  <1>2. DbGood(KS!handle_persist(d, 0, k).db)
    <2>1. \/ KS!handle_persist(d, 0, k).db = KS!AfterGet(d, k, 0)
          \/ KS!handle_persist(d, 0, k).db = KS!remove_expire(d, k)
      BY ReplyDb DEF KS!handle_persist
    <2> QED BY <2>1, GetGood, RemoveExpireGood
  <1>3. DbGood(KS!handle_rename(d, 0, j, k).db)
    <2> DEFINE d1 == KS!delete_key(d, j)
               s  == KS!create_string(KS!peek(d, j, 0))
               e  == KS!handle_rename(d, 0, j, k).db
    <2>1. e = KS!AfterGet(d, j, 0) \/ (KS!exists(d, j, 0) /\ e = KS!set(d1, k, s))
      BY ReplyDb DEF KS!handle_rename
    <2>2. DbGood(d1)
      BY WithoutGood DEF KS!delete_key, KS!Erase
    <2>3. KS!exists(d, j, 0) => s \in Strings
      BY PeekGood, ObjectText
    <2> HIDE DEF d1, s, e
    <2>4. DbGood(e)
      BY <2>1, <2>2, <2>3, GetGood, SetGood
    <2> QED BY <2>4 DEF e
  <1>4. DbGood(KS!handle_flushdb.db)
    BY EmptyGood DEF KS!handle_flushdb, KS!Reply
  <1> QED BY <1>1, <1>2, <1>3, <1>4

LEMMA MsetGood ==
  ASSUME NEW d, DbGood(d), NEW n \in Nat, NEW pairs, DOMAIN pairs = 1..n,
         \A i \in 1..n : pairs[i][1] \in Strings /\ pairs[i][2] \in Strings,
         NEW dangling \in BOOLEAN
  PROVE  DbGood(KS!handle_mset(d, pairs, dangling).db)
  <1> DEFINE written == {pairs[i][1] : i \in DOMAIN pairs}
             Final(k) == CHOOSE i \in DOMAIN pairs :
                           pairs[i][1] = k /\ \A j \in DOMAIN pairs : pairs[j][1] = k => j <= i
             keys == [k \in DOMAIN d.keys \cup written |->
                        IF k \in written THEN KS!create_string(pairs[Final(k)][2]) ELSE d.keys[k]]
             expires == [k \in DOMAIN d.expires \ written |-> d.expires[k]]
             e == KS!handle_mset(d, pairs, dangling).db
  <1>1. e = d \/ e = [keys |-> keys, expires |-> expires]
    BY ReplyDb DEF KS!handle_mset
  <1>2. ASSUME NEW k \in written
        PROVE  Final(k) \in 1..n
    <2> DEFINE U == {i \in 1..n : pairs[i][1] = k}
    <2>1. U \in SUBSET (0..n) /\ U # {}
      OBVIOUS
    <2> HIDE DEF U
    <2>2. PICK i \in U : \A j \in U : j <= i
      BY <2>1, GreatestElement
    <2>3. i \in DOMAIN pairs /\ pairs[i][1] = k /\ \A j \in DOMAIN pairs : pairs[j][1] = k => j <= i
      BY <2>2 DEF U
    <2>4. Final(k) \in DOMAIN pairs
      BY <2>3
    <2> QED BY <2>4
  <1>3. \A k \in written : pairs[Final(k)][2] \in Strings
    BY <1>2
  <1>4. \A k \in written : KS!create_string(pairs[Final(k)][2]) \in Strings
    BY <1>3, ObjectText
  <1>5. written \subseteq Strings
    OBVIOUS
  <1> HIDE DEF written, Final, e
  <1>6. DbGood([keys |-> keys, expires |-> expires])
    <2>1. DOMAIN keys \subseteq Strings /\ keys \in [DOMAIN keys -> Strings]
      BY <1>4, <1>5 DEF DbGood
    <2>2. DOMAIN expires \subseteq DOMAIN keys /\ expires \in [DOMAIN expires -> i64]
      BY DEF DbGood
    <2> HIDE DEF keys, expires
    <2> QED BY <2>1, <2>2 DEF DbGood
  <1> HIDE DEF keys, expires
  <1>7. DbGood(e)
    BY <1>1, <1>6
  <1> QED BY <1>7 DEF e

-----------------------------------------------------------------------------
(***************************************************************************)
(* The options of SET.                                                     *)
(***************************************************************************)
OptionsOK(s) ==
  /\ s.unit \in {"EX", "PX", "none"} /\ s.n \in i64 \cup {NotInt}
  /\ s.nx \in BOOLEAN /\ s.xx \in BOOLEAN
  /\ s = [at |-> s.at, bad |-> s.bad, nx |-> s.nx, xx |-> s.xx, unit |-> s.unit, n |-> s.n]

LEMMA TurnOptions ==
  ASSUME NEW a, NEW s, OptionsOK(s)
  PROVE  OptionsOK(OptionTurn(a, s))
  <1> DEFINE opt == toupper(a[s.at].str)
             n   == from_chars(a[s.at + 1].str).value
             nx  == s.nx \/ opt = <<"NX">>
             xx  == s.xx \/ opt = <<"XX">>
  <1>1. n \in i64 \cup {NotInt}
    BY NumberRange DEF i64
  <1>2. \/ OptionTurn(a, s) = s
        \/ OptionTurn(a, s) = [s EXCEPT !.bad = TRUE]
        \/ /\ opt \in {<<"EX">>, <<"PX">>}
           /\ OptionTurn(a, s) = [s EXCEPT !.at = @ + 2, !.unit = opt[1], !.n = n]
        \/ OptionTurn(a, s) = [s EXCEPT !.at = @ + 1, !.nx = nx, !.xx = xx]
    BY DEF OptionTurn
  <1>3. opt \in {<<"EX">>, <<"PX">>} => opt[1] \in {"EX", "PX"}
    OBVIOUS
  <1>4. nx \in BOOLEAN /\ xx \in BOOLEAN
    BY DEF OptionsOK
  <1> HIDE DEF opt, n, nx, xx
  <1> QED BY <1>1, <1>2, <1>3, <1>4 DEF OptionsOK

LEMMA TurnsExist ==
  ASSUME NEW a, NEW m \in Nat
  PROVE  \E g : g = [i \in 0..m |-> IF i = 0 THEN NoOptions ELSE OptionTurn(a, g[i - 1])]
  <1> DEFINE T == {x \in Nat : ~ \E g : g = [i \in 0..x |-> IF i = 0 THEN NoOptions
                                                            ELSE OptionTurn(a, g[i - 1])]}
  <1> SUFFICES ASSUME T # {} PROVE FALSE
    OBVIOUS
  <1>1. PICK x \in T : \A y \in T : x <= y
    BY LeastElement
  <1>2. x # 0
    <2> DEFINE g == [i \in 0..0 |-> NoOptions]
    <2>1. g = [i \in 0..0 |-> IF i = 0 THEN NoOptions ELSE OptionTurn(a, g[i - 1])]
      OBVIOUS
    <2> QED BY <2>1
  <1>3. x - 1 \in Nat /\ x - 1 \notin T /\ x \in Nat
    <2>1. T \subseteq Nat
      OBVIOUS
    <2> HIDE DEF T
    <2> QED BY <1>1, <1>2, <2>1
  <1>4. PICK g : g = [i \in 0..x - 1 |-> IF i = 0 THEN NoOptions ELSE OptionTurn(a, g[i - 1])]
    BY <1>3
  <1> DEFINE h == [i \in 0..x |-> IF i = x THEN OptionTurn(a, g[x - 1]) ELSE g[i]]
  <1>5. \A i \in 0..x - 1 : g[i] = IF i = 0 THEN NoOptions ELSE OptionTurn(a, g[i - 1])
    <2> HIDE DEF h, T
    <2> QED BY <1>4
  <1>6. \A i \in 0..x - 1 : h[i] = g[i]
    BY <1>3
  <1>7. h[x] = OptionTurn(a, g[x - 1])
    BY <1>3
  <1>8. h = [i \in 0..x |-> h[i]]
    OBVIOUS
  <1> HIDE DEF h
  <1>9. \A i \in 0..x : h[i] = IF i = 0 THEN NoOptions ELSE OptionTurn(a, h[i - 1])
    <2> SUFFICES ASSUME NEW i \in 0..x
                 PROVE  h[i] = IF i = 0 THEN NoOptions ELSE OptionTurn(a, h[i - 1])
      OBVIOUS
    <2>1. i # 0 => i - 1 \in 0..x - 1
      BY <1>3
    <2>2. i # x => i \in 0..x - 1
      BY <1>3
    <2> QED BY <1>2, <1>5, <1>6, <1>7, <2>1, <2>2
  <1>10. h = [i \in 0..x |-> IF i = 0 THEN NoOptions ELSE OptionTurn(a, h[i - 1])]
    BY <1>8, <1>9
  <1> QED BY <1>1, <1>10

LEMMA SetOptionsOK ==
  ASSUME NEW T, NEW a \in Seq(T)
  PROVE  OptionsOK(SetOptions(a))
  <1> DEFINE m == Len(a)
             Eq(g) == g = [i \in 0..m |-> IF i = 0 THEN NoOptions ELSE OptionTurn(a, g[i - 1])]
             turns == CHOOSE g : Eq(g)
             U == {i \in 0..m : ~ OptionsOK(turns[i])}
  <1>1. m \in Nat
    OBVIOUS
  <1>2. SetOptions(a) = turns[m]
    BY DEF SetOptions
  <1>3. Eq(turns)
    <2>1. \E g : Eq(g)
      BY <1>1, TurnsExist
    <2> HIDE DEF Eq
    <2> QED BY <2>1
  <1> HIDE DEF turns, m
  <1>4. \A i \in 0..m : turns[i] = IF i = 0 THEN NoOptions ELSE OptionTurn(a, turns[i - 1])
    BY <1>3
  <1>5. OptionsOK(NoOptions)
    BY DEF OptionsOK, NoOptions
  <1>6. ASSUME U # {} PROVE FALSE
    <2>1. PICK x \in U : \A y \in U : x <= y
      <3>1. U \in SUBSET Nat
        OBVIOUS
      <3> QED BY <1>6, <3>1, LeastElement
    <2>2. x # 0 /\ x \in 0..m
      BY <1>4, <1>5, <2>1
    <2>3. x - 1 \in 0..m /\ x - 1 \notin U
      BY <1>1, <2>1, <2>2
    <2>4. OptionsOK(turns[x - 1]) /\ turns[x] = OptionTurn(a, turns[x - 1])
      BY <1>4, <2>2, <2>3
    <2> QED BY <2>1, <2>4, TurnOptions
  <1>7. m \in 0..m /\ m \notin U
    BY <1>1, <1>6
  <1> QED BY <1>2, <1>7

-----------------------------------------------------------------------------
(***************************************************************************)
(* The commands of the registry.                                           *)
(***************************************************************************)
\* The elements of a command are byte strings.
Arguments(a) == (\E T : a \in Seq(T)) /\ \A i \in 1..Len(a) : a[i].str \in Strings

\* The outcome o of the command c on d: a good database, which looks different
\* only if c is marked as a write.
Sound(c, d, o) ==
  DbGood(o.db) /\ (~ c.write => KS!Live(o.db, 0) = KS!Live(d, 0))

LEMMA ReadSound ==
  ASSUME NEW c, NEW d, NEW o, Reads(d, o)
  PROVE  Sound(c, d, o)
  BY DEF Reads, Sound

LEMMA WriteSound ==
  ASSUME NEW c, NEW d, NEW o, DbGood(o.db), c.write
  PROVE  Sound(c, d, o)
  BY DEF Sound

LEMMA NumberArgument ==
  ASSUME NEW s
  PROVE  from_chars(s).value \in i64 \cup {NotInt}
  BY NumberRange DEF i64

LEMMA StringCommandsSound ==
  ASSUME NEW d, DbGood(d), NEW a, Arguments(a), NEW K,
         NEW c \in StringCommands, ~ WrongArity(c, Len(a))
  PROVE  Sound(c, d, Execute(c.name, d, a, K))
  <1>l. Len(a) \in Nat
    BY DEF Arguments
  <1>a. /\ Len(a) >= 2 => a[2].str \in Strings
        /\ Len(a) >= 3 => a[3].str \in Strings
        /\ Len(a) >= 4 => a[4].str \in Strings
    BY <1>l DEF Arguments
  <1>1. CASE c.name = "SET"
    <2>1. Len(a) >= 3 /\ c.write
      BY <1>l, <1>1 DEF StringCommands, Row, WrongArity
    <2>2. OptionsOK(SetOptions(a))
      BY SetOptionsOK DEF Arguments
    <2> DEFINE o == SetOptions(a)
               r == KS!handle_set(d, 0, a[2].str, a[3].str, o.nx, o.xx, o.unit, o.n)
    <2>3. Execute("SET", d, a, K) = IF o.bad THEN KS!Reply(d, KS!Error) ELSE r
      BY DEF Execute
    <2>4. DbGood(r.db)
      <3>1. /\ o.nx \in BOOLEAN /\ o.xx \in BOOLEAN
            /\ o.unit \in {"EX", "PX", "none"} /\ o.n \in i64 \cup {NotInt}
        BY <2>2 DEF OptionsOK
      <3> HIDE DEF o
      <3> QED BY <1>a, <2>1, <3>1, SetHandlerGood
    <2> HIDE DEF o, r
    <2>5. DbGood(Execute("SET", d, a, K).db)
      BY <2>3, <2>4, ReplyDb
    <2> QED BY <1>1, <2>1, <2>5, WriteSound
  <1>2. CASE c.name = "GET"
    <2>1. Execute("GET", d, a, K) = KS!handle_get(d, 0, a[2].str)
      BY DEF Execute
    <2>2. Reads(d, Execute("GET", d, a, K))
      BY <2>1, ReadersGood
    <2> QED BY <1>2, <2>2, ReadSound
  <1>3. CASE c.name = "GETSET"
    <2>1. Len(a) >= 3 /\ c.write
      BY <1>l, <1>3 DEF StringCommands, Row, WrongArity
    <2> DEFINE k == a[2].str
               s == a[3].str
    <2>2. Execute("GETSET", d, a, K) = KS!handle_getset(d, 0, k, s)
      BY DEF Execute
    <2>3. k \in Strings /\ s \in Strings
      BY <1>a, <2>1
    <2> HIDE DEF k, s
    <2>4. DbGood(Execute("GETSET", d, a, K).db)
      BY <2>2, <2>3, WritersGood
    <2> QED BY <1>3, <2>1, <2>4, WriteSound
  <1>4. CASE c.name = "MSET"
    <2>1. Len(a) >= 3 /\ c.write
      BY <1>l, <1>4 DEF StringCommands, Row, WrongArity
    <2> DEFINE n == (Len(a) - 1) \div 2
               pairs == [i \in 1..n |-> <<a[2 * i].str, a[2 * i + 1].str>>]
               dangling == Len(a) % 2 = 0
    <2>2. n \in Nat /\ 2 * n + 1 <= Len(a)
      BY <1>l, <2>1
    <2>3. \A i \in 1..n : 2 * i \in 1..Len(a) /\ 2 * i + 1 \in 1..Len(a)
      <3> HIDE DEF n
      <3> QED BY <1>l, <2>2
    <2>4. Execute("MSET", d, a, K) = KS!handle_mset(d, pairs, dangling)
      BY DEF Execute
    <2>5. DOMAIN pairs = 1..n /\ dangling \in BOOLEAN
      OBVIOUS
    <2>6. \A i \in 1..n : pairs[i][1] = a[2 * i].str /\ pairs[i][2] = a[2 * i + 1].str
      OBVIOUS
    <2>7. \A i \in 1..n : pairs[i][1] \in Strings /\ pairs[i][2] \in Strings
      <3> HIDE DEF n, pairs
      <3> QED BY <2>3, <2>6 DEF Arguments
    <2> HIDE DEF n, pairs, dangling
    <2>8. DbGood(Execute("MSET", d, a, K).db)
      BY <2>2, <2>4, <2>5, <2>7, MsetGood
    <2> QED BY <1>4, <2>1, <2>8, WriteSound
  <1>5. CASE c.name = "MGET"
    <2>1. Execute("MGET", d, a, K) = KS!handle_mget(d, 0, [i \in 1..Len(a) - 1 |-> a[i + 1].str])
      BY DEF Execute
    <2>2. Reads(d, Execute("MGET", d, a, K))
      BY <2>1, ReadersGood
    <2> QED BY <1>5, <2>2, ReadSound
  <1>6. CASE c.name = "APPEND"
    <2>1. Len(a) >= 3 /\ c.write
      BY <1>l, <1>6 DEF StringCommands, Row, WrongArity
    <2> DEFINE k == a[2].str
               s == a[3].str
    <2>2. Execute("APPEND", d, a, K) = KS!handle_append(d, 0, k, s)
      BY DEF Execute
    <2>3. k \in Strings /\ s \in Strings
      BY <1>a, <2>1
    <2> HIDE DEF k, s
    <2>4. DbGood(Execute("APPEND", d, a, K).db)
      BY <2>2, <2>3, WritersGood
    <2> QED BY <1>6, <2>1, <2>4, WriteSound
  <1>7. CASE c.name = "STRLEN"
    <2>1. Execute("STRLEN", d, a, K) = KS!handle_strlen(d, 0, a[2].str)
      BY DEF Execute
    <2>2. Reads(d, Execute("STRLEN", d, a, K))
      BY <2>1, ReadersGood
    <2> QED BY <1>7, <2>2, ReadSound
  <1>8. CASE c.name = "INCR"
    <2>1. Len(a) >= 2 /\ c.write
      BY <1>l, <1>8 DEF StringCommands, Row, WrongArity
    <2> DEFINE k == a[2].str
               n == from_chars(a[3].str).value
    <2>2. Execute("INCR", d, a, K) = KS!handle_incr(d, 0, k)
      BY DEF Execute
    <2>3. k \in Strings /\ n \in i64 \cup {NotInt}
      BY <1>a, <2>1, NumberArgument
    <2> HIDE DEF k, n
    <2>4. DbGood(Execute("INCR", d, a, K).db)
      BY <2>2, <2>3, CountersGood
    <2> QED BY <1>8, <2>1, <2>4, WriteSound
  <1>9. CASE c.name = "INCRBY"
    <2>1. Len(a) >= 3 /\ c.write
      BY <1>l, <1>9 DEF StringCommands, Row, WrongArity
    <2> DEFINE k == a[2].str
               s == a[3].str
               n == from_chars(a[3].str).value
    <2>2. Execute("INCRBY", d, a, K) = KS!handle_incrby(d, 0, k, n)
      BY DEF Execute
    <2>3. k \in Strings /\ s \in Strings /\ n \in i64 \cup {NotInt}
      BY <1>a, <2>1, NumberArgument
    <2> HIDE DEF k, s, n
    <2>4. DbGood(Execute("INCRBY", d, a, K).db)
      BY <2>2, <2>3, CountersGood
    <2> QED BY <1>9, <2>1, <2>4, WriteSound
  <1>10. CASE c.name = "DECR"
    <2>1. Len(a) >= 2 /\ c.write
      BY <1>l, <1>10 DEF StringCommands, Row, WrongArity
    <2> DEFINE k == a[2].str
               n == from_chars(a[3].str).value
    <2>2. Execute("DECR", d, a, K) = KS!handle_decr(d, 0, k)
      BY DEF Execute
    <2>3. k \in Strings /\ n \in i64 \cup {NotInt}
      BY <1>a, <2>1, NumberArgument
    <2> HIDE DEF k, n
    <2>4. DbGood(Execute("DECR", d, a, K).db)
      BY <2>2, <2>3, CountersGood
    <2> QED BY <1>10, <2>1, <2>4, WriteSound
  <1>11. CASE c.name = "DECRBY"
    <2>1. Len(a) >= 3 /\ c.write
      BY <1>l, <1>11 DEF StringCommands, Row, WrongArity
    <2> DEFINE k == a[2].str
               s == a[3].str
               n == from_chars(a[3].str).value
    <2>2. Execute("DECRBY", d, a, K) = KS!handle_decrby(d, 0, k, n)
      BY DEF Execute
    <2>3. k \in Strings /\ s \in Strings /\ n \in i64 \cup {NotInt}
      BY <1>a, <2>1, NumberArgument
    <2> HIDE DEF k, s, n
    <2>4. DbGood(Execute("DECRBY", d, a, K).db)
      BY <2>2, <2>3, CountersGood
    <2> QED BY <1>11, <2>1, <2>4, WriteSound
  <1>12. CASE c.name = "SETEX"
    <2>1. Len(a) >= 4 /\ c.write
      BY <1>l, <1>12 DEF StringCommands, Row, WrongArity
    <2> DEFINE k == a[2].str
               s == a[4].str
               n == from_chars(a[3].str).value
    <2>2. Execute("SETEX", d, a, K) = KS!handle_setex(d, 0, k, n, s)
      BY DEF Execute
    <2>3. k \in Strings /\ s \in Strings /\ n \in i64 \cup {NotInt}
      BY <1>a, <2>1, NumberArgument
    <2> HIDE DEF k, s, n
    <2>4. DbGood(Execute("SETEX", d, a, K).db)
      BY <2>2, <2>3, TimedGood
    <2> QED BY <1>12, <2>1, <2>4, WriteSound
  <1>13. CASE c.name = "PSETEX"
    <2>1. Len(a) >= 4 /\ c.write
      BY <1>l, <1>13 DEF StringCommands, Row, WrongArity
    <2> DEFINE k == a[2].str
               s == a[4].str
               n == from_chars(a[3].str).value
    <2>2. Execute("PSETEX", d, a, K) = KS!handle_psetex(d, 0, k, n, s)
      BY DEF Execute
    <2>3. k \in Strings /\ s \in Strings /\ n \in i64 \cup {NotInt}
      BY <1>a, <2>1, NumberArgument
    <2> HIDE DEF k, s, n
    <2>4. DbGood(Execute("PSETEX", d, a, K).db)
      BY <2>2, <2>3, TimedGood
    <2> QED BY <1>13, <2>1, <2>4, WriteSound
  <1>14. CASE c.name = "SETNX"
    <2>1. Len(a) >= 3 /\ c.write
      BY <1>l, <1>14 DEF StringCommands, Row, WrongArity
    <2> DEFINE k == a[2].str
               s == a[3].str
    <2>2. Execute("SETNX", d, a, K) = KS!handle_setnx(d, 0, k, s)
      BY DEF Execute
    <2>3. k \in Strings /\ s \in Strings
      BY <1>a, <2>1
    <2> HIDE DEF k, s
    <2>4. DbGood(Execute("SETNX", d, a, K).db)
      BY <2>2, <2>3, WritersGood
    <2> QED BY <1>14, <2>1, <2>4, WriteSound
  <1>15. c.name \in {"SET", "GET", "GETSET", "MSET", "MGET", "APPEND", "STRLEN",
                     "INCR", "INCRBY", "DECR", "DECRBY", "SETEX", "PSETEX", "SETNX"}
    BY DEF StringCommands, Row
  <1> QED BY <1>1, <1>2, <1>3, <1>4, <1>5, <1>6, <1>7, <1>8, <1>9, <1>10,
            <1>11, <1>12, <1>13, <1>14, <1>15

LEMMA KeyCommandsSound ==
  ASSUME NEW d, DbGood(d), NEW a, Arguments(a), NEW K,
         NEW c \in KeyCommands, ~ WrongArity(c, Len(a))
  PROVE  Sound(c, d, Execute(c.name, d, a, K))
  <1>l. Len(a) \in Nat
    BY DEF Arguments
  <1>a. /\ Len(a) >= 2 => a[2].str \in Strings
        /\ Len(a) >= 3 => a[3].str \in Strings
        /\ Len(a) >= 4 => a[4].str \in Strings
    BY <1>l DEF Arguments
  <1>1. CASE c.name = "DEL"
    <2>1. Len(a) >= 2 /\ c.write
      BY <1>l, <1>1 DEF KeyCommands, Row, WrongArity
    <2> DEFINE k  == a[2].str
               ks == [i \in 1..Len(a) - 1 |-> a[i + 1].str]
    <2>2. Execute("DEL", d, a, K) = KS!handle_del(d, ks)
      BY DEF Execute
    <2>3. k \in Strings
      BY <1>a, <2>1
    <2> HIDE DEF k, ks
    <2>4. DbGood(Execute("DEL", d, a, K).db)
      BY <2>2, <2>3, KeyWritersGood
    <2> QED BY <1>1, <2>1, <2>4, WriteSound
  <1>2. CASE c.name = "EXISTS"
    <2>1. Execute("EXISTS", d, a, K)
            = KS!handle_exists(d, 0, [i \in 1..Len(a) - 1 |-> a[i + 1].str])
      BY DEF Execute
    <2>2. Reads(d, Execute("EXISTS", d, a, K))
      BY <2>1, ReadersGood
    <2> QED BY <1>2, <2>2, ReadSound
  <1>3. CASE c.name = "TYPE"
    <2>1. Execute("TYPE", d, a, K) = KS!handle_type(d, 0, a[2].str)
      BY DEF Execute
    <2>2. Reads(d, Execute("TYPE", d, a, K))
      BY <2>1, ReadersGood
    <2> QED BY <1>3, <2>2, ReadSound
  <1>4. CASE c.name = "EXPIRE"
    <2>1. Len(a) >= 3 /\ c.write
      BY <1>l, <1>4 DEF KeyCommands, Row, WrongArity
    <2> DEFINE k == a[2].str
               s == a[3].str
               n == from_chars(a[3].str).value
    <2>2. Execute("EXPIRE", d, a, K) = KS!handle_expire(d, 0, k, n)
      BY DEF Execute
    <2>3. k \in Strings /\ s \in Strings /\ n \in i64 \cup {NotInt}
      BY <1>a, <2>1, NumberArgument
    <2> HIDE DEF k, s, n
    <2>4. DbGood(Execute("EXPIRE", d, a, K).db)
      BY <2>2, <2>3, TimedGood
    <2> QED BY <1>4, <2>1, <2>4, WriteSound
  <1>5. CASE c.name = "PEXPIRE"
    <2>1. Len(a) >= 3 /\ c.write
      BY <1>l, <1>5 DEF KeyCommands, Row, WrongArity
    <2> DEFINE k == a[2].str
               s == a[3].str
               n == from_chars(a[3].str).value
    <2>2. Execute("PEXPIRE", d, a, K) = KS!handle_pexpire(d, 0, k, n)
      BY DEF Execute
    <2>3. k \in Strings /\ s \in Strings /\ n \in i64 \cup {NotInt}
      BY <1>a, <2>1, NumberArgument
    <2> HIDE DEF k, s, n
    <2>4. DbGood(Execute("PEXPIRE", d, a, K).db)
      BY <2>2, <2>3, TimedGood
    <2> QED BY <1>5, <2>1, <2>4, WriteSound
  <1>6. CASE c.name = "EXPIREAT"
    <2>1. Len(a) >= 3 /\ c.write
      BY <1>l, <1>6 DEF KeyCommands, Row, WrongArity
    <2> DEFINE k == a[2].str
               s == a[3].str
               n == from_chars(a[3].str).value
    <2>2. Execute("EXPIREAT", d, a, K) = KS!handle_expireat(d, 0, k, n)
      BY DEF Execute
    <2>3. k \in Strings /\ s \in Strings /\ n \in i64 \cup {NotInt}
      BY <1>a, <2>1, NumberArgument
    <2> HIDE DEF k, s, n
    <2>4. DbGood(Execute("EXPIREAT", d, a, K).db)
      BY <2>2, <2>3, TimedGood
    <2> QED BY <1>6, <2>1, <2>4, WriteSound
  <1>7. CASE c.name = "TTL"
    <2>1. Execute("TTL", d, a, K) = KS!handle_ttl(d, 0, a[2].str)
      BY DEF Execute
    <2>2. Reads(d, Execute("TTL", d, a, K))
      BY <2>1, ReadersGood
    <2> QED BY <1>7, <2>2, ReadSound
  <1>8. CASE c.name = "PTTL"
    <2>1. Execute("PTTL", d, a, K) = KS!handle_pttl(d, 0, a[2].str)
      BY DEF Execute
    <2>2. Reads(d, Execute("PTTL", d, a, K))
      BY <2>1, ReadersGood
    <2> QED BY <1>8, <2>2, ReadSound
  <1>9. CASE c.name = "PERSIST"
    <2>1. Len(a) >= 2 /\ c.write
      BY <1>l, <1>9 DEF KeyCommands, Row, WrongArity
    <2> DEFINE k == a[2].str
    <2>2. Execute("PERSIST", d, a, K) = KS!handle_persist(d, 0, k)
      BY DEF Execute
    <2>3. k \in Strings
      BY <1>a, <2>1
    <2> HIDE DEF k
    <2>4. DbGood(Execute("PERSIST", d, a, K).db)
      BY <2>2, <2>3, KeyWritersGood
    <2> QED BY <1>9, <2>1, <2>4, WriteSound
  <1>10. CASE c.name = "KEYS"
    <2>1. Execute("KEYS", d, a, K) = KS!handle_keys(d, 0, K)
      BY DEF Execute
    <2>2. Reads(d, Execute("KEYS", d, a, K))
      BY <2>1, ReadersGood
    <2> QED BY <1>10, <2>2, ReadSound
  <1>11. CASE c.name = "RENAME"
    <2>1. Len(a) >= 3 /\ c.write
      BY <1>l, <1>11 DEF KeyCommands, Row, WrongArity
    <2> DEFINE k == a[2].str
               s == a[3].str
    <2>2. Execute("RENAME", d, a, K) = KS!handle_rename(d, 0, k, s)
      BY DEF Execute
    <2>3. k \in Strings /\ s \in Strings
      BY <1>a, <2>1
    <2> HIDE DEF k, s
    <2>4. DbGood(Execute("RENAME", d, a, K).db)
      BY <2>2, <2>3, KeyWritersGood
    <2> QED BY <1>11, <2>1, <2>4, WriteSound
  <1>12. CASE c.name = "DBSIZE"
    <2>1. Execute("DBSIZE", d, a, K) = KS!handle_dbsize(d)
      BY DEF Execute
    <2>2. Reads(d, Execute("DBSIZE", d, a, K))
      BY <2>1, ReadersGood
    <2> QED BY <1>12, <2>2, ReadSound
  <1>13. c.name \in {"DEL", "EXISTS", "TYPE", "EXPIRE", "PEXPIRE", "EXPIREAT", "TTL",
                     "PTTL", "PERSIST", "KEYS", "RENAME", "DBSIZE"}
    BY DEF KeyCommands, Row
  <1> QED BY <1>1, <1>2, <1>3, <1>4, <1>5, <1>6, <1>7, <1>8, <1>9, <1>10,
            <1>11, <1>12, <1>13

LEMMA ServerCommandsSound ==
  ASSUME NEW d, DbGood(d), NEW a, Arguments(a), NEW K,
         NEW c \in ServerCommands, ~ WrongArity(c, Len(a))
  PROVE  Sound(c, d, Execute(c.name, d, a, K))
  <1>l. Len(a) \in Nat
    BY DEF Arguments
  <1>a. /\ Len(a) >= 2 => a[2].str \in Strings
        /\ Len(a) >= 3 => a[3].str \in Strings
        /\ Len(a) >= 4 => a[4].str \in Strings
    BY <1>l DEF Arguments
  <1>1. CASE c.name = "PING"
    <2>1. Execute("PING", d, a, K) = KS!Reply(d, handle_ping(a))
      BY DEF Execute
    <2>2. Reads(d, Execute("PING", d, a, K))
      BY <2>1, ReplyDb DEF Reads
    <2> QED BY <1>1, <2>2, ReadSound
  <1>2. CASE c.name = "ECHO"
    <2>1. Execute("ECHO", d, a, K) = KS!Reply(d, handle_echo(a))
      BY DEF Execute
    <2>2. Reads(d, Execute("ECHO", d, a, K))
      BY <2>1, ReplyDb DEF Reads
    <2> QED BY <1>2, <2>2, ReadSound
  <1>3. CASE c.name = "FLUSHDB"
    <2>1. c.write
      BY <1>l, <1>3 DEF ServerCommands, Row, WrongArity
    <2>2. Execute("FLUSHDB", d, a, K).db = KS!EmptyDb
      BY DEF Execute, KS!handle_flushdb, KS!Reply
    <2>3. DbGood(Execute("FLUSHDB", d, a, K).db)
      BY <2>2, EmptyGood
    <2> QED BY <1>3, <2>1, <2>3, WriteSound
  <1>4. CASE c.name = "INFO"
    <2>1. Execute("INFO", d, a, K) = KS!Reply(d, handle_info)
      BY DEF Execute
    <2>2. Reads(d, Execute("INFO", d, a, K))
      BY <2>1, ReplyDb DEF Reads
    <2> QED BY <1>4, <2>2, ReadSound
  <1>5. CASE c.name = "SELECT"
    <2>1. Execute("SELECT", d, a, K) = KS!Reply(d, handle_select(a))
      BY DEF Execute
    <2>2. Reads(d, Execute("SELECT", d, a, K))
      BY <2>1, ReplyDb DEF Reads
    <2> QED BY <1>5, <2>2, ReadSound
  <1>6. CASE c.name = "QUIT"
    <2>1. Execute("QUIT", d, a, K) = KS!Reply(d, KS!OK)
      BY DEF Execute
    <2>2. Reads(d, Execute("QUIT", d, a, K))
      BY <2>1, ReplyDb DEF Reads
    <2> QED BY <1>6, <2>2, ReadSound
  <1>7. c.name \in {"PING", "ECHO", "FLUSHDB", "INFO", "SELECT", "QUIT"}
    BY DEF ServerCommands, Row
  <1> QED BY <1>1, <1>2, <1>3, <1>4, <1>5, <1>6, <1>7

\* What every command leaves behind.
LEMMA CommandsSound ==
  ASSUME NEW d, DbGood(d), NEW a, Arguments(a), NEW K,
         NEW c \in Registry, ~ WrongArity(c, Len(a))
  PROVE  Sound(c, d, Execute(c.name, d, a, K))
  BY StringCommandsSound, KeyCommandsSound, ServerCommandsSound DEF Registry

-----------------------------------------------------------------------------
(***************************************************************************)
(* The session.                                                            *)
(***************************************************************************)
\* The inductive invariant: types, and fewer than SIZE_MAX bytes.
SessionOK ==
  /\ script \in Scripts /\ StreamOK /\ DbGood(db)
  /\ dirty \in Nat /\ state \in {"Connected", "WriteOnly"}
  /\ pc \in {"idle", "loop", "terminated"}

LEMMA InitSession == Init => SessionOK
  BY InitStream, EmptyGood DEF Init, SessionOK

\* What a step leaves of the variables besides the stream, and that it counts
\* what it changes.
StepSound ==
  /\ script' = script /\ DbGood(db') /\ dirty' \in Nat
  /\ state' \in {"Connected", "WriteOnly"} /\ pc' \in {"idle", "loop", "terminated"}
  /\ KS!Live(db', 0) # KS!Live(db, 0) => dirty' = dirty + 1

LEMMA RefuseSound ==
  ASSUME SessionOK, NEW msg, Refuse(msg)
  PROVE  StepSound
  BY DEF SessionOK, Refuse, StepSound

LEMMA CallSound ==
  ASSUME SessionOK, NEW c \in Registry, NEW a, Arguments(a), ~ WrongArity(c, Len(a)), Call(c, a)
  PROVE  StepSound
  <1> DEFINE K == {k \in DOMAIN db.keys : glob_match(a[2].str, k)}
             o == Execute(c.name, db, a, K)
  <1>1. db' = o.db
    BY DEF Call
  <1>2. Sound(c, db, o)
    BY CommandsSound DEF SessionOK
  <1> HIDE DEF o
  <1>3. /\ script' = script /\ pc' = pc
        /\ state' = IF c.name = "QUIT" THEN "WriteOnly" ELSE state
        /\ dirty' = IF c.write THEN dirty + 1 ELSE dirty
    BY DEF Call
  <1>4. dirty' \in Nat
    BY <1>3 DEF SessionOK
  <1>5. DbGood(db') /\ (KS!Live(db', 0) # KS!Live(db, 0) => dirty' = dirty + 1)
    BY <1>1, <1>2, <1>3 DEF Sound
  <1>6. state' \in {"Connected", "WriteOnly"} /\ pc' \in {"idle", "loop", "terminated"}
    BY <1>3 DEF SessionOK
  <1> QED BY <1>3, <1>4, <1>5, <1>6 DEF StepSound

LEMMA TurnSound ==
  ASSUME SessionOK, Turn
  PROVE  StepSound
  <1> DEFINE p == parse(buf)
  <1>1. \/ Wait(p) \/ ProtocolError(p) \/ Terminate(p)
        \/ NotACommand(p) \/ UnknownCommand(p) \/ RunCommand(p)
    BY DEF Turn
  <1>2. SpelledOutcome(p, Byte)
    BY ParseSpelled DEF SessionOK, StreamOK, Strings
  <1> HIDE DEF p
  <1>3. CASE Wait(p)
    BY <1>3 DEF Wait, SessionOK, StepSound
  <1>4. CASE ProtocolError(p)
    BY <1>4 DEF ProtocolError, SessionOK, StepSound
  <1>8. CASE Terminate(p)
    BY <1>8 DEF Terminate, SessionOK, StepSound
  <1>5. CASE NotACommand(p)
    BY <1>5, RefuseSound DEF NotACommand
  <1>6. CASE UnknownCommand(p)
    BY <1>6, RefuseSound DEF UnknownCommand
  <1>7. CASE RunCommand(p)
    <2> DEFINE a == p.value.elements
    <2>1. p.result = "Complete"
      BY <1>7 DEF RunCommand
    <2>2. Arguments(a)
      BY <1>2, <2>1 DEF SpelledOutcome, Spelled, Arguments, Strings
    <2>3. PICK c \in find(a[1].str) :
            IF WrongArity(c, Len(a))
            THEN Refuse(<<"wrong number of arguments for ", c.name>>)
            ELSE Call(c, a)
      BY <1>7 DEF RunCommand
    <2>4. c \in Registry
      BY DEF find
    <2> HIDE DEF a
    <2>5. CASE WrongArity(c, Len(a))
      BY <2>3, <2>5, RefuseSound
    <2>6. CASE ~ WrongArity(c, Len(a))
      BY <2>2, <2>3, <2>4, <2>6, CallSound
    <2> QED BY <2>5, <2>6
  <1> QED BY <1>1, <1>3, <1>4, <1>5, <1>6, <1>7, <1>8

LEMMA NextSound ==
  ASSUME SessionOK, [Next]_vars
  PROVE  SessionOK' /\ (KS!Live(db', 0) # KS!Live(db, 0) => dirty' = dirty + 1)
  <1>1. StreamOK'
    BY NextStream DEF SessionOK
  <1>2. CASE Read
    BY <1>1, <1>2 DEF Read, SessionOK
  <1>3. CASE Turn
    BY <1>1, <1>3, TurnSound DEF StepSound, SessionOK
  <1>4. CASE UNCHANGED vars
    BY <1>1, <1>4 DEF vars, SessionOK
  <1> QED BY <1>2, <1>3, <1>4 DEF Next

LEMMA SessionInvariant == Spec => []SessionOK
  <1>1. SessionOK /\ [Next]_vars => SessionOK'
    BY NextSound
  <1> QED BY <1>1, InitSession, PTL DEF Spec

\* Whatever bytes a client sends, however they are cut: what the commands store
\* under its keys are byte strings of the client's, numbers included, and the
\* deadlines are 64-bit numbers of keys that are stored.
THEOREM SessionTypeCorrect == Spec => []TypeOK
  <1>1. SessionOK => TypeOK
    BY DEF SessionOK, StreamOK, DbGood, i64, TypeOK
  <1> QED BY <1>1, SessionInvariant, PTL

-----------------------------------------------------------------------------
(***************************************************************************)
(* Exceptions.  Blamed(r, why): if r is one, there is a reason.            *)
(***************************************************************************)
Blamed(r, why) == r.result = "Throws" => why

BlamedFrom(values, lo, len, why) == \A p \in lo..len : Blamed(values[p], why)

LEMMA ElementsBlamed ==
  ASSUME NEW values, NEW len \in Nat, NEW lo \in Nat, OutcomesFrom(values, lo, len),
         NEW why \in BOOLEAN, BlamedFrom(values, lo, len, why),
         NEW pos \in lo..len, NEW count \in Nat, NEW n \in 0..count
  PROVE  Blamed(Elements(values, pos, count)[n], why)
  <1> DEFINE e == Elements(values, pos, count)
             T == {m \in 0..count : ~ Blamed(e[m], why)}
  <1>e. /\ e[0] = Parsed(Array(<< >>), pos)
        /\ \A m \in 1..count : e[m] = NextElement(values, e[m - 1])
    BY ElementsUnfold
  <1>o. \A m \in 0..count : e[m].result = "Complete" => e[m].pos \in pos..len
    BY ElementsOutcome, OutcomeCases
  <1> HIDE DEF e
  <1> SUFFICES ASSUME T # {} PROVE FALSE
    BY DEF e
  <1>0. T \in SUBSET Nat
    OBVIOUS
  <1>1. PICK x \in T : \A y \in T : x <= y
    BY <1>0, LeastElement
  <1>2. Blamed(e[0], why)
    BY <1>e, OutcomeCases DEF Blamed
  <1>3. x \in 1..count /\ x - 1 \in 0..count /\ x - 1 \notin T
    BY <1>1, <1>2
  <1>4. Blamed(e[x - 1], why) /\ e[x] = NextElement(values, e[x - 1])
    BY <1>e, <1>3
  <1> DEFINE b == e[x - 1]
             w == values[b.pos]
  <1>5. CASE b.result # "Complete"
    BY <1>1, <1>4, <1>5 DEF NextElement
  <1>6. CASE b.result = "Complete"
    <2>1. b.pos \in lo..len
      BY <1>3, <1>6, <1>o
    <2>2. Blamed(w, why)
      BY <2>1 DEF BlamedFrom
    <2> HIDE DEF b
    <2>3. e[x] = w \/ \E v, q : e[x] = Parsed(v, q)
      BY <1>4, <1>6 DEF NextElement, b
    <2>4. Blamed(e[x], why)
      BY <2>2, <2>3, OutcomeCases DEF Blamed
    <2> QED BY <1>1, <2>4
  <1> QED BY <1>5, <1>6

\* Whatever the parser is given, it throws only for the header of an array.
LEMMA ParseBlamed ==
  ASSUME NEW S, NEW input \in Seq(S), parse(input).result = "Throws"
  PROVE  \E i \in 0..Len(input) - 1 : Overlong(input, i)
  <1> DEFINE v == parse_value(input)
             len == Len(input)
             why == \E i \in 0..len - 1 : Overlong(input, i)
             T == {x \in 0..len : ~ Blamed(v[x], why)}
  <1>u. (\A pos \in 0..len : v[pos] = ValueAt(input, pos, v)) /\ OutcomesFrom(v, 0, len)
    BY ValuesUnfold
  <1>b. why \in BOOLEAN
    OBVIOUS
  <1> HIDE DEF v, why
  <1>l. len \in Nat /\ T \in SUBSET (0..len)
    OBVIOUS
  <1>1. ASSUME T # {} PROVE FALSE
    <2>1. PICK x \in T : \A y \in T : y <= x
      <3> HIDE DEF T, len
      <3> QED BY <1>l, <1>1, GreatestElement
    <2>2. x \in 0..len /\ v[x].result = "Throws" /\ ~ why
      BY <2>1 DEF Blamed
    <2>3. \A p \in x + 1..len : p \in 0..len /\ p \notin T
      BY <1>l, <2>1
    <2>4. BlamedFrom(v, x + 1, len, why) /\ OutcomesFrom(v, x + 1, len)
      BY <1>u, <2>2, <2>3 DEF OutcomesFrom, BlamedFrom
    <2> DEFINE l == parse_line(input, x + 1)
               n == from_chars(l.line).value
               r == ValueAt(input, x, v)
    <2>5. r.result = "Throws"
      BY <1>u, <2>2
    <2>6. x < len /\ At(input, x) = "*" /\ r = parse_array(input, x, v)
      <3>1. ~ (x >= len)
        <4> SUFFICES ASSUME x >= len PROVE FALSE
          OBVIOUS
        <4>1. At(input, x) = "outside"
          BY <2>2 DEF At
        <4>2. r = Incomplete
          BY <4>1 DEF ValueAt
        <4> QED BY <2>5, <4>2, OutcomeCases
      <3>2. \/ At(input, x) \in {"+", "-", ":"} /\ r = parse_simple(input, x)
            \/ r = parse_bulk_string(input, x)
            \/ At(input, x) = "*" /\ r = parse_array(input, x, v)
            \/ r = Malformed
        BY <3>1 DEF ValueAt
      <3>3. At(input, x) \in {"+", "-", ":"} => parse_simple(input, x).result # "Throws"
        BY OutcomeCases DEF parse_simple
      <3>4. parse_bulk_string(input, x).result # "Throws"
        BY OutcomeCases DEF parse_bulk_string
      <3> QED BY <2>2, <2>5, <3>1, <3>2, <3>3, <3>4, OutcomeCases
    <2>7. l.ok /\ n # NotInt /\ ~ (n < 0) /\ (n > MaxElements \/ r = Elements(v, l.pos, n)[n])
      BY <2>5, <2>6, OutcomeCases DEF parse_array
    <2>8. CASE n > MaxElements
      <3>1. Overlong(input, x) /\ x \in 0..len - 1
        BY <2>2, <2>6, <2>7, <2>8 DEF Overlong
      <3> QED BY <2>2, <3>1 DEF why
    <2>9. CASE r = Elements(v, l.pos, n)[n]
      <3>1. l.pos \in x + 1 + 2..len /\ n \in Int
        BY <2>2, <2>7, LineBounds, NumberIsInt
      <3>2. n \in Nat /\ n \in 0..n /\ l.pos \in x + 1..len /\ x + 1 \in Nat
        BY <2>2, <2>7, <3>1
      <3> HIDE DEF n, l, r, len
      <3>3. Blamed(Elements(v, l.pos, n)[n], why)
        BY <1>b, <1>l, <2>4, <3>2, ElementsBlamed
      <3> QED BY <2>2, <2>5, <2>9, <3>3 DEF Blamed
    <2> QED BY <2>7, <2>8, <2>9
  <1>2. 0 \in 0..len /\ 0 \notin T
    BY <1>l, <1>1
  <1>3. v[0].result = "Throws"
    BY DEF parse, v
  <1> QED BY <1>2, <1>3 DEF Blamed, why

\* No bytes end the server but the header of an array of more elements than can
\* be reserved, for any stream of bytes and any way to cut it.
THEOREM OnlyCountsEnd == Spec => []EndsByCountOnly
  <1>1. Init => EndsByCountOnly
    BY DEF Init, EndsByCountOnly
  <1>2. ASSUME SessionOK, EndsByCountOnly, [Next]_vars
        PROVE  EndsByCountOnly'
    <2>1. CASE Read
      BY <2>1 DEF Read, EndsByCountOnly
    <2>2. CASE Turn
      <3> DEFINE p == parse(buf)
      <3>1. buf \in Seq(Byte)
        BY <1>2 DEF SessionOK, StreamOK, Strings
      <3>2. pc = "loop"
        BY <2>2 DEF Turn
      <3>3. \/ Wait(p) \/ ProtocolError(p) \/ Terminate(p)
            \/ NotACommand(p) \/ UnknownCommand(p) \/ RunCommand(p)
        BY <2>2 DEF Turn
      <3>4. CASE Terminate(p)
        BY <3>1, <3>4, ParseBlamed DEF Terminate, EndsByCountOnly
      <3>5. CASE Wait(p) \/ ProtocolError(p)
        BY <3>5 DEF Wait, ProtocolError, EndsByCountOnly
      <3>6. CASE NotACommand(p) \/ UnknownCommand(p)
        BY <3>2, <3>6 DEF NotACommand, UnknownCommand, Refuse, EndsByCountOnly
      <3>7. CASE RunCommand(p)
        <4>1. pc' = pc
          BY <3>7 DEF RunCommand, Refuse, Call
        <4> QED BY <3>2, <4>1 DEF EndsByCountOnly
      <3> QED BY <3>3, <3>4, <3>5, <3>6, <3>7
    <2>3. CASE UNCHANGED vars
      BY <1>2, <2>3 DEF vars, EndsByCountOnly
    <2> QED BY <1>2, <2>1, <2>2, <2>3 DEF Next
  <1> QED BY <1>1, <1>2, SessionInvariant, PTL DEF Spec

-----------------------------------------------------------------------------
(***************************************************************************)
(* KEYS and the changes that are counted.                                  *)
(***************************************************************************)
\* In every state, for every pattern that KEYS may be asked for, glob_match gives
\* its answer for every stored key as the definition of a match has it.
THEOREM KeysAlwaysExact == Spec => []KeysExact
  <1>1. SessionOK => KeysExact
    <2> SUFFICES ASSUME SessionOK, NEW pattern \in Patterns, NEW k \in DOMAIN db.keys
                 PROVE  glob_match(pattern, k) <=> Matches(pattern, k)
      BY DEF KeysExact
    <2>1. pattern \in Seq(Byte) /\ k \in Seq(Byte)
      BY ByteAssumption DEF SessionOK, DbGood, Strings
    <2> QED BY <2>1, GlobMatchExact
  <1> QED BY <1>1, SessionInvariant, PTL

\* No handler of a command that is not marked as a write changes what a client
\* can see, and no refused or unparsable message does: dirty_keys misses nothing.
THEOREM EveryChangeCounted == Spec => ChangesCounted
  <1>1. SessionOK /\ [Next]_vars
          => [KS!Live(db', 0) # KS!Live(db, 0) => dirty' = dirty + 1]_vars
    BY NextSound
  <1> QED BY <1>1, SessionInvariant, PTL DEF Spec, ChangesCounted

-----------------------------------------------------------------------------
(***************************************************************************)
(* The messages one after the other.                                       *)
(***************************************************************************)
\* A name has one row.
LEMMA SameRow ==
  ASSUME NEW c \in Registry, NEW e \in Registry, c.name = e.name
  PROVE  c.min = e.min /\ c.max = e.max
  <1>1. CASE c \in StringCommands
    <2>1. e \in StringCommands
      BY <1>1 DEF Registry, StringCommands, KeyCommands, ServerCommands, Row
    <2> QED BY <1>1, <2>1 DEF StringCommands, Row
  <1>2. CASE c \in KeyCommands
    <2>1. e \in KeyCommands
      BY <1>2 DEF Registry, StringCommands, KeyCommands, ServerCommands, Row
    <2> QED BY <1>2, <2>1 DEF KeyCommands, Row
  <1>3. CASE c \in ServerCommands
    <2>1. e \in ServerCommands
      BY <1>3 DEF Registry, StringCommands, KeyCommands, ServerCommands, Row
    <2> QED BY <1>3, <2>1 DEF ServerCommands, Row
  <1> QED BY <1>1, <1>2, <1>3 DEF Registry

\* Only KEYS looks at the keys that match.
LEMMA MatchingOnlyForKeys ==
  ASSUME NEW n, n # "KEYS", NEW d, NEW a, NEW K, NEW L
  PROVE  Execute(n, d, a, K) = Execute(n, d, a, L)
  BY DEF Execute

\* b and r make up what u and w do; without b, the rest of u and w make up r.
LEMMA DropFront ==
  ASSUME NEW S, NEW b \in Seq(S), NEW r \in Seq(S), NEW u \in Seq(S), NEW w \in Seq(S),
         b \o r = u \o w, Len(b) <= Len(u)
  PROVE  SubSeq(u, Len(b) + 1, Len(u)) \o w = r
  <1> DEFINE n == Len(b)
             t == SubSeq(u, n + 1, Len(u))
             f == u \o w
  <1>1. n \in Nat /\ Len(u) \in Nat /\ Len(w) \in Nat /\ Len(r) \in Nat /\ n <= Len(u)
    OBVIOUS
  <1>2. t \in Seq(S) /\ Len(t) = Len(u) - n /\ \A i \in 1..Len(u) - n : t[i] = u[n + i]
    <2>1. \A i \in n + 1..Len(u) : u[i] \in S
      BY <1>1
    <2>2. /\ t \in Seq(S) /\ Len(t) = IF n + 1 <= Len(u) THEN Len(u) - (n + 1) + 1 ELSE 0
          /\ \A i \in 1..Len(u) - (n + 1) + 1 : t[i] = u[(n + 1) + i - 1]
      <3> HIDE DEF n
      <3> QED BY <1>1, <2>1, SubSeqProperties
    <2> HIDE DEF t, n
    <2>3. Len(t) = Len(u) - n
      BY <1>1, <2>2
    <2>4. \A i \in 1..Len(u) - n : t[i] = u[n + i]
      BY <1>1, <2>2
    <2> QED BY <2>2, <2>3, <2>4
  <1>3. /\ Len(f) = Len(u) + Len(w)
        /\ \A i \in 1..Len(u) : f[i] = u[i]
        /\ \A i \in 1..Len(w) : f[Len(u) + i] = w[i]
    BY ConcatProperties
  <1>4. Len(f) = n + Len(r) /\ \A i \in 1..Len(r) : f[n + i] = r[i]
    BY ConcatProperties
  <1> HIDE DEF t, f, n
  <1>5. /\ t \o w \in Seq(S) /\ Len(t \o w) = Len(t) + Len(w)
        /\ \A i \in 1..Len(t) : (t \o w)[i] = t[i]
        /\ \A i \in 1..Len(w) : (t \o w)[Len(t) + i] = w[i]
    <2>1. t \in Seq(S) /\ Len(t) \in Nat
      BY <1>2
    <2> QED BY <2>1, ConcatProperties
  <1> DEFINE g == t \o w
  <1> HIDE DEF g
  <1>6. Len(g) = Len(r) /\ g \in Seq(S)
    BY <1>1, <1>2, <1>3, <1>4, <1>5 DEF g
  <1>7. ASSUME NEW i \in 1..Len(r) PROVE g[i] = r[i]
    <2>1. CASE i <= Len(u) - n
      <3>1. i \in 1..Len(t) /\ n + i \in 1..Len(u) /\ i \in 1..Len(u) - n
        BY <1>1, <1>2, <2>1
      <3> QED BY <1>2, <1>3, <1>4, <1>5, <3>1 DEF g
    <2>2. CASE i > Len(u) - n
      <3> DEFINE j == i - (Len(u) - n)
      <3>1. j \in 1..Len(w) /\ Len(t) + j = i /\ Len(u) + j = n + i
        BY <1>1, <1>2, <1>3, <1>4, <2>2
      <3> HIDE DEF j
      <3> QED BY <1>3, <1>4, <1>5, <3>1 DEF g
    <2> QED BY <1>1, <2>1, <2>2
  <1>8. g = r
    BY <1>6, <1>7, SeqEqual
  <1> QED BY <1>8 DEF g, t, n

LEMMA SameEffect ==
  ASSUME NEW n, NEW d, NEW a, NEW K, NEW L
  PROVE  Execute(n, d, a, K).db = Execute(n, d, a, L).db
  <1>1. CASE n # "KEYS"
    BY <1>1, MatchingOnlyForKeys
  <1>2. CASE n = "KEYS"
    <2>1. Execute("KEYS", d, a, K) = KS!handle_keys(d, 0, K)
      BY DEF Execute
    <2>2. Execute("KEYS", d, a, L) = KS!handle_keys(d, 0, L)
      BY DEF Execute
    <2> QED BY <1>2, <2>1, <2>2, ReplyDb DEF KS!handle_keys
  <1> QED BY <1>1, <1>2

\* g has the outcomes of the first m messages of s.
HasOutcomes(s, g, m) ==
  g = [i \in 0..m |-> IF i = 0 THEN KS!Reply(KS!EmptyDb, KS!OK) ELSE Serve(g[i - 1].db, s[i])]

LEMMA OutcomesExist ==
  ASSUME NEW s, NEW m \in Nat
  PROVE  \E g : HasOutcomes(s, g, m)
  <1> DEFINE Start == KS!Reply(KS!EmptyDb, KS!OK)
             T == {x \in Nat : ~ \E g : HasOutcomes(s, g, x)}
  <1> SUFFICES ASSUME T # {} PROVE FALSE
    OBVIOUS
  <1>1. PICK x \in T : \A y \in T : x <= y
    BY LeastElement
  <1>2. x # 0
    <2> DEFINE g == [i \in 0..0 |-> Start]
    <2>1. g = [i \in 0..0 |-> IF i = 0 THEN Start ELSE Serve(g[i - 1].db, s[i])]
      OBVIOUS
    <2>2. HasOutcomes(s, g, 0)
      BY <2>1 DEF HasOutcomes
    <2> QED BY <1>1, <2>2
  <1>3. x - 1 \in Nat /\ x - 1 \notin T /\ x \in Nat
    <2>1. T \subseteq Nat
      OBVIOUS
    <2> HIDE DEF T
    <2> QED BY <1>1, <1>2, <2>1
  <1>4. PICK g : HasOutcomes(s, g, x - 1)
    BY <1>3
  <1> DEFINE h == [i \in 0..x |-> IF i = x THEN Serve(g[x - 1].db, s[x]) ELSE g[i]]
  <1> HIDE DEF T, Start
  <1>5. \A i \in 0..x - 1 : g[i] = IF i = 0 THEN Start ELSE Serve(g[i - 1].db, s[i])
    BY <1>4 DEF HasOutcomes, Start
  <1>6. \A i \in 0..x - 1 : h[i] = g[i]
    <2>1. \A i \in 0..x - 1 : i \in 0..x /\ i # x
      BY <1>3
    <2> QED BY <2>1
  <1>7. h[x] = Serve(g[x - 1].db, s[x])
    BY <1>3
  <1>8. h = [i \in 0..x |-> h[i]]
    OBVIOUS
  <1> HIDE DEF h
  <1>9. \A i \in 0..x : h[i] = IF i = 0 THEN Start ELSE Serve(h[i - 1].db, s[i])
    <2> SUFFICES ASSUME NEW i \in 0..x
                 PROVE  h[i] = IF i = 0 THEN Start ELSE Serve(h[i - 1].db, s[i])
      OBVIOUS
    <2>1. i # 0 => i - 1 \in 0..x - 1
      BY <1>3
    <2>2. i # x => i \in 0..x - 1
      BY <1>3
    <2> QED BY <1>2, <1>5, <1>6, <1>7, <2>1, <2>2
  <1>10. HasOutcomes(s, h, x)
    BY <1>8, <1>9 DEF HasOutcomes, Start
  <1> QED BY <1>1, <1>10 DEF T

LEMMA ServedUnfold ==
  ASSUME NEW S, NEW s \in Seq(S)
  PROVE  /\ Served(s)[0].db = KS!EmptyDb
         /\ \A i \in 1..Len(s) : Served(s)[i] = Serve(Served(s)[i - 1].db, s[i])
  <1> DEFINE e == Served(s)
             m == Len(s)
  <1>1. m \in Nat
    OBVIOUS
  <1>2. \E g : HasOutcomes(s, g, m)
    BY <1>1, OutcomesExist
  <1>3. e = CHOOSE g : HasOutcomes(s, g, m)
    BY DEF Served, HasOutcomes
  <1>4. HasOutcomes(s, e, m)
    BY <1>2, <1>3
  <1> HIDE DEF e, m
  <1>5. \A i \in 0..m : e[i] = IF i = 0 THEN KS!Reply(KS!EmptyDb, KS!OK) ELSE Serve(e[i - 1].db, s[i])
    BY <1>4 DEF HasOutcomes
  <1>6. 0 \in 0..m /\ \A i \in 1..m : i \in 0..m /\ i # 0
    BY <1>1
  <1>7. e[0].db = KS!EmptyDb
    BY <1>5, <1>6, ReplyDb
  <1>8. \A i \in 1..m : e[i] = Serve(e[i - 1].db, s[i])
    BY <1>5, <1>6
  <1> QED BY <1>7, <1>8 DEF e, m

\* A complete message at the front of the buffer is the next one of the script.
LEMMA NextMessage ==
  ASSUME SessionOK, NEW i \in 0..Len(script), BytesFrom(script)[i] = buf \o wire,
         parse(buf).result = "Complete"
  PROVE  LET m == script[i + 1]
             n == parse(buf).pos
         IN  /\ i + 1 \in 1..Len(script)
             /\ parse(buf) = parse(m.bytes)
             /\ \/ m.asks = "command" /\ parse(buf).value = Array(m.args)
                \/ m.asks = "refused" /\ ~ IsCommand(parse(buf).value)
             /\ SubSeq(buf, n + 1, Len(buf)) \o wire = BytesFrom(script)[i + 1]
  <1> DEFINE F == BytesFrom(script)
             f == F[i]
             b == script[i + 1].bytes
             r == F[i + 1]
             p == parse(buf)
  <1>1. script \in Scripts /\ script \in Seq(Range(script)) /\ Len(script) \in Nat
    BY ScriptAssumption DEF SessionOK
  <1>2. buf \in Seq(Byte) /\ wire \in Seq(Byte) /\ Len(buf) \in Nat /\ Len(wire) \in Nat
    BY DEF SessionOK, StreamOK, Strings
  <1>3. f = buf \o wire /\ Len(f) = Len(buf) + Len(wire) /\ f \in Seq(Byte)
    BY <1>2, ConcatProperties
  <1>4. p.pos \in 1..Len(buf)
    <2>1. Outcome(p, 0, Len(buf))
      BY <1>2, ParseOutcome
    <2> HIDE DEF p
    <2>2. p.result = "Complete"
      BY DEF p
    <2> QED BY <2>1, <2>2, OutcomeCases DEF Outcome
  <1>5. parse(f) = p
    <2>1. p = Incomplete \/ p = parse(buf \o wire)
      BY StreamVerdict DEF SessionOK, VerdictFinal
    <2>2. p # Incomplete
      BY OutcomeCases
    <2> QED BY <1>3, <2>1, <2>2
  <1>6. F[Len(script)] = << >> /\ \A j \in 0..Len(script) - 1 : F[j] = script[j + 1].bytes \o F[j + 1]
    BY <1>1, BytesUnfold
  <1> HIDE DEF F
  <1>7. i # Len(script)
    <2>1. Len(f) # 0
      BY <1>2, <1>3, <1>4
    <2> QED BY <1>6, <2>1
  <1>8. i \in 0..Len(script) - 1 /\ i + 1 \in 1..Len(script) /\ i + 1 \in 0..Len(script)
          /\ (i + 1) - 1 = i
    BY <1>1, <1>7
  <1>9. f = b \o r /\ b \in Seq(Byte) /\ r \in Seq(Byte)
    <2>1. b \in Strings
      BY <1>1, <1>8, ScriptAssumption
    <2>2. r \in Strings
      BY <1>1, <1>8, BytesAreStrings DEF F
    <2> QED BY <1>6, <1>8, <2>1, <2>2 DEF Strings
  <1> HIDE DEF f, b, r, p
  <1>10. \/ script[i + 1].asks = "command" /\ parse(b) = Parsed(Array(script[i + 1].args), Len(b))
         \/ /\ script[i + 1].asks = "refused"
            /\ parse(b).result = "Complete" /\ parse(b).pos = Len(b) /\ ~ IsCommand(parse(b).value)
    <2>1. parse(F[(i + 1) - 1]).result = "Complete"
      BY <1>5, <1>8 DEF f, p
    <2> QED BY <1>1, <1>8, <2>1, MessageAssumption DEF b, F
  <1>11. parse(b).result = "Complete" /\ parse(b).pos = Len(b)
    BY <1>10, OutcomeCases
  <1>12. parse(f) = parse(b)
    <2>1. Len(f) = Len(b) + Len(r) /\ \A j \in 1..Len(b) : f[j] = b[j]
      BY <1>9
    <2>2. Len(f) <= 2 * IntMax
      BY <1>3 DEF SessionOK, StreamOK
    <2>3. Begins(b, f)
      BY <1>9, <2>1, <2>2 DEF Begins
    <2>4. parse(b) # Incomplete
      BY <1>11, OutcomeCases
    <2> QED BY <1>3, <1>9, <2>3, <2>4, ParseStable
  <1>13. p = parse(b) /\ p.pos = Len(b)
    BY <1>5, <1>11, <1>12
  <1>14. SubSeq(buf, p.pos + 1, Len(buf)) \o wire = r
    <2>1. Len(b) <= Len(buf) /\ b \o r = buf \o wire
      BY <1>2, <1>3, <1>4, <1>9, <1>13
    <2>2. SubSeq(buf, Len(b) + 1, Len(buf)) \o wire = r
      BY <1>2, <1>9, <2>1, DropFront
    <2> QED BY <1>13, <2>2
  <1>15. \/ script[i + 1].asks = "command" /\ p.value = Array(script[i + 1].args)
         \/ script[i + 1].asks = "refused" /\ ~ IsCommand(p.value)
    BY <1>10, <1>13, OutcomeCases
  <1> QED BY <1>8, <1>13, <1>14, <1>15 DEF b, r, p, F

\* What a turn makes of the database is what Serve makes of it.
LEMMA TurnServes ==
  ASSUME SessionOK, NEW i \in 0..Len(script), Executed(i), Turn
  PROVE  Executed(i)' \/ (i + 1 \in 0..Len(script) /\ Executed(i + 1)')
  <1> DEFINE p == parse(buf)
             m == script[i + 1]
  <1>1. \/ Wait(p) \/ ProtocolError(p) \/ Terminate(p)
        \/ NotACommand(p) \/ UnknownCommand(p) \/ RunCommand(p)
    BY DEF Turn
  <1>2. BytesFrom(script)[i] = buf \o wire /\ db = Served(script)[i].db
    BY DEF Executed
  <1>3. p.result = "Complete" =>
          /\ i + 1 \in 1..Len(script)
          /\ p = parse(m.bytes)
          /\ \/ m.asks = "command" /\ p.value = Array(m.args)
             \/ m.asks = "refused" /\ ~ IsCommand(p.value)
          /\ SubSeq(buf, p.pos + 1, Len(buf)) \o wire = BytesFrom(script)[i + 1]
    BY <1>2, NextMessage
  <1>4. script \in Seq(Range(script)) /\ Len(script) \in Nat
    BY ScriptAssumption DEF SessionOK
  <1>5. p.result = "Complete" => Served(script)[i + 1] = Serve(db, m)
    <2>1. \A j \in 1..Len(script) : Served(script)[j] = Serve(Served(script)[j - 1].db, script[j])
      BY <1>4, ServedUnfold
    <2>2. (i + 1) - 1 = i
      BY <1>4
    <2> QED BY <1>2, <1>3, <2>1, <2>2
  <1>6. \A v : Array(v).elements = v
    BY DEF Array, Value
  <1> HIDE DEF p, m
  <1>7. CASE Wait(p) \/ ProtocolError(p) \/ Terminate(p)
    <2>1. script' = script /\ buf' = buf /\ wire' = wire /\ db' = db
      BY <1>7 DEF Wait, ProtocolError, Terminate
    <2> QED BY <1>2, <2>1 DEF Executed
  <1>8. ASSUME p.result = "Complete", consume(p.pos), wire' = wire, script' = script,
               db' = Serve(db, m).db
        PROVE  i + 1 \in 0..Len(script) /\ Executed(i + 1)'
    <2>1. i + 1 \in 0..Len(script)
      BY <1>3, <1>4, <1>8
    <2>2. BytesFrom(script)[i + 1] = buf' \o wire'
      BY <1>3, <1>8 DEF consume
    <2>3. db' = Served(script)[i + 1].db
      BY <1>5, <1>8
    <2> QED BY <1>8, <2>1, <2>2, <2>3 DEF Executed
  <1>9. CASE NotACommand(p)
    <2>1. p.result = "Complete" /\ ~ IsCommand(p.value) /\ consume(p.pos)
            /\ wire' = wire /\ script' = script /\ db' = db
      BY <1>9 DEF NotACommand, Refuse
    <2>2. Serve(db, m).db = db
      <3>1. CASE m.asks # "command"
        BY <3>1, ReplyDb DEF Serve
      <3>2. CASE m.asks = "command"
        <4>1. script \in Scripts /\ i + 1 \in 1..Len(script) /\ p = parse(m.bytes)
          BY <1>3, <2>1 DEF SessionOK
        <4>2. IsCommand(parse(m.bytes).value)
          BY <3>2, <4>1, MessageAssumption DEF m
        <4> QED BY <2>1, <4>1, <4>2
      <3> QED BY <3>1, <3>2
    <2> QED BY <1>8, <2>1, <2>2
  <1>10. CASE UnknownCommand(p)
    <2>1. /\ p.result = "Complete" /\ IsCommand(p.value) /\ find(p.value.elements[1].str) = {}
          /\ consume(p.pos) /\ wire' = wire /\ script' = script /\ db' = db
      BY <1>10 DEF UnknownCommand, Refuse
    <2>2. m.asks = "command" /\ p.value.elements = m.args
      BY <1>3, <1>6, <2>1
    <2>3. find(m.args[1].str) = {}
      BY <2>1, <2>2
    <2>4. Serve(db, m).db = db
      BY <2>3, ReplyDb DEF Serve
    <2> QED BY <1>8, <2>1, <2>4
  <1>11. CASE RunCommand(p)
    <2> DEFINE a == p.value.elements
               found == find(m.args[1].str)
    <2>1. p.result = "Complete" /\ IsCommand(p.value) /\ consume(p.pos)
      BY <1>11 DEF RunCommand
    <2>2. m.asks = "command" /\ a = m.args
      BY <1>3, <1>6, <2>1
    <2>3. PICK c \in found : IF WrongArity(c, Len(a))
                             THEN Refuse(<<"wrong number of arguments for ", c.name>>)
                             ELSE Call(c, a)
      BY <1>11, <2>2 DEF RunCommand
    <2>4. \A e \in found : e \in Registry /\ e.name = c.name
      BY DEF find
    <2>5. \A e \in found : WrongArity(e, Len(a)) <=> WrongArity(c, Len(a))
      BY <2>3, <2>4, SameRow DEF WrongArity
    <2>6. wire' = wire /\ script' = script
      BY <2>3 DEF Refuse, Call
    <2> HIDE DEF a
    <2>7. CASE WrongArity(c, Len(a))
      <3>1. db' = db
        BY <2>3, <2>7 DEF Refuse
      <3>2. ~ \E e \in found : ~ WrongArity(e, Len(m.args))
        BY <2>2, <2>5, <2>7
      <3>3. Serve(db, m).db = db
        BY <2>2, <3>2, ReplyDb DEF Serve
      <3> QED BY <1>8, <2>1, <2>6, <3>1, <3>3
    <2>8. CASE ~ WrongArity(c, Len(a))
      <3> DEFINE e == CHOOSE e \in found : TRUE
                 K == {k \in DOMAIN db.keys : glob_match(a[2].str, k)}
                 L == {k \in DOMAIN db.keys : Matches(m.args[2].str, k)}
      <3>1. db' = Execute(c.name, db, a, K).db
        BY <2>3, <2>8 DEF Call
      <3>2. \E x \in found : ~ WrongArity(x, Len(m.args))
        BY <2>2, <2>3, <2>8
      <3>3. Serve(db, m) = Execute(e.name, db, m.args, L)
        BY <2>2, <3>2 DEF Serve
      <3>4. e \in found
        BY <2>3
      <3>5. e.name = c.name
        BY <2>4, <3>4
      <3> HIDE DEF e, K, L
      <3>6. db' = Serve(db, m).db
        BY <2>2, <3>1, <3>3, <3>5, SameEffect
      <3> QED BY <1>8, <2>1, <2>6, <3>6
    <2> QED BY <2>7, <2>8
  <1> QED BY <1>1, <1>7, <1>9, <1>10, <1>11

LEMMA ReadKeepsStream ==
  ASSUME SessionOK, Read
  PROVE  buf' \o wire' = buf \o wire
  <1>1. PICK n \in 1..Len(wire) : /\ buf' = buf \o SubSeq(wire, 1, n)
                                  /\ wire' = SubSeq(wire, n + 1, Len(wire))
    BY DEF Read
  <1> DEFINE a == SubSeq(wire, 1, n)
             b == SubSeq(wire, n + 1, Len(wire))
  <1>2. wire \in Seq(Byte) /\ buf \in Seq(Byte) /\ Len(wire) \in Nat
    BY DEF SessionOK, StreamOK, Strings
  <1>3. a \in Seq(Byte) /\ b \in Seq(Byte) /\ a \o b = wire
    <2>1. a \in Seq(Byte) /\ Len(a) = n /\ \A j \in 1..n : a[j] = wire[j]
      BY <1>2
    <2>2. << >> \in Seq(Byte) /\ wire \o << >> = wire
      BY <1>2
    <2>3. b \in Seq(Byte)
      BY <1>2, SubSeqProperties
    <2>4. /\ Len(b) = Len(wire) - n /\ \A j \in 1..Len(wire) - n : b[j] = wire[n + j]
      <3>1. \A j \in n + 1..Len(wire) : wire[j] \in Byte
        BY <1>2
      <3>2. /\ Len(b) = IF n + 1 <= Len(wire) THEN Len(wire) - (n + 1) + 1 ELSE 0
            /\ \A j \in 1..Len(wire) - (n + 1) + 1 : b[j] = wire[(n + 1) + j - 1]
        BY <1>2, <3>1, SubSeqProperties
      <3> HIDE DEF b
      <3> QED BY <1>2, <3>2
    <2> HIDE DEF a, b
    <2> DEFINE g == a \o b
    <2>5. /\ g \in Seq(Byte) /\ Len(g) = Len(wire)
          /\ \A j \in 1..Len(wire) : g[j] = IF j <= n THEN a[j] ELSE b[j - n]
      <3>1. /\ g \in Seq(Byte) /\ Len(g) = Len(a) + Len(b)
            /\ \A j \in 1..Len(a) + Len(b) : g[j] = IF j <= Len(a) THEN a[j] ELSE b[j - Len(a)]
        BY <2>1, <2>3, ConcatProperties
      <3>2. Len(a) = n /\ Len(a) + Len(b) = Len(wire)
        BY <1>2, <2>1, <2>4
      <3> QED BY <3>1, <3>2
    <2> HIDE DEF g
    <2>6. \A j \in 1..Len(wire) : g[j] = wire[j]
      <3> SUFFICES ASSUME NEW j \in 1..Len(wire) PROVE g[j] = wire[j]
        OBVIOUS
      <3>1. CASE j <= n
        BY <1>2, <2>1, <2>5, <3>1
      <3>2. CASE ~ (j <= n)
        <4>1. j - n \in 1..Len(wire) - n /\ n + (j - n) = j
          BY <1>2, <3>2
        <4> QED BY <2>4, <2>5, <3>2, <4>1
      <3> QED BY <3>1, <3>2
    <2>7. g = wire
      BY <1>2, <2>5, <2>6, SeqEqual
    <2> QED BY <2>1, <2>3, <2>7 DEF g
  <1> HIDE DEF a, b
  <1>4. (buf \o a) \o b = buf \o (a \o b)
    <2>1. \A x, y, z \in Seq(Byte) : (x \o y) \o z = x \o (y \o z)
      BY ConcatAssociative
    <2> QED BY <1>2, <1>3, <2>1
  <1> QED BY <1>1, <1>3, <1>4 DEF a, b

\* Whatever a client sends and however its bytes are cut in reads, dispatch
\* consumes whole messages and leaves the database that they make when they are
\* executed one after the other.
THEOREM ServedOneByOne == Spec => []ExecutedInOrder
  <1>1. Init => ExecutedInOrder
    <2> SUFFICES ASSUME Init PROVE ExecutedInOrder
      OBVIOUS
    <2>1. script \in Scripts /\ script \in Seq(Range(script)) /\ wire = BytesFrom(script)[0]
            /\ buf = << >> /\ db = KS!EmptyDb
      BY ScriptAssumption DEF Init
    <2>2. 0 \in 0..Len(script)
      BY <2>1
    <2>3. wire \in Seq(Byte)
      BY <2>1, <2>2, BytesAreStrings DEF Strings
    <2>4. buf \o wire = wire
      BY <2>1, <2>3, ConcatEmptySeq
    <2>5. Served(script)[0].db = KS!EmptyDb
      BY <2>1, ServedUnfold
    <2> QED BY <2>1, <2>2, <2>4, <2>5 DEF ExecutedInOrder, Executed
  <1>2. SessionOK /\ ExecutedInOrder /\ [Next]_vars => ExecutedInOrder'
    <2> SUFFICES ASSUME SessionOK, ExecutedInOrder, [Next]_vars PROVE ExecutedInOrder'
      OBVIOUS
    <2>1. PICK i \in 0..Len(script) : Executed(i)
      BY DEF ExecutedInOrder
    <2>2. CASE Read
      <3>1. script' = script /\ db' = db /\ buf' \o wire' = buf \o wire
        BY <2>2, ReadKeepsStream DEF Read
      <3> QED BY <2>1, <3>1 DEF ExecutedInOrder, Executed
    <2>3. CASE Turn
      <3>1. script' = script
        BY <2>3, TurnSound DEF StepSound
      <3> QED BY <2>1, <2>3, <3>1, TurnServes DEF ExecutedInOrder
    <2>4. CASE UNCHANGED vars
      BY <2>1, <2>4 DEF vars, ExecutedInOrder, Executed
    <2> QED BY <2>2, <2>3, <2>4 DEF Next
  <1> QED BY <1>1, <1>2, SessionInvariant, PTL DEF Spec
=============================================================================
