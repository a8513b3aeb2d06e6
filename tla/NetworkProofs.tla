---------------------------- MODULE NetworkProofs ---------------------------
(***************************************************************************)
(* Proofs about Network, for any clients, scripts, descriptors and size of *)
(* the kernel's send buffer.                                               *)
(***************************************************************************)
EXTENDS PipelineProofs

-----------------------------------------------------------------------------
(***************************************************************************)
(* The operations of a connection.                                         *)
(***************************************************************************)
ConnType(n) ==
  /\ n \in Connection
  /\ n.read_pos <= Len(n.read_buf)
  /\ n.write_pos <= Len(n.write_buf)

LEMMA ViewType ==
  ASSUME NEW n, ConnType(n)
  PROVE  /\ read_view(n) \in Seq(Piece) /\ Len(read_view(n)) = Len(n.read_buf) - n.read_pos
         /\ Unsent(n) \in Seq(Piece) /\ Len(Unsent(n)) = Len(n.write_buf) - n.write_pos
  <1>1. /\ n.read_buf \in Seq(Piece) /\ n.read_pos \in 0..Len(n.read_buf)
        /\ n.write_buf \in Seq(Piece) /\ n.write_pos \in 0..Len(n.write_buf)
        /\ Len(n.read_buf) \in n.read_pos..Len(n.read_buf)
        /\ Len(n.write_buf) \in n.write_pos..Len(n.write_buf)
    BY DEF ConnType, Connection
  <1>2. /\ read_view(n) \in Seq(Piece) /\ Len(read_view(n)) = Len(n.read_buf) - n.read_pos
    BY <1>1, Parts DEF read_view
  <1>3. /\ Unsent(n) \in Seq(Piece) /\ Len(Unsent(n)) = Len(n.write_buf) - n.write_pos
    BY <1>1, Parts DEF Unsent
  <1> QED BY <1>2, <1>3

\* What follows position p of s \o t is what follows it in s, and then t.
LEMMA TailOfConcat ==
  ASSUME NEW s \in Seq(Piece), NEW t \in Seq(Piece), NEW p \in 0..Len(s)
  PROVE  SubSeq(s \o t, p + 1, Len(s \o t)) = SubSeq(s, p + 1, Len(s)) \o t
  <1> DEFINE u == s \o t
             a == SubSeq(u, p + 1, Len(u))
             w == SubSeq(s, p + 1, Len(s))
             b == w \o t
  <1>1. /\ u \in Seq(Piece) /\ Len(u) = Len(s) + Len(t)
        /\ \A x \in 1..Len(s) : u[x] = s[x]
        /\ \A x \in 1..Len(t) : u[Len(s) + x] = t[x]
    BY ConcatType
  <1>2. Len(s) \in Nat /\ Len(t) \in Nat /\ p \in Nat /\ Len(s) \in p..Len(s)
    BY LenType
  <1> HIDE DEF u
  <1>3. /\ a \in Seq(Piece) /\ Len(a) = Len(u) - p
        /\ \A x \in 1..Len(u) - p : a[x] = u[p + x]
    <2>1. p \in 0..Len(u) /\ Len(u) \in p..Len(u)
      BY <1>1, <1>2
    <2> QED BY <1>1, <2>1, Parts
  <1>4. /\ w \in Seq(Piece) /\ Len(w) = Len(s) - p
        /\ \A x \in 1..Len(s) - p : w[x] = s[p + x]
    BY <1>2, Parts
  <1> HIDE DEF a, w
  <1>5. /\ b \in Seq(Piece) /\ Len(b) = Len(w) + Len(t)
        /\ \A x \in 1..Len(w) : b[x] = w[x]
        /\ \A x \in 1..Len(t) : b[Len(w) + x] = t[x]
    BY <1>4, ConcatType
  <1> HIDE DEF b
  <1>6. Len(a) = Len(b)
    BY <1>1, <1>2, <1>3, <1>4, <1>5
  <1>7. ASSUME NEW x \in 1..Len(a) PROVE a[x] = b[x]
    <2>1. a[x] = u[p + x]
      BY <1>3
    <2>2. CASE x \in 1..Len(w)
      <3>1. p + x \in 1..Len(s) /\ x \in 1..Len(s) - p
        BY <1>2, <1>4, <2>2
      <3> QED BY <1>1, <1>4, <1>5, <2>1, <2>2, <3>1
    <2>3. CASE x \notin 1..Len(w)
      <3> DEFINE y == x - Len(w)
      <3>1. y \in 1..Len(t) /\ x = Len(w) + y /\ p + x = Len(s) + y
        BY <1>1, <1>2, <1>3, <1>4, <2>3
      <3> HIDE DEF y
      <3> QED BY <1>1, <1>5, <2>1, <3>1
    <2> QED BY <2>2, <2>3
  <1>8. a = b
    BY <1>3, <1>5, <1>6, <1>7, SeqEqual
  <1> QED BY <1>8 DEF a, b, u, w

LEMMA TailOfTail ==
  ASSUME NEW s \in Seq(Piece), NEW p \in 0..Len(s), NEW m \in 0..Len(s) - p
  PROVE  SubSeq(s, (p + m) + 1, Len(s)) =
           SubSeq(SubSeq(s, p + 1, Len(s)), m + 1, Len(SubSeq(s, p + 1, Len(s))))
  OBVIOUS

LEMMA HeadAndTail ==
  ASSUME NEW s \in Seq(Piece), NEW m \in 0..Len(s)
  PROVE  /\ s = SubSeq(s, 1, m) \o SubSeq(s, m + 1, Len(s))
         /\ SubSeq(s, 1, m) \in Seq(Piece) /\ Len(SubSeq(s, 1, m)) = m
         /\ SubSeq(s, m + 1, Len(s)) \in Seq(Piece)
  <1>1. Len(s) \in m..Len(s) /\ m \in 0..Len(s) /\ Len(s) \in Nat
    BY LenType
  <1>2. SubSeq(s, 1, Len(s)) = SubSeq(s, 1, m) \o SubSeq(s, m + 1, Len(s))
    BY <1>1, SplitParts
  <1>3. SubSeq(s, 1, Len(s)) = s
    OBVIOUS
  <1>4. SubSeq(s, m + 1, Len(s)) \in Seq(Piece)
    BY <1>1, Parts
  <1>5. SubSeq(s, 1, m) \in Seq(Piece) /\ Len(SubSeq(s, 1, m)) = m
    BY <1>1
  <1> QED BY <1>2, <1>3, <1>4, <1>5

\* Compaction moves the unread bytes and loses none.
LEMMA CompactOK ==
  ASSUME NEW n, ConnType(n)
  PROVE  LET m == compact_read_buffer(n)
         IN  /\ ConnType(m) /\ read_view(m) = read_view(n)
             /\ m.who = n.who /\ m.state = n.state
             /\ m.write_buf = n.write_buf /\ m.write_pos = n.write_pos
  <1> DEFINE m == compact_read_buffer(n)
             v == read_view(n)
  <1>1. v \in Seq(Piece)
    BY ViewType
  <1>2. /\ m.who = n.who /\ m.state = n.state
        /\ m.write_buf = n.write_buf /\ m.write_pos = n.write_pos
        /\ m.read_buf = v /\ m.read_pos = 0
    BY DEF compact_read_buffer, ConnType, Connection
  <1>3. m \in Connection
    BY <1>1 DEF compact_read_buffer, ConnType, Connection
  <1> HIDE DEF m, v
  <1>4. ConnType(m)
    BY <1>1, <1>2, <1>3 DEF ConnType
  <1>5. read_view(m) = v
    <2>1. SubSeq(v, 0 + 1, Len(v)) = v
      BY <1>1
    <2> QED BY <1>2, <2>1 DEF read_view
  <1> QED BY <1>2, <1>4, <1>5 DEF m, v

\* A read puts the receive queue behind what is unread.
LEMMA FillOK ==
  ASSUME NEW n, ConnType(n), NEW k, k.inq \in Seq(Piece)
  PROVE  LET f == fill_read_buffer(n, k)
         IN  /\ ConnType(f.conn) /\ f.conn.who = n.who
             /\ read_view(f.conn) = read_view(n) \o k.inq
             /\ Unsent(f.conn) = Unsent(n)
             /\ f.result \in Int
             /\ ~ (f.result <= 0) => f.conn.state = n.state /\ k.link \notin {"shut", "reset"}
  <1> DEFINE f == fill_read_buffer(n, k)
             m == IF n.read_pos > Len(n.read_buf) \div 2 THEN compact_read_buffer(n) ELSE n
             r == [m EXCEPT !.read_buf = @ \o k.inq]
             z == [r EXCEPT !.state = "Closed"]
  <1>1. /\ ConnType(m) /\ read_view(m) = read_view(n)
        /\ m.who = n.who /\ m.state = n.state
        /\ m.write_buf = n.write_buf /\ m.write_pos = n.write_pos
    BY CompactOK
  <1>2. \/ f = [conn |-> z, result |-> 0] /\ k.link = "shut"
        \/ f = [conn |-> z, result |-> -1] /\ k.link = "reset"
        \/ f = [conn |-> r, result |-> Len(k.inq)] /\ k.link \notin {"shut", "reset"}
    BY DEF fill_read_buffer
  <1> HIDE DEF f, m
  <1>3. /\ m \in Connection /\ m.read_buf \in Seq(Piece) /\ m.read_pos \in 0..Len(m.read_buf)
        /\ Len(m.read_buf) \in Nat /\ Len(k.inq) \in Nat
    BY <1>1 DEF ConnType, Connection
  <1> DEFINE b == m.read_buf \o k.inq
  <1>4. b \in Seq(Piece) /\ Len(b) = Len(m.read_buf) + Len(k.inq)
    BY <1>3, ConcatType
  <1>5. SubSeq(b, m.read_pos + 1, Len(b)) = read_view(m) \o k.inq
    BY <1>3, TailOfConcat DEF read_view
  <1>6. /\ r = [m EXCEPT !.read_buf = b]
        /\ z = [m EXCEPT !.read_buf = b, !.state = "Closed"]
    BY <1>3 DEF Connection
  <1> HIDE DEF b, r, z
  <1>7. ASSUME NEW x \in {r, z}
        PROVE  /\ x \in Connection /\ x.who = m.who /\ x.read_buf = b /\ x.read_pos = m.read_pos
               /\ x.write_buf = m.write_buf /\ x.write_pos = m.write_pos
    BY <1>3, <1>4, <1>6 DEF Connection
  <1>8. r.state = m.state
    BY <1>3, <1>6 DEF Connection
  <1>9. ASSUME NEW x \in {r, z}
        PROVE  /\ ConnType(x) /\ x.who = n.who
               /\ read_view(x) = read_view(n) \o k.inq
               /\ Unsent(x) = Unsent(n)
    <2>1. ConnType(x)
      <3> DEFINE h == Len(m.read_buf)
      <3>1. x \in Connection /\ x.read_pos <= Len(x.read_buf)
        <4>1. x \in Connection /\ x.read_buf = b /\ x.read_pos = m.read_pos
          BY <1>7
        <4>2. Len(b) = h + Len(k.inq) /\ h \in Nat /\ Len(k.inq) \in Nat /\ m.read_pos \in 0..h
          BY <1>3, <1>4
        <4> HIDE DEF h
        <4>3. m.read_pos <= Len(b)
          BY <4>2
        <4> QED BY <4>1, <4>3
      <3>2. x.write_pos <= Len(x.write_buf)
        BY <1>1, <1>7 DEF ConnType
      <3> QED BY <3>1, <3>2 DEF ConnType
    <2>2. read_view(x) = read_view(n) \o k.inq
      <3>1. read_view(x) = SubSeq(b, m.read_pos + 1, Len(b))
        BY <1>7 DEF read_view
      <3>2. SubSeq(b, m.read_pos + 1, Len(b)) = read_view(n) \o k.inq
        BY <1>1, <1>5
      <3> QED BY <3>1, <3>2, Zenon
    <2>3. Unsent(x) = Unsent(n)
      BY <1>1, <1>7 DEF Unsent
    <2> QED BY <1>1, <1>7, <2>1, <2>2, <2>3
  <1>10. f.conn \in {r, z} /\ f.result \in Int
    BY <1>2, <1>3
  <1>11. ~ (f.result <= 0) => f.conn = r /\ k.link \notin {"shut", "reset"}
    BY <1>2
  <1> QED BY <1>1, <1>8, <1>9, <1>10, <1>11 DEF f

\* dispatch consumes Taken of the unread part and queues Replies to it.
LEMMA DispatchOK ==
  ASSUME NEW n, ConnType(n)
  PROVE  LET d == dispatch(n)
             v == read_view(n)
         IN  /\ ConnType(d) /\ d.who = n.who
             /\ read_view(d) = SubSeq(v, Taken(v) + 1, Len(v))
             /\ Unsent(d) = Unsent(n) \o Replies(v)
             /\ d.state \in {n.state, "WriteOnly"}
  <1> DEFINE d == dispatch(n)
             v == read_view(n)
             A == Answers(SubSeq(v, 1, FirstJunk(v) - 1))
             B == Complaint(v)
             m == Taken(v)
  <1>1. v \in Seq(Piece) /\ Len(v) = Len(n.read_buf) - n.read_pos
    BY ViewType
  <1>2. m \in 0..Len(v) /\ FirstJunk(v) - 1 \in 0..Len(v)
    <2>1. FirstJunk(v) \in 1..Len(v) + 1 /\ Len(v) \in Nat
      BY <1>1, FirstJunkIs
    <2> QED BY <1>1, <2>1, TakenIs
  <1>3. A \in Seq(Piece) /\ B \in Seq(Piece)
    <2>1. SubSeq(v, 1, FirstJunk(v) - 1) \in Seq(Piece)
      BY <1>1, <1>2
    <2> QED BY <1>1, <2>1, AnswersType, ComplaintIs
  <1>4. Replies(v) = A \o B
    BY DEF Replies
  <1>5. PICK st \in {n.state, "WriteOnly"} :
          d = [n EXCEPT !.read_pos = @ + m, !.write_buf = @ \o A \o B, !.state = st]
    BY DEF dispatch, Taken, Complaint
  <1> HIDE DEF d, v, A, B, m
  <1>6. /\ n \in Connection /\ n.read_buf \in Seq(Piece) /\ n.write_buf \in Seq(Piece)
        /\ n.read_pos \in 0..Len(n.read_buf) /\ n.write_pos \in 0..Len(n.write_buf)
        /\ Len(n.read_buf) \in Nat /\ Len(n.write_buf) \in Nat
    BY DEF ConnType, Connection
  <1> DEFINE b == n.write_buf \o A \o B
  <1>7. b = n.write_buf \o (A \o B) /\ A \o B \in Seq(Piece)
    <2>1. A \o B \in Seq(Piece)
      BY <1>3
    <2>2. n.write_buf \in Seq(Piece) /\ A \in Seq(Piece) /\ B \in Seq(Piece)
      BY <1>3, <1>6
    <2>3. b = n.write_buf \o (A \o B)
      BY <2>2, ConcatAssoc, Zenon
    <2> QED BY <2>1, <2>3
  <1>8. b \in Seq(Piece) /\ Len(b) \in Nat /\ Len(b) >= Len(n.write_buf)
    <2> DEFINE C == A \o B
    <2>1. C \in Seq(Piece) /\ b = n.write_buf \o C
      BY <1>7
    <2> HIDE DEF b, C
    <2>2. b \in Seq(Piece) /\ Len(b) = Len(n.write_buf) + Len(C)
      BY <1>6, <2>1, ConcatType
    <2>3. Len(C) \in Nat
      BY <2>1, LenType
    <2> QED BY <1>6, <2>2, <2>3
  <1>9. n.read_pos + m \in 0..Len(n.read_buf) /\ m \in 0..Len(n.read_buf) - n.read_pos
    BY <1>1, <1>2, <1>6
  <1>10. d = [n EXCEPT !.read_pos = n.read_pos + m, !.write_buf = b, !.state = st]
    BY <1>5, <1>6 DEF Connection
  <1> HIDE DEF b
  <1>11. /\ d \in Connection /\ d.who = n.who /\ d.read_buf = n.read_buf
         /\ d.read_pos = n.read_pos + m /\ d.write_buf = b /\ d.write_pos = n.write_pos
         /\ d.state = st
    <2>1. st \in {"Connected", "WriteOnly", "Closed"} /\ n.read_pos + m \in Nat
      BY <1>6, <1>9 DEF Connection
    <2>2. d = [who |-> n.who, state |-> st, read_buf |-> n.read_buf,
               read_pos |-> n.read_pos + m, write_buf |-> b, write_pos |-> n.write_pos]
      BY <1>6, <1>10 DEF Connection
    <2>3. n.who \in Client /\ n.write_pos \in Nat
      BY <1>6 DEF Connection
    <2> QED BY <1>6, <1>8, <2>1, <2>2, <2>3 DEF Connection
  <1>12. ConnType(d)
    <2>1. d.read_pos <= Len(d.read_buf)
      BY <1>6, <1>9, <1>11
    <2>2. d.write_pos <= Len(d.write_buf)
      BY <1>6, <1>8, <1>11
    <2> QED BY <1>11, <2>1, <2>2 DEF ConnType
  <1>13. read_view(d) = SubSeq(v, m + 1, Len(v))
    BY <1>6, <1>9, <1>11, TailOfTail DEF read_view, v
  <1>14. Unsent(d) = Unsent(n) \o (A \o B)
    <2> DEFINE C == A \o B
    <2>1. C \in Seq(Piece) /\ b = n.write_buf \o C
      BY <1>7
    <2> HIDE DEF C
    <2>2. SubSeq(n.write_buf \o C, n.write_pos + 1, Len(n.write_buf \o C)) =
            SubSeq(n.write_buf, n.write_pos + 1, Len(n.write_buf)) \o C
      BY <1>6, <2>1, TailOfConcat
    <2>3. Unsent(d) = SubSeq(b, n.write_pos + 1, Len(b))
      BY <1>11 DEF Unsent
    <2>4. Unsent(d) = Unsent(n) \o C
      BY <2>1, <2>2, <2>3, Zenon DEF Unsent
    <2> QED BY <2>4 DEF C
  <1> QED BY <1>4, <1>11, <1>12, <1>13, <1>14 DEF d, v, m

\* A flush moves replies from the buffer to the send queue, keeps their order
\* and stays within the queue's size.
LEMMA FlushOK ==
  ASSUME NEW n, ConnType(n), NEW k, k.outq \in Seq(Piece), Len(k.outq) <= SendRoom
  PROVE  LET w == flush_write_buffer(n, k)
         IN  /\ ConnType(w.conn) /\ w.conn.who = n.who
             /\ read_view(w.conn) = read_view(n)
             /\ w.outq \in Seq(Piece) /\ Len(w.outq) <= SendRoom
             /\ w.conn.state \in {n.state, "Closed"}
             /\ k.link # "reset" => /\ w.outq \o Unsent(w.conn) = k.outq \o Unsent(n)
                                    /\ w.conn.state = n.state
  <1> DEFINE w == flush_write_buffer(n, k)
             u == Unsent(n)
             room == SendRoom - Len(k.outq)
             m == IF Len(u) < room THEN Len(u) ELSE room
             x == [n EXCEPT !.write_buf = << >>, !.write_pos = 0]
             y == [n EXCEPT !.write_pos = @ + m]
             z == [n EXCEPT !.state = "Closed"]
             p == SubSeq(u, 1, m)
             q == SubSeq(u, m + 1, Len(u))
  <1>1. u \in Seq(Piece) /\ Len(u) = Len(n.write_buf) - n.write_pos
    BY ViewType
  <1>2. /\ n \in Connection /\ n.read_buf \in Seq(Piece) /\ n.write_buf \in Seq(Piece)
        /\ n.read_pos \in 0..Len(n.read_buf) /\ n.write_pos \in 0..Len(n.write_buf)
        /\ Len(n.read_buf) \in Nat /\ Len(n.write_buf) \in Nat
    BY DEF ConnType, Connection
  <1>3. room \in Nat /\ SendRoom \in Nat /\ Len(k.outq) \in Nat
    BY NetworkAssumption, LenType
  <1>4. \/ /\ w = [conn |-> z, outq |-> k.outq]
           /\ k.link = "reset"
        \/ /\ w = [conn |-> x, outq |-> k.outq \o p]
           /\ m = Len(u)
        \/ /\ w = [conn |-> y, outq |-> k.outq \o p]
    BY DEF flush_write_buffer
  <1> HIDE DEF w, u
  <1>5. m \in 0..Len(u) /\ m <= room /\ Len(u) \in Nat
    BY <1>1, <1>3, LenType
  <1> HIDE DEF m
  <1>6. u = p \o q /\ p \in Seq(Piece) /\ Len(p) = m /\ q \in Seq(Piece)
    BY <1>1, <1>5, HeadAndTail
  <1> HIDE DEF p
  <1>7. /\ k.outq \o p \in Seq(Piece) /\ Len(k.outq \o p) <= SendRoom
    <2>1. /\ k.outq \o p \in Seq(Piece) /\ Len(k.outq \o p) = Len(k.outq) + m
      BY <1>6, ConcatType
    <2> QED BY <1>3, <1>5, <2>1
  <1>8. /\ ConnType(z) /\ z.who = n.who /\ read_view(z) = read_view(n) /\ z.state = "Closed"
    <2>1. /\ z \in Connection /\ z.who = n.who /\ z.read_buf = n.read_buf
          /\ z.read_pos = n.read_pos /\ z.write_buf = n.write_buf /\ z.write_pos = n.write_pos
          /\ z.state = "Closed"
      BY <1>2 DEF Connection
    <2> QED BY <1>2, <2>1 DEF ConnType, read_view
  <1>9. /\ ConnType(x) /\ x.who = n.who /\ read_view(x) = read_view(n) /\ x.state = n.state
        /\ m = Len(u) => Unsent(x) = q
    <2>1. /\ x \in Connection /\ x.who = n.who /\ x.read_buf = n.read_buf
          /\ x.read_pos = n.read_pos /\ x.write_buf = << >> /\ x.write_pos = 0
          /\ x.state = n.state
      <3> DEFINE E == << >>
      <3>1. E \in Seq(Piece)
        OBVIOUS
      <3>2. x = [n EXCEPT !.write_buf = E, !.write_pos = 0]
        OBVIOUS
      <3> HIDE DEF E, x
      <3>3. /\ x \in Connection /\ x.who = n.who /\ x.read_buf = n.read_buf
            /\ x.read_pos = n.read_pos /\ x.write_buf = E /\ x.write_pos = 0
            /\ x.state = n.state
        BY <1>2, <3>1, <3>2 DEF Connection
      <3> QED BY <3>3 DEF E
    <2> HIDE DEF x
    <2>2. ConnType(x) /\ read_view(x) = read_view(n)
      <3>1. x.write_pos <= Len(x.write_buf) /\ x.read_pos <= Len(x.read_buf)
        BY <1>2, <2>1
      <3> QED BY <2>1, <3>1 DEF ConnType, read_view
    <2>3. Unsent(x) = << >>
      BY <2>1 DEF Unsent
    <2>4. m = Len(u) => q = << >>
      BY <1>1, <1>5
    <2> QED BY <2>1, <2>2, <2>3, <2>4
  <1>10. /\ ConnType(y) /\ y.who = n.who /\ read_view(y) = read_view(n) /\ y.state = n.state
         /\ Unsent(y) = q
    <2>1. n.write_pos + m \in 0..Len(n.write_buf) /\ m \in 0..Len(n.write_buf) - n.write_pos
      <3> DEFINE a == n.write_pos
                 h == Len(n.write_buf)
                 l == Len(u)
      <3>1. a \in 0..h /\ h \in Nat /\ l = h - a /\ m \in 0..l
        BY <1>1, <1>2, <1>5
      <3> HIDE DEF a, h, l
      <3>2. a + m \in 0..h /\ m \in 0..h - a
        BY <3>1
      <3> QED BY <3>2 DEF a, h
    <2>2. /\ y \in Connection /\ y.who = n.who /\ y.read_buf = n.read_buf
          /\ y.read_pos = n.read_pos /\ y.write_buf = n.write_buf
          /\ y.write_pos = n.write_pos + m /\ y.state = n.state
      <3>1. n.write_pos + m \in Nat
        BY <1>2, <2>1
      <3>2. y = [n EXCEPT !.write_pos = n.write_pos + m]
        BY <1>2 DEF Connection
      <3> HIDE DEF y
      <3> QED BY <1>2, <3>1, <3>2 DEF Connection
    <2> HIDE DEF y
    <2>3. ConnType(y) /\ read_view(y) = read_view(n)
      BY <1>2, <2>1, <2>2 DEF ConnType, read_view
    <2>4. Unsent(y) = q
      BY <1>2, <2>1, <2>2, TailOfTail DEF Unsent, u
    <2> QED BY <2>2, <2>3, <2>4
  <1>11. (k.outq \o p) \o q = k.outq \o u
    <2>1. k.outq \in Seq(Piece) /\ p \in Seq(Piece) /\ q \in Seq(Piece)
      BY <1>6
    <2>2. (k.outq \o p) \o q = k.outq \o (p \o q)
      BY <2>1, ConcatAssoc, Zenon
    <2> QED BY <1>6, <2>2, Zenon
  <1> HIDE DEF x, y, z, q
  <1>12. CASE w = [conn |-> z, outq |-> k.outq] /\ k.link = "reset"
    BY <1>8, <1>12 DEF w
  <1>13. CASE w = [conn |-> x, outq |-> k.outq \o p] /\ m = Len(u)
    <2>1. w.conn = x /\ w.outq = k.outq \o p
      BY <1>13
    <2>2. w.outq \o Unsent(w.conn) = k.outq \o u
      BY <1>9, <1>11, <1>13, <2>1, Zenon
    <2> QED BY <1>7, <1>9, <2>1, <2>2 DEF w, u
  <1>14. CASE w = [conn |-> y, outq |-> k.outq \o p]
    <2>1. w.conn = y /\ w.outq = k.outq \o p
      BY <1>14
    <2>2. w.outq \o Unsent(w.conn) = k.outq \o u
      BY <1>10, <1>11, <2>1, Zenon
    <2> QED BY <1>7, <1>10, <2>1, <2>2 DEF w, u
  <1> QED BY <1>4, <1>12, <1>13, <1>14

\* Nothing waits after a flush if nothing did before.
LEMMA FlushPending ==
  ASSUME NEW n, ConnType(n), NEW k, k.outq \in Seq(Piece), Len(k.outq) <= SendRoom,
         has_pending_writes(flush_write_buffer(n, k).conn)
  PROVE  has_pending_writes(n)
  <1> DEFINE w == flush_write_buffer(n, k)
  <1> SUFFICES ASSUME ~ has_pending_writes(n) PROVE FALSE
    OBVIOUS
  <1>1. /\ n \in Connection /\ n.write_buf \in Seq(Piece)
        /\ n.write_pos \in 0..Len(n.write_buf) /\ Len(n.write_buf) \in Nat
    BY DEF ConnType, Connection
  <1>2. Len(Unsent(n)) = 0
    <2>1. Len(n.write_buf) - n.write_pos = 0
      BY <1>1 DEF has_pending_writes
    <2> QED BY <2>1, ViewType
  <1>3. SendRoom - Len(k.outq) \in Nat
    BY NetworkAssumption, LenType
  <1>4. w.conn = [n EXCEPT !.write_buf = << >>, !.write_pos = 0]
    BY <1>2, <1>3 DEF flush_write_buffer
  <1>5. w.conn.write_buf = << >> /\ w.conn.write_pos = 0
    BY <1>1, <1>4 DEF Connection
  <1> HIDE DEF w
  <1>6. ~ has_pending_writes(w.conn)
    BY <1>5 DEF has_pending_writes
  <1> QED BY <1>6 DEF w

-----------------------------------------------------------------------------
(***************************************************************************)
(* A connection n that serves client c over the socket k.                  *)
(***************************************************************************)
Sock ==
  [link : {"none", "open", "shut", "reset", "closed"}, sent : Nat,
   inq : Seq(Piece), outq : Seq(Piece), got : Seq(Piece)]

SockOK(c, k) ==
  /\ k \in Sock
  /\ k.sent <= Len(Script[c])
  /\ Len(k.outq) <= SendRoom
  /\ k.link = "none" => k.sent = 0 /\ k.inq = << >> /\ k.outq = << >> /\ k.got = << >>

\* The replies to c: delivered, on their way, waiting.
Sent(k, n) == (k.got \o k.outq) \o Unsent(n)

\* Everything c has sent is still to be read or has been answered.
UpToDate(c, k, n) ==
  /\ InStream(c, read_view(n), k.inq, k.sent)
  /\ Answered(c, read_view(n), Place(read_view(n), k.inq, k.sent), Sent(k, n))

ServedOK(c, k, n) ==
  /\ ConnType(n) /\ n.who = c /\ n.state # "Closed"
  /\ k.link \notin {"none", "closed"}
  /\ k.link # "reset" => UpToDate(c, k, n)

LEMMA SockType ==
  ASSUME NEW c \in Client, NEW k, SockOK(c, k)
  PROVE  /\ k.inq \in Seq(Piece) /\ k.outq \in Seq(Piece) /\ k.got \in Seq(Piece)
         /\ k.sent \in Nat /\ k.sent \in 0..Len(Script[c]) /\ Len(k.outq) <= SendRoom
  <1>1. Len(Script[c]) \in Nat
    BY StreamType
  <1> QED BY <1>1 DEF SockOK, Sock

LEMMA SentType ==
  ASSUME NEW c \in Client, NEW k, SockOK(c, k), NEW n, ConnType(n)
  PROVE  Sent(k, n) \in Seq(Piece)
  <1>1. k.got \in Seq(Piece) /\ k.outq \in Seq(Piece)
    BY SockType
  <1>2. Unsent(n) \in Seq(Piece)
    BY ViewType
  <1>3. k.got \o k.outq \in Seq(Piece)
    BY <1>1, ConcatType
  <1> QED BY <1>2, <1>3, ConcatType DEF Sent

\* What on_client_readable makes of the connection and of the socket, when
\* there was something to read.
AfterRead(n, k) ==
  LET d == dispatch(fill_read_buffer(n, k).conn)
  IN  IF has_pending_writes(d) THEN flush_write_buffer(d, k)
                               ELSE [conn |-> d, outq |-> k.outq]

\* The socket k after a read, a write.
Drained(k, q) == [k EXCEPT !.inq = << >>, !.outq = q]

Flushed(k, q) == [k EXCEPT !.outq = q]

LEMMA SockMoves ==
  ASSUME NEW c \in Client, NEW k, SockOK(c, k), k.link # "none",
         NEW q \in Seq(Piece), Len(q) <= SendRoom
  PROVE  /\ SockOK(c, Drained(k, q)) /\ SockOK(c, Flushed(k, q))
         /\ Drained(k, q).link = k.link /\ Flushed(k, q).link = k.link
         /\ Drained(k, q).sent = k.sent /\ Flushed(k, q).sent = k.sent
         /\ Drained(k, q).got = k.got /\ Flushed(k, q).got = k.got
         /\ Drained(k, q).outq = q /\ Flushed(k, q).outq = q
         /\ Drained(k, q).inq = << >> /\ Flushed(k, q).inq = k.inq
  <1> DEFINE E == << >>
             d == [k EXCEPT !.inq = E, !.outq = q]
             f == Flushed(k, q)
  <1>1. E \in Seq(Piece) /\ k \in Sock /\ k.sent <= Len(Script[c])
    BY DEF SockOK
  <1>2. Drained(k, q) = d
    BY DEF Drained
  <1> HIDE DEF E
  <1>3. /\ d \in Sock /\ d.link = k.link /\ d.sent = k.sent /\ d.got = k.got
        /\ d.outq = q /\ d.inq = E
    BY <1>1 DEF Sock
  <1>4. /\ f \in Sock /\ f.link = k.link /\ f.sent = k.sent /\ f.got = k.got
        /\ f.outq = q /\ f.inq = k.inq
    BY <1>1 DEF Sock, Flushed
  <1> HIDE DEF d, f
  <1>5. SockOK(c, d) /\ SockOK(c, f)
    BY <1>1, <1>3, <1>4 DEF SockOK
  <1> QED BY <1>2, <1>3, <1>4, <1>5 DEF E, f

\* A read event leaves the client up to date.
LEMMA ReadServes ==
  ASSUME NEW c \in Client, NEW k, SockOK(c, k), NEW n, ServedOK(c, k, n),
         ~ (fill_read_buffer(n, k).result <= 0)
  PROVE  LET w == AfterRead(n, k)
         IN  /\ w.outq \in Seq(Piece) /\ Len(w.outq) <= SendRoom
             /\ w.conn.who = c
             /\ w.conn.state # "Closed" => ServedOK(c, Drained(k, w.outq), w.conn)
  <1> DEFINE f == fill_read_buffer(n, k)
             d == dispatch(f.conn)
             w == AfterRead(n, k)
             v == read_view(n) \o k.inq
             u == SubSeq(v, Taken(v) + 1, Len(v))
             i == Place(read_view(n), k.inq, k.sent)
             z == Drained(k, w.outq)
  <1>1. /\ k.inq \in Seq(Piece) /\ k.outq \in Seq(Piece) /\ k.got \in Seq(Piece)
        /\ k.sent \in Nat /\ k.sent \in 0..Len(Script[c]) /\ Len(k.outq) <= SendRoom
    BY SockType
  <1>2. ConnType(n) /\ n.who = c
    BY DEF ServedOK
  <1>3. /\ ConnType(f.conn) /\ f.conn.who = c /\ read_view(f.conn) = v
        /\ Unsent(f.conn) = Unsent(n) /\ k.link # "reset"
    BY <1>1, <1>2, FillOK
  <1> HIDE DEF f
  <1>4. /\ ConnType(d) /\ d.who = c /\ read_view(d) = u
        /\ Unsent(d) = Unsent(n) \o Replies(v)
    BY <1>3, DispatchOK
  <1>5. w = IF has_pending_writes(d) THEN flush_write_buffer(d, k)
                                     ELSE [conn |-> d, outq |-> k.outq]
    BY DEF AfterRead, f
  <1> HIDE DEF d, w, v, u
  <1>6. /\ ConnType(w.conn) /\ w.conn.who = c /\ read_view(w.conn) = u
        /\ w.outq \in Seq(Piece) /\ Len(w.outq) <= SendRoom
        /\ w.outq \o Unsent(w.conn) = k.outq \o Unsent(d)
    <2>1. CASE has_pending_writes(d)
      <3>1. w = flush_write_buffer(d, k)
        BY <1>5, <2>1
      <3> QED BY <1>1, <1>3, <1>4, <3>1, FlushOK
    <2>2. CASE ~ has_pending_writes(d)
      <3>1. w.conn = d /\ w.outq = k.outq
        BY <1>5, <2>2
      <3> QED BY <1>1, <1>4, <3>1
    <2> QED BY <2>1, <2>2
  <1>7. UpToDate(c, k, n)
    BY <1>3 DEF ServedOK
  <1>8. /\ read_view(n) \in Seq(Piece) /\ Unsent(n) \in Seq(Piece)
        /\ Unsent(d) \in Seq(Piece) /\ Unsent(w.conn) \in Seq(Piece)
    BY <1>2, <1>4, <1>6, ViewType
  <1>9. v \in Seq(Piece)
    BY <1>1, <1>8, ConcatType DEF v
  <1>10. InStream(c, v, << >>, k.sent) /\ Place(v, << >>, k.sent) = i
    BY <1>1, <1>7, <1>8, ReadInStream DEF UpToDate, v
  <1>11. Answered(c, v, i, Sent(k, n)) /\ Sent(k, n) \in Seq(Piece)
    BY <1>1, <1>2, <1>7, <1>8, ReadAnswered, SentType DEF UpToDate, v
  <1>12. Taken(v) \in 0..Len(v) /\ (Taken(v) = 0 \/ Completes(v[Taken(v)]))
    BY <1>9, TakenIs
  <1> HIDE DEF i
  <1>13. InStream(c, u, << >>, k.sent) /\ Place(u, << >>, k.sent) = i + Taken(v)
    BY <1>1, <1>9, <1>10, <1>12, ConsumeInStream DEF u
  <1>14. Answered(c, u, i + Taken(v), Sent(k, n) \o Replies(v))
    BY <1>1, <1>9, <1>10, <1>11, DispatchAnswers DEF u
  <1>15. Replies(v) \in Seq(Piece)
    BY <1>9, RepliesType
  <1>16. k.link \notin {"none", "closed"} /\ k.link # "reset"
    BY <1>3 DEF ServedOK
  <1>17. /\ z.link = k.link /\ z.sent = k.sent /\ z.got = k.got
         /\ z.outq = w.outq /\ z.inq = << >>
    BY <1>1, <1>6, <1>16, SockMoves
  <1> HIDE DEF z
  <1>18. Sent(z, w.conn) = Sent(k, n) \o Replies(v)
    <2>1. (k.got \o w.outq) \o Unsent(w.conn) = (k.got \o k.outq) \o Unsent(d)
      <3>1. /\ k.got \in Seq(Piece) /\ w.outq \in Seq(Piece) /\ Unsent(w.conn) \in Seq(Piece)
            /\ k.outq \in Seq(Piece) /\ Unsent(d) \in Seq(Piece)
            /\ w.outq \o Unsent(w.conn) = k.outq \o Unsent(d)
        BY <1>1, <1>6, <1>8
      <3>2. (k.got \o w.outq) \o Unsent(w.conn) = k.got \o (w.outq \o Unsent(w.conn))
        BY <3>1, ConcatAssoc, Zenon
      <3>3. (k.got \o k.outq) \o Unsent(d) = k.got \o (k.outq \o Unsent(d))
        BY <3>1, ConcatAssoc, Zenon
      <3> QED BY <3>1, <3>2, <3>3, Zenon
    <2>2. k.got \o k.outq \in Seq(Piece)
      BY <1>1, ConcatType
    <2>3. ((k.got \o k.outq) \o Unsent(n)) \o Replies(v) =
            (k.got \o k.outq) \o (Unsent(n) \o Replies(v))
      BY <1>8, <1>15, <2>2, ConcatAssoc, Zenon
    <2> QED BY <1>4, <1>17, <2>1, <2>3, Zenon DEF Sent
  <1>19. UpToDate(c, z, w.conn)
    BY <1>6, <1>13, <1>14, <1>17, <1>18 DEF UpToDate
  <1>20. w.conn.state # "Closed" => ServedOK(c, z, w.conn)
    BY <1>6, <1>16, <1>17, <1>19 DEF ServedOK
  <1> QED BY <1>6, <1>20 DEF w, z

\* So does a write event.
LEMMA WriteServes ==
  ASSUME NEW c \in Client, NEW k, SockOK(c, k), NEW n, ServedOK(c, k, n)
  PROVE  LET w == flush_write_buffer(n, k)
         IN  /\ w.outq \in Seq(Piece) /\ Len(w.outq) <= SendRoom
             /\ w.conn.who = c
             /\ w.conn.state # "Closed" => ServedOK(c, Flushed(k, w.outq), w.conn)
  <1> DEFINE w == flush_write_buffer(n, k)
             z == Flushed(k, w.outq)
  <1>1. k.outq \in Seq(Piece) /\ k.got \in Seq(Piece) /\ Len(k.outq) <= SendRoom
    BY SockType
  <1>2. ConnType(n) /\ n.who = c /\ k.link \notin {"none", "closed"}
    BY DEF ServedOK
  <1>3. /\ ConnType(w.conn) /\ w.conn.who = c /\ read_view(w.conn) = read_view(n)
        /\ w.outq \in Seq(Piece) /\ Len(w.outq) <= SendRoom
        /\ k.link # "reset" => w.outq \o Unsent(w.conn) = k.outq \o Unsent(n)
    BY <1>1, <1>2, FlushOK
  <1> HIDE DEF w
  <1>4. /\ z.link = k.link /\ z.sent = k.sent /\ z.got = k.got
        /\ z.outq = w.outq /\ z.inq = k.inq
    BY <1>2, <1>3, SockMoves
  <1> HIDE DEF z
  <1>5. k.link # "reset" => UpToDate(c, z, w.conn)
    <2> SUFFICES ASSUME k.link # "reset" PROVE UpToDate(c, z, w.conn)
      OBVIOUS
    <2>1. /\ k.got \in Seq(Piece) /\ w.outq \in Seq(Piece) /\ Unsent(w.conn) \in Seq(Piece)
          /\ k.outq \in Seq(Piece) /\ Unsent(n) \in Seq(Piece)
          /\ w.outq \o Unsent(w.conn) = k.outq \o Unsent(n)
      BY <1>1, <1>2, <1>3, ViewType
    <2>2. (k.got \o w.outq) \o Unsent(w.conn) = (k.got \o k.outq) \o Unsent(n)
      <3>1. (k.got \o w.outq) \o Unsent(w.conn) = k.got \o (w.outq \o Unsent(w.conn))
        BY <2>1, ConcatAssoc, Zenon
      <3>2. (k.got \o k.outq) \o Unsent(n) = k.got \o (k.outq \o Unsent(n))
        BY <2>1, ConcatAssoc, Zenon
      <3> QED BY <2>1, <3>1, <3>2, Zenon
    <2>3. Sent(z, w.conn) = Sent(k, n)
      BY <1>4, <2>2, Zenon DEF Sent
    <2> QED BY <1>3, <1>4, <2>3 DEF UpToDate, ServedOK
  <1>6. w.conn.state # "Closed" => ServedOK(c, z, w.conn)
    BY <1>2, <1>3, <1>4, <1>5 DEF ServedOK
  <1> QED BY <1>3, <1>6 DEF w, z

\* A step of the client or of the kernel: the socket goes from k to z, and
\* whoever serves the client still does.
Moves(c, k, z) ==
  /\ SockOK(c, z)
  /\ \A n : ServedOK(c, k, n) => ServedOK(c, z, n)

LEMMA SendMoves ==
  ASSUME NEW c \in Client, NEW k, SockOK(c, k), k.link = "open", k.sent < Len(Script[c])
  PROVE  Moves(c, k, [k EXCEPT !.sent = @ + 1,
                               !.inq = Append(@, Stream(c)[k.sent + 1])])
  <1> DEFINE p == Stream(c)[k.sent + 1]
             q == Append(k.inq, p)
             z == [k EXCEPT !.sent = @ + 1, !.inq = Append(@, p)]
  <1>1. /\ k.inq \in Seq(Piece) /\ k.outq \in Seq(Piece) /\ k.got \in Seq(Piece)
        /\ k.sent \in Nat /\ k \in Sock /\ Len(k.outq) <= SendRoom
    BY SockType DEF SockOK
  <1>2. /\ Stream(c) \in Seq(Piece) /\ Len(Stream(c)) = Len(Script[c])
        /\ Len(Script[c]) \in Nat
    BY StreamType
  <1>3. p \in Piece
    <2>1. k.sent + 1 \in 1..Len(Stream(c))
      BY <1>1, <1>2
    <2> QED BY <1>2, <2>1
  <1> HIDE DEF p
  <1>4. /\ q \in Seq(Piece) /\ Len(q) = Len(k.inq) + 1 /\ q[Len(k.inq) + 1] = p
        /\ Len(k.inq) \in Nat /\ \A x \in 1..Len(k.inq) : q[x] = k.inq[x]
    BY <1>1, <1>3
  <1>5. z = [k EXCEPT !.sent = k.sent + 1, !.inq = q]
    BY <1>1 DEF Sock
  <1> HIDE DEF q, z
  <1>6. /\ z \in Sock /\ z.link = "open" /\ z.sent = k.sent + 1 /\ z.inq = q
        /\ z.outq = k.outq /\ z.got = k.got
    <2>1. k.sent + 1 \in Nat
      BY <1>1
    <2> QED BY <1>1, <1>4, <1>5, <2>1 DEF Sock
  <1>7. SockOK(c, z)
    BY <1>1, <1>2, <1>6 DEF SockOK
  <1>8. ASSUME NEW n, ServedOK(c, k, n) PROVE ServedOK(c, z, n)
    <2> DEFINE v == read_view(n)
               i == Place(v, k.inq, k.sent)
    <2>1. v \in Seq(Piece) /\ Len(v) \in Nat
      BY <1>8, ViewType, LenType DEF ServedOK
    <2>2. InStream(c, v, k.inq, k.sent) /\ Answered(c, v, i, Sent(k, n))
      BY <1>8 DEF ServedOK, UpToDate
    <2> HIDE DEF v
    <2>3. Place(v, q, k.sent + 1) = i /\ i \in Int /\ i + Len(v) + (Len(k.inq) + 1) = k.sent + 1
      <3> DEFINE a == Len(v)
                 b == Len(k.inq)
                 s == k.sent
      <3>1. a \in Nat /\ b \in Nat /\ s \in Nat /\ i = s - a - b /\ Len(q) = b + 1
        BY <1>1, <1>4, <2>1 DEF Place
      <3>2. Place(v, q, s + 1) = (s + 1) - a - Len(q)
        BY DEF Place
      <3> HIDE DEF a, b, s, i
      <3>3. Place(v, q, s + 1) = i /\ i \in Int /\ i + a + (b + 1) = s + 1
        BY <3>1, <3>2
      <3> QED BY <3>3 DEF a, b, s, i
    <2>4. /\ i >= 0 /\ (i = 0 \/ Completes(Stream(c)[i]))
          /\ \A x \in 1..Len(v) : v[x] = Stream(c)[i + x]
          /\ \A x \in 1..Len(k.inq) : k.inq[x] = Stream(c)[i + Len(v) + x]
      BY <2>2 DEF InStream
    <2> HIDE DEF i
    <2>5. ASSUME NEW x \in 1..Len(q) PROVE q[x] = Stream(c)[i + Len(v) + x]
      <3>1. CASE x \in 1..Len(k.inq)
        BY <1>4, <2>4, <3>1
      <3>2. CASE x \notin 1..Len(k.inq)
        <4>1. x = Len(k.inq) + 1
          BY <1>4, <3>2
        <4>2. Stream(c)[i + Len(v) + x] = p
          BY <2>3, <4>1 DEF p
        <4> QED BY <1>4, <4>1, <4>2
      <3> QED BY <3>1, <3>2
    <2>6. InStream(c, v, q, k.sent + 1)
      BY <2>3, <2>4, <2>5 DEF InStream
    <2>7. Sent(z, n) = Sent(k, n)
      BY <1>6 DEF Sent
    <2>8. UpToDate(c, z, n)
      BY <1>6, <2>2, <2>3, <2>6, <2>7 DEF UpToDate, i, v
    <2> QED BY <1>6, <1>8, <2>8 DEF ServedOK
  <1> QED BY <1>7, <1>8 DEF Moves, z, p

LEMMA ShutMoves ==
  ASSUME NEW c \in Client, NEW k, SockOK(c, k), k.link = "open"
  PROVE  Moves(c, k, [k EXCEPT !.link = "shut"])
  <1> DEFINE z == [k EXCEPT !.link = "shut"]
  <1>1. k \in Sock
    BY DEF SockOK
  <1>2. /\ z \in Sock /\ z.link = "shut" /\ z.sent = k.sent /\ z.inq = k.inq
        /\ z.outq = k.outq /\ z.got = k.got
    BY <1>1 DEF Sock
  <1> HIDE DEF z
  <1>3. SockOK(c, z)
    BY <1>2 DEF SockOK
  <1>4. ASSUME NEW n, ServedOK(c, k, n) PROVE ServedOK(c, z, n)
    BY <1>2, <1>4 DEF ServedOK, UpToDate, Sent
  <1> QED BY <1>3, <1>4 DEF Moves, z

LEMMA ResetMoves ==
  ASSUME NEW c \in Client, NEW k, SockOK(c, k), k.link \in {"open", "shut"}
  PROVE  Moves(c, k, [k EXCEPT !.link = "reset", !.inq = << >>, !.outq = << >>])
  <1> DEFINE E == << >>
             z == [k EXCEPT !.link = "reset", !.inq = << >>, !.outq = << >>]
  <1>1. k \in Sock /\ E \in Seq(Piece) /\ Len(E) <= SendRoom
    BY NetworkAssumption DEF SockOK
  <1>2. z = [k EXCEPT !.link = "reset", !.inq = E, !.outq = E]
    OBVIOUS
  <1> HIDE DEF E, z
  <1>3. z \in Sock /\ z.link = "reset" /\ z.sent = k.sent /\ z.outq = E
    BY <1>1, <1>2 DEF Sock
  <1>4. SockOK(c, z)
    BY <1>1, <1>3 DEF SockOK
  <1>5. ASSUME NEW n, ServedOK(c, k, n) PROVE ServedOK(c, z, n)
    BY <1>3, <1>5 DEF ServedOK
  <1> QED BY <1>4, <1>5 DEF Moves, z

LEMMA HeadMoves ==
  ASSUME NEW s \in Seq(Piece), NEW t \in Seq(Piece), t # << >>
  PROVE  /\ Append(s, Head(t)) \in Seq(Piece) /\ Tail(t) \in Seq(Piece)
         /\ Append(s, Head(t)) \o Tail(t) = s \o t
         /\ Len(Tail(t)) = Len(t) - 1
  <1> DEFINE a == Append(s, Head(t))
             b == Tail(t)
             x == a \o b
             y == s \o t
  <1>1. Len(s) \in Nat /\ Len(t) \in Nat /\ Len(t) # 0 /\ Head(t) = t[1] /\ Head(t) \in Piece
    OBVIOUS
  <1>2. /\ a \in Seq(Piece) /\ Len(a) = Len(s) + 1 /\ a[Len(s) + 1] = t[1]
        /\ \A i \in 1..Len(s) : a[i] = s[i]
    BY <1>1
  <1>3. /\ b \in Seq(Piece) /\ Len(b) = Len(t) - 1 /\ \A i \in 1..Len(t) - 1 : b[i] = t[i + 1]
    BY <1>1
  <1> HIDE DEF a, b
  <1>4. /\ x \in Seq(Piece) /\ Len(x) = Len(a) + Len(b)
        /\ \A i \in 1..Len(a) : x[i] = a[i]
        /\ \A i \in 1..Len(b) : x[Len(a) + i] = b[i]
    BY <1>2, <1>3, ConcatType
  <1>5. /\ y \in Seq(Piece) /\ Len(y) = Len(s) + Len(t)
        /\ \A i \in 1..Len(s) : y[i] = s[i]
        /\ \A i \in 1..Len(t) : y[Len(s) + i] = t[i]
    BY ConcatType
  <1> HIDE DEF x, y
  <1>6. Len(x) = Len(y)
    BY <1>1, <1>2, <1>3, <1>4, <1>5
  <1>7. ASSUME NEW i \in 1..Len(x) PROVE x[i] = y[i]
    <2>1. CASE i \in 1..Len(s)
      <3>1. i \in 1..Len(a)
        BY <1>1, <1>2, <2>1
      <3> QED BY <1>2, <1>4, <1>5, <2>1, <3>1
    <2>2. CASE i = Len(s) + 1
      <3>1. i \in 1..Len(a) /\ 1 \in 1..Len(t)
        BY <1>1, <1>2, <2>2
      <3> QED BY <1>2, <1>4, <1>5, <2>2, <3>1
    <2>3. CASE i \notin 1..Len(s) /\ i # Len(s) + 1
      <3> DEFINE j == i - Len(a)
      <3>1. /\ j \in 1..Len(b) /\ i = Len(a) + j /\ j \in 1..Len(t) - 1
            /\ j + 1 \in 1..Len(t) /\ i = Len(s) + (j + 1)
        BY <1>1, <1>2, <1>3, <1>4, <2>3
      <3> HIDE DEF j
      <3>2. x[i] = b[j] /\ b[j] = t[j + 1]
        BY <1>3, <1>4, <3>1
      <3>3. y[Len(s) + (j + 1)] = t[j + 1]
        BY <1>5, <3>1
      <3> QED BY <3>1, <3>2, <3>3
    <2> QED BY <2>1, <2>2, <2>3
  <1>8. x = y
    BY <1>4, <1>5, <1>6, <1>7, SeqEqual
  <1> QED BY <1>2, <1>3, <1>8 DEF a, b, x, y

LEMMA ReceiveMoves ==
  ASSUME NEW c \in Client, NEW k, SockOK(c, k), k.outq # << >>
  PROVE  Moves(c, k, [k EXCEPT !.outq = Tail(@), !.got = Append(@, Head(k.outq))])
  <1> DEFINE g == Append(k.got, Head(k.outq))
             t == Tail(k.outq)
             z == [k EXCEPT !.outq = Tail(@), !.got = Append(@, Head(k.outq))]
  <1>1. k.outq \in Seq(Piece) /\ k.got \in Seq(Piece) /\ k \in Sock /\ Len(k.outq) <= SendRoom
    BY SockType DEF SockOK
  <1>2. g \in Seq(Piece) /\ t \in Seq(Piece) /\ g \o t = k.got \o k.outq /\ Len(t) = Len(k.outq) - 1
    BY <1>1, HeadMoves
  <1>3. z = [k EXCEPT !.outq = t, !.got = g]
    BY <1>1 DEF Sock
  <1> HIDE DEF g, t, z
  <1>4. /\ z \in Sock /\ z.link = k.link /\ z.sent = k.sent /\ z.inq = k.inq
        /\ z.outq = t /\ z.got = g
    BY <1>1, <1>2, <1>3 DEF Sock
  <1>5. SockOK(c, z)
    <2>1. Len(t) <= SendRoom
      BY <1>1, <1>2, NetworkAssumption, LenType
    <2> QED BY <1>4, <2>1 DEF SockOK
  <1>6. ASSUME NEW n, ServedOK(c, k, n) PROVE ServedOK(c, z, n)
    <2>1. Sent(z, n) = Sent(k, n)
      BY <1>2, <1>4, Zenon DEF Sent
    <2> QED BY <1>4, <1>6, <2>1 DEF ServedOK, UpToDate
  <1> QED BY <1>5, <1>6 DEF Moves, z

\* A connection that has just been made.
LEMMA NewServes ==
  ASSUME NEW c \in Client, NEW k, SockOK(c, k), k.link = "none"
  PROVE  LET z == [k EXCEPT !.link = "open"]
         IN  SockOK(c, z) /\ ServedOK(c, z, NewConnection(c))
  <1> DEFINE z == [k EXCEPT !.link = "open"]
             n == NewConnection(c)
             E == << >>
  <1>1. k \in Sock /\ k.sent = 0 /\ k.inq = E /\ k.outq = E /\ k.got = E
    BY DEF SockOK
  <1>2. /\ z \in Sock /\ z.link = "open" /\ z.sent = 0 /\ z.inq = E
        /\ z.outq = k.outq /\ z.outq = E /\ z.got = E
    BY <1>1 DEF Sock
  <1>3. E \in Seq(Piece) /\ Len(E) = 0 /\ SubSeq(E, 1, 0) = E /\ E \o E = E
    OBVIOUS
  <1>4. /\ n.who = c /\ n.state = "Connected" /\ n.read_buf = E /\ n.write_buf = E
        /\ n.read_pos = 0 /\ n.write_pos = 0 /\ n \in Connection
    BY <1>3 DEF NewConnection, Connection
  <1>5. SubSeq(Stream(c), 1, 0) = E
    BY StreamType
  <1>6. Answers(E) = E
    <2>1. << >> \in Seq(Piece) /\ \A x \in 1..Len(<< >>) : ~ Completes(<< >>[x])
      OBVIOUS
    <2> QED BY <2>1, AnswersNone
  <1>7. Len(Script[c]) \in Nat
    BY StreamType
  <1> HIDE DEF E, z, n
  <1>8. SockOK(c, z)
    BY <1>2, <1>7 DEF SockOK
  <1>9. ConnType(n) /\ read_view(n) = E /\ Unsent(n) = E
    BY <1>3, <1>4 DEF ConnType, read_view, Unsent
  <1>10. Place(E, E, 0) = 0
    BY <1>3 DEF Place
  <1>11. InStream(c, E, E, 0)
    BY <1>3, <1>10 DEF InStream
  <1>12. Sent(z, n) = E
    BY <1>2, <1>3, <1>9, Zenon DEF Sent
  <1>13. AnswersTo(c, 0) = E
    BY <1>5, <1>6 DEF AnswersTo
  <1>14. Answered(c, E, 0, E)
    <2>1. E = AnswersTo(c, 0) \o E /\ \A x \in 1..Len(E) : E[x].kind = "junk"
      BY <1>3, <1>13
    <2>2. E # << >> => JunkAhead(E)
      BY DEF E
    <2> QED BY <1>3, <2>1, <2>2 DEF Answered
  <1>15. UpToDate(c, z, n)
    BY <1>2, <1>9, <1>10, <1>11, <1>12, <1>14 DEF UpToDate
  <1>16. ServedOK(c, z, n)
    BY <1>2, <1>4, <1>9, <1>15 DEF ServedOK
  <1> QED BY <1>8, <1>16 DEF z, n

-----------------------------------------------------------------------------
(***************************************************************************)
(* The inductive invariant, of the sockets K, the connections C, the       *)
(* handlers H and the backlog B.  A connection that waits in the backlog   *)
(* is one that a new Connection would serve.                               *)
(***************************************************************************)
ConnectionsOK(K, C) ==
  /\ DOMAIN C \subseteq Fd
  /\ \A fd \in DOMAIN C : C[fd].who \in Client /\ ServedOK(C[fd].who, K[C[fd].who], C[fd])
  /\ \A a, b \in DOMAIN C : C[a].who = C[b].who => a = b

HandlersOK(C, H) ==
  /\ DOMAIN H \ {Listen} = DOMAIN C
  /\ \A fd \in DOMAIN H : H[fd] \subseteq {"in", "out"} /\ "in" \in H[fd]
  /\ \A fd \in DOMAIN C : has_pending_writes(C[fd]) => "out" \in H[fd]

BacklogOK(K, C, B) ==
  /\ B \in Seq(Client)
  /\ \A i \in 1..Len(B) : ServedOK(B[i], K[B[i]], NewConnection(B[i]))
  /\ \A i, j \in 1..Len(B) : B[i] = B[j] => i = j
  /\ \A i \in 1..Len(B) : \A fd \in DOMAIN C : C[fd].who # B[i]

SocksOK(K) == K \in [Client -> Sock] /\ \A c \in Client : SockOK(c, K[c])

StateOK(K, C, H, B) ==
  SocksOK(K) /\ ConnectionsOK(K, C) /\ HandlersOK(C, H) /\ BacklogOK(K, C, B)

LEMMA SetSock ==
  ASSUME NEW K, SocksOK(K), NEW c \in Client, NEW k, SockOK(c, k)
  PROVE  /\ SocksOK([K EXCEPT ![c] = k])
         /\ [K EXCEPT ![c] = k][c] = k
         /\ \A x \in Client \ {c} : [K EXCEPT ![c] = k][x] = K[x]
  <1>1. k \in Sock
    BY DEF SockOK
  <1> QED BY <1>1 DEF SocksOK

\* A client or the kernel acts.
LEMMA MoveOK ==
  ASSUME NEW K, NEW C, NEW H, NEW B, StateOK(K, C, H, B),
         NEW c \in Client, NEW k, Moves(c, K[c], k)
  PROVE  StateOK([K EXCEPT ![c] = k], C, H, B)
  <1> DEFINE L == [K EXCEPT ![c] = k]
  <1>1. SocksOK(L) /\ L[c] = k /\ \A x \in Client \ {c} : L[x] = K[x]
    BY SetSock DEF StateOK, Moves
  <1> HIDE DEF L
  <1>2. ASSUME NEW x \in Client, NEW n, ServedOK(x, K[x], n) PROVE ServedOK(x, L[x], n)
    <2>1. CASE x = c
      BY <1>1, <1>2, <2>1 DEF Moves
    <2>2. CASE x # c
      BY <1>1, <1>2, <2>2
    <2> QED BY <2>1, <2>2
  <1>3. ConnectionsOK(L, C)
    BY <1>2 DEF StateOK, ConnectionsOK
  <1>4. BacklogOK(L, C, B)
    <2>1. B \in Seq(Client) /\ \A i \in 1..Len(B) : B[i] \in Client
      BY DEF StateOK, BacklogOK
    <2> QED BY <1>2, <2>1 DEF StateOK, BacklogOK
  <1> QED BY <1>1, <1>3, <1>4 DEF StateOK, L

\* A callback leaves the connection n and the socket k.
LEMMA UpdateOK ==
  ASSUME NEW K, NEW C, NEW H, NEW B, StateOK(K, C, H, B),
         NEW fd \in DOMAIN C, NEW c, c = C[fd].who,
         NEW k, SockOK(c, k), NEW n, ServedOK(c, k, n),
         NEW G, DOMAIN G = DOMAIN H, \A x \in DOMAIN H \ {fd} : G[x] = H[x],
         G[fd] \subseteq {"in", "out"}, "in" \in G[fd],
         has_pending_writes(n) => "out" \in G[fd]
  PROVE  StateOK([K EXCEPT ![c] = k], [C EXCEPT ![fd] = n], G, B)
  <1> DEFINE L == [K EXCEPT ![c] = k]
             D == [C EXCEPT ![fd] = n]
  <1>1. c \in Client /\ fd \in DOMAIN H
    BY DEF StateOK, ConnectionsOK, HandlersOK
  <1>2. SocksOK(L) /\ L[c] = k /\ \A x \in Client \ {c} : L[x] = K[x]
    BY <1>1, SetSock DEF StateOK
  <1>3. n.who = c
    BY DEF ServedOK
  <1>4. DOMAIN D = DOMAIN C /\ D[fd] = n /\ \A x \in DOMAIN C \ {fd} : D[x] = C[x]
    OBVIOUS
  <1> HIDE DEF L, D
  <1>5. \A x \in DOMAIN C : D[x].who = C[x].who /\ (x # fd => C[x].who # c)
    BY <1>3, <1>4 DEF StateOK, ConnectionsOK
  <1>6. ConnectionsOK(L, D)
    <2>1. ASSUME NEW x \in DOMAIN C PROVE D[x].who \in Client /\ ServedOK(D[x].who, L[D[x].who], D[x])
      <3>1. CASE x = fd
        BY <1>1, <1>2, <1>3, <1>4, <3>1
      <3>2. CASE x # fd
        <4>1. D[x] = C[x] /\ C[x].who \in Client \ {c} /\ ServedOK(C[x].who, K[C[x].who], C[x])
          BY <1>4, <1>5, <3>2 DEF StateOK, ConnectionsOK
        <4> QED BY <1>2, <4>1
      <3> QED BY <3>1, <3>2
    <2> QED BY <1>4, <1>5, <2>1 DEF StateOK, ConnectionsOK
  <1>7. HandlersOK(D, G)
    <2>1. \A x \in DOMAIN G : G[x] \subseteq {"in", "out"} /\ "in" \in G[x]
      BY DEF StateOK, HandlersOK
    <2>2. \A x \in DOMAIN D : has_pending_writes(D[x]) => "out" \in G[x]
      <3> SUFFICES ASSUME NEW x \in DOMAIN D, has_pending_writes(D[x]) PROVE "out" \in G[x]
        OBVIOUS
      <3>1. CASE x = fd
        BY <1>4, <3>1
      <3>2. CASE x # fd
        BY <1>4, <3>2 DEF StateOK, HandlersOK
      <3> QED BY <3>1, <3>2
    <2> QED BY <1>4, <2>1, <2>2 DEF StateOK, HandlersOK
  <1>8. BacklogOK(L, D, B)
    <2>1. \A i \in 1..Len(B) : B[i] \in Client /\ B[i] # c
      BY DEF StateOK, BacklogOK
    <2>2. \A i \in 1..Len(B) : L[B[i]] = K[B[i]]
      BY <1>2, <2>1
    <2> QED BY <1>4, <1>5, <2>2 DEF StateOK, BacklogOK
  <1> QED BY <1>2, <1>6, <1>7, <1>8 DEF StateOK, L, D

\* A callback closes the connection.
LEMMA DropOK ==
  ASSUME NEW K, NEW C, NEW H, NEW B, StateOK(K, C, H, B),
         NEW fd \in DOMAIN C, NEW c, c = C[fd].who, NEW k, SockOK(c, k)
  PROVE  StateOK([K EXCEPT ![c] = k], Erase(C, fd), Erase(H, fd), B)
  <1> DEFINE L == [K EXCEPT ![c] = k]
             D == Erase(C, fd)
             G == Erase(H, fd)
  <1>1. c \in Client /\ fd \in DOMAIN H /\ fd \in Fd
    BY DEF StateOK, ConnectionsOK, HandlersOK
  <1>2. SocksOK(L) /\ L[c] = k /\ \A x \in Client \ {c} : L[x] = K[x]
    BY <1>1, SetSock DEF StateOK
  <1>3. /\ DOMAIN D = DOMAIN C \ {fd} /\ \A x \in DOMAIN C \ {fd} : D[x] = C[x]
        /\ DOMAIN G = DOMAIN H \ {fd} /\ \A x \in DOMAIN H \ {fd} : G[x] = H[x]
    BY DEF Erase
  <1> HIDE DEF L, D, G
  <1>4. \A x \in DOMAIN D : D[x].who = C[x].who /\ C[x].who \in Client \ {c}
    BY <1>3 DEF StateOK, ConnectionsOK
  <1>5. ConnectionsOK(L, D)
    BY <1>2, <1>3, <1>4 DEF StateOK, ConnectionsOK
  <1>6. HandlersOK(D, G)
    BY <1>3 DEF StateOK, HandlersOK
  <1>7. BacklogOK(L, D, B)
    <2>1. \A i \in 1..Len(B) : B[i] \in Client /\ B[i] # c
      BY DEF StateOK, BacklogOK
    <2>2. \A i \in 1..Len(B) : L[B[i]] = K[B[i]]
      BY <1>2, <2>1
    <2> QED BY <1>3, <1>4, <2>2 DEF StateOK, BacklogOK
  <1> QED BY <1>2, <1>5, <1>6, <1>7 DEF StateOK, L, D, G

LEMMA HangupOK ==
  ASSUME NEW c, NEW k, SockOK(c, k)
  PROVE  SockOK(c, Hangup(k))
  <1> DEFINE E == << >>
             z == [k EXCEPT !.link = "closed", !.inq = << >>]
  <1>1. k \in Sock /\ E \in Seq(Piece)
    BY DEF SockOK
  <1>2. z = [k EXCEPT !.link = "closed", !.inq = E]
    OBVIOUS
  <1> HIDE DEF E
  <1>3. z \in Sock /\ z.link = "closed" /\ z.sent = k.sent /\ z.outq = k.outq
    BY <1>1, <1>2 DEF Sock
  <1>4. SockOK(c, z)
    BY <1>3 DEF SockOK
  <1> QED BY <1>4 DEF Hangup

-----------------------------------------------------------------------------
(***************************************************************************)
(* The callbacks.                                                          *)
(***************************************************************************)
IsState(s) == s = [sock |-> s.sock, clients |-> s.clients, handlers |-> s.handlers]

RecordOK(s, B) == IsState(s) /\ StateOK(s.sock, s.clients, s.handlers, B)

\* What the callbacks do to a state, field by field.
LEMMA CloseIs ==
  ASSUME NEW t, IsState(t), NEW fd
  PROVE  LET c == t.clients[fd].who
         IN close_connection(t, fd) =
           [sock |-> [t.sock EXCEPT ![c] = Hangup(t.sock[c])],
            clients |-> Erase(t.clients, fd), handlers |-> Erase(t.handlers, fd)]
  <1> DEFINE K == t.sock
             C == t.clients
             H == t.handlers
             c == C[fd].who
             L == [K EXCEPT ![c] = Hangup(K[c])]
             D == Erase(C, fd)
             G == Erase(H, fd)
  <1>1. t = [sock |-> K, clients |-> C, handlers |-> H]
    BY DEF IsState
  <1>2. close_connection(t, fd) = [t EXCEPT !.sock = L, !.clients = D, !.handlers = G]
    BY DEF close_connection, remove
  <1> HIDE DEF K, C, H, L, D, G
  <1>3. [t EXCEPT !.sock = L, !.clients = D, !.handlers = G] = [sock |-> L, clients |-> D, handlers |-> G]
    <2> DEFINE t1 == [t EXCEPT !.sock = L]
               t2 == [t1 EXCEPT !.clients = D]
    <2>1. t1 = [sock |-> L, clients |-> C, handlers |-> H]
      BY <1>1
    <2> HIDE DEF t1
    <2>2. t2 = [sock |-> L, clients |-> D, handlers |-> H]
      BY <2>1
    <2> HIDE DEF t2
    <2>3. [t2 EXCEPT !.handlers = G] = [sock |-> L, clients |-> D, handlers |-> G]
      BY <2>2
    <2> QED BY <2>3 DEF t1, t2
  <1> QED BY <1>2, <1>3 DEF K, C, H, L, D, G

\* The connection of fd becomes x, the send queue of its client c becomes q.
ReadInto(s, fd, c, x, q) ==
  [s EXCEPT !.clients[fd] = x,
            !.sock[c].inq = << >>,
            !.sock[c].outq = q,
            !.handlers = IF has_pending_writes(x) THEN add_writable(@, fd) ELSE @]

WrittenFrom(s, fd, c, x, q) ==
  [s EXCEPT !.clients[fd] = x,
            !.sock[c].outq = q,
            !.handlers = IF has_pending_writes(x) THEN @ ELSE remove_writable(@, fd)]

LEMMA WriteState ==
  ASSUME NEW s, IsState(s), s.sock \in [Client -> Sock], NEW c \in Client, NEW fd, NEW x, NEW q
  PROVE  /\ ReadInto(s, fd, c, x, q)
            = [sock |-> [s.sock EXCEPT ![c] = Drained(s.sock[c], q)],
               clients |-> [s.clients EXCEPT ![fd] = x],
               handlers |-> IF has_pending_writes(x) THEN add_writable(s.handlers, fd)
                                                     ELSE s.handlers]
         /\ WrittenFrom(s, fd, c, x, q)
            = [sock |-> [s.sock EXCEPT ![c] = Flushed(s.sock[c], q)],
               clients |-> [s.clients EXCEPT ![fd] = x],
               handlers |-> IF has_pending_writes(x) THEN s.handlers
                                                     ELSE remove_writable(s.handlers, fd)]
  <1> DEFINE K == s.sock
             C == s.clients
             H == s.handlers
             E == << >>
             D == [C EXCEPT ![fd] = x]
             G == IF has_pending_writes(x) THEN add_writable(H, fd) ELSE H
             F == IF has_pending_writes(x) THEN H ELSE remove_writable(H, fd)
             a == [K[c] EXCEPT !.inq = E]
             M == [K EXCEPT ![c] = a]
  <1>1. s = [sock |-> K, clients |-> C, handlers |-> H] /\ K \in [Client -> Sock]
    BY DEF IsState
  <1>2. M[c] = a /\ [M EXCEPT ![c] = [a EXCEPT !.outq = q]] = [K EXCEPT ![c] = Drained(K[c], q)]
    BY <1>1 DEF Drained
  <1>3. [K EXCEPT ![c].outq = q] = [K EXCEPT ![c] = Flushed(K[c], q)]
    BY <1>1 DEF Flushed
  <1> HIDE DEF K, C, H, D, G, F, a, M
  <1>4. s.sock = K /\ s.clients = C /\ s.handlers = H
    BY DEF K, C, H
  <1> DEFINE s1 == [s EXCEPT !.clients[fd] = x]
             s2 == [s1 EXCEPT !.sock[c].inq = << >>]
             s3 == [s2 EXCEPT !.sock[c].outq = q]
             t3 == [s1 EXCEPT !.sock[c].outq = q]
  <1>5. s1 = [sock |-> K, clients |-> D, handlers |-> H]
    BY <1>1, <1>4 DEF D
  <1> HIDE DEF s1
  <1>6. s2 = [sock |-> M, clients |-> D, handlers |-> H]
    BY <1>5 DEF M, a
  <1> HIDE DEF s2
  <1>7. s3 = [sock |-> [K EXCEPT ![c] = Drained(K[c], q)], clients |-> D, handlers |-> H]
    BY <1>2, <1>6
  <1>8. t3 = [sock |-> [K EXCEPT ![c] = Flushed(K[c], q)], clients |-> D, handlers |-> H]
    BY <1>3, <1>5
  <1> HIDE DEF s3, t3
  <1>9. [s3 EXCEPT !.handlers = IF has_pending_writes(x) THEN add_writable(@, fd) ELSE @]
        = [sock |-> [K EXCEPT ![c] = Drained(K[c], q)], clients |-> D, handlers |-> G]
    BY <1>7 DEF G
  <1>10. [t3 EXCEPT !.handlers = IF has_pending_writes(x) THEN @ ELSE remove_writable(@, fd)]
        = [sock |-> [K EXCEPT ![c] = Flushed(K[c], q)], clients |-> D, handlers |-> F]
    BY <1>8 DEF F
  <1> QED BY <1>9, <1>10 DEF ReadInto, WrittenFrom, s1, s2, s3, t3, K, C, H, D, G, F
\* A callback that closes: t is s after what it did before, to the connection
\* and the socket of fd, and to what is asked for on fd.
LEMMA CloseOK ==
  ASSUME NEW s, NEW B, RecordOK(s, B), NEW fd \in DOMAIN s.clients, NEW c, c = s.clients[fd].who,
         NEW t, IsState(t), NEW k, SockOK(c, k), t.sock = [s.sock EXCEPT ![c] = k],
         t.clients[fd].who = c, Erase(t.clients, fd) = Erase(s.clients, fd),
         Erase(t.handlers, fd) = Erase(s.handlers, fd)
  PROVE  RecordOK(close_connection(t, fd), B)
  <1> DEFINE r == close_connection(t, fd)
             L == [s.sock EXCEPT ![c] = Hangup(k)]
  <1>1. /\ c \in Client /\ s.sock \in [Client -> Sock]
        /\ StateOK(s.sock, s.clients, s.handlers, B)
    BY DEF RecordOK, StateOK, ConnectionsOK, SocksOK
  <1>2. [t.sock EXCEPT ![c] = Hangup(t.sock[c])] = L
    BY <1>1
  <1>3. r = [sock |-> L, clients |-> Erase(s.clients, fd), handlers |-> Erase(s.handlers, fd)]
    BY <1>2, CloseIs
  <1> HIDE DEF r, L
  <1>4. IsState(r) /\ r.sock = L /\ r.clients = Erase(s.clients, fd)
        /\ r.handlers = Erase(s.handlers, fd)
    BY <1>3 DEF IsState
  <1>5. SockOK(c, Hangup(k))
    BY HangupOK
  <1>6. StateOK(L, Erase(s.clients, fd), Erase(s.handlers, fd), B)
    BY <1>1, <1>5, DropOK DEF L
  <1> QED BY <1>4, <1>6 DEF RecordOK, r

\* The events asked for, once fd is written to.
LEMMA AskWritable ==
  ASSUME NEW H, NEW fd \in DOMAIN H, H[fd] \subseteq {"in", "out"}, "in" \in H[fd]
  PROVE  LET G == add_writable(H, fd)
         IN  /\ DOMAIN G = DOMAIN H /\ \A x \in DOMAIN H \ {fd} : G[x] = H[x]
             /\ G[fd] \subseteq {"in", "out"} /\ "in" \in G[fd] /\ "out" \in G[fd]
             /\ Erase(G, fd) = Erase(H, fd)
  BY DEF add_writable, Write, Lookup, Erase

LEMMA AskNoMore ==
  ASSUME NEW H, NEW fd \in DOMAIN H, H[fd] \subseteq {"in", "out"}, "in" \in H[fd]
  PROVE  LET G == remove_writable(H, fd)
         IN  /\ DOMAIN G = DOMAIN H /\ \A x \in DOMAIN H \ {fd} : G[x] = H[x]
             /\ G[fd] \subseteq {"in", "out"} /\ "in" \in G[fd]
             /\ Erase(G, fd) = Erase(H, fd)
  BY DEF remove_writable, remove, Write, Erase

LEMMA ReadableOK ==
  ASSUME NEW s, NEW B, RecordOK(s, B), NEW fd
  PROVE  RecordOK(on_client_readable(s, fd), B)
  <1>1. CASE fd \notin DOMAIN s.clients
    BY <1>1 DEF on_client_readable
  <1>2. CASE fd \in DOMAIN s.clients
    <2> DEFINE n == s.clients[fd]
               c == n.who
               k == s.sock[c]
               w == AfterRead(n, k)
               G == IF has_pending_writes(w.conn) THEN add_writable(s.handlers, fd) ELSE s.handlers
               t == ReadInto(s, fd, c, w.conn, w.outq)
               r == on_client_readable(s, fd)
    <2>1. /\ StateOK(s.sock, s.clients, s.handlers, B) /\ IsState(s)
          /\ c \in Client /\ ServedOK(c, k, n) /\ SockOK(c, k)
          /\ s.sock \in [Client -> Sock] /\ k.link # "none"
          /\ fd \in DOMAIN s.handlers /\ s.handlers[fd] \subseteq {"in", "out"}
          /\ "in" \in s.handlers[fd]
      BY <1>2 DEF RecordOK, StateOK, ConnectionsOK, SocksOK, HandlersOK, ServedOK
    <2>2. r = IF fill_read_buffer(n, k).result <= 0 THEN close_connection(s, fd)
              ELSE IF w.conn.state = "Closed" THEN close_connection(t, fd)
              ELSE t
      BY <1>2 DEF on_client_readable, AfterRead, ReadInto
    <2>3. /\ IsState(t) /\ t.clients = [s.clients EXCEPT ![fd] = w.conn] /\ t.handlers = G
          /\ t.sock = [s.sock EXCEPT ![c] = Drained(k, w.outq)]
      <3>1. t = [sock |-> [s.sock EXCEPT ![c] = Drained(k, w.outq)],
                 clients |-> [s.clients EXCEPT ![fd] = w.conn], handlers |-> G]
        <4> HIDE DEF c, w
        <4> QED BY <2>1, WriteState
      <3> HIDE DEF t, G, w, k, c, n
      <3> QED BY <3>1 DEF IsState
    <2>4. t.clients[fd] = w.conn /\ Erase(t.clients, fd) = Erase(s.clients, fd)
      <3> HIDE DEF t, w
      <3> QED BY <1>2, <2>3 DEF Erase
    <2> HIDE DEF r, t, w
    <2>5. /\ DOMAIN G = DOMAIN s.handlers /\ \A x \in DOMAIN s.handlers \ {fd} : G[x] = s.handlers[x]
          /\ G[fd] \subseteq {"in", "out"} /\ "in" \in G[fd]
          /\ has_pending_writes(w.conn) => "out" \in G[fd]
          /\ Erase(G, fd) = Erase(s.handlers, fd)
      BY <2>1, AskWritable
    <2> HIDE DEF G
    <2>6. CASE fill_read_buffer(n, k).result <= 0
      <3>1. r = close_connection(s, fd)
        BY <2>2, <2>6
      <3>2. s.sock = [s.sock EXCEPT ![c] = k]
        BY <2>1
      <3>3. c = s.clients[fd].who
        OBVIOUS
      <3> HIDE DEF c, k, n
      <3>4. RecordOK(close_connection(s, fd), B)
        BY <1>2, <2>1, <3>2, <3>3, CloseOK
      <3> QED BY <3>1, <3>4 DEF r
    <2>7. CASE ~ (fill_read_buffer(n, k).result <= 0)
      <3>1. /\ w.outq \in Seq(Piece) /\ Len(w.outq) <= SendRoom /\ w.conn.who = c
            /\ w.conn.state # "Closed" => ServedOK(c, Drained(k, w.outq), w.conn)
        BY <2>1, <2>7, ReadServes DEF w
      <3>2. SockOK(c, Drained(k, w.outq))
        BY <2>1, <3>1, SockMoves
      <3>3. CASE w.conn.state = "Closed"
        <4>1. r = close_connection(t, fd)
          BY <2>2, <2>7, <3>3
        <4>2. c = s.clients[fd].who
          OBVIOUS
        <4>3. t.clients[fd].who = c /\ Erase(t.handlers, fd) = Erase(s.handlers, fd)
          BY <2>3, <2>4, <2>5, <3>1
        <4> HIDE DEF c, k, n
        <4>4. RecordOK(close_connection(t, fd), B)
          BY <1>2, <2>3, <2>4, <3>2, <4>2, <4>3, CloseOK
        <4> QED BY <4>1, <4>4 DEF r
      <3>4. CASE w.conn.state # "Closed"
        <4>1. r = t
          BY <2>2, <2>7, <3>4
        <4>2. StateOK([s.sock EXCEPT ![c] = Drained(k, w.outq)],
                      [s.clients EXCEPT ![fd] = w.conn], G, B)
          BY <1>2, <2>1, <2>5, <3>1, <3>2, <3>4, UpdateOK
        <4> QED BY <2>3, <4>1, <4>2 DEF RecordOK, r
      <3> QED BY <3>3, <3>4
    <2> QED BY <2>6, <2>7
  <1> QED BY <1>1, <1>2

LEMMA WritableOK ==
  ASSUME NEW s, NEW B, RecordOK(s, B), NEW fd
  PROVE  RecordOK(on_client_writable(s, fd), B)
  <1>1. CASE fd \notin DOMAIN s.clients
    BY <1>1 DEF on_client_writable
  <1>2. CASE fd \in DOMAIN s.clients
    <2> DEFINE n == s.clients[fd]
               c == n.who
               k == s.sock[c]
               w == flush_write_buffer(n, k)
               G == IF has_pending_writes(w.conn) THEN s.handlers ELSE remove_writable(s.handlers, fd)
               t == WrittenFrom(s, fd, c, w.conn, w.outq)
               r == on_client_writable(s, fd)
    <2>1. /\ StateOK(s.sock, s.clients, s.handlers, B) /\ IsState(s)
          /\ c \in Client /\ ServedOK(c, k, n) /\ SockOK(c, k)
          /\ s.sock \in [Client -> Sock] /\ k.link # "none"
          /\ fd \in DOMAIN s.handlers /\ s.handlers[fd] \subseteq {"in", "out"}
          /\ "in" \in s.handlers[fd]
      BY <1>2 DEF RecordOK, StateOK, ConnectionsOK, SocksOK, HandlersOK, ServedOK
    <2>2. r = IF w.conn.state = "Closed" THEN close_connection(t, fd) ELSE t
      BY <1>2 DEF on_client_writable, WrittenFrom
    <2>3. /\ IsState(t) /\ t.clients = [s.clients EXCEPT ![fd] = w.conn] /\ t.handlers = G
          /\ t.sock = [s.sock EXCEPT ![c] = Flushed(k, w.outq)]
      <3>1. t = [sock |-> [s.sock EXCEPT ![c] = Flushed(k, w.outq)],
                 clients |-> [s.clients EXCEPT ![fd] = w.conn], handlers |-> G]
        <4> HIDE DEF c, w
        <4> QED BY <2>1, WriteState
      <3> HIDE DEF t, G, w, k, c, n
      <3> QED BY <3>1 DEF IsState
    <2>4. t.clients[fd] = w.conn /\ Erase(t.clients, fd) = Erase(s.clients, fd)
      <3> HIDE DEF t, w
      <3> QED BY <1>2, <2>3 DEF Erase
    <2>5. has_pending_writes(w.conn) => has_pending_writes(n)
      <3>1. ConnType(n) /\ k.outq \in Seq(Piece) /\ Len(k.outq) <= SendRoom
        BY <2>1, SockType DEF ServedOK
      <3> QED BY <3>1, FlushPending
    <2>6. /\ w.outq \in Seq(Piece) /\ Len(w.outq) <= SendRoom /\ w.conn.who = c
          /\ w.conn.state # "Closed" => ServedOK(c, Flushed(k, w.outq), w.conn)
      BY <2>1, WriteServes
    <2> HIDE DEF r, t, w
    <2>7. /\ DOMAIN G = DOMAIN s.handlers /\ \A x \in DOMAIN s.handlers \ {fd} : G[x] = s.handlers[x]
          /\ G[fd] \subseteq {"in", "out"} /\ "in" \in G[fd]
          /\ Erase(G, fd) = Erase(s.handlers, fd)
      BY <2>1, AskNoMore
    <2>8. has_pending_writes(w.conn) => "out" \in G[fd]
      BY <1>2, <2>1, <2>5 DEF StateOK, HandlersOK
    <2> HIDE DEF G
    <2>9. SockOK(c, Flushed(k, w.outq))
      BY <2>1, <2>6, SockMoves
    <2>10. CASE w.conn.state = "Closed"
      <3>1. r = close_connection(t, fd)
        BY <2>2, <2>10
      <3>2. c = s.clients[fd].who
        OBVIOUS
      <3>3. t.clients[fd].who = c /\ Erase(t.handlers, fd) = Erase(s.handlers, fd)
        BY <2>3, <2>4, <2>6, <2>7
      <3> HIDE DEF c, k, n
      <3>4. RecordOK(close_connection(t, fd), B)
        BY <1>2, <2>3, <2>4, <2>9, <3>2, <3>3, CloseOK
      <3> QED BY <3>1, <3>4 DEF r
    <2>11. CASE w.conn.state # "Closed"
      <3>1. r = t
        BY <2>2, <2>11
      <3>2. StateOK([s.sock EXCEPT ![c] = Flushed(k, w.outq)],
                    [s.clients EXCEPT ![fd] = w.conn], G, B)
        BY <1>2, <2>1, <2>6, <2>7, <2>8, <2>9, <2>11, UpdateOK
      <3> QED BY <2>3, <3>1, <3>2 DEF RecordOK, r
    <2> QED BY <2>10, <2>11
  <1> QED BY <1>1, <1>2

\* accept4 takes the first n of the backlog.
LEMMA AcceptOK ==
  ASSUME StateOK(sock, clients, handlers, backlog),
         NEW n \in 0..Len(backlog), Accept(n)
  PROVE  StateOK(sock, clients', handlers', backlog')
  <1> DEFINE K == sock
             C == clients
             H == handlers
             B == backlog
  <1>1. PICK f \in Injection(1..n, Fd \ DOMAIN C) :
          LET new == {f[i] : i \in 1..n}
              of(fd) == B[CHOOSE i \in 1..n : f[i] = fd]
          IN  /\ backlog' = SubSeq(B, n + 1, Len(B))
              /\ clients' = [fd \in DOMAIN C \cup new |->
                               IF fd \in new THEN NewConnection(of(fd)) ELSE C[fd]]
              /\ handlers' = add_readable(H, new)
    BY DEF Accept
  <1> DEFINE new == {f[i] : i \in 1..n}
             at(fd) == CHOOSE i \in 1..n : f[i] = fd
             D == clients'
             G == handlers'
             A == backlog'
  <1>2. /\ \A i \in 1..n : f[i] \in Fd \ DOMAIN C
        /\ \A i, j \in 1..n : f[i] = f[j] => i = j
    BY <1>1 DEF Injection, IsInjective
  <1>3. \A fd \in new : at(fd) \in 1..n /\ f[at(fd)] = fd
    OBVIOUS
  <1>4. new \subseteq Fd /\ new \cap DOMAIN C = {}
    BY <1>2
  <1>5. /\ DOMAIN D = DOMAIN C \cup new
        /\ \A fd \in new : D[fd] = NewConnection(B[at(fd)])
        /\ \A fd \in DOMAIN C \ new : D[fd] = C[fd]
    BY <1>1
  <1>6. A = SubSeq(B, n + 1, Len(B)) /\ G = add_readable(H, new)
    BY <1>1
  <1>7. B \in Seq(Client) /\ Len(B) \in Nat /\ n \in Nat /\ n <= Len(B)
    BY DEF StateOK, BacklogOK
  <1> HIDE DEF new, at, D, G, A, K, C, H, B
  <1>8. \A i \in 1..n : i \in 1..Len(B)
    BY <1>7
  <1>9. /\ A \in Seq(Client) /\ Len(A) = Len(B) - n
        /\ \A i \in 1..Len(A) : A[i] = B[n + i] /\ n + i \in 1..Len(B) /\ n + i \notin 1..n
    BY <1>6, <1>7
  <1>10. SocksOK(K) /\ ConnectionsOK(K, C) /\ HandlersOK(C, H) /\ BacklogOK(K, C, B)
    BY DEF StateOK, K, C, H, B
  <1>11. ASSUME NEW fd \in new
         PROVE  /\ D[fd].who = B[at(fd)] /\ at(fd) \in 1..Len(B) /\ at(fd) \in 1..n
                /\ D[fd] = NewConnection(B[at(fd)])
                /\ ~ has_pending_writes(D[fd])
    <2>1. /\ NewConnection(B[at(fd)]).who = B[at(fd)]
          /\ ~ has_pending_writes(NewConnection(B[at(fd)]))
      BY DEF NewConnection, has_pending_writes
    <2> QED BY <1>3, <1>5, <1>8, <2>1
  <1>12. \A fd \in DOMAIN C : fd \notin new /\ D[fd] = C[fd]
    BY <1>4, <1>5
  <1>13. ConnectionsOK(K, D)
    <2>1. DOMAIN D \subseteq Fd
      BY <1>4, <1>5, <1>10 DEF ConnectionsOK
    <2>2. ASSUME NEW fd \in DOMAIN D
          PROVE  D[fd].who \in Client /\ ServedOK(D[fd].who, K[D[fd].who], D[fd])
      <3>1. CASE fd \in new
        <4>1. at(fd) \in 1..Len(B) /\ D[fd] = NewConnection(B[at(fd)]) /\ D[fd].who = B[at(fd)]
          BY <1>11, <3>1
        <4>2. B[at(fd)] \in Client
          BY <1>7, <4>1
        <4> QED BY <1>10, <4>1, <4>2 DEF BacklogOK
      <3>2. CASE fd \notin new
        BY <1>5, <1>10, <1>12, <3>2 DEF ConnectionsOK
      <3> QED BY <3>1, <3>2
    <2>3. ASSUME NEW a \in DOMAIN D, NEW b \in DOMAIN D, D[a].who = D[b].who PROVE a = b
      <3>1. CASE a \in new /\ b \in new
        <4>1. at(a) = at(b)
          BY <1>10, <1>11, <2>3, <3>1 DEF BacklogOK
        <4> QED BY <1>3, <3>1, <4>1
      <3>2. CASE a \in new /\ b \notin new
        <4>1. b \in DOMAIN C /\ D[b] = C[b] /\ at(a) \in 1..Len(B) /\ D[a].who = B[at(a)]
          BY <1>5, <1>11, <1>12, <3>2
        <4> QED BY <1>10, <2>3, <4>1 DEF BacklogOK
      <3>3. CASE a \notin new /\ b \in new
        <4>1. a \in DOMAIN C /\ D[a] = C[a] /\ at(b) \in 1..Len(B) /\ D[b].who = B[at(b)]
          BY <1>5, <1>11, <1>12, <3>3
        <4> QED BY <1>10, <2>3, <4>1 DEF BacklogOK
      <3>4. CASE a \notin new /\ b \notin new
        <4>1. a \in DOMAIN C /\ D[a] = C[a] /\ b \in DOMAIN C /\ D[b] = C[b]
          BY <1>5, <1>12, <3>4
        <4> QED BY <1>10, <2>3, <4>1 DEF ConnectionsOK
      <3> QED BY <3>1, <3>2, <3>3, <3>4
    <2> QED BY <2>1, <2>2, <2>3 DEF ConnectionsOK
  <1>14. HandlersOK(D, G)
    <2>1. DOMAIN G = DOMAIN H \cup new
      BY <1>6 DEF add_readable
    <2>2. \A fd \in new : fd \notin DOMAIN H /\ fd # Listen
      BY <1>4, <1>10, NetworkAssumption DEF HandlersOK
    <2>3. \A fd \in new : G[fd] = {"in"}
      BY <1>6, <2>2 DEF add_readable, Lookup
    <2>4. \A fd \in DOMAIN H : fd \notin new /\ G[fd] = H[fd]
      BY <1>6, <2>2 DEF add_readable
    <2>5. DOMAIN G \ {Listen} = DOMAIN D
      BY <1>5, <1>10, <2>1, <2>2 DEF HandlersOK
    <2>6. ASSUME NEW fd \in DOMAIN G PROVE G[fd] \subseteq {"in", "out"} /\ "in" \in G[fd]
      BY <1>10, <2>1, <2>3, <2>4 DEF HandlersOK
    <2>7. ASSUME NEW fd \in DOMAIN D, has_pending_writes(D[fd]) PROVE "out" \in G[fd]
      <3>1. fd \in DOMAIN C /\ D[fd] = C[fd]
        BY <1>5, <1>11, <1>12, <2>7
      <3>2. fd \in DOMAIN H
        BY <1>10, <3>1 DEF HandlersOK
      <3> QED BY <1>10, <2>4, <2>7, <3>1, <3>2 DEF HandlersOK
    <2> QED BY <2>5, <2>6, <2>7 DEF HandlersOK
  <1>15. BacklogOK(K, D, A)
    <2>1. \A i \in 1..Len(A) : ServedOK(A[i], K[A[i]], NewConnection(A[i]))
      BY <1>9, <1>10 DEF BacklogOK
    <2>2. ASSUME NEW i \in 1..Len(A), NEW j \in 1..Len(A), A[i] = A[j] PROVE i = j
      <3>1. n + i = n + j
        BY <1>9, <1>10, <2>2 DEF BacklogOK
      <3> QED BY <1>7, <1>9, <3>1
    <2>3. ASSUME NEW i \in 1..Len(A), NEW fd \in DOMAIN D PROVE D[fd].who # A[i]
      <3>1. A[i] = B[n + i] /\ n + i \in 1..Len(B) /\ n + i \notin 1..n
        BY <1>9
      <3>2. CASE fd \in new
        <4>1. D[fd].who = B[at(fd)] /\ at(fd) \in 1..Len(B) /\ at(fd) \in 1..n
          BY <1>11, <3>2
        <4> QED BY <1>10, <3>1, <4>1 DEF BacklogOK
      <3>3. CASE fd \notin new
        BY <1>5, <1>10, <1>12, <3>1, <3>3 DEF BacklogOK
      <3> QED BY <3>2, <3>3
    <2> QED BY <1>9, <2>1, <2>2, <2>3 DEF BacklogOK
  <1> QED BY <1>10, <1>13, <1>14, <1>15 DEF StateOK, K, D, G, A

-----------------------------------------------------------------------------
(***************************************************************************)
(* Every step preserves the invariant.                                     *)
(***************************************************************************)
IInv ==
  /\ StateOK(sock, clients, handlers, backlog)
  /\ DOMAIN ready \subseteq Fd \cup {Listen}
  /\ phase \in {"running", "stopping", "stopped"}

LEMMA InitIInv == Init => IInv
  <1> SUFFICES ASSUME Init PROVE IInv
    OBVIOUS
  <1> DEFINE E == << >>
  <1>1. E \in Seq(Piece) /\ Len(E) = 0
    OBVIOUS
  <1>2. \A c \in Client : sock[c] = [link |-> "none", sent |-> 0, inq |-> E, outq |-> E, got |-> E]
    BY DEF Init
  <1>3. sock = [c \in Client |-> sock[c]] /\ backlog = E /\ DOMAIN clients = {}
        /\ DOMAIN handlers = {Listen} /\ handlers[Listen] = {"in"} /\ DOMAIN ready = {}
        /\ phase = "running"
    BY DEF Init, EmptyMap
  <1>4. backlog \in Seq(Client) /\ Len(backlog) = 0
    BY <1>3
  <1>5. \A c \in Client : SockOK(c, sock[c])
    <2> SUFFICES ASSUME NEW c \in Client PROVE SockOK(c, sock[c])
      OBVIOUS
    <2> DEFINE k == sock[c]
    <2>1. k = [link |-> "none", sent |-> 0, inq |-> E, outq |-> E, got |-> E]
      BY <1>2
    <2>2. 0 <= Len(Script[c]) /\ 0 <= SendRoom
      BY StreamType, NetworkAssumption
    <2> HIDE DEF k, E
    <2>3. k \in Sock /\ k.sent = 0 /\ k.inq = E /\ k.outq = E /\ k.got = E
      BY <1>1, <2>1 DEF Sock
    <2>4. k.sent <= Len(Script[c]) /\ Len(k.outq) <= SendRoom
      BY <1>1, <2>2, <2>3
    <2> QED BY <2>3, <2>4 DEF SockOK, k, E
  <1> HIDE DEF E
  <1>6. SocksOK(sock)
    <2>1. \A c \in Client : sock[c] \in Sock
      BY <1>5 DEF SockOK
    <2> QED BY <1>3, <1>5, <2>1 DEF SocksOK
  <1>7. ConnectionsOK(sock, clients) /\ BacklogOK(sock, clients, backlog)
    BY <1>3, <1>4 DEF ConnectionsOK, BacklogOK
  <1>8. HandlersOK(clients, handlers)
    BY <1>3 DEF HandlersOK
  <1> QED BY <1>3, <1>6, <1>7, <1>8 DEF IInv, StateOK

\* The client acts on its socket, and the server looks on.
LEMMA ClientStep ==
  ASSUME IInv, NEW c \in Client, NEW k, Moves(c, sock[c], k),
         sock' = [sock EXCEPT ![c] = k], UNCHANGED <<backlog, server>>
  PROVE  IInv'
  <1>1. StateOK([sock EXCEPT ![c] = k], clients, handlers, backlog)
    BY MoveOK DEF IInv
  <1> QED BY <1>1 DEF IInv, server

LEMMA SocketType ==
  ASSUME IInv, NEW c \in Client
  PROVE  SockOK(c, sock[c]) /\ sock \in [Client -> Sock]
  BY DEF IInv, StateOK, SocksOK

LEMMA ConnectStep ==
  ASSUME IInv, NEW c \in Client, Connect(c)
  PROVE  IInv'
  <1> DEFINE k == [sock[c] EXCEPT !.link = "open"]
             L == [sock EXCEPT ![c] = k]
             A == Append(backlog, c)
  <1>1. SockOK(c, sock[c]) /\ sock \in [Client -> Sock] /\ sock[c].link = "none"
    BY SocketType DEF Connect
  <1>2. SockOK(c, k) /\ ServedOK(c, k, NewConnection(c))
    BY <1>1, NewServes
  <1>3. sock' = L /\ backlog' = A /\ UNCHANGED server
    BY <1>1 DEF Connect
  <1>4. SocksOK(L) /\ L[c] = k /\ \A x \in Client \ {c} : L[x] = sock[x]
    BY <1>2, SetSock DEF IInv, StateOK
  <1> HIDE DEF L, k
  <1>5. \A fd \in DOMAIN clients : clients[fd].who # c /\ clients[fd].who \in Client
    BY <1>1 DEF IInv, StateOK, ConnectionsOK, ServedOK
  <1>6. backlog \in Seq(Client) /\ \A i \in 1..Len(backlog) : backlog[i] # c /\ backlog[i] \in Client
    BY <1>1 DEF IInv, StateOK, BacklogOK, ServedOK
  <1>7. /\ A \in Seq(Client) /\ Len(A) = Len(backlog) + 1 /\ Len(backlog) \in Nat
        /\ A[Len(backlog) + 1] = c /\ \A i \in 1..Len(backlog) : A[i] = backlog[i]
    BY <1>6
  <1> HIDE DEF A
  <1>8. \A i \in 1..Len(A) : i \in 1..Len(backlog) \/ i = Len(backlog) + 1
    BY <1>7
  <1>9. ConnectionsOK(L, clients)
    BY <1>4, <1>5 DEF IInv, StateOK, ConnectionsOK
  <1>10. BacklogOK(L, clients, A)
    <2>1. \A i \in 1..Len(A) : ServedOK(A[i], L[A[i]], NewConnection(A[i]))
      <3> SUFFICES ASSUME NEW i \in 1..Len(A) PROVE ServedOK(A[i], L[A[i]], NewConnection(A[i]))
        OBVIOUS
      <3>1. CASE i \in 1..Len(backlog)
        <4>1. A[i] = backlog[i] /\ L[backlog[i]] = sock[backlog[i]]
          BY <1>4, <1>6, <1>7, <3>1
        <4> QED BY <3>1, <4>1 DEF IInv, StateOK, BacklogOK
      <3>2. CASE i = Len(backlog) + 1
        BY <1>2, <1>4, <1>7, <3>2
      <3> QED BY <1>8, <3>1, <3>2
    <2>2. \A i, j \in 1..Len(A) : A[i] = A[j] => i = j
      BY <1>6, <1>7, <1>8 DEF IInv, StateOK, BacklogOK
    <2>3. \A i \in 1..Len(A) : \A fd \in DOMAIN clients : clients[fd].who # A[i]
      BY <1>5, <1>7, <1>8 DEF IInv, StateOK, BacklogOK
    <2> QED BY <1>7, <2>1, <2>2, <2>3 DEF BacklogOK
  <1> QED BY <1>3, <1>4, <1>9, <1>10 DEF IInv, StateOK, server

LEMMA SendStep ==
  ASSUME IInv, NEW c \in Client, Send(c)
  PROVE  IInv'
  <1> DEFINE k == sock[c]
             z == [k EXCEPT !.sent = @ + 1, !.inq = Append(@, Stream(c)[k.sent + 1])]
  <1>1. /\ SockOK(c, k) /\ sock \in [Client -> Sock] /\ k.link = "open"
        /\ k.sent < Len(Script[c])
    BY SocketType DEF Send
  <1>2. Moves(c, k, z)
    BY <1>1, SendMoves
  <1>3. sock' = [sock EXCEPT ![c] = z] /\ UNCHANGED <<backlog, server>>
    BY <1>1 DEF Send
  <1> HIDE DEF z
  <1> QED BY <1>2, <1>3, ClientStep

LEMMA ShutStep ==
  ASSUME IInv, NEW c \in Client, Shut(c)
  PROVE  IInv'
  <1> DEFINE z == [sock[c] EXCEPT !.link = "shut"]
  <1>1. SockOK(c, sock[c]) /\ sock \in [Client -> Sock] /\ sock[c].link = "open"
    BY SocketType DEF Shut
  <1>2. Moves(c, sock[c], z)
    BY <1>1, ShutMoves
  <1>3. sock' = [sock EXCEPT ![c] = z] /\ UNCHANGED <<backlog, server>>
    BY <1>1 DEF Shut
  <1> HIDE DEF z
  <1> QED BY <1>2, <1>3, ClientStep

LEMMA ResetStep ==
  ASSUME IInv, NEW c \in Client, Reset(c)
  PROVE  IInv'
  <1> DEFINE z == [sock[c] EXCEPT !.link = "reset", !.inq = << >>, !.outq = << >>]
  <1>1. SockOK(c, sock[c]) /\ sock \in [Client -> Sock] /\ sock[c].link \in {"open", "shut"}
    BY SocketType DEF Reset
  <1>2. Moves(c, sock[c], z)
    BY <1>1, ResetMoves
  <1>3. sock' = [sock EXCEPT ![c] = z] /\ UNCHANGED <<backlog, server>>
    BY <1>1 DEF Reset
  <1> HIDE DEF z
  <1> QED BY <1>2, <1>3, ClientStep

LEMMA ReceiveStep ==
  ASSUME IInv, NEW c \in Client, Receive(c)
  PROVE  IInv'
  <1> DEFINE k == sock[c]
             z == [k EXCEPT !.outq = Tail(@), !.got = Append(@, Head(k.outq))]
  <1>1. SockOK(c, k) /\ sock \in [Client -> Sock] /\ k.outq # << >>
    BY SocketType DEF Receive
  <1>2. Moves(c, k, z)
    BY <1>1, ReceiveMoves
  <1>3. sock' = [sock EXCEPT ![c] = z] /\ UNCHANGED <<backlog, server>>
    BY <1>1 DEF Receive
  <1> HIDE DEF z
  <1> QED BY <1>2, <1>3, ClientStep

LEMMA EpollWaitStep ==
  ASSUME IInv, EpollWait
  PROVE  IInv'
  <1>1. DOMAIN ready' \subseteq DOMAIN handlers
    BY DEF EpollWait
  <1>2. DOMAIN handlers \subseteq Fd \cup {Listen}
    BY DEF IInv, StateOK, HandlersOK, ConnectionsOK
  <1> QED BY <1>1, <1>2 DEF IInv, EpollWait

LEMMA ServeListenStep ==
  ASSUME IInv, ServeListen
  PROVE  IInv'
  <1>1. PICK n \in 0..Len(backlog) : Accept(n)
    BY DEF ServeListen, on_new_connection
  <1>2. StateOK(sock, clients', handlers', backlog')
    BY <1>1, AcceptOK DEF IInv
  <1>3. DOMAIN ready' \subseteq DOMAIN ready
    BY DEF ServeListen, Takes, Erase
  <1> QED BY <1>2, <1>3 DEF IInv, ServeListen

LEMMA ServeStep ==
  ASSUME IInv, NEW fd \in Fd, Serve(fd)
  PROVE  IInv'
  <1> DEFINE s == [sock |-> sock, clients |-> clients, handlers |-> handlers]
             m == ready[fd]
             r == IF fd \in DOMAIN handlers /\ m \cap {"in", "err"} # {}
                  THEN on_client_readable(s, fd) ELSE s
             w == IF "err" \notin m /\ "out" \in m
                       /\ fd \in DOMAIN r.handlers /\ "out" \in r.handlers[fd]
                  THEN on_client_writable(r, fd) ELSE r
  <1>1. RecordOK(s, backlog)
    BY DEF IInv, RecordOK, IsState
  <1>2. /\ sock' = w.sock /\ clients' = w.clients /\ handlers' = w.handlers
        /\ backlog' = backlog /\ phase' = phase /\ Takes(fd)
    BY DEF Serve
  <1> HIDE DEF s
  <1>3. RecordOK(r, backlog)
    BY <1>1, ReadableOK
  <1> HIDE DEF r
  <1>4. RecordOK(w, backlog)
    BY <1>3, WritableOK
  <1> HIDE DEF w
  <1>5. DOMAIN ready' \subseteq DOMAIN ready
    BY <1>2 DEF Takes, Erase
  <1> QED BY <1>2, <1>4, <1>5 DEF IInv, RecordOK

LEMMA StopServerStep ==
  ASSUME IInv, StopServer
  PROVE  IInv'
  <1>1. /\ sock' = [c \in Client |-> IF \E fd \in DOMAIN clients : clients[fd].who = c
                                     THEN Hangup(sock[c]) ELSE sock[c]]
        /\ DOMAIN clients' = {} /\ DOMAIN handlers' = {} /\ backlog' = backlog
        /\ ready' = ready /\ phase' = "stopped"
    BY DEF StopServer, EmptyMap
  <1>2. \A c \in Client : sock'[c] \in {sock[c], Hangup(sock[c])}
    BY <1>1
  <1>3. \A c \in Client : SockOK(c, sock'[c])
    BY <1>2, SocketType, HangupOK
  <1>4. SocksOK(sock')
    <2>1. \A c \in Client : sock'[c] \in Sock
      BY <1>3 DEF SockOK
    <2>2. sock' = [c \in Client |-> sock'[c]]
      BY <1>1
    <2> QED BY <1>3, <2>1, <2>2 DEF SocksOK
  <1>5. ConnectionsOK(sock', clients') /\ HandlersOK(clients', handlers')
    BY <1>1 DEF ConnectionsOK, HandlersOK
  <1>6. BacklogOK(sock', clients', backlog')
    <2>1. backlog \in Seq(Client)
      BY DEF IInv, StateOK, BacklogOK
    <2>2. ASSUME NEW i \in 1..Len(backlog) PROVE sock'[backlog[i]] = sock[backlog[i]]
      <3>1. backlog[i] \in Client
        BY <2>1
      <3> QED BY <1>1, <3>1 DEF IInv, StateOK, BacklogOK
    <2> QED BY <1>1, <2>2 DEF IInv, StateOK, BacklogOK
  <1> QED BY <1>1, <1>4, <1>5, <1>6 DEF IInv, StateOK

LEMMA IInvStep == IInv /\ [Next]_vars => IInv'
  <1> SUFFICES ASSUME IInv, [Next]_vars PROVE IInv'
    OBVIOUS
  <1>1. ASSUME NEW c \in Client, Connect(c) PROVE IInv'
    BY <1>1, ConnectStep
  <1>2. ASSUME NEW c \in Client, Send(c) PROVE IInv'
    BY <1>2, SendStep
  <1>3. ASSUME NEW c \in Client, Shut(c) PROVE IInv'
    BY <1>3, ShutStep
  <1>4. ASSUME NEW c \in Client, Reset(c) PROVE IInv'
    BY <1>4, ResetStep
  <1>5. ASSUME NEW c \in Client, Receive(c) PROVE IInv'
    BY <1>5, ReceiveStep
  <1>6. CASE EpollWait
    BY <1>6, EpollWaitStep
  <1>7. CASE ServeListen
    BY <1>7, ServeListenStep
  <1>8. ASSUME NEW fd \in Fd, Serve(fd) PROVE IInv'
    BY <1>8, ServeStep
  <1>9. CASE Stop
    BY <1>9 DEF Stop, IInv
  <1>10. CASE StopServer
    BY <1>10, StopServerStep
  <1>11. CASE UNCHANGED vars
    BY <1>11 DEF vars, IInv
  <1> QED BY <1>1, <1>2, <1>3, <1>4, <1>5, <1>6, <1>7, <1>8, <1>9, <1>10, <1>11 DEF Next

LEMMA Invariant == Spec => []IInv
  BY InitIInv, IInvStep, PTL DEF Spec

-----------------------------------------------------------------------------
(***************************************************************************)
(* Theorems.                                                               *)
(***************************************************************************)
\* The server keeps its state well formed: the buffers' cursors stay within
\* their buffers over reads, compactions, dispatches and flushes, and no flush
\* overfills the kernel's send buffer.
THEOREM NetworkTypeCorrect == Spec => []TypeOK
  <1>1. IInv => TypeOK
    <2> SUFFICES ASSUME IInv PROVE TypeOK
      OBVIOUS
    <2>1. ASSUME NEW c \in Client
          PROVE  /\ sock[c].link \in {"none", "open", "shut", "reset", "closed"}
                 /\ sock[c].sent \in 0..Len(Script[c])
                 /\ {sock[c].inq, sock[c].outq, sock[c].got} \subseteq Seq(Piece)
                 /\ Len(sock[c].outq) <= SendRoom
      <3>1. SockOK(c, sock[c])
        BY SocketType
      <3>2. sock[c].link \in {"none", "open", "shut", "reset", "closed"}
        BY <3>1 DEF SockOK, Sock
      <3> QED BY <3>1, <3>2, SockType
    <2>2. backlog \in Seq(Client) /\ DOMAIN clients \subseteq Fd
      BY DEF IInv, StateOK, BacklogOK, ConnectionsOK
    <2>3. ASSUME NEW fd \in DOMAIN clients PROVE ConnType(clients[fd])
      BY DEF IInv, StateOK, ConnectionsOK, ServedOK
    <2>4. \A fd \in DOMAIN handlers : handlers[fd] \subseteq {"in", "out"}
      BY DEF IInv, StateOK, HandlersOK
    <2> QED BY <2>1, <2>2, <2>3, <2>4 DEF TypeOK, IInv, ConnType
  <1> QED BY <1>1, Invariant, PTL

\* TcpServer::clients_ and EventLoop::handlers_ name the same descriptors
\* after every callback, no client has two connections, and a connection that
\* a callback closed is in neither.
THEOREM HandlersMatchClients == Spec => []RegisteredIsConnected
  <1>1. IInv => RegisteredIsConnected
    BY DEF IInv, StateOK, HandlersOK, ConnectionsOK, ServedOK, RegisteredIsConnected
  <1> QED BY <1>1, Invariant, PTL

\* on_client_readable and on_client_writable leave EPOLLOUT asked for as long
\* as replies wait in a write buffer.
THEOREM WritesAreAskedFor == Spec => []PendingAsksForWritable
  <1>1. IInv => PendingAsksForWritable
    BY DEF IInv, StateOK, HandlersOK, PendingAsksForWritable
  <1> QED BY <1>1, Invariant, PTL

\* What is in the buffer and in the queue is a part of the stream.
LEMMA InStreamPart ==
  ASSUME NEW c \in Client, NEW v \in Seq(Piece), NEW q \in Seq(Piece),
         NEW sent \in 0..Len(Script[c]), InStream(c, v, q, sent)
  PROVE  LET u == v \o q
             i == sent - Len(u)
         IN  /\ u = SubSeq(Stream(c), i + 1, sent)
             /\ i = 0 \/ Completes(Stream(c)[i])
             /\ i = sent - Len(v) - Len(q) /\ i \in 0..Len(Script[c])
  <1> DEFINE u == v \o q
             i == Place(v, q, sent)
             p == SubSeq(Stream(c), i + 1, sent)
  <1>1. /\ Stream(c) \in Seq(Piece) /\ Len(Stream(c)) = Len(Script[c])
        /\ Len(Script[c]) \in Nat /\ sent \in Nat
    BY StreamType
  <1>2. /\ InStream(c, u, << >>, sent) /\ Place(u, << >>, sent) = i /\ i \in Nat /\ i <= sent
    BY <1>1, ReadInStream
  <1>3. u \in Seq(Piece) /\ Len(u) \in Nat /\ Len(u) = Len(v) + Len(q)
        /\ Len(v) \in Nat /\ Len(q) \in Nat
    BY ConcatType, LenType
  <1> HIDE DEF u
  <1>4. i = sent - Len(u) /\ i = sent - Len(v) - Len(q) /\ i \in 0..Len(Script[c])
    BY <1>1, <1>2, <1>3 DEF Place
  <1>5. /\ i = 0 \/ Completes(Stream(c)[i])
        /\ \A x \in 1..Len(u) : u[x] = Stream(c)[i + x]
    BY <1>2 DEF InStream
  <1> HIDE DEF i
  <1>6. i \in 0..Len(Stream(c)) /\ sent \in i..Len(Stream(c)) /\ sent - i = Len(u)
    BY <1>1, <1>2, <1>3, <1>4
  <1>7. /\ p \in Seq(Piece) /\ Len(p) = sent - i
        /\ \A x \in 1..sent - i : p[x] = Stream(c)[i + x]
    BY <1>1, <1>6, Parts
  <1> HIDE DEF p
  <1>8. u = p
    BY <1>3, <1>5, <1>6, <1>7, SeqEqual
  <1> QED BY <1>4, <1>5, <1>8 DEF p, u

\* fill_read_buffer, compact_read_buffer and consume lose nothing that a
\* client sent, repeat nothing and leave no command half consumed, however the
\* reads split the stream.
THEOREM EveryPieceIsRead == Spec => []NothingSkipped
  <1>1. IInv => NothingSkipped
    <2> SUFFICES ASSUME IInv, NEW fd \in DOMAIN clients,
                        sock[clients[fd].who].link # "reset"
                 PROVE  LET c == clients[fd].who
                            u == read_view(clients[fd]) \o sock[c].inq
                            i == sock[c].sent - Len(u)
                        IN  /\ u = SubSeq(Stream(c), i + 1, sock[c].sent)
                            /\ i = 0 \/ Completes(Stream(c)[i])
      BY DEF NothingSkipped
    <2> DEFINE n == clients[fd]
               c == n.who
               k == sock[c]
    <2>1. c \in Client /\ SockOK(c, k) /\ ConnType(n) /\ UpToDate(c, k, n)
      BY DEF IInv, StateOK, ConnectionsOK, ServedOK, SocksOK
    <2>2. /\ read_view(n) \in Seq(Piece) /\ k.inq \in Seq(Piece) /\ k.sent \in 0..Len(Script[c])
          /\ InStream(c, read_view(n), k.inq, k.sent)
      BY <2>1, ViewType, SockType DEF UpToDate
    <2> HIDE DEF c, k, n
    <2>3. LET u == read_view(n) \o k.inq
              i == k.sent - Len(u)
          IN  /\ u = SubSeq(Stream(c), i + 1, k.sent)
              /\ i = 0 \/ Completes(Stream(c)[i])
      BY <2>1, <2>2, InStreamPart
    <2> QED BY <2>3 DEF c, k, n
  <1> QED BY <1>1, Invariant, PTL

\* Every command that dispatch consumed has one reply, in the order of the
\* commands, over partial writes and flushes of both callbacks; after the
\* replies there is only a repeated protocol error.
THEOREM RepliesKeepOrder == Spec => []RepliesInOrder
  <1>1. IInv => RepliesInOrder
    <2> SUFFICES ASSUME IInv, NEW fd \in DOMAIN clients,
                        sock[clients[fd].who].link # "reset"
                 PROVE  LET n == clients[fd]
                            c == n.who
                            a == AnswersTo(c, sock[c].sent - Len(read_view(n)) - Len(sock[c].inq))
                            r == sock[c].got \o sock[c].outq \o Unsent(n)
                        IN  /\ Len(r) >= Len(a) /\ SubSeq(r, 1, Len(a)) = a
                            /\ \A i \in Len(a) + 1..Len(r) : r[i].kind = "junk"
      BY DEF RepliesInOrder
    <2> DEFINE n == clients[fd]
               c == n.who
               k == sock[c]
               i == Place(read_view(n), k.inq, k.sent)
               a == AnswersTo(c, i)
               r == Sent(k, n)
    <2>1. c \in Client /\ SockOK(c, k) /\ ConnType(n) /\ UpToDate(c, k, n)
      BY DEF IInv, StateOK, ConnectionsOK, ServedOK, SocksOK
    <2>2. /\ read_view(n) \in Seq(Piece) /\ k.inq \in Seq(Piece) /\ k.sent \in 0..Len(Script[c])
          /\ InStream(c, read_view(n), k.inq, k.sent)
          /\ Answered(c, read_view(n), i, r)
      BY <2>1, ViewType, SockType DEF UpToDate
    <2>3. /\ r = sock[c].got \o sock[c].outq \o Unsent(n)
          /\ i = sock[c].sent - Len(read_view(n)) - Len(sock[c].inq)
      BY DEF Sent, Place
    <2> HIDE DEF k, n, c
    <2>4. i \in 0..Len(Script[c])
      BY <2>1, <2>2, InStreamPart DEF Place
    <2> HIDE DEF i
    <2>5. a \in Seq(Piece)
      BY <2>1, <2>4, AnswersToType
    <2>6. PICK e \in Seq(Piece) : r = a \o e /\ \A x \in 1..Len(e) : e[x].kind = "junk"
      BY <2>2 DEF Answered
    <2> HIDE DEF a, r
    <2>7. /\ r \in Seq(Piece) /\ Len(r) = Len(a) + Len(e) /\ Len(a) \in Nat /\ Len(e) \in Nat
          /\ \A x \in 1..Len(a) : r[x] = a[x]
          /\ \A x \in 1..Len(e) : r[Len(a) + x] = e[x]
      BY <2>5, <2>6, ConcatType, LenType
    <2>8. Len(r) >= Len(a)
      BY <2>7
    <2>9. SubSeq(r, 1, Len(a)) = a
      <3> DEFINE b == SubSeq(r, 1, Len(a))
      <3>1. b \in Seq(Piece) /\ Len(b) = Len(a) /\ \A x \in 1..Len(a) : b[x] = r[x]
        BY <2>7
      <3> HIDE DEF b
      <3>2. b = a
        BY <2>5, <2>7, <3>1, SeqEqual
      <3> QED BY <3>2 DEF b
    <2>10. ASSUME NEW x \in Len(a) + 1..Len(r) PROVE r[x].kind = "junk"
      <3> DEFINE y == x - Len(a)
      <3>1. y \in 1..Len(e) /\ x = Len(a) + y
        BY <2>7
      <3> HIDE DEF y
      <3> QED BY <2>6, <2>7, <3>1
    <2> QED BY <2>3, <2>8, <2>9, <2>10 DEF a, c, n
  <1> QED BY <1>1, Invariant, PTL
=============================================================================
