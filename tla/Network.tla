------------------------------- MODULE Network ------------------------------
(***************************************************************************)
(* The network side of the server: EventLoop, TcpServer, Connection        *)
(* (src/src/net) and the pipeline loop of CommandRegistry::dispatch.       *)
(*                                                                         *)
(* What a client sends is a sequence of pieces, each with its number and   *)
(* its kind: "half" is the beginning of a command whose rest is the next   *)
(* piece, "cmd" completes a command that runs, "bad" one that dispatch     *)
(* refuses (no array, unknown name, wrong arity), "quit" is QUIT and       *)
(* "junk" cannot be parsed.  The reply to a command is named by the piece  *)
(* that completed it.                                                      *)
(*                                                                         *)
(* A callback runs to its end before the next one, so it is one step; the  *)
(* clients and the kernel act between any two, in particular between       *)
(* epoll_wait and the callbacks for what it reported.                      *)
(***************************************************************************)
EXTENDS Integers, Sequences, FiniteSets, FiniteMaps, Functions

CONSTANTS Client,    \* each connects at most once
          Script,    \* for each client, the kinds of the pieces it will send
          Fd,        \* the file descriptors that accept4 may return
          Listen,    \* the descriptor of the listening socket
          SendRoom   \* replies that the kernel's send buffer holds

Kind == {"half", "cmd", "bad", "quit", "junk"}

ASSUME NetworkAssumption ==
  /\ Listen \notin Fd
  /\ SendRoom \in Nat \ {0}
  /\ Script \in [Client -> Seq(Kind)]

VARIABLES sock,      \* the kernel's side of each client's connection
          backlog,   \* connections that have not been accepted, in order
          clients,   \* clients_: from a descriptor to its Connection
          handlers,  \* handlers_: from a descriptor to the events asked for
          ready,     \* what epoll_wait reported and the loop has yet to serve
          phase      \* "running"; "stopping" after stop(); "stopped"

vars == <<sock, backlog, clients, handlers, ready, phase>>

Piece == [no : Nat, kind : Kind]

Stream(c) == [i \in 1..Len(Script[c]) |-> [no |-> i, kind |-> Script[c][i]]]

Completes(p) == p.kind # "half"

Init ==
  /\ sock = [c \in Client |-> [link |-> "none",  \* none, open, shut, reset, closed
                               sent |-> 0,       \* pieces sent
                               inq |-> << >>,    \* received, not read
                               outq |-> << >>,   \* written, not delivered
                               got |-> << >>]]   \* replies delivered
  /\ backlog = << >>
  /\ clients = EmptyMap
  /\ handlers = [fd \in {Listen} |-> {"in"}]
  /\ ready = EmptyMap
  /\ phase = "running"

-----------------------------------------------------------------------------
(***************************************************************************)
(* The client's end.                                                       *)
(***************************************************************************)
server == <<clients, handlers, ready, phase>>

Connect(c) ==
  /\ sock[c].link = "none" /\ Listen \in DOMAIN handlers
  /\ sock' = [sock EXCEPT ![c].link = "open"]
  /\ backlog' = Append(backlog, c)
  /\ UNCHANGED server

Send(c) ==
  /\ sock[c].link = "open" /\ sock[c].sent < Len(Script[c])
  /\ sock' = [sock EXCEPT ![c].sent = @ + 1,
                          ![c].inq = Append(@, Stream(c)[sock[c].sent + 1])]
  /\ UNCHANGED <<backlog, server>>

\* The client sends a FIN; it may still be reading.
Shut(c) ==
  /\ sock[c].link = "open"
  /\ sock' = [sock EXCEPT ![c].link = "shut"]
  /\ UNCHANGED <<backlog, server>>

\* The client goes away; what is under way is lost.
Reset(c) ==
  /\ sock[c].link \in {"open", "shut"}
  /\ sock' = [sock EXCEPT ![c].link = "reset", ![c].inq = << >>, ![c].outq = << >>]
  /\ UNCHANGED <<backlog, server>>

Receive(c) ==
  /\ sock[c].outq # << >>
  /\ sock' = [sock EXCEPT ![c].outq = Tail(@), ![c].got = Append(@, Head(sock[c].outq))]
  /\ UNCHANGED <<backlog, server>>

-----------------------------------------------------------------------------
(***************************************************************************)
(* Connection.                                                             *)
(***************************************************************************)
NewConnection(c) ==
  [who |-> c, state |-> "Connected",
   read_buf |-> << >>, read_pos |-> 0, write_buf |-> << >>, write_pos |-> 0]

read_view(n) == SubSeq(n.read_buf, n.read_pos + 1, Len(n.read_buf))

Unsent(n) == SubSeq(n.write_buf, n.write_pos + 1, Len(n.write_buf))

has_pending_writes(n) == n.write_pos < Len(n.write_buf)

\* Mutant: the cursor is left where it was.
compact_read_buffer_KeepsCursor(n) == [n EXCEPT !.read_buf = read_view(n)]

compact_read_buffer(n) == [n EXCEPT !.read_buf = read_view(n), !.read_pos = 0]

\* fill_read_buffer of n on the socket k: the connection it leaves, and the
\* result.  An end of file or an error counts for more than what was read
\* before it, and finding nothing to read gives 0 as well.
fill_read_buffer(n, k) ==
  LET m == IF n.read_pos > Len(n.read_buf) \div 2 THEN compact_read_buffer(n) ELSE n
      r == [m EXCEPT !.read_buf = @ \o k.inq]
  IN  CASE k.link = "shut"  -> [conn |-> [r EXCEPT !.state = "Closed"], result |-> 0]
        [] k.link = "reset" -> [conn |-> [r EXCEPT !.state = "Closed"], result |-> -1]
        [] OTHER            -> [conn |-> r, result |-> Len(k.inq)]

\* Mutant: the buffer is cleared though part of it has not been sent.
flush_write_buffer_Clears(n, k) ==
  LET sends == SubSeq(Unsent(n), 1, SendRoom - Len(k.outq))
  IN  [conn |-> [n EXCEPT !.write_buf = << >>, !.write_pos = 0],
       outq |-> k.outq \o sends]

\* flush_write_buffer: as much as the kernel takes, and the connection is
\* closed if it takes nothing any more.
flush_write_buffer(n, k) ==
  LET room  == SendRoom - Len(k.outq)
      sends == IF Len(Unsent(n)) < room THEN Len(Unsent(n)) ELSE room
  IN  IF has_pending_writes(n) /\ k.link = "reset"
      THEN [conn |-> [n EXCEPT !.state = "Closed"], outq |-> k.outq]
      ELSE [conn |-> IF sends = Len(Unsent(n))
                     THEN [n EXCEPT !.write_buf = << >>, !.write_pos = 0]
                     ELSE [n EXCEPT !.write_pos = @ + sends],
            outq |-> k.outq \o SubSeq(Unsent(n), 1, sends)]

-----------------------------------------------------------------------------
(***************************************************************************)
(* CommandRegistry::dispatch.                                              *)
(***************************************************************************)
\* Where the first piece of v that cannot be parsed is, or the end of v.
FirstJunk(v) ==
  CHOOSE i \in 1..Len(v) + 1 :
    /\ i = Len(v) + 1 \/ v[i].kind = "junk"
    /\ \A j \in 1..i - 1 : v[j].kind # "junk"

\* Mutant: the beginning of a command goes with the commands before it.
Consumed_All(v, i) == i

\* The pieces of the complete commands among the first i of v: what follows
\* the last one that completes a command stays in the buffer.
Consumed(v, i) ==
  CHOOSE n \in 0..i :
    /\ n = 0 \/ Completes(v[n])
    /\ \A j \in n + 1..i : ~ Completes(v[j])

\* The replies to the commands that the pieces of v complete, in order.
Answers(v) ==
  LET upto[i \in 0..Len(v)] ==
        IF i = 0 THEN << >>
        ELSE IF Completes(v[i]) THEN Append(upto[i - 1], v[i]) ELSE upto[i - 1]
  IN  upto[Len(v)]

\* Mutant: one command for each read.
dispatch_NoPipeline(n) ==
  LET v == read_view(n)
      i == CHOOSE i \in 0..Len(v) : (i = 0 => \A j \in DOMAIN v : ~ Completes(v[j]))
                                    /\ (i > 0 => Completes(v[i]))
                                    /\ \A j \in 1..i - 1 : ~ Completes(v[j])
  IN  [n EXCEPT !.read_pos = @ + i,
                !.write_buf = @ \o (IF i = 0 THEN << >> ELSE <<v[i]>>)]

\* The pipeline loop: every complete command is consumed and answered, in
\* order.  A piece that cannot be parsed is answered with an error and stays in
\* the buffer.  QUIT and a protocol error make the connection WriteOnly, which
\* does not end the loop.
dispatch(n) ==
  LET v    == read_view(n)
      junk == FirstJunk(v)
      good == SubSeq(v, 1, junk - 1)
      ends == junk <= Len(v) \/ \E i \in DOMAIN good : good[i].kind = "quit"
  IN  [n EXCEPT !.read_pos = @ + Consumed(v, junk - 1),
                !.write_buf = @ \o Answers(good)
                                \o (IF junk <= Len(v) THEN <<v[junk]>> ELSE << >>),
                !.state = IF ends THEN "WriteOnly" ELSE @]

-----------------------------------------------------------------------------
(***************************************************************************)
(* EventLoop: what is registered.  Callbacks and the kernel's interest     *)
(* list change together, so the events asked for stand for both.           *)
(***************************************************************************)
add_readable(h, F) ==
  [fd \in DOMAIN h \cup F |-> IF fd \in F THEN Lookup(h, fd, {}) \cup {"in"} ELSE h[fd]]

add_writable(h, fd) == Write(h, fd, Lookup(h, fd, {}) \cup {"out"})

remove(h, fd) == Erase(h, fd)

remove_writable(h, fd) ==
  IF fd \notin DOMAIN h THEN h
  ELSE IF "in" \in h[fd] THEN Write(h, fd, {"in"})
  ELSE remove(h, fd)

-----------------------------------------------------------------------------
(***************************************************************************)
(* TcpServer: callbacks as functions of what they change.                  *)
(***************************************************************************)
Hangup(k) == IF k.link = "reset" THEN k ELSE [k EXCEPT !.link = "closed", !.inq = << >>]

\* Mutant: the descriptor stays registered.
close_connection_StaysRegistered(s, fd) ==
  [s EXCEPT !.sock[s.clients[fd].who] = Hangup(@), !.clients = Erase(@, fd)]

close_connection(s, fd) ==
  [s EXCEPT !.sock[s.clients[fd].who] = Hangup(@),
            !.clients = Erase(@, fd), !.handlers = remove(@, fd)]

\* Mutant: what the kernel did not take waits for the next command.
on_client_readable_NoWritable(s, fd) ==
  LET n == s.clients[fd]
      f == fill_read_buffer(n, s.sock[n.who])
      w == flush_write_buffer(dispatch(f.conn), s.sock[n.who])
  IN  IF f.result <= 0
      THEN close_connection(s, fd)
      ELSE [s EXCEPT !.clients[fd] = w.conn,
                     !.sock[n.who].inq = << >>, !.sock[n.who].outq = w.outq]

on_client_readable(s, fd) ==
  IF fd \notin DOMAIN s.clients THEN s
  ELSE
    LET n == s.clients[fd]
        k == s.sock[n.who]
        f == fill_read_buffer(n, k)
        d == dispatch(f.conn)
        w == IF has_pending_writes(d) THEN flush_write_buffer(d, k)
                                      ELSE [conn |-> d, outq |-> k.outq]
        t == [s EXCEPT !.clients[fd] = w.conn,
                       !.sock[n.who].inq = << >>,
                       !.sock[n.who].outq = w.outq,
                       !.handlers = IF has_pending_writes(w.conn)
                                    THEN add_writable(@, fd) ELSE @]
    IN  IF f.result <= 0           THEN close_connection(s, fd)
        ELSE IF w.conn.state = "Closed" THEN close_connection(t, fd)
        ELSE t

on_client_writable(s, fd) ==
  IF fd \notin DOMAIN s.clients THEN s
  ELSE
    LET n == s.clients[fd]
        w == flush_write_buffer(n, s.sock[n.who])
        t == [s EXCEPT !.clients[fd] = w.conn,
                       !.sock[n.who].outq = w.outq,
                       !.handlers = IF has_pending_writes(w.conn)
                                    THEN @ ELSE remove_writable(@, fd)]
    IN  IF w.conn.state = "Closed" THEN close_connection(t, fd) ELSE t

\* The first n of the backlog become connections on free descriptors.
Accept(n) ==
  \E f \in Injection(1..n, Fd \ DOMAIN clients) :
    LET new == {f[i] : i \in 1..n}
        of(fd) == backlog[CHOOSE i \in 1..n : f[i] = fd]
    IN  /\ backlog' = SubSeq(backlog, n + 1, Len(backlog))
        /\ clients' = [fd \in DOMAIN clients \cup new |->
                         IF fd \in new THEN NewConnection(of(fd)) ELSE clients[fd]]
        /\ handlers' = add_readable(handlers, new)

\* Mutant: an error of accept4 ends the listening.
on_new_connection_GivesUp ==
  \/ Accept(Len(backlog))
  \/ handlers' = remove(handlers, Listen) /\ UNCHANGED <<backlog, clients>>

\* accept4 until the backlog is empty or it fails, for want of a descriptor, of
\* memory or because the peer has gone: the error is logged, and what is left
\* of the backlog makes the listening socket ready again.
on_new_connection ==
  \E n \in 0..Len(backlog) : n <= Cardinality(Fd \ DOMAIN clients) /\ Accept(n)

-----------------------------------------------------------------------------
(***************************************************************************)
(* EventLoop::run.                                                         *)
(***************************************************************************)
\* The events that the kernel has for fd, of those asked for; an error is
\* reported in any case.
Pending(fd) ==
  IF fd = Listen THEN IF backlog # << >> THEN {"in"} ELSE {}
  ELSE LET k == sock[clients[fd].who]
       IN  IF k.link = "reset" THEN {"err"}
           ELSE handlers[fd] \cap
                  ( (IF k.inq # << >> \/ k.link = "shut" THEN {"in"} ELSE {})
                    \cup (IF Len(k.outq) < SendRoom THEN {"out"} ELSE {}) )

EpollWait ==
  /\ phase = "running" /\ ready = EmptyMap
  /\ \E fd \in DOMAIN handlers : Pending(fd) # {}
  /\ ready' = [fd \in {x \in DOMAIN handlers : Pending(x) # {}} |-> Pending(fd)]
  /\ UNCHANGED <<sock, backlog, clients, handlers, phase>>

\* The loop turns to the event of fd.
Takes(fd) == fd \in DOMAIN ready /\ ready' = Erase(ready, fd)

ServeListen ==
  /\ Takes(Listen)
  /\ on_new_connection
  /\ UNCHANGED <<sock, phase>>

\* The callbacks for one descriptor, each if it is registered at that moment.
Serve(fd) ==
  LET s == [sock |-> sock, clients |-> clients, handlers |-> handlers]
      m == ready[fd]
      r == IF fd \in DOMAIN handlers /\ m \cap {"in", "err"} # {}
           THEN on_client_readable(s, fd) ELSE s
      w == IF "err" \notin m /\ "out" \in m
                /\ fd \in DOMAIN r.handlers /\ "out" \in r.handlers[fd]
           THEN on_client_writable(r, fd) ELSE r
  IN  /\ Takes(fd)
      /\ sock' = w.sock /\ clients' = w.clients /\ handlers' = w.handlers
      /\ UNCHANGED <<backlog, phase>>

\* A callback, that of the signal pipe, calls EventLoop::stop: the events that
\* have been reported are still served.
Stop ==
  /\ phase = "running"
  /\ phase' = "stopping"
  /\ UNCHANGED <<sock, backlog, clients, handlers, ready>>

\* run has returned, and main calls TcpServer::stop.
StopServer ==
  /\ phase = "stopping" /\ ready = EmptyMap
  /\ phase' = "stopped"
  /\ sock' = [c \in Client |->
                IF \E fd \in DOMAIN clients : clients[fd].who = c
                THEN Hangup(sock[c]) ELSE sock[c]]
  /\ clients' = EmptyMap /\ handlers' = EmptyMap
  /\ UNCHANGED <<backlog, ready>>

Next ==
  \/ \E c \in Client : Connect(c) \/ Send(c) \/ Shut(c) \/ Reset(c) \/ Receive(c)
  \/ EpollWait
  \/ ServeListen
  \/ \E fd \in Fd : Serve(fd)
  \/ Stop
  \/ StopServer

Spec == Init /\ [][Next]_vars

\* accept4 succeeds for a connection that waits, when a descriptor is free.
AcceptsSome ==
  /\ Takes(Listen)
  /\ Fd \ DOMAIN clients # {}
  /\ \E n \in 1..Len(backlog) : backlog' = SubSeq(backlog, n + 1, Len(backlog))

\* The loop runs for as long as nobody stops it and serves all that epoll_wait
\* reported before it waits again; clients read their replies; accept4 does not
\* fail for ever.  A step Takes(fd) is a step ServeListen or Serve(fd), and is
\* enabled when that is.
FairSpec ==
  /\ Spec
  /\ WF_vars(EpollWait)
  /\ \A fd \in Fd \cup {Listen} : WF_ready(Takes(fd))
  /\ \A c \in Client : WF_vars(Receive(c))
  /\ SF_ready(AcceptsSome)

-----------------------------------------------------------------------------
(***************************************************************************)
(* Properties.                                                             *)
(***************************************************************************)
Connection ==
  [who : Client, state : {"Connected", "WriteOnly", "Closed"},
   read_buf : Seq(Piece), read_pos : Nat, write_buf : Seq(Piece), write_pos : Nat]

\* The variables have their types; the cursors are within their buffers, and
\* the kernel's send buffer within its size.
TypeOK ==
  /\ \A c \in Client :
       /\ sock[c].link \in {"none", "open", "shut", "reset", "closed"}
       /\ sock[c].sent \in 0..Len(Script[c])
       /\ {sock[c].inq, sock[c].outq, sock[c].got} \subseteq Seq(Piece)
       /\ Len(sock[c].outq) <= SendRoom
  /\ backlog \in Seq(Client)
  /\ DOMAIN clients \subseteq Fd
  /\ \A fd \in DOMAIN clients :
       /\ clients[fd] \in Connection
       /\ clients[fd].read_pos <= Len(clients[fd].read_buf)
       /\ clients[fd].write_pos <= Len(clients[fd].write_buf)
  /\ \A fd \in DOMAIN handlers : handlers[fd] \subseteq {"in", "out"}
  /\ DOMAIN ready \subseteq Fd \cup {Listen}
  /\ phase \in {"running", "stopping", "stopped"}

\* handlers_ and clients_ name the same descriptors, no client has two, and a
\* connection that a callback closed is gone when the callback returns: an
\* event is never served for a connection that is not there, and a descriptor
\* that is used again starts afresh.
RegisteredIsConnected ==
  /\ DOMAIN handlers \ {Listen} = DOMAIN clients
  /\ \A a, b \in DOMAIN clients : clients[a].who = clients[b].who => a = b
  /\ \A fd \in DOMAIN clients :
       clients[fd].state # "Closed" /\ sock[clients[fd].who].link \notin {"none", "closed"}

\* Replies that the kernel did not take are not forgotten: as long as there
\* are any, the loop is asked to say when it will.
PendingAsksForWritable ==
  \A fd \in DOMAIN clients : has_pending_writes(clients[fd]) => "out" \in handlers[fd]

\* What a client has sent is in its receive queue, in the unread part of the
\* buffer, or consumed, once and in order, over compactions and reads that split
\* a command; and what is consumed ends with a command.
NothingSkipped ==
  \A fd \in DOMAIN clients :
    LET c == clients[fd].who
        u == read_view(clients[fd]) \o sock[c].inq
        i == sock[c].sent - Len(u)
    IN  sock[c].link # "reset"
          => /\ u = SubSeq(Stream(c), i + 1, sock[c].sent)
             /\ i = 0 \/ Completes(Stream(c)[i])

\* The replies to what a client sends up to its i-th piece, in order.
AnswersTo(c, i) == Answers(SubSeq(Stream(c), 1, i))

\* The replies, delivered, on their way or waiting, are one for each command
\* that was consumed, in the order of the commands, over partial writes and
\* flushes of the two callbacks; only a protocol error comes again.
RepliesInOrder ==
  \A fd \in DOMAIN clients :
    LET n == clients[fd]
        c == n.who
        a == AnswersTo(c, sock[c].sent - Len(read_view(n)) - Len(sock[c].inq))
        r == sock[c].got \o sock[c].outq \o Unsent(n)
    IN  sock[c].link # "reset"
          => /\ Len(r) >= Len(a) /\ SubSeq(r, 1, Len(a)) = a
             /\ \A i \in Len(a) + 1..Len(r) : r[i].kind = "junk"

Served(c) == \E fd \in DOMAIN clients : clients[fd].who = c

\* A command that has been sent whole, with nothing before it that cannot be
\* parsed, is answered, unless the client or the server ends the connection.
CommandsAnswered ==
  \A c \in Client : \A i \in DOMAIN Script[c] :
    (/\ Served(c) /\ i <= sock[c].sent
     /\ Completes(Stream(c)[i]) /\ \A j \in 1..i : Script[c][j] # "junk")
    ~> (\/ \E j \in DOMAIN sock[c].got : sock[c].got[j].no = i
        \/ sock[c].link # "open" \/ phase # "running")

\* A client that has connected is accepted, though accept4 may have failed any
\* number of times before: the error path of on_new_connection leaves the
\* listening socket registered, and epoll is level-triggered.
BacklogAccepted ==
  \A c \in Client :
    (\E i \in DOMAIN backlog : backlog[i] = c)
    ~> (phase # "running" \/ \A i \in DOMAIN backlog : backlog[i] # c)

\* connection.hpp, of WriteOnly: "Response queued; drain the write buffer then
\* disconnect"; documentation.md, of QUIT: "Closes the client connection
\* gracefully after flushing pending writes".
WriteOnlyCloses ==
  \A c \in Client :
    (\E fd \in DOMAIN clients : clients[fd].who = c /\ clients[fd].state = "WriteOnly")
    ~> (~ Served(c) \/ phase # "running")
=============================================================================
