# Keva-DB: a TLA+ model

Keva is a Redis-like key-value server: one thread runs an epoll reactor that
reads RESP commands, executes them on an in-memory database and writes the
replies; a timer runs a cron ten times a second; `BGSAVE` forks a child that
writes a snapshot while the server goes on. This directory models the parts
that hold its logic, checks them with TLC on small instances and proves the
core with TLAPS for all values of the constants.

## Inventory

| Component | State | Operations | What is hard | What makes it correct |
|---|---|---|---|---|
| `Dict` (`src/core/dict.cpp`) | two bucket arrays, `used` of each, `rehashidx_` | set, get, del, exists, clear, for_each, random_sample, rehash_step | every operation interleaves with an incremental move between two tables; `rehash_step` scans without a bounds check | one entry per key over both tables, each where a lookup goes; counters exact; the cursor in bounds; a rehash ends; the answers are those of a map |
| `KevaDatabase` (`src/core/db.cpp`) | `keys_`, `expires_` | get, peek, set, del, set_expire, remove_expire, pttl, active_expire_cycle, for_each, flush | two dicts written separately; an expired key stays until it is read or sampled | no deadline without a key; an expired key is never visible; active expiry deletes nothing alive, and all that is dead |
| String and key commands (`src/command/handlers`) | none of their own | 26 handlers | lazy expiry inside each; 64-bit limits; options and error paths | replies and effects do not depend on when an expired key was deleted; counters exact |
| Persistence (`src/persistence`, `main.cpp`) | `dump.rdb`, `dump.rdb.tmp`, `dirty_keys`, `bgsave_child_pid` | SAVE, BGSAVE, reaping, shutdown, restart | two processes on one temporary path; crashes; errors in the middle | the file is complete at every instant; a reported save is never undone; a clean exit loses nothing; a child is reaped |
| Network (`src/net`) | per connection: read buffer, write buffer, state; the loop's tables of callbacks | accept, read, write, close, timer, stop | partial reads and writes, callbacks that close the file being served, half-closed connections | descriptors, connections and interest agree; every complete command answered once and in order; a connection that is to close does |
| RDB format (`rdb_save.cpp`, `rdb_load.cpp`) | the file, the reader's `pending_expire` | write and read strings, deadlines, checksum | the clock runs while a save is written; keys are set before the checksum is read | what is loaded is what was saved, deadlines included; a damaged file leaves nothing |
| RESP and dispatch (`src/protocol`, `src/command/command.cpp`) | the table of commands | parse, encode, find, dispatch | commands cut at any byte; error paths that must consume and reply exactly once | no verdict of the parser is taken back; one reply per command, the right one and in order |
| `ServerContext`, `main` | configuration, statistics | init, server_cron, signals | signals through a pipe | see persistence |
| Socket helpers, logger, status | none to speak of | | | not modelled |

Calls go one way: loop, server, connection, parser, dispatcher, handler,
database, dict. Shared between processes is only the file system; between the
signal handlers and the loop, only the pipe. `PROJECT.json` lists the hazards
line by line.

## Modules

* `FiniteMaps` - maps with a finite domain: write, erase, look up.
* `KeyMap` - what a dict promises: a map with set, get, exists, del, clear,
  sample and for_each, and the answer of the last of them.
* `Dict` - the dict as it is: `ht0`, `ht1`, `rehashidx`. A chain is a set, as
  its order is never visible. `used` and the allocated size are kept apart from
  the chains. Each operation is an action that begins with the one-bucket
  rehash step that the code begins with; `exists`, `for_each` and
  `random_sample` are const and take none. `Cron` is the dict's part of
  `server_cron`.
* `DictProofs` - the theorems about `Dict`.
* `KevaObject` - an object is the text that a client reads back; the choice
  between number and text, and 64-bit arithmetic that wraps.
* `KevaDatabase` - the operations of the database as functions of a record of
  two maps and of the clock. It builds on the dict through its promise, not its
  tables.
* `Keyspace` - one operator per command handler, giving the database it leaves
  and the reply it sends; one action per command, `Cron` for active expiry and
  `Tick` for the clock. A value is its text; since `create_string` int-encodes
  every text that parses, the encoding follows from the text, and an object
  made from `007` is the text `7`. `Parse`, `Decimal`, `Concat` and `Size` stand
  for `from_chars`, `to_chars`, concatenation and length.
* `ExpiringMap` - what the keyspace promises: entries vanish at the instant of
  their deadline.
* `KeyspaceProofs`, `KeyspaceCommandProofs` - the theorems about `Keyspace`: its
  invariant and its refinement, and what single commands do.
* `Persistence` - the server and its child as two writers, each at its place in
  `rdb_save_sync`, over paths and inodes. The database is a version number.
  `saved` and `clean` are ghosts.
* `PersistenceProofs` - the theorems about `Persistence`.
* `Rdb` - the snapshot file as the sequence of the values written to it, with
  the three forms of a length; the save key by key with the clock running; what
  `rdb_load` and `main` make of a file, whole or damaged, at any time after the
  save. The functions of the database are those of `KevaDatabase`.
* `RdbProofs` - the theorems about `Rdb`.
* `Resp` - the parser and the encoder over sequences of symbols, a symbol being
  a byte or a word that nothing looks into; `from_chars`, which ignores what
  follows a number, and `try_parse_int`, which does not. What `parse_value` says
  at a position is a recursive function of the position, defined from the end of
  the input, as an element of an array lies behind its header. An array of more
  than `MaxElements` makes the parse end in an exception (`Throws`).
* `RespEncode` - `encode`, which no handler uses; `MCSession` sends nested values
  with it.
* `Session` - one client's session from bytes to bytes. It composes `Resp` and
  the registry and the loop of `dispatch` with the handlers of `Keyspace`
  (`INSTANCE ... WITH` byte strings for keys and texts). The registry is a set of
  rows, as it has no two of one name. Reads cut the stream anywhere. An exception
  of the parser, which nothing catches, ends the server (`Terminate`). The
  properties compare with the messages executed one by one, which neither the
  parser nor the buffer takes part in, and with a matcher for patterns that is
  defined by cuts instead of recursion. What a single handler does (`Execute`) is
  on both sides of the comparison; that it is right is what the properties of
  `Keyspace` are about, the ends of counters included. `MessageAssumption` says
  that the messages of a script are spelled as they are meant; it leaves out no
  stream of bytes, as any can be cut in such messages.
* `SessionProofs` - the theorems about `Resp` and `Session`.
* `Network` - the kernel's side of each client (`sock`, `backlog`), and the
  server's: `clients` and `handlers` (the two tables by descriptor), `ready`
  (what `epoll_wait` has reported and is not served), `phase`. A callback is one
  step, as the server has one thread; clients connect, send, half-close, reset
  and read between any two, so an event may be stale when it is served. The
  bytes of a command are one or two pieces. A reply is named by the piece that
  completed its command. Buffers keep their cursors, as compaction and partial
  writes are about them.
* `PipelineProofs` - lemmas about the operators of `Network` that work through a
  buffer (`Answers`, `FirstJunk`, `Consumed`); `NetworkProofs` - the theorems
  about `Network`.
* `MCDict`, `MCKeyspace`, `MCPersistence`, `MCNetwork`, `MCRdb`, `MCSession` - the instances for TLC.

Definitions whose names have a suffix after an underscore and the comment
"Mutant" are plausible mistakes in that code. They are used by no
specification; put in the place of the definition they follow, each one breaks
the property that `PROJECT.json` names.

## Runs

| Run | Shows |
|---|---|
| `dict` | types, sizes and the four consistency invariants; a rehash only advances, and ends, given the cron; `Dict` implements `KeyMap` |
| `keyspace` | the two dicts agree; numbers are canonical; every handler does with an expired key that is still stored what it would do without; counters exact; a key lives exactly as long as was asked, wherever the number of milliseconds fits an i64; PTTL gives time left, or no deadline, for exactly the keys that GET finds; the cron is invisible |
| `keyspace_ideal` | `Keyspace` implements `ExpiringMap`; an expired key goes though nobody asks for it |
| `persistence` | complete and never older snapshots under crashes and disk errors, one save at a time; a background save ends and is reaped |
| `network` | tables, buffers and epoll interest agree; input is neither lost nor taken twice; replies in order; complete commands answered; connections accepted though `accept4` fails for a while |
| `rdb` | a snapshot that is loaded at any later time gives back every key that is alive by then, with its value, whatever their lengths, and its deadline, never earlier and later by no more than the save took; a file cut or changed anywhere gives an empty database |
| `session` | every command of the registry with one to four elements, and scripts on options, numbers, lengths, patterns, values that are no commands and arrays that cannot be reserved: each message executed whole and once, one reply each, right and in order, for every way to cut the reads; verdicts final; nothing but an array that cannot be reserved ends the server; `glob_match` exact; changes counted |

Five runs show where a document and the code disagree (`findings` in
`PROJECT.json`):

* `decrby_overflow`: DECRBY wraps; the other counters check.
* `save_overlap`: SAVE beside a BGSAVE child can leave a truncated `dump.rdb`,
  as both use one temporary path. The same goes for the final save of a
  shutdown, after which an orphan may also put its older snapshot in place.
* `clean_exit`: reaping the child sets `dirty_keys` to 0, so writes made since
  the fork are not saved by a graceful shutdown.
* `write_only`: after QUIT or a protocol error nothing closes the connection; it
  goes on executing commands, and answers the bytes it could not parse again
  with each read.
* `load_expired`: a restart loads keys whose deadline has passed since the save,
  which `documentation.md` says it discards. GET does not find them, DBSIZE
  counts them until the cron comes by. The run has one deadline, which passes
  before the load.

More differences are modelled as the code has them, without a run of their
own: an expansion takes the table from four buckets to sixteen where `dict.hpp`
says twice the capacity; PERSIST of a key without a deadline replies 1 where
the README says 0; the file has the deadline before the type byte where
`rdb.hpp` draws it after; a save point of `server_cron` only writes a log line
where the head of `server_context.cpp` says that it triggers BGSAVE; TTL and
PTTL of a key that has expired and is still stored are 0 where the README and
`documentation.md` say -2; `parse_array` reserves the elements of an array by the
number in its header, and if that many cannot be reserved the vector throws,
nothing catches it and the server ends, where `status.hpp` says that operations
do not throw and `resp_parser.hpp` knows three results of a parse. And two
things no document speaks of: commands that are read together with the end of
the client's stream are dropped, as `fill_read_buffer` returns 0 for the end of
file whatever it read before; the reply to an unknown command repeats the name
as it came, line ends included.

### Bounds

* Dict: five keys fill a table of four, make it expand to sixteen and are
  written and deleted during the move; deleting down to one makes it shrink. The
  hashes put keys together in the small table, two together in the large one,
  and one beyond the ten empty buckets that a step may skip. Two values tell an
  update from what was there. `MaxBuckets` stands for the 64-bit width: TLC's
  integers have 32.
* Keyspace: two keys, as no command relates more; three-bit integers, so that
  the ends of the range are near; a clock of two instants with deadlines before,
  between and after them, as all that a step compares is whether a deadline has
  passed; a second of two ticks, so that a delay of two seconds wraps (the run
  for the refinement leaves it out); samples of one key out of two. `Concat` bounds
  the growth of texts. Argument lists have one or two keys. Keys are symmetric.
* Persistence: snapshots of two chunks (a file can be half written), three
  versions after the empty one (an older and a newer snapshot meet); one version
  would suffice for liveness. Four inodes are enough for two paths and two open
  files.
* Rdb: two keys, one of them the empty text, and values at the limits of the
  forms of a length (64, 16383, 16384 and a number) with `U32Max` at 65535, above
  them all; two writes, so that a key
  with a deadline stands before one without; a clock of three instants, which
  may tick between any two looks at it during the one save and between the save
  and the load, and deadlines that pass during the save, between it and the load,
  not at all, and at the end of i64. Damage cuts the file after any value or
  changes one value to another of the same width.
* Session: integers of eight bits, so that the ends of a counter and of a length
  are three digits; one script per command of the registry, with its elements
  too few, right and too many, and sixteen scripts on a theme. Every read may
  take any number of the bytes left, so each position of each script is a cut.
  `MaxElements`, the elements that a vector can reserve, is 100, below the largest
  number that an array may announce; the scripts have arrays of 100, of 101
  within another, and of 127.
  Patterns have up to three symbols. The commands of a session take no time.
* Network: two clients on two descriptors. One sends a QUIT that may come in two
  reads and a command after it, the other something that cannot be parsed and a
  command; the send buffer holds one reply, so that writes are partial. Either
  may half-close or reset at any time, before it is accepted too. accept4
  may fail at any point of the accept loop.

### Fairness

* `Cron` of `Dict`: the loop runs the timer for as long as it runs. `FairSpec`
  says so in temporal operators: either the dict is infinitely often not
  rehashing or the cron runs infinitely often. This is weak fairness of `Cron`,
  as it changes the dict exactly while a rehash is under way.
* `Sampled(k)`: samples start at a random bucket, so a key that stays in the
  dict of deadlines is sampled with probability one; weakly fair for each key.
  A key buried in a chain longer than the sample is the exception that the
  table's load factor makes improbable.
* `EpollWait` and `Takes(fd)` of `Network`, weakly fair: the loop runs, and
  serves all that was reported before it waits again. `Receive(c)`: the client
  reads. Nothing is assumed about what it sends. `AcceptsSome`, strongly fair: if
  the loop comes to the accept loop again and again with a connection waiting
  and a descriptor free, `accept4` does not fail every time.
* `Step(p)` of a save, weakly fair: the processes run. `Reap`, strongly fair:
  the pipe is one of the loop's files, served in each round that finds it
  readable, so a run of SAVE commands delays it only. Nothing is assumed about
  restarts, crashes or failures.

### Assumptions on the environment

The wall clock does not go back. In `Persistence`, a process may die and the
file system survives (there is no `fsync`, so a power loss may do worse); two
saves overlap only where `Events` says so; a server is not started again while
an orphan of the last one is writing. Every write command is taken to change
the database: one that does not only makes `dirty_keys` too high. A peer's reset
reaches `Network` between two callbacks, not within one, and the server of
`Network` does not end by an exception of the parser (see `Session`). The texts of `Rdb` are
shorter than 4 GiB, as the cast of a length to 32 bits would cut a longer one.
Its checksum detects every change, and a file in which reads and writes no longer line up
is left to it. SAVE and BGSAVE are not in the registry of `Session`. Signed overflow,
undefined in C++, is two's complement as the build has it.

## Proofs

Every invariant and every action property that the passing runs check is proved
for all values of the constants, and so are the two refinements. The exception
is `SequentialService`: what the messages do to the database is proved
(`ExecutedInOrder`), what a client reads back is not.

The library's rules of induction take an operator as a parameter, which is out
of the provers' reach. Where a proof is by induction, it argues from the least
counterexample: the numbers for which a claim fails would have a least element
(`LeastElement`, from `WFMin`). The same argument shows that a recursive function
has a solution (`AnswersSolve`, `SolutionExists`, `ValuesExist`, `RowsExist`...),
without which nothing is known of one.

### Dict

`DictProofs`, for every finite set of keys, every hash function, every set of
values, every sample size and every number of steps per cron tick:

* `DictTypeCorrect`: `TypeOK` is invariant, powers of two included;
* `UsedIsExact`, `OneEntryForAKey`, `EntriesStayFindable` and
  `CursorStaysInBounds`: so are `UsedCountsEntries`, `NoTwinEntries`,
  `EntriesFindable` and `RehashInBounds`;
* `RehashProgress`: a step that changes a dict under rehash moves the cursor or
  ends the rehash;
* `DictImplementsKeyMap`: `Dict` implements `KeyMap`, answers included.

The assumptions are `KeysAssumption` and `BoundsAssumption`: the keys are
finite, and few enough for `bit_ceil(2 * used)` to be representable.

The invariant is inductive only as a whole. That the scan of `rehash_step`
stops within the array (`ScanEndInBounds`) needs the exact counter and the
empty buckets below the cursor; that the counter stays exact over a migration
needs that the tables share no entry; that a set leaves no twin needs that a
lookup finds every entry, hence the right buckets; these need the sizes. So
`DictWF` is the conjunction of the type and the five parts, there is a lemma
for each operator (`InsertOK`, `UpdateOK`, `UnlinkOK`, `MigrateOK`, `SwapOK`,
`StartRehashOK`, `RehashStepOK`, `SetInOK`, `DelInOK`) that says it preserves
`DictWF` and what it does to the entries, and the proof that `Next` preserves
it has one step per action. The refinement rests on the same lemmas: entries
before and after determine the map before and after.

### Keyspace

For any keys, texts, formats of numbers, integer width, delays, sample size and
clock bound that satisfy the assumptions of `KevaObject`, `KevaDatabase` and
`Keyspace` (parsing a number that was printed gives it back, and so on; `Nil`
is neither a text nor a number):

* `KeyspaceTypeCorrect`, `DeadlinesHaveKeys`: `TypeOK` and `NoOrphanDeadline` are
  invariant. The inductive invariant `DbOK` is their conjunction; commands that
  read a value and store another need the part that says that a stored object is
  what `create_string` makes of a text (`Stored`);
* `KeyspaceImplementsExpiringMap` and `CronInvisible`: `Live(db, now)`, the map
  without what has expired, is the abstract state. One lemma for each operation
  of the database says what it does to `Live`; `Good(d, t, e)` says that the
  step from `d` to `e` is one of the abstract map, and there is a lemma for each
  shape of handler (`SetGood`, `CounterGood`, `TimedGood`, `RenameGood`...);
* `CountersAreExact`: no counter of INCR, DECR and INCRBY wraps;
* `DelaysAreExact`: seconds times a thousand, plus the clock, each taken modulo
  2^w, is the exact deadline whenever that fits, because `Wrap` is a
  homomorphism modulo 2^w (`WrapSum`) and the identity in range;
* `TtlIsTrue`: `TtlTellsLife`, by cases on the two dicts; the difference of deadline
  and clock is taken modulo 2^w and assumed to fit, which only a deadline far in
  the past does not;
* `StringCommandsHideExpired`, `KeyCommandsHideExpired`: a congruence. Two
  databases are `Alike` when they are well formed and have the same `Live`; each
  handler takes alike databases to alike databases with one reply (`Twin`), and
  the database without its expired keys is alike to the one with them.

### Persistence

For any number of chunks and of versions:

* `PersistenceTypeCorrect`: types, two saves at a time included. That open finds
  an inode (`SomeUnused`) counts the paths and the open files;
* `DumpStaysWhole`, `SavesAreKept`: `DumpNeverPartial` and `SavedStaysSaved`, under
  the hypothesis that `Events` has no overlap, which is that no save begins while
  another is under way. The run `save_overlap` shows that they fail without it;
  a server that only uses one of SAVE and BGSAVE and shuts down with no child
  running meets it. The inductive invariant says which of the processes may be
  saving in each state of the server (`ProcessesAgree`), that the writer has the
  temporary file to itself and has written exactly the chunks below its offset
  (`WriterOwnsTmp`), that the dump is whole, and how `saved`, the version being
  written and the version in the dump are ordered (`VersionsAgree`).

### Network

For any set of clients, any scripts, any descriptors and any size of the send
buffer (`NetworkAssumption`):

* `NetworkTypeCorrect`, `HandlersMatchClients`, `WritesAreAskedFor`,
  `EveryPieceIsRead`, `RepliesKeepOrder`: `TypeOK`, `RegisteredIsConnected`,
  `PendingAsksForWritable`, `NothingSkipped` and `RepliesInOrder`.

The inductive invariant is `StateOK`. Its core is `ServedOK(c, k, n)`: the
connection `n` and the socket `k` together hold what client `c` has sent and not
been answered (`InStream`), and what it has been sent, at whatever stage, answers
the rest (`Answered`). `RepliesInOrder` alone is not inductive: that a protocol
error may come again, and no reply may come after it, needs that the unread
part begins with what cannot be parsed (`JunkAhead`). A connection in the
backlog satisfies `ServedOK` with the `Connection` that accepting it would make,
so the steps of a client have one lemma for both (`Moves`). That
`remove_writable` does not unregister a descriptor needs that reading is always
asked for; that it is safe after a write needs that a flush leaves nothing
behind where nothing was (`FlushPending`).

What `dispatch` does to a buffer is by induction over it. The recursion in
`Answers` has one solution (`AnswersSolve`), the replies to two parts of a stream
make up the replies to the whole (`AnswersConcat`), the choices in `FirstJunk` and
`Consumed` exist, and so one pass of the pipeline loop answers exactly what it
consumes (`DispatchAnswers`).

### Rdb

For any keys, texts and lengths of texts, any deadlines, clock bound and number
of writes (`RdbAssumption`: a length fits 32 bits, only the empty text has length
0, a deadline is a 64-bit number that is not negative):

* `LoadingEnds`: every turn of the loop of `rdb_load` moves on or ends it, so a
  file of n values is done with after n turns, whatever is in it;
* `RdbTypeCorrect`, `SnapshotsComplete`, `DeadlinesSurvive`,
  `RestartsAllOrNothing`: `TypeOK`, `SnapshotComplete`, `DeadlinesKept` and
  `RestartAllOrNothing`.

What a finished file loads to says nothing about a file that is half written, so
the inductive invariant `IInv` is about that: a reader that is given the file of
a save under way comes to its end with a database that holds exactly the keys
written so far, each deadline late by no more than the time since the save began
(`SaverGood`, with `ReadsTo` and `Copies`). Between reading a time to live and
writing it the clock may tick, which `TtlGood` bounds. A dump is such a file with
its end of file and checksum (`OriginGood`), or does not load. A database that is
such a copy shows, at any later time, what is alive of the original (`DumpIsCopy`,
`CopyRestores`): a deadline that is late only makes a key live longer, so nothing
that is alive is missing. The steps: a
string that is written in one of the three forms of a length is read back
(`TextReads`, `StringReads`, by cases on the form), hence an entry
(`EntryReads`); the loop does the same on a file and on a longer one that begins
with it (`ExtensionLoop`), so appending an entry adds it to the database read
(`EntryAppended`); a file that is cut has no checksum where one is looked for
(`CutFails`), and a changed one a wrong one (`ChangeFails`).

### Resp and Session

For any set of symbols that has the digits and the minus sign, any upper case,
any patterns, any width of integers, any number of elements that can be
reserved and any scripts (`RespAssumption`,
`ByteAssumption`; `ScriptAssumption`: fewer bytes than a `usize` counts;
`MessageAssumption`: see `Session` above):

* `VerdictsFinal`: `VerdictFinal`. If one input begins with another, the parser
  asks for more of the shorter one or says the same of both (`ParseStable`). It is
  by induction from the end of the shorter input: a line, a bulk string and an
  array end where they end whatever comes behind (`LineStable`, `BulkStable`,
  `ArrayStable`). The wrapped sum `pos + length + 2` is the case that needs care;
  it is why the number of bytes is bounded;
* `OnlyCountsEnd`: `EndsByCountOnly`. A parse that throws has met the header of an
  array that cannot be reserved, at its beginning or, by induction from the end of
  the input, in one of its elements (`ParseBlamed`);
* `GlobMatchExact` and `KeysAlwaysExact`: `glob_match` says yes exactly if there
  are cuts as in `Matches`, by induction over the pattern from its end
  (`RowsExact`; `CutMore` and `CutLess` add and take away a cut);
* `SessionTypeCorrect` and `EveryChangeCounted`: `TypeOK` and `ChangesCounted`. The
  inductive invariant is `SessionOK`. What a client can have put in a command is
  what the parser makes of bytes: all its texts are pieces of the input and all
  its numbers are 64-bit (`ParseSpelled`). For each of the commands of the
  registry there is a step that says that on such arguments, in a number that
  the registry allows, it keeps the database well typed (`DbGood`) and changes
  what is visible only if its row says that it writes (`CommandsSound`);
* `ServedOneByOne`: `ExecutedInOrder`. A value that the parser finds complete in
  the buffer is the one of the next message (`NextMessage`, from `ParseStable` and
  `MessageAssumption`), consuming it leaves the bytes of the messages after it
  (`DropFront`), what a turn does to the database is what `Serve` does to it
  (`TurnServes`, where the two ways to match a pattern meet), and a read moves
  bytes and changes none of them (`ReadKeepsStream`).

### Only model-checked

The liveness properties (fairness and ENABLED are beyond the prover).
`SequentialService`: that the client's parser reads back what the encoder wrote
rests on `from_chars` being the inverse of `to_chars`, an induction over digits
that goes through the choice and the fold of `from_chars`; and for every set of
symbols it is not even true, as the error for an unknown command repeats a name
that may contain CR LF (`command.cpp:124`). The scripts of the run have no such
name. `encode`, which is recursive over values. The runs that expect a
violation.

## Plan

What is left is `SequentialService`: that a reply is one value for the client's
parser and the right one, under the assumption that no command name has a line
end in it.

## Not modelled

SipHash (any hash is allowed), memory layout (embstr and raw strings, reference
counts, buffer growth), the LRU clock (eviction is a stub), statistics and the
numbers in INFO, the wording of errors, argument parsing, logging, the options
of sockets and the wrappers of system calls. A power loss (there is no `fsync`)
and a wall clock that is set back are not among the faults. The save points of
`server_cron` only write a log line.
