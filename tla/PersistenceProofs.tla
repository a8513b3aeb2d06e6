-------------------------- MODULE PersistenceProofs --------------------------
(***************************************************************************)
(* Proofs about Persistence, for any number of chunks and of versions.     *)
(* The types hold whatever happens; that a snapshot is never partial and   *)
(* never undone is proved for one save at a time, as run save_overlap      *)
(* shows that it fails without.                                            *)
(***************************************************************************)
EXTENDS Persistence, FiniteSetTheorems, TLAPS

-----------------------------------------------------------------------------
(***************************************************************************)
(* Types.                                                                  *)
(***************************************************************************)
\* A process that writes has a file, and its offset is that of a chunk.
WritersInBounds ==
  \A p \in Process :
    writer[p].pc = "write" => writer[p].ino \in Inode /\ writer[p].off \in 1..Chunks

TypeInv == TypeOK /\ WritersInBounds

\* An inode is left for a new file: two paths and two open files take up at
\* most three when one of the paths names none.
LEMMA SomeUnused ==
  ASSUME TypeOK, tmp = NoFile
  PROVE  (CHOOSE j \in Unused : TRUE) \in Inode \ {dump}
  <1> DEFINE taken == {tmp, dump, writer["server"].ino, writer["child"].ino}
  <1>1. Unused = {i \in Inode : i \notin taken}
    BY DEF Unused, Process
  <1>2. \E i \in Inode : i \notin {dump, writer["server"].ino, writer["child"].ino}
    BY SMT DEF Inode
  <1>3. NoFile \notin Inode
    BY DEF NoFile, Inode
  <1>4. Unused # {}
    BY <1>1, <1>2, <1>3
  <1> QED BY <1>1, <1>4

LEMMA RdbLoadType ==
  ASSUME TypeOK
  PROVE  rdb_load \in Version
  <1>1. 0 \in Version /\ 1 \in 1..Chunks
    BY ChunksAssumption DEF Version
  <1> QED BY <1>1 DEF rdb_load, Complete

LEMMA IdleType == Idle \in WriterType /\ \A v \in Version : Saving(v) \in WriterType
  BY ChunksAssumption DEF Idle, Saving, WriterType, Version

LEMMA TypeInit == Init => TypeInv
  <1>1. 0 \in Version /\ Absent \in Version \cup {Absent}
    BY ChunksAssumption DEF Version
  <1> SUFFICES ASSUME Init PROVE TypeInv
    OBVIOUS
  <1>2. writer \in [Process -> WriterType] /\ WritersInBounds
    BY IdleType DEF Init, WritersInBounds, Idle
  <1>3. disk \in [Inode -> [1..Chunks -> Version \cup {Absent}]]
    BY <1>1 DEF Init
  <1> QED BY <1>1, <1>2, <1>3 DEF Init, TypeInv, TypeOK

LEMMA ReportType ==
  ASSUME TypeInv, NEW p \in Process, NEW ok \in BOOLEAN, Report(p, ok),
         disk' \in [Inode -> [1..Chunks -> Version \cup {Absent}]],
         {tmp', dump'} \subseteq Inode \cup {NoFile}
  PROVE  TypeInv'
  <1>1. writer' \in [Process -> WriterType] /\ WritersInBounds'
    BY IdleType DEF TypeInv, TypeOK, WritersInBounds, Report, Idle
  <1>2. saved' \in Version
    <2>1. writer[p].ver \in Version
      BY DEF TypeInv, TypeOK, WriterType
    <2> QED BY <2>1 DEF TypeInv, TypeOK, Report, Newer
  <1>3. mode' \in {"up", "save", "exit", "down"} /\ dirty' \in Nat
    BY DEF TypeInv, TypeOK, Report, GoDown
  <1>4. child' \in {"none", "running", "exit_0", "exit_1"}
    BY DEF TypeInv, TypeOK, Report, GoDown
  <1>5. pid' \in BOOLEAN /\ clean' \in BOOLEAN
    BY Zenon DEF TypeInv, TypeOK, Report, GoDown
  <1>6. data' \in Version /\ last' \in Version
    BY DEF TypeInv, TypeOK, Report
  <1> QED BY <1>1, <1>2, <1>3, <1>4, <1>5, <1>6 DEF TypeInv, TypeOK

LEMMA TypeStep == TypeInv /\ [Next]_vars => TypeInv'
  <1> SUFFICES ASSUME TypeInv, [Next]_vars PROVE TypeInv'
    OBVIOUS
  <1>1. ASSUME NEW p \in Process, OpenTmp(p) PROVE TypeInv'
    <2> DEFINE i == IF tmp = NoFile THEN CHOOSE j \in Unused : TRUE ELSE tmp
               w == [pc |-> "write", ver |-> writer[p].ver, ino |-> i, off |-> 1]
    <2>1. i \in Inode
      BY SomeUnused DEF TypeInv, TypeOK
    <2>2. 1 \in 1..Chunks /\ writer[p].ver \in Version
      BY ChunksAssumption DEF TypeInv, TypeOK, WriterType
    <2>3. /\ tmp' = i
          /\ disk' = [disk EXCEPT ![i] = [c \in 1..Chunks |-> Absent]]
          /\ writer' = [writer EXCEPT ![p] = w]
      BY <1>1 DEF OpenTmp
    <2> HIDE DEF i
    <2>4. w \in WriterType
      BY <2>1, <2>2, ChunksAssumption DEF WriterType
    <2>5. writer' \in [Process -> WriterType] /\ WritersInBounds'
      BY <2>1, <2>2, <2>3, <2>4 DEF TypeInv, TypeOK, WritersInBounds
    <2>6. disk' \in [Inode -> [1..Chunks -> Version \cup {Absent}]]
      BY <2>3 DEF TypeInv, TypeOK
    <2> QED BY <1>1, <2>1, <2>3, <2>5, <2>6 DEF OpenTmp, TypeInv, TypeOK
  <1>2. ASSUME NEW p \in Process, WriteChunk(p) PROVE TypeInv'
    <2> DEFINE w == writer[p]
               x == [pc  |-> IF w.off = Chunks THEN "rename" ELSE "write",
                     ver |-> w.ver, ino |-> w.ino, off |-> w.off + 1]
    <2>1. w.ino \in Inode /\ w.off \in 1..Chunks /\ w.ver \in Version
      BY <1>2 DEF WriteChunk, TypeInv, TypeOK, WritersInBounds, WriterType
    <2>2. x \in WriterType /\ (x.pc = "write" => x.off \in 1..Chunks)
      BY <2>1, ChunksAssumption DEF WriterType
    <2>3. writer' = [writer EXCEPT ![p] = x] /\ disk' = [disk EXCEPT ![w.ino][w.off] = w.ver]
      BY <1>2 DEF WriteChunk
    <2>4. writer' \in [Process -> WriterType] /\ WritersInBounds'
      BY <2>1, <2>2, <2>3 DEF TypeInv, TypeOK, WritersInBounds
    <2>5. disk' \in [Inode -> [1..Chunks -> Version \cup {Absent}]]
      BY <2>1, <2>3 DEF TypeInv, TypeOK
    <2> QED BY <1>2, <2>4, <2>5 DEF WriteChunk, TypeInv, TypeOK
  <1>3. ASSUME NEW p \in Process, Rename(p) PROVE TypeInv'
    BY <1>3, ReportType DEF Rename, TypeInv, TypeOK, files
  <1>4. ASSUME NEW p \in Process, Fail(p) PROVE TypeInv'
    BY <1>4, ReportType DEF Fail, TypeInv, TypeOK, files
  <1>5. CASE WriteCommand
    <2>1. last + 1 \in Version /\ dirty + 1 \in Nat
      BY <1>5, ChunksAssumption DEF WriteCommand, TypeInv, TypeOK, Version
    <2> QED BY <1>5, <2>1 DEF WriteCommand, TypeInv, TypeOK, WritersInBounds, files
  <1>6. ASSUME NEW p \in Process, writer' = [writer EXCEPT ![p] = Saving(data)]
        PROVE  writer' \in [Process -> WriterType] /\ WritersInBounds'
    <2>1. Saving(data) \in WriterType /\ Saving(data).pc # "write"
      BY IdleType DEF TypeInv, TypeOK, Saving
    <2> QED BY <1>6, <2>1 DEF TypeInv, TypeOK, WritersInBounds
  <1>7. CASE Save
    BY <1>6, <1>7 DEF Save, Process, TypeInv, TypeOK, files
  <1>8. CASE Bgsave
    BY <1>6, <1>8 DEF Bgsave, Process, TypeInv, TypeOK, files
  <1>9. CASE Reap
    BY <1>9 DEF Reap, TypeInv, TypeOK, WritersInBounds, files
  <1>10. CASE Shutdown
    <2>1. writer' \in [Process -> WriterType] /\ WritersInBounds'
      BY <1>6, <1>10 DEF Shutdown, Process, TypeInv, TypeOK, WritersInBounds
    <2> QED BY <1>10, <2>1 DEF Shutdown, GoDown, TypeInv, TypeOK, files
  <1>11. CASE Crash
    <2>1. writer' \in [Process -> WriterType] /\ WritersInBounds'
      BY <1>11, IdleType DEF Crash, Process, TypeInv, TypeOK, WritersInBounds, Idle
    <2> QED BY <1>11, <2>1 DEF Crash, GoDown, TypeInv, TypeOK, files
  <1>12. CASE Restart
    BY <1>12, RdbLoadType DEF Restart, TypeInv, TypeOK, WritersInBounds, files
  <1>13. CASE UNCHANGED vars
    BY <1>13 DEF vars, TypeInv, TypeOK, WritersInBounds
  <1> QED BY <1>1, <1>2, <1>3, <1>4, <1>5, <1>7, <1>8, <1>9, <1>10, <1>11, <1>12, <1>13
      DEF Next, Step

LEMMA TypeInvariance == Spec => []TypeInv
  BY TypeInit, TypeStep, PTL DEF Spec

\* The processes' states and the file system keep their types, two saves at a
\* time included: no write goes past the last chunk, and open always finds an
\* inode.
THEOREM PersistenceTypeCorrect == Spec => []TypeOK
  BY TypeInvariance, PTL DEF TypeInv

-----------------------------------------------------------------------------
(***************************************************************************)
(* One save at a time.                                                     *)
(***************************************************************************)
\* What the two processes are at: a save of the server's makes it wait, one of
\* the child's is what the child is there for; an orphan belongs to no server.
ProcessesAgree ==
  /\ writer["server"].pc # "idle" <=> mode \in {"save", "exit"}
  /\ writer["child"].pc # "idle" <=> child = "running"
  /\ child = "running" => mode \in {"up", "down"}
  /\ mode # "down" => (pid <=> child # "none")
  /\ mode = "down" => child \in {"none", "running"} /\ ~ pid

\* The temporary file is the writer's own, and is written up to its offset.
WriterOwnsTmp ==
  \A p \in Process :
    /\ writer[p].pc \in {"idle", "open"} => writer[p].ino = NoFile
    /\ writer[p].pc \in {"write", "rename"} =>
         /\ tmp # NoFile /\ writer[p].ino = tmp
         /\ \A c \in 1..Chunks : c < writer[p].off => disk[tmp][c] = writer[p].ver
    /\ writer[p].pc = "rename" => writer[p].off = Chunks + 1

\* The snapshot is complete, and no writer has it open.
DumpIsWhole ==
  /\ dump # NoFile => dump # tmp
  /\ DumpNeverPartial

\* No save under way, and no server that is up, has an older version than what
\* was saved; and there is no version but those that were written.
VersionsAgree ==
  /\ saved <= rdb_load /\ rdb_load <= last
  /\ mode # "down" => saved <= data /\ data <= last
  /\ \A p \in Process : writer[p].pc # "idle" => saved <= writer[p].ver /\ writer[p].ver <= last
  /\ mode # "down" /\ child = "running" => writer["child"].ver <= data
  /\ mode \in {"save", "exit"} => writer["server"].ver <= data

IInv ==
  /\ TypeInv
  /\ ProcessesAgree
  /\ WriterOwnsTmp
  /\ DumpIsWhole
  /\ VersionsAgree

LEMMA NoFileIsNone == NoFile \notin Inode
  BY DEF NoFile, Inode

\* What a restart would load depends on the one file alone.
LEMMA SameDumpSameLoad ==
  ASSUME TypeOK, UNCHANGED dump, dump # NoFile => disk'[dump] = disk[dump]
  PROVE  rdb_load' = rdb_load /\ (DumpNeverPartial => DumpNeverPartial')
  BY DEF rdb_load, Complete, DumpNeverPartial

LEMMA SafeInit == Init => IInv
  <1> SUFFICES ASSUME Init PROVE IInv
    OBVIOUS
  <1>1. TypeInv
    BY TypeInit
  <1>2. \A p \in Process : writer[p] = Idle
    BY DEF Init
  <1>3. ProcessesAgree /\ WriterOwnsTmp
    BY <1>2 DEF Init, ProcessesAgree, WriterOwnsTmp, Idle, Process
  <1>4. DumpIsWhole
    BY DEF Init, DumpIsWhole, DumpNeverPartial
  <1>5. VersionsAgree
    BY <1>2 DEF Init, VersionsAgree, rdb_load, Idle
  <1> QED BY <1>1, <1>3, <1>4, <1>5 DEF IInv

\* A save that has come to its end, well or badly.
LEMMA ReportAgrees ==
  ASSUME TypeInv, ProcessesAgree, NEW p \in Process, NEW ok \in BOOLEAN,
         writer[p].pc # "idle", Report(p, ok)
  PROVE  ProcessesAgree' /\ writer'[p] = Idle
         /\ \A q \in Process \ {p} : writer'[q] = writer[q] /\ writer[q].pc = "idle"
  <1>1. writer'[p] = Idle /\ \A q \in Process \ {p} : writer'[q] = writer[q]
    BY DEF Report, TypeInv, TypeOK
  <1>2. \A q \in Process \ {p} : writer[q].pc = "idle"
    BY DEF ProcessesAgree, Process
  <1>3. CASE p = "child"
    BY <1>1, <1>3 DEF Report, ProcessesAgree, Process, Idle, TypeInv, TypeOK
  <1>4. CASE p = "server"
    BY <1>1, <1>4 DEF Report, ProcessesAgree, Process, Idle, GoDown, TypeInv, TypeOK
  <1> QED BY <1>1, <1>2, <1>3, <1>4 DEF Process

LEMMA FailSafe ==
  ASSUME IInv, TypeInv', NEW p \in Process, Fail(p)
  PROVE  IInv'
  <1>1. ProcessesAgree' /\ writer'[p] = Idle
        /\ \A q \in Process \ {p} : writer'[q] = writer[q] /\ writer[q].pc = "idle"
    BY ReportAgrees DEF Fail, IInv
  <1>2. WriterOwnsTmp'
    BY <1>1 DEF WriterOwnsTmp, IInv, Fail, files, Idle
  <1>3. rdb_load' = rdb_load /\ DumpIsWhole'
    BY SameDumpSameLoad DEF Fail, files, IInv, TypeInv, DumpIsWhole
  <1>4. saved' = saved /\ data' = data /\ last' = last
    BY DEF Fail, Report
  <1>5. mode' # "down" => mode # "down" /\ child' # "running"
    BY <1>1 DEF Fail, Report, GoDown, IInv, ProcessesAgree
  <1>6. VersionsAgree'
    BY <1>1, <1>3, <1>4, <1>5 DEF VersionsAgree, IInv, Idle, ProcessesAgree, Process
  <1> QED BY <1>1, <1>2, <1>3, <1>6 DEF IInv

LEMMA RenameSafe ==
  ASSUME IInv, TypeInv', NEW p \in Process, Rename(p)
  PROVE  IInv'
  <1> DEFINE v == writer[p].ver
  <1>1. tmp # NoFile /\ \A c \in 1..Chunks : disk[tmp][c] = v
    BY ChunksAssumption DEF Rename, IInv, WriterOwnsTmp
  <1>2. /\ Report(p, TRUE) /\ writer[p].pc # "idle"
        /\ dump' = tmp /\ tmp' = NoFile /\ disk' = disk
    BY <1>1 DEF Rename
  <1>3. ProcessesAgree' /\ writer'[p] = Idle
        /\ \A q \in Process \ {p} : writer'[q] = writer[q] /\ writer[q].pc = "idle"
    BY <1>2, ReportAgrees DEF IInv
  <1>4. WriterOwnsTmp'
    BY <1>3 DEF WriterOwnsTmp, IInv, Idle
  <1>5. v \in Version /\ 1 \in 1..Chunks
    BY ChunksAssumption DEF IInv, TypeInv, TypeOK, WriterType
  <1>6. rdb_load' = v /\ DumpIsWhole'
    BY <1>1, <1>2, <1>5 DEF rdb_load, Complete, DumpIsWhole, DumpNeverPartial
  <1>7. saved <= v /\ v <= last /\ (mode # "down" => v <= data)
    BY <1>2 DEF IInv, VersionsAgree, ProcessesAgree, Process
  <1>8. saved' = v /\ data' = data /\ last' = last
    BY <1>2, <1>5, <1>7 DEF Report, Newer, IInv, TypeInv, TypeOK, Version
  <1>9. mode' # "down" => mode # "down" /\ child' # "running"
    BY <1>2, <1>3 DEF Report, GoDown, IInv, ProcessesAgree
  <1> HIDE DEF v
  <1>10. VersionsAgree'
    <2>1. mode' # "down" => saved' <= data' /\ data' <= last'
      BY <1>7, <1>8, <1>9 DEF IInv, VersionsAgree
    <2>2. \A q \in Process : writer'[q].pc = "idle"
      BY <1>3 DEF Idle
    <2>3. mode' \notin {"save", "exit"}
      BY <1>3, <2>2 DEF ProcessesAgree, Process
    <2> QED BY <1>5, <1>6, <1>7, <1>8, <1>9, <2>1, <2>2, <2>3 DEF VersionsAgree, Version
  <1> QED BY <1>3, <1>4, <1>6, <1>10 DEF IInv

LEMMA OpenSafe ==
  ASSUME IInv, TypeInv', NEW p \in Process, OpenTmp(p)
  PROVE  IInv'
  <1> DEFINE i == IF tmp = NoFile THEN CHOOSE j \in Unused : TRUE ELSE tmp
             w == [pc |-> "write", ver |-> writer[p].ver, ino |-> i, off |-> 1]
  <1>1. i \in Inode /\ i # dump
    BY SomeUnused DEF IInv, TypeInv, TypeOK, DumpIsWhole
  <1>2. /\ tmp' = i
        /\ disk' = [disk EXCEPT ![i] = [c \in 1..Chunks |-> Absent]]
        /\ writer' = [writer EXCEPT ![p] = w]
        /\ UNCHANGED <<mode, data, last, pid, child, dump, saved>>
    BY DEF OpenTmp
  <1> HIDE DEF i
  <1>3. writer'[p] = w /\ \A q \in Process \ {p} : writer'[q] = writer[q]
    BY <1>2 DEF IInv, TypeInv, TypeOK
  <1>4. \A q \in Process \ {p} : writer[q].pc = "idle"
    BY DEF OpenTmp, IInv, ProcessesAgree, Process
  <1>5. ProcessesAgree'
    BY <1>2, <1>3 DEF OpenTmp, IInv, ProcessesAgree, Process
  <1>6. WriterOwnsTmp'
    BY <1>1, <1>2, <1>3, <1>4, NoFileIsNone, ChunksAssumption DEF IInv, WriterOwnsTmp
  <1>7. rdb_load' = rdb_load /\ DumpIsWhole'
    BY <1>1, <1>2, SameDumpSameLoad DEF IInv, TypeInv, TypeOK, DumpIsWhole
  <1>8. VersionsAgree'
    BY <1>2, <1>3, <1>4, <1>7 DEF OpenTmp, IInv, VersionsAgree, Process
  <1> QED BY <1>5, <1>6, <1>7, <1>8 DEF IInv

LEMMA WriteSafe ==
  ASSUME IInv, TypeInv', NEW p \in Process, WriteChunk(p)
  PROVE  IInv'
  <1> DEFINE w == writer[p]
             x == [pc  |-> IF w.off = Chunks THEN "rename" ELSE "write",
                   ver |-> w.ver, ino |-> w.ino, off |-> w.off + 1]
  <1>1. /\ disk' = [disk EXCEPT ![w.ino][w.off] = w.ver]
        /\ writer' = [writer EXCEPT ![p] = x]
        /\ UNCHANGED <<mode, data, last, pid, child, tmp, dump, saved>>
    BY DEF WriteChunk
  <1>2. w.ino = tmp /\ tmp # NoFile /\ tmp \in Inode /\ w.off \in 1..Chunks
    BY DEF WriteChunk, IInv, WriterOwnsTmp, TypeInv, TypeOK, WritersInBounds
  <1>3. writer'[p] = x /\ \A q \in Process \ {p} : writer'[q] = writer[q]
    BY <1>1 DEF IInv, TypeInv, TypeOK
  <1>4. \A q \in Process \ {p} : writer[q].pc = "idle"
    BY DEF WriteChunk, IInv, ProcessesAgree, Process
  <1>5. ProcessesAgree'
    BY <1>1, <1>3 DEF WriteChunk, IInv, ProcessesAgree, Process
  <1>6. \A c \in 1..Chunks : c < w.off + 1 => disk'[tmp][c] = w.ver
    <2>1. \A c \in 1..Chunks : c < w.off => disk[tmp][c] = w.ver
      BY DEF WriteChunk, IInv, WriterOwnsTmp
    <2>2. \A c \in 1..Chunks : disk'[tmp][c] = IF c = w.off THEN w.ver ELSE disk[tmp][c]
      BY <1>1, <1>2 DEF IInv, TypeInv, TypeOK
    <2> QED BY <1>2, <2>1, <2>2
  <1>7. WriterOwnsTmp'
    BY <1>1, <1>2, <1>3, <1>4, <1>6 DEF IInv, WriterOwnsTmp
  <1>8. rdb_load' = rdb_load /\ DumpIsWhole'
    BY <1>1, <1>2, SameDumpSameLoad DEF IInv, TypeInv, TypeOK, DumpIsWhole
  <1>9. VersionsAgree'
    BY <1>1, <1>3, <1>4, <1>8 DEF WriteChunk, IInv, VersionsAgree, Process
  <1> QED BY <1>5, <1>7, <1>8, <1>9 DEF IInv

\* The steps of the server that begin or end no save of its own.
LEMMA QuietSafe ==
  ASSUME IInv, TypeInv', UNCHANGED <<writer, disk, tmp, dump, saved>>,
         ProcessesAgree',
         mode' # "down" => saved <= data' /\ data' <= last',
         last <= last',
         mode' # "down" /\ child' = "running" => writer["child"].ver <= data',
         mode' \in {"save", "exit"} => writer["server"].ver <= data'
  PROVE  IInv'
  <1>1. rdb_load' = rdb_load /\ DumpIsWhole'
    BY SameDumpSameLoad DEF IInv, TypeInv, DumpIsWhole
  <1>2. rdb_load \in Int /\ last \in Int /\ last' \in Int /\ saved \in Int
        /\ \A p \in Process : writer[p].ver \in Int
    BY RdbLoadType DEF IInv, TypeInv, TypeOK, WriterType, Version
  <1>3. WriterOwnsTmp'
    BY DEF IInv, WriterOwnsTmp
  <1>4. VersionsAgree'
    BY <1>1, <1>2 DEF IInv, VersionsAgree
  <1> QED BY <1>1, <1>3, <1>4 DEF IInv

\* The steps with which a save begins, of process p.
LEMMA BeginSafe ==
  ASSUME IInv, TypeInv', NEW p \in Process, mode = "up",
         \A q \in Process : writer[q].pc = "idle",
         writer' = [writer EXCEPT ![p] = Saving(data)],
         UNCHANGED <<data, last, disk, tmp, dump, saved>>,
         ProcessesAgree', mode' # "down"
  PROVE  IInv'
  <1>1. rdb_load' = rdb_load /\ DumpIsWhole'
    BY SameDumpSameLoad DEF IInv, TypeInv, DumpIsWhole
  <1>2. writer'[p] = Saving(data) /\ \A q \in Process \ {p} : writer'[q] = writer[q]
    BY DEF IInv, TypeInv, TypeOK
  <1>3. WriterOwnsTmp'
    BY <1>2 DEF IInv, WriterOwnsTmp, Saving
  <1>4. \A q \in Process : writer'[q].pc # "idle" => writer'[q].ver = data
    BY <1>2 DEF Saving
  <1>5. data \in Int
    BY DEF IInv, TypeInv, TypeOK, Version
  <1>6. VersionsAgree'
    BY <1>1, <1>4, <1>5 DEF IInv, VersionsAgree, ProcessesAgree, Process
  <1> QED BY <1>1, <1>3, <1>6 DEF IInv

LEMMA SafeStep ==
  ASSUME "overlap" \notin Events, IInv, [Next]_vars
  PROVE  IInv'
  <1>1. TypeInv'
    BY TypeStep DEF IInv
  <1>2. mode = "up" => \A q \in Process : writer[q].pc = "idle" <=> (q = "server" \/ child # "running")
    BY DEF IInv, ProcessesAgree, Process
  <1>3. pid \in BOOLEAN /\ pid' \in BOOLEAN /\ writer \in [Process -> WriterType]
    BY <1>1 DEF IInv, TypeInv, TypeOK
  <1>4. data \in Int /\ last \in Int /\ saved \in Int
    BY DEF IInv, TypeInv, TypeOK, Version
  <1>5. CASE WriteCommand
    <2>1. ProcessesAgree'
      BY <1>5 DEF WriteCommand, IInv, ProcessesAgree
    <2>2. child = "running" => writer["child"].ver \in Int
      BY <1>3 DEF Process, WriterType, Version
    <2> QED BY <1>1, <1>4, <1>5, <2>1, <2>2, QuietSafe
        DEF WriteCommand, files, IInv, VersionsAgree
  <1>6. CASE Save
    <2>1. \A q \in Process : writer[q].pc = "idle"
      BY <1>2, <1>6 DEF Save, MayOverlap
    <2>2. ProcessesAgree'
      BY <1>3, <1>6, <2>1 DEF Save, IInv, ProcessesAgree, Process, Saving, MayOverlap
    <2> QED BY <1>1, <1>6, <2>1, <2>2, BeginSafe DEF Save, files, Process
  <1>7. CASE Bgsave
    <2>1. child = "none"
      BY <1>7 DEF Bgsave, IInv, ProcessesAgree
    <2>2. \A q \in Process : writer[q].pc = "idle"
      BY <1>2, <1>7, <2>1 DEF Bgsave
    <2>3. ProcessesAgree'
      BY <1>3, <1>7, <2>2 DEF Bgsave, IInv, ProcessesAgree, Process, Saving
    <2> QED BY <1>1, <1>7, <2>2, <2>3, BeginSafe DEF Bgsave, files, Process
  <1>8. CASE Reap
    <2>1. ProcessesAgree'
      BY <1>8 DEF Reap, IInv, ProcessesAgree
    <2> QED BY <1>1, <1>4, <1>8, <2>1, QuietSafe DEF Reap, files, IInv, VersionsAgree
  <1>9. CASE Shutdown
    <2>1. \A q \in Process : writer[q].pc = "idle"
      BY <1>2, <1>9 DEF Shutdown, MayOverlap
    <2>2. ProcessesAgree'
      BY <1>3, <1>9, <2>1 DEF Shutdown, IInv, ProcessesAgree, Process, Saving, MayOverlap, GoDown
    <2>3. CASE dirty > 0
      BY <1>1, <1>9, <2>1, <2>2, <2>3, BeginSafe DEF Shutdown, files, Process
    <2>4. CASE ~ (dirty > 0)
      BY <1>1, <1>4, <1>9, <2>2, <2>4, QuietSafe DEF Shutdown, files, GoDown
    <2> QED BY <2>3, <2>4
  <1>10. CASE Crash
    <2>1. writer'["server"] = Idle /\ writer'["child"] = writer["child"]
      BY <1>3, <1>10 DEF Crash, Process
    <2>2. ProcessesAgree'
      BY <1>3, <1>10, <2>1 DEF Crash, GoDown, IInv, ProcessesAgree, Idle
    <2>3. rdb_load' = rdb_load /\ DumpIsWhole'
      BY <1>10, SameDumpSameLoad DEF Crash, files, IInv, TypeInv, DumpIsWhole
    <2>4. WriterOwnsTmp'
      BY <1>10, <2>1 DEF Crash, files, IInv, WriterOwnsTmp, Process, Idle
    <2>5. VersionsAgree'
      BY <1>10, <2>1, <2>3 DEF Crash, GoDown, IInv, VersionsAgree, Process, Idle
    <2> QED BY <1>1, <2>2, <2>3, <2>4, <2>5 DEF IInv
  <1>11. CASE Restart
    <2>1. ProcessesAgree'
      BY <1>3, <1>11 DEF Restart, IInv, ProcessesAgree
    <2> QED BY <1>1, <1>4, <1>11, <2>1, QuietSafe DEF Restart, files, IInv, VersionsAgree
  <1>12. CASE UNCHANGED vars
    <2>1. ProcessesAgree'
      BY <1>12 DEF vars, IInv, ProcessesAgree
    <2> QED BY <1>1, <1>4, <1>12, <2>1, QuietSafe DEF vars, IInv, VersionsAgree
  <1> QED BY <1>1, <1>5, <1>6, <1>7, <1>8, <1>9, <1>10, <1>11, <1>12,
             OpenSafe, WriteSafe, RenameSafe, FailSafe DEF Next, Step

LEMMA OneSaveInvariance ==
  ASSUME "overlap" \notin Events
  PROVE  Spec => []IInv
  <1>1. IInv /\ [Next]_vars => IInv'
    BY SafeStep
  <1> QED BY SafeInit, <1>1, PTL DEF Spec

\* As long as no save begins while another is under way, dump.rdb is complete
\* in every state: between any two write calls, and after any crash, disk error
\* or restart.
THEOREM DumpStaysWhole ==
  ASSUME "overlap" \notin Events
  PROVE  Spec => []DumpNeverPartial
  BY OneSaveInvariance, PTL DEF IInv, DumpIsWhole

\* Under the same condition a restart loads the newest version whose save was
\* reported as a success, or a newer one: no orphan and no failed save puts an
\* older one in its place.
THEOREM SavesAreKept ==
  ASSUME "overlap" \notin Events
  PROVE  Spec => []SavedStaysSaved
  <1>1. IInv => SavedStaysSaved
    BY DEF IInv, VersionsAgree, SavedStaysSaved
  <1> QED BY OneSaveInvariance, <1>1, PTL
=============================================================================
