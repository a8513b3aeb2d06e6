---------------------------- MODULE Persistence -----------------------------
(***************************************************************************)
(* Snapshots: SAVE, BGSAVE, the final save at shutdown, the restart that   *)
(* loads dump.rdb (src/src/persistence, src/src/main.cpp), and the two     *)
(* processes that may write at the same time, the server and the child it  *)
(* forked.                                                                 *)
(*                                                                         *)
(* The database is a version: 0 is the empty one and every write command   *)
(* makes a new one.  A snapshot of version v is a file of Chunks chunks of *)
(* v, written one at a time; a file is complete when all its chunks are of *)
(* one version, and then its checksum is right.  Paths and inodes are kept *)
(* apart, as both writers open the one path dump.rdb.tmp and go on writing *)
(* to the inode they got, at their own offsets, whatever happens to the    *)
(* path.                                                                   *)
(***************************************************************************)
EXTENDS Naturals, FiniteSets

CONSTANTS Chunks,      \* write calls that a snapshot takes
          MaxVersion,  \* bound: the number of write commands
          Events       \* what may happen, of the three below

ASSUME ChunksAssumption ==
  /\ Chunks \in Nat \ {0} /\ MaxVersion \in Nat
  /\ Events \subseteq {"disk_error", "crash", "overlap"}

Version == 0..MaxVersion
Absent  == MaxVersion + 1     \* a chunk that has not been written
NoFile  == 0
Inode   == 1..4               \* the two paths and the two open files
Process == {"server", "child"}

VARIABLES mode,    \* "up"; "save" or "exit" while it blocks on a save; "down"
          data,    \* the version in the server's memory
          last,    \* the newest version there has been
          dirty,   \* dirty_keys
          pid,     \* is bgsave_child_pid set?
          child,   \* the child: "none", "running", or its exit code
          writer,  \* for each process, where it is in rdb_save_sync
          disk,    \* for each inode, the version in each of its chunks
          tmp,     \* the inode of dump.rdb.tmp, or NoFile
          dump,    \* the inode of dump.rdb, or NoFile
          saved,   \* ghost: the newest version whose save ended with success
          clean    \* ghost: the last exit was a graceful shutdown

files == <<disk, tmp, dump>>
vars  == <<mode, data, last, dirty, pid, child, writer, disk, tmp, dump, saved, clean>>

Idle == [pc |-> "idle", ver |-> 0, ino |-> NoFile, off |-> 0]

\* rdb_save_sync begins, with the database as it is now.
Saving(v) == [pc |-> "open", ver |-> v, ino |-> NoFile, off |-> 0]

Init ==
  /\ mode = "up" /\ data = 0 /\ last = 0 /\ dirty = 0
  /\ pid = FALSE /\ child = "none"
  /\ writer = [p \in Process |-> Idle]
  /\ disk = [i \in Inode |-> [c \in 1..Chunks |-> Absent]]
  /\ tmp = NoFile /\ dump = NoFile
  /\ saved = 0 /\ clean = FALSE

-----------------------------------------------------------------------------
(***************************************************************************)
(* rdb_save_sync, in the server or in the child.                           *)
(***************************************************************************)
Newer(v, w) == IF v > w THEN v ELSE w

\* The server process ends.  A child that is running lives on as an orphan,
\* one that has exited is reaped by init.
GoDown(graceful) ==
  /\ mode' = "down"
  /\ clean' = graceful
  /\ pid' = FALSE
  /\ child' = IF child = "running" THEN "running" ELSE "none"

\* What the caller makes of the status.  The child turns it into its exit
\* code.  SAVE resets the counter of changes if all went well.  After the
\* final save the server exits, whatever the status.
Report(p, ok) ==
  /\ writer' = [writer EXCEPT ![p] = Idle]
  /\ saved' = IF ok THEN Newer(writer[p].ver, saved) ELSE saved
  /\ \/ /\ p = "child"
        /\ child' = IF ~ pid THEN "none" ELSE IF ok THEN "exit_0" ELSE "exit_1"
        /\ UNCHANGED <<mode, pid, dirty, clean>>
     \/ /\ p = "server" /\ mode = "save"
        /\ mode' = "up"
        /\ dirty' = IF ok THEN 0 ELSE dirty
        /\ UNCHANGED <<pid, child, clean>>
     \/ /\ p = "server" /\ mode = "exit"
        /\ GoDown(TRUE)
        /\ UNCHANGED dirty
  /\ UNCHANGED <<data, last>>

\* Mutant: the error is lost on the way to the caller.
Fail_Unreported(p) ==
  /\ "disk_error" \in Events
  /\ writer[p].pc # "idle"
  /\ Report(p, TRUE)
  /\ UNCHANGED files

\* open, any write and rename may fail; the temporary file stays as it is.
Fail(p) ==
  /\ "disk_error" \in Events
  /\ writer[p].pc # "idle"
  /\ Report(p, FALSE)
  /\ UNCHANGED files

Unused == {i \in Inode : i \notin {tmp, dump} \cup {writer[p].ino : p \in Process}}

\* open(dump.rdb.tmp, O_WRONLY | O_CREAT | O_TRUNC)
OpenTmp(p) ==
  /\ writer[p].pc = "open"
  /\ LET i == IF tmp = NoFile THEN CHOOSE j \in Unused : TRUE ELSE tmp
     IN  /\ tmp' = i
         /\ disk' = [disk EXCEPT ![i] = [c \in 1..Chunks |-> Absent]]
         /\ writer' = [writer EXCEPT ![p] =
              [pc |-> "write", ver |-> writer[p].ver, ino |-> i, off |-> 1]]
  /\ UNCHANGED <<mode, data, last, dirty, pid, child, dump, saved, clean>>

\* Mutant: the trailer is written a second time.
WriteChunk_OneMore(p) ==
  /\ writer[p].pc = "write"
  /\ LET w == writer[p]
     IN  /\ disk' = [disk EXCEPT ![w.ino][w.off] = w.ver]
         /\ writer' = [writer EXCEPT ![p] =
              [pc  |-> IF w.off > Chunks THEN "rename" ELSE "write",
               ver |-> w.ver, ino |-> w.ino, off |-> w.off + 1]]
  /\ UNCHANGED <<mode, data, last, dirty, pid, child, tmp, dump, saved, clean>>

\* One write call: a part of the header, of the entries or of the trailer.
WriteChunk(p) ==
  /\ writer[p].pc = "write"
  /\ LET w == writer[p]
     IN  /\ disk' = [disk EXCEPT ![w.ino][w.off] = w.ver]
         /\ writer' = [writer EXCEPT ![p] =
              [pc  |-> IF w.off = Chunks THEN "rename" ELSE "write",
               ver |-> w.ver, ino |-> w.ino, off |-> w.off + 1]]
  /\ UNCHANGED <<mode, data, last, dirty, pid, child, tmp, dump, saved, clean>>

\* Mutant: the file is renamed before it is written to the end.
Rename_Early(p) ==
  /\ writer[p].pc \in {"write", "rename"}
  /\ Report(p, tmp # NoFile)
  /\ IF tmp = NoFile
     THEN UNCHANGED files
     ELSE dump' = tmp /\ tmp' = NoFile /\ UNCHANGED disk

\* rename(dump.rdb.tmp, dump.rdb): whatever file the path names by now, and
\* an error when it names none.
Rename(p) ==
  /\ writer[p].pc = "rename"
  /\ Report(p, tmp # NoFile)
  /\ IF tmp = NoFile
     THEN UNCHANGED files
     ELSE dump' = tmp /\ tmp' = NoFile /\ UNCHANGED disk

-----------------------------------------------------------------------------
(***************************************************************************)
(* The server.                                                             *)
(***************************************************************************)
\* Two saves at a time, which the code does not rule out.
MayOverlap == "overlap" \in Events \/ child # "running"

\* A command with CMD_FLAG_WRITE.
WriteCommand ==
  /\ mode = "up" /\ last < MaxVersion
  /\ data' = last + 1 /\ last' = last + 1
  /\ dirty' = dirty + 1
  /\ UNCHANGED <<mode, pid, child, writer, files, saved, clean>>

\* handle_save: the reactor stands still until the snapshot is written.
Save ==
  /\ mode = "up" /\ MayOverlap
  /\ mode' = "save"
  /\ writer' = [writer EXCEPT !["server"] = Saving(data)]
  /\ UNCHANGED <<data, last, dirty, pid, child, files, saved, clean>>

\* handle_bgsave: refused while there is a child.  The child's database is
\* the one at the fork.
Bgsave ==
  /\ mode = "up" /\ ~ pid
  /\ pid' = TRUE /\ child' = "running"
  /\ writer' = [writer EXCEPT !["child"] = Saving(data)]
  /\ UNCHANGED <<mode, data, last, dirty, files, saved, clean>>

\* Mutant: bgsave_child_pid is not reset.
Reap_KeepsPid ==
  /\ mode = "up" /\ pid /\ child \in {"exit_0", "exit_1"}
  /\ child' = "none"
  /\ dirty' = IF child = "exit_0" THEN 0 ELSE dirty
  /\ UNCHANGED <<mode, data, last, pid, writer, files, saved, clean>>

\* The loop reads SIGCHLD from the pipe: on_bgsave_child_exit.
Reap ==
  /\ mode = "up" /\ pid /\ child \in {"exit_0", "exit_1"}
  /\ pid' = FALSE /\ child' = "none"
  /\ dirty' = IF child = "exit_0" THEN 0 ELSE dirty
  /\ UNCHANGED <<mode, data, last, writer, files, saved, clean>>

\* The loop reads SIGTERM or SIGINT and stops; main saves if there are changes.
Shutdown ==
  /\ mode = "up" /\ MayOverlap
  /\ IF dirty > 0
     THEN /\ mode' = "exit"
          /\ writer' = [writer EXCEPT !["server"] = Saving(data)]
          /\ UNCHANGED <<pid, child, clean>>
     ELSE GoDown(TRUE) /\ UNCHANGED writer
  /\ UNCHANGED <<data, last, dirty, files, saved>>

\* The server process is killed, at any point of a save or outside one.
Crash ==
  /\ "crash" \in Events /\ mode # "down"
  /\ GoDown(FALSE)
  /\ writer' = [writer EXCEPT !["server"] = Idle]
  /\ UNCHANGED <<data, last, dirty, files, saved>>

Complete(i) == \E v \in Version : \A c \in 1..Chunks : disk[i][c] = v

\* rdb_load: no file, or one that is cut short or fails its checksum, leaves
\* an empty database.
rdb_load == IF dump # NoFile /\ Complete(dump) THEN disk[dump][1] ELSE 0

\* The server starts again.  Assumed: not before an orphan has come to its end.
Restart ==
  /\ mode = "down" /\ child = "none"
  /\ mode' = "up" /\ data' = rdb_load /\ dirty' = 0
  /\ UNCHANGED <<last, pid, child, writer, files, saved, clean>>

Step(p) == OpenTmp(p) \/ WriteChunk(p) \/ Rename(p)

Next ==
  \/ \E p \in Process : Step(p) \/ Fail(p)
  \/ WriteCommand \/ Save \/ Bgsave \/ Reap
  \/ Shutdown \/ Crash \/ Restart

Spec == Init /\ [][Next]_vars

\* A save that is under way proceeds.  The signal pipe is one of the files of
\* the loop, which serves each one that is ready before it waits again: a run
\* of SAVE commands delays the reaping and does not prevent it.
FairSpec ==
  /\ Spec
  /\ \A p \in Process : WF_vars(Step(p))
  /\ SF_vars(Reap)

-----------------------------------------------------------------------------
(***************************************************************************)
(* Properties.                                                             *)
(***************************************************************************)
WriterType == [pc : {"idle", "open", "write", "rename"}, ver : Version,
               ino : Inode \cup {NoFile}, off : 0..(Chunks + 1)]

\* The shapes of the two processes' states and of the file system.
TypeOK ==
  /\ mode \in {"up", "save", "exit", "down"}
  /\ data \in Version /\ last \in Version /\ dirty \in Nat
  /\ pid \in BOOLEAN /\ child \in {"none", "running", "exit_0", "exit_1"}
  /\ writer \in [Process -> WriterType]
  /\ disk \in [Inode -> [1..Chunks -> Version \cup {Absent}]]
  /\ {tmp, dump} \subseteq Inode \cup {NoFile}
  /\ saved \in Version /\ clean \in BOOLEAN

\* rdb_save.hpp: "the database file is never left in a partially-written,
\* corrupt state", at no step of a save and through no crash or disk error.
DumpNeverPartial == dump # NoFile => Complete(dump)

\* A save that ended with success is not undone: what a restart would load is
\* that version or a newer one, whatever crashed or failed since.
SavedStaysSaved == saved <= rdb_load

\* BGSAVE does not block the next one for ever: the child comes to its end and
\* is reaped, through failures and restarts.
BgsaveEnds == pid ~> ~ pid

\* main.cpp: "Perform a final save if there are unsaved changes".  So after a
\* graceful shutdown the file holds the last version.
CleanExitKeepsWrites ==
  mode = "down" /\ clean /\ child = "none" => rdb_load = data
=============================================================================
