----------------------------- MODULE AtomicFile -----------------------------
(***************************************************************************)
(* runtime/atomic.py: atomic_write_text, the writer behind the save of     *)
(* every persisted snapshot, and the read_text of every store's load.      *)
(*                                                                         *)
(* The file system is modelled by what the code relies on: names of one    *)
(* directory bound to inodes, page-cache contents that differ from the     *)
(* disk until fsync, directory updates that reach the disk in order but    *)
(* only surely after the directory's own fsync, and descriptors that keep  *)
(* an inode alive after its name is gone.  A text is Blocks blocks written *)
(* one at a time, so that an interrupted or interleaved write shows.       *)
(* Definitions marked "slip" are wrong variants of the one that follows.   *)
(***************************************************************************)
EXTENDS Naturals

CONSTANTS
  Writers,   \* processes that may call atomic_write_text on this target
  Readers,   \* processes that load the target
  Inodes,    \* bounds the number of files alive at once
  Values,    \* texts that are saved
  Blocks,    \* blocks of every text
  None

ASSUME AtomicFileAssumption ==
  /\ Blocks \in Nat \ {0}
  /\ None \notin Inodes
  /\ None \notin Values

VARIABLES
  dir,    \* the directory: the inodes of the target and of its .tmp sibling
  dirs,   \* the directory states a host failure may fall back to
  data,   \* data[i]: content of inode i as processes see it
  disk,   \* disk[i]: content of inode i on the device
  wr,     \* wr[w]: progress of writer w through atomic_write_text
  rd      \* rd[r]: progress of reader r through read_text

vars == <<dir, dirs, data, disk, wr, rd>>

Index == 1..Blocks
Content == [Index -> Values \cup {None}]
Blank == [b \in Index |-> None]
Text(v) == [b \in Index |-> v]
Directory == [target : Inodes \cup {None}, temp : Inodes \cup {None}]

IdleWriter == [pc |-> "idle", val |-> None, fd |-> None, off |-> 0]
IdleReader == [fd |-> None, got |-> Blank, pos |-> 0]

TypeOK ==
  /\ dir \in Directory
  /\ dirs \in SUBSET Directory
  /\ data \in [Inodes -> Content]
  /\ disk \in [Inodes -> Content]
  /\ wr \in [Writers -> [pc : {"idle", "write", "replace", "sync", "cleanup"},
                         val : Values \cup {None},
                         fd : Inodes \cup {None},
                         off : 0..Blocks]]
  /\ rd \in [Readers -> [fd : Inodes \cup {None}, got : Content, pos : 0..Blocks]]

\* An inode is free once no name (not even one a host failure could restore)
\* and no descriptor refers to it.
InUse ==
  {d.target : d \in dirs} \cup {d.temp : d \in dirs}
    \cup {wr[w].fd : w \in Writers} \cup {rd[r].fd : r \in Readers}

SetDirectory(d) ==
  /\ dir' = d
  /\ dirs' = dirs \cup {d}

\* slip: the finally clause unlinks the target as well
UnlinkedBothNames == [dir EXCEPT !.temp = None, !.target = None]
\* unlink of the temporary
Unlinked == [dir EXCEPT !.temp = None]

\* slip: the temporary is not fsynced
NotFlushed(i) == disk
\* The fsync of the temporary: its blocks reach the device.
Flushed(i) == [disk EXCEPT ![i] = data[i]]

MoreToWrite(w) == wr[w].off < Blocks

\* slip: the target is opened and truncated in place
TemporaryIsTarget == dir.target
\* The inode that open("w") finds under the temporary's name.
Temporary == dir.temp

Goto(w, label) ==
  wr' = [wr EXCEPT ![w].pc = label, ![w].fd = None]

Init ==
  /\ dir = [target |-> None, temp |-> None]
  /\ dirs = {dir}
  /\ data = [i \in Inodes |-> Blank]
  /\ disk = [i \in Inodes |-> Blank]
  /\ wr = [w \in Writers |-> IdleWriter]
  /\ rd = [r \in Readers |-> IdleReader]
-----------------------------------------------------------------------------
\* temporary.open("w"): a new inode, or the one a killed writer left behind,
\* truncated in the page cache only.
OpenTemp(w, v) ==
  /\ wr[w].pc = "idle"
  /\ \E i \in Inodes :
       /\ \/ /\ Temporary = None
             /\ i \notin InUse
             /\ disk' = [disk EXCEPT ![i] = Blank]
          \/ /\ i = Temporary
             /\ UNCHANGED disk
       /\ data' = [data EXCEPT ![i] = Blank]
       /\ SetDirectory([dir EXCEPT !.temp = i])
       /\ wr' = [wr EXCEPT ![w] = [pc |-> "write", val |-> v, fd |-> i, off |-> 0]]
  /\ UNCHANGED rd

\* handle.write / handle.flush, a block at a time through the descriptor.
WriteBlock(w) ==
  /\ wr[w].pc = "write"
  /\ MoreToWrite(w)
  /\ data' = [data EXCEPT ![wr[w].fd][wr[w].off + 1] = wr[w].val]
  /\ wr' = [wr EXCEPT ![w].off = @ + 1]
  /\ UNCHANGED <<dir, dirs, disk, rd>>

\* os.fsync(handle.fileno()) and the close at the end of the with block.
SyncFile(w) ==
  /\ wr[w].pc = "write"
  /\ wr[w].off = Blocks
  /\ disk' = Flushed(wr[w].fd)
  /\ Goto(w, "replace")
  /\ UNCHANGED <<dir, dirs, data, rd>>

\* os.replace(temporary, path): by name, whatever inode the name has now.
Replace(w) ==
  /\ wr[w].pc = "replace"
  /\ dir.temp # None
  /\ SetDirectory([target |-> dir.temp, temp |-> None])
  /\ Goto(w, "sync")
  /\ UNCHANGED <<data, disk, rd>>

\* The best-effort directory fsync.
SyncDirectory(w) ==
  /\ wr[w].pc = "sync"
  /\ dirs' = {dir}
  /\ Goto(w, "cleanup")
  /\ UNCHANGED <<dir, data, disk, rd>>

\* Any call of the try block raises (for os.replace also because another
\* writer already moved the temporary away); a directory that cannot be
\* opened returns without having been synced.
StepFails(w) ==
  /\ wr[w].pc \in {"idle", "write", "replace", "sync"}
  /\ Goto(w, "cleanup")
  /\ UNCHANGED <<dir, dirs, data, disk, rd>>

\* finally: if temporary.exists(): temporary.unlink()
Cleanup(w) ==
  /\ wr[w].pc = "cleanup"
  /\ \/ /\ dir.temp # None
        /\ SetDirectory(Unlinked)
     \/ /\ dir.temp = None
        /\ UNCHANGED <<dir, dirs>>
  /\ wr' = [wr EXCEPT ![w] = IdleWriter]
  /\ UNCHANGED <<data, disk, rd>>

\* The process is killed: descriptors close, no finally clause runs.
Kill(w) ==
  /\ wr[w].pc # "idle"
  /\ wr' = [wr EXCEPT ![w] = IdleWriter]
  /\ UNCHANGED <<dir, dirs, data, disk, rd>>
-----------------------------------------------------------------------------
\* A store's load: open the target, read it block by block, close.
OpenTarget(r) ==
  /\ rd[r].fd = None
  /\ dir.target # None
  /\ rd' = [rd EXCEPT ![r] = [fd |-> dir.target, got |-> Blank, pos |-> 0]]
  /\ UNCHANGED <<dir, dirs, data, disk, wr>>

ReadBlock(r) ==
  /\ rd[r].fd # None
  /\ rd[r].pos < Blocks
  /\ rd' = [rd EXCEPT ![r].got[rd[r].pos + 1] = data[rd[r].fd][rd[r].pos + 1],
                      ![r].pos = @ + 1]
  /\ UNCHANGED <<dir, dirs, data, disk, wr>>

CloseTarget(r) ==
  /\ rd[r].fd # None
  /\ rd[r].pos = Blocks
  /\ rd' = [rd EXCEPT ![r] = IdleReader]
  /\ UNCHANGED <<dir, dirs, data, disk, wr>>
-----------------------------------------------------------------------------
\* The operating system commits the directory on its own.
CommitDirectory ==
  /\ dirs # {dir}
  /\ dirs' = {dir}
  /\ UNCHANGED <<dir, data, disk, wr, rd>>

\* Every block whose new content is not on the device may or may not have
\* reached it; fsynced contents are not affected.
Dirty == {p \in Inodes \X Index : data[p[1]][p[2]] # disk[p[1]][p[2]]}

HostFailure ==
  /\ dir' \in dirs
  /\ dirs' = {dir'}
  /\ \E lost \in SUBSET Dirty :
       data' = [i \in Inodes |-> [b \in Index |->
                  IF <<i, b>> \in lost THEN disk[i][b] ELSE data[i][b]]]
  /\ disk' = data'
  /\ wr' = [w \in Writers |-> IdleWriter]
  /\ rd' = [r \in Readers |-> IdleReader]

WriterStep(w) ==
  \/ \E v \in Values : OpenTemp(w, v)
  \/ WriteBlock(w)
  \/ SyncFile(w)
  \/ Replace(w)
  \/ SyncDirectory(w)
  \/ StepFails(w)
  \/ Cleanup(w)
  \/ Kill(w)

ReaderStep(r) == OpenTarget(r) \/ ReadBlock(r) \/ CloseTarget(r)

Next ==
  \/ \E w \in Writers : WriterStep(w)
  \/ \E r \in Readers : ReaderStep(r)
  \/ CommitDirectory
  \/ HostFailure

Spec == Init /\ [][Next]_vars
-----------------------------------------------------------------------------
IsText(c) == \E v \in Values : c = Text(v)

(***************************************************************************)
(* The target is absent or one whole text, on the running host and in      *)
(* every state a host failure could fall back to: an interrupted save      *)
(* never leaves a partial snapshot for the API to parse.                   *)
(***************************************************************************)
TargetNeverTorn ==
  \A d \in dirs : d.target # None =>
    /\ IsText(data[d.target])
    /\ disk[d.target] = data[d.target]

(***************************************************************************)
(* A load that overlaps any number of saves returns one whole text, not a  *)
(* mixture of the texts of two saves.                                      *)
(***************************************************************************)
ReadersSeeOneText ==
  \A r \in Readers : rd[r].fd # None /\ rd[r].pos = Blocks => IsText(rd[r].got)

\* What makes them inductive when one process writes the target.  An inode
\* under the temporary's name is no target, now or after a host failure, and
\* no reader's file; a writer works on the inode that has that name.
NamesApart ==
  /\ dir \in dirs
  /\ \A d \in dirs : d.temp # None => d.temp # d.target
  /\ dir.temp # None => \A d \in dirs : d.target # dir.temp

WriterProgress(w) ==
  /\ wr[w].pc = "write" =>
       /\ wr[w].fd = dir.temp /\ dir.temp # None
       /\ wr[w].val \in Values
       /\ \A b \in Index : b <= wr[w].off => data[dir.temp][b] = wr[w].val
  /\ wr[w].pc # "write" => wr[w].fd = None
  /\ wr[w].pc = "replace" =>
       /\ dir.temp # None
       /\ IsText(data[dir.temp])
       /\ disk[dir.temp] = data[dir.temp]

ReaderProgress(r) ==
  rd[r].fd # None =>
    /\ rd[r].fd # dir.temp
    /\ IsText(data[rd[r].fd])
    /\ \A b \in Index : b <= rd[r].pos => rd[r].got[b] = data[rd[r].fd][b]

Inv ==
  /\ TypeOK
  /\ NamesApart
  /\ TargetNeverTorn
  /\ \A w \in Writers : WriterProgress(w)
  /\ \A r \in Readers : ReaderProgress(r)

(***************************************************************************)
(* Seen through its first block, the target behaves as DurableRegister.    *)
(***************************************************************************)
TextOf(i) == IF i = None THEN None ELSE data[i][1]

Register == INSTANCE DurableRegister WITH
  value <- TextOf(dir.target),
  surviving <- {TextOf(d.target) : d \in dirs}

\* atomic_write_text implements the durable register its callers rely on.
ImplementsRegister == Register!Spec
=============================================================================
