-------------------------- MODULE AtomicFileProofs --------------------------
(***************************************************************************)
(* What AtomicFile guarantees for any number of readers, inodes, texts and *)
(* blocks, provided one process at a time writes the target.               *)
(***************************************************************************)
EXTENDS AtomicFile, TLAPS

\* At most one process calls atomic_write_text on this target.
SingleWriter == \A v, w \in Writers : v = w

USE AtomicFileAssumption

LEMMA InitInv == Init => Inv
BY DEF Init, Inv, TypeOK, NamesApart, TargetNeverTorn, WriterProgress,
       ReaderProgress, Directory, Content, Index, Blank, IdleWriter, IdleReader

\* Under one writer, the steps of the writer preserve the invariant.
LEMMA OpenTempInv ==
  ASSUME SingleWriter, Inv, NEW w \in Writers, NEW v \in Values, OpenTemp(w, v)
  PROVE  Inv'
<1>1. PICK i \in Inodes :
        /\ \/ dir.temp = None /\ i \notin InUse /\ disk' = [disk EXCEPT ![i] = Blank]
           \/ i = dir.temp /\ UNCHANGED disk
        /\ data' = [data EXCEPT ![i] = Blank]
        /\ SetDirectory([dir EXCEPT !.temp = i])
        /\ wr' = [wr EXCEPT ![w] = [pc |-> "write", val |-> v, fd |-> i, off |-> 0]]
  BY DEF OpenTemp, Temporary
<1>2. /\ wr[w].pc = "idle" /\ rd' = rd
      /\ dir' = [dir EXCEPT !.temp = i] /\ dirs' = dirs \cup {dir'}
  BY <1>1 DEF OpenTemp, SetDirectory
<1>3. i # None /\ dir'.temp = i /\ dir'.target = dir.target
  BY <1>2 DEF Inv, TypeOK, Directory
<1>4. \A d \in dirs : d.target # i
  BY <1>1, <1>3 DEF Inv, NamesApart, InUse
<1>5. \A r \in Readers : rd[r].fd # i
  BY <1>1, <1>3 DEF Inv, ReaderProgress, InUse
<1>6. TypeOK'
  <2>1. dir' \in Directory /\ dirs' \in SUBSET Directory
    BY <1>2 DEF Inv, TypeOK, Directory
  <2>2. Blank \in Content
    BY DEF Blank, Content
  <2>3. data' \in [Inodes -> Content] /\ disk' \in [Inodes -> Content]
    BY <1>1, <2>2 DEF Inv, TypeOK
  <2>4. wr'[w] = [pc |-> "write", val |-> v, fd |-> i, off |-> 0]
    BY <1>1 DEF Inv, TypeOK
  <2> QED
    BY <1>1, <1>2, <2>1, <2>3, <2>4 DEF Inv, TypeOK
<1>7. NamesApart'
  BY <1>2, <1>3, <1>4 DEF Inv, NamesApart
<1>8. TargetNeverTorn'
  <2> SUFFICES ASSUME NEW d \in dirs', d.target # None
               PROVE  IsText(data[d.target])' /\ disk'[d.target] = data'[d.target]
    BY DEF TargetNeverTorn
  <2>1. PICK e \in dirs : e.target = d.target
    BY <1>2, <1>3 DEF Inv, NamesApart
  <2>2. data'[d.target] = data[d.target] /\ disk'[d.target] = disk[d.target]
    BY <1>1, <1>4, <2>1 DEF Inv, TypeOK, Directory
  <2> QED
    BY <2>1, <2>2 DEF Inv, TargetNeverTorn, IsText
<1>9. \A u \in Writers : WriterProgress(u)'
  BY <1>1, <1>3 DEF SingleWriter, Inv, TypeOK, WriterProgress, Index
<1>10. \A r \in Readers : ReaderProgress(r)'
  <2> SUFFICES ASSUME NEW r \in Readers, rd[r].fd # None PROVE ReaderProgress(r)'
    BY <1>2 DEF ReaderProgress
  <2>1. data'[rd[r].fd] = data[rd[r].fd] /\ rd[r].fd # i
    BY <1>1, <1>5 DEF Inv, TypeOK
  <2> QED
    BY <1>2, <1>3, <2>1 DEF Inv, ReaderProgress, IsText
<1> QED
  BY <1>6, <1>7, <1>8, <1>9, <1>10 DEF Inv

LEMMA WriteBlockInv ==
  ASSUME SingleWriter, Inv, NEW w \in Writers, WriteBlock(w)
  PROVE  Inv'
<1>1. /\ wr[w].pc = "write" /\ wr[w].off < Blocks
      /\ data' = [data EXCEPT ![wr[w].fd][wr[w].off + 1] = wr[w].val]
      /\ wr' = [wr EXCEPT ![w].off = @ + 1]
      /\ UNCHANGED <<dir, dirs, disk, rd>>
  BY DEF WriteBlock, MoreToWrite
<1>2. /\ wr[w].fd = dir.temp /\ dir.temp \in Inodes /\ wr[w].val \in Values
      /\ \A b \in Index : b <= wr[w].off => data[dir.temp][b] = wr[w].val
  BY <1>1 DEF Inv, WriterProgress, TypeOK, Directory
<1>3. wr[w].off + 1 \in Index /\ wr[w].off \in Nat
  BY <1>1 DEF Inv, TypeOK, Index
<1>4. TypeOK'
  <2>1. data'[dir.temp] \in Content
    BY <1>1, <1>2, <1>3 DEF Inv, TypeOK, Content
  <2>2. data' \in [Inodes -> Content]
    BY <1>1, <1>2, <2>1 DEF Inv, TypeOK
  <2>3. wr'[w] = [pc |-> "write", val |-> wr[w].val, fd |-> wr[w].fd, off |-> wr[w].off + 1]
    BY <1>1 DEF Inv, TypeOK
  <2>4. wr[w].off + 1 \in 0..Blocks
    BY <1>3 DEF Index
  <2>5. wr' = [wr EXCEPT ![w] = [pc |-> "write", val |-> wr[w].val, fd |-> wr[w].fd,
                                 off |-> wr[w].off + 1]]
    BY <1>1, <2>3 DEF Inv, TypeOK
  <2>6. wr' \in [Writers -> [pc : {"idle", "write", "replace", "sync", "cleanup"},
                             val : Values \cup {None},
                             fd : Inodes \cup {None},
                             off : 0..Blocks]]
    BY <2>4, <2>5 DEF Inv, TypeOK
  <2> QED
    BY <1>1, <2>2, <2>6 DEF Inv, TypeOK
<1>5. \A i \in Inodes : i # dir.temp => data'[i] = data[i]
  BY <1>1, <1>2 DEF Inv, TypeOK
<1>6. NamesApart' /\ TargetNeverTorn'
  <2>1. \A d \in dirs : d.target # dir.temp /\ (d.target # None => d.target \in Inodes)
    BY <1>2 DEF Inv, NamesApart, TypeOK, Directory
  <2> QED
    BY <1>1, <1>5, <2>1 DEF Inv, NamesApart, TargetNeverTorn, IsText
<1>7. \A u \in Writers : WriterProgress(u)'
  <2>1. \A b \in Index : b <= wr[w].off + 1 => data'[dir.temp][b] = wr[w].val
    BY <1>1, <1>2, <1>3 DEF Inv, TypeOK, Content, Index
  <2>2. /\ wr'[w].pc = "write" /\ wr'[w].val = wr[w].val
        /\ wr'[w].fd = wr[w].fd /\ wr'[w].off = wr[w].off + 1
    BY <1>1 DEF Inv, TypeOK
  <2>3. dir.temp # None
    BY <1>2
  <2>4. WriterProgress(w)'
    BY <1>1, <1>2, <2>1, <2>2, <2>3 DEF WriterProgress
  <2> QED
    BY <2>4 DEF SingleWriter
<1>8. \A r \in Readers : ReaderProgress(r)'
  <2> SUFFICES ASSUME NEW r \in Readers, rd[r].fd # None PROVE ReaderProgress(r)'
    BY <1>1 DEF ReaderProgress
  <2>1. data'[rd[r].fd] = data[rd[r].fd]
    BY <1>5 DEF Inv, ReaderProgress, TypeOK
  <2> QED
    BY <1>1, <2>1 DEF Inv, ReaderProgress, IsText
<1> QED
  BY <1>4, <1>6, <1>7, <1>8 DEF Inv

\* A written temporary holds its text in every block.
LEMMA FullyWritten ==
  ASSUME Inv, NEW w \in Writers, wr[w].pc = "write", wr[w].off = Blocks
  PROVE  IsText(data[dir.temp])
<1>1. wr[w].val \in Values /\ dir.temp \in Inodes
  BY DEF Inv, WriterProgress, TypeOK, Directory
<1>2. \A b \in Index : data[dir.temp][b] = wr[w].val
  BY DEF Inv, WriterProgress, Index
<1>3. data[dir.temp] = Text(wr[w].val)
  BY <1>1, <1>2 DEF Inv, TypeOK, Content, Text
<1> QED
  BY <1>1, <1>3 DEF IsText

LEMMA SyncFileInv ==
  ASSUME SingleWriter, Inv, NEW w \in Writers, SyncFile(w)
  PROVE  Inv'
<1>1. /\ wr[w].pc = "write" /\ wr[w].off = Blocks
      /\ disk' = [disk EXCEPT ![wr[w].fd] = data[wr[w].fd]]
      /\ wr' = [wr EXCEPT ![w].pc = "replace", ![w].fd = None]
      /\ UNCHANGED <<dir, dirs, data, rd>>
  BY DEF SyncFile, Flushed, Goto
<1>2. wr[w].fd = dir.temp /\ dir.temp \in Inodes /\ dir.temp # None
  BY <1>1 DEF Inv, WriterProgress, TypeOK, Directory
<1>3. IsText(data[dir.temp])
  BY <1>1, FullyWritten
<1>4. disk'[dir.temp] = data[dir.temp] /\ \A i \in Inodes : i # dir.temp => disk'[i] = disk[i]
  BY <1>1, <1>2 DEF Inv, TypeOK
<1>5. wr'[w] = [pc |-> "replace", val |-> wr[w].val, fd |-> None, off |-> wr[w].off]
  BY <1>1 DEF Inv, TypeOK
<1>6. TypeOK'
  <2>1. disk' \in [Inodes -> Content]
    BY <1>1, <1>2 DEF Inv, TypeOK
  <2> QED
    BY <1>1, <1>5, <2>1 DEF Inv, TypeOK
<1>7. NamesApart' /\ TargetNeverTorn'
  BY <1>1, <1>2, <1>4 DEF Inv, NamesApart, TargetNeverTorn, IsText, TypeOK, Directory
<1>8. \A u \in Writers : WriterProgress(u)'
  <2>1. WriterProgress(w)'
    BY <1>1, <1>2, <1>3, <1>4, <1>5 DEF WriterProgress, IsText
  <2> QED
    BY <2>1 DEF SingleWriter
<1>9. \A r \in Readers : ReaderProgress(r)'
  BY <1>1 DEF Inv, ReaderProgress, IsText
<1> QED
  BY <1>6, <1>7, <1>8, <1>9 DEF Inv

LEMMA ReplaceInv ==
  ASSUME SingleWriter, Inv, NEW w \in Writers, Replace(w)
  PROVE  Inv'
<1>1. /\ wr[w].pc = "replace" /\ dir.temp # None
      /\ dir' = [target |-> dir.temp, temp |-> None]
      /\ dirs' = dirs \cup {dir'}
      /\ wr' = [wr EXCEPT ![w].pc = "sync", ![w].fd = None]
      /\ UNCHANGED <<data, disk, rd>>
  BY DEF Replace, SetDirectory, Goto
<1>2. dir.temp \in Inodes /\ IsText(data[dir.temp]) /\ disk[dir.temp] = data[dir.temp]
  BY <1>1 DEF Inv, WriterProgress, TypeOK, Directory
<1>3. wr'[w] = [pc |-> "sync", val |-> wr[w].val, fd |-> None, off |-> wr[w].off]
  BY <1>1 DEF Inv, TypeOK
<1>4. TypeOK'
  BY <1>1, <1>2, <1>3 DEF Inv, TypeOK, Directory
<1>5. NamesApart' /\ TargetNeverTorn'
  BY <1>1, <1>2 DEF Inv, NamesApart, TargetNeverTorn, IsText
<1>6. \A u \in Writers : WriterProgress(u)'
  BY <1>3 DEF SingleWriter, WriterProgress
<1>7. \A r \in Readers : ReaderProgress(r)'
  BY <1>1 DEF Inv, ReaderProgress, IsText
<1> QED
  BY <1>4, <1>5, <1>6, <1>7 DEF Inv

LEMMA SyncDirectoryInv ==
  ASSUME SingleWriter, Inv, NEW w \in Writers, SyncDirectory(w)
  PROVE  Inv'
<1>1. /\ wr[w].pc = "sync" /\ dirs' = {dir}
      /\ wr' = [wr EXCEPT ![w].pc = "cleanup", ![w].fd = None]
      /\ UNCHANGED <<dir, data, disk, rd>>
  BY DEF SyncDirectory, Goto
<1>2. wr'[w] = [pc |-> "cleanup", val |-> wr[w].val, fd |-> None, off |-> wr[w].off]
  BY <1>1 DEF Inv, TypeOK
<1>3. TypeOK' /\ NamesApart' /\ TargetNeverTorn'
  BY <1>1, <1>2 DEF Inv, TypeOK, NamesApart, TargetNeverTorn, IsText
<1>4. \A u \in Writers : WriterProgress(u)'
  BY <1>2 DEF SingleWriter, WriterProgress
<1>5. \A r \in Readers : ReaderProgress(r)'
  BY <1>1 DEF Inv, ReaderProgress, IsText
<1> QED
  BY <1>3, <1>4, <1>5 DEF Inv

LEMMA StepFailsInv ==
  ASSUME SingleWriter, Inv, NEW w \in Writers, StepFails(w)
  PROVE  Inv'
<1>1. /\ wr' = [wr EXCEPT ![w].pc = "cleanup", ![w].fd = None]
      /\ UNCHANGED <<dir, dirs, data, disk, rd>>
  BY DEF StepFails, Goto
<1>2. wr'[w] = [pc |-> "cleanup", val |-> wr[w].val, fd |-> None, off |-> wr[w].off]
  BY <1>1 DEF Inv, TypeOK
<1>3. TypeOK' /\ NamesApart' /\ TargetNeverTorn'
  BY <1>1, <1>2 DEF Inv, TypeOK, NamesApart, TargetNeverTorn, IsText
<1>4. \A u \in Writers : WriterProgress(u)'
  BY <1>2 DEF SingleWriter, WriterProgress
<1>5. \A r \in Readers : ReaderProgress(r)'
  BY <1>1 DEF Inv, ReaderProgress, IsText
<1> QED
  BY <1>3, <1>4, <1>5 DEF Inv

LEMMA CleanupInv ==
  ASSUME SingleWriter, Inv, NEW w \in Writers, Cleanup(w)
  PROVE  Inv'
<1>1. /\ wr' = [wr EXCEPT ![w] = IdleWriter]
      /\ UNCHANGED <<data, disk, rd>>
      /\ \/ dir' = [dir EXCEPT !.temp = None] /\ dirs' = dirs \cup {dir'}
         \/ UNCHANGED <<dir, dirs>>
  BY DEF Cleanup, Unlinked, SetDirectory
<1>2. wr'[w] = IdleWriter
  BY <1>1 DEF Inv, TypeOK
<1>3. dir' = dir \/ (dir'.temp = None /\ dir'.target = dir.target)
  BY <1>1 DEF Inv, TypeOK, Directory
<1>4. TypeOK'
  BY <1>1 DEF Inv, TypeOK, Directory, IdleWriter
<1>5. NamesApart' /\ TargetNeverTorn'
  BY <1>1, <1>3 DEF Inv, NamesApart, TargetNeverTorn, IsText
<1>6. \A u \in Writers : WriterProgress(u)'
  BY <1>2 DEF SingleWriter, WriterProgress, IdleWriter
<1>7. \A r \in Readers : ReaderProgress(r)'
  BY <1>1, <1>3 DEF Inv, ReaderProgress, IsText
<1> QED
  BY <1>4, <1>5, <1>6, <1>7 DEF Inv

LEMMA KillInv ==
  ASSUME SingleWriter, Inv, NEW w \in Writers, Kill(w)
  PROVE  Inv'
<1>1. /\ wr' = [wr EXCEPT ![w] = IdleWriter]
      /\ UNCHANGED <<dir, dirs, data, disk, rd>>
  BY DEF Kill
<1>2. wr'[w] = IdleWriter
  BY <1>1 DEF Inv, TypeOK
<1>3. TypeOK' /\ NamesApart' /\ TargetNeverTorn'
  BY <1>1 DEF Inv, TypeOK, NamesApart, TargetNeverTorn, IsText, IdleWriter
<1>4. \A u \in Writers : WriterProgress(u)'
  BY <1>2 DEF SingleWriter, WriterProgress, IdleWriter
<1>5. \A r \in Readers : ReaderProgress(r)'
  BY <1>1 DEF Inv, ReaderProgress, IsText
<1> QED
  BY <1>3, <1>4, <1>5 DEF Inv

LEMMA ReaderStepInv ==
  ASSUME Inv, NEW r \in Readers, ReaderStep(r)
  PROVE  Inv'
<1>1. UNCHANGED <<dir, dirs, data, disk, wr>>
  BY DEF ReaderStep, OpenTarget, ReadBlock, CloseTarget
<1>2. NamesApart' /\ TargetNeverTorn' /\ \A w \in Writers : WriterProgress(w)'
  BY <1>1 DEF Inv, NamesApart, TargetNeverTorn, WriterProgress, IsText
<1>3. Blank \in Content
  BY DEF Blank, Content
<1>4. CASE OpenTarget(r)
  <2>1. /\ rd' = [rd EXCEPT ![r] = [fd |-> dir.target, got |-> Blank, pos |-> 0]]
        /\ dir.target \in Inodes /\ dir.target # None
    BY <1>4 DEF OpenTarget, Inv, TypeOK, Directory
  <2>2. TypeOK'
    BY <1>1, <1>3, <2>1 DEF Inv, TypeOK
  <2>3. dir.target # dir.temp /\ IsText(data[dir.target])
    BY <2>1 DEF Inv, NamesApart, TargetNeverTorn
  <2>4. \A q \in Readers : ReaderProgress(q)'
    BY <1>1, <2>1, <2>3 DEF Inv, TypeOK, ReaderProgress, IsText, Index
  <2> QED
    BY <1>2, <2>2, <2>4 DEF Inv
<1>5. CASE ReadBlock(r)
  <2> DEFINE n == rd[r].pos + 1
             got == [rd[r].got EXCEPT ![n] = data[rd[r].fd][n]]
  <2>1. /\ rd[r].fd \in Inodes /\ rd[r].fd # None /\ n \in Index
        /\ rd' = [rd EXCEPT ![r].got[n] = data[rd[r].fd][n], ![r].pos = rd[r].pos + 1]
    BY <1>5 DEF ReadBlock, Inv, TypeOK, Index
  <2>2. data[rd[r].fd][n] \in Values \cup {None}
    BY <2>1 DEF Inv, TypeOK, Content
  <2>3. rd'[r] = [fd |-> rd[r].fd, got |-> got, pos |-> n]
    BY <2>1 DEF Inv, TypeOK
  <2>4. \A q \in Readers : q # r => rd'[q] = rd[q]
    BY <2>1 DEF Inv, TypeOK
  <2>5. got \in Content
    BY <2>1, <2>2 DEF Inv, TypeOK, Content
  <2>6. TypeOK'
    <3>1. n \in 0..Blocks
      BY <2>1 DEF Index
    <3>2. rd' = [rd EXCEPT ![r] = [fd |-> rd[r].fd, got |-> got, pos |-> n]]
      BY <2>1, <2>3 DEF Inv, TypeOK
    <3> QED
      BY <1>1, <2>1, <2>5, <3>1, <3>2 DEF Inv, TypeOK
  <2>7. ReaderProgress(r)'
    <3>1. \A b \in Index : b <= n => got[b] = data[rd[r].fd][b]
      BY <2>1 DEF Inv, TypeOK, Content, ReaderProgress, Index
    <3>2. rd'[r].fd = rd[r].fd /\ rd'[r].got = got /\ rd'[r].pos = n
      BY <2>3
    <3>3. rd[r].fd # dir.temp /\ IsText(data[rd[r].fd])
      BY <2>1 DEF Inv, ReaderProgress
    <3> HIDE DEF n, got
    <3> QED
      BY <1>1, <3>1, <3>2, <3>3 DEF ReaderProgress, IsText
  <2>8. \A q \in Readers : ReaderProgress(q)'
    BY <1>1, <2>4, <2>7 DEF Inv, ReaderProgress, IsText
  <2> QED
    BY <1>2, <2>6, <2>8 DEF Inv
<1>6. CASE CloseTarget(r)
  <2>1. rd' = [rd EXCEPT ![r] = IdleReader]
    BY <1>6 DEF CloseTarget
  <2>2. TypeOK'
    BY <1>1, <1>3, <2>1 DEF Inv, TypeOK, IdleReader
  <2>3. \A q \in Readers : ReaderProgress(q)'
    BY <1>1, <2>1 DEF Inv, TypeOK, ReaderProgress, IsText, IdleReader
  <2> QED
    BY <1>2, <2>2, <2>3 DEF Inv
<1> QED
  BY <1>4, <1>5, <1>6 DEF ReaderStep

LEMMA CommitDirectoryInv ==
  ASSUME Inv, CommitDirectory
  PROVE  Inv'
<1>1. dirs' = {dir} /\ UNCHANGED <<dir, data, disk, wr, rd>>
  BY DEF CommitDirectory
<1> QED
  BY <1>1 DEF Inv, TypeOK, NamesApart, TargetNeverTorn, WriterProgress, ReaderProgress, IsText

\* A host failure loses blocks of files, but none of a target's.
LEMMA HostFailureInv ==
  ASSUME Inv, HostFailure
  PROVE  Inv' /\ \A d \in dirs : d.target # None => data'[d.target] = data[d.target]
<1>1. PICK lost \in SUBSET Dirty :
        data' = [i \in Inodes |-> [b \in Index |->
                   IF <<i, b>> \in lost THEN disk[i][b] ELSE data[i][b]]]
  BY DEF HostFailure
<1>2. /\ dir' \in dirs /\ dirs' = {dir'} /\ disk' = data'
      /\ wr' = [w \in Writers |-> IdleWriter] /\ rd' = [r \in Readers |-> IdleReader]
  BY DEF HostFailure
<1>3. data' \in [Inodes -> Content]
  BY <1>1 DEF Inv, TypeOK, Content
<1>4. ASSUME NEW d \in dirs, d.target # None
      PROVE  data'[d.target] = data[d.target]
  <2>1. d.target \in Inodes /\ disk[d.target] = data[d.target]
    BY <1>4 DEF Inv, TypeOK, Directory, TargetNeverTorn
  <2>2. data'[d.target] = [b \in Index |-> data[d.target][b]]
    BY <1>1, <2>1
  <2> QED
    BY <2>1, <2>2 DEF Inv, TypeOK, Content
<1>5. TypeOK'
  BY <1>2, <1>3 DEF Inv, TypeOK, IdleWriter, IdleReader, Blank, Content
<1>6. NamesApart'
  BY <1>2 DEF Inv, NamesApart
<1>7. TargetNeverTorn'
  BY <1>2, <1>4 DEF Inv, TargetNeverTorn, IsText
<1>8. (\A w \in Writers : WriterProgress(w)') /\ (\A r \in Readers : ReaderProgress(r)')
  BY <1>2 DEF WriterProgress, ReaderProgress, IdleWriter, IdleReader
<1> QED
  BY <1>4, <1>5, <1>6, <1>7, <1>8 DEF Inv

LEMMA NextInv ==
  ASSUME SingleWriter, Inv, [Next]_vars
  PROVE  Inv'
<1>1. CASE UNCHANGED vars
  BY <1>1 DEF vars, Inv, TypeOK, NamesApart, TargetNeverTorn, WriterProgress,
              ReaderProgress, IsText
<1>2. ASSUME NEW w \in Writers, WriterStep(w) PROVE Inv'
  BY <1>2, OpenTempInv, WriteBlockInv, SyncFileInv, ReplaceInv, SyncDirectoryInv,
     StepFailsInv, CleanupInv, KillInv DEF WriterStep
<1> QED
  BY <1>1, <1>2, ReaderStepInv, CommitDirectoryInv, HostFailureInv DEF Next

(***************************************************************************)
(* With one writer, every state of every behaviour satisfies the inductive *)
(* invariant: types, names that never alias, and progress of both sides.   *)
(***************************************************************************)
THEOREM Invariance == ASSUME SingleWriter PROVE Spec => []Inv
<1>1. Inv /\ [Next]_vars => Inv'
  BY NextInv
<1> QED
  BY InitInv, <1>1, PTL DEF Spec

(***************************************************************************)
(* With one writer, atomic_write_text never leaves a torn target, on the   *)
(* running host or after a failure of it.                                  *)
(***************************************************************************)
THEOREM NeverTorn == ASSUME SingleWriter PROVE Spec => []TargetNeverTorn
<1>1. Inv => TargetNeverTorn
  BY DEF Inv
<1> QED
  BY Invariance, <1>1, PTL

(***************************************************************************)
(* With one writer, a load overlapping any number of saves reads one text. *)
(***************************************************************************)
THEOREM OneText == ASSUME SingleWriter PROVE Spec => []ReadersSeeOneText
<1>1. ASSUME Inv, NEW r \in Readers, rd[r].fd # None, rd[r].pos = Blocks
      PROVE  IsText(rd[r].got)
  <2>1. IsText(data[rd[r].fd]) /\ \A b \in Index : rd[r].got[b] = data[rd[r].fd][b]
    BY <1>1 DEF Inv, ReaderProgress, Index
  <2>2. rd[r].got = data[rd[r].fd]
    BY <1>1, <2>1 DEF Inv, TypeOK, Content
  <2> QED
    BY <2>1, <2>2
<1>2. Inv => ReadersSeeOneText
  BY <1>1 DEF ReadersSeeOneText
<1> QED
  BY Invariance, <1>2, PTL
-----------------------------------------------------------------------------
LEMMA InitRefines == Init => Register!Init
BY DEF Init, Register!Init, TextOf

LEMMA BlockOne == 1 \in Index
BY DEF Index

\* A step that renames nothing to the target and leaves the targets' contents
\* alone is a stutter of the register.
LEMMA StutterRefines ==
  ASSUME dir \in dirs, dir'.target = dir.target,
         dirs' = dirs \/ dirs' = dirs \cup {dir'},
         \A d \in dirs : TextOf(d.target)' = TextOf(d.target)
  PROVE  UNCHANGED Register!vars
<1>1. TextOf(dir.target)' = TextOf(dir.target)
  BY DEF TextOf
<1>2. {TextOf(d.target) : d \in dirs}' = {TextOf(d.target) : d \in dirs}
  BY <1>1 DEF TextOf
<1> QED
  BY <1>1, <1>2 DEF Register!vars

LEMMA WriterStepRefines ==
  ASSUME SingleWriter, Inv, NEW w \in Writers, WriterStep(w)
  PROVE  [Register!Next]_(Register!vars)
<1> USE DEF Inv, NamesApart
<1>1. \A d \in dirs : d.target # None => d.target \in Inodes
  BY DEF TypeOK, Directory
<1>2. ASSUME NEW v \in Values, OpenTemp(w, v) PROVE UNCHANGED Register!vars
  <2>1. PICK i \in Inodes :
          /\ (dir.temp = None /\ i \notin InUse) \/ i = dir.temp
          /\ data' = [data EXCEPT ![i] = Blank]
          /\ dir' = [dir EXCEPT !.temp = i] /\ dirs' = dirs \cup {dir'}
    BY <1>2 DEF OpenTemp, Temporary, SetDirectory
  <2>2. dir'.target = dir.target
    BY <2>1 DEF TypeOK, Directory
  <2>3. \A d \in dirs : d.target # i
    BY <2>1 DEF InUse, AtomicFileAssumption
  <2>4. \A d \in dirs : TextOf(d.target)' = TextOf(d.target)
    BY <1>1, <2>1, <2>3 DEF TextOf, TypeOK
  <2> QED
    BY <2>1, <2>2, <2>4, StutterRefines
<1>3. CASE WriteBlock(w)
  <2>1. /\ wr[w].fd = dir.temp /\ dir.temp \in Inodes
        /\ data' = [data EXCEPT ![wr[w].fd][wr[w].off + 1] = wr[w].val]
        /\ UNCHANGED <<dir, dirs>>
    BY <1>3 DEF WriteBlock, WriterProgress, TypeOK, Directory
  <2>2. \A d \in dirs : TextOf(d.target)' = TextOf(d.target)
    BY <1>1, <2>1 DEF TextOf, TypeOK
  <2> QED
    BY <2>1, <2>2, StutterRefines
<1>4. CASE SyncFile(w) \/ StepFails(w) \/ Kill(w)
  <2>1. UNCHANGED <<dir, dirs, data>>
    BY <1>4 DEF SyncFile, StepFails, Kill
  <2> QED
    BY <2>1, StutterRefines DEF TextOf
<1>5. CASE Cleanup(w)
  <2>1. /\ UNCHANGED data
        /\ \/ dir' = [dir EXCEPT !.temp = None] /\ dirs' = dirs \cup {dir'}
           \/ UNCHANGED <<dir, dirs>>
    BY <1>5 DEF Cleanup, Unlinked, SetDirectory
  <2>2. dir'.target = dir.target
    BY <2>1 DEF TypeOK, Directory
  <2> QED
    BY <2>1, <2>2, StutterRefines DEF TextOf
<1>6. CASE Replace(w)
  <2>1. /\ dir' = [target |-> dir.temp, temp |-> None] /\ dirs' = dirs \cup {dir'}
        /\ UNCHANGED data /\ dir.temp \in Inodes /\ dir.temp # None
        /\ IsText(data[dir.temp])
    BY <1>6 DEF Replace, SetDirectory, WriterProgress, TypeOK, Directory
  <2>2. PICK v \in Values : data[dir.temp] = Text(v)
    BY <2>1 DEF IsText
  <2>3. TextOf(dir.target)' = v
    BY <2>1, <2>2, BlockOne DEF TextOf, Text
  <2>4. {TextOf(d.target) : d \in dirs}' = {TextOf(d.target) : d \in dirs} \cup {v}
    <3>1. \A d : TextOf(d.target)' = TextOf(d.target)
      BY <2>1 DEF TextOf
    <3>2. {TextOf(d.target) : d \in dirs}' = {TextOf(d.target)' : d \in dirs'}
      OBVIOUS
    <3> QED
      BY <2>1, <2>3, <3>1, <3>2
  <2> QED
    BY <2>3, <2>4 DEF Register!Next, Register!Replace
<1>7. CASE SyncDirectory(w)
  <2>1. dirs' = {dir} /\ UNCHANGED <<dir, data>>
    BY <1>7 DEF SyncDirectory
  <2> QED
    BY <2>1 DEF Register!Next, Register!Commit, TextOf
<1> QED
  BY <1>2, <1>3, <1>4, <1>5, <1>6, <1>7 DEF WriterStep

LEMMA NextRefines ==
  ASSUME SingleWriter, Inv, [Next]_vars
  PROVE  [Register!Next]_(Register!vars)
<1>1. dir \in dirs
  BY DEF Inv, NamesApart
<1>2. CASE UNCHANGED vars
  BY <1>2 DEF vars, Register!vars, TextOf
<1>3. ASSUME NEW r \in Readers, ReaderStep(r) PROVE UNCHANGED Register!vars
  BY <1>3 DEF ReaderStep, OpenTarget, ReadBlock, CloseTarget, Register!vars, TextOf
<1>4. CASE CommitDirectory
  BY <1>4 DEF CommitDirectory, Register!Next, Register!Commit, TextOf
<1>5. CASE HostFailure
  <2>1. dir' \in dirs /\ dirs' = {dir'}
    BY <1>5 DEF HostFailure
  <2>2. TextOf(dir.target)' = TextOf(dir'.target)
    BY <1>5, <2>1, HostFailureInv DEF TextOf
  <2>3. {TextOf(d.target) : d \in dirs}' = {TextOf(dir'.target)}
    BY <2>1, <2>2 DEF TextOf
  <2> QED
    BY <2>1, <2>2, <2>3 DEF Register!Next, Register!HostFailure
<1> QED
  BY <1>2, <1>3, <1>4, <1>5, WriterStepRefines DEF Next

(***************************************************************************)
(* With one writer, atomic_write_text implements the durable register that *)
(* every store and every reload of the system relies on.                   *)
(***************************************************************************)
THEOREM Refinement == ASSUME SingleWriter PROVE Spec => ImplementsRegister
<1>1. Inv /\ [Next]_vars => [Register!Next]_(Register!vars)
  BY NextRefines
<1> QED
  BY InitRefines, Invariance, <1>1, PTL DEF Spec, ImplementsRegister, Register!Spec
=============================================================================
