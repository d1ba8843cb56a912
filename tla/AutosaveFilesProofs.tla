------------------------ MODULE AutosaveFilesProofs ------------------------
(***************************************************************************)
(* For every number of sequence files, of saves, of failing operations and *)
(* of crashes: .sav and .savB are never both given up, and a boot restores *)
(* what was reported as saved.                                             *)
(*                                                                         *)
(* The step that truncates a file does not look at the other one; it was   *)
(* looked at, or written, when the job began. The invariant says what each *)
(* job relies on until it ends. What is reported is in both files at that  *)
(* moment, and later writes are newer: the first good one of them will do. *)
(***************************************************************************)
EXTENDS AutosaveFiles, SequencesExt, SequenceTheorems, WellFoundedInduction, TLAPS

\* Append adds an element.
LEMMA AppendToSet ==
  ASSUME NEW S, NEW s \in Seq(S), NEW n \in S
  PROVE  Append(s, n) \in Seq(S) /\ ToSet(Append(s, n)) = ToSet(s) \cup {n}
  BY AppendProperties DEF ToSet

\* Min of FiniteSetsExt is the least element of a set of natural numbers.
LEMMA LeastNumber ==
  ASSUME NEW S \in SUBSET Nat, S # {}
  PROVE  Min(S) \in S /\ \A n \in S : Min(S) <= n
<1>1. PICK m \in S : \A n \in S : <<n, m>> \notin OpToRel(<, Nat)
  BY NatLessThanWellFounded, WFMin, Zenon
<1>2. ASSUME NEW n \in S  PROVE ~(n < m)
  <2>1. n \in Nat /\ m \in Nat
    OBVIOUS
  <2>2. <<n, m>>[1] = n /\ <<n, m>>[2] = m /\ <<n, m>> \in Nat \X Nat
    BY <2>1
  <2> QED BY <1>1, <2>2, Zenon DEF OpToRel
<1>3. \A n \in S : m <= n
  BY <1>2
<1> QED BY <1>3 DEF Min

\* What is left of a sequence when the first occurrence of a value is removed
\* is a sequence over the same set.
LEMMA RemoveFirstType ==
  ASSUME NEW S, NEW s \in Seq(S), NEW e
  PROVE  RemoveFirst(s, e) \in Seq(S)
<1>1. CASE \E i \in 1 .. Len(s) : s[i] = e
  <2> DEFINE I == {i \in 1 .. Len(s) : s[i] = e}
  <2>1. RemoveFirst(s, e) = RemoveAt(s, Min(I))
    BY <1>1 DEF RemoveFirst, SelectInSeq
  <2>2. Min(I) \in I
    <3>1. I \in SUBSET Nat /\ I # {}
      BY <1>1
    <3> HIDE DEF I
    <3> QED BY <3>1, LeastNumber
  <2> DEFINE i == Min(I)
  <2>3. SubSeq(s, 1, i - 1) \in Seq(S) /\ SubSeq(s, i + 1, Len(s)) \in Seq(S)
    <3> HIDE DEF i
    <3>1. i \in 1 .. Len(s)
      BY <2>2 DEF i
    <3> QED BY <3>1, SubSeqProperties
  <2>4. RemoveAt(s, i) \in Seq(S)
    BY <2>3, ConcatProperties DEF RemoveAt
  <2> QED BY <2>1, <2>4
<1> QED BY <1>1 DEF RemoveFirst

-----------------------------------------------------------------------------
Manual == {"named", "unnamed"}
Automatic   == {"auto", "seq"}

\* The files a job names, and the one it has opened, which is not good.
JobTyped ==
    /\ job \in [do : {"idle", "boot", "backup", "date", "save", "copy", "sequence", "rewrite"},
                how : Manual \cup Automatic, into : Files \cup {Nothing},
                from : Files \cup {Nothing}, copyTo : Files \cup {Nothing}, open : BOOLEAN]
    /\ job.open => job.into \in Files /\ ~Good(job.into)

\* What each job relies on: the save file is opened when .savB is good, .savB
\* when it is bad or .sav has just been written.
JobSafe ==
    /\ job.do = "save" =>
         /\ job.into = Target(job.how) /\ job.from = Nothing
         /\ job.how \in Automatic => Good("savB") /\ job.copyTo \in {"savB", Nothing}
         /\ job.how \in Manual => job.copyTo \in {"dated", Nothing}
    /\ job.do = "backup" =>
         job.into = "savB" /\ job.from = Nothing /\ job.how \in Automatic /\ ~Good("savB")
    /\ job.do = "copy" =>
         /\ job.how \in Automatic => job.into = "savB" /\ Good("sav")
         /\ job.how \in Manual => job.into \in {"dated", Nothing}
    /\ job.do = "date" => job.into = "dated" /\ job.copyTo = "dated" /\ job.how \in Manual
    /\ job.do \in {"sequence", "rewrite"} => job.into \in SeqNames /\ job.how = "seq"

FileTyped == file \in [Files -> [state : {"absent", "empty", "partial", "whole"}, values : Nat]]

PairInv ==
    /\ FileTyped
    /\ fetched \in Nat
    /\ seqNum \in 0 .. NumSeqFiles
    /\ job.how = "seq" => seqNum # 0
    /\ JobTyped
    /\ JobSafe

----------------------------------------------------------------------------
\* The sequence files are files of their own.
LEMMA SequenceFileNames ==
    ASSUME NEW n \in 1 .. NumSeqFiles
    PROVE  SequenceFiles[n] \in SeqNames
  BY FilesAssumption DEF NumSeqFiles, SeqNames, ToSet

LEMMA NamesDiffer ==
    /\ SeqNames \cap {"sav", "savB", "config", "dated"} = {}
    /\ SeqNames \subseteq Files
    /\ Nothing \notin Files
    /\ NumSeqFiles \in Nat
  BY FilesAssumption DEF SeqNames, Files, NumSeqFiles

\* The first job of write_save_file relies on what it has just looked at.
LEMMA FirstJobSafe ==
    ASSUME PairInv, NEW how \in Manual \cup Automatic
    PROVE  LET j == FirstJob(how)
           IN  /\ j.do \in {"backup", "date", "save"} /\ j.how = how /\ ~j.open
               /\ j \in [do : {"backup", "date", "save"}, how : Manual \cup Automatic, into : Files \cup {Nothing},
                         from : Files \cup {Nothing}, copyTo : Files \cup {Nothing}, open : BOOLEAN]
               /\ j.do = "save" =>
                    /\ j.into = Target(how) /\ j.from = Nothing
                    /\ how \in Automatic => Good("savB") /\ j.copyTo = "savB"
                    /\ how \in Manual => j.copyTo = Nothing
               /\ j.do = "backup" => j.into = "savB" /\ j.from = Nothing /\ how \in Automatic /\ ~Good("savB")
               /\ j.do = "date" => j.into = "dated" /\ j.copyTo = "dated" /\ how \in Manual
  <1>1. CASE how \in Automatic /\ Good("savB")
    <2>1. FirstJob(how) = SaveJob(how, "savB")
      BY <1>1 DEF FirstJob, Automatic
    <2> QED BY <1>1, <2>1 DEF SaveJob, Job, Target, Automatic, Manual, Files
  <1>2. CASE how \in Automatic /\ ~Good("savB")
    <2>1. FirstJob(how) = Job("backup", how, "savB", Nothing, Nothing)
      BY <1>2 DEF FirstJob, Automatic
    <2> QED BY <1>2, <2>1 DEF Job, Automatic, Manual, Files
  <1>3. CASE how \in Manual /\ ~Absent(Target(how))
    <2>1. FirstJob(how) = Job("date", how, "dated", Target(how), "dated")
      BY <1>3 DEF FirstJob, Manual
    <2> QED BY <1>3, <2>1 DEF Job, Target, Automatic, Manual, Files
  <1>4. CASE how \in Manual /\ Absent(Target(how))
    <2>1. FirstJob(how) = SaveJob(how, Nothing)
      BY <1>4 DEF FirstJob, Manual
    <2> QED BY <1>4, <2>1 DEF SaveJob, Job, Target, Automatic, Manual, Files
  <1> QED BY <1>1, <1>2, <1>3, <1>4
\* What follows a file operation relies on what the operation has left.
LEMMA DoneSafe ==
    ASSUME PairInv, Writing, NEW ok \in BOOLEAN, Done(ok), FileTyped',
           \A f \in Files \ {job.into} : file'[f] = file[f],
           ok /\ job.do \in {"backup", "save"} => file'[job.into].state = "whole"
    PROVE  PairInv'
  <1>1. fetched' = fetched /\ job.how \in Manual \cup Automatic /\ job.into \in Files \cup {Nothing}
    BY DEF PairInv, JobTyped, Done
  <1>2. ASSUME Return(ok) \/ Return(FALSE)  PROVE PairInv'
    <2>1. seqNum' = seqNum /\ seqNum \in 0 .. NumSeqFiles
      BY <1>2 DEF Return, PairInv
    <2>2. CASE job.how = "seq"
      <3>1. seqNum \in 1 .. NumSeqFiles /\ job' = SeqJob(seqNum)
        BY <1>2, <2>1, <2>2, NamesDiffer DEF Return, PairInv
      <3> QED BY <1>1, <2>1, <3>1, NamesDiffer, SequenceFileNames
           DEF PairInv, JobTyped, JobSafe, SeqJob, Job, Manual, Automatic, Files
    <2>3. CASE job.how # "seq"
      <3>1. job' = Idle
        BY <1>2, <2>3 DEF Return
      <3> QED BY <1>1, <2>1, <3>1 DEF PairInv, JobTyped, JobSafe, Idle, Job, Manual, Automatic
    <2> QED BY <2>2, <2>3
  <1>3. CASE BackupDone(ok)
    <2>1. CASE ok
      <3>1. job' = SaveJob(job.how, Nothing) /\ seqNum' = seqNum /\ job.how \in Automatic /\ Good("savB")'
        BY <1>3, <2>1 DEF BackupDone, PairInv, JobSafe, Good
      <3> QED BY <1>1, <3>1, NamesDiffer
           DEF PairInv, JobTyped, JobSafe, SaveJob, Job, Target, Manual, Automatic, Files
    <2> QED BY <1>2, <1>3, <2>1 DEF BackupDone
  <1>4. CASE DateDone
    <2>1. /\ job' = SaveJob(job.how, job.copyTo) /\ seqNum' = seqNum
          /\ job.how \in Manual /\ job.copyTo = "dated"
      BY <1>4 DEF DateDone, PairInv, JobSafe
    <2> QED BY <1>1, <2>1, NamesDiffer
         DEF PairInv, JobTyped, JobSafe, SaveJob, Job, Target, Manual, Automatic, Files
  <1>5. CASE SaveDone(ok)
    <2>1. ASSUME ok, job.copyTo = Nothing => job.how \notin {"auto", "seq"},
                 job' = Job("copy", job.how, job.copyTo, Target(job.how), Nothing), seqNum' = seqNum
          PROVE  PairInv'
      <3>1. CASE job.how \in Automatic
        <4>1. job.copyTo = "savB" /\ job.into = "sav" /\ Good("sav")'
          BY <1>5, <2>1, <3>1 DEF SaveDone, PairInv, JobSafe, Target, Automatic, Good
        <4> QED BY <1>1, <2>1, <3>1, <4>1, NamesDiffer
             DEF PairInv, JobTyped, JobSafe, Job, Target, Manual, Automatic, Files
      <3>2. CASE job.how \in Manual
        BY <1>1, <1>5, <2>1, <3>2, NamesDiffer
        DEF SaveDone, PairInv, JobTyped, JobSafe, Job, Target, Manual, Automatic, Files
      <3> QED BY <1>1, <3>1, <3>2
    <2> QED BY <1>2, <1>5, <2>1 DEF SaveDone
  <1>6. CASE CopyDone(ok)
    BY <1>2, <1>6 DEF CopyDone
  <1>7. CASE SequenceDone(ok)
    <2>1. seqNum' \in 0 .. NumSeqFiles /\ (seqNum # 0 => seqNum' # 0)
      <3>1. seqNum \in 0 .. NumSeqFiles /\ NumSeqFiles \in Nat
        BY NamesDiffer DEF PairInv
      <3>2. NumSeqFiles # 0
        BY <1>7, FilesAssumption DEF SequenceDone, PairInv, JobSafe, SeqNames, ToSet, NumSeqFiles
      <3> QED BY <1>7, <3>1, <3>2 DEF SequenceDone, NextSeqNum
    <2>2. job.into \in SeqNames
      BY <1>7 DEF SequenceDone, PairInv, JobSafe
    <2>3. CASE job' = Idle
      BY <1>1, <2>1, <2>3 DEF PairInv, JobTyped, JobSafe, Idle, Job, Manual, Automatic
    <2>4. CASE job' = Job("rewrite", "seq", job.into, Nothing, Nothing) /\ ~ok
      <3>1. seqNum' = seqNum
        BY <1>7, <2>4 DEF SequenceDone
      <3>2. seqNum # 0
        BY <1>7, <2>4 DEF SequenceDone, PairInv, JobSafe
      <3> QED BY <1>1, <2>1, <2>2, <2>4, <3>1, <3>2, NamesDiffer
           DEF PairInv, JobTyped, JobSafe, Job, Manual, Automatic, Files
    <2> QED BY <1>7, <2>3, <2>4 DEF SequenceDone
  <1> QED BY <1>3, <1>4, <1>5, <1>6, <1>7 DEF Done
----------------------------------------------------------------------------
LEMMA PairInit == Init => PairInv
  BY NamesDiffer DEF Init, PairInv, FileTyped, JobTyped, JobSafe, Idle, Job, Content, Files, Automatic, Manual

\* The write or copy that ends leaves a file of text and version.
LEMMA WrittenTyped ==
    ASSUME PairInv, Writing, job.open
    PROVE  /\ job.into \in Files
           /\ Written \in [state : {"absent", "empty", "partial", "whole"}, values : Nat]
           /\ job.do \in {"backup", "save"} => ~Copying /\ Written.state = "whole"
  <1>1. job.into \in Files /\ job.from \in Files \cup {Nothing}
    BY DEF PairInv, JobTyped
  <1>2. job.do \in {"backup", "save"} => ~Copying
    BY DEF PairInv, JobSafe, Copying
  <1>3. CASE Copying
    BY <1>1, <1>2, <1>3 DEF Written, Copying, PairInv, FileTyped
  <1>4. CASE ~Copying
    BY <1>1, <1>4 DEF Written, Whole, PairInv
  <1> QED BY <1>1, <1>2, <1>3, <1>4

LEMMA PairStep == PairInv /\ [Next]_vars => PairInv'
<1> SUFFICES ASSUME PairInv, [Next]_vars PROVE PairInv'
  OBVIOUS
<1>1. ASSUME NEW how \in {"auto", "named", "unnamed"}, WriteSaveFile(how)  PROVE PairInv'
  <2>1. job' = FirstJob(how) /\ file' = file /\ seqNum' = seqNum /\ fetched' = fetched + 1
    BY <1>1 DEF WriteSaveFile
  <2>2. job'.how = how
    BY <2>1, FirstJobSafe DEF Manual, Automatic
  <2>3. JobTyped' /\ JobSafe'
    BY <2>1, FirstJobSafe DEF JobTyped, JobSafe, Good, Manual, Automatic
  <2> QED BY <2>1, <2>2, <2>3 DEF PairInv, FileTyped
<1>2. CASE DoSeq
  <2>1. file' = file /\ fetched' = fetched /\ seqNum' \in 1 .. NumSeqFiles
    <3>1. FirstSeqNums \subseteq 1 .. NumSeqFiles
      BY DEF FirstSeqNums
    <3> QED BY <1>2, <3>1, NamesDiffer DEF DoSeq, PairInv
  <2>2. CASE Absent("sav")
    <3>1. job' = FirstJob("seq")
      BY <1>2, <2>2 DEF DoSeq
    <3>2. JobTyped' /\ JobSafe'
      BY <2>1, <3>1, FirstJobSafe DEF JobTyped, JobSafe, Good, Manual, Automatic
    <3> QED BY <2>1, <3>2, NamesDiffer DEF PairInv, FileTyped
  <2>3. CASE ~Absent("sav")
    <3>1. job' = SeqJob(seqNum')
      BY <1>2, <2>3 DEF DoSeq
    <3>2. SequenceFiles[seqNum'] \in SeqNames
      BY <2>1, SequenceFileNames
    <3> QED BY <2>1, <3>1, <3>2, NamesDiffer
         DEF PairInv, FileTyped, JobTyped, JobSafe, SeqJob, Job, Manual, Automatic, Files
  <2> QED BY <2>2, <2>3
<1>3. CASE OpenFails
  <2>1. Writing /\ Done(FALSE) /\ file' = file
    BY <1>3 DEF OpenFails
  <2> QED BY <2>1, DoneSafe DEF PairInv, FileTyped
<1>4. CASE Opens
  <2>1. /\ job.into \in Files /\ job' = [job EXCEPT !.open = TRUE]
        /\ file' = [file EXCEPT ![job.into] = Content("empty")]
        /\ UNCHANGED <<fetched, seqNum>>
    BY <1>4 DEF Opens, PairInv, JobTyped, memory
  <2>2. FileTyped' /\ \A f \in Files \ {job.into} : file'[f] = file[f]
    BY <2>1 DEF PairInv, FileTyped, Content
  <2>3. file'[job.into].state = "empty"
    BY <2>1 DEF PairInv, FileTyped, Content
  <2>4. JobTyped'
    BY <2>1, <2>3 DEF PairInv, JobTyped, Good
  <2>5. JobSafe'
    BY <2>1, <2>2, <2>3, NamesDiffer DEF PairInv, JobTyped, JobSafe, Good, Target, Automatic, Manual, Files
  <2> QED BY <2>1, <2>2, <2>4, <2>5 DEF PairInv, JobTyped
<1>5. CASE Flushes
  <2>1. /\ job.into \in Files /\ job' = job /\ file[job.into].state = "empty"
        /\ file' = [file EXCEPT ![job.into] = Content("partial")]
        /\ UNCHANGED <<fetched, seqNum>>
    BY <1>5 DEF Flushes, PairInv, JobTyped, memory
  <2>2. FileTyped' /\ \A f \in Files \ {job.into} : file'[f] = file[f]
    BY <2>1 DEF PairInv, FileTyped, Content
  <2>3. file'[job.into].state = "partial"
    BY <2>1 DEF PairInv, FileTyped, Content
  <2>4. JobTyped' /\ \A f \in Files : Good(f)' = Good(f)
    BY <2>1, <2>2, <2>3 DEF PairInv, JobTyped, Good
  <2>5. JobSafe'
    BY <2>1, <2>4 DEF PairInv, JobTyped, JobSafe, Target, Files
  <2> QED BY <2>1, <2>2, <2>4, <2>5 DEF PairInv
<1>6. CASE Succeeds
  <2>1. Writing /\ job.open /\ Done(TRUE) /\ file' = [file EXCEPT ![job.into] = Written]
    BY <1>6 DEF Succeeds
  <2>2. FileTyped' /\ \A f \in Files \ {job.into} : file'[f] = file[f]
    BY <2>1, WrittenTyped DEF PairInv, FileTyped
  <2>3. job.do \in {"backup", "save"} => file'[job.into].state = "whole"
    BY <2>1, WrittenTyped DEF PairInv, FileTyped
  <2> QED BY <2>1, <2>2, <2>3, DoneSafe
<1>7. CASE Fails
  <2>1. PICK content \in {file[job.into], Content("partial")} \cup (IF Copying THEN {} ELSE {Whole(fetched)}) :
          Writing /\ job.open /\ file' = [file EXCEPT ![job.into] = content]
    BY <1>7 DEF Fails
  <2>2. job.into \in Files
    BY <2>1, WrittenTyped
  <2>3. content \in [state : {"absent", "empty", "partial", "whole"}, values : Nat]
    BY <2>1, <2>2 DEF PairInv, FileTyped, Content, Whole
  <2>4. FileTyped' /\ \A f \in Files \ {job.into} : file'[f] = file[f]
    BY <2>1, <2>2, <2>3 DEF PairInv, FileTyped
  <2>5. Done(FALSE) \/ (Copying /\ Done(TRUE))
    BY <1>7 DEF Fails
  <2> QED BY <2>1, <2>4, <2>5, DoneSafe, WrittenTyped
<1>8. CASE Crash
  <2>1. job' = Boot /\ seqNum' = 0 /\ UNCHANGED <<file, fetched>>
    BY <1>8 DEF Crash
  <2>2. /\ Boot = [do |-> "boot", how |-> "auto", into |-> Nothing, from |-> Nothing,
                   copyTo |-> Nothing, open |-> FALSE]
    BY DEF Boot, Job
  <2>3. JobTyped' /\ JobSafe'
    BY <2>1, <2>2 DEF JobTyped, JobSafe, Manual, Automatic
  <2> QED BY <2>1, <2>2, <2>3, NamesDiffer DEF PairInv, FileTyped
<1>9. CASE Restore
  BY <1>9, NamesDiffer
  DEF Restore, PairInv, FileTyped, JobTyped, JobSafe, Idle, Job, Manual, Automatic, memory
<1>10. CASE UNCHANGED vars
  BY <1>10 DEF vars, memory, PairInv, FileTyped, JobTyped, JobSafe, Good, Target
<1> QED BY <1>1, <1>2, <1>3, <1>4, <1>5, <1>6, <1>7, <1>8, <1>9, <1>10 DEF Next

\* The step that gives a good file up finds the other one good, unless it is
\* that of a manual save without a file name.
LEMMA PairProtected ==
    PairInv /\ [Next]_vars =>
      \A f \in {"sav", "savB"} :
         Good(f) /\ ~Good(f)' /\ job.how # "unnamed" => \E g \in {"sav", "savB"} \ {f} : Good(g)
<1> SUFFICES ASSUME PairInv, [Next]_vars, NEW f \in {"sav", "savB"},
                    Good(f), ~Good(f)', job.how # "unnamed"
             PROVE  \E g \in {"sav", "savB"} \ {f} : Good(g)
  OBVIOUS
<1>1. file' # file
  BY DEF Good
<1>2. job.into = f
  <2>1. \E content : file' = [file EXCEPT ![job.into] = content]
    BY <1>1 DEF Next, WriteSaveFile, DoSeq, OpenFails, Opens, Flushes, Succeeds, Fails, Crash, Restore, vars
  <2> QED BY <2>1 DEF Good, PairInv, FileTyped, Files
<1>3. Writing
  BY <1>1 DEF Next, WriteSaveFile, DoSeq, OpenFails, Opens, Flushes, Succeeds, Fails, Crash, Restore, vars
<1>4. job.do \notin {"sequence", "rewrite"}
  BY <1>2, NamesDiffer DEF PairInv, JobSafe
<1>5. job.do # "backup" /\ job.do # "date"
  BY <1>2 DEF PairInv, JobSafe
<1>6. CASE job.do = "save"
  <2>1. job.how \in Automatic /\ f = "sav"
    BY <1>2, <1>6 DEF PairInv, JobTyped, JobSafe, Target, Manual, Automatic
  <2> QED BY <1>6, <2>1 DEF PairInv, JobSafe
<1>7. CASE job.do = "copy"
  <2>1. job.how \in Automatic
    BY <1>2, <1>7, NamesDiffer DEF PairInv, JobTyped, JobSafe, Manual, Automatic, Files
  <2>2. job.into = "savB" /\ Good("sav")
    BY <1>7, <2>1 DEF PairInv, JobSafe
  <2> QED BY <1>2, <2>2
<1> QED BY <1>3, <1>4, <1>5, <1>6, <1>7 DEF Writing, PairInv, JobTyped

\* For every number of files, saves, errors and crashes: write_save_file does
\* not give up the one good file of .sav and .savB.
THEOREM FilesOverwriteProtected == Spec => OverwriteProtected
<1>1. PairInv /\ [Next]_vars => [\A f \in {"sav", "savB"} :
         Good(f) /\ ~Good(f)' /\ job.how # "unnamed" => \E g \in {"sav", "savB"} \ {f} : Good(g)]_vars
  BY PairProtected
<1> QED BY <1>1, PairInit, PairStep, PTL DEF Spec, OverwriteProtected

----------------------------------------------------------------------------
(* What a boot restores.                                                   *)

\* A good save file or backup is at least as new as the values reported.
Fresh(f) == Good(f) => file[f].values >= acked

\* What is reported is in both files: a copy reports the .sav it was made
\* from, a save without a copy the .savB that was written before it. One of
\* them stays good, unless a manual save takes .sav while .savB is bad.
FreshInv ==
    /\ age \in Seq(SeqNames)
    /\ acked \in Nat /\ acked <= fetched
    /\ Fresh("sav") /\ Fresh("savB")
    /\ acked > 0 /\ ~exposed => Good("sav") \/ Good("savB")
    /\ job.do = "copy" /\ job.how \in Automatic => job.from = "sav" /\ file["sav"].values = fetched
    /\ job.do = "save" /\ job.how \in Automatic /\ job.copyTo = Nothing => file["savB"].values = fetched

LEMMA FreshInit == Init => FreshInv
<1> SUFFICES ASSUME Init PROVE FreshInv
  OBVIOUS
<1>1. age \in Seq(SeqNames) /\ acked = 0 /\ fetched = 0
  BY DEF Init
<1>2. ~Good("sav") /\ ~Good("savB") /\ job.do = "idle"
  BY DEF Init, Good, Content, Files, Idle, Job
<1> QED BY <1>1, <1>2 DEF FreshInv, Fresh

\* A step leaves .sav and .savB as they are, damages one, or writes in one
\* the values last fetched.
LEMMA FilesGetFetched ==
    ASSUME PairInv, FreshInv, [Next]_vars, NEW f \in {"sav", "savB"}, Good(f)'
    PROVE  file'[f] = file[f] \/ (Writing /\ job.into = f /\ file'[f].values = fetched)
<1>1. f \in Files /\ file \in [Files -> [state : {"absent", "empty", "partial", "whole"}, values : Nat]]
  BY DEF Files, PairInv, FileTyped
<1>2. CASE Opens \/ Flushes
  <2>1. PICK state \in {"empty", "partial"} : file' = [file EXCEPT ![job.into] = Content(state)]
    BY <1>2 DEF Opens, Flushes
  <2>2. job.into # f
    BY <1>1, <2>1 DEF Good, Content
  <2> QED BY <1>1, <2>1, <2>2
<1>3. CASE Succeeds
  <2>1. Writing /\ job.open /\ file' = [file EXCEPT ![job.into] = Written]
    BY <1>3 DEF Succeeds
  <2>2. CASE job.into = f /\ ~Copying
    BY <1>1, <2>1, <2>2 DEF Written, Whole
  <2>3. CASE job.into = f /\ Copying
    <3>1. job.do \notin {"sequence", "rewrite", "date", "backup", "save"}
      BY <2>3, NamesDiffer DEF PairInv, JobSafe, Copying
    <3>2. job.do = "copy" /\ job.how \in Automatic
      BY <2>1, <2>3, <3>1, NamesDiffer DEF Writing, PairInv, JobTyped, JobSafe, Manual, Automatic, Files
    <3>3. job.from = "sav" /\ file["sav"].values = fetched
      BY <3>2 DEF FreshInv
    <3> QED BY <1>1, <2>1, <2>3, <3>3 DEF Written
  <2> QED BY <1>1, <2>1, <2>2, <2>3
<1>4. CASE Fails
  <2>1. PICK content \in {file[job.into], Content("partial")} \cup (IF Copying THEN {} ELSE {Whole(fetched)}) :
          Writing /\ job.open /\ file' = [file EXCEPT ![job.into] = content]
    BY <1>4 DEF Fails
  <2>2. job.open => ~Good(job.into)
    BY DEF PairInv, JobTyped
  <2>3. CASE job.into = f
    <3>1. file'[f] = content /\ content.state = "whole"
      BY <1>1, <2>1, <2>3 DEF Good
    <3>2. content = Whole(fetched)
      BY <2>1, <2>2, <2>3, <3>1 DEF Good, Content
    <3> QED BY <2>1, <2>3, <3>1, <3>2 DEF Whole
  <2> QED BY <1>1, <2>1, <2>3
<1>5. CASE ~(Opens \/ Flushes \/ Succeeds \/ Fails)
  BY <1>5 DEF Next, WriteSaveFile, DoSeq, OpenFails, Crash, Restore, vars
<1> QED BY <1>2, <1>3, <1>4, <1>5

\* Of a pair with a good file one stays good, unless a manual save takes it.
LEMMA OneStaysGood ==
    ASSUME PairInv, [Next]_vars, Good("sav") \/ Good("savB")
    PROVE  Good("sav")' \/ Good("savB")' \/ exposed'
<1>1. CASE Opens
  <2>1. /\ Writing /\ file' = [file EXCEPT ![job.into] = Content("empty")]
        /\ job.into = "sav" /\ job.how = "unnamed" /\ ~Good("savB") => exposed'
    BY <1>1 DEF Opens
  <2>2. \A f \in Files : f # job.into => Good(f)' = Good(f)
    BY <2>1 DEF Good, PairInv, FileTyped
  <2>3. job.into = "sav" => job.do = "save"
    BY <2>1, NamesDiffer DEF Writing, PairInv, JobTyped, JobSafe, Manual, Automatic, Files
  <2>4. job.into = "sav" => job.how # "named" /\ (job.how \in Automatic => Good("savB"))
    BY <2>3 DEF PairInv, JobSafe, Target
  <2>5. job.into = "savB" => Good("sav") \/ ~Good("savB")
    BY <2>1, NamesDiffer DEF Writing, PairInv, JobTyped, JobSafe, Manual, Automatic, Target, Files
  <2>6. "sav" \in Files /\ "savB" \in Files /\ job.how \in Manual \cup Automatic
    BY DEF Files, PairInv, JobTyped
  <2> QED BY <2>1, <2>2, <2>4, <2>5, <2>6 DEF Manual, Automatic
<1>2. CASE Flushes \/ Succeeds \/ Fails
  <2>1. job.open /\ \E content : file' = [file EXCEPT ![job.into] = content]
    BY <1>2 DEF Flushes, Succeeds, Fails
  <2>2. \A f \in Files : Good(f) => f # job.into
    BY <2>1 DEF PairInv, JobTyped
  <2> QED BY <2>1, <2>2 DEF Good, PairInv, FileTyped, Files
<1>3. CASE ~(Opens \/ Flushes \/ Succeeds \/ Fails)
  BY <1>3 DEF Next, WriteSaveFile, DoSeq, OpenFails, Crash, Restore, vars, Good
<1> QED BY <1>1, <1>2, <1>3

\* What follows a file operation reports values only when .sav holds them and
\* .savB does, if it is good; the job it starts knows what is in the files.
LEMMA DoneFresh ==
    ASSUME PairInv, FreshInv, Writing, NEW ok \in BOOLEAN, Done(ok), FileTyped',
           \A f \in Files \ {job.into} : file'[f] = file[f],
           ok /\ job.do \in {"backup", "save"} => file'[job.into] = Whole(fetched),
           Good("savB")' => file'["savB"] = file["savB"] \/ (job.into = "savB" /\ file'["savB"].values = fetched),
           ok => job.open
    PROVE  /\ fetched' = fetched
           /\ \/ acked' = acked
              \/ /\ acked' = fetched
                 /\ Good("sav")' /\ file'["sav"].values = fetched
                 /\ Good("savB")' => file'["savB"].values = fetched
           /\ job'.do = "copy" /\ job'.how \in Automatic => job'.from = "sav" /\ file'["sav"].values = fetched'
           /\ job'.do = "save" /\ job'.how \in Automatic /\ job'.copyTo = Nothing =>
                file'["savB"].values = fetched'
<1>1. /\ fetched' = fetched /\ "sav" \in Files /\ "savB" \in Files /\ fetched \in Nat
      /\ job.how \in Manual \cup Automatic /\ Manual \cap Automatic = {}
  BY DEF Done, PairInv, JobTyped, Files, Manual, Automatic
<1>2. ASSUME Return(FALSE)  PROVE acked' = acked /\ job'.do \notin {"copy", "save"}
  BY <1>2 DEF Return, SeqJob, Idle, Job
<1>3. ASSUME Return(TRUE)
      PROVE  job'.do \notin {"copy", "save"} /\ acked' = IF job.how \in Automatic THEN fetched ELSE acked
  BY <1>3 DEF Return, SeqJob, Idle, Job, Automatic
<1>4. CASE BackupDone(ok)
  <2>1. CASE ok
    <3>1. job' = SaveJob(job.how, Nothing) /\ acked' = acked /\ job.into = "savB" /\ file'["savB"] = Whole(fetched)
      BY <1>4, <2>1 DEF BackupDone, PairInv, JobSafe
    <3> QED BY <1>1, <3>1 DEF SaveJob, Job, Whole
  <2> QED BY <1>1, <1>2, <1>4, <2>1 DEF BackupDone
<1>5. CASE DateDone
  <2>1. job' = SaveJob(job.how, job.copyTo) /\ acked' = acked /\ job.how \in Manual
    BY <1>5 DEF DateDone, PairInv, JobSafe
  <2> QED BY <1>1, <2>1 DEF SaveJob, Job
<1>6. CASE SaveDone(ok)
  <2>1. job.do = "save" /\ job.into = Target(job.how)
    BY <1>6 DEF SaveDone, PairInv, JobSafe
  <2>2. ok /\ job.how \in Automatic => Good("sav")' /\ file'["sav"].values = fetched
    BY <2>1 DEF Target, Automatic, Whole, Good
  <2>3. CASE ~ok
    BY <1>1, <1>2, <1>6, <2>3 DEF SaveDone
  <2>4. CASE ok /\ job.copyTo = Nothing /\ job.how \in Automatic
    <3>1. Return(TRUE)
      BY <1>6, <2>4 DEF SaveDone, Automatic
    <3>2. file'["savB"] = file["savB"] /\ file["savB"].values = fetched
      BY <1>1, <2>1, <2>4 DEF Target, FreshInv, Automatic
    <3> QED BY <1>1, <1>3, <2>2, <2>4, <3>1, <3>2
  <2>5. CASE ok /\ ~(job.copyTo = Nothing /\ job.how \in Automatic)
    <3>1. job' = Job("copy", job.how, job.copyTo, Target(job.how), Nothing) /\ acked' = acked
      BY <1>6, <2>5 DEF SaveDone, Automatic
    <3> QED BY <1>1, <2>2, <2>5, <3>1 DEF Job, Target, Automatic
  <2> QED BY <2>3, <2>4, <2>5
<1>7. CASE CopyDone(ok)
  <2>1. CASE ~ok
    BY <1>1, <1>2, <1>7, <2>1 DEF CopyDone
  <2>2. CASE ok /\ job.how \in Automatic
    <3>1. job.into = "savB" /\ Good("sav") /\ file["sav"].values = fetched /\ ~Good("savB")
      BY <1>7, <2>2 DEF CopyDone, PairInv, JobSafe, JobTyped, FreshInv
    <3>2. file'["sav"] = file["sav"]
      BY <1>1, <3>1
    <3>3. Good("savB")' => file'["savB"].values = fetched
      BY <3>1 DEF Good
    <3> QED BY <1>1, <1>3, <1>7, <2>2, <3>1, <3>2, <3>3 DEF CopyDone, Good
  <2>3. CASE ok /\ job.how \notin Automatic
    BY <1>1, <1>3, <1>7, <2>3 DEF CopyDone
  <2> QED BY <2>1, <2>2, <2>3
<1>8. CASE SequenceDone(ok)
  <2>1. acked' = acked /\ job'.do \notin {"copy", "save"}
    BY <1>8 DEF SequenceDone, Idle, Job
  <2> QED BY <1>1, <2>1
<1> QED BY <1>4, <1>5, <1>6, <1>7, <1>8 DEF Done

\* A job that ends, well or not, has written or copied what it should.
LEMMA OperationFresh ==
    ASSUME PairInv, FreshInv, OpenFails \/ Succeeds \/ Fails
    PROVE  /\ fetched' = fetched
           /\ \/ acked' = acked
              \/ /\ acked' = fetched
                 /\ Good("sav")' /\ file'["sav"].values = fetched
                 /\ Good("savB")' => file'["savB"].values = fetched
           /\ job'.do = "copy" /\ job'.how \in Automatic => job'.from = "sav" /\ file'["sav"].values = fetched'
           /\ job'.do = "save" /\ job'.how \in Automatic /\ job'.copyTo = Nothing =>
                file'["savB"].values = fetched'
<1>1. PairInv' /\ [Next]_vars
  BY PairStep DEF Next
<1>2. Good("savB")' => file'["savB"] = file["savB"] \/ (job.into = "savB" /\ file'["savB"].values = fetched)
  BY <1>1, FilesGetFetched
<1>3. FileTyped' /\ FileTyped
  BY <1>1 DEF PairInv
<1>4. CASE OpenFails
  <2>1. Writing /\ Done(FALSE) /\ file' = file
    BY <1>4 DEF OpenFails
  <2> QED BY <1>2, <1>3, <2>1, DoneFresh
<1>5. CASE Succeeds
  <2>1. Writing /\ job.open /\ Done(TRUE) /\ file' = [file EXCEPT ![job.into] = Written]
    BY <1>5 DEF Succeeds
  <2>2. \A f \in Files \ {job.into} : file'[f] = file[f]
    BY <1>3, <2>1 DEF FileTyped
  <2>3. job.do \in {"backup", "save"} => file'[job.into] = Whole(fetched)
    BY <1>3, <2>1, WrittenTyped DEF FileTyped, Written
  <2> QED BY <1>2, <1>3, <2>1, <2>2, <2>3, DoneFresh
<1>6. CASE Fails
  <2>1. Writing /\ job.open /\ \E content : file' = [file EXCEPT ![job.into] = content]
    BY <1>6 DEF Fails
  <2>2. \A f \in Files \ {job.into} : file'[f] = file[f]
    BY <1>3, <2>1 DEF FileTyped
  <2>3. Done(FALSE) \/ (Done(TRUE) /\ job.do \notin {"backup", "save"})
    BY <1>6, <2>1, WrittenTyped DEF Fails
  <2> QED BY <1>2, <1>3, <2>1, <2>2, <2>3, DoneFresh
<1> QED BY <1>4, <1>5, <1>6

LEMMA FreshStep == PairInv /\ FreshInv /\ [Next]_vars => FreshInv'
<1> SUFFICES ASSUME PairInv, FreshInv, [Next]_vars PROVE FreshInv'
  OBVIOUS
<1>1. fetched \in Nat /\ acked \in Nat /\ acked <= fetched /\ PairInv'
  BY PairStep DEF PairInv, FreshInv
\* What is reported, and what the jobs know of the files.
<1>2. /\ fetched' = fetched \/ (fetched' = fetched + 1 /\ acked' = acked)
      /\ \/ acked' = acked
         \/ /\ acked' = fetched
            /\ Good("sav")' /\ file'["sav"].values = fetched
            /\ Good("savB")' => file'["savB"].values = fetched
      /\ job'.do = "copy" /\ job'.how \in Automatic => job'.from = "sav" /\ file'["sav"].values = fetched'
      /\ job'.do = "save" /\ job'.how \in Automatic /\ job'.copyTo = Nothing =>
           file'["savB"].values = fetched'
  <2>1. ASSUME NEW how \in {"auto", "named", "unnamed"}, WriteSaveFile(how)
        PROVE  fetched' = fetched + 1 /\ acked' = acked /\ job'.do # "copy"
               /\ ~(job'.do = "save" /\ job'.how \in Automatic /\ job'.copyTo = Nothing)
    <3>1. job' = FirstJob(how) /\ fetched' = fetched + 1 /\ acked' = acked
      BY <2>1 DEF WriteSaveFile, history
    <3> QED BY <3>1, FirstJobSafe, NamesDiffer DEF Manual, Automatic, Files
  <2>2. CASE DoSeq
    <3>1. fetched' = fetched /\ acked' = acked /\ (job' = FirstJob("seq") \/ job' = SeqJob(seqNum'))
      BY <2>2 DEF DoSeq, history
    <3> QED BY <3>1, FirstJobSafe, NamesDiffer DEF Manual, Automatic, Files, SeqJob, Job
  <2>3. CASE Opens
    <3>1. /\ fetched' = fetched /\ acked' = acked
          /\ job'.do = job.do /\ job'.how = job.how /\ job'.copyTo = job.copyTo /\ job'.from = job.from
          /\ file' = [file EXCEPT ![job.into] = Content("empty")]
      BY <2>3 DEF Opens, memory, history, PairInv, JobTyped
    <3>2. /\ job.do = "copy" /\ job.how \in Automatic => job.into = "savB"
          /\ job.do = "save" /\ job.how \in Automatic => job.into = "sav"
      BY DEF PairInv, JobSafe, Target, Automatic
    <3>3. \A f \in Files : f # job.into => file'[f] = file[f]
      BY <3>1 DEF PairInv, FileTyped
    <3>4. "sav" \in Files /\ "savB" \in Files
      BY DEF Files
    <3> QED BY <3>1, <3>2, <3>3, <3>4 DEF FreshInv
  <2>4. CASE Flushes
    <3>1. /\ fetched' = fetched /\ acked' = acked /\ job' = job /\ job.open /\ Writing
          /\ file' = [file EXCEPT ![job.into] = Content("partial")]
      BY <2>4 DEF Flushes, memory, history
    <3>2. /\ job.do = "copy" /\ job.how \in Automatic => job.into = "savB"
          /\ job.do = "save" /\ job.how \in Automatic => job.into = "sav"
      BY DEF PairInv, JobSafe, Target, Automatic
    <3>3. \A f \in Files : f # job.into => file'[f] = file[f]
      BY <3>1 DEF PairInv, FileTyped
    <3>4. "sav" \in Files /\ "savB" \in Files
      BY DEF Files
    <3> QED BY <3>1, <3>2, <3>3, <3>4 DEF FreshInv
  <2>5. CASE OpenFails \/ Succeeds \/ Fails
    BY <2>5, OperationFresh
  <2>6. CASE Crash \/ Restore
    BY <2>6 DEF Crash, Restore, memory, history, Boot, Idle, Job
  <2>7. CASE UNCHANGED vars
    BY <2>7 DEF vars, memory, history, FreshInv
  <2> QED BY <2>1, <2>2, <2>3, <2>4, <2>5, <2>6, <2>7 DEF Next
<1>3. age' \in Seq(SeqNames)
  <2>1. age \in Seq(SeqNames)
    BY DEF FreshInv
  <2>2. CASE age' = age
    BY <2>1, <2>2
  <2>3. CASE job.into \in SeqNames /\ age' = Append(RemoveFirst(age, job.into), job.into)
    BY <2>1, <2>3, RemoveFirstType, AppendToSet
  <2> QED BY <2>2, <2>3
       DEF Next, WriteSaveFile, DoSeq, OpenFails, Opens, Flushes, Succeeds, Fails, Crash, Restore, vars
<1>4. acked' \in Nat /\ acked' <= fetched'
  BY <1>1, <1>2
<1>5. ASSUME NEW f \in {"sav", "savB"}  PROVE Fresh(f)'
  <2> SUFFICES ASSUME Good(f)' PROVE file'[f].values >= acked'
    BY DEF Fresh
  <2>1. CASE acked' = acked
    <3>1. file'[f] = file[f] => Good(f) /\ file'[f].values >= acked
      BY DEF Good, FreshInv, Fresh
    <3> QED BY <1>1, <2>1, <3>1, FilesGetFetched
  <2>2. CASE acked' # acked
    BY <1>1, <1>2, <2>2
  <2> QED BY <2>1, <2>2
<1>6. acked' > 0 /\ ~exposed' => Good("sav")' \/ Good("savB")'
  <2>1. exposed => exposed'
    BY DEF Next, WriteSaveFile, DoSeq, OpenFails, Opens, Flushes, Succeeds, Fails, Crash, Restore, vars, history
  <2>2. CASE acked' = acked
    BY <2>1, <2>2, OneStaysGood DEF FreshInv
  <2> QED BY <1>2, <2>2
<1> QED BY <1>2, <1>3, <1>4, <1>5, <1>6 DEF FreshInv

\* fopen_and_check takes the first candidate accepted: a good .sav, else a good
\* .savB. When both are bad nothing was reported, or a manual save took .sav.
LEMMA RestoredFresh ==
    ASSUME PairInv, FreshInv, Restore
    PROVE  restored'.values >= acked \/ exposed \/ restored'.state = "empty"
<1>1. SeqOrder \in Seq(SeqNames)
  <2>1. CASE age = <<>>
    <3>1. SequenceFiles \in Seq(SeqNames)
      BY FilesAssumption, SequenceFileNames DEF NumSeqFiles
    <3> QED BY <2>1, <3>1 DEF SeqOrder
  <2>2. CASE age # <<>>
    <3> DEFINE first == CHOOSE n \in 1 .. NumSeqFiles : SequenceFiles[n] = Last(age)
    <3>1. Last(age) \in SeqNames
      BY <2>2 DEF FreshInv, Last
    <3>2. \E n \in 1 .. NumSeqFiles : SequenceFiles[n] = Last(age)
      BY <3>1, FilesAssumption DEF SeqNames, ToSet, NumSeqFiles
    <3>3. first \in 1 .. NumSeqFiles
      BY <3>2
    <3>4. SeqOrder = [n \in 1 .. NumSeqFiles |-> SequenceFiles[((first + n - 2) % NumSeqFiles) + 1]]
      BY <2>2 DEF SeqOrder
    <3> HIDE DEF first
    <3>5. ASSUME NEW n \in 1 .. NumSeqFiles
          PROVE  SequenceFiles[((first + n - 2) % NumSeqFiles) + 1] \in SeqNames
      <4>1. ((first + n - 2) % NumSeqFiles) + 1 \in 1 .. NumSeqFiles
        BY <3>3, NamesDiffer
      <4> QED BY <4>1, SequenceFileNames
    <3> QED BY <3>4, <3>5, NamesDiffer
  <2> QED BY <2>1, <2>2
<1>2. /\ Candidates \in Seq(Files) /\ Len(Candidates) \in Nat /\ Len(Candidates) >= 2
      /\ Candidates[1] = "sav" /\ Candidates[2] = "savB"
  <2>1. <<"sav", "savB">> \in Seq(Files) /\ SeqOrder \in Seq(Files)
    BY <1>1, NamesDiffer DEF Files
  <2> QED BY <2>1, ConcatProperties DEF Candidates
<1>3. PICK accept \in [Files -> BOOLEAN] :
        /\ \A f \in Files : accept[f] \in CheckFile(f)
        /\ LET accepted == {n \in 1 .. Len(Candidates) : accept[Candidates[n]]}
           IN  restored' = IF accepted = {} THEN Content("absent") ELSE file[Candidates[Min(accepted)]]
  BY DEF Restore
<1> DEFINE accepted == {n \in 1 .. Len(Candidates) : accept[Candidates[n]]}
<1>4. restored' = IF accepted = {} THEN Content("absent") ELSE file[Candidates[Min(accepted)]]
  BY <1>3
<1>5. /\ Good("sav") => accept["sav"] /\ 1 \in accepted
      /\ Good("savB") => accept["savB"] /\ 2 \in accepted
  <2>1. ASSUME NEW f \in {"sav", "savB"}, Good(f)  PROVE accept[f]
    <3>1. f \in Files /\ CheckFile(f) = {Good(f)}
      BY <2>1 DEF CheckFile, Good, Files
    <3> QED BY <1>3, <2>1, <3>1
  <2>2. /\ accept["sav"] => 1 \in accepted
        /\ accept["savB"] => 2 \in accepted
    BY <1>2
  <2> QED BY <2>1, <2>2
<1>6. acked \in Nat /\ FileTyped
  BY DEF FreshInv, PairInv
<1>7. CASE accepted = {}
  <2>1. acked = 0 \/ exposed
    BY <1>5, <1>6, <1>7 DEF FreshInv
  <2> QED BY <1>4, <1>6, <1>7, <2>1 DEF Content
<1>8. CASE accepted # {}
  <2>1. Min(accepted) \in accepted /\ \A n \in accepted : Min(accepted) <= n
    <3>1. accepted \in SUBSET Nat
      BY <1>2
    <3> HIDE DEF accepted
    <3> QED BY <1>8, <3>1, LeastNumber
  <2> DEFINE n == Min(accepted)
  <2>2. n \in 1 .. Len(Candidates) /\ accept[Candidates[n]] /\ Candidates[n] \in Files
    BY <1>2, <2>1
  <2>3. restored' = file[Candidates[n]] /\ restored'.values \in Nat
    BY <1>4, <1>6, <1>8, <2>2 DEF FileTyped
  <2>4. n \in Nat /\ (1 \in accepted => n = 1) /\ (2 \in accepted => n \in {1, 2})
    BY <1>2, <2>1, <2>2
  <2> HIDE DEF n, accepted
  <2>5. CASE n \in {1, 2}
    <3>1. PICK f \in {"sav", "savB"} : Candidates[n] = f
      BY <1>2, <2>5
    <3>2. accept[f] \in CheckFile(f) /\ accept[f]
      BY <1>3, <2>2, <3>1 DEF Files
    <3>3. file[f].state = "empty" \/ Good(f)
      BY <3>2 DEF CheckFile
    <3> QED BY <2>3, <3>1, <3>3 DEF FreshInv, Fresh
  <2>6. CASE n \notin {1, 2}
    <3>1. acked = 0 \/ exposed
      BY <1>5, <1>6, <2>4, <2>6 DEF FreshInv
    <3> QED BY <2>3, <3>1
  <2> QED BY <2>5, <2>6
<1> QED BY <1>7, <1>8

\* For every number of files, saves, errors and crashes: a boot restores values
\* no older than the last write_save_file reported as saved, unless a manual
\* save took .sav without a good .savB or an empty file passed for an old one.
THEOREM BootsRestoreFresh == Spec => RestoreFresh
<1>1. PairInv /\ FreshInv /\ [Next]_vars =>
        [Restore => \/ restored'.values >= acked
                    \/ exposed
                    \/ restored'.state = "empty"]_vars
  BY RestoredFresh
<1> QED BY <1>1, PairInit, PairStep, FreshInit, FreshStep, PTL DEF Spec, RestoreFresh
============================================================================
