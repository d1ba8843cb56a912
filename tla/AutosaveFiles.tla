--------------------------- MODULE AutosaveFiles ---------------------------
(***************************************************************************)
(* The files autosave keeps of one save set, through crashes of the IOC    *)
(* and failures of the file system: the save file .sav, its backup .savB,  *)
(* the sequence files .sav0, .sav1, ..., the file of a manual save under   *)
(* another name and the dated copies manual saves make.                    *)
(*                                                                         *)
(* save_restore.c writes them (write_save_file, write_it, do_seq), always  *)
(* from the save_restore task; dbrestore.c copies them (myFileCopy) and    *)
(* restores the database from them at the next boot (reboot_restore).      *)
(*                                                                         *)
(* The values of the save set are abstracted to a number: 1 for the first  *)
(* time get_channel_values fetched them, 2 for the second, and so on.      *)
(***************************************************************************)
EXTENDS Naturals, FiniteSets, SequencesExt

CONSTANTS
    SequenceFiles,  \* the names .sav0, .sav1, ... of the sequence files
    ManualSaves,    \* the manual saves: subset of {"named", "unnamed"}
    MaxSaves,       \* bound: fetches of the values of the save set
    MaxErrors,      \* bound: operations on files that fail
    MaxCrashes,     \* bound: crashes of the IOC
    Nothing         \* no file

ASSUME FilesAssumption ==
    /\ SequenceFiles \in Seq(STRING) /\ IsInjective(SequenceFiles)
    /\ ToSet(SequenceFiles) \cap {"sav", "savB", "config", "dated"} = {}
    /\ Nothing \notin {"sav", "savB", "config", "dated"} \cup ToSet(SequenceFiles)
    /\ ManualSaves \subseteq {"named", "unnamed"}
    /\ MaxSaves \in Nat /\ MaxErrors \in Nat /\ MaxCrashes \in Nat

Versions == 1 .. MaxSaves
NumSeqFiles == Len(SequenceFiles)       \* save_restoreNumSeqFiles
SeqNames == ToSet(SequenceFiles)
Files == {"sav", "savB", "config", "dated"} \cup SeqNames

VARIABLES
    file,     \* [Files -> Contents]
    age,      \* the sequence files that exist, the oldest first (st_mtime)
    job,      \* what the save_restore task does: see Jobs
    fetched,  \* the values in memory: number of the last get_channel_values
    status,   \* plist->status: SR_STATUS_WARN and better are "OK"
    saved,    \* plist->last_save_file is set
    seqNum,   \* plist->backup_sequence_num + 1: 0 before the first do_seq
    restored, \* the content the last boot restored the database from
    acked,    \* history: the newest values write_save_file said it had saved
    exposed,  \* history: a manual save opened .sav without a good .savB
    errors,   \* bounded counter
    crashes   \* bounded counter

memory == <<fetched, status, saved, seqNum>>
history == <<acked, exposed>>
vars == <<file, age, job, memory, restored, history, errors, crashes>>

----------------------------------------------------------------------------
(* Contents and jobs                                                       *)

\* A file is "empty" after it was opened for writing, "partial" until its
\* <END> line is written, "whole" with it: then it holds the values of a fetch.
Content(state) == [state |-> state, values |-> 0]
Whole(values)  == [state |-> "whole", values |-> values]
Contents == {Content(s) : s \in {"absent", "empty", "partial"}} \cup {Whole(v) : v \in Versions}

Absent(f) == file[f].state = "absent"

\* check_file and checkFile find the <END> line.
Good(f) == file[f].state = "whole"

\* do: the file operation under way; how: who called write_save_file - the
\* loop ("auto"), do_seq ("seq"), or a manual save with or without a file
\* name; into, from: what is copied or written from memory; copyTo: the
\* backup_file to copy a new save file to; open: into has been opened.
Job(do, how, into, from, copyTo) ==
    [do |-> do, how |-> how, into |-> into, from |-> from, copyTo |-> copyTo, open |-> FALSE]
Idle == Job("idle", "auto", Nothing, Nothing, Nothing)
Boot == Job("boot", "auto", Nothing, Nothing, Nothing)

\* The .sav file of the save set, or the file a manual save names.
Target(how) == IF how = "named" THEN "config" ELSE "sav"

SaveJob(how, copyTo) == Job("save", how, Target(how), Nothing, copyTo)
SeqJob(n) == Job("sequence", "seq", SequenceFiles[n], "sav", Nothing)

Init ==
    /\ file = [f \in Files |-> Content("absent")]
    /\ age = <<>>
    /\ job = Idle
    /\ fetched = 0 /\ status = "INIT" /\ saved = FALSE /\ seqNum = 0
    /\ restored = Content("absent")
    /\ acked = 0 /\ exposed = FALSE
    /\ errors = 0 /\ crashes = 0

----------------------------------------------------------------------------
(* write_save_file and do_seq: what follows a file operation               *)

\* A bug: the backup is not looked at.
FirstJobUnchecked(how) ==
    IF how \in {"auto", "seq"} \/ Absent(Target(how)) THEN SaveJob(how, "savB")
    ELSE Job("date", how, "dated", Target(how), "dated")

\* Without a file name in the call the backup must be good before .sav is
\* overwritten, and is written first when it is not; a manual save copies
\* the file it replaces instead.
FirstJob(how) ==
    IF how \in {"auto", "seq"}
      THEN IF Good("savB") THEN SaveJob(how, "savB")
           ELSE Job("backup", how, "savB", Nothing, Nothing)
      ELSE IF Absent(Target(how)) THEN SaveJob(how, Nothing)
           ELSE Job("date", how, "dated", Target(how), "dated")

\* A pass over the list finds that the set is to be saved, or a manual save
\* comes from the message queue: the values are fetched and written.
WriteSaveFile(how) ==
    /\ job = Idle
    /\ how # "auto" => how \in ManualSaves
    /\ fetched < MaxSaves
    /\ fetched' = fetched + 1
    /\ status' = "OK"
    /\ job' = FirstJob(how)
    /\ UNCHANGED <<file, age, saved, seqNum, restored, history, errors, crashes>>

\* The sequence file a first do_seq begins with: the first that does not
\* exist, or the oldest.
FirstSeqNums ==
    LET missing == {n \in 1 .. NumSeqFiles : Absent(SequenceFiles[n])}
    IN  IF missing # {} THEN {n \in missing : \A m \in missing : n <= m}
        ELSE {n \in 1 .. NumSeqFiles : SequenceFiles[n] = Head(age)}

\* It is time for a sequence file: .sav is copied to it, and written before
\* when there is none.
DoSeq ==
    /\ job = Idle
    /\ status = "OK" /\ saved /\ NumSeqFiles > 0
    /\ seqNum' \in IF seqNum = 0 THEN FirstSeqNums ELSE {seqNum}
    /\ job' = IF Absent("sav") THEN FirstJob("seq") ELSE SeqJob(seqNum')
    /\ UNCHANGED <<file, age, fetched, status, saved, restored, history, errors, crashes>>

\* write_save_file returns; do_seq, which ignores the result, goes on.
Return(ok) ==
    /\ job' = IF job.how = "seq" THEN SeqJob(seqNum) ELSE Idle
    /\ acked' = IF ok /\ job.how \in {"auto", "seq"} THEN fetched ELSE acked
    /\ UNCHANGED seqNum

\* The new .savB is there (BS_NEW, no copy later), or nothing is saved.
BackupDone(ok) ==
    /\ job.do = "backup"
    /\ IF ok THEN job' = SaveJob(job.how, Nothing) /\ UNCHANGED <<status, acked, seqNum>>
             ELSE status' = "FAIL" /\ Return(FALSE)
    /\ UNCHANGED saved

\* The dated copy of the old file: its result is not looked at.
DateDone ==
    /\ job.do = "date"
    /\ job' = SaveJob(job.how, job.copyTo)
    /\ UNCHANGED <<status, saved, acked, seqNum>>

\* The new save file is to be copied, unless .savB is new; a manual save
\* that found no file to date copies it to the empty name.
SaveDone(ok) ==
    /\ job.do = "save"
    /\ saved' = (saved \/ ok)
    /\ \/ ~ok /\ status' = "FAIL" /\ Return(FALSE)
       \/ /\ ok /\ job.copyTo = Nothing /\ job.how \in {"auto", "seq"}
          /\ Return(TRUE) /\ UNCHANGED status
       \/ /\ ok /\ (job.copyTo = Nothing => job.how \notin {"auto", "seq"})
          /\ job' = Job("copy", job.how, job.copyTo, Target(job.how), Nothing)
          /\ UNCHANGED <<status, acked, seqNum>>

CopyDone(ok) ==
    /\ job.do = "copy"
    /\ Return(ok)
    /\ UNCHANGED <<status, saved>>

\* The sequence files are used in turn.
NextSeqNum(n) == (n % NumSeqFiles) + 1

\* The sequence file is copied; when it is not, it is written from memory,
\* and when that fails too the same file is tried next time.
SequenceDone(ok) ==
    /\ job.do \in {"sequence", "rewrite"}
    /\ job' = IF ok \/ job.do = "rewrite" THEN Idle
              ELSE Job("rewrite", "seq", job.into, Nothing, Nothing)
    /\ seqNum' = IF ok THEN NextSeqNum(seqNum) ELSE seqNum
    /\ UNCHANGED <<status, saved, acked>>

Done(ok) ==
    /\ BackupDone(ok) \/ DateDone \/ SaveDone(ok) \/ CopyDone(ok) \/ SequenceDone(ok)
    /\ UNCHANGED <<fetched, restored, crashes>>

----------------------------------------------------------------------------
(* write_it and myFileCopy: the steps of a file operation                  *)

Writing == job.do \notin {"idle", "boot"}
Copying == job.from # Nothing

\* fopen fails: the source of a copy is missing, its destination has no
\* name, or the file system reports an error.
OpenFails ==
    /\ Writing /\ ~job.open
    /\ \/ UNCHANGED errors /\ (job.into = Nothing \/ (Copying /\ Absent(job.from)))
       \/ errors < MaxErrors /\ errors' = errors + 1
    /\ Done(FALSE)
    /\ UNCHANGED <<file, age, exposed>>

\* fopen "w" truncates the file.
Opens ==
    /\ Writing /\ ~job.open /\ job.into # Nothing
    /\ Copying => ~Absent(job.from)
    /\ file' = [file EXCEPT ![job.into] = Content("empty")]
    /\ age' = IF job.into \in SeqNames THEN Append(RemoveFirst(age, job.into), job.into) ELSE age
    /\ job' = [job EXCEPT !.open = TRUE]
    /\ exposed' = (exposed \/ (job.into = "sav" /\ job.how = "unnamed" /\ ~Good("savB")))
    /\ UNCHANGED <<memory, restored, acked, errors, crashes>>

\* The first block of text reaches the file.
Flushes ==
    /\ Writing /\ job.open /\ file[job.into].state = "empty"
    /\ file' = [file EXCEPT ![job.into] = Content("partial")]
    /\ UNCHANGED <<age, job, memory, restored, history, errors, crashes>>

\* What a write that runs to its end leaves in the file.
Written == IF Copying THEN file[job.from] ELSE Whole(fetched)

Succeeds ==
    /\ Writing /\ job.open
    /\ file' = [file EXCEPT ![job.into] = Written]
    /\ Done(TRUE)
    /\ UNCHANGED <<age, exposed, errors>>

\* An error in fprintf or fclose, or of the test write_it makes of the file
\* and its date afterwards. myFileCopy does not look at what fclose returns.
Fails ==
    /\ Writing /\ job.open
    /\ errors < MaxErrors /\ errors' = errors + 1
    /\ \E content \in {file[job.into], Content("partial")} \cup (IF Copying THEN {} ELSE {Whole(fetched)}) :
         file' = [file EXCEPT ![job.into] = content]
    /\ \/ Done(FALSE)
       \/ Copying /\ Done(TRUE)
    /\ UNCHANGED <<age, exposed>>

----------------------------------------------------------------------------
(* Crash and reboot_restore                                                *)

\* The IOC goes down at any point; the files stay as they are.
Crash ==
    /\ job # Boot
    /\ crashes < MaxCrashes /\ crashes' = crashes + 1
    /\ job' = Boot
    /\ status' = "INIT" /\ saved' = FALSE /\ seqNum' = 0
    /\ UNCHANGED <<file, age, fetched, restored, history, errors>>

\* A bug: the file is not searched for its <END> line.
CheckFileOpensOnly(f) == {~Absent(f)}

\* What checkFile may say of a file. Of an empty one it looks for a version
\* number in the buffer fgets left uninitialized: when it finds none, the
\* file is taken for one of a version without <END>.
CheckFile(f) == IF file[f].state = "empty" THEN BOOLEAN ELSE {Good(f)}

\* The sequence files from the newest on, in the order of their numbers.
SeqOrder ==
    IF age = <<>> THEN SequenceFiles
    ELSE LET first == CHOOSE n \in 1 .. NumSeqFiles : SequenceFiles[n] = Last(age)
         IN  [n \in 1 .. NumSeqFiles |-> SequenceFiles[((first + n - 2) % NumSeqFiles) + 1]]

\* fopen_and_check tries .sav, .savB, then the sequence files.
Candidates == <<"sav", "savB">> \o SeqOrder

\* reboot_restore: the first file checkFile accepts, or none. (The file
\* .sav.bu it writes is never read.)
Restore ==
    /\ job = Boot
    /\ \E accept \in [Files -> BOOLEAN] :
         /\ \A f \in Files : accept[f] \in CheckFile(f)
         /\ LET accepted == {n \in 1 .. Len(Candidates) : accept[Candidates[n]]}
            IN  restored' = IF accepted = {} THEN Content("absent") ELSE file[Candidates[Min(accepted)]]
    /\ job' = Idle
    /\ UNCHANGED <<file, age, memory, history, errors, crashes>>

----------------------------------------------------------------------------
Next ==
    \/ \E how \in {"auto", "named", "unnamed"} : WriteSaveFile(how)
    \/ DoSeq
    \/ OpenFails \/ Opens \/ Flushes \/ Succeeds \/ Fails
    \/ Crash \/ Restore

Spec == Init /\ [][Next]_vars

----------------------------------------------------------------------------
(* Properties                                                              *)

TypeOK ==
    /\ file \in [Files -> Contents]
    /\ ToSet(age) = {f \in SeqNames : ~Absent(f)} /\ IsInjective(age)
    /\ job.do \in {"idle", "boot", "backup", "date", "save", "copy", "sequence", "rewrite"}
    /\ job.open => job.into \in Files /\ ~Absent(job.into)
    /\ seqNum \in 0 .. NumSeqFiles
    /\ restored \in Contents
    /\ acked <= fetched

\* Of .sav and .savB only one is ever damaged at a time: write_save_file
\* opens a good one only while the other is good, whatever failed or crashed
\* before. Manual saves without a file name do not test .savB.
OverwriteProtected ==
    [][\A f \in {"sav", "savB"} :
         Good(f) /\ ~Good(f)' /\ job.how # "unnamed" => \E g \in {"sav", "savB"} \ {f} : Good(g)]_vars

\* A boot restores values at least as new as the last ones write_save_file
\* reported as saved before the crash, unless a manual save had opened .sav
\* without a good .savB, or checkFile took an empty file for an old one.
RestoreFresh ==
    [][Restore => \/ restored'.values >= acked
                  \/ exposed
                  \/ restored'.state = "empty"]_vars

============================================================================
