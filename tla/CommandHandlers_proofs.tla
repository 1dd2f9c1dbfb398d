------------------------- MODULE CommandHandlers_proofs -------------------------
(***************************************************************************)
(* The safety of CommandHandlers for every size of pipe, limit of output   *)
(* and number of redirections: a shell command reads all of its output or  *)
(* marks it as cut, and what a file command says of itself is so.          *)
(* That a shell command returns is liveness and left to the model checker. *)
(***************************************************************************)
EXTENDS CommandHandlers, TLAPS

(* The reading of this pipe is over.                                       *)
Past(s) == shell = "done" \/ (shell = "stderr" /\ s = "stdout")

(* Pipes are read once the program was waited for.                         *)
ReapedInv ==
  shell \in {"stdout", "stderr"} \/ (shell = "done" /\ ~failed) => child = "reaped"

(* Nothing is lost on the way, except behind the limit.                    *)
AccountInv ==
  \A s \in Stream :
    IF cut[s] THEN Past(s) /\ got[s] = MaxOutput /\ written[s] > MaxOutput
              ELSE got[s] + pipe[s] = written[s]

(* A pipe read to its end is empty and has nobody left to write to it.     *)
EndInv ==
  \A s \in Stream : Past(s) /\ ~failed /\ ~cut[s] => pipe[s] = 0 /\ ~heir

(* Text is altered only as a pipe's reading ends, and, unless the limit cut *)
(* it, only if what was written was not UTF-8.                             *)
TextInv ==
  \A s \in Stream :
    /\ ~Past(s) => s \notin altered
    /\ Past(s) /\ ~failed /\ ~cut[s] => (s \in altered <=> s \in odd)

ShellInv == ShellTypeOK /\ ReapedInv /\ AccountInv /\ EndInv /\ TextInv

(* Which command can be at which step.                                     *)
OpInv ==
  /\ at = "idle" => op = "none" /\ ~touched /\ ~stuck
  /\ at # "idle" => op \in FileOp
  /\ at = "check" => op \in Moves \cup Copies
  /\ at = "rename" => op \in Moves
  /\ at \in {"open", "copying", "undo"} => op \in Copies
  /\ at = "remove" => op \in Removes
  /\ at \in {"mkdir", "chmod dir"} => op = "folder.mkdir"
  /\ at \in {"request", "verify"} => op \in Fetches
  /\ at \in {"place", "write", "chmod", "install"} => op \in Writes
  /\ at = "read" => op = "file.pull"
  /\ at = "upload" => op \in {"file.pull", "remote.relay"}

(* Only verified data gets past the verification.                          *)
DataInv ==
  /\ at \in {"place", "write", "chmod", "install"} => fetched = "data"
  /\ at \in {"chmod", "install"} => tmp = fetched

(* What the command itself has done so far to its source and destination.  *)
ProgressInv ==
  ~touched =>
    /\ path # "gone"
    /\ at \notin {"idle", "done"} => src = before.src
    /\ at \notin {"idle", "done", "copying", "undo", "chmod dir"} =>
         dst = before.dst
    /\ at = "open" => ~Exists(dst)
    /\ at = "copying" => dst = "part" /\ before.dst = "none"
    /\ at = "undo" => \/ dst = "part" /\ before.dst = "none"
                      \/ dst = before.dst /\ ~Exists(dst)
    /\ at = "chmod dir" => dst = "data"

OutcomeInv == at # "done" => outcome = "none"

FileInv ==
  FileTypeOK /\ OpInv /\ DataInv /\ ProgressInv /\ OutcomeInv /\ ResultsTruthful

-------------------------------------------------------------------------------
(* A step of the handlers as seen by the shell command and by the file     *)
(* commands.                                                               *)

ShellMove ==
  \/ Execute \/ ShellForgotten
  \/ ProgramStep \/ DeadlinePasses \/ ShellStep \/ ShellError
  \/ UNCHANGED shellVars

FileMove ==
  \/ \E kind \in FileOp : StartFile(kind)
  \/ FilesForgotten \/ FileStep \/ Meddle
  \/ UNCHANGED fileVars

(* Every step of handle_task is one of these for each of the two.          *)
LEMMA EachMoves == [HandlersNext]_handlerVars => ShellMove /\ FileMove
  <1> SUFFICES ASSUME [HandlersNext]_handlerVars PROVE ShellMove /\ FileMove
    OBVIOUS
  <1>1. CASE TakeTask
    BY <1>1 DEF TakeTask, ShellMove, FileMove
  <1>2. CASE SubmitResult \/ AgentDies
    BY <1>2 DEF SubmitResult, AgentDies, Forget, ShellMove, FileMove
  <1>3. CASE RefuseTask \/ ShellAnswers \/ FileAnswers \/ HelperAnswers \/ Reboot
    BY <1>3 DEF RefuseTask, ShellAnswers, FileAnswers, HelperAnswers, Reboot,
       ShellMove, FileMove
  <1>4. CASE /\ ProgramStep \/ DeadlinePasses \/ ShellStep \/ ShellError
             /\ UNCHANGED <<handVars, fileVars>>
    BY <1>4 DEF ShellMove, FileMove
  <1>5. CASE (FileStep \/ Meddle) /\ UNCHANGED <<handVars, shellVars>>
    BY <1>5 DEF ShellMove, FileMove
  <1>6. CASE UNCHANGED handlerVars
    BY <1>6 DEF handlerVars, ShellMove, FileMove
  <1> QED
    BY <1>1, <1>2, <1>3, <1>4, <1>5, <1>6 DEF HandlersNext

-------------------------------------------------------------------------------
(* The shell command.                                                      *)

LEMMA ShellInvInit == ShellInit => ShellInv
  <1> SUFFICES ASSUME ShellInit PROVE ShellInv
    OBVIOUS
  <1> USE ShellAssumption DEF ShellInit, Nothing
  <1>1. ShellTypeOK
    <2>1. pipe \in [Stream -> 0..PipeSize]
      OBVIOUS
    <2>2. written \in [Stream -> 0..MaxWritten] /\ got \in [Stream -> 0..MaxOutput]
      OBVIOUS
    <2>3. cut \in [Stream -> BOOLEAN]
      OBVIOUS
    <2>4. {heir, mayKill, expired, timedOut, failed} \subseteq BOOLEAN
      OBVIOUS
    <2>5. odd \subseteq Stream /\ altered \subseteq Stream
      OBVIOUS
    <2> QED
      BY <2>1, <2>2, <2>3, <2>4, <2>5 DEF ShellTypeOK
  <1>2. ReapedInv
    BY DEF ReapedInv
  <1>3. AccountInv
    BY DEF AccountInv
  <1>4. EndInv /\ TextInv
    BY DEF EndInv, TextInv, Past
  <1> QED
    BY <1>1, <1>2, <1>3, <1>4 DEF ShellInv

(* No step of the program or of run_execve leaves the types.               *)
LEMMA ShellTypeStep == ShellTypeOK /\ ShellMove => ShellTypeOK'
  <1> SUFFICES ASSUME ShellTypeOK, ShellMove PROVE ShellTypeOK'
    OBVIOUS
  <1> USE ShellAssumption DEF ShellTypeOK, pipeVars
  <1>0. ASSUME Fresh
        PROVE  /\ pipe' \in [Stream -> 0..PipeSize]
               /\ written' \in [Stream -> 0..MaxWritten]
               /\ got' \in [Stream -> 0..MaxOutput]
               /\ cut' \in [Stream -> BOOLEAN]
               /\ odd' = {} /\ altered' = {}
               /\ {heir', expired', timedOut'} \subseteq BOOLEAN
    <2>1. pipe' = Nothing(0) /\ written' = Nothing(0) /\ got' = Nothing(0)
      BY <1>0 DEF Fresh
    <2>2. cut' \in [Stream -> BOOLEAN]
      BY <1>0 DEF Fresh, Nothing
    <2>4. odd' = {} /\ altered' = {}
      BY <1>0 DEF Fresh
    <2>3. {heir', expired', timedOut'} \subseteq BOOLEAN
      BY <1>0 DEF Fresh
    <2> QED
      BY <2>1, <2>2, <2>3, <2>4 DEF Nothing
  <1>1. CASE Execute
    BY <1>0, <1>1 DEF Execute
  <1>2. CASE ShellForgotten
    BY <1>0, <1>2 DEF ShellForgotten
  <1>3. ASSUME NEW s \in Stream, Write(s) PROVE ShellTypeOK'
    BY <1>3 DEF Write
  <1>4. CASE Exits \/ Forks \/ HeirEnds
    BY <1>4 DEF Exits, Forks, HeirEnds
  <1>5. CASE DeadlinePasses \/ SeesExit \/ SeesDeadline \/ Kill \/ WaitFails
    BY <1>5 DEF DeadlinePasses, SeesExit, SeesDeadline, Kill, WaitFails
  <1>6. ASSUME NEW s \in Stream, Read(s) PROVE ShellTypeOK'
    <2>1. /\ {heir, mayKill, expired, timedOut, failed}' \subseteq BOOLEAN
          /\ child' \in {"none", "running", "exited", "reaped"}
          /\ written' \in [Stream -> 0..MaxWritten]
          /\ odd' = odd
      BY <1>6 DEF Read
    <2>2. /\ shell' \in {s, AfterReading(s)}
          /\ cut' \in {cut, [cut EXCEPT ![s] = TRUE]}
      BY <1>6 DEF Read
    <2>8. altered' \subseteq Stream
      <3>1. altered' = altered \/ Convert(s)
        BY <1>6 DEF Read
      <3> QED
        BY <3>1 DEF Convert
    <2>3. /\ shell' \in {"stdout", "stderr", "done"}
          /\ cut' \in [Stream -> BOOLEAN]
      BY <2>2 DEF AfterReading, Stream
    <2>4. PICK n \in 1..pipe[s] :
            /\ pipe' = [pipe EXCEPT ![s] = @ - n]
            /\ \/ got[s] + n <= MaxOutput /\ got' = [got EXCEPT ![s] = @ + n]
               \/ got' = [got EXCEPT ![s] = MaxOutput]
      BY <1>6 DEF Read
    <2>5. pipe[s] - n \in 0..PipeSize
      OBVIOUS
    <2>6. pipe' \in [Stream -> 0..PipeSize]
      BY <2>4, <2>5
    <2>7. got' \in [Stream -> 0..MaxOutput]
      <3>1. CASE got[s] + n <= MaxOutput /\ got' = [got EXCEPT ![s] = @ + n]
        <4>1. got[s] + n \in 0..MaxOutput
          BY <3>1
        <4> QED
          BY <3>1, <4>1
      <3>2. CASE got' = [got EXCEPT ![s] = MaxOutput]
        BY <3>2
      <3> QED
        BY <2>4, <3>1, <3>2
    <2> QED
      BY <2>1, <2>6, <2>7, <2>8, <2>3
  <1>7. ASSUME NEW s \in Stream, ReadEnd(s) PROVE ShellTypeOK'
    BY <1>7 DEF ReadEnd, Convert, AfterReading, Stream
  <1>8. ASSUME NEW s \in Stream, ReadFails(s) PROVE ShellTypeOK'
    BY <1>8 DEF ReadFails
  <1>9. CASE UNCHANGED shellVars
    BY <1>9 DEF shellVars
  <1> QED
    BY <1>1, <1>2, <1>3, <1>4, <1>5, <1>6, <1>7, <1>8, <1>9
       DEF ShellMove, ProgramStep, ShellStep, ShellError

(* A program that was waited for stays so until the next call.             *)
LEMMA ReapedStep == ReapedInv /\ ShellMove => ReapedInv'
  <1> SUFFICES ASSUME ReapedInv, ShellMove PROVE ReapedInv'
    OBVIOUS
  <1> USE DEF ReapedInv, pipeVars, Stream
  <1>1. CASE Execute \/ ShellForgotten
    BY <1>1 DEF Execute, ShellForgotten, Fresh
  <1>2. ASSUME NEW s \in Stream, Write(s) PROVE ReapedInv'
    BY <1>2 DEF Write
  <1>3. CASE Exits \/ Forks \/ HeirEnds
    BY <1>3 DEF Exits, Forks, HeirEnds
  <1>4. CASE DeadlinePasses \/ SeesExit \/ SeesDeadline \/ Kill \/ WaitFails
    BY <1>4 DEF DeadlinePasses, SeesExit, SeesDeadline, Kill, WaitFails
  <1>5. ASSUME NEW s \in Stream, Read(s) PROVE ReapedInv'
    BY <1>5 DEF Read, AfterReading
  <1>6. ASSUME NEW s \in Stream, ReadEnd(s) \/ ReadFails(s) PROVE ReapedInv'
    BY <1>6 DEF ReadEnd, ReadFails, AfterReading
  <1>7. CASE UNCHANGED shellVars
    BY <1>7 DEF shellVars
  <1> QED
    BY <1>1, <1>2, <1>3, <1>4, <1>5, <1>6, <1>7
       DEF ShellMove, ProgramStep, ShellStep, ShellError

(* Every byte written is read, in the pipe, or behind the limit.           *)
LEMMA AccountStep == ShellTypeOK /\ AccountInv /\ ShellMove => AccountInv'
  <1> SUFFICES ASSUME ShellTypeOK, AccountInv, ShellMove PROVE AccountInv'
    OBVIOUS
  <1> USE ShellAssumption DEF AccountInv, Past, pipeVars
  <1>1. CASE Execute \/ ShellForgotten
    BY <1>1 DEF Execute, ShellForgotten, Fresh, Nothing
  <1>2. ASSUME NEW s \in Stream, Write(s) PROVE AccountInv'
    BY <1>2 DEF Write, ShellTypeOK
  <1>3. CASE Exits \/ Forks \/ HeirEnds
    BY <1>3 DEF Exits, Forks, HeirEnds
  <1>4. CASE DeadlinePasses \/ SeesExit \/ SeesDeadline \/ Kill \/ WaitFails
    BY <1>4 DEF DeadlinePasses, SeesExit, SeesDeadline, Kill, WaitFails
  <1>5. ASSUME NEW s \in Stream, Read(s) PROVE AccountInv'
    <2>1. ~Past(s) /\ ~cut[s] /\ got[s] + pipe[s] = written[s]
      BY <1>5 DEF Read, Stream
    <2>2. PICK n \in 1..pipe[s] :
            /\ pipe' = [pipe EXCEPT ![s] = @ - n]
            /\ IF got[s] + n <= MaxOutput
               THEN got' = [got EXCEPT ![s] = @ + n] /\ UNCHANGED <<shell, cut>>
               ELSE /\ got' = [got EXCEPT ![s] = MaxOutput]
                    /\ cut' = [cut EXCEPT ![s] = TRUE]
                    /\ shell' = AfterReading(s)
      BY <1>5 DEF Read
    <2>3. written' = written /\ shell = s
      BY <1>5 DEF Read
    <2> SUFFICES ASSUME NEW t \in Stream
                 PROVE  IF cut'[t]
                        THEN /\ Past(t)' /\ got'[t] = MaxOutput
                             /\ written'[t] > MaxOutput
                        ELSE got'[t] + pipe'[t] = written'[t]
      BY DEF Past
    <2>4. CASE t = s
      BY <2>1, <2>2, <2>3, <2>4 DEF ShellTypeOK, AfterReading, Stream
    <2>5. CASE t # s
      BY <2>2, <2>3, <2>5 DEF ShellTypeOK, AfterReading, Stream
    <2> QED
      BY <2>4, <2>5
  <1>6. ASSUME NEW s \in Stream, ReadEnd(s) \/ ReadFails(s) PROVE AccountInv'
    BY <1>6 DEF ReadEnd, ReadFails, AfterReading, Stream
  <1>7. CASE UNCHANGED shellVars
    BY <1>7 DEF shellVars
  <1> QED
    BY <1>1, <1>2, <1>3, <1>4, <1>5, <1>6, <1>7
       DEF ShellMove, ProgramStep, ShellStep, ShellError

(* Nobody writes to a pipe that was read to its end.                       *)
LEMMA EndStep == ShellInv /\ ShellMove => EndInv'
  <1> SUFFICES ASSUME ShellInv, ShellMove PROVE EndInv'
    OBVIOUS
  <1> USE DEF ShellInv, EndInv, ReapedInv, Past, pipeVars
  <1>1. CASE Execute \/ ShellForgotten
    BY <1>1 DEF Execute, ShellForgotten, Fresh, Nothing
  <1>2. ASSUME NEW s \in Stream, Write(s) PROVE EndInv'
    BY <1>2 DEF Write, Writers, Open, ShellTypeOK, Stream
  <1>3. CASE Exits \/ Forks \/ HeirEnds
    BY <1>3 DEF Exits, Forks, HeirEnds
  <1>4. CASE DeadlinePasses \/ SeesExit \/ SeesDeadline \/ Kill \/ WaitFails
    BY <1>4 DEF DeadlinePasses, SeesExit, SeesDeadline, Kill, WaitFails
  <1>5. ASSUME NEW s \in Stream, Read(s) PROVE EndInv'
    BY <1>5, ShellAssumption DEF Read, AfterReading, ShellTypeOK, Stream
  <1>6. ASSUME NEW s \in Stream, ReadEnd(s) \/ ReadFails(s) PROVE EndInv'
    BY <1>6 DEF ReadEnd, ReadFails, AfterReading, Writers, ShellTypeOK, Stream
  <1>7. CASE UNCHANGED shellVars
    BY <1>7 DEF shellVars
  <1> QED
    BY <1>1, <1>2, <1>3, <1>4, <1>5, <1>6, <1>7
       DEF ShellMove, ProgramStep, ShellStep, ShellError

(* Text is made of a pipe's bytes when its reading ends, and then only.    *)
LEMMA TextStep == ShellInv /\ ShellMove => TextInv'
  <1> SUFFICES ASSUME ShellInv, ShellMove PROVE TextInv'
    OBVIOUS
  <1> USE DEF ShellInv, TextInv, Past, pipeVars
  <1>1. CASE Execute \/ ShellForgotten
    BY <1>1 DEF Execute, ShellForgotten, Fresh
  <1>2. ASSUME NEW s \in Stream, Write(s) PROVE TextInv'
    BY <1>2 DEF Write, Open, Stream
  <1>3. CASE Exits \/ Forks \/ HeirEnds
    BY <1>3 DEF Exits, Forks, HeirEnds
  <1>4. CASE DeadlinePasses \/ SeesExit \/ SeesDeadline \/ Kill \/ WaitFails
    BY <1>4 DEF DeadlinePasses, SeesExit, SeesDeadline, Kill, WaitFails
  <1>5. ASSUME NEW s \in Stream, Read(s) PROVE TextInv'
    <2>1. /\ shell = s /\ UNCHANGED <<failed, odd>>
          /\ \/ UNCHANGED <<shell, cut, altered>>
             \/ /\ cut' = [cut EXCEPT ![s] = TRUE]
                /\ Convert(s) /\ shell' = AfterReading(s)
      BY <1>5 DEF Read
    <2>2. cut \in [Stream -> BOOLEAN]
      BY DEF ShellTypeOK
    <2> QED
      BY <2>1, <2>2 DEF Convert, AfterReading, Stream
  <1>6. ASSUME NEW s \in Stream, ReadEnd(s) PROVE TextInv'
    <2>1. /\ shell = s /\ shell' = AfterReading(s)
          /\ UNCHANGED <<failed, odd, cut>> /\ Convert(s)
      BY <1>6 DEF ReadEnd
    <2>2. ~cut[s]
      BY <2>1 DEF AccountInv, Stream
    <2> QED
      BY <2>1, <2>2 DEF Convert, AfterReading, Stream
  <1>7. ASSUME NEW s \in Stream, ReadFails(s) PROVE TextInv'
    BY <1>7 DEF ReadFails
  <1>8. CASE UNCHANGED shellVars
    BY <1>8 DEF shellVars
  <1> QED
    BY <1>1, <1>2, <1>3, <1>4, <1>5, <1>6, <1>7, <1>8
       DEF ShellMove, ProgramStep, ShellStep, ShellError

-------------------------------------------------------------------------------
(* The file commands.                                                      *)

LEMMA FileInvInit == FilesInit => FileInv
  <1> SUFFICES ASSUME FilesInit PROVE FileInv
    OBVIOUS
  <1>1. FileTypeOK
    <2>1. /\ path \in {"own", "link", "gone"} /\ {src, dst, tmp} \subseteq Entry
          /\ before \in [src : Entry, dst : Entry]
      BY DEF FilesInit, Entry
    <2>2. hops \in 0..MaxHops
      BY FileAssumption DEF FilesInit
    <2>3. {touched, stuck} \subseteq BOOLEAN
      BY DEF FilesInit
    <2> QED
      BY <2>1, <2>2, <2>3 DEF FilesInit, FileTypeOK
  <1>2. OpInv /\ DataInv /\ ProgressInv /\ OutcomeInv
    BY DEF FilesInit, OpInv, DataInv, ProgressInv, OutcomeInv
  <1>3. ResultsTruthful
    BY DEF FilesInit, ResultsTruthful
  <1> QED
    BY <1>1, <1>2, <1>3 DEF FileInv

(* No step of a file command or of others leaves the types.                *)
LEMMA FileTypeStep == FileInv /\ FileMove => FileTypeOK'
  <1> SUFFICES ASSUME FileTypeOK, OpInv, FileMove PROVE FileTypeOK'
    BY DEF FileInv
  <1> USE DEF To, Return, Leave, Paths
  <1>1. ASSUME NEW kind \in FileOp, StartFile(kind) PROVE FileTypeOK'
    BY <1>1 DEF StartFile, FileTypeOK, Entry
  <1>2. CASE FilesForgotten
    <2>1. /\ path' \in {"own", "link", "gone"} /\ {src, dst, tmp}' \subseteq Entry
          /\ before' \in [src : Entry, dst : Entry]
      BY <1>2 DEF FilesForgotten, FileTypeOK, Entry
    <2>2. hops' \in 0..MaxHops
      BY <1>2, FileAssumption DEF FilesForgotten
    <2>3. {touched, stuck}' \subseteq BOOLEAN
      BY <1>2 DEF FilesForgotten, FileTypeOK, Entry
    <2> QED
      BY <1>2, <2>1, <2>2, <2>3 DEF FilesForgotten, FileTypeOK, Entry
  <1>3. CASE Meddle
    <2>1. path' \in {"own", "link", "gone"} /\ {src, dst, tmp}' \subseteq Entry
      BY <1>3 DEF Meddle, FileTypeOK, Entry
    <2>2. {touched, stuck}' \subseteq BOOLEAN
      BY <1>3 DEF Meddle, FileTypeOK, Entry
    <2>3. UNCHANGED <<op, at, fetched, hops, outcome, before>>
      BY <1>3 DEF Meddle
    <2> QED
      BY <2>1, <2>2, <2>3 DEF FileTypeOK
  <1>4. CASE Resolve
    BY <1>4 DEF Resolve, FileOp, OpInv, FileTypeOK, Entry
  <1>5. CASE Check \/ Rename
    BY <1>5 DEF Check, Rename, FileTypeOK, Entry
  <1>6. CASE OpenCopy \/ CopyEnds \/ CopyFails \/ Undo
    BY <1>6 DEF OpenCopy, CopyEnds, CopyFails, Undo, FileTypeOK, Entry
  <1>7. CASE Remove \/ MakeDir
    BY <1>7 DEF Remove, MakeDir, FileTypeOK, Entry
  <1>8. CASE Request \/ TooManyRedirects
    <2>1. hops' \in 0..MaxHops
      <3>1. hops' = hops \/ (hops < MaxHops /\ hops' = hops + 1)
        BY <1>8 DEF Request, TooManyRedirects
      <3>2. hops \in 0..MaxHops
        BY DEF FileTypeOK
      <3> QED
        BY <3>1, <3>2, FileAssumption
    <2>2. /\ path' \in {"own", "link", "gone"} /\ {src, dst, tmp}' \subseteq Entry
          /\ {touched, stuck}' \subseteq BOOLEAN
      BY <1>8 DEF Request, TooManyRedirects, FileTypeOK, Entry
    <2> QED
      BY <1>8, <2>1, <2>2 DEF Request, TooManyRedirects, FileTypeOK, Entry
  <1>9. CASE VerifyFetched
    BY <1>9 DEF VerifyFetched, Deliver, FileTypeOK, Entry
  <1>10. CASE Place \/ WriteTemp \/ Install
    BY <1>10 DEF Place, WriteTemp, Install, FileTypeOK, Entry
  <1>11. CASE ReadFile \/ Upload
    BY <1>11 DEF ReadFile, Upload, FileTypeOK, Entry
  <1>12. CASE UNCHANGED fileVars
    BY <1>12 DEF fileVars, FileTypeOK
  <1> QED
    BY <1>1, <1>2, <1>3, <1>4, <1>5, <1>6, <1>7, <1>8, <1>9, <1>10, <1>11, <1>12
       DEF FileMove, FileStep

(* The steps of a command are those of its kind.                           *)
LEMMA OpStep == FileInv /\ FileMove => OpInv'
  <1> SUFFICES ASSUME FileTypeOK, OpInv, FileMove PROVE OpInv'
    BY DEF FileInv
  <1> USE DEF OpInv, To, Return, Leave, Paths
  <1>1. ASSUME NEW kind \in FileOp, StartFile(kind) PROVE OpInv'
    BY <1>1 DEF StartFile
  <1>2. CASE FilesForgotten
    BY <1>2 DEF FilesForgotten
  <1>3. CASE Meddle
    BY <1>3 DEF Meddle
  <1>4. CASE Resolve
    BY <1>4 DEF Resolve, FileOp, Moves, Copies, Removes, Fetches, Writes
  <1>5. CASE Check \/ Rename
    BY <1>5 DEF Check, Rename
  <1>6. CASE OpenCopy \/ CopyEnds \/ CopyFails \/ Undo
    BY <1>6 DEF OpenCopy, CopyEnds, CopyFails, Undo
  <1>7. CASE Remove \/ MakeDir
    BY <1>7 DEF Remove, MakeDir
  <1>8. CASE Request \/ TooManyRedirects
    BY <1>8 DEF Request, TooManyRedirects
  <1>9. CASE VerifyFetched
    BY <1>9 DEF VerifyFetched, Deliver, Fetches
  <1>10. CASE Place \/ WriteTemp \/ Install
    BY <1>10 DEF Place, WriteTemp, Install
  <1>11. CASE ReadFile \/ Upload
    BY <1>11 DEF ReadFile, Upload
  <1>12. CASE UNCHANGED fileVars
    BY <1>12 DEF fileVars
  <1> QED
    BY <1>1, <1>2, <1>3, <1>4, <1>5, <1>6, <1>7, <1>8, <1>9, <1>10, <1>11, <1>12
       DEF FileMove, FileStep

(* What is received is verified before it is written anywhere.             *)
LEMMA DataStep == FileInv /\ FileMove => DataInv'
  <1> SUFFICES ASSUME FileTypeOK, OpInv, DataInv, FileMove PROVE DataInv'
    BY DEF FileInv
  <1> USE DEF DataInv, To, Return, Leave, Paths
  <1>1. ASSUME NEW kind \in FileOp, StartFile(kind) PROVE DataInv'
    BY <1>1 DEF StartFile
  <1>2. CASE FilesForgotten \/ Meddle
    BY <1>2 DEF FilesForgotten, Meddle
  <1>3. CASE Resolve \/ Check \/ Rename
    BY <1>3 DEF Resolve, Check, Rename, OpInv, FileOp
  <1>4. CASE OpenCopy \/ CopyEnds \/ CopyFails \/ Undo \/ Remove \/ MakeDir
    BY <1>4 DEF OpenCopy, CopyEnds, CopyFails, Undo, Remove, MakeDir
  <1>5. CASE Request \/ TooManyRedirects \/ VerifyFetched
    BY <1>5 DEF Request, TooManyRedirects, VerifyFetched, Deliver
  <1>6. CASE Place \/ WriteTemp \/ Install
    BY <1>6 DEF Place, WriteTemp, Install
  <1>7. CASE ReadFile \/ Upload
    BY <1>7 DEF ReadFile, Upload
  <1>8. CASE UNCHANGED fileVars
    BY <1>8 DEF fileVars
  <1> QED
    BY <1>1, <1>2, <1>3, <1>4, <1>5, <1>6, <1>7, <1>8 DEF FileMove, FileStep

(* Left to itself, a command has changed at each step what it should.      *)
LEMMA ProgressStep == FileInv /\ FileMove => ProgressInv'
  <1> SUFFICES ASSUME FileTypeOK, OpInv, ProgressInv, FileMove PROVE ProgressInv'
    BY DEF FileInv
  <1> USE DEF ProgressInv, To, Return, Leave, Paths, Exists
  <1>1. ASSUME NEW kind \in FileOp, StartFile(kind) PROVE ProgressInv'
    BY <1>1 DEF StartFile
  <1>2. CASE FilesForgotten \/ Meddle
    BY <1>2 DEF FilesForgotten, Meddle
  <1>3. CASE Resolve
    BY <1>3 DEF Resolve, OpInv, FileOp
  <1>4. CASE Check \/ Rename
    BY <1>4 DEF Check, Rename
  <1>5. CASE OpenCopy \/ CopyEnds \/ CopyFails \/ Undo
    BY <1>5 DEF OpenCopy, CopyEnds, CopyFails, Undo
  <1>6. CASE Remove \/ MakeDir
    BY <1>6 DEF Remove, MakeDir
  <1>7. CASE Request \/ TooManyRedirects \/ VerifyFetched
    BY <1>7 DEF Request, TooManyRedirects, VerifyFetched, Deliver
  <1>8. CASE Place \/ WriteTemp \/ Install
    BY <1>8 DEF Place, WriteTemp, Install
  <1>9. CASE ReadFile \/ Upload
    BY <1>9 DEF ReadFile, Upload
  <1>10. CASE UNCHANGED fileVars
    BY <1>10 DEF fileVars
  <1> QED
    BY <1>1, <1>2, <1>3, <1>4, <1>5, <1>6, <1>7, <1>8, <1>9, <1>10
       DEF FileMove, FileStep

(* A command has an outcome when it is done, and the outcome is true.      *)
LEMMA OutcomeStep == FileInv /\ FileMove => OutcomeInv' /\ ResultsTruthful'
  <1> SUFFICES ASSUME FileInv, FileMove PROVE OutcomeInv' /\ ResultsTruthful'
    OBVIOUS
  <1> USE DEF FileInv, OutcomeInv, ResultsTruthful, AtPath, ProgressInv, OpInv,
              To, Return, Leave, Paths
  <1>1. ASSUME NEW kind \in FileOp, StartFile(kind)
        PROVE  OutcomeInv' /\ ResultsTruthful'
    BY <1>1 DEF StartFile
  <1>2. CASE FilesForgotten \/ Meddle
    BY <1>2 DEF FilesForgotten, Meddle
  <1>3. CASE Resolve
    BY <1>3 DEF Resolve, FileOp
  <1>4. CASE Check \/ Rename
    BY <1>4 DEF Check, Rename, Moves, Copies, Writes, Removes
  <1>5. CASE OpenCopy \/ CopyEnds \/ CopyFails
    BY <1>5 DEF OpenCopy, CopyEnds, CopyFails, Moves, Copies, Removes
  <1>6. CASE Undo
    BY <1>6 DEF Undo, Exists, FileTypeOK, Entry
  <1>7. CASE Remove \/ MakeDir
    BY <1>7 DEF Remove, MakeDir, Moves, Copies, Removes, Writes
  <1>8. CASE Request \/ TooManyRedirects \/ VerifyFetched
    BY <1>8 DEF Request, TooManyRedirects, VerifyFetched, Deliver
  <1>9. CASE Place \/ WriteTemp \/ Install
    BY <1>9 DEF Place, WriteTemp, Install, DataInv, Moves, Copies, Removes, Writes
  <1>10. CASE ReadFile \/ Upload
    BY <1>10 DEF ReadFile, Upload, Moves, Copies, Removes, Writes
  <1>11. CASE UNCHANGED fileVars
    BY <1>11 DEF fileVars
  <1> QED
    BY <1>1, <1>2, <1>3, <1>4, <1>5, <1>6, <1>7, <1>8, <1>9, <1>10, <1>11
       DEF FileMove, FileStep

-------------------------------------------------------------------------------

HandInv ==
  /\ hand \in Command \cup {"none"}
  /\ answer \in {"none", "running", "rebooting", "ok", "failed", "timed out"}

HandlersInv == ShellInv /\ FileInv /\ HandInv

(* A task in hand is one of the commands, and its answer one of the kinds. *)
LEMMA HandStep == FileInv /\ HandInv /\ [HandlersNext]_handlerVars => HandInv'
  <1> SUFFICES ASSUME FileInv, HandInv, [HandlersNext]_handlerVars PROVE HandInv'
    OBVIOUS
  <1> USE DEF HandInv, Answer
  <1>1. CASE TakeTask \/ RefuseTask
    BY <1>1 DEF TakeTask, RefuseTask
  <1>2. CASE SubmitResult \/ AgentDies
    BY <1>2 DEF SubmitResult, AgentDies, Forget
  <1>3. CASE ShellAnswers \/ HelperAnswers \/ Reboot
    BY <1>3 DEF ShellAnswers, HelperAnswers, Reboot
  <1>4. CASE FileAnswers
    BY <1>4 DEF FileAnswers, FileInv, FileTypeOK
  <1>5. CASE UNCHANGED handVars
    BY <1>5 DEF handVars
  <1> QED
    BY <1>1, <1>2, <1>3, <1>4, <1>5 DEF HandlersNext, handlerVars

(* The whole inductive invariant.                                          *)
LEMMA HandlersInvariant == HandlersSpec => []HandlersInv
  <1>1. HandlersInit => HandlersInv
    BY ShellInvInit, FileInvInit DEF HandlersInit, HandlersInv, HandInv
  <1>2. HandlersInv /\ [HandlersNext]_handlerVars => HandlersInv'
    <2> SUFFICES ASSUME HandlersInv, [HandlersNext]_handlerVars PROVE HandlersInv'
      OBVIOUS
    <2>1. ShellMove /\ FileMove
      BY EachMoves
    <2>2. ShellInv'
      BY <2>1, ShellTypeStep, ReapedStep, AccountStep, EndStep, TextStep
         DEF HandlersInv, ShellInv
    <2>3. FileInv'
      BY <2>1, FileTypeStep, OpStep, DataStep, ProgressStep, OutcomeStep
         DEF HandlersInv, FileInv
    <2>4. HandInv'
      BY HandStep DEF HandlersInv
    <2> QED
      BY <2>2, <2>3, <2>4 DEF HandlersInv
  <1> QED
    BY <1>1, <1>2, PTL DEF HandlersSpec

(* Pipes hold no more than they can, no more than the limit is read, and   *)
(* the command in hand and its answer are ones handle_task knows           *)
(* (run_execve, handle_task).                                              *)
THEOREM TypeCorrect == HandlersSpec => []HandlersTypeOK
  <1>1. HandlersInv => HandlersTypeOK
    BY DEF HandlersInv, HandInv, ShellInv, FileInv, HandlersTypeOK
  <1> QED
    BY <1>1, HandlersInvariant, PTL

(* However the program, what it leaves behind and the deadline interleave, *)
(* for every pipe and every limit: a program whose output is returned was  *)
(* waited for, all bytes it wrote were read or the output is marked as     *)
(* truncated, and unmarked text is these bytes exactly if they were UTF-8  *)
(* (run_execve, read_from_reader with its from_utf8_lossy).                *)
THEOREM OutputCorrect == HandlersSpec => []OutputComplete
  <1>1. HandlersInv => OutputComplete
    <2> SUFFICES ASSUME ShellInv, shell = "done", ~failed
                 PROVE  /\ child = "reaped"
                        /\ \A s \in Stream :
                             IF cut[s]
                             THEN got[s] = MaxOutput /\ written[s] > MaxOutput
                             ELSE /\ got[s] = written[s] /\ ~heir
                                  /\ s \in altered <=> s \in odd
      BY DEF HandlersInv, OutputComplete
    <2>1. child = "reaped"
      BY DEF ShellInv, ReapedInv
    <2>2. ASSUME NEW s \in Stream, cut[s]
          PROVE  got[s] = MaxOutput /\ written[s] > MaxOutput
      BY <2>2 DEF ShellInv, AccountInv
    <2>3. ASSUME NEW s \in Stream, ~cut[s]
          PROVE  got[s] = written[s] /\ ~heir /\ (s \in altered <=> s \in odd)
      <3>1. pipe[s] = 0 /\ ~heir
        BY <2>3 DEF ShellInv, EndInv, Past
      <3>2. got[s] + pipe[s] = written[s]
        BY <2>3 DEF ShellInv, AccountInv
      <3>3. got[s] \in Nat
        BY ShellAssumption DEF ShellInv, ShellTypeOK
      <3>4. s \in altered <=> s \in odd
        BY <2>3 DEF ShellInv, TextInv, Past
      <3> QED
        BY <3>1, <3>2, <3>3, <3>4
    <2> QED
      BY <2>1, <2>2, <2>3
  <1> QED
    BY <1>1, HandlersInvariant, PTL

(* Whichever step of a file command fails, its result tells what it did to *)
(* what its paths lead to.  A source that was given by a symbolic link is  *)
(* the link's target, and the link is left behind (resolve_read_path,      *)
(* resolve_existing_dir, copy_file_path, move_path, atomic_write_file and  *)
(* the handlers that call them).                                           *)
THEOREM ResultsCorrect == HandlersSpec => []ResultsTruthful
  <1>1. HandlersInv => ResultsTruthful
    BY DEF HandlersInv, FileInv
  <1> QED
    BY <1>1, HandlersInvariant, PTL

(* A destination is replaced by a rename of what was verified or not at    *)
(* all (atomic_write_file).                                                *)
THEOREM WritesCorrect == HandlersSpec => WritesAreWhole
  <1>1. HandlersInv /\ [HandlersNext]_handlerVars
          => [(op \in Writes /\ dst' \in {"part", "wrong"}) => dst' = dst]_fileVars
    <2> SUFFICES ASSUME FileInv, FileMove, op \in Writes, dst' \in {"part", "wrong"}
                 PROVE  dst' = dst
      BY EachMoves DEF HandlersInv
    <2> USE DEF FileInv, OpInv, To, Return, Leave, Paths, Writes
    <2>1. ASSUME NEW kind \in FileOp, StartFile(kind) PROVE dst' = dst
      BY <2>1 DEF StartFile
    <2>2. CASE FilesForgotten \/ Meddle
      BY <2>2 DEF FilesForgotten, Meddle
    <2>3. CASE Resolve \/ Check \/ Rename
      BY <2>3 DEF Resolve, Check, Rename
    <2>4. CASE OpenCopy \/ CopyEnds \/ CopyFails \/ Undo
      BY <2>4 DEF OpenCopy, CopyEnds, CopyFails, Undo, Copies
    <2>5. CASE Remove \/ MakeDir
      BY <2>5 DEF Remove, MakeDir
    <2>6. CASE Request \/ TooManyRedirects \/ VerifyFetched
      BY <2>6 DEF Request, TooManyRedirects, VerifyFetched, Deliver
    <2>7. CASE Place \/ WriteTemp \/ Install
      BY <2>7 DEF Place, WriteTemp, Install, DataInv
    <2>8. CASE ReadFile \/ Upload
      BY <2>8 DEF ReadFile, Upload
    <2>9. CASE UNCHANGED fileVars
      BY <2>9 DEF fileVars
    <2> QED
      BY <2>1, <2>2, <2>3, <2>4, <2>5, <2>6, <2>7, <2>8, <2>9
         DEF FileMove, FileStep
  <1> QED
    BY <1>1, HandlersInvariant, PTL DEF HandlersSpec, WritesAreWhole

-------------------------------------------------------------------------------
(* A call winds down: the safety half of ShellReturns, and the same of the *)
(* file commands.                                                          *)

(* What the agent has left to do of a shell command.  It is one step to    *)
(* each byte under the limit, whatever the program writes.                 *)
CallLeft ==
  CASE shell = "polling"            -> 2 * MaxOutput + 4
    [] shell = "killing"            -> 2 * MaxOutput + 3
    [] shell = "stdout"             -> 2 * MaxOutput + 2 - got["stdout"]
    [] shell = "stderr"             -> MaxOutput + 1 - got["stderr"]
    [] shell \in {"idle", "done"}   -> 0

(* The same of a file command at a step, n requests made: a download that  *)
(* is redirected goes round, and nothing else does.                        *)
StepsFrom(phase, n) ==
  CASE phase \in {"idle", "done"}                      -> 0
    [] phase \in {"rename", "undo", "remove", "chmod dir", "upload", "install"} -> 1
    [] phase \in {"copying", "mkdir", "read", "chmod"} -> 2
    [] phase \in {"open", "write"}                     -> 3
    [] phase \in {"check", "place"}                    -> 4
    [] phase = "verify"                                -> 5
    [] phase = "request"                               -> MaxHops - n + 6
    [] phase = "resolve"                               -> MaxHops + 7

FileLeft == StepsFrom(at, hops)

CallBounded ==
  /\ CallLeft \in 0..(2 * MaxOutput + 4)
  /\ FileLeft \in 0..(MaxHops + 7)

(* Every step of the agent brings the call it works on nearer to its end,  *)
(* and neither the program nor others on the same paths take it back.      *)
CallWindsDown ==
  [][/\ ShellStep \/ ShellError => CallLeft' < CallLeft
     /\ shell \notin {"idle", "done"} => CallLeft' <= CallLeft
     /\ FileStep => FileLeft' < FileLeft
     /\ at \notin {"idle", "done"} => FileLeft' <= FileLeft]_handlerVars

(* The measure at each step, for the lemmas below.                         *)
LEMMA StepsFromEach ==
  ASSUME NEW n
  PROVE  /\ StepsFrom("idle", n) = 0 /\ StepsFrom("done", n) = 0
         /\ StepsFrom("rename", n) = 1 /\ StepsFrom("undo", n) = 1 /\ StepsFrom("remove", n) = 1
         /\ StepsFrom("chmod dir", n) = 1 /\ StepsFrom("upload", n) = 1 /\ StepsFrom("install", n) = 1
         /\ StepsFrom("copying", n) = 2 /\ StepsFrom("mkdir", n) = 2
         /\ StepsFrom("read", n) = 2 /\ StepsFrom("chmod", n) = 2
         /\ StepsFrom("open", n) = 3 /\ StepsFrom("write", n) = 3
         /\ StepsFrom("check", n) = 4 /\ StepsFrom("place", n) = 4
         /\ StepsFrom("verify", n) = 5
         /\ StepsFrom("request", n) = MaxHops - n + 6
         /\ StepsFrom("resolve", n) = MaxHops + 7
  BY DEF StepsFrom

(* Both measures stay within their bounds.                                 *)
LEMMA CallsBounded == HandlersInv => CallBounded
  <1> SUFFICES ASSUME HandlersInv PROVE CallBounded
    OBVIOUS
  <1>1. /\ MaxOutput \in Nat /\ got["stdout"] \in 0..MaxOutput /\ got["stderr"] \in 0..MaxOutput
        /\ shell \in {"idle", "polling", "killing", "stdout", "stderr", "done"}
    BY ShellAssumption DEF HandlersInv, ShellInv, ShellTypeOK, Stream
  <1>2. \/ CallLeft \in {0, 2 * MaxOutput + 4, 2 * MaxOutput + 3}
        \/ CallLeft = 2 * MaxOutput + 2 - got["stdout"]
        \/ CallLeft = MaxOutput + 1 - got["stderr"]
    BY <1>1 DEF CallLeft
  <1>3. FileTypeOK /\ MaxHops \in Nat /\ hops \in 0..MaxHops
    BY FileAssumption DEF HandlersInv, FileInv, FileTypeOK
  <1>4. FileLeft \in {0, 1, 2, 3, 4, 5, MaxHops - hops + 6, MaxHops + 7}
    BY <1>3, StepsFromEach DEF FileTypeOK, FileLeft
  <1>5. CallLeft \in 0..(2 * MaxOutput + 4)
    BY <1>1, <1>2
  <1>6. FileLeft \in 0..(MaxHops + 7)
    BY <1>3, <1>4
  <1> QED
    BY <1>5, <1>6 DEF CallBounded

(* A read takes at least a byte towards the limit, or is the last of its   *)
(* pipe.                                                                   *)
LEMMA ReadWindsDown ==
  ASSUME ShellTypeOK, NEW s \in Stream, Read(s)
  PROVE  CallLeft' < CallLeft
  <1>1. MaxOutput \in Nat /\ shell = s /\ got \in [Stream -> 0..MaxOutput]
    BY ShellAssumption DEF ShellTypeOK, Read
  <1>2. PICK n \in 1..pipe[s] :
          IF got[s] + n <= MaxOutput
          THEN got' = [got EXCEPT ![s] = @ + n] /\ UNCHANGED <<shell, cut>>
          ELSE got' = [got EXCEPT ![s] = MaxOutput] /\ shell' = AfterReading(s)
    BY DEF Read
  <1>3. n \in Nat /\ n > 0 /\ got[s] \in 0..MaxOutput
    BY <1>1, <1>2 DEF ShellTypeOK
  <1>4. CASE got[s] + n <= MaxOutput
    <2>1. shell' = s /\ got'[s] = got[s] + n
      BY <1>1, <1>2, <1>4
    <2>2. CASE s = "stdout"
      BY <1>1, <1>3, <2>1, <2>2 DEF CallLeft
    <2>3. CASE s = "stderr"
      BY <1>1, <1>3, <2>1, <2>3 DEF CallLeft
    <2> QED
      BY <2>2, <2>3 DEF Stream
  <1>5. CASE ~(got[s] + n <= MaxOutput)
    <2>1. shell' = AfterReading(s) /\ \A t \in Stream : got'[t] \in 0..MaxOutput
      BY <1>1, <1>2, <1>5
    <2>2. CASE s = "stdout"
      <3>1. shell' = "stderr" /\ got'["stderr"] \in 0..MaxOutput
        BY <2>1, <2>2 DEF AfterReading, Stream
      <3> QED
        BY <1>1, <1>3, <2>2, <3>1 DEF CallLeft
    <2>3. CASE s = "stderr"
      <3>1. shell' = "done"
        BY <2>1, <2>3 DEF AfterReading
      <3> QED
        BY <1>1, <1>3, <2>3, <3>1 DEF CallLeft
    <2> QED
      BY <2>2, <2>3 DEF Stream
  <1> QED
    BY <1>4, <1>5

(* A step of run_execve, or its failure, is one of its last.               *)
LEMMA ShellWindsDown ==
  ASSUME ShellTypeOK, ShellStep \/ ShellError
  PROVE  CallLeft' < CallLeft
  <1>0. /\ MaxOutput \in Nat /\ got["stdout"] \in 0..MaxOutput /\ got["stderr"] \in 0..MaxOutput
    BY ShellAssumption DEF ShellTypeOK, Stream
  <1>1. CASE SeesExit \/ Kill
    <2>1. shell \in {"polling", "killing"} /\ shell' = "stdout" /\ got' = got
      BY <1>1 DEF SeesExit, Kill, pipeVars
    <2> QED
      BY <1>0, <2>1 DEF CallLeft
  <1>2. CASE SeesDeadline
    BY <1>0, <1>2 DEF SeesDeadline, CallLeft
  <1>3. ASSUME NEW s \in Stream, Read(s) PROVE CallLeft' < CallLeft
    BY <1>3, ReadWindsDown
  <1>4. ASSUME NEW s \in Stream, ReadEnd(s) PROVE CallLeft' < CallLeft
    <2>1. got' = got /\ \/ shell = "stdout" /\ shell' = "stderr"
                        \/ shell = "stderr" /\ shell' = "done"
      BY <1>4 DEF ReadEnd, AfterReading, Stream, pipeVars
    <2> QED
      BY <1>0, <2>1 DEF CallLeft
  <1>5. CASE ShellError
    <2>1. shell \in {"polling", "stdout", "stderr"} /\ shell' = "done"
      BY <1>5 DEF ShellError, WaitFails, ReadFails, Stream
    <2> QED
      BY <1>0, <2>1 DEF CallLeft
  <1> QED
    BY <1>1, <1>2, <1>3, <1>4, <1>5 DEF ShellStep

(* Neither the program, nor the clock, nor another task adds to a call.    *)
LEMMA ShellKept ==
  ASSUME ShellTypeOK, CallBounded, CallBounded', ShellMove, shell \notin {"idle", "done"}
  PROVE  CallLeft' <= CallLeft
  <1>1. CallLeft \in Nat /\ CallLeft' \in Nat
    BY ShellAssumption DEF CallBounded
  <1>2. CASE ShellStep \/ ShellError
    BY <1>1, <1>2, ShellWindsDown
  <1>3. CASE ProgramStep \/ DeadlinePasses \/ UNCHANGED shellVars
    <2>1. UNCHANGED <<shell, got>>
      BY <1>3 DEF ProgramStep, Write, Exits, Forks, HeirEnds, DeadlinePasses, shellVars, pipeVars
    <2>2. CallLeft' = CallLeft
      BY <2>1 DEF CallLeft
    <2> QED
      BY <1>1, <2>2
  <1>4. CASE Execute
    BY <1>4 DEF Execute
  <1>5. CASE ShellForgotten
    <2>1. CallLeft' = 0
      BY <1>5 DEF ShellForgotten, CallLeft
    <2> QED
      BY <1>1, <2>1
  <1> QED
    BY <1>2, <1>3, <1>4, <1>5 DEF ShellMove

(* A step of a file command is one of its last.                            *)
LEMMA FileWindsDown ==
  ASSUME FileInv, FileStep
  PROVE  FileLeft' < FileLeft
  <1> USE DEF To, Return
  <1>0. MaxHops \in Nat /\ hops \in 0..MaxHops
    BY FileAssumption DEF FileInv, FileTypeOK
  <1>1. CASE Resolve
    <2>1. at = "resolve" /\ at' \in {"done", "check", "remove", "request", "mkdir", "read"}
          /\ hops' = hops
      BY <1>1 DEF Resolve, FileInv, OpInv, FileOp
    <2>2. FileLeft = MaxHops + 7
      BY <2>1, StepsFromEach DEF FileLeft
    <2>3. FileLeft' \in {0, 1, 2, 4, MaxHops - hops + 6}
      BY <2>1, StepsFromEach DEF FileLeft
    <2> QED
      BY <1>0, <2>2, <2>3
  <1>2. CASE Request
    <2>1. /\ at = "request" /\ hops < MaxHops /\ hops' = hops + 1
          /\ at' \in {"request", "verify", "done"}
      BY <1>2 DEF Request
    <2>2. FileLeft = MaxHops - hops + 6
      BY <2>1, StepsFromEach DEF FileLeft
    <2>3. FileLeft' \in {0, 5, MaxHops - (hops + 1) + 6}
      BY <2>1, StepsFromEach DEF FileLeft
    <2> QED
      BY <1>0, <2>1, <2>2, <2>3
  <1>3. CASE TooManyRedirects
    <2>1. at = "request" /\ at' = "done"
      BY <1>3 DEF TooManyRedirects
    <2>2. FileLeft = MaxHops - hops + 6
      BY <2>1, StepsFromEach DEF FileLeft
    <2>3. FileLeft' = 0
      BY <2>1, StepsFromEach DEF FileLeft
    <2> QED
      BY <1>0, <2>2, <2>3
  <1>4. CASE \/ Check \/ Rename \/ OpenCopy \/ CopyEnds \/ CopyFails \/ Undo
             \/ Remove \/ MakeDir
    <2>1. \/ at = "check" /\ at' \in {"rename", "open", "done"}
          \/ at = "open" /\ at' \in {"undo", "copying"}
          \/ at = "copying" /\ at' \in {"undo", "done"}
          \/ at = "mkdir" /\ at' \in {"chmod dir", "done"}
          \/ at \in {"rename", "undo", "remove", "chmod dir"} /\ at' = "done"
      BY <1>4 DEF Check, Rename, OpenCopy, CopyEnds, CopyFails, Undo, Remove, MakeDir
    <2>2. \/ FileLeft = 4 /\ FileLeft' \in {0, 1, 3}
          \/ FileLeft = 3 /\ FileLeft' \in {1, 2}
          \/ FileLeft = 2 /\ FileLeft' \in {0, 1}
          \/ FileLeft = 1 /\ FileLeft' = 0
      BY <2>1, StepsFromEach DEF FileLeft
    <2> QED
      BY <2>2
  <1>5. CASE VerifyFetched \/ Place \/ WriteTemp \/ Install \/ ReadFile \/ Upload
    <2>1. \/ at = "verify" /\ at' \in {"upload", "place", "done"}
          \/ at = "place" /\ at' \in {"write", "done"}
          \/ at = "write" /\ at' \in {"chmod", "done"}
          \/ at = "chmod" /\ at' \in {"install", "done"}
          \/ at = "read" /\ at' \in {"upload", "done"}
          \/ at \in {"install", "upload"} /\ at' = "done"
      BY <1>5 DEF VerifyFetched, Deliver, Place, WriteTemp, Install, ReadFile, Upload
    <2>2. \/ FileLeft = 5 /\ FileLeft' \in {0, 1, 4}
          \/ FileLeft = 4 /\ FileLeft' \in {0, 3}
          \/ FileLeft = 3 /\ FileLeft' \in {0, 2}
          \/ FileLeft = 2 /\ FileLeft' \in {0, 1}
          \/ FileLeft = 1 /\ FileLeft' = 0
      BY <2>1, StepsFromEach DEF FileLeft
    <2> QED
      BY <2>2
  <1> QED
    BY <1>1, <1>2, <1>3, <1>4, <1>5 DEF FileStep

(* Others on the same paths do not send a file command back.               *)
LEMMA FileKept ==
  ASSUME FileInv, CallBounded, CallBounded', FileMove, at \notin {"idle", "done"}
  PROVE  FileLeft' <= FileLeft
  <1>1. FileLeft \in Nat /\ FileLeft' \in Nat
    BY FileAssumption DEF CallBounded
  <1>2. CASE FileStep
    BY <1>1, <1>2, FileWindsDown
  <1>3. CASE Meddle \/ UNCHANGED fileVars
    <2>1. UNCHANGED <<at, hops>>
      BY <1>3 DEF Meddle, fileVars
    <2>2. FileLeft' = FileLeft
      BY <2>1 DEF FileLeft
    <2> QED
      BY <1>1, <2>2
  <1>4. ASSUME NEW kind \in FileOp, StartFile(kind) PROVE FileLeft' <= FileLeft
    BY <1>4 DEF StartFile
  <1>5. CASE FilesForgotten
    <2>1. FileLeft' = 0
      BY <1>5, StepsFromEach DEF FilesForgotten, FileLeft
    <2> QED
      BY <1>1, <2>1
  <1> QED
    BY <1>2, <1>3, <1>4, <1>5 DEF FileMove

(* However much a program writes and however often others get in between,  *)
(* the agent takes boundedly many steps to a result: no call waits for     *)
(* output without end, and no file command starts over (read_limited_stdout, *)
(* execute_remote_download, copy_file_path, atomic_write_file).            *)
THEOREM CallsTerminate == HandlersSpec => []CallBounded /\ CallWindsDown
  <1>1. HandlersInv /\ CallBounded /\ CallBounded' /\ [HandlersNext]_handlerVars
          => [/\ ShellStep \/ ShellError => CallLeft' < CallLeft
              /\ shell \notin {"idle", "done"} => CallLeft' <= CallLeft
              /\ FileStep => FileLeft' < FileLeft
              /\ at \notin {"idle", "done"} => FileLeft' <= FileLeft]_handlerVars
    <2> SUFFICES ASSUME HandlersInv, CallBounded, CallBounded', [HandlersNext]_handlerVars
                 PROVE  /\ ShellStep \/ ShellError => CallLeft' < CallLeft
                        /\ shell \notin {"idle", "done"} => CallLeft' <= CallLeft
                        /\ FileStep => FileLeft' < FileLeft
                        /\ at \notin {"idle", "done"} => FileLeft' <= FileLeft
      OBVIOUS
    <2>1. ShellMove /\ FileMove /\ ShellTypeOK /\ FileInv
      BY EachMoves DEF HandlersInv, ShellInv
    <2> QED
      BY <2>1, ShellWindsDown, ShellKept, FileWindsDown, FileKept
  <1> QED
    BY <1>1, CallsBounded, HandlersInvariant, PTL DEF HandlersSpec, CallWindsDown

===============================================================================
