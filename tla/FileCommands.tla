------------------------------ MODULE FileCommands ------------------------------
(***************************************************************************)
(* The file and folder commands (src/src/commands/file_manipulation.rs,    *)
(* folder_manipulation.rs, file_push.rs, file_pull.rs, remote_download.rs) *)
(* on what they share (file_ops.rs), while other processes of the host     *)
(* work on the same paths.                                                 *)
(*                                                                         *)
(* A command has at most a source and a destination.  What is at a path is *)
(* a thing of its own or one of others, whole or in part; a folder is one  *)
(* thing.  Paths the policy refuses and failing system calls are choices.  *)
(*                                                                         *)
(* Paths are resolved first (canonicalize): src and dst are what the paths *)
(* of the command lead to.  The path of the source may be a symbolic link  *)
(* to it, and is then not where the source is.                             *)
(***************************************************************************)
EXTENDS Naturals

CONSTANT
  MaxHops   \* bound: requests of one remote.download (the code's 5)

ASSUME FileAssumption == MaxHops \in Nat \ {0}

VARIABLES
  op,        \* the command that runs, none
  at,        \* where it is
  path,      \* the path of the source: "own", or a "link", or "gone" since
  src, dst,  \* what is at its source and at its destination
  tmp,       \* what is in its temporary file
  fetched,   \* what a push or a download received
  hops,      \* requests made
  outcome,   \* what it returned
  before,    \* source and destination when it started
  touched,   \* others were at one of them since
  stuck      \* something was left that nobody cleans up

fileVars ==
  <<op, at, path, src, dst, tmp, fetched, hops, outcome, before, touched, stuck>>

(* What the command is to bring, a part of that, something else received,  *)
(* a thing of others, a symbolic link to nowhere.                          *)
Entry == {"none", "data", "part", "wrong", "theirs", "link"}

Moves   == {"file.move", "file.rename", "folder.move", "folder.rename"}
Copies  == {"file.copy", "folder.copy"}
Removes == {"file.delete", "folder.rmdir"}
Writes  == {"file.push", "remote.download"}

(* remote.relay: a remote.download without a destination, whose data goes  *)
(* to the server.                                                          *)
Fetches == Writes \cup {"remote.relay"}
FileOp  == Moves \cup Copies \cup Removes \cup Fetches
             \cup {"folder.mkdir", "file.pull"}

FileTypeOK ==
  /\ op \in FileOp \cup {"none"}
  /\ at \in {"idle", "resolve", "check", "rename", "open", "copying", "undo",
             "remove", "mkdir", "chmod dir", "request", "verify", "place",
             "write", "chmod", "install", "read", "upload", "done"}
  /\ path \in {"own", "link", "gone"}
  /\ {src, dst, tmp} \subseteq Entry
  /\ fetched \in {"none", "data", "wrong"}
  /\ hops \in 0..MaxHops
  /\ outcome \in {"none", "ok", "failed"}
  /\ before \in [src : Entry, dst : Entry]
  /\ {touched, stuck} \subseteq BOOLEAN

FilesInit ==
  /\ op = "none" /\ at = "idle" /\ outcome = "none"
  /\ path = "own" /\ src = "none" /\ dst = "none" /\ tmp = "none"
  /\ fetched = "none" /\ hops = 0
  /\ before = [src |-> "none", dst |-> "none"]
  /\ touched = FALSE /\ stuck = FALSE

FilesForgotten ==
  /\ op' = "none" /\ at' = "idle" /\ outcome' = "none"
  /\ path' = "own" /\ src' = "none" /\ dst' = "none" /\ tmp' = "none"
  /\ fetched' = "none" /\ hops' = 0
  /\ before' = [src |-> "none", dst |-> "none"]
  /\ touched' = FALSE /\ stuck' = FALSE

-------------------------------------------------------------------------------
(* Steps.                                                                  *)

To(phase) == at' = phase /\ UNCHANGED <<op, hops, outcome, before, touched>>

Return(result) ==
  /\ at' = "done" /\ outcome' = result
  /\ UNCHANGED <<op, hops, before, touched>>

Leave(vars) == UNCHANGED vars

Paths == <<path, src, dst>>

(* exists follows links, and one to nowhere does not exist.                *)
Exists(entry) == entry \in {"data", "part", "theirs"}

(* Other processes put something there, or take away what is there.        *)
Meddle ==
  /\ at \notin {"idle", "done"}
  /\ \/ dst' \in {"none", "theirs", "link"} \ {dst} /\ UNCHANGED <<path, src>>
     \/ src' \in {"none"} \ {src} /\ UNCHANGED <<path, dst>>
     \/ path = "link" /\ path' = "gone" /\ UNCHANGED <<src, dst>>
  /\ touched' = TRUE
  /\ UNCHANGED <<op, at, tmp, fetched, hops, outcome, before, stuck>>

(* A command starts with whatever is there.  A link to nowhere is like no  *)
(* source at all.                                                          *)
StartFile(kind) ==
  /\ at = "idle"
  /\ op' = kind /\ at' = "resolve"
  /\ path' \in {"own", "link"} /\ src' \in {"none", "data"} /\ dst' \in Entry
  /\ before' = [src |-> src', dst |-> dst']
  /\ UNCHANGED <<tmp, fetched, hops, outcome, touched, stuck>>

NeedsSource == op \in Moves \cup Copies \cup Removes \cup {"file.pull"}

SourceThere == NeedsSource => path # "gone" /\ Exists(src)

TargetFree ==
  op \in {"folder.mkdir", "file.rename", "folder.rename"} => ~Exists(dst)

(* resolve_read_path, resolve_existing_dir, resolve_rename_target,         *)
(* resolve_write_path and resolve_dir_create_path: a source must be there, *)
(* a folder to make must not; a path may be refused.                       *)
Resolve ==
  /\ at = "resolve"
  /\ \/ Return("failed")
     \/ /\ SourceThere /\ TargetFree
        /\ To(CASE op \in Moves \cup Copies  -> "check"
                [] op \in Removes            -> "remove"
                [] op \in Fetches            -> "request"
                [] op = "folder.mkdir"       -> "mkdir"
                [] op = "file.pull"          -> "read")
  /\ Leave(<<Paths, tmp, fetched, stuck>>)

(* copy_file_path, copy_dir_recursive and move_path look once more.        *)
Check ==
  /\ at = "check"
  /\ \/ Return("failed")
     \/ ~Exists(dst) /\ To(IF op \in Moves THEN "rename" ELSE "open")
  /\ Leave(<<Paths, tmp, fetched, stuck>>)

(* rename replaces what has come to the destination since.  Of a source    *)
(* that was reached by a link the link stays.                              *)
Rename ==
  /\ at = "rename"
  /\ \/ Return("failed") /\ Leave(Paths)
     \/ src # "none" /\ dst' = "data" /\ src' = "none" /\ Leave(path) /\ Return("ok")
  /\ Leave(<<tmp, fetched, stuck>>)

(* A file is created anew; a folder may be one that has come since.        *)
OpenCopy ==
  /\ at = "open"
  /\ \/ To("undo") /\ Leave(dst)
     \/ /\ src # "none"
        /\ \/ dst = "none" /\ dst' = "part"
           \/ op = "folder.copy" /\ dst = "theirs" /\ Leave(dst)
        /\ To("copying")
  /\ Leave(<<path, src, tmp, fetched, stuck>>)

(* The data goes to what was opened, wherever it is by now.                *)
CopyEnds ==
  /\ at = "copying"
  /\ dst' = IF dst = "part" THEN "data" ELSE dst
  /\ Return("ok")
  /\ Leave(<<path, src, tmp, fetched, stuck>>)

(* Mutant: an error in the middle of a copy is returned as it is.          *)
CopyFailsKeeps ==
  /\ at = "copying"
  /\ Return("failed")
  /\ Leave(<<Paths, tmp, fetched, stuck>>)

(* A read or a write fails, a folder holds a link.                         *)
CopyFails ==
  /\ at = "copying"
  /\ To("undo")
  /\ Leave(<<Paths, tmp, fetched, stuck>>)

(* What is at the destination is removed, whoever put it there.            *)
Undo ==
  /\ at = "undo"
  /\ \/ Exists(dst) /\ dst' = "none" /\ Leave(stuck)
     \/ Exists(dst) /\ stuck' = TRUE /\ Leave(dst)
     \/ ~Exists(dst) /\ Leave(<<dst, stuck>>)
  /\ Return("failed")
  /\ Leave(<<path, src, tmp, fetched>>)

Remove ==
  /\ at = "remove"
  /\ \/ Return("failed") /\ Leave(Paths)
     \/ src # "none" /\ src' = "none" /\ Leave(<<path, dst>>) /\ Return("ok")
  /\ Leave(<<tmp, fetched, stuck>>)

(* A folder whose mode cannot be set stays.                                *)
MakeDir ==
  /\ \/ at = "mkdir" /\ Return("failed") /\ Leave(<<dst, stuck>>)
     \/ at = "mkdir" /\ dst = "none" /\ dst' = "data" /\ To("chmod dir") /\ Leave(stuck)
     \/ at = "chmod dir" /\ Return("failed") /\ stuck' = TRUE /\ Leave(dst)
     \/ at = "chmod dir" /\ Return("ok") /\ Leave(<<dst, stuck>>)
  /\ Leave(<<path, src, tmp, fetched>>)

(* A push makes one request.  A download follows redirections by itself,   *)
(* each a new request to an address that is looked at again.               *)
Request ==
  /\ at = "request" /\ hops < MaxHops
  /\ hops' = hops + 1
  /\ \/ op # "file.push" /\ UNCHANGED <<at, fetched, outcome>>
     \/ fetched' \in {"data", "wrong"} /\ at' = "verify" /\ UNCHANGED outcome
     \/ at' = "done" /\ outcome' = "failed" /\ UNCHANGED fetched
  /\ UNCHANGED <<op, Paths, tmp, before, touched, stuck>>

TooManyRedirects ==
  /\ at = "request" /\ hops = MaxHops
  /\ Return("failed")
  /\ Leave(<<Paths, tmp, fetched, stuck>>)

(* Where the data goes: to the server, or to a destination, which          *)
(* remote.download resolves only now.                                      *)
Deliver == \/ To(IF op = "remote.relay" THEN "upload" ELSE "place")
           \/ op = "remote.download" /\ Return("failed")

(* Mutant: the data is used as it came.                                    *)
VerifyNothing ==
  /\ at = "verify"
  /\ Deliver
  /\ Leave(<<Paths, tmp, fetched, stuck>>)

(* Wrong is what is too big and, of a push, what has another digest than   *)
(* the task says.                                                          *)
VerifyFetched ==
  /\ at = "verify"
  /\ IF fetched = "data" THEN Deliver ELSE Return("failed")
  /\ Leave(<<Paths, tmp, fetched, stuck>>)

(* atomic_write_file, from its look at the destination to its rename.      *)
Place ==
  /\ at = "place"
  /\ \/ Return("failed") /\ Leave(tmp)
     \/ dst # "link" /\ tmp' = "part" /\ To("write")
  /\ Leave(<<Paths, fetched, stuck>>)

(* A temporary file that cannot be written, or whose mode cannot be set,   *)
(* stays.                                                                  *)
WriteTemp ==
  /\ \/ at = "write" /\ tmp' = fetched /\ To("chmod")
     \/ at = "chmod" /\ To("install") /\ Leave(tmp)
     \/ at \in {"write", "chmod"} /\ Return("failed") /\ Leave(tmp)
  /\ Leave(<<Paths, fetched, stuck>>)

Install ==
  /\ at = "install"
  /\ \/ dst' = tmp /\ tmp' = "none" /\ Return("ok")
     \/ tmp' \in {"none", tmp} /\ Return("failed") /\ Leave(dst)
  /\ Leave(<<path, src, fetched, stuck>>)

(* read_file_limited, and the artifact sent to the server.                 *)
ReadFile ==
  /\ at = "read"
  /\ Return("failed") \/ (src # "none" /\ To("upload"))
  /\ Leave(<<Paths, tmp, fetched, stuck>>)

Upload ==
  /\ at = "upload"
  /\ \E result \in {"ok", "failed"} : Return(result)
  /\ Leave(<<Paths, tmp, fetched, stuck>>)

FileStep ==
  \/ Resolve \/ Check \/ Rename
  \/ OpenCopy \/ CopyEnds \/ CopyFails \/ Undo
  \/ Remove \/ MakeDir
  \/ Request \/ TooManyRedirects \/ VerifyFetched
  \/ Place \/ WriteTemp \/ Install
  \/ ReadFile \/ Upload

-------------------------------------------------------------------------------
(* Properties.                                                             *)

(* A push or a download never puts anything at its destination but the     *)
(* whole of what was sent and verified, whatever others do there, whichever *)
(* step fails and wherever the agent dies.                                 *)
WritesAreWhole ==
  [][(op \in Writes /\ dst' \in {"part", "wrong"}) => dst' = dst]_fileVars

(* What is at the path of the source itself.                               *)
AtPath ==
  IF path = "own" THEN src ELSE IF path = "link" THEN "link" ELSE "none"

(* A result says what happened: where nobody else was at the paths, a      *)
(* command that succeeded has done all it was to do and nothing to the     *)
(* source it was to keep, and one that failed has changed nothing.  What   *)
(* was moved or deleted is gone, and so is its path, but for a symbolic    *)
(* link: it stays, now to nowhere, although the answer names its path.     *)
(* Two things a failure may leave: a copy that cannot be removed again,    *)
(* and a folder whose mode could not be set.                               *)
ResultsTruthful ==
  /\ outcome = "ok" /\ ~touched =>
       /\ op \in Moves \cup Copies \cup Writes \cup {"folder.mkdir"} => dst = "data"
       /\ IF op \in Moves \cup Removes
          THEN src = "none" /\ (AtPath = "none" \/ path = "link")
          ELSE src = before.src
  /\ outcome = "failed" /\ ~touched /\ ~stuck =>
       src = before.src /\ dst = before.dst

===============================================================================
