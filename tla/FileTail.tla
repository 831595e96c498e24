------------------------------ MODULE FileTail ------------------------------
(***************************************************************************)
(* internal/logs/file.go: FileSource.Stream follows the log file of a node *)
(* by polling it.                                                          *)
(*                                                                         *)
(* A file is the lines it holds, numbered in the order they were written,  *)
(* and perhaps the beginning of one more; a line is two bytes long and its *)
(* beginning one.  The node writes to the file it has open, which is not   *)
(* the one at the path between a rotation and its reaction to it.  A poll  *)
(* first looks at the path and seeks, then reads line by line, blocked by  *)
(* a slow consumer for as long as that takes: anything may happen to the   *)
(* file in between.  Errors of Stat and Seek on an open file are left out. *)
(***************************************************************************)
EXTENDS Integers, Sequences

CONSTANTS
  MaxLines,      (* bound on the lines the node writes                     *)
  MaxFiles,      (* bound on the files the path ever names                 *)
  MaxTruncates,  (* bound on truncations                                   *)
  NoFile         (* the path names none, or none is open                   *)

ASSUME TailAssumption ==
  MaxLines \in Nat /\ MaxFiles \in Nat /\ MaxTruncates \in Nat /\ NoFile \notin Nat

Lines == 1 .. MaxLines
Files == 1 .. MaxFiles

VARIABLES
  files,      (* what each file holds                                      *)
  created,    (* how many files the path has named, which numbers them     *)
  path,       (* the file at the path                                      *)
  writer,     (* the file the node has open                                *)
  written,    (* how many lines were begun                                 *)
  truncates,  (* how often a file was truncated                            *)
  source,     (* FileSource and the local variables of Stream              *)
  emitted     (* the lines the rules have seen                             *)

diskVars == <<files, created, path, writer, written, truncates>>
tailVars == <<diskVars, source, emitted>>

FileRecords == [lines : Seq(Lines), begun : BOOLEAN]
Empty == [lines |-> <<>>, begun |-> FALSE]

Sources == [file : Files \cup {NoFile}, off : Nat, tail : BOOLEAN, reading : BOOLEAN]

TailTypeOK ==
  /\ files \in [Files -> FileRecords]
  /\ created \in 0 .. MaxFiles
  /\ path \in Files \cup {NoFile} /\ writer \in Files \cup {NoFile}
  /\ written \in 0 .. MaxLines
  /\ truncates \in 0 .. MaxTruncates
  /\ source \in Sources
  /\ emitted \subseteq Lines

(* Bytes.                                                                  *)
Whole(f) == 2 * Len(files[f].lines)
Size(f) == Whole(f) + (IF files[f].begun THEN 1 ELSE 0)

---------------------------------------------------------------------------
(* Stream                                                                  *)

At(f, off) == [source EXCEPT !.file = f, !.off = off, !.tail = FALSE, !.reading = TRUE]

(* Nothing is open: the file was gone again when Stream came to open it.   *)
Closed == [source EXCEPT !.file = NoFile, !.off = 0]

(* The first file is read from its end, one that was truncated from its    *)
(* start.                                                                  *)
OpenFirst ==
  /\ source.file = NoFile /\ path # NoFile
  /\ source' = At(path, IF source.tail THEN Size(path)
                        ELSE IF Size(path) < source.off THEN 0 ELSE source.off)

(* Variant: a file that has not grown looks truncated.                     *)
StayOnSame ==
  /\ source.file # NoFile /\ path \in {source.file, NoFile}
  /\ source' = At(source.file, IF Size(source.file) <= source.off THEN 0 ELSE source.off)

(* While the path names no file, the one it named last is read on.         *)
Stay ==
  /\ source.file # NoFile /\ path \in {source.file, NoFile}
  /\ source' = At(source.file, IF Size(source.file) < source.off THEN 0 ELSE source.off)

(* Variant: the new file is read from where the old one was left.          *)
FollowKeepsOffset ==
  /\ source.file # NoFile /\ path \notin {source.file, NoFile}
  /\ source' = At(path, IF Size(path) < source.off THEN 0 ELSE source.off)

(* Variant: another file is noticed when it is shorter.                    *)
FollowOnShrink ==
  /\ source.file # NoFile /\ path \notin {source.file, NoFile}
  /\ source' = IF Size(path) < source.off THEN At(path, 0)
               ELSE At(source.file, source.off)

(* Another file has taken the path: it is read from its start, and what    *)
(* was not read of the old one never is.                                   *)
Follow ==
  /\ source.file # NoFile /\ path \notin {source.file, NoFile}
  /\ source' \in {At(path, 0), Closed}

Poll ==
  /\ ~ source.reading
  /\ OpenFirst \/ Stay \/ Follow
  /\ UNCHANGED <<diskVars, emitted>>

(* A line boundary: a first open in the middle of a line reads its rest.   *)
NextLine == (source.off \div 2) + 1

(* A complete line is emitted.                                             *)
ReadLine ==
  /\ source.reading
  /\ source.off < Whole(source.file)
  /\ source' = [source EXCEPT !.off = 2 * NextLine]
  /\ emitted' = emitted \cup {files[source.file].lines[NextLine]}
  /\ UNCHANGED diskVars

(* At the end, the beginning of a line is left for the next poll.          *)
ReadEnd ==
  /\ source.reading
  /\ source.off >= Whole(source.file)
  /\ source' = [source EXCEPT !.reading = FALSE]
  /\ UNCHANGED <<diskVars, emitted>>

---------------------------------------------------------------------------
(* The node and whoever rotates its log                                    *)

Writing == writer # NoFile /\ files[writer].begun

Begin ==
  /\ writer # NoFile /\ written < MaxLines /\ ~ Writing
  /\ written' = written + 1
  /\ files' = [files EXCEPT ![writer].begun = TRUE]
  /\ UNCHANGED <<created, path, writer, truncates, source, emitted>>

(* The newline lands.                                                      *)
End ==
  /\ Writing
  /\ files' = [files EXCEPT ![writer].begun = FALSE,
                            ![writer].lines = Append(@, written)]
  /\ UNCHANGED <<created, path, writer, written, truncates, source, emitted>>

(* rename, then create: logrotate's default.                               *)
MoveAway ==
  /\ path # NoFile /\ created < MaxFiles
  /\ path' = NoFile
  /\ UNCHANGED <<files, created, writer, written, truncates, source, emitted>>

Create ==
  /\ path = NoFile /\ created < MaxFiles
  /\ created' = created + 1
  /\ path' = created + 1
  /\ UNCHANGED <<files, writer, written, truncates, source, emitted>>

(* The node opens the file at the path, when it starts or is told to.      *)
Reopen ==
  /\ path # NoFile /\ writer # path
  /\ ~ Writing
  /\ writer' = path
  /\ UNCHANGED <<files, created, path, written, truncates, source, emitted>>

(* copytruncate.                                                           *)
Truncate ==
  /\ path # NoFile /\ truncates < MaxTruncates
  /\ truncates' = truncates + 1
  /\ files' = [files EXCEPT ![path] = Empty]
  /\ UNCHANGED <<created, path, writer, written, source, emitted>>

TailInit ==
  /\ files = [f \in Files |-> Empty]
  /\ created = 0 /\ path = NoFile /\ writer = NoFile
  /\ written = 0 /\ truncates = 0
  /\ source = [file |-> NoFile, off |-> 0, tail |-> TRUE, reading |-> FALSE]
  /\ emitted = {}

StreamStep == Poll \/ ReadLine \/ ReadEnd

TailNext == StreamStep \/ Begin \/ End \/ MoveAway \/ Create \/ Reopen \/ Truncate

TailSpec == TailInit /\ [][TailNext]_tailVars

---------------------------------------------------------------------------
(* Properties                                                              *)

(* file.go:31: "Stream blocks emitting new lines until ctx ends".  A line  *)
(* is emitted at most once and in the order of writing, over renames,      *)
(* truncations and polls that come too late: a repeated line would count   *)
(* twice against a rule.                                                   *)
NothingTwice ==
  source.reading /\ source.off < Whole(source.file)
    => \A l \in emitted : l < files[source.file].lines[NextLine]

(* file.go:13: "Polls rather than fsnotify so it survives rotations".      *)
(* Once it has begun, Stream passes over no line of the file it reads,     *)
(* also when that is a new one after a rename.  A truncation can cost      *)
(* lines: a file that has grown past the old offset before the next poll   *)
(* is read on from there.                                                  *)
NoGap ==
  source.file # NoFile /\ truncates = 0
    => \A i \in 1 .. Len(files[source.file].lines) :
         2 * i <= source.off
           => LET l == files[source.file].lines[i]
              IN  l \in emitted \/ \A e \in emitted : l < e

(* When rotations come to an end, Stream ends up at the end of the file at *)
(* the path, however the rename, the creation and the node's reaction fell *)
(* between its polls.                                                      *)
CatchesUp == <>[](path # NoFile => source.file = path /\ source.off >= Whole(path))
=============================================================================
