------------------------------- MODULE Logger -------------------------------
(***************************************************************************)
(* The log files of logger.go: what loggerInit has opened, and what reopen *)
(* opens, closes and leaves behind when the files were rotated.  The steps *)
(* are main's; Main says when it takes them.                               *)
(*                                                                         *)
(* A file is a number, found under its name or not; a handle is an os.File *)
(* on it.  Levels, formats, stderr and syslog are left out.                *)
(***************************************************************************)
EXTENDS Integers, Sequences, Functions

CONSTANTS
  LogFiles,     \* number of files in config.LogConfig
  MaxRotations  \* bound: rotations

ASSUME LoggerAssumption == LogFiles \in Nat \ {0} /\ MaxRotations \in Nat

NoFile == 0
Logs == 1..LogFiles

VARIABLES
  path,       \* per log, the file found under its name, or NoFile
  files,      \* number of files made so far
  handle,     \* the os.File values made so far: the file, and whether it is open
  backends,   \* per log, the handle logging.SetBackend was given
  state,      \* loggingState.files of main
  opened,     \* the handles createFileLoggers has opened in this call
  rotations   \* counter for the bound

logVars == <<path, files, handle, backends, state, opened, rotations>>

Open(f) == [file |-> f, open |-> TRUE]

\* Nothing is opened yet; logs of an earlier process may be there.
LoggerInit ==
  /\ path \in {p \in [Logs -> {NoFile} \cup Logs] : \A n \in Logs : p[n] \in {NoFile, n}}
  /\ files = LogFiles
  /\ handle = <<>> /\ backends = <<>> /\ state = <<>> /\ opened = <<>>
  /\ rotations = 0

\* The administrator's tool renames a log, and may put an empty file in its place.
Rotate(n) ==
  /\ rotations < MaxRotations
  /\ rotations' = rotations + 1
  /\ \/ path' = [path EXCEPT ![n] = NoFile] /\ UNCHANGED files
     \/ path' = [path EXCEPT ![n] = files + 1] /\ files' = files + 1
  /\ UNCHANGED <<handle, backends, state, opened>>

-----------------------------------------------------------------------------
(* createFileLoggers, loggerInit and reopen *)

Closed(hs) ==
  [h \in DOMAIN handle |-> IF h \in hs THEN [handle[h] EXCEPT !.open = FALSE] ELSE handle[h]]

NextLog == Len(opened) + 1

\* os.Create in createLogFile, for a log that is not there: its result is not
\* kept, though it is a handle like any other.
Created == IF path[NextLog] = NoFile THEN <<Open(files + 1)>> ELSE <<>>

MakeFile ==
  IF path[NextLog] = NoFile
    THEN path' = [path EXCEPT ![NextLog] = files + 1] /\ files' = files + 1
    ELSE UNCHANGED <<path, files>>

\* createFileLogger of the next log.
OpenNext ==
  /\ NextLog \in Logs
  /\ MakeFile
  /\ handle' = handle \o Created \o <<Open(path'[NextLog])>>
  /\ opened' = Append(opened, Len(handle'))
  /\ UNCHANGED <<backends, state, rotations>>

\* It fails, before or after os.Create: what was opened is closed again.
OpenFails ==
  /\ NextLog \in Logs
  /\ \/ UNCHANGED <<path, files>> /\ handle' = Closed(Range(opened))
     \/ MakeFile /\ handle' = Closed(Range(opened)) \o Created
  /\ opened' = <<>>
  /\ UNCHANGED <<backends, state, rotations>>

\* The end of loggerInit: main keeps what it returns.
InitBackend ==
  /\ backends' = opened
  /\ state' = opened
  /\ opened' = <<>>
  /\ UNCHANGED <<path, files, handle, rotations>>

\* A slip of CleanUp: nothing is closed.
CleanUpNothing == UNCHANGED logVars

\* cleanUp: the files of main's loggingState, for the first time or again.
CleanUp ==
  /\ handle' = Closed(Range(state))
  /\ UNCHANGED <<path, files, backends, state, opened, rotations>>

\* The end of reopen.  Its receiver is a copy: main's files stay what they were.
SetBackend ==
  /\ backends' = opened
  /\ opened' = <<>>
  /\ UNCHANGED <<path, files, handle, state, rotations>>

\* The collector finalises every os.File nobody refers to, which closes it.
Collect ==
  LET garbage == {h \in DOMAIN handle : handle[h].open}
                   \ (Range(backends) \cup Range(state) \cup Range(opened))
  IN /\ garbage # {}
     /\ handle' = Closed(garbage)
     /\ UNCHANGED <<path, files, backends, state, opened, rotations>>

-----------------------------------------------------------------------------

LoggerTypeOK ==
  /\ path \in [Logs -> NoFile..files] /\ files \in Nat
  /\ handle \in Seq([file : 1..files, open : BOOLEAN])
  /\ {Len(backends), Len(state)} \subseteq {0, LogFiles} /\ Len(opened) <= LogFiles
  /\ Range(backends) \cup Range(state) \cup Range(opened) \subseteq DOMAIN handle

\* Every log has a backend that can write.
Writable == \A h \in Range(backends) : handle[h].open

\* Files that are open though they have neither a name nor a backend.
Litter ==
  {handle[h].file : h \in {h \in DOMAIN handle : handle[h].open}}
    \ (Range(path) \cup {handle[h].file : h \in Range(backends)})
=============================================================================
