-------------------------------- MODULE Main --------------------------------
(***************************************************************************)
(* The main goroutine (main.go) from the config file to the end of the     *)
(* process: the start, the loop over signals and reload triggers, the      *)
(* reload of the config file, the rotation of the logs, and the handshake  *)
(* with the activation goroutine (activation.go).                          *)
(*                                                                         *)
(* Signals go through a channel without a buffer and the runtime does not  *)
(* wait for its receiver.  An update, which BlockList and Server detail,   *)
(* is one step here, as far as main is concerned.  Of a config only the    *)
(* custom records are kept, as the version of the file they come from.     *)
(***************************************************************************)
EXTENDS Logger

CONSTANTS
  Versions,    \* number of contents of the config file
  MaxSignals,  \* bound: signals
  MaxPosts,    \* bound: requests for an update
  MaxEdits     \* bound: changes of the config file

ASSUME MainAssumption ==
  Versions \in Nat /\ MaxSignals \in Nat /\ MaxPosts \in Nat /\ MaxEdits \in Nat

Signals == {"INT", "HUP", "USR1"}

\* The default config, and the absence of one.
Defaults == 0
Nil      == -1

\* The config file: what it says, unless it cannot be opened (it may be missing)
\* or cannot be used (it is not TOML, or its certificates cannot be loaded).
FileStates == [is : {"good", "unopened", "unusable"}, says : 1..Versions]

VARIABLES
  main,      \* where the main goroutine is, or how the process ended
  act,       \* where the activation goroutine is
  notified,  \* signal.Notify was called
  file,      \* the config file
  config,    \* the config of the start
  inforce,   \* the custom records of the event loop
  applied,   \* history: the config last loaded, at the start or on SIGUSR1
  undone,    \* history: an update was made since
  waiting,   \* goroutines at reloadChan <- true
  posted,    \* history: requests for an update so far
  taken,     \* history: triggers received so far
  signals, edits  \* counters for the bounds

confVars == <<file, config, inforce, applied, undone>>
triggers == <<waiting, posted, taken>>
vars == <<logVars, main, act, notified, confVars, triggers, signals, edits>>

Init ==
  /\ LoggerInit
  /\ main = "load" /\ act = "none" /\ notified = FALSE
  /\ file \in FileStates
  /\ config = Nil /\ inforce = Nil /\ applied = Nil /\ undone = FALSE
  /\ waiting = 0 /\ posted = 0 /\ taken = 0 /\ signals = 0 /\ edits = 0

Ended == main \in {"exited", "killed", "fatal", "panicked"}

-----------------------------------------------------------------------------
(* The start *)

\* Defaults for a file that cannot be opened; no config, and an error, for one
\* that cannot be used.
LoadConfig(f) ==
  CASE f.is = "unopened" -> Defaults
    [] f.is = "unusable" -> Nil
    [] f.is = "good"     -> f.says

Load ==
  /\ main = "load"
  /\ config' = LoadConfig(file)
  /\ applied' = config'
  /\ main' = IF config' = Nil THEN "fatal" ELSE "log"
  /\ UNCHANGED <<logVars, act, notified, file, inforce, undone, triggers, signals, edits>>

\* parseLogConfig does not know the string: loggerInit panics.
BadLogConfig ==
  /\ main = "log" /\ opened = <<>>
  /\ main' = "panicked"
  /\ UNCHANGED <<logVars, act, notified, confVars, triggers, signals, edits>>

\* A step of main that changes the logs only.
Logging(from, to) ==
  /\ main = from
  /\ main' = to
  /\ UNCHANGED <<notified, confVars, triggers, signals, edits>>

\* loggerInit, and "go startActivation".
InitLogs ==
  \/ OpenNext /\ Logging("log", "log") /\ UNCHANGED act
  \/ OpenFails /\ Logging("log", "fatal") /\ UNCHANGED act
  \/ NextLog \notin Logs /\ InitBackend /\ Logging("log", "activate") /\ act' = "offer"

\* actChannel <- a meets <-actChannel.
Activate ==
  /\ main = "activate" /\ act = "offer"
  /\ main' = "run" /\ act' = "wait"
  /\ UNCHANGED <<logVars, notified, confVars, triggers, signals, edits>>

\* server.Run with an empty block cache.
Run ==
  /\ main = "run"
  /\ inforce' = config
  /\ main' = "update"
  /\ UNCHANGED <<logVars, act, notified, file, config, applied, undone, triggers,
                 signals, edits>>

\* reloadBlockCache: the server runs anew, with the config of the start, and the
\* API is up.
Update ==
  /\ main = "update"
  /\ inforce' = config
  /\ undone' = TRUE
  /\ main' = IF notified THEN "loop" ELSE "notify"
  /\ UNCHANGED <<logVars, act, notified, file, config, applied, triggers, signals, edits>>

\* signal.Notify, after the first update.
Notify ==
  /\ main = "notify"
  /\ notified' = TRUE
  /\ main' = "loop"
  /\ UNCHANGED <<logVars, act, confVars, triggers, signals, edits>>

\* ... or the store cannot be made or read, or the API's port is taken.
UpdateFails ==
  /\ main = "update"
  /\ main' = "fatal"
  /\ UNCHANGED <<logVars, act, notified, confVars, triggers, signals, edits>>

-----------------------------------------------------------------------------
(* The loop *)

Case(s) == CASE s = "INT" -> "quit" [] s = "HUP" -> "reopen" [] s = "USR1" -> "usr1"

\* Before signal.Notify SIGINT and SIGHUP end the process and SIGUSR1 does
\* nothing; after it a signal is received, or lost if main is not at its select.
Signal(s) ==
  /\ ~Ended /\ signals < MaxSignals
  /\ signals' = signals + 1
  /\ main' = CASE ~notified /\ s # "USR1"   -> "killed"
               [] notified /\ main = "loop" -> Case(s)
               [] OTHER                     -> main
  /\ UNCHANGED <<logVars, act, notified, confVars, triggers, edits>>

\* The API takes requests once the first update has started it.  While main is in
\* a later update the old API goes on until it is shut down, and the goroutines
\* that wait to send outlive it.
ApiUp == (notified \/ main = "notify") /\ ~Ended

\* A slip of Post: the trigger is sent only if main is there to receive it.
PostTry ==
  /\ ApiUp /\ posted < MaxPosts
  /\ posted' = posted + 1
  /\ IF main = "loop" THEN main' = "update" /\ taken' = taken + 1
                      ELSE UNCHANGED <<main, taken>>
  /\ UNCHANGED <<waiting, logVars, act, notified, confVars, signals, edits>>

\* POST /blocklist/update, whose goroutine waits until main receives.
Post ==
  /\ ApiUp /\ posted < MaxPosts
  /\ posted' = posted + 1 /\ waiting' = waiting + 1
  /\ UNCHANGED <<logVars, main, act, notified, confVars, taken, signals, edits>>

\* A slip of Trigger: the channel is closed, so there is always something to receive.
TriggerClosed ==
  /\ main = "loop"
  /\ taken' = taken + 1
  /\ main' = "update"
  /\ UNCHANGED <<logVars, act, notified, confVars, waiting, posted, signals, edits>>

\* case <-reloadChan
Trigger ==
  /\ main = "loop" /\ waiting > 0
  /\ taken' = taken + 1 /\ waiting' = waiting - 1
  /\ main' = "update"
  /\ UNCHANGED <<logVars, act, notified, confVars, posted, signals, edits>>

\* A slip of ReloadConfig: the config main has is handed on, not the one just loaded.
ReloadConfigStale ==
  /\ main = "usr1"
  /\ inforce' = config
  /\ applied' = LoadConfig(file)
  /\ undone' = FALSE
  /\ main' = "loop"
  /\ UNCHANGED <<logVars, act, notified, file, config, triggers, signals, edits>>

\* SIGUSR1: reloadConfigFromFile goes on with a nil config after an error.
ReloadConfig ==
  /\ main = "usr1"
  /\ IF LoadConfig(file) = Nil
       THEN main' = "panicked" /\ UNCHANGED <<inforce, applied, undone>>
       ELSE /\ inforce' = LoadConfig(file)
            /\ applied' = LoadConfig(file)
            /\ undone' = FALSE
            /\ main' = "loop"
  /\ UNCHANGED <<logVars, act, notified, file, config, triggers, signals, edits>>

\* A slip of Reopen: the old files are closed before the new ones are opened.
ReopenCloseFirst ==
  /\ \/ opened = <<>> /\ CleanUp /\ Logging("reopen", "cleaned")
     \/ OpenNext /\ Logging("cleaned", "cleaned")
     \/ OpenFails /\ Logging("cleaned", "loop")
     \/ NextLog \notin Logs /\ SetBackend /\ Logging("cleaned", "loop")
  /\ UNCHANGED act

\* SIGHUP: loggingState.reopen.
Reopen ==
  /\ \/ OpenNext /\ Logging("reopen", "reopen")
     \/ OpenFails /\ Logging("reopen", "loop")
     \/ NextLog \notin Logs /\ CleanUp /\ Logging("reopen", "cleaned")
     \/ SetBackend /\ Logging("cleaned", "loop")
  /\ UNCHANGED act

\* A slip of Quit: the activation goroutine ends without an answer.
QuitNoAnswer ==
  /\ main = "quit" /\ act = "wait"
  /\ main' = "bye" /\ act' = "ended"
  /\ UNCHANGED <<logVars, notified, confVars, triggers, signals, edits>>

\* SIGINT: quitActivation <- true meets <-quit.
Quit ==
  /\ main = "quit" /\ act = "wait"
  /\ main' = "bye" /\ act' = "answer"
  /\ UNCHANGED <<logVars, notified, confVars, triggers, signals, edits>>

\* quit <- true meets <-quitActivation; the deferred cleanUp; main returns.
Bye ==
  /\ main = "bye" /\ act = "answer"
  /\ main' = "exited" /\ act' = "ended"
  /\ CleanUp
  /\ UNCHANGED <<notified, confVars, triggers, signals, edits>>

-----------------------------------------------------------------------------
(* Beside main *)

\* The administrator changes, breaks or removes the config file.
Edit ==
  /\ ~Ended /\ edits < MaxEdits
  /\ edits' = edits + 1
  /\ file' \in FileStates \ {file}
  /\ UNCHANGED <<logVars, main, act, notified, config, inforce, applied, undone,
                 triggers, signals>>

Beside(A) ==
  /\ ~Ended /\ A
  /\ UNCHANGED <<main, act, notified, confVars, triggers, signals, edits>>

-----------------------------------------------------------------------------

Step == Load \/ InitLogs \/ Activate \/ Run \/ Notify \/ Reopen \/ ReloadConfig \/ Quit \/ Bye

Next ==
  \/ Step \/ BadLogConfig \/ Update \/ UpdateFails \/ Post \/ Trigger \/ Edit
  \/ \E s \in Signals : Signal(s)
  \/ \E n \in Logs : Beside(Rotate(n))
  \/ Beside(Collect)

Spec == Init /\ [][Next]_vars

\* Main goes on where it does not wait; select takes a trigger that is there
\* again and again, whatever signals come; the runtime collects garbage every
\* two minutes.  Nothing is assumed of an update, which may wait for a source
\* for ever.
FairSpec ==
  /\ Spec
  /\ WF_vars(Step)
  /\ SF_vars(Trigger)
  /\ WF_vars(Beside(Collect))

-----------------------------------------------------------------------------
(* Properties *)

\* Every variable has the shape the code gives it.
TypeOK ==
  /\ LoggerTypeOK
  /\ main \in {"load", "log", "activate", "run", "update", "notify", "loop", "usr1",
               "reopen", "cleaned", "quit", "bye", "exited", "killed", "fatal", "panicked"}
  /\ act \in {"none", "offer", "wait", "answer", "ended"}
  /\ notified \in BOOLEAN /\ undone \in BOOLEAN
  /\ file \in FileStates
  /\ {config, inforce, applied} \subseteq {Nil, Defaults} \cup (1..Versions)
  /\ posted \in 0..MaxPosts /\ taken \in 0..posted /\ waiting \in 0..posted

\* Rotation never leaves leng without its logs: outside the moment between
\* cleanUp and SetBackend every log has a backend on an open file, however often
\* reopen ran, failed halfway or closed what it had closed before.
NeverMute == main \notin {"cleaned", "exited"} => Writable

\* A log that was rotated away is let go: once it has no name and no backend, no
\* handle keeps it open for ever, although main's loggingState never learns of
\* the files that reopen opened.
RotatedIsReleased == []<>(Litter = {} \/ Ended)

\* What SIGUSR1 has loaded is what the event loop serves, until a blocklist
\* update runs the server with the config of the start again; a config file
\* that cannot be used never takes effect.
OnlyUpdateUndoes ==
  main \in {"notify", "loop", "reopen", "cleaned", "quit"} =>
    inforce = IF undone THEN config ELSE applied

\* SIGINT, once received, ends the process: main and the activation goroutine
\* meet twice on one channel and neither is left waiting.
InterruptEnds == main = "quit" ~> main = "exited"

\* Other than signals, triggers are not lost: as long as updates come to an end,
\* every update that was asked for is made, though requests come in while main is
\* in an update, wait behind one another, and signals compete with them.
TriggersServed ==
  []<>(main # "update") => []<>(taken = posted \/ Ended)
=============================================================================
