----------------------------- MODULE MainProofs -----------------------------
(***************************************************************************)
(* Proofs about main and the log files, for any number of logs, rotations, *)
(* signals, requests for an update and edits of the config file.  The log  *)
(* files come first: what each step of Logger does to LogInv, wherever     *)
(* main is.                                                                *)
(***************************************************************************)
EXTENDS Main, TLAPS

-----------------------------------------------------------------------------
(* The log files *)

Handle  == [file : Nat, open : BOOLEAN]
Handles == Seq(Handle)

\* The handles something refers to.
Referred == Range(backends) \cup Range(state) \cup Range(opened)

\* What LoggerTypeOK says, in the terms the proofs use.
LogShape ==
  /\ files \in Nat /\ path \in [Logs -> 0..files]
  /\ handle \in Handles
  /\ \A h \in 1..Len(handle) : handle[h].file \in 1..files
  /\ backends \in Seq(Nat) /\ Len(backends) \in {0, LogFiles}
  /\ state \in Seq(Nat) /\ Len(state) \in {0, LogFiles}
  /\ opened \in Seq(Nat) /\ Len(opened) <= LogFiles
  /\ Referred \subseteq 1..Len(handle)

\* What createFileLoggers has opened in this call can be written to, and is not
\* what main or the backend refer to: neither cleanUp nor a failure to open the
\* next log takes anything away that it should not.
OpenedApart ==
  /\ \A h \in Range(opened) : handle[h].open
  /\ Range(opened) \cap (Range(backends) \cup Range(state)) = {}

LogInv == LogShape /\ OpenedApart

LEMMA RangeOfAppend ==
  ASSUME NEW s \in Seq(Nat), NEW x \in Nat
  PROVE  /\ Range(Append(s, x)) = Range(s) \cup {x}
         /\ Append(s, x) \in Seq(Nat) /\ Len(Append(s, x)) = Len(s) + 1
<1>1. /\ Append(s, x) \in Seq(Nat) /\ Len(Append(s, x)) = Len(s) + 1 /\ Len(s) \in Nat
      /\ \A i \in 1..Len(s) : Append(s, x)[i] = s[i]
      /\ Append(s, x)[Len(s) + 1] = x
  OBVIOUS
<1>2. DOMAIN s = 1..Len(s) /\ DOMAIN Append(s, x) = 1..(Len(s) + 1)
  BY <1>1
<1>3. \A i \in 1..(Len(s) + 1) : i \in 1..Len(s) \/ i = Len(s) + 1
  BY <1>1
<1>4. \A i \in 1..Len(s) : i \in 1..(Len(s) + 1)
  BY <1>1
<1>5. Len(s) + 1 \in 1..(Len(s) + 1)
  BY <1>1
<1>6. QED
  BY <1>1, <1>2, <1>3, <1>4, <1>5 DEF Range

LEMMA RangeOfEmpty == Range(<<>>) = {}
BY DEF Range

LEMMA ClosedHandle ==
  ASSUME NEW h \in Handle
  PROVE  /\ [h EXCEPT !.open = FALSE] \in Handle
         /\ [h EXCEPT !.open = FALSE].file = h.file
BY DEF Handle

LEMMA OpenHandle ==
  ASSUME NEW f \in Nat
  PROVE  Open(f) \in Handle /\ Open(f).file = f /\ Open(f).open
BY DEF Open, Handle

\* Closing handles changes nothing else.
LEMMA ClosedHandles ==
  ASSUME LogShape, NEW hs
  PROVE  /\ Closed(hs) \in Handles /\ Len(Closed(hs)) = Len(handle)
         /\ \A h \in 1..Len(handle) :
              /\ Closed(hs)[h].file = handle[h].file
              /\ h \notin hs => Closed(hs)[h] = handle[h]
<1> DEFINE c(h) == IF h \in hs THEN [handle[h] EXCEPT !.open = FALSE] ELSE handle[h]
<1>1. Len(handle) \in Nat /\ DOMAIN handle = 1..Len(handle)
  BY DEF LogShape, Handles
<1>2. \A h \in 1..Len(handle) : handle[h] \in Handle
  BY DEF LogShape, Handles
<1>3. \A h \in 1..Len(handle) : /\ c(h) \in Handle
                                /\ c(h).file = handle[h].file
  BY <1>2, ClosedHandle
<1>4. Closed(hs) = [h \in 1..Len(handle) |-> c(h)]
  BY <1>1 DEF Closed
<1> HIDE DEF c
<1>5. /\ Closed(hs) \in Handles /\ Len(Closed(hs)) = Len(handle)
      /\ \A h \in 1..Len(handle) : Closed(hs)[h] = c(h)
  BY <1>1, <1>3, <1>4 DEF Handles
<1>6. QED
  BY <1>3, <1>5 DEF c

\* The handle os.Create leaves, if it is called.
LEMMA CreatedHandles ==
  ASSUME LogShape, NextLog \in Logs, MakeFile
  PROVE  /\ files' \in Nat /\ files' >= files /\ path' \in [Logs -> 0..files']
         /\ path'[NextLog] \in 1..files'
         /\ Created \in Handles /\ Len(Created) \in Nat
         /\ \A h \in 1..Len(Created) : Created[h].file \in 1..files'
<1>1. CASE path[NextLog] = NoFile
  <2>1. /\ path' = [path EXCEPT ![NextLog] = files + 1] /\ files' = files + 1
        /\ Created = <<Open(files + 1)>>
    BY <1>1 DEF MakeFile, Created
  <2>2. /\ files' \in Nat /\ files' >= files /\ path' \in [Logs -> 0..files']
        /\ path'[NextLog] \in 1..files'
    BY <2>1 DEF LogShape
  <2>3. Open(files + 1) \in Handle /\ Open(files + 1).file \in 1..files'
    BY <2>1, <2>2, OpenHandle
  <2>4. QED
    BY <2>1, <2>2, <2>3 DEF Handles
<1>2. CASE path[NextLog] # NoFile
  BY <1>2 DEF LogShape, MakeFile, Created, NoFile, Handles
<1>3. QED
  BY <1>1, <1>2

\* Handles added at the end, the others as they were or closed.
LEMMA MoreHandles ==
  ASSUME NEW old \in Handles, NEW new \in Handles, NEW n \in Nat,
         \A h \in 1..Len(old) : old[h].file \in 1..n,
         \A h \in 1..Len(new) : new[h].file \in 1..n
  PROVE  /\ old \o new \in Handles /\ Len(old \o new) = Len(old) + Len(new)
         /\ \A h \in 1..Len(old) : (old \o new)[h] = old[h]
         /\ \A h \in 1..Len(new) : (old \o new)[Len(old) + h] = new[h]
         /\ \A h \in 1..Len(old \o new) : (old \o new)[h].file \in 1..n
BY DEF Handles

LEMMA OpenNextLog ==
  ASSUME LogInv, OpenNext
  PROVE  LogInv' /\ (Writable => Writable') /\ opened' # <<>>
<1> USE DEF LogInv
<1>1. /\ NextLog \in Logs /\ MakeFile
      /\ handle' = handle \o Created \o <<Open(path'[NextLog])>>
      /\ opened' = Append(opened, Len(handle'))
      /\ UNCHANGED <<backends, state, rotations>>
  BY DEF OpenNext
<1>2. /\ files' \in Nat /\ files' >= files /\ path' \in [Logs -> 0..files']
      /\ path'[NextLog] \in 1..files'
      /\ Created \in Handles /\ Len(Created) \in Nat
      /\ \A h \in 1..Len(Created) : Created[h].file \in 1..files'
  BY <1>1, CreatedHandles
<1>3. handle \in Handles /\ Len(handle) \in Nat /\ \A h \in 1..Len(handle) : handle[h].file \in 1..files'
  BY <1>2 DEF LogShape, Handles
<1> DEFINE made == handle \o Created
           last == Open(path'[NextLog])
           one  == <<last>>
<1>4. /\ made \in Handles /\ Len(made) = Len(handle) + Len(Created)
      /\ \A h \in 1..Len(handle) : made[h] = handle[h]
      /\ \A h \in 1..Len(made) : made[h].file \in 1..files'
  BY <1>2, <1>3, MoreHandles
<1>5. <<last>> \in Handles /\ Len(<<last>>) = 1 /\ last.open /\ last.file \in 1..files'
  <2>1. path'[NextLog] \in Nat
    BY <1>2
  <2>2. last \in Handle /\ last.open /\ last.file \in 1..files'
    BY <1>2, <2>1, OpenHandle
  <2> HIDE DEF last
  <2>3. QED
    BY <2>2 DEF Handles
<1> HIDE DEF made, last
<1>6. /\ handle' \in Handles /\ Len(handle') = Len(made) + 1
      /\ handle'[Len(handle')] = last
      /\ \A h \in 1..Len(made) : handle'[h] = made[h]
      /\ \A h \in 1..Len(handle') : handle'[h].file \in 1..files'
  <2>1. handle' = made \o one
    BY <1>1 DEF made, last
  <2>2. one \in Handles /\ Len(one) = 1 /\ one[1] = last
    BY <1>5
  <2> HIDE DEF one
  <2>3. \A h \in 1..Len(one) : one[h].file \in 1..files'
    BY <1>5, <2>2
  <2>4. /\ made \o one \in Handles /\ Len(made \o one) = Len(made) + Len(one)
        /\ \A h \in 1..Len(made) : (made \o one)[h] = made[h]
        /\ \A h \in 1..Len(one) : (made \o one)[Len(made) + h] = one[h]
        /\ \A h \in 1..Len(made \o one) : (made \o one)[h].file \in 1..files'
    BY <1>2, <1>4, <2>2, <2>3, MoreHandles
  <2>5. QED
    BY <2>1, <2>2, <2>4
<1>7. /\ Len(handle') \in Nat /\ Len(handle') > Len(handle)
      /\ \A h \in 1..Len(handle) : handle'[h] = handle[h]
      /\ handle'[Len(handle')].open
  BY <1>2, <1>3, <1>4, <1>5, <1>6
<1>8. /\ opened' \in Seq(Nat) /\ Len(opened') = Len(opened) + 1
      /\ Range(opened') = Range(opened) \cup {Len(handle')}
  BY <1>1, <1>7, RangeOfAppend DEF LogShape
<1>9. LogShape'
  <2>1. Len(opened') <= LogFiles
    BY <1>1, <1>8, LoggerAssumption DEF NextLog, Logs, LogShape
  <2>2. Referred' \subseteq 1..Len(handle')
    <3>1. Len(handle) \in Nat /\ Referred \subseteq 1..Len(handle)
      BY <1>3 DEF LogShape
    <3>2. Referred' \subseteq Referred \cup {Len(handle')}
      BY <1>1, <1>8 DEF Referred
    <3>3. QED
      BY <1>7, <3>1, <3>2
  <2>3. QED
    BY <1>1, <1>2, <1>6, <1>8, <2>1, <2>2 DEF LogShape
<1>10. Len(handle') \notin Referred
  BY <1>3, <1>7 DEF LogShape
<1>11. \A h \in Referred : handle'[h] = handle[h]
  BY <1>7 DEF LogShape
<1>12. OpenedApart'
  BY <1>1, <1>7, <1>8, <1>10, <1>11 DEF OpenedApart, Referred
<1>13. Writable => Writable'
  BY <1>1, <1>11 DEF Writable, Referred
<1>14. opened' # <<>>
  BY <1>8 DEF LogShape
<1>15. QED
  BY <1>9, <1>12, <1>13, <1>14

LEMMA OpenFailsLog ==
  ASSUME LogInv, OpenFails
  PROVE  LogInv' /\ (Writable => Writable') /\ opened' = <<>>
<1> USE DEF LogInv
<1> DEFINE shut == Closed(Range(opened))
<1>1. NextLog \in Logs /\ opened' = <<>> /\ UNCHANGED <<backends, state, rotations>>
  BY DEF OpenFails
<1>2. /\ shut \in Handles /\ Len(shut) = Len(handle) /\ Len(handle) \in Nat
      /\ \A h \in 1..Len(handle) : shut[h].file = handle[h].file
      /\ \A h \in 1..Len(handle) : h \notin Range(opened) => shut[h] = handle[h]
  BY ClosedHandles DEF LogShape, Handles
<1>3. /\ files' \in Nat /\ files' >= files /\ path' \in [Logs -> 0..files']
      /\ handle' \in Handles /\ Len(handle') \in Nat /\ Len(handle') >= Len(handle)
      /\ \A h \in 1..Len(handle') : handle'[h].file \in 1..files'
      /\ \A h \in 1..Len(handle) : handle'[h] = shut[h]
  <2> HIDE DEF shut
  <2>1. CASE UNCHANGED <<path, files>> /\ handle' = shut
    <3>1. /\ files \in Nat /\ path \in [Logs -> 0..files]
          /\ \A h \in 1..Len(handle) : handle[h].file \in 1..files
      BY DEF LogShape
    <3>2. QED
      BY <1>2, <2>1, <3>1
  <2>2. CASE MakeFile /\ handle' = shut \o Created
    <3>1. /\ files' \in Nat /\ files' >= files /\ path' \in [Logs -> 0..files']
          /\ Created \in Handles /\ Len(Created) \in Nat
          /\ \A h \in 1..Len(Created) : Created[h].file \in 1..files'
      BY <1>1, <2>2, CreatedHandles
    <3>2. \A h \in 1..Len(shut) : shut[h].file \in 1..files'
      <4>1. \A h \in 1..Len(handle) : handle[h].file \in 1..files
        BY DEF LogShape
      <4>2. files \in Nat
        BY DEF LogShape
      <4>3. QED
        BY <1>2, <3>1, <4>1, <4>2
    <3>3. /\ shut \o Created \in Handles /\ Len(shut \o Created) = Len(shut) + Len(Created)
          /\ \A h \in 1..Len(shut) : (shut \o Created)[h] = shut[h]
          /\ \A h \in 1..Len(shut \o Created) : (shut \o Created)[h].file \in 1..files'
      BY <1>2, <3>1, <3>2, MoreHandles
    <3>4. QED
      BY <1>2, <2>2, <3>1, <3>3
  <2>3. QED
    BY <2>1, <2>2 DEF OpenFails, shut
<1> HIDE DEF shut
<1>4. Range(opened') = {} /\ opened' \in Seq(Nat) /\ Len(opened') = 0
  BY <1>1, RangeOfEmpty
<1>5. LogShape'
  <2>1. Referred' \subseteq 1..Len(handle')
    BY <1>1, <1>2, <1>3, <1>4 DEF LogShape, Referred
  <2>2. QED
    BY <1>1, <1>3, <1>4, <2>1, LoggerAssumption DEF LogShape
<1>6. OpenedApart'
  BY <1>4 DEF OpenedApart
<1>7. \A h \in Range(backends) : handle'[h] = handle[h]
  BY <1>2, <1>3 DEF OpenedApart, LogShape, Referred
<1>8. Writable => Writable'
  BY <1>1, <1>7 DEF Writable
<1>9. QED
  BY <1>1, <1>5, <1>6, <1>8

\* What was opened becomes the backend, at the end of loggerInit or of reopen.
LEMMA BackendLog ==
  ASSUME LogInv, Len(opened) = LogFiles, InitBackend \/ SetBackend
  PROVE  LogInv' /\ Writable' /\ opened' = <<>>
<1> USE DEF LogInv
<1>1. /\ backends' = opened /\ opened' = <<>> /\ (state' = opened \/ state' = state)
      /\ UNCHANGED <<path, files, handle>>
  BY DEF InitBackend, SetBackend
<1>2. Range(opened') = {} /\ opened' \in Seq(Nat) /\ Len(opened') = 0
  BY <1>1, RangeOfEmpty
<1>3. Referred' \subseteq 1..Len(handle')
  BY <1>1, <1>2 DEF LogShape, Referred
<1>4. LogShape'
  BY <1>1, <1>2, <1>3, LoggerAssumption DEF LogShape
<1>5. OpenedApart' /\ Writable'
  BY <1>1, <1>2 DEF OpenedApart, Writable
<1>6. QED
  BY <1>1, <1>4, <1>5

\* Closing handles that createFileLoggers has not just opened.
LEMMA CloseLog ==
  ASSUME LogInv, NEW hs, hs \cap Range(opened) = {}, handle' = Closed(hs),
         UNCHANGED <<path, files, backends, state, opened>>
  PROVE  LogInv' /\ (hs \cap Range(backends) = {} /\ Writable => Writable')
<1> USE DEF LogInv
<1>1. /\ handle' \in Handles /\ Len(handle') = Len(handle)
      /\ \A h \in 1..Len(handle) : handle'[h].file = handle[h].file
      /\ \A h \in 1..Len(handle) : h \notin hs => handle'[h] = handle[h]
  BY ClosedHandles
<1>2. Referred' \subseteq 1..Len(handle')
  BY <1>1 DEF LogShape, Referred
<1>3. LogShape'
  BY <1>1, <1>2 DEF LogShape
<1>4. \A h \in Referred \ hs : handle'[h] = handle[h]
  BY <1>1 DEF LogShape
<1>5. OpenedApart'
  BY <1>4 DEF OpenedApart, Referred
<1>6. hs \cap Range(backends) = {} /\ Writable => Writable'
  BY <1>4 DEF Writable, Referred
<1>7. QED
  BY <1>3, <1>5, <1>6

LEMMA CleanUpLog ==
  ASSUME LogInv, CleanUp
  PROVE  LogInv'
<1>1. Range(state) \cap Range(opened) = {}
  BY DEF LogInv, OpenedApart
<1>2. QED
  BY <1>1, CloseLog DEF CleanUp

LEMMA CollectLog ==
  ASSUME LogInv, Collect
  PROVE  LogInv' /\ (Writable => Writable')
<1> DEFINE garbage == {h \in DOMAIN handle : handle[h].open}
                        \ (Range(backends) \cup Range(state) \cup Range(opened))
<1>1. /\ handle' = Closed(garbage)
      /\ UNCHANGED <<path, files, backends, state, opened, rotations>>
  BY DEF Collect
<1>2. garbage \cap Range(opened) = {} /\ garbage \cap Range(backends) = {}
  OBVIOUS
<1> HIDE DEF garbage
<1>3. QED
  BY <1>1, <1>2, CloseLog

LEMMA RotateLog ==
  ASSUME LogInv, NEW n \in Logs, Rotate(n)
  PROVE  LogInv' /\ (Writable => Writable')
<1> USE DEF LogInv
<1>1. UNCHANGED <<handle, backends, state, opened>>
  BY DEF Rotate
<1>2. files' \in Nat /\ files' >= files /\ path' \in [Logs -> 0..files']
  <2>1. files \in Nat /\ path \in [Logs -> 0..files]
    BY DEF LogShape
  <2>2. QED
    BY <2>1 DEF Rotate, NoFile
<1>3. \A h \in 1..Len(handle) : handle[h].file \in 1..files'
  <2>1. files \in Nat /\ \A h \in 1..Len(handle) : handle[h].file \in 1..files
    BY DEF LogShape
  <2>2. QED
    BY <1>2, <2>1
<1>4. LogShape'
  BY <1>1, <1>2, <1>3 DEF LogShape, Referred
<1>5. QED
  BY <1>1, <1>4 DEF OpenedApart, Writable

LEMMA QuietLog ==
  ASSUME LogInv, UNCHANGED logVars
  PROVE  LogInv' /\ (Writable => Writable')
BY DEF LogInv, LogShape, OpenedApart, Referred, Writable, logVars

-----------------------------------------------------------------------------
(* The main goroutine *)

MainShape ==
  /\ main \in {"load", "log", "activate", "run", "update", "notify", "loop", "usr1",
               "reopen", "cleaned", "quit", "bye", "exited", "killed", "fatal", "panicked"}
  /\ act \in {"none", "offer", "wait", "answer", "ended"}
  /\ notified \in BOOLEAN /\ undone \in BOOLEAN
  /\ file \in FileStates
  /\ config \in {Nil, Defaults} \cup (1..Versions)
  /\ inforce \in {Nil, Defaults} \cup (1..Versions)
  /\ applied \in {Nil, Defaults} \cup (1..Versions)
  /\ waiting \in Nat /\ taken \in Nat /\ posted = waiting + taken /\ posted <= MaxPosts

\* When reopen has cleaned up it has opened all logs, and no signal can end the
\* process before they are its backend.
LogsPlaced ==
  /\ main = "cleaned" => Len(opened) = LogFiles
  /\ main \in {"loop", "usr1", "reopen", "cleaned", "quit", "bye"} => notified

Inv == LogInv /\ MainShape /\ LogsPlaced /\ NeverMute /\ OnlyUpdateUndoes

LEMMA InitInv == Init => Inv
<1> SUFFICES ASSUME Init
             PROVE  Inv
    OBVIOUS
<1>1. /\ handle = <<>> /\ backends = <<>> /\ state = <<>> /\ opened = <<>>
      /\ files = LogFiles
      /\ path \in [Logs -> {NoFile} \cup Logs]
  BY DEF Init, LoggerInit
<1>2. Range(<<>>) = {} /\ <<>> \in Seq(Nat) /\ Len(<<>>) = 0
  BY RangeOfEmpty
<1>3. handle \in Handles
  BY <1>1 DEF Handles
<1>4. path \in [Logs -> 0..files] /\ files \in Nat
  BY <1>1, LoggerAssumption DEF NoFile, Logs
<1>5. LogInv
  BY <1>1, <1>2, <1>3, <1>4, LoggerAssumption DEF LogInv, LogShape, OpenedApart, Referred
<1>6. MainShape
  <2>1. notified \in BOOLEAN /\ undone \in BOOLEAN
    BY DEF Init
  <2>2. waiting \in Nat /\ taken \in Nat /\ posted = waiting + taken /\ posted <= MaxPosts
    BY MainAssumption DEF Init
  <2>3. QED
    BY <2>1, <2>2 DEF Init, MainShape
<1>7. LogsPlaced /\ NeverMute /\ OnlyUpdateUndoes
  BY <1>1, <1>2 DEF Init, LogsPlaced, NeverMute, Writable, OnlyUpdateUndoes
<1>8. QED
  BY <1>5, <1>6, <1>7 DEF Inv

LEMMA ConfigType == ASSUME NEW f \in FileStates
                    PROVE  LoadConfig(f) \in {Nil, Defaults} \cup (1..Versions)
BY DEF FileStates, LoadConfig

\* Steps that leave the logs alone.
LEMMA MainStep ==
  ASSUME Inv, UNCHANGED logVars, MainShape', OnlyUpdateUndoes',
         main' # "cleaned", main \notin {"cleaned", "exited"},
         main' \in {"loop", "usr1", "reopen", "quit", "bye"} => notified'
  PROVE  Inv'
<1>1. LogInv' /\ (Writable => Writable')
  BY QuietLog DEF Inv
<1>2. LogsPlaced' /\ NeverMute'
  BY <1>1 DEF Inv, LogsPlaced, NeverMute, logVars
<1>3. QED
  BY <1>1, <1>2 DEF Inv

\* Steps of loggerInit and reopen.
LEMMA LoggingStep ==
  ASSUME Inv, NEW from, NEW to, Logging(from, to),
         act' \in {"none", "offer", "wait", "answer", "ended"},
         to \in {"log", "fatal", "activate", "reopen", "cleaned", "loop"},
         to \in {"reopen", "cleaned", "loop"} => from \in {"reopen", "cleaned"},
         LogInv',
         to = "cleaned" => Len(opened') = LogFiles,
         to # "cleaned" => Writable'
  PROVE  Inv'
<1>1. MainShape'
  BY DEF Inv, MainShape, Logging, confVars, triggers
<1>2. OnlyUpdateUndoes'
  BY DEF Inv, OnlyUpdateUndoes, Logging, confVars
<1>3. LogsPlaced' /\ NeverMute'
  BY DEF Inv, LogsPlaced, NeverMute, Logging
<1>4. QED
  BY <1>1, <1>2, <1>3 DEF Inv

LEMMA InitLogsStep ==
  ASSUME Inv, InitLogs
  PROVE  Inv'
<1>1. CASE OpenNext /\ Logging("log", "log") /\ UNCHANGED act
  <2>1. Writable
    BY <1>1 DEF Inv, NeverMute, Logging
  <2>2. LogInv' /\ Writable'
    BY <1>1, <2>1, OpenNextLog DEF Inv
  <2>3. act' \in {"none", "offer", "wait", "answer", "ended"}
    BY <1>1 DEF Inv, MainShape
  <2>4. QED
    BY <1>1, <2>2, <2>3, LoggingStep
<1>2. CASE OpenFails /\ Logging("log", "fatal") /\ UNCHANGED act
  <2>1. Writable
    BY <1>2 DEF Inv, NeverMute, Logging
  <2>2. LogInv' /\ Writable' /\ opened' = <<>>
    BY <1>2, <2>1, OpenFailsLog DEF Inv
  <2>3. act' \in {"none", "offer", "wait", "answer", "ended"}
    BY <1>2 DEF Inv, MainShape
  <2>4. QED
    BY <1>2, <2>2, <2>3, LoggingStep
<1>3. CASE NextLog \notin Logs /\ InitBackend /\ Logging("log", "activate") /\ act' = "offer"
  <2>1. Len(opened) = LogFiles
    BY <1>3, LoggerAssumption DEF Inv, LogInv, LogShape, NextLog, Logs
  <2>2. LogInv' /\ Writable' /\ opened' = <<>>
    BY <1>3, <2>1, BackendLog DEF Inv
  <2>3. QED
    BY <1>3, <2>2, LoggingStep
<1>4. QED
  BY <1>1, <1>2, <1>3 DEF InitLogs

LEMMA ReopenStep ==
  ASSUME Inv, Reopen
  PROVE  Inv'
<1>0. act' \in {"none", "offer", "wait", "answer", "ended"}
  BY DEF Reopen, Inv, MainShape
<1>1. CASE OpenNext /\ Logging("reopen", "reopen")
  <2>1. Writable
    BY <1>1 DEF Inv, NeverMute, Logging
  <2>2. LogInv' /\ Writable'
    BY <1>1, <2>1, OpenNextLog DEF Inv
  <2>3. QED
    BY <1>0, <1>1, <2>2, LoggingStep
<1>2. CASE OpenFails /\ Logging("reopen", "loop")
  <2>1. Writable
    BY <1>2 DEF Inv, NeverMute, Logging
  <2>2. LogInv' /\ Writable' /\ opened' = <<>>
    BY <1>2, <2>1, OpenFailsLog DEF Inv
  <2>3. QED
    BY <1>0, <1>2, <2>2, LoggingStep
<1>3. CASE NextLog \notin Logs /\ CleanUp /\ Logging("reopen", "cleaned")
  <2>1. Len(opened) = LogFiles /\ opened' = opened
    BY <1>3, LoggerAssumption DEF Inv, LogInv, LogShape, NextLog, Logs, CleanUp
  <2>2. LogInv'
    BY <1>3, CleanUpLog DEF Inv
  <2>3. QED
    BY <1>0, <1>3, <2>1, <2>2, LoggingStep
<1>4. CASE SetBackend /\ Logging("cleaned", "loop")
  <2>1. Len(opened) = LogFiles
    BY <1>4 DEF Inv, LogsPlaced, Logging
  <2>2. LogInv' /\ Writable' /\ opened' = <<>>
    BY <1>4, <2>1, BackendLog DEF Inv
  <2>3. QED
    BY <1>0, <1>4, <2>2, LoggingStep
<1>5. QED
  BY <1>1, <1>2, <1>3, <1>4 DEF Reopen

LEMMA StepInv == Inv /\ [Next]_vars => Inv'
<1> SUFFICES ASSUME Inv, [Next]_vars
             PROVE  Inv'
    OBVIOUS
<1>0. main \in {"loop", "usr1", "reopen", "cleaned", "quit", "bye"} => notified
  BY DEF Inv, LogsPlaced
<1>1. CASE Load
  <2>1. MainShape'
    BY <1>1, ConfigType DEF Load, Inv, MainShape, triggers
  <2>2. OnlyUpdateUndoes'
    BY <1>1 DEF Load, OnlyUpdateUndoes
  <2>3. QED
    BY <1>0, <1>1, <2>1, <2>2, MainStep DEF Load
<1>2. CASE BadLogConfig
  <2>1. MainShape' /\ OnlyUpdateUndoes'
    BY <1>2 DEF BadLogConfig, Inv, MainShape, OnlyUpdateUndoes, confVars, triggers
  <2>2. QED
    BY <1>2, <2>1, MainStep DEF BadLogConfig
<1>3. CASE InitLogs
  BY <1>3, InitLogsStep
<1>4. CASE Activate
  <2>1. MainShape' /\ OnlyUpdateUndoes'
    BY <1>4 DEF Activate, Inv, MainShape, OnlyUpdateUndoes, confVars, triggers
  <2>2. QED
    BY <1>0, <1>4, <2>1, MainStep DEF Activate
<1>5. CASE Run
  <2>1. MainShape' /\ OnlyUpdateUndoes'
    BY <1>5 DEF Run, Inv, MainShape, OnlyUpdateUndoes, triggers
  <2>2. QED
    BY <1>0, <1>5, <2>1, MainStep DEF Run
<1>6. CASE Update
  <2>0. undone' \in BOOLEAN /\ (main' = "notify" \/ (main' = "loop" /\ notified))
    BY <1>6 DEF Update
  <2>1. MainShape' /\ OnlyUpdateUndoes'
    BY <1>6, <2>0 DEF Update, Inv, MainShape, OnlyUpdateUndoes, triggers
  <2>2. QED
    BY <1>0, <1>6, <2>1, MainStep DEF Update
<1>7. CASE Notify
  <2>0. notified' \in BOOLEAN
    BY <1>7 DEF Notify
  <2>1. MainShape' /\ OnlyUpdateUndoes'
    BY <1>7, <2>0 DEF Notify, Inv, MainShape, OnlyUpdateUndoes, confVars, triggers
  <2>2. QED
    BY <1>7, <2>1, MainStep DEF Notify
<1>8. CASE UpdateFails
  <2>1. MainShape' /\ OnlyUpdateUndoes'
    BY <1>8 DEF UpdateFails, Inv, MainShape, OnlyUpdateUndoes, confVars, triggers
  <2>2. QED
    BY <1>0, <1>8, <2>1, MainStep DEF UpdateFails
<1>9. ASSUME NEW s \in Signals, Signal(s)
      PROVE  Inv'
  <2>1. CASE main' = main
    <3>1. LogInv' /\ (Writable => Writable')
      BY <1>9, QuietLog DEF Signal, Inv
    <3>2. MainShape' /\ OnlyUpdateUndoes' /\ LogsPlaced' /\ NeverMute'
      BY <1>9, <2>1, <3>1 DEF Signal, Inv, MainShape, OnlyUpdateUndoes, LogsPlaced, NeverMute,
                              confVars, triggers, logVars
    <3>3. QED
      BY <3>1, <3>2 DEF Inv
  <2>2. CASE main' = "killed" /\ ~notified
    <3>2. MainShape' /\ OnlyUpdateUndoes'
      BY <1>9, <2>2 DEF Signal, Inv, MainShape, OnlyUpdateUndoes, confVars, triggers
    <3>3. QED
      BY <1>0, <1>9, <2>2, <3>2, MainStep DEF Signal, Ended
  <2>3. CASE main = "loop" /\ main' = Case(s)
    <3>1. Case(s) \in {"quit", "reopen", "usr1"}
      BY <1>9 DEF Case, Signals
    <3>2. MainShape' /\ OnlyUpdateUndoes'
      BY <1>9, <2>3, <3>1 DEF Signal, Inv, MainShape, OnlyUpdateUndoes, confVars, triggers
    <3>3. QED
      BY <1>0, <1>9, <2>3, <3>1, <3>2, MainStep DEF Signal
  <2>4. QED
    BY <1>9, <2>1, <2>2, <2>3 DEF Signal
<1>10. CASE Post
  <2>1. main' = main
    BY <1>10 DEF Post
  <2>2. LogInv' /\ (Writable => Writable')
    BY <1>10, QuietLog DEF Post, Inv
  <2>3. posted' = waiting' + taken' /\ waiting' \in Nat /\ posted' <= MaxPosts
    BY <1>10, MainAssumption DEF Post, Inv, MainShape
  <2>4. MainShape' /\ OnlyUpdateUndoes'
    BY <1>10, <2>3 DEF Post, Inv, MainShape, OnlyUpdateUndoes, confVars
  <2>5. LogsPlaced' /\ NeverMute'
    BY <1>10, <2>2 DEF Post, Inv, LogsPlaced, NeverMute, logVars
  <2>6. QED
    BY <2>2, <2>4, <2>5 DEF Inv
<1>11. CASE Trigger
  <2>1. posted' = waiting' + taken' /\ waiting' \in Nat /\ taken' \in Nat /\ posted' <= MaxPosts
    BY <1>11 DEF Trigger, Inv, MainShape
  <2>2. MainShape' /\ OnlyUpdateUndoes'
    BY <1>11, <2>1 DEF Trigger, Inv, MainShape, OnlyUpdateUndoes, confVars
  <2>3. QED
    BY <1>0, <1>11, <2>2, MainStep DEF Trigger
<1>12. CASE ReloadConfig
  <2>1. CASE LoadConfig(file) = Nil
    <3>1. main' = "panicked" /\ UNCHANGED <<inforce, applied, undone>>
      BY <1>12, <2>1 DEF ReloadConfig
    <3>2. MainShape' /\ OnlyUpdateUndoes'
      BY <1>12, <3>1 DEF ReloadConfig, Inv, MainShape, OnlyUpdateUndoes, triggers
    <3>3. QED
      BY <1>0, <1>12, <3>1, <3>2, MainStep DEF ReloadConfig
  <2>2. CASE LoadConfig(file) # Nil
    <3>1. /\ inforce' = LoadConfig(file) /\ applied' = LoadConfig(file)
          /\ undone' = FALSE /\ main' = "loop"
      BY <1>12, <2>2 DEF ReloadConfig
    <3>2. LoadConfig(file) \in {Nil, Defaults} \cup (1..Versions) /\ undone' \in BOOLEAN
      BY <3>1, ConfigType DEF Inv, MainShape
    <3>3. MainShape'
      BY <1>12, <3>1, <3>2 DEF ReloadConfig, Inv, MainShape, triggers
    <3>4. OnlyUpdateUndoes'
      BY <3>1 DEF OnlyUpdateUndoes
    <3>5. QED
      BY <1>0, <1>12, <3>1, <3>3, <3>4, MainStep DEF ReloadConfig
  <2>3. QED
    BY <2>1, <2>2
<1>13. CASE Reopen
  BY <1>13, ReopenStep
<1>14. CASE Quit
  <2>1. MainShape' /\ OnlyUpdateUndoes'
    BY <1>14 DEF Quit, Inv, MainShape, OnlyUpdateUndoes, confVars, triggers
  <2>2. QED
    BY <1>0, <1>14, <2>1, MainStep DEF Quit
<1>15. CASE Bye
  <2>1. LogInv'
    BY <1>15, CleanUpLog DEF Bye, Inv
  <2>2. MainShape' /\ OnlyUpdateUndoes'
    BY <1>15 DEF Bye, Inv, MainShape, OnlyUpdateUndoes, confVars, triggers
  <2>3. LogsPlaced' /\ NeverMute'
    BY <1>15 DEF Bye, LogsPlaced, NeverMute
  <2>4. QED
    BY <2>1, <2>2, <2>3 DEF Inv
<1>16. CASE Edit
  <2>1. LogInv' /\ (Writable => Writable')
    BY <1>16, QuietLog DEF Edit, Inv
  <2>2. MainShape' /\ OnlyUpdateUndoes' /\ LogsPlaced' /\ NeverMute'
    BY <1>16, <2>1 DEF Edit, Inv, MainShape, OnlyUpdateUndoes, LogsPlaced, NeverMute,
                       triggers, logVars
  <2>3. QED
    BY <2>1, <2>2 DEF Inv
<1>17. ASSUME UNCHANGED <<main, act, notified, confVars, triggers, opened>>,
              LogInv', Writable => Writable'
       PROVE  Inv'
  <2>1. MainShape' /\ OnlyUpdateUndoes' /\ LogsPlaced' /\ NeverMute'
    BY <1>17 DEF Inv, MainShape, OnlyUpdateUndoes, LogsPlaced, NeverMute, confVars, triggers
  <2>2. QED
    BY <1>17, <2>1 DEF Inv
<1>18. ASSUME NEW n \in Logs, Beside(Rotate(n))
       PROVE  Inv'
  <2>1. LogInv' /\ (Writable => Writable')
    BY <1>18, RotateLog DEF Beside, Inv
  <2>2. QED
    BY <1>17, <1>18, <2>1 DEF Beside, Rotate
<1>19. CASE Beside(Collect)
  <2>1. LogInv' /\ (Writable => Writable')
    BY <1>19, CollectLog DEF Beside, Inv
  <2>2. QED
    BY <1>17, <1>19, <2>1 DEF Beside, Collect
<1>20. CASE UNCHANGED vars
  <2>1. UNCHANGED logVars /\ UNCHANGED <<main, act, notified, confVars, triggers>>
    BY <1>20 DEF vars
  <2>2. LogInv' /\ (Writable => Writable')
    BY <2>1, QuietLog DEF Inv
  <2>3. QED
    BY <1>17, <2>1, <2>2 DEF logVars
<1>21. QED
  BY <1>1, <1>2, <1>3, <1>4, <1>5, <1>6, <1>7, <1>8, <1>9, <1>10, <1>11, <1>12, <1>13,
     <1>14, <1>15, <1>16, <1>18, <1>19, <1>20 DEF Next, Step

-----------------------------------------------------------------------------
(* Theorems *)

LEMMA Correct == Spec => []Inv
BY InitInv, StepInv, PTL DEF Spec

LEMMA InvImpliesTypeOK == Inv => TypeOK
<1> SUFFICES ASSUME Inv
             PROVE  TypeOK
    OBVIOUS
<1>1. handle \in Seq([file : 1..files, open : BOOLEAN])
  <2> DEFINE H == [file : 1..files, open : BOOLEAN]
  <2>1. handle \in Handles /\ Len(handle) \in Nat
    BY DEF Inv, LogInv, LogShape, Handles
  <2>2. \A h \in 1..Len(handle) : handle[h] \in Handle /\ handle[h].file \in 1..files
    BY <2>1 DEF Inv, LogInv, LogShape, Handles
  <2>3. \A x \in Handle : x.file \in 1..files => x \in H
    BY DEF Handle
  <2> HIDE DEF H
  <2>4. \A h \in 1..Len(handle) : handle[h] \in H
    BY <2>2, <2>3
  <2>5. handle \in Seq(H)
    BY <2>1, <2>4 DEF Handles
  <2>6. QED
    BY <2>5 DEF H
<1>2. DOMAIN handle = 1..Len(handle)
  BY DEF Inv, LogInv, LogShape, Handles
<1>3. LoggerTypeOK
  <2>1. /\ Range(backends) \cup Range(state) \cup Range(opened) \subseteq DOMAIN handle
        /\ path \in [Logs -> NoFile..files] /\ files \in Nat
    BY <1>2 DEF Inv, LogInv, LogShape, Referred, NoFile
  <2>2. {Len(backends), Len(state)} \subseteq {0, LogFiles} /\ Len(opened) <= LogFiles
    BY DEF Inv, LogInv, LogShape
  <2>3. QED
    BY <1>1, <2>1, <2>2 DEF LoggerTypeOK
<1>4. posted \in 0..MaxPosts /\ taken \in 0..posted /\ waiting \in 0..posted
  BY MainAssumption DEF Inv, MainShape
<1>5. QED
  BY <1>3, <1>4 DEF TypeOK, Inv, MainShape

\* Every variable of main and of the logger has the shape the code gives it.
THEOREM MainTypeCorrect == Spec => []TypeOK
BY Correct, InvImpliesTypeOK, PTL

\* However often reopen ran, failed or closed what it had closed before
\* (logger.go:225), every log has a backend on an open file.
THEOREM LogsAreWritable == Spec => []NeverMute
<1>1. Inv => NeverMute
  BY DEF Inv
<1>2. QED
  BY <1>1, Correct, PTL

\* The event loop serves the config that SIGUSR1 loaded last, until an update goes
\* back to the one of the start (main.go:118).
THEOREM ReloadsTakeEffect == Spec => []OnlyUpdateUndoes
<1>1. Inv => OnlyUpdateUndoes
  BY DEF Inv
<1>2. QED
  BY <1>1, Correct, PTL
=============================================================================
