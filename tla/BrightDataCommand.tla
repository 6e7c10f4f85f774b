-------------------------- MODULE BrightDataCommand --------------------------
(***************************************************************************)
(* A command of the Bright Data CLI and what the program makes of it: the  *)
(* child process under a timeout with an escalating kill (ProcessCliRunner *)
(* in infrastructure/bright-data/cli-adapter.ts), the adapter that judges  *)
(* its output, and the parser that tells rows from per-row errors          *)
(* (parse-run-output.ts).  Extends Detection, to which a run's result goes.*)
(*                                                                         *)
(* The child is external: it does its work at Bright Data or not, prints a *)
(* reply in parts, may hang, may ignore SIGTERM, and is stopped by SIGKILL.*)
(* A part of a reply is what one data event delivers.  Each is decoded on  *)
(* its own, so a character cut in two by their boundary is lost.           *)
(***************************************************************************)
EXTENDS Detection, Lists

CONSTANTS
    RawRows,         \* what an element of a run's output may be
    Misdecoded,      \* what each of them may become when a character in it is cut in two
    MaxRows,         \* bound on them
    MAX_CAPTURED,    \* 4 MiB in the code, here in parts
    MaxParts,        \* bound on the parts of a reply
    NoReply, NoAnswer

Operation == {"run", "create", "heal", "approve", "reject"}

\* Words in a per-row error that tell what failed, and its error code.
Marker == {"proxy", "unreachable", "selector"}
ErrorRow == [markers : SUBSET Marker, code : {"proxy_error", "dead_page", "other"}]

\* A reply on stdout: the rows of a run, the envelope of another command, or text that is neither.
RowsReply == [kind : {"rows"}, rows : UNION {[1 .. n -> RawRows] : n \in 0 .. MaxRows}]
EnvelopeReply == [kind : {"envelope"}, done : BOOLEAN]
TextReply == [kind : {"text"}]
Reply == RowsReply \cup EnvelopeReply \cup TextReply

\* What the caller of a command other than run gets: its promise resolves or rejects.
Outcome == [result : {"ok", "error"}]

ASSUME RepliesAssumption ==
    /\ RawRows \subseteq Row \cup {NonRow} \cup ErrorRow
    /\ Misdecoded \in [RawRows -> SUBSET RawRows]
    /\ {MaxRows, MAX_CAPTURED} \subseteq Nat
    /\ MaxParts \in Nat \ {0}
    /\ NoReply \notin Reply
    /\ NoAnswer \notin Run \cup Outcome

\* What tells an error from data and one error from another is ASCII, of which nothing can be cut.
ASSUME MarkersAreAscii ==
    \A row \in RawRows : IF row \in ErrorRow THEN Misdecoded[row] = {}
                         ELSE Misdecoded[row] \cap ErrorRow = {}

VARIABLES
    operation,
    child,      \* none, unspawned, working, exited (its pipes may hold output), closed
    effect,     \* Bright Data has done what was asked
    reply,      \* what the child prints
    parts,      \* in how many parts
    printed, captured,  \* how many it has printed, and how many the program has kept
    read,       \* how many it has seen
    decoded,    \* what the reply has become by decoding it part by part
    killed,     \* the last signal the child was sent
    timer, killTimer,   \* the two timeouts: off or armed
    timedOut,
    answer      \* what the awaiting caller got, NoAnswer while it waits

process == <<operation, child, effect, reply, parts, printed>>
capture == <<read, captured, decoded>>
timers == <<timer, killTimer, timedOut, killed>>
vars == <<process, capture, timers, answer>>

Init == /\ operation = "run"
        /\ child = "none"
        /\ effect = FALSE
        /\ reply = NoReply
        /\ parts = 1
        /\ printed = 0
        /\ read = 0
        /\ captured = 0
        /\ decoded = NoReply
        /\ killed = "none"
        /\ timer = "off"
        /\ killTimer = "off"
        /\ timedOut = FALSE
        /\ answer = NoAnswer
-----------------------------------------------------------------------------
(* Judging the output. *)

\* Mutant: a selector is looked for first.
classifyBySelector(error) ==
    IF "selector" \in error.markers THEN "selector_timeout"
    ELSE IF error.code = "proxy_error" \/ "proxy" \in error.markers THEN "proxy_error"
    ELSE IF error.code = "dead_page" \/ "unreachable" \in error.markers THEN "unreachable_page"
    ELSE "unknown"

\* Transport before extraction: only an error that names a selector and nothing of the network
\* shows that the page was loaded.
classifyExtractionError(error) ==
    IF error.code = "proxy_error" \/ "proxy" \in error.markers THEN "proxy_error"
    ELSE IF error.code = "dead_page" \/ "unreachable" \in error.markers THEN "unreachable_page"
    ELSE IF "selector" \in error.markers THEN "selector_timeout"
    ELSE "unknown"

\* A JSON document is readable only whole.
Readable == reply # NoReply /\ captured = parts

IsError(row) == row \in ErrorRow

\* Mutant: error rows stay among the data.
parseEveryRow(rows) ==
    [status |-> "succeeded", retryable |-> FALSE,
     extractionErrors |-> {classifyExtractionError(row) : row \in {r \in Range(rows) : IsError(r)}},
     records |-> rows]

\* Error rows are not data.
parseRunOutput(rows) ==
    [status |-> "succeeded", retryable |-> FALSE,
     extractionErrors |-> {classifyExtractionError(row) : row \in {r \in Range(rows) : IsError(r)}},
     records |-> Without(rows, ErrorRow)]

FailedRun(status, retryable) ==
    [status |-> status, retryable |-> retryable, extractionErrors |-> {}, records |-> <<>>]

\* The result of a run; whether a failure looks retryable is read from its text.
RunAnswers ==
    IF timedOut THEN {FailedRun("timed_out", TRUE)}
    ELSE IF Readable /\ decoded.kind = "rows" THEN {parseRunOutput(decoded.rows)}
    ELSE {FailedRun("failed", retryable) : retryable \in BOOLEAN}

ReadsEnvelope == Readable /\ decoded.kind = "envelope"

\* Mutant: a readable envelope is enough.
SucceedsIfReadable == operation = "reject" \/ ReadsEnvelope

\* create wants an id in time, heal a readable envelope, approve the save step in it; reject wants
\* nothing.
Succeeds ==
    CASE operation = "create" -> ~timedOut /\ ReadsEnvelope /\ decoded.done
      [] operation = "heal" -> ReadsEnvelope
      [] operation = "approve" -> ReadsEnvelope /\ decoded.done
      [] operation = "reject" -> TRUE

Answers ==
    IF operation = "run" THEN RunAnswers
    ELSE {[result |-> IF Succeeds THEN "ok" ELSE "error"]}
-----------------------------------------------------------------------------
(* The caller, and the child it spawns. *)

\* A command is invoked once the last one has been answered.
Invoke ==
    /\ child = "none" \/ answer # NoAnswer
    /\ operation' \in Operation
    /\ child' \in {"working", "unspawned"}
    /\ timer' = "armed"
    /\ effect' = FALSE
    /\ reply' = NoReply
    /\ parts' \in 1 .. MaxParts
    /\ printed' = 0
    /\ read' = 0
    /\ captured' = 0
    /\ decoded' = NoReply
    /\ killed' = "none"
    /\ killTimer' = "off"
    /\ timedOut' = FALSE
    /\ answer' = NoAnswer

\* Bright Data does what was asked, before the command prints anything.
TakesEffect ==
    /\ child = "working"
    /\ reply = NoReply
    /\ operation # "run"
    /\ effect' = TRUE
    /\ UNCHANGED <<operation, child, reply, parts, printed, capture, timers, answer>>

\* The command has its answer; it reports as done nothing that is not.
Replies ==
    /\ child = "working"
    /\ reply = NoReply
    /\ reply' \in TextReply \cup (IF operation = "run" THEN RowsReply
                                  ELSE {envelope \in EnvelopeReply : envelope.done => effect})
    /\ decoded' = reply'
    /\ UNCHANGED <<operation, child, effect, parts, printed, read, captured, timers, answer>>

Prints ==
    /\ child = "working"
    /\ reply # NoReply
    /\ printed < parts
    /\ printed' = printed + 1
    /\ UNCHANGED <<operation, child, effect, reply, parts, capture, timers, answer>>

\* The child ends: done, crashed, or by a signal.
Exits ==
    /\ child = "working"
    /\ child' = "exited"
    /\ UNCHANGED <<operation, effect, reply, parts, printed, capture, timers, answer>>

\* SIGKILL cannot be ignored.
ExitsBySigkill == killed = "SIGKILL" /\ Exits
-----------------------------------------------------------------------------
(* The runner. *)

\* The boundary to the part before runs through a character: a row holds another text then.
CutsCharacter ==
    /\ read > 0
    /\ decoded.kind = "rows"
    /\ \E i \in DOMAIN decoded.rows : \E row \in Misdecoded[decoded.rows[i]] :
          decoded' = [decoded EXCEPT !.rows[i] = row]

\* A data event; output beyond the limit is dropped.
DataArrives ==
    /\ read < printed
    /\ read' = read + 1
    /\ captured' = IF captured >= MAX_CAPTURED THEN captured ELSE captured + 1
    /\ UNCHANGED decoded \/ CutsCharacter
    /\ UNCHANGED <<process, timers, answer>>

\* A signal to a child that is gone does nothing.
Kill(signal) == killed' = IF child = "working" THEN signal ELSE killed

\* Mutant: SIGTERM is all.
StaysOff == UNCHANGED killTimer

ArmsKillTimer == killTimer' = "armed"

TimerFires ==
    /\ timer = "armed"
    /\ timer' = "off"
    /\ timedOut' = TRUE
    /\ Kill("SIGTERM")
    /\ ArmsKillTimer
    /\ UNCHANGED <<process, capture, answer>>

KillTimerFires ==
    /\ killTimer = "armed"
    /\ killTimer' = "off"
    /\ Kill("SIGKILL")
    /\ UNCHANGED <<process, capture, timer, timedOut, answer>>

clearTimers == timer' = "off" /\ killTimer' = "off" /\ UNCHANGED <<timedOut, killed>>

\* The error event: the command could not be started.
SpawnFails ==
    /\ child = "unspawned"
    /\ child' = "closed"
    /\ clearTimers
    /\ answer' = IF operation = "run" THEN FailedRun("failed", FALSE) ELSE [result |-> "error"]
    /\ UNCHANGED <<operation, effect, reply, parts, printed, capture>>

\* Mutant: the exit event settles the command, with whatever has been read by then.
HasExited == child = "exited"

HasClosed == child = "exited" /\ read = printed

\* The close event: the child is gone and its pipes are empty.
Closes ==
    /\ HasClosed
    /\ child' = "closed"
    /\ clearTimers
    /\ answer' \in Answers
    /\ UNCHANGED <<operation, effect, reply, parts, printed, capture>>

Next ==
    \/ Invoke \/ SpawnFails
    \/ TakesEffect \/ Replies \/ Prints \/ Exits
    \/ DataArrives \/ TimerFires \/ KillTimerFires \/ Closes

Spec == Init /\ [][Next]_vars

\* The timers and the events of the runner happen, and SIGKILL kills.  The child owes nothing.
FairSpec ==
    /\ Spec
    /\ WF_vars(SpawnFails) /\ WF_vars(DataArrives) /\ WF_vars(Closes)
    /\ WF_vars(TimerFires) /\ WF_vars(KillTimerFires)
    /\ WF_vars(ExitsBySigkill)
-----------------------------------------------------------------------------
TypeOK ==
    /\ operation \in Operation
    /\ child \in {"none", "unspawned", "working", "exited", "closed"}
    /\ effect \in BOOLEAN
    /\ reply \in Reply \cup {NoReply}
    /\ parts \in 1 .. MaxParts
    /\ printed \in 0 .. parts
    /\ read \in 0 .. printed
    /\ captured \in 0 .. read
    /\ decoded \in Reply \cup {NoReply}
    /\ killed \in {"none", "SIGTERM", "SIGKILL"}
    /\ {timer, killTimer} \subseteq {"off", "armed"}
    /\ timedOut \in BOOLEAN
    /\ answer \in Run \cup Outcome \cup {NoAnswer}

\* A command that succeeds has happened: a collector reported as built exists, and a repair
\* reported as approved was saved, although the exit code is not looked at and output may be cut.
SuccessIsReal ==
    answer = [result |-> "ok"] /\ operation \in {"create", "approve"} => effect

\* A reply printed whole, in time and within the limit is what the command is judged by: nothing
\* that the pipes still hold when the child exits is lost.  A run gets every row of it, and its
\* errors for what they are.  Only the text in its rows may have changed, where a character was cut
\* in two, and not even that if the reply came in one part.
WholeRepliesAreJudged ==
    /\ child = "closed"
    /\ reply # NoReply
    /\ ~timedOut
    /\ printed = parts
    /\ parts <= MAX_CAPTURED
    => /\ Readable
       /\ operation = "run" /\ reply.kind = "rows" =>
             LET meant == parseRunOutput(reply.rows)
             IN  /\ answer.status = "succeeded"
                 /\ answer.extractionErrors = meant.extractionErrors
                 /\ Len(answer.records) = Len(meant.records)
                 /\ parts = 1 => answer = meant

\* From raw output to verdict: a first run is a structural break, which is healed, only if its
\* output is whole and in time and either some row shows a selector failing on a page that was
\* reached, or all rows are data.
StructureNeedsEvidence ==
    /\ operation = "run"
    /\ answer # NoAnswer
    /\ classifyRun(answer, evaluateContract(answer.records, BOOTSTRAP_CONTRACT), NoBaseline,
                   BOOTSTRAP_CONTRACT).classification = "structural_break"
    => /\ ~timedOut
       /\ captured = parts
       /\ \/ \E row \in Range(reply.rows) :
                IsError(row) /\ row.markers = {"selector"} /\ row.code = "other"
          \/ \A row \in Range(reply.rows) : ~IsError(row)

\* Every command is answered, whether or not its child ever ends of its own accord.
CommandsSettle == child \in {"unspawned", "working"} ~> child = "closed"
=============================================================================
