----------------------- MODULE BrightDataCommand_proofs -----------------------
(***************************************************************************)
(* Proofs about BrightDataCommand for any rows, errors, replies and sizes: *)
(* what is reported as done is done, no verdict of a broken structure      *)
(* comes from the network, and a run is judged on the rows that came       *)
(* through, however their text was cut.                                    *)
(***************************************************************************)
EXTENDS BrightDataCommand, Lists_proofs

\* What a reply may be, and that it claims no effect it has not had.
Honest ==
    /\ reply \in Reply \cup {NoReply}
    /\ reply # NoReply /\ reply.kind = "envelope" /\ reply.done => effect

\* Decoding a reply in parts changes the text of data rows only, and of none in the first part.
Decodes ==
    /\ decoded \in Reply \cup {NoReply}
    /\ child = "unspawned" => reply = NoReply
    /\ reply = NoReply => decoded = NoReply /\ printed = 0
    /\ read <= 1 => decoded = reply
    /\ decoded # reply =>
          /\ reply \in RowsReply /\ decoded \in RowsReply
          /\ DOMAIN decoded.rows = DOMAIN reply.rows
          /\ \A i \in DOMAIN reply.rows :
                decoded.rows[i] # reply.rows[i] =>
                    decoded.rows[i] \notin ErrorRow /\ reply.rows[i] \notin ErrorRow

\* A closed child leaves no timer armed, no output unread and nobody waiting; one that never started has no output.
Quiet ==
    /\ child = "closed" => timer = "off" /\ killTimer = "off"
    /\ child \in {"closed", "unspawned"} => ~(read < printed)
    /\ child = "closed" => answer # NoAnswer

\* What is kept is what was read, up to the limit, and what is read has been printed.
Counted ==
    /\ parts \in 1 .. MaxParts
    /\ printed \in 0 .. parts
    /\ read \in 0 .. printed
    /\ captured \in 0 .. read
    /\ read <= MAX_CAPTURED => captured = read

\* An answer is given at the end only, and a run's is judged from what was captured.
Judged ==
    answer # NoAnswer =>
        /\ child = "closed"
        /\ operation = "run" => \/ answer \in RunAnswers
                                \/ reply = NoReply /\ answer = FailedRun("failed", FALSE)

IInv == /\ operation \in Operation
        /\ Honest
        /\ Decodes
        /\ Counted
        /\ Quiet
        /\ Judged
        /\ SuccessIsReal
-----------------------------------------------------------------------------
(* The judgement of rows. *)

\* A selector timeout is an error that names a selector and nothing of the network.
LEMMA SelectorIsEvidence ==
    ASSUME NEW error \in ErrorRow, classifyExtractionError(error) = "selector_timeout"
    PROVE  error.markers = {"selector"} /\ error.code = "other"
BY DEF ErrorRow, Marker, classifyExtractionError

\* A parsed run names the kinds of its error rows, so that none means that all rows are data.
LEMMA ErrorsAreKept ==
    ASSUME NEW rows
    PROVE  /\ parseRunOutput(rows).extractionErrors = {} =>
                \A row \in Range(rows) : ~IsError(row)
           /\ \A kind \in parseRunOutput(rows).extractionErrors :
                \E row \in Range(rows) : IsError(row) /\ classifyExtractionError(row) = kind
BY DEF parseRunOutput

\* A structural break is seen in a run that succeeded, by a selector or without errors.
LEMMA BreakIsSeen ==
    ASSUME NEW run, NEW evaluation,
           classifyRun(run, evaluation, NoBaseline, BOOTSTRAP_CONTRACT).classification
               = "structural_break"
    PROVE  /\ run.status = "succeeded"
           /\ run.extractionErrors = {} \/ "selector_timeout" \in run.extractionErrors
<1>1. CASE run.status # "succeeded"
  BY <1>1 DEF classifyRun, ClassifyFailedRun, Verdict
<1>2. CASE run.status = "succeeded" /\ run.extractionErrors # {}
  BY <1>2 DEF classifyRun, ClassifyExtractionErrors, Verdict
<1>3. CASE run.status = "succeeded" /\ run.extractionErrors = {}
  BY <1>3
<1> QED BY <1>1, <1>2, <1>3

LEMMA RowsAreAList ==
    ASSUME NEW r \in RowsReply
    PROVE  r.kind = "rows" /\ r.rows \in Seq(RawRows)
<1>1. PICK n \in 0 .. MaxRows : r.rows \in [1 .. n -> RawRows]
  BY DEF RowsReply
<1>2. n \in Nat
  BY RepliesAssumption
<1> QED BY <1>1, <1>2, SeqDef DEF RowsReply

LEMMA KindsOfReply ==
    ASSUME NEW r \in Reply
    PROVE  /\ r.kind = "rows" <=> r \in RowsReply
           /\ r.kind = "envelope" <=> r \in EnvelopeReply
BY DEF Reply, RowsReply, EnvelopeReply, TextReply

\* The errors among the rows of a reply come through as they are, and as many data rows.
LEMMA RowsComeThrough ==
    ASSUME Honest, Decodes, reply # NoReply, decoded.kind = "rows"
    PROVE  /\ reply \in RowsReply /\ decoded \in RowsReply
           /\ \A row \in ErrorRow : row \in Range(decoded.rows) <=> row \in Range(reply.rows)
           /\ Len(Without(decoded.rows, ErrorRow)) = Len(Without(reply.rows, ErrorRow))
<1>1. reply \in RowsReply /\ decoded \in RowsReply
  BY KindsOfReply DEF Honest, Decodes
<1>2. CASE decoded = reply
  BY <1>1, <1>2
<1>3. CASE decoded # reply
  <2>1. /\ DOMAIN decoded.rows = DOMAIN reply.rows
        /\ \A i \in DOMAIN reply.rows :
              decoded.rows[i] # reply.rows[i] =>
                  decoded.rows[i] \notin ErrorRow /\ reply.rows[i] \notin ErrorRow
    BY <1>3 DEF Decodes
  <2>2. reply.rows \in Seq(RawRows) /\ decoded.rows \in Seq(RawRows)
    BY <1>1, RowsAreAList
  <2>3. /\ DOMAIN reply.rows = 1 .. Len(reply.rows) /\ DOMAIN decoded.rows = 1 .. Len(decoded.rows)
        /\ Len(reply.rows) \in Nat /\ Len(decoded.rows) \in Nat
    BY <2>2
  <2>4. Len(decoded.rows) = Len(reply.rows)
    BY <2>1, <2>3
  <2>5. \A i \in 1 .. Len(reply.rows) : decoded.rows[i] \in ErrorRow <=> reply.rows[i] \in ErrorRow
    BY <2>1, <2>3
  <2>6. Len(Without(decoded.rows, ErrorRow)) = Len(Without(reply.rows, ErrorRow))
    BY <2>2, <2>4, <2>5, WithoutLength
  <2>7. \A row \in ErrorRow : row \in Range(decoded.rows) <=> row \in Range(reply.rows)
    BY <2>1 DEF Range
  <2> QED BY <1>1, <2>6, <2>7
<1> QED BY <1>2, <1>3

\* What the parser makes of any rows is the result of a run: no error row is left among its data.
LEMMA ParsedIsRun ==
    ASSUME NEW rows \in Seq(RawRows)
    PROVE  parseRunOutput(rows) \in Run
<1> DEFINE kinds == {classifyExtractionError(row) : row \in {r \in Range(rows) : IsError(r)}}
           data == Without(rows, ErrorRow)
<1>1. kinds \in SUBSET ExtractionErrorKind
  BY DEF classifyExtractionError, ExtractionErrorKind
<1>2. data \in Seq(Row \cup {NonRow})
  <2>1. data \in Seq(RawRows \ ErrorRow)
    BY WithoutType
  <2>2. RawRows \ ErrorRow \subseteq Row \cup {NonRow}
    BY RepliesAssumption
  <2> HIDE DEF data
  <2> QED BY <2>1, <2>2, SeqMonotonic
<1>3. parseRunOutput(rows) = [status |-> "succeeded", retryable |-> FALSE,
                              extractionErrors |-> kinds, records |-> data]
  BY DEF parseRunOutput
<1> HIDE DEF kinds, data
<1> QED BY <1>1, <1>2, <1>3 DEF Run, RunStatus

LEMMA FailedIsRun ==
    ASSUME NEW status \in {"failed", "timed_out"}, NEW retryable \in BOOLEAN
    PROVE  FailedRun(status, retryable) \in Run
<1>1. <<>> \in Seq(Row \cup {NonRow}) /\ {} \in SUBSET ExtractionErrorKind
  OBVIOUS
<1> QED BY <1>1 DEF FailedRun, Run, RunStatus

LEMMA AnswersAreTyped ==
    ASSUME Honest, Decodes
    PROVE  Answers \subseteq Run \cup Outcome
<1>1. CASE operation = "run"
  <2>1. Readable /\ decoded.kind = "rows" => parseRunOutput(decoded.rows) \in Run
    BY RowsComeThrough, RowsAreAList, ParsedIsRun DEF Readable
  <2>2. RunAnswers \subseteq Run
    BY <2>1, FailedIsRun DEF RunAnswers
  <2> QED BY <1>1, <2>2 DEF Answers
<1>2. CASE operation # "run"
  BY <1>2 DEF Answers, Outcome
<1> QED BY <1>1, <1>2

\* The judged answer of a run is a broken structure only on evidence.
LEMMA JudgedOnEvidence == Honest /\ Decodes /\ Judged => StructureNeedsEvidence
<1> SUFFICES ASSUME Honest, Decodes, Judged, operation = "run", answer # NoAnswer,
                    classifyRun(answer, evaluateContract(answer.records, BOOTSTRAP_CONTRACT),
                                NoBaseline, BOOTSTRAP_CONTRACT).classification
                        = "structural_break"
             PROVE  /\ ~timedOut
                    /\ captured = parts
                    /\ \/ \E row \in Range(reply.rows) :
                             IsError(row) /\ row.markers = {"selector"} /\ row.code = "other"
                       \/ \A row \in Range(reply.rows) : ~IsError(row)
  BY DEF StructureNeedsEvidence
<1>1. /\ answer.status = "succeeded"
      /\ answer.extractionErrors = {} \/ "selector_timeout" \in answer.extractionErrors
  BY BreakIsSeen
<1>2. answer \in RunAnswers \cup {FailedRun("failed", FALSE)}
  BY DEF Judged
<1>3. ~timedOut /\ Readable /\ decoded.kind = "rows" /\ answer = parseRunOutput(decoded.rows)
  BY <1>1, <1>2 DEF RunAnswers, FailedRun
<1>4. \A row : IsError(row) => (row \in Range(decoded.rows) <=> row \in Range(reply.rows))
  BY <1>3, RowsComeThrough DEF Readable, IsError
<1>5. CASE answer.extractionErrors = {}
  BY <1>3, <1>4, <1>5, ErrorsAreKept DEF Readable
<1>6. CASE "selector_timeout" \in answer.extractionErrors
  <2>1. PICK row \in Range(decoded.rows) :
           IsError(row) /\ classifyExtractionError(row) = "selector_timeout"
    BY <1>3, <1>6, ErrorsAreKept
  <2>2. row.markers = {"selector"} /\ row.code = "other"
    BY <2>1, SelectorIsEvidence DEF IsError
  <2> QED BY <1>3, <1>4, <2>1, <2>2 DEF Readable
<1> QED BY <1>1, <1>5, <1>6

\* A whole reply is judged row by row.
LEMMA WholeRowsAreJudged ==
    ASSUME IInv, operation = "run", child = "closed", reply # NoReply, ~timedOut, Readable,
           answer # NoAnswer, reply.kind = "rows"
    PROVE  LET meant == parseRunOutput(reply.rows)
           IN  /\ answer.status = "succeeded"
               /\ answer.extractionErrors = meant.extractionErrors
               /\ Len(answer.records) = Len(meant.records)
               /\ parts = 1 => answer = meant
<1>1. decoded.kind = "rows"
  BY DEF IInv, Decodes, RowsReply
<1>2. answer \in RunAnswers
  BY DEF IInv, Judged
<1>3. answer = parseRunOutput(decoded.rows)
  BY <1>1, <1>2 DEF RunAnswers
<1>4. /\ \A row \in ErrorRow : row \in Range(decoded.rows) <=> row \in Range(reply.rows)
      /\ Len(Without(decoded.rows, ErrorRow)) = Len(Without(reply.rows, ErrorRow))
  BY <1>1, RowsComeThrough DEF IInv
<1>5. parts = 1 => decoded = reply
  BY DEF IInv, Counted, Decodes
<1>6. {classifyExtractionError(row) : row \in {r \in Range(decoded.rows) : IsError(r)}}
          = {classifyExtractionError(row) : row \in {r \in Range(reply.rows) : IsError(r)}}
  <2>1. {r \in Range(decoded.rows) : IsError(r)} = {r \in Range(reply.rows) : IsError(r)}
    BY <1>4 DEF IsError
  <2> QED BY <2>1
<1>7. /\ answer.status = "succeeded"
      /\ answer.extractionErrors = parseRunOutput(reply.rows).extractionErrors
      /\ answer.records = Without(decoded.rows, ErrorRow)
      /\ parseRunOutput(reply.rows).records = Without(reply.rows, ErrorRow)
  BY <1>3, <1>6 DEF parseRunOutput
<1> QED BY <1>3, <1>4, <1>5, <1>7
-----------------------------------------------------------------------------
(* The inductive invariant. *)

LEMMA InitEstablishes == Init => IInv
<1> SUFFICES ASSUME Init PROVE IInv
  OBVIOUS
<1>1. answer # [result |-> "ok"]
  BY RepliesAssumption DEF Init, Outcome
<1> QED
  BY <1>1, RepliesAssumption DEF Init, IInv, Operation, Honest, Decodes, Counted, Quiet, Judged, SuccessIsReal

\* A step before the end leaves the command unanswered.
LEMMA UnansweredKeeps ==
    ASSUME child' # "closed", child' = "unspawned" => ~(read' < printed'),
           answer' = NoAnswer, operation' \in Operation, Honest', Decodes', Counted'
    PROVE  IInv'
<1>1. answer' # [result |-> "ok"]
  BY RepliesAssumption DEF Outcome
<1> QED BY <1>1 DEF IInv, Quiet, Judged, SuccessIsReal

LEMMA ChildKeeps ==
    ASSUME IInv, TakesEffect \/ Replies \/ Prints \/ Exits
    PROVE  IInv'
<1>1. child = "working" /\ child' \in {"working", "exited"}
  BY DEF TakesEffect, Replies, Prints, Exits
<1>2. answer' = NoAnswer /\ operation' \in Operation
  BY <1>1 DEF IInv, Judged, TakesEffect, Replies, Prints, Exits
<1>0. Counted'
  BY RepliesAssumption DEF IInv, Counted, TakesEffect, Replies, Prints, Exits, capture
<1>3. Honest' /\ Decodes' => IInv'
  BY <1>0, <1>1, <1>2, UnansweredKeeps
<1>4. CASE TakesEffect
  <2>1. Honest' /\ Decodes'
    BY <1>1, <1>4 DEF IInv, Honest, Decodes, TakesEffect, capture
  <2> QED BY <1>3, <2>1
<1>5. CASE Replies
  <2>1. /\ reply' \in TextReply \cup RowsReply
              \cup {envelope \in EnvelopeReply : envelope.done => effect}
        /\ effect' = effect
    BY <1>5 DEF Replies
  <2>2. reply' \in Reply
    BY <2>1 DEF Reply
  <2>3. reply'.kind = "envelope" /\ reply'.done => effect'
    BY <2>1 DEF TextReply, RowsReply
  <2>4. Honest' /\ Decodes'
    <3>1. reply' # NoReply /\ decoded' = reply' /\ child' = "working"
      BY <1>5, <2>2, RepliesAssumption DEF Replies
    <3> QED BY <2>2, <2>3, <3>1 DEF Honest, Decodes
  <2> QED BY <1>3, <2>4
<1>6. CASE Prints \/ Exits
  <2>1. Honest' /\ Decodes'
    BY <1>1, <1>6 DEF IInv, Honest, Decodes, Prints, Exits, capture
  <2> QED BY <1>3, <2>1
<1> QED BY <1>4, <1>5, <1>6

LEMMA InvokeKeeps ==
    ASSUME IInv, Invoke
    PROVE  IInv'
<1>1. child' # "closed" /\ ~(read' < printed') /\ answer' = NoAnswer /\ operation' \in Operation
  BY DEF Invoke
<1>2. Honest' /\ Decodes' /\ Counted'
  BY RepliesAssumption DEF Invoke, Honest, Decodes, Counted
<1> QED BY <1>1, <1>2, UnansweredKeeps

\* A cut changes the text of one data row.
LEMMA CutKeepsDecodes ==
    ASSUME Honest, Decodes, Counted, CutsCharacter, read < printed, read' = read + 1,
           UNCHANGED <<child, reply, printed>>
    PROVE  Decodes'
<1>0. PICK i \in DOMAIN decoded.rows : \E row \in Misdecoded[decoded.rows[i]] :
         decoded' = [decoded EXCEPT !.rows[i] = row]
  BY DEF CutsCharacter
<1>1. PICK row \in Misdecoded[decoded.rows[i]] : decoded' = [decoded EXCEPT !.rows[i] = row]
  BY <1>0
<1>2. reply # NoReply /\ decoded.kind = "rows" /\ ~(read' <= 1)
  <2>1. ~(read + 1 <= 1) /\ decoded.kind = "rows" /\ printed # 0
    BY RepliesAssumption DEF CutsCharacter, Counted
  <2> QED BY <2>1 DEF Decodes
<1>3. reply \in RowsReply /\ decoded \in RowsReply
  <2>1. CASE decoded = reply
    BY <1>2, <2>1, KindsOfReply DEF Honest
  <2>2. CASE decoded # reply
    BY <2>2 DEF Decodes
  <2> QED BY <2>1, <2>2
<1>4. PICK n \in 0 .. MaxRows : decoded.rows \in [1 .. n -> RawRows]
  BY <1>3 DEF RowsReply
<1>5. /\ decoded = [kind |-> "rows", rows |-> decoded.rows]
      /\ decoded' = [kind |-> "rows", rows |-> [decoded.rows EXCEPT ![i] = row]]
  BY <1>1, <1>3 DEF RowsReply
<1>6. decoded.rows[i] \in RawRows /\ row \in RawRows
  BY <1>1, <1>4, RepliesAssumption
<1>7. decoded.rows[i] \notin ErrorRow /\ row \notin ErrorRow
  BY <1>1, <1>6, MarkersAreAscii
<1>8. decoded' \in RowsReply
  <2>1. [decoded.rows EXCEPT ![i] = row] \in [1 .. n -> RawRows]
    BY <1>4, <1>6
  <2> QED BY <1>5, <2>1 DEF RowsReply
<1>9. /\ DOMAIN decoded.rows = DOMAIN reply.rows
      /\ \A j \in DOMAIN reply.rows :
            decoded.rows[j] # reply.rows[j] =>
                decoded.rows[j] \notin ErrorRow /\ reply.rows[j] \notin ErrorRow
  BY DEF Decodes
<1>10. /\ DOMAIN decoded'.rows = DOMAIN reply.rows
       /\ \A j \in DOMAIN reply.rows :
             decoded'.rows[j] # reply.rows[j] =>
                 decoded'.rows[j] \notin ErrorRow /\ reply.rows[j] \notin ErrorRow
  BY <1>1, <1>5, <1>7, <1>9
<1>11. decoded' \in Reply \cup {NoReply}
  BY <1>8 DEF Reply
<1> QED BY <1>2, <1>3, <1>8, <1>10, <1>11 DEF Decodes

\* Data and timers do not outlast the child.
LEMMA RunnerKeeps ==
    ASSUME IInv, DataArrives \/ TimerFires \/ KillTimerFires
    PROVE  IInv'
<1>1. child # "closed" /\ UNCHANGED <<operation, child, effect, reply, answer>>
  BY DEF IInv, Quiet, DataArrives, TimerFires, KillTimerFires, process
<1>2. answer = NoAnswer
  BY <1>1 DEF IInv, Judged
<1>3. Honest'
  BY <1>1 DEF IInv, Honest
<1>4. child' = "unspawned" => ~(read' < printed')
  BY <1>1 DEF IInv, Quiet, DataArrives, TimerFires, KillTimerFires, process, capture
<1>5. Counted'
  BY RepliesAssumption DEF IInv, Counted, DataArrives, TimerFires, KillTimerFires, process, capture
<1>6. Decodes'
  <2>1. CASE DataArrives /\ CutsCharacter
    BY <1>1, <2>1, CutKeepsDecodes DEF IInv, DataArrives, process
  <2>2. CASE UNCHANGED decoded
    <3>1. UNCHANGED <<child, reply, printed, decoded>> /\ (read' <= 1 => read <= 1)
      BY <1>1, <2>2, RepliesAssumption
         DEF IInv, Counted, DataArrives, TimerFires, KillTimerFires, process, capture
    <3> QED BY <3>1 DEF IInv, Decodes
  <2> QED BY <2>1, <2>2 DEF DataArrives, TimerFires, KillTimerFires, capture
<1> QED BY <1>1, <1>2, <1>3, <1>4, <1>5, <1>6, UnansweredKeeps DEF IInv

LEMMA SpawnFailsKeeps ==
    ASSUME IInv, SpawnFails
    PROVE  IInv'
<1>1. /\ UNCHANGED <<operation, effect, reply, parts, printed, read, captured, decoded>>
      /\ child = "unspawned" /\ child' = "closed" /\ timer' = "off" /\ killTimer' = "off"
      /\ answer' = IF operation = "run" THEN FailedRun("failed", FALSE)
                   ELSE [result |-> "error"]
  BY DEF SpawnFails, clearTimers, capture
<1>2. ~(read < printed)
  BY DEF IInv, Quiet, SpawnFails
<1>6. answer' # NoAnswer
  <2>1. FailedRun("failed", FALSE) \in Run /\ [result |-> "error"] \in Outcome
    BY FailedIsRun DEF Outcome
  <2> QED BY <1>1, <2>1, RepliesAssumption
<1>3. Honest' /\ Decodes' /\ Counted' /\ Quiet' /\ operation' \in Operation
  BY <1>1, <1>2, <1>6 DEF IInv, Honest, Decodes, Counted, Quiet
<1>4. Judged'
  BY <1>1 DEF IInv, Decodes, Judged, FailedRun
<1>5. SuccessIsReal'
  BY <1>1 DEF SuccessIsReal
<1> QED BY <1>3, <1>4, <1>5 DEF IInv

\* The end of the child: the answer is judged from what was captured.
LEMMA ClosesKeeps ==
    ASSUME IInv, Closes
    PROVE  IInv'
<1>1. /\ UNCHANGED <<operation, effect, reply, parts, printed, read, captured, decoded, timedOut>>
      /\ child' = "closed" /\ timer' = "off" /\ killTimer' = "off"
      /\ answer' \in Answers
      /\ ~(read < printed)
  BY DEF Closes, HasClosed, clearTimers, capture, IInv, Counted
<1>6. answer' # NoAnswer
  BY <1>1, AnswersAreTyped, RepliesAssumption DEF IInv
<1>2. Honest' /\ Decodes' /\ Counted' /\ Quiet' /\ operation' \in Operation
  BY <1>1, <1>6 DEF IInv, Honest, Decodes, Counted, Quiet
<1>3. RunAnswers' = RunAnswers
  BY <1>1 DEF RunAnswers, Readable
<1>4. Judged'
  BY <1>1, <1>3 DEF Judged, Answers
<1>5. SuccessIsReal'
  <2> SUFFICES ASSUME answer' = [result |-> "ok"], operation \in {"create", "approve"}
               PROVE  effect
    BY <1>1 DEF SuccessIsReal
  <2>1. Succeeds
    BY <1>1 DEF Answers
  <2>2. ReadsEnvelope /\ decoded.done
    BY <2>1 DEF Succeeds
  <2>3. decoded = reply
    BY <2>2 DEF IInv, Decodes, ReadsEnvelope, RowsReply
  <2> QED BY <2>2, <2>3 DEF IInv, Honest, ReadsEnvelope, Readable
<1> QED BY <1>2, <1>4, <1>5 DEF IInv

LEMMA NextKeeps == IInv /\ [Next]_vars => IInv'
<1> SUFFICES ASSUME IInv, [Next]_vars PROVE IInv'
  OBVIOUS
<1>1. CASE Invoke
  BY <1>1, InvokeKeeps
<1>2. CASE SpawnFails
  BY <1>2, SpawnFailsKeeps
<1>3. CASE TakesEffect \/ Replies \/ Prints \/ Exits
  BY <1>3, ChildKeeps
<1>4. CASE DataArrives \/ TimerFires \/ KillTimerFires
  BY <1>4, RunnerKeeps
<1>5. CASE Closes
  BY <1>5, ClosesKeeps
<1>6. CASE UNCHANGED vars
  BY <1>6 DEF vars, process, capture, timers, IInv, Honest, Decodes, Counted, Quiet, Judged, SuccessIsReal,
              RunAnswers, Readable
<1> QED BY <1>1, <1>2, <1>3, <1>4, <1>5, <1>6 DEF Next
-----------------------------------------------------------------------------
\* Every reachable state satisfies the inductive invariant.
THEOREM Inductive == Spec => []IInv
BY InitEstablishes, NextKeeps, PTL DEF Spec

\* A collector reported as built exists and a repair reported as approved was saved.
THEOREM SuccessIsRealAlways == Spec => []SuccessIsReal
<1>1. IInv => SuccessIsReal
  BY DEF IInv
<1> QED BY <1>1, Inductive, PTL

\* A first run is a structural break only on evidence from a page that was reached.
THEOREM StructureNeedsEvidenceAlways == Spec => []StructureNeedsEvidence
<1>1. IInv => StructureNeedsEvidence
  BY JudgedOnEvidence DEF IInv
<1> QED BY <1>1, Inductive, PTL

\* A reply that was printed whole, in time and within the limit is what the command is judged by,
\* row by row, the text of its rows aside (cli-adapter.ts, parse-run-output.ts).
THEOREM WholeRepliesAreJudgedAlways == Spec => []WholeRepliesAreJudged
<1>1. IInv => WholeRepliesAreJudged
  <2> SUFFICES ASSUME IInv, child = "closed", reply # NoReply, ~timedOut, printed = parts,
                      parts <= MAX_CAPTURED
               PROVE  /\ Readable
                      /\ operation = "run" /\ reply.kind = "rows" =>
                            LET meant == parseRunOutput(reply.rows)
                            IN  /\ answer.status = "succeeded"
                                /\ answer.extractionErrors = meant.extractionErrors
                                /\ Len(answer.records) = Len(meant.records)
                                /\ parts = 1 => answer = meant
    BY DEF WholeRepliesAreJudged
  <2>1. Readable
    BY RepliesAssumption DEF IInv, Counted, Quiet, Readable
  <2>2. answer # NoAnswer
    BY DEF IInv, Quiet
  <2> QED BY <2>1, <2>2, WholeRowsAreJudged
<1> QED BY <1>1, Inductive, PTL
-----------------------------------------------------------------------------
(* Types. *)

LEMMA TypeKept ==
    ASSUME TypeOK, IInv, [Next]_vars
    PROVE  TypeOK'
<1>1. Counted' /\ Honest' /\ Decodes' /\ operation' \in Operation
  BY NextKeeps DEF IInv
<1> DEFINE Rest ==
        /\ child \in {"none", "unspawned", "working", "exited", "closed"}
        /\ effect \in BOOLEAN
        /\ killed \in {"none", "SIGTERM", "SIGKILL"}
        /\ {timer, killTimer} \subseteq {"off", "armed"}
        /\ timedOut \in BOOLEAN
           Typed == answer \in Run \cup Outcome \cup {NoAnswer}
<1>2. TypeOK' <=> Rest' /\ Typed'
  BY <1>1 DEF TypeOK, Counted, Honest, Decodes
<1>3. Rest /\ Typed
  BY DEF TypeOK
<1>4. Rest'
  <2>1. CASE Invoke
    BY <1>3, <2>1 DEF Invoke
  <2>2. CASE SpawnFails
    BY <1>3, <2>2 DEF SpawnFails, clearTimers, capture
  <2>3. CASE TakesEffect \/ Replies \/ Prints \/ Exits
    BY <1>3, <2>3 DEF TakesEffect, Replies, Prints, Exits, timers
  <2>4. CASE DataArrives \/ TimerFires \/ KillTimerFires
    BY <1>3, <2>4 DEF DataArrives, TimerFires, KillTimerFires, Kill, ArmsKillTimer, process, timers
  <2>5. CASE Closes
    BY <1>3, <2>5 DEF Closes, clearTimers
  <2>6. CASE UNCHANGED vars
    BY <1>3, <2>6 DEF vars, process, timers
  <2> QED BY <2>1, <2>2, <2>3, <2>4, <2>5, <2>6 DEF Next
<1>5. Typed'
  <2>1. CASE Closes
    BY <2>1, AnswersAreTyped DEF IInv, Closes
  <2>2. CASE SpawnFails
    BY <2>2, FailedIsRun DEF SpawnFails, Outcome
  <2>3. CASE Invoke
    BY <2>3 DEF Invoke
  <2>4. CASE UNCHANGED answer
    BY <1>3, <2>4
  <2>5. ~(Closes \/ SpawnFails \/ Invoke) => UNCHANGED answer
    BY DEF Next, TakesEffect, Replies, Prints, Exits, DataArrives, TimerFires, KillTimerFires, vars
  <2> QED BY <2>1, <2>2, <2>3, <2>4, <2>5
<1> QED BY <1>1, <1>2, <1>4, <1>5

\* Every variable keeps its type: the counters their order, and the answer that of a run's result
\* or of another command's outcome.
THEOREM TypeCorrect == Spec => []TypeOK
<1>1. Init => TypeOK
  BY InitEstablishes, RepliesAssumption DEF Init, IInv, Honest, Decodes, Counted, TypeOK
<1>2. TypeOK /\ IInv /\ [Next]_vars => TypeOK'
  BY TypeKept
<1> QED BY <1>1, <1>2, Inductive, PTL DEF Spec
=============================================================================
