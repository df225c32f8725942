------------------------------ MODULE AuditLog ------------------------------
(***************************************************************************)
(* The recorders of the services (libs/go/auditlog) with the audit service  *)
(* they send to: a bounded queue, batches, retries, and the end of a        *)
(* process.                                                                 *)
(*                                                                          *)
(* Record looks at `closed` and then at the queue, two steps between which  *)
(* the process may be closed.  A call that the recorder gave up goes on in  *)
(* the service and may commit late.                                         *)
(***************************************************************************)
EXTENDS AuditStore, FiniteSets, Functions

CONSTANTS
  Recorders,    \* processes with a recorder
  RecorderOf,   \* event -> the process it happens in
  QueueSize,    \* Options.QueueSize
  BatchSize,    \* Options.BatchSize
  MaxFailures   \* bound: calls that fail or get no answer in time

ASSUME RecorderAssumption ==
  /\ RecorderOf \in [Events -> Recorders]
  /\ QueueSize \in Nat \ {0} /\ BatchSize \in Nat \ {0} /\ MaxFailures \in Nat

VARIABLES
  rec,        \* recorder -> its process and its loop
  recording,  \* events in Record, after the look at closed
  accepted,   \* recorder -> the events it took into its queue, in that order
  late,       \* events taken into the queue when the loop had returned
  logged,     \* events written to the log ("audit event not delivered")
  failures

vars == <<heads, rows, calls, verify, rec, recording, accepted, late, logged, failures>>
recVars == <<rec, recording, accepted, late, logged, failures>>

NoCallId == 0

\* proc: "up", "closing" once Close is called, "exited" when Close saw the loop
\* end, "cut" when its context ended first.  pc: "collect", "call", "backoff" or
\* "done".  one: the event of the batch that is sent alone, 0 while the batch is
\* sent whole.
NewRecorder == [proc |-> "up", pc |-> "collect", queue |-> << >>, batch |-> << >>,
                one |-> 0, call |-> NoCallId, stopping |-> FALSE]

Alive(r)  == rec[r].proc \in {"up", "closing"}
Closed(r) == rec[r].proc # "up"

Init ==
  /\ StoreInit
  /\ rec = [r \in Recorders |-> NewRecorder]
  /\ recording = {} /\ late = {} /\ logged = {}
  /\ accepted = [r \in Recorders |-> << >>]
  /\ failures = 0

-----------------------------------------------------------------------------
(* Record.                                                                  *)

\* Events that Record has been called for.
Entered == recording \cup logged \cup UNION {Range(accepted[r]) : r \in Recorders}

RecordCheck(e) ==
  /\ e \notin Entered /\ Alive(RecorderOf[e])
  /\ IF Closed(RecorderOf[e])
       THEN logged' = logged \cup {e} /\ UNCHANGED recording
       ELSE recording' = recording \cup {e} /\ UNCHANGED logged
  /\ UNCHANGED <<storeVars, rec, accepted, late, failures>>

RecordQueue(e) ==
  LET r == RecorderOf[e] IN
  /\ e \in recording /\ Alive(r)
  /\ recording' = recording \ {e}
  /\ IF Len(rec[r].queue) < QueueSize
       THEN /\ rec' = [rec EXCEPT ![r].queue = Append(@, e)]
            /\ accepted' = [accepted EXCEPT ![r] = Append(@, e)]
            /\ late' = IF rec[r].pc = "done" THEN late \cup {e} ELSE late
            /\ UNCHANGED logged
       ELSE /\ logged' = logged \cup {e}
            /\ UNCHANGED <<rec, accepted, late>>
  /\ UNCHANGED <<storeVars, failures>>

-----------------------------------------------------------------------------
(* The loop.                                                                *)

Receive(r) ==
  /\ Alive(r) /\ rec[r].pc = "collect" /\ ~rec[r].stopping
  /\ Len(rec[r].batch) < BatchSize /\ rec[r].queue # << >>
  /\ rec' = [rec EXCEPT ![r].batch = Append(@, Head(rec[r].queue)), ![r].queue = Tail(@)]
  /\ UNCHANGED <<storeVars, recording, accepted, late, logged, failures>>

\* A call of the service that nobody waits for any more leaves no trace.
Free(c) ==
  /\ calls[c].pc \in {"none"} \cup Answers
  /\ \A r \in Recorders : rec[r].call # c

\* The recorder, whose state is s by now, calls the service with these events.
Calling(r, s, events) ==
  /\ \E c \in Calls : Free(c)
  /\ LET c == CHOOSE d \in Calls : Free(d) /\ \A x \in Calls : Free(x) => d <= x IN
       /\ calls' = [calls EXCEPT ![c] = Arrives(events)]
       /\ rec' = [rec EXCEPT ![r] = [s EXCEPT !.pc = "call", !.call = c]]

\* The ticker ticks, or the batch is full.
Send(r) ==
  /\ Alive(r) /\ rec[r].pc = "collect" /\ ~rec[r].stopping /\ rec[r].batch # << >>
  /\ Calling(r, [rec[r] EXCEPT !.one = 0], rec[r].batch)
  /\ UNCHANGED <<heads, rows, verify, recording, accepted, late, logged, failures>>

\* The loop sees that it is to stop.
NoticeStop(r) ==
  /\ rec[r].proc = "closing" /\ rec[r].pc = "collect" /\ ~rec[r].stopping
  /\ Len(rec[r].batch) < BatchSize
  /\ rec' = [rec EXCEPT ![r].stopping = TRUE]
  /\ UNCHANGED <<storeVars, recording, accepted, late, logged, failures>>

\* Stopping: the batch is filled from the queue and sent, or there is nothing
\* left and the loop returns.
Drain(r) ==
  LET room == BatchSize - Len(rec[r].batch)
      n == IF Len(rec[r].queue) < room THEN Len(rec[r].queue) ELSE room
      full == rec[r].batch \o SubSeq(rec[r].queue, 1, n)
  IN
  /\ rec[r].proc = "closing" /\ rec[r].pc = "collect" /\ rec[r].stopping
  /\ \/ /\ full = << >>
        /\ rec' = [rec EXCEPT ![r].pc = "done"]
        /\ UNCHANGED calls
     \/ /\ full # << >>
        /\ Calling(r, [rec[r] EXCEPT !.one = 0, !.batch = full,
                                     !.queue = SubSeq(@, n + 1, Len(@))], full)
  /\ UNCHANGED <<heads, rows, verify, recording, accepted, late, logged, failures>>

\* Mutant: only the batch is logged.
FailedBatchOnly(r) ==
  \/ /\ rec[r].stopping
     /\ logged' = logged \cup Range(rec[r].batch)
     /\ rec' = [rec EXCEPT ![r].pc = "done", ![r].call = NoCallId, ![r].one = 0, ![r].batch = << >>, ![r].queue = << >>]
  \/ /\ ~rec[r].stopping
     /\ rec' = [rec EXCEPT ![r].pc = "backoff", ![r].call = NoCallId, ![r].one = 0]
     /\ UNCHANGED logged

\* Mutant: the batch goes back to the queue, behind what came meanwhile.
FailedRequeues(r) ==
  \/ /\ rec[r].stopping
     /\ logged' = logged \cup Range(rec[r].batch) \cup Range(rec[r].queue)
     /\ rec' = [rec EXCEPT ![r].pc = "done", ![r].call = NoCallId, ![r].one = 0, ![r].batch = << >>, ![r].queue = << >>]
  \/ /\ ~rec[r].stopping
     /\ rec' = [rec EXCEPT ![r].pc = "backoff", ![r].call = NoCallId, ![r].one = 0,
                           ![r].queue = @ \o rec[r].batch, ![r].batch = << >>]
     /\ UNCHANGED logged

\* The call did not work.  The batch is kept for the next attempt; when the
\* process stops there is none, and everything left is logged.
Failed(r) ==
  \/ /\ rec[r].stopping
     /\ logged' = logged \cup Range(rec[r].batch) \cup Range(rec[r].queue)
     /\ rec' = [rec EXCEPT ![r].pc = "done", ![r].call = NoCallId, ![r].one = 0, ![r].batch = << >>, ![r].queue = << >>]
  \/ /\ ~rec[r].stopping
     /\ rec' = [rec EXCEPT ![r].pc = "backoff", ![r].call = NoCallId, ![r].one = 0]
     /\ UNCHANGED logged

\* The batch is done: whole, or its last event.
Sent(r) == [rec[r] EXCEPT !.pc = "collect", !.batch = << >>, !.call = NoCallId, !.one = 0]

\* The event of the batch that is sent alone next.
SendOne(r, i) == Calling(r, [rec[r] EXCEPT !.one = i], <<rec[r].batch[i]>>)

\* Mutant: a refused event stops the loop where it is.
AnsweredSticks(r) ==
  LET answer == calls[rec[r].call].pc IN
  /\ Alive(r) /\ rec[r].pc = "call" /\ answer \in Answers
  /\ \/ answer = "failed" /\ Failed(r)
     \/ /\ answer # "failed"
        /\ rec' = [rec EXCEPT ![r] = IF answer = "ok" THEN Sent(r) ELSE [@ EXCEPT !.pc = "backoff", !.call = NoCallId]]
        /\ UNCHANGED logged
  /\ UNCHANGED <<storeVars, recording, accepted, late, failures>>

\* send: a refused batch is sent again event by event, and a refused event is
\* logged; any other failure leaves the batch as it was.
Answered(r) ==
  LET answer == calls[rec[r].call].pc IN
  /\ Alive(r) /\ rec[r].pc = "call" /\ answer \in Answers
  /\ \/ /\ answer = "failed" /\ Failed(r)
        /\ UNCHANGED calls
     \/ /\ answer = "ok" /\ rec[r].one = 0
        /\ rec' = [rec EXCEPT ![r] = Sent(r)]
        /\ UNCHANGED <<calls, logged>>
     \/ /\ answer = "invalid" /\ rec[r].one = 0
        /\ SendOne(r, 1)
        /\ UNCHANGED logged
     \/ /\ answer \in {"ok", "invalid"} /\ rec[r].one > 0
        /\ logged' = IF answer = "invalid" THEN logged \cup {rec[r].batch[rec[r].one]} ELSE logged
        /\ \/ rec[r].one < Len(rec[r].batch) /\ SendOne(r, rec[r].one + 1)
           \/ rec[r].one = Len(rec[r].batch) /\ rec' = [rec EXCEPT ![r] = Sent(r)] /\ UNCHANGED calls
  /\ UNCHANGED <<heads, rows, verify, recording, accepted, late, failures>>

\* Options.Timeout passes, or the connection breaks: the service may go on, or
\* have answered already.
GiveUp(r) ==
  /\ Alive(r) /\ rec[r].pc = "call" /\ failures < MaxFailures
  /\ failures' = failures + 1
  /\ Failed(r)
  /\ UNCHANGED <<storeVars, recording, accepted, late>>

\* The backoff passes, or is cut short by Close.
Backoff(r) ==
  /\ Alive(r) /\ rec[r].pc = "backoff"
  /\ \E stop \in {FALSE, Closed(r)} :
       rec' = [rec EXCEPT ![r].pc = "collect", ![r].stopping = stop]
  /\ UNCHANGED <<storeVars, recording, accepted, late, logged, failures>>

-----------------------------------------------------------------------------
(* The end of a process.                                                    *)

Close(r) ==
  /\ rec[r].proc = "up"
  /\ rec' = [rec EXCEPT ![r].proc = "closing"]
  /\ UNCHANGED <<storeVars, recording, accepted, late, logged, failures>>

\* What a process leaves behind when it is gone.
Gone(how) == [NewRecorder EXCEPT !.proc = how, !.pc = "done"]

\* Close sees that the loop has returned.
CloseReturns(r) ==
  /\ rec[r].proc = "closing" /\ rec[r].pc = "done"
  /\ rec' = [rec EXCEPT ![r] = Gone("exited")]
  /\ UNCHANGED <<storeVars, recording, accepted, late, logged, failures>>

\* The context of Close ends first.
CloseTimesOut(r) ==
  /\ rec[r].proc = "closing" /\ rec[r].pc # "done" /\ failures < MaxFailures
  /\ failures' = failures + 1
  /\ rec' = [rec EXCEPT ![r] = Gone("cut")]
  /\ UNCHANGED <<storeVars, recording, accepted, late, logged>>

-----------------------------------------------------------------------------

AppendStep(c) == (AppendTenant(c) \/ AppendEvent(c) \/ CommitAppend(c)) /\ UNCHANGED recVars

AppendFails(c) ==
  /\ failures < MaxFailures /\ failures' = failures + 1
  /\ AbortAppend(c)
  /\ UNCHANGED <<rec, recording, accepted, late, logged>>

VerifyStep == (VerifyEnd \/ \E t \in Tenants : VerifyBegin(t)) /\ UNCHANGED recVars

LoopStep(r) == Receive(r) \/ Send(r) \/ NoticeStop(r) \/ Drain(r) \/ Answered(r) \/ Backoff(r)

Next ==
  \/ \E e \in Events : RecordCheck(e) \/ RecordQueue(e)
  \/ \E r \in Recorders : LoopStep(r) \/ GiveUp(r) \/ Close(r) \/ CloseReturns(r) \/ CloseTimesOut(r)
  \/ \E c \in Calls : AppendStep(c) \/ AppendFails(c)
  \/ VerifyStep

Spec == Init /\ [][Next]_vars

\* The loop of a recorder runs, its ticker ticks, and the audit service ends
\* the transactions it began.
Fairness ==
  /\ \A r \in Recorders : WF_vars(LoopStep(r))
  /\ \A r \in Recorders : WF_vars(Send(r))
  /\ \A c \in Calls : WF_vars(AppendStep(c))

FairSpec == Spec /\ Fairness

-----------------------------------------------------------------------------
(* Properties.                                                              *)

Recorded == UNION {EventIds(rows[t]) : t \in Tenants}

InMemory(r) == Range(rec[r].queue) \cup Range(rec[r].batch)

\* An event that a recorder took is in its memory, in the trail or in the log,
\* whatever fails and whenever the process ends; except for one that Record
\* queued after the loop returned, and for a process that ended before Close
\* was done.
Accounted ==
  \A r \in Recorders : rec[r].proc # "cut" =>
    Range(accepted[r]) \subseteq InMemory(r) \cup Recorded \cup logged \cup late

\* No event gets into the trail before one that its process recorded earlier,
\* also when batches are repeated, taken apart, or commit after they were given
\* up: the earlier one is in the trail too, or was refused, or logged at the end.
NoOvertaking ==
  \A r \in Recorders : \A i, j \in DOMAIN accepted[r] :
    i < j /\ accepted[r][j] \in Recorded => accepted[r][i] \in Recorded \cup logged

\* If the service can be reached from some time on, an event in the memory of a
\* recorder whose loop runs gets into the trail or into the log.
Delivered ==
  \A e \in Events :
    (e \in InMemory(RecorderOf[e]) /\ rec[RecorderOf[e]].pc # "done") ~>
      (e \in Recorded \cup logged \/ rec[RecorderOf[e]].proc = "cut")
=============================================================================
