----------------------------- MODULE TaskStore -----------------------------
(***************************************************************************)
(* The tables of the orchestrator that hold background work, and the SQL    *)
(* statements that change them: tasks, confirmations and device_approvals   *)
(* (services/orchestrator/internal/store).  One operator stands for one     *)
(* statement or one transaction, so it is atomic; whatever happens between  *)
(* two statements of a handler is left to the module Tasks.                 *)
(*                                                                          *)
(* Time is reduced to what the statements compare with now(): whether a     *)
(* lease has lapsed and whether a question or an approval is past its       *)
(* expiry.                                                                  *)
(***************************************************************************)
EXTENDS Naturals, Sequences, FiniteSets

CONSTANTS
  Tasks,        \* task ids
  Workers,      \* lease owners: one per worker goroutine of each instance
  ReadCalls,    \* calls a worker runs itself: memory, read-only MCP, unknown tools
  ActionCalls,  \* calls of MCP tools that are not read-only
  DeviceCalls,  \* run_on_computer calls
  ConfIds,      \* confirmation ids
  ApprIds,      \* approval ids, given out by the device
  NoWorker,     \* lease_owner IS NULL
  NoTask, NoCall

Calls == ReadCalls \cup ActionCalls \cup DeviceCalls

\* The kinds of call are told apart, and the null values are not ids.
ASSUME CallsAssumption ==
  /\ ReadCalls \cap ActionCalls = {}
  /\ ReadCalls \cap DeviceCalls = {}
  /\ ActionCalls \cap DeviceCalls = {}
  /\ NoCall \notin Calls
ASSUME NullAssumption == NoWorker \notin Workers /\ NoTask \notin Tasks

VARIABLES task, conf, appr

-----------------------------------------------------------------------------
\* States of a task; "none" is a row that has not been inserted yet.
Terminal == {"succeeded", "failed", "cancelled"}
Waiting  == {"awaiting_confirmation", "awaiting_approval"}
TaskStates == {"none", "queued", "running"} \cup Waiting \cup Terminal

\* What a call's recorded result says: the tool's own output, or the
\* orchestrator's statement that the action was not done.
Outs == {"none", "tool", "notdone"}

\* The columns history, pending and steps.  Of the history we keep the calls
\* of its model steps (asked), the calls that have a tool result (done), both
\* in order, and what each result says (out).
Progress == [asked : Seq(Calls), done : Seq(Calls), pend : Seq(Calls),
             out : [Calls -> Outs], steps : Nat]

NoProgress == [asked |-> <<>>, done |-> <<>>, pend |-> <<>>,
               out |-> [c \in Calls |-> "none"], steps |-> 0]

\* Mutant of Answer: the answered call stays pending.
AnswerKeepsPending(p, o) ==
  [asked |-> p.asked, done |-> Append(p.done, Head(p.pend)), pend |-> p.pend,
   out |-> [p.out EXCEPT ![Head(p.pend)] = o], steps |-> p.steps]

\* items = append(items, toolResult(...)); calls = calls[1:]
Answer(p, o) ==
  [asked |-> p.asked, done |-> Append(p.done, Head(p.pend)), pend |-> Tail(p.pend),
   out |-> [p.out EXCEPT ![Head(p.pend)] = o], steps |-> p.steps]

\* items = append(items, step); calls = step's tool calls; steps++
AddStep(p, cs) ==
  [asked |-> p.asked \o cs, done |-> p.done, pend |-> cs, out |-> p.out, steps |-> p.steps + 1]

Row == [kind : {"agent", "command"}, state : TaskStates,
        owner : Workers \cup {NoWorker}, lapsed : BOOLEAN,
        prog : Progress, result : Outs]

NoRow == [kind |-> "agent", state |-> "none", owner |-> NoWorker,
          lapsed |-> FALSE, prog |-> NoProgress, result |-> "none"]

\* A confirmation row.  `late` is expires_at <= now(); `at` is where the
\* handler that settled or expired it has got to; `ran` is whether its action
\* was sent to the MCP router.
Confirmation == [task : Tasks \cup {NoTask}, call : Calls \cup {NoCall},
                 state : {"none", "pending", "confirmed", "cancelled", "expired"},
                 late : BOOLEAN, at : {"none", "act", "resume"}, ran : BOOLEAN]

NoConfirmation == [task |-> NoTask, call |-> NoCall, state |-> "none",
                   late |-> FALSE, at |-> "none", ran |-> FALSE]

\* A device approval: its row in device_approvals ("drop": deleted by
\* ExpireApprovals and in the hands of the maintenance loop) and what the
\* device knows of it.
Approval == [task : Tasks \cup {NoTask}, call : Calls \cup {NoCall},
             row : {"none", "saved", "drop", "gone"}, late : BOOLEAN,
             dev : {"none", "issued", "running", "ran", "spent"}]

NoApproval == [task |-> NoTask, call |-> NoCall, row |-> "none",
               late |-> FALSE, dev |-> "none"]

-----------------------------------------------------------------------------
(* Statements on tasks.                                                     *)

\* INSERT INTO tasks
CreateTask(t, kind, state) ==
  task' = [task EXCEPT ![t] = [NoRow EXCEPT !.kind = kind, !.state = state]]

\* Mutant of Holds: the lease owner is not compared.
HoldsAnyOwner(w, t) == task[t].state = "running"

\* The WHERE clause of every write of a worker.
Holds(w, t) == task[t].state = "running" /\ task[t].owner = w

\* A runnable task: queued, or running with an expired lease.
Leasable(t) == \/ task[t].state = "queued"
               \/ task[t].state = "running" /\ task[t].lapsed

LeaseTask(w, t) ==
  /\ Leasable(t)
  /\ task' = [task EXCEPT ![t].state = "running", ![t].owner = w, ![t].lapsed = FALSE]

RenewLease(w, t) ==
  /\ Holds(w, t)
  /\ task' = [task EXCEPT ![t].lapsed = FALSE]

\* Writes nothing when the lease is someone else's (the caller ignores that).
SaveProgress(w, t, p) ==
  task' = IF Holds(w, t) THEN [task EXCEPT ![t].prog = p] ELSE task

\* A row that nobody leases any more.
Released(r, state, p) == [kind |-> r.kind, state |-> state, owner |-> NoWorker,
                          lapsed |-> FALSE, prog |-> p, result |-> r.result]

\* The result text of an agent task is not modelled.
SetTaskState(w, t, p, state) ==
  task' = IF Holds(w, t) THEN [task EXCEPT ![t] = Released(@, state, p)] ELSE task

\* completePending: the call the task waits on must be the first pending one.
WaitsOn(t, c) == task[t].prog.pend # <<>> /\ Head(task[t].prog.pend) = c

\* Mutant of ResumeTask: a task that does not wait is resumed too.
ResumeTaskAnyState(t, c, o) ==
  task' = IF task[t].kind = "command"
          THEN [task EXCEPT ![t].state = IF o = "tool" THEN "succeeded" ELSE "failed",
                            ![t].result = o]
          ELSE IF WaitsOn(t, c)
          THEN [task EXCEPT ![t].state = "queued", ![t].prog = Answer(@, o)]
          ELSE task

\* Mutant of ResumeTask: a command task succeeds whatever the result says.
ResumeTaskSucceeds(t, c, o) ==
  task' = IF task[t].state \notin Waiting THEN task
          ELSE IF task[t].kind = "command"
          THEN [task EXCEPT ![t].state = "succeeded", ![t].result = o]
          ELSE IF WaitsOn(t, c)
          THEN [task EXCEPT ![t].state = "queued", ![t].prog = Answer(@, o)]
          ELSE task

\* ResumeTask with the update its callers pass: a command task ends, an agent
\* task gets the result of its pending call and is queued again.  The
\* transaction changes nothing when the task does not wait or waits on
\* another call.
ResumeTask(t, c, o) ==
  task' = IF task[t].state \notin Waiting THEN task
          ELSE IF task[t].kind = "command"
          THEN [task EXCEPT ![t].state = IF o = "tool" THEN "succeeded" ELSE "failed",
                            ![t].result = o]
          ELSE IF WaitsOn(t, c)
          THEN [task EXCEPT ![t].state = "queued", ![t].prog = Answer(@, o)]
          ELSE task

\* Mutant of CancelTask: a state name that nobody else knows.
CancelTaskMisspelt(t) ==
  /\ task[t].state \notin Terminal \cup {"none"}
  /\ task' = [task EXCEPT ![t] = Released(@, "canceled", @.prog)]
  /\ conf' = [k \in ConfIds |-> IF conf[k].task = t /\ conf[k].state = "pending"
                                THEN [conf[k] EXCEPT !.state = "cancelled"] ELSE conf[k]]

\* One transaction: the task and its pending confirmations, whatever the
\* state it was in.  A finished task stays as it is.
CancelTask(t) ==
  /\ task[t].state \notin Terminal \cup {"none"}
  /\ task' = [task EXCEPT ![t] = Released(@, "cancelled", @.prog)]
  /\ conf' = [k \in ConfIds |-> IF conf[k].task = t /\ conf[k].state = "pending"
                                THEN [conf[k] EXCEPT !.state = "cancelled"] ELSE conf[k]]

-----------------------------------------------------------------------------
(* Statements on confirmations and approvals.                               *)

CreateConfirmation(k, t, c) ==
  /\ conf[k].state = "none"
  /\ conf' = [conf EXCEPT ![k] = [task |-> t, call |-> c, state |-> "pending",
                                   late |-> FALSE, at |-> "none", ran |-> FALSE]]

\* Mutant of Settle: a settled question can be settled again.
SettleAgain(k, confirm) ==
  /\ conf[k].state # "none"
  /\ ~conf[k].late
  /\ conf' = [conf EXCEPT ![k].state = IF confirm THEN "confirmed" ELSE "cancelled",
                          ![k].at = IF confirm THEN "act" ELSE "resume"]

\* The rule about turns (asked_turn < turn) is the subject of Consent; any
\* answer that passes it may come here.
Settle(k, confirm) ==
  /\ conf[k].state = "pending"
  /\ ~conf[k].late
  /\ conf' = [conf EXCEPT ![k].state = IF confirm THEN "confirmed" ELSE "cancelled",
                          ![k].at = IF confirm THEN "act" ELSE "resume"]

\* Mutant of ExpireConfirmations: the expiry is compared the wrong way round.
ExpireConfirmationsEarly(k) ==
  /\ conf[k].state = "pending"
  /\ ~conf[k].late
  /\ conf' = [conf EXCEPT ![k].state = "expired", ![k].at = "resume"]

ExpireConfirmations(k) ==
  /\ conf[k].state = "pending"
  /\ conf[k].late
  /\ conf' = [conf EXCEPT ![k].state = "expired", ![k].at = "resume"]

\* The device issued the approval just before (approval.rs, issue).
SaveApproval(a, t, c) ==
  /\ appr[a].row = "none"
  /\ appr' = [appr EXCEPT ![a] = [task |-> t, call |-> c, row |-> "saved",
                                   late |-> FALSE, dev |-> "issued"]]

ExpireApprovals(a) ==
  /\ appr[a].row = "saved"
  /\ appr[a].late
  /\ appr' = [appr EXCEPT ![a].row = "drop"]

DeleteApproval(a) ==
  appr' = [appr EXCEPT ![a].row = IF @ = "saved" THEN "gone" ELSE @]
=============================================================================
