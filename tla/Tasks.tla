------------------------------- MODULE Tasks -------------------------------
(***************************************************************************)
(* Background tasks of the orchestrator: the workers that lease and run     *)
(* them, the questions and device approvals they stop for, and everybody    *)
(* who ends such a wait (services/orchestrator/internal/engine/tasks.go,    *)
(* voice.go, memory.go), with the approvals of the Mac daemon.              *)
(*                                                                          *)
(* One action is one statement on the store together with the local work    *)
(* and the remote call before it; between two statements of a handler       *)
(* everyone else may act, and the handler may be lost for good.  What the   *)
(* handlers report to the conversation and to the phone is not in here.     *)
(***************************************************************************)
EXTENDS TaskStore

CONSTANTS
  Submitters,          \* SubmitDeviceApproval requests that can be in progress
  TaskMaxSteps,        \* ORCH_TASK_MAX_STEPS
  MaxTransientErrors,  \* maxTransientErrors
  MaxCallsPerStep,     \* bound: tool calls in one answer of the model
  MaxStalls,           \* bound: leases that lapse, progress writes that fail
  MaxLosses,           \* bound: handlers lost half way, devices removed
  LossKinds,           \* which of these may happen
  NoApprId

ASSUME BoundsAssumption ==
  /\ TaskMaxSteps \in Nat /\ MaxTransientErrors \in Nat /\ MaxCallsPerStep \in Nat
  /\ MaxStalls \in Nat /\ MaxLosses \in Nat
  /\ LossKinds \subseteq {"worker", "handler", "device"}
ASSUME ApprIdAssumption == NoApprId \notin ApprIds

VARIABLES
  wk,       \* worker -> where runTask is and its local copy of the task
  overdue,  \* task -> the deadline has passed
  voice,    \* task -> the voice call that made a command task must still save its approval
  sub,      \* submitter -> where SubmitApproval is
  device,   \* the user's computer is registered
  used,     \* call ids the model has given out
  stalls, losses

vars == <<task, conf, appr, wk, overdue, voice, sub, device, used, stalls, losses>>

\* runTask: "loop" is the top of its loop; "askC" and "askA" are in pauseTask,
\* after the task was set waiting.
Worker == [pc : {"idle", "loop", "askC", "askA"}, task : Tasks \cup {NoTask},
           prog : Progress, transient : Nat]

Idle == [pc |-> "idle", task |-> NoTask, prog |-> NoProgress, transient |-> 0]

\* SubmitApproval: "exec" the approval is loaded, "wait" the device runs the
\* command, "delete"/"resume" it ran, "drop"/"dropped" it is told not to have run.
Submitter == [pc : {"idle", "exec", "wait", "delete", "resume", "drop", "dropped"},
              appr : ApprIds \cup {NoApprId}]

Quiet == [pc |-> "idle", appr |-> NoApprId]

\* Every row, worker and request is in a state the code knows, and counters
\* are natural numbers.
TypeOK ==
  /\ task \in [Tasks -> Row]
  /\ conf \in [ConfIds -> Confirmation]
  /\ appr \in [ApprIds -> Approval]
  /\ wk \in [Workers -> Worker]
  /\ overdue \in [Tasks -> BOOLEAN]
  /\ voice \in [Tasks -> BOOLEAN]
  /\ sub \in [Submitters -> Submitter]
  /\ device \in BOOLEAN
  /\ used \in SUBSET Calls
  /\ stalls \in Nat /\ losses \in Nat

Init ==
  /\ task = [t \in Tasks |-> NoRow]
  /\ conf = [k \in ConfIds |-> NoConfirmation]
  /\ appr = [a \in ApprIds |-> NoApproval]
  /\ wk = [w \in Workers |-> Idle]
  /\ overdue = [t \in Tasks |-> FALSE]
  /\ voice = [t \in Tasks |-> FALSE]
  /\ sub = [s \in Submitters |-> Quiet]
  /\ device = TRUE
  /\ used = {}
  /\ stalls = 0 /\ losses = 0

-----------------------------------------------------------------------------
(* Requests that make and end tasks.                                        *)

\* start_task: an agent task is queued.
startTask(t) ==
  /\ task[t].state = "none"
  /\ CreateTask(t, "agent", "queued")
  /\ UNCHANGED <<conf, appr, wk, overdue, voice, sub, device, used, stalls, losses>>

\* A voice call of run_on_computer that needs a signature becomes a command
\* task that waits; its approval is saved by a second statement.
awaitApproval(t) ==
  /\ task[t].state = "none"
  /\ device
  /\ CreateTask(t, "command", "awaiting_approval")
  /\ voice' = [voice EXCEPT ![t] = TRUE]
  /\ UNCHANGED <<conf, appr, wk, overdue, sub, device, used, stalls, losses>>

\* The second statement; it fails on the foreign key of a removed device.
awaitApprovalSave(t) ==
  /\ voice[t]
  /\ voice' = [voice EXCEPT ![t] = FALSE]
  /\ IF device THEN \E a \in ApprIds : SaveApproval(a, t, NoCall) ELSE UNCHANGED appr
  /\ UNCHANGED <<task, conf, wk, overdue, sub, device, used, stalls, losses>>

Cancel(t) ==
  /\ CancelTask(t)
  /\ UNCHANGED <<appr, wk, overdue, voice, sub, device, used, stalls, losses>>

-----------------------------------------------------------------------------
(* Workers.                                                                 *)

Looping(w, t) == wk[w].pc = "loop" /\ wk[w].task = t

taskWorker(w, t) ==
  /\ wk[w].pc = "idle"
  /\ LeaseTask(w, t)
  /\ wk' = [wk EXCEPT ![w] = [pc |-> "loop", task |-> t, prog |-> task[t].prog,
                              transient |-> 0]]
  /\ UNCHANGED <<conf, appr, overdue, voice, sub, device, used, stalls, losses>>

\* The renewing goroutine while the task is still ours.
Renew(w, t) ==
  /\ Looping(w, t)
  /\ task[t].lapsed
  /\ RenewLease(w, t)
  /\ UNCHANGED <<conf, appr, wk, overdue, voice, sub, device, used, stalls, losses>>

\* It finds that the task was cancelled or taken over, and stops the loop.
LoseLease(w, t) ==
  /\ Looping(w, t)
  /\ ~Holds(w, t)
  /\ wk' = [wk EXCEPT ![w] = Idle]
  /\ UNCHANGED <<task, conf, appr, overdue, voice, sub, device, used, stalls, losses>>

\* The worker goes on with its local copy whether or not the row was written.
save(w, t, p) ==
  /\ wk' = [wk EXCEPT ![w].prog = p, ![w].transient = 0]
  /\ \/ SaveProgress(w, t, p) /\ UNCHANGED stalls
     \/ stalls < MaxStalls /\ stalls' = stalls + 1 /\ UNCHANGED task

finish(w, t, p, state) ==
  /\ SetTaskState(w, t, p, state)
  /\ wk' = [wk EXCEPT ![w] = Idle]
  /\ UNCHANGED stalls

\* A call the worker can run now: its output is the call's result.  A command
\* the device does not allow on its own needs an approval instead.
runCall(w, t) ==
  LET p == wk[w].prog IN
  /\ Looping(w, t) /\ ~overdue[t]
  /\ p.pend # <<>>
  /\ Head(p.pend) \in ReadCalls \cup DeviceCalls
  /\ save(w, t, Answer(p, "tool"))
  /\ UNCHANGED <<conf, appr, overdue, voice, sub, device, used, losses>>

\* The first half of pauseTask: the task waits, and is nobody's.
pauseTask(w, t) ==
  LET p == wk[w].prog IN
  /\ Looping(w, t) /\ ~overdue[t]
  /\ p.pend # <<>>
  /\ \/ /\ Head(p.pend) \in ActionCalls
        /\ SetTaskState(w, t, p, "awaiting_confirmation")
        /\ wk' = [wk EXCEPT ![w] = IF Holds(w, t) THEN [@ EXCEPT !.pc = "askC"] ELSE Idle]
     \/ /\ Head(p.pend) \in DeviceCalls /\ device
        /\ SetTaskState(w, t, p, "awaiting_approval")
        /\ wk' = [wk EXCEPT ![w] = IF Holds(w, t) THEN [@ EXCEPT !.pc = "askA"] ELSE Idle]
  /\ UNCHANGED <<conf, appr, overdue, voice, sub, device, used, stalls, losses>>

\* The second half: the question is stored.
pauseTaskAsk(w, t) ==
  /\ wk[w].pc = "askC" /\ wk[w].task = t
  /\ \E k \in ConfIds : CreateConfirmation(k, t, Head(wk[w].prog.pend))
  /\ wk' = [wk EXCEPT ![w] = Idle]
  /\ UNCHANGED <<task, appr, overdue, voice, sub, device, used, stalls, losses>>

\* ... or the approval the device asked for, unless the device is gone.
pauseTaskApproval(w, t) ==
  /\ wk[w].pc = "askA" /\ wk[w].task = t
  /\ IF device THEN \E a \in ApprIds : SaveApproval(a, t, Head(wk[w].prog.pend))
               ELSE UNCHANGED appr
  /\ wk' = [wk EXCEPT ![w] = Idle]
  /\ UNCHANGED <<task, conf, overdue, voice, sub, device, used, stalls, losses>>

\* The tool calls of one answer of the model: call ids never seen before.
FreshCalls == {cs \in UNION {[1..n -> Calls \ used] : n \in 0..MaxCallsPerStep} :
                 \A i, j \in DOMAIN cs : i # j => cs[i] # cs[j]}

\* The model answers: with tool calls, or with text, which ends the task.
decide(w, t) ==
  LET p == wk[w].prog IN
  /\ Looping(w, t) /\ ~overdue[t]
  /\ p.pend = <<>>
  /\ p.steps < TaskMaxSteps
  /\ \E cs \in FreshCalls :
       /\ used' = used \cup {cs[i] : i \in DOMAIN cs}
       /\ IF cs = <<>> THEN finish(w, t, AddStep(p, cs), "succeeded")
                       ELSE save(w, t, AddStep(p, cs))
  /\ UNCHANGED <<conf, appr, overdue, voice, sub, device, losses>>

\* A transient failure of the provider or the sidecar, not the last one allowed.
decideAgain(w, t) ==
  /\ Looping(w, t) /\ ~overdue[t]
  /\ wk[w].prog.pend = <<>>
  /\ wk[w].prog.steps < TaskMaxSteps
  /\ wk[w].transient + 1 < MaxTransientErrors
  /\ wk' = [wk EXCEPT ![w].transient = @ + 1]
  /\ UNCHANGED <<task, conf, appr, overdue, voice, sub, device, used, stalls, losses>>

\* The task fails: too late, too many steps, or the model cannot be asked.
giveUp(w, t) ==
  LET p == wk[w].prog IN
  /\ Looping(w, t)
  /\ \/ overdue[t]
     \/ p.pend = <<>> \* TaskMaxSteps reached, a permanent error or one transient error too many
  /\ finish(w, t, p, "failed")
  /\ UNCHANGED <<conf, appr, overdue, voice, sub, device, used, losses>>

-----------------------------------------------------------------------------
(* Questions: the voice call that answers one, and maintenance.             *)

settle(k) ==
  /\ \E confirm \in BOOLEAN : Settle(k, confirm)
  /\ UNCHANGED <<task, appr, wk, overdue, voice, sub, device, used, stalls, losses>>

runAction(k) ==
  /\ conf[k].at = "act"
  /\ conf' = [conf EXCEPT ![k].at = "resume", ![k].ran = TRUE]
  /\ UNCHANGED <<task, appr, wk, overdue, voice, sub, device, used, stalls, losses>>

maintenanceConfirmation(k) ==
  /\ ExpireConfirmations(k)
  /\ UNCHANGED <<task, appr, wk, overdue, voice, sub, device, used, stalls, losses>>

\* The last statement of settle, and of maintenance for an expired question.
resumeAnswered(k) ==
  /\ conf[k].at = "resume"
  /\ conf' = [conf EXCEPT ![k].at = "none"]
  /\ ResumeTask(conf[k].task, conf[k].call,
                IF conf[k].state = "confirmed" THEN "tool" ELSE "notdone")
  /\ UNCHANGED <<appr, wk, overdue, voice, sub, device, used, stalls, losses>>

-----------------------------------------------------------------------------
(* Approvals: SubmitApproval with the daemon, and maintenance.              *)

SubmitApproval(s, a) ==
  /\ sub[s].pc = "idle"
  /\ appr[a].row = "saved" /\ ~appr[a].late
  /\ sub' = [sub EXCEPT ![s] = [pc |-> "exec", appr |-> a]]
  /\ UNCHANGED <<task, conf, appr, wk, overdue, voice, device, used, stalls, losses>>

\* redeem: the approval is consumed, whether the signature is good or not.  An
\* approval the device does not know is refused.
execDevice(s, a) ==
  /\ sub[s].pc = "exec" /\ sub[s].appr = a
  /\ \/ /\ appr[a].dev = "issued"
        /\ appr' = [appr EXCEPT ![a].dev = "running"]
        /\ sub' = [sub EXCEPT ![s].pc = "wait"]
     \/ /\ appr' = [appr EXCEPT ![a].dev = IF @ = "issued" THEN "spent" ELSE @]
        /\ sub' = [sub EXCEPT ![s].pc = "drop"]
     \/ \* busy or unreachable: a slot is taken before the approval is consumed
        /\ sub' = [sub EXCEPT ![s] = Quiet]
        /\ UNCHANGED appr
     \/ \* the sandbox cannot be set up: consumed, but reported as an internal error
        /\ appr[a].dev = "issued"
        /\ appr' = [appr EXCEPT ![a].dev = "spent"]
        /\ sub' = [sub EXCEPT ![s] = Quiet]
  /\ UNCHANGED <<task, conf, wk, overdue, voice, device, used, stalls, losses>>

\* Something is lost that the code does not notice.
Lose(kind) == kind \in LossKinds /\ losses < MaxLosses /\ losses' = losses + 1

\* The command ends; its result may come too late for the request.
commandEnds(s, a) ==
  /\ sub[s].pc = "wait" /\ sub[s].appr = a
  /\ appr' = [appr EXCEPT ![a].dev = "ran"]
  /\ \/ sub' = [sub EXCEPT ![s].pc = "delete"] /\ UNCHANGED losses
     \/ Lose("handler") /\ sub' = [sub EXCEPT ![s] = Quiet]
  /\ UNCHANGED <<task, conf, wk, overdue, voice, device, used, stalls>>

\* The first statement of dropApproval, and of the end of SubmitApproval.
deleteSubmitted(s, a) ==
  /\ sub[s].pc \in {"delete", "drop"} /\ sub[s].appr = a
  /\ DeleteApproval(a)
  /\ sub' = [sub EXCEPT ![s].pc = IF @ = "delete" THEN "resume" ELSE "dropped"]
  /\ UNCHANGED <<task, conf, wk, overdue, voice, device, used, stalls, losses>>

resumeSubmitted(s, a) ==
  /\ sub[s].pc \in {"resume", "dropped"} /\ sub[s].appr = a
  /\ ResumeTask(appr[a].task, appr[a].call,
                IF sub[s].pc = "resume" THEN "tool" ELSE "notdone")
  /\ sub' = [sub EXCEPT ![s] = Quiet]
  /\ UNCHANGED <<conf, appr, wk, overdue, voice, device, used, stalls, losses>>

expireApprovals(a) ==
  /\ ExpireApprovals(a)
  /\ UNCHANGED <<task, conf, wk, overdue, voice, sub, device, used, stalls, losses>>

\* Mutant of dropApproval: the waiting task is not told.
dropApprovalSilently(a) ==
  /\ appr[a].row = "drop"
  /\ appr' = [appr EXCEPT ![a].row = "gone"]
  /\ UNCHANGED <<task, conf, wk, overdue, voice, sub, device, used, stalls, losses>>

dropApproval(a) ==
  /\ appr[a].row = "drop"
  /\ appr' = [appr EXCEPT ![a].row = "gone"]
  /\ ResumeTask(appr[a].task, appr[a].call, "notdone")
  /\ UNCHANGED <<conf, wk, overdue, voice, sub, device, used, stalls, losses>>

-----------------------------------------------------------------------------
(* Time, and what goes wrong.                                               *)

\* The deadline passes (it does not matter any more once the task has ended).
Overdue(t) ==
  /\ ~overdue[t] /\ task[t].state \notin Terminal
  /\ overdue' = [overdue EXCEPT ![t] = TRUE]
  /\ UNCHANGED <<task, conf, appr, wk, voice, sub, device, used, stalls, losses>>

ConfirmationLate(k) ==
  /\ conf[k].state = "pending" /\ ~conf[k].late
  /\ conf' = [conf EXCEPT ![k].late = TRUE]
  /\ UNCHANGED <<task, appr, wk, overdue, voice, sub, device, used, stalls, losses>>

ApprovalLate(a) ==
  /\ appr[a].row = "saved" /\ ~appr[a].late
  /\ appr' = [appr EXCEPT ![a].late = TRUE]
  /\ UNCHANGED <<task, conf, wk, overdue, voice, sub, device, used, stalls, losses>>

\* The daemon restarts (approvals are in memory only) or its own clock says
\* that the approval has expired.
DaemonForgets(a) ==
  /\ appr[a].dev = "issued"
  /\ appr' = [appr EXCEPT ![a].dev = "spent"]
  /\ UNCHANGED <<task, conf, wk, overdue, voice, sub, device, used, stalls, losses>>

\* A worker stalls, or cannot renew, for as long as a lease lasts.
LeaseLapses(t) ==
  /\ stalls < MaxStalls /\ stalls' = stalls + 1
  /\ task[t].state = "running" /\ ~task[t].lapsed
  /\ task' = [task EXCEPT ![t].lapsed = TRUE]
  /\ UNCHANGED <<conf, appr, wk, overdue, voice, sub, device, used, losses>>

\* The instance stops, or a statement fails, and the worker's goroutine ends
\* where it is.  Its owner name is never used again; an idle worker stands for
\* the one that starts instead.
WorkerLost(w) ==
  /\ Lose("worker")
  /\ wk[w].pc # "idle"
  /\ wk' = [wk EXCEPT ![w] = Idle]
  /\ UNCHANGED <<task, conf, appr, overdue, voice, sub, device, used, stalls>>

\* The same for the other handlers; the context of a voice call and of
\* SubmitApproval also ends when the client hangs up.
HandlerLost ==
  /\ Lose("handler")
  /\ \/ \E k \in ConfIds : /\ conf[k].at # "none"
                           /\ conf' = [conf EXCEPT ![k].at = "none"]
                           /\ UNCHANGED <<appr, sub, voice>>
     \/ \E a \in ApprIds : /\ appr[a].row = "drop"
                           /\ appr' = [appr EXCEPT ![a].row = "gone"]
                           /\ UNCHANGED <<conf, sub, voice>>
     \/ \E s \in Submitters : /\ sub[s].pc \notin {"idle", "wait"}
                              /\ sub' = [sub EXCEPT ![s] = Quiet]
                              /\ UNCHANGED <<conf, appr, voice>>
     \/ \E t \in Tasks : /\ voice[t]
                         /\ voice' = [voice EXCEPT ![t] = FALSE]
                         /\ UNCHANGED <<conf, appr, sub>>
  /\ UNCHANGED <<task, wk, overdue, device, used, stalls>>

\* RemoveDevice: the rows of device_approvals go with the device (ON DELETE CASCADE).
RemoveDevice ==
  /\ Lose("device")
  /\ device
  /\ device' = FALSE
  /\ appr' = [a \in ApprIds |-> IF appr[a].row = "saved"
                                THEN [appr[a] EXCEPT !.row = "gone"] ELSE appr[a]]
  /\ UNCHANGED <<task, conf, wk, overdue, voice, sub, used, stalls>>

-----------------------------------------------------------------------------
WorkerStep(w, t) ==
  \/ LoseLease(w, t) \/ runCall(w, t) \/ pauseTask(w, t) \/ pauseTaskAsk(w, t)
  \/ pauseTaskApproval(w, t) \/ decide(w, t) \/ giveUp(w, t)

SubmitStep(s, a) ==
  execDevice(s, a) \/ commandEnds(s, a) \/ deleteSubmitted(s, a) \/ resumeSubmitted(s, a)

Next ==
  \/ \E t \in Tasks : \/ startTask(t) \/ awaitApproval(t) \/ awaitApprovalSave(t) \/ Cancel(t)
                      \/ Overdue(t) \/ LeaseLapses(t)
  \/ \E w \in Workers, t \in Tasks :
       taskWorker(w, t) \/ Renew(w, t) \/ decideAgain(w, t) \/ WorkerStep(w, t)
  \/ \E k \in ConfIds : \/ settle(k) \/ runAction(k) \/ maintenanceConfirmation(k)
                        \/ resumeAnswered(k) \/ ConfirmationLate(k)
  \/ \E s \in Submitters, a \in ApprIds : SubmitApproval(s, a) \/ SubmitStep(s, a)
  \/ \E a \in ApprIds : \/ expireApprovals(a) \/ dropApproval(a)
                        \/ ApprovalLate(a) \/ DaemonForgets(a)
  \/ \E w \in Workers : WorkerLost(w)
  \/ HandlerLost
  \/ RemoveDevice

Spec == Init /\ [][Next]_vars

\* The goroutines of the engine keep running, the maintenance ticker fires,
\* clocks advance, and a device answers or the request times out.  Nobody owes
\* an answer to a question, a signature, or a cancellation.
Fairness ==
  /\ \A w \in Workers, t \in Tasks : WF_vars(taskWorker(w, t)) /\ WF_vars(WorkerStep(w, t))
  /\ \A t \in Tasks : WF_vars(awaitApprovalSave(t)) /\ WF_vars(Overdue(t))
  /\ \A k \in ConfIds : /\ WF_vars(runAction(k)) /\ WF_vars(resumeAnswered(k))
                        /\ WF_vars(ConfirmationLate(k)) /\ WF_vars(maintenanceConfirmation(k))
  /\ \A s \in Submitters, a \in ApprIds : WF_vars(SubmitStep(s, a))
  /\ \A a \in ApprIds : /\ WF_vars(ApprovalLate(a)) /\ WF_vars(expireApprovals(a))
                        /\ WF_vars(dropApproval(a))

FairSpec == Spec /\ Fairness

-----------------------------------------------------------------------------
(* What makes background tasks correct.                                     *)

\* Results and pending calls, in order, are the calls of the model steps; no
\* call occurs twice; a result is recorded for exactly the answered calls.
Paired(p) ==
  /\ p.asked = p.done \o p.pend
  /\ \A i, j \in 1..Len(p.asked) : p.asked[i] = p.asked[j] => i = j
  /\ \A c \in Calls : p.out[c] # "none" <=> \E i \in 1..Len(p.done) : p.done[i] = c

\* Every call the model made is answered once, in order, in every stored row,
\* whoever wrote it last: SaveProgress, SetTaskState and completePending write
\* columns computed from copies that may be stale, and a call that is lost or
\* answered twice makes the provider refuse the whole history.
HistoryPaired == \A t \in Tasks : Paired(task[t].prog)

\* The inductive strengthening: the copies in the workers' hands are paired too,
\* and every call in a row or a copy was given out by the model, so that the
\* calls of the next step are new to all of them.
Good(p, u) == Paired(p) /\ \A i \in 1..Len(p.asked) : p.asked[i] \in u

HistoryInv ==
  /\ \A t \in Tasks : Good(task[t].prog, used)
  /\ \A w \in Workers : Good(wk[w].prog, used)
  /\ \A w \in Workers : wk[w].pc \in {"askC", "askA"} => wk[w].prog.pend # <<>>

\* A user is asked at most once about one call of a task, although a worker
\* that lost its lease may run the same call as the worker that took over.
AskedOnce ==
  /\ \A j, k \in ConfIds : conf[j].state # "none" /\ conf[k].state # "none"
       /\ conf[j].task = conf[k].task /\ conf[j].call = conf[k].call => j = k
  /\ \A a, b \in ApprIds : appr[a].row # "none" /\ appr[b].row # "none"
       /\ appr[a].task = appr[b].task /\ appr[a].call = appr[b].call => a = b

\* What a task's history says about an action that needed consent is true: a
\* result of the tool means that the confirmed action ran, and "not done"
\* means that no confirmation of that call ran it or will.
ActionResultTrue ==
  \A t \in Tasks, c \in ActionCalls : LET out == task[t].prog.out[c]
                                          asks == {k \in ConfIds : conf[k].task = t /\ conf[k].call = c} IN
    /\ out = "tool" => \E k \in asks : conf[k].ran
    /\ out = "notdone" => \A k \in asks : ~conf[k].ran /\ conf[k].state \notin {"pending", "confirmed"}

\* A command task only succeeds with the result of a command that the device
\* ran for one of its approvals, and is never a worker's to run.
CommandResultTrue ==
  \A t \in Tasks : task[t].kind = "command" =>
    /\ task[t].state \notin {"queued", "running"}
    /\ task[t].state = "succeeded" => \E a \in ApprIds : appr[a].task = t /\ appr[a].dev = "ran"

\* Somebody will end the wait of a waiting task: its question or approval is
\* still open, or a handler is between two statements about it.
HasWaker(t) ==
  /\ task[t].state = "awaiting_confirmation" =>
       \/ \E w \in Workers : wk[w].pc = "askC" /\ wk[w].task = t
       \/ \E k \in ConfIds : /\ conf[k].task = t /\ WaitsOn(t, conf[k].call)
                             /\ conf[k].state = "pending" \/ conf[k].at # "none"
  /\ task[t].state = "awaiting_approval" =>
       \/ voice[t]
       \/ \E w \in Workers : wk[w].pc = "askA" /\ wk[w].task = t
       \/ \E a \in ApprIds : /\ appr[a].task = t
                             /\ task[t].kind = "agent" => WaitsOn(t, appr[a].call)
                             /\ \/ appr[a].row \in {"saved", "drop"}
                                \/ \E s \in Submitters : /\ sub[s].appr = a
                                                         /\ sub[s].pc \in {"resume", "dropped"}

\* As long as no handler is lost between two of its statements and no device
\* is removed, no task waits in vain, whatever the leases, cancellations,
\* concurrent submissions and expiries do.
WaitEnds == losses = 0 => \A t \in Tasks : HasWaker(t)

\* A finished task stays as it is: a stale worker, a late answer or a late
\* approval never reopens it or changes its history (SetTaskState and
\* ResumeTask both check the state they find).
TerminalFinal ==
  [][\A t \in Tasks : task[t].state \in Terminal => task'[t] = task[t]]_vars

\* A row's history is only ever extended, and a recorded result is never
\* replaced: no write of a worker that stalled and was overtaken gets through.
HistoryGrows ==
  [][\A t \in Tasks : LET old == task[t].prog  new == task'[t].prog IN
       /\ Len(old.done) <= Len(new.done)
       /\ SubSeq(new.done, 1, Len(old.done)) = old.done
       /\ old.steps <= new.steps
       /\ \A c \in Calls : old.out[c] # "none" => new.out[c] = old.out[c]]_vars

\* Every task ends, with nobody ever answering a question or signing an
\* approval, unless a handler is lost half way or a device removed.
TasksEnd ==
  \A t \in Tasks : (task[t].state # "none") ~> (task[t].state \in Terminal \/ losses > 0)
=============================================================================
