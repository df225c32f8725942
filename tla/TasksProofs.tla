---------------------------- MODULE TasksProofs ----------------------------
(* Proofs about Tasks, for any number of tasks, workers, calls and faults.  *)
EXTENDS Tasks, SequenceTheorems, TLAPS

\* Moving the head of one sequence to the end of another keeps their concatenation.
LEMMA MoveHead ==
  ASSUME NEW S, NEW d \in Seq(S), NEW e \in Seq(S), e # <<>>
  PROVE  Append(d, Head(e)) \o Tail(e) = d \o e
<1>1. /\ Head(e) \in S /\ Tail(e) \in Seq(S) /\ Len(Tail(e)) = Len(e) - 1
      /\ Len(e) \in Nat \ {0} /\ Len(d) \in Nat /\ Head(e) = e[1]
      /\ \A i \in 1..Len(Tail(e)) : Tail(e)[i] = e[i + 1]
  BY HeadTailProperties, EmptySeq, LenProperties
<1>2. /\ Append(d, Head(e)) \in Seq(S) /\ Len(Append(d, Head(e))) = Len(d) + 1
      /\ \A i \in 1..Len(d) : Append(d, Head(e))[i] = d[i]
      /\ Append(d, Head(e))[Len(d) + 1] = Head(e)
  BY <1>1, AppendProperties
<1> DEFINE x == Append(d, Head(e)) \o Tail(e)
           y == d \o e
<1>3. /\ x \in Seq(S) /\ Len(x) = Len(d) + Len(e)
      /\ \A i \in 1..(Len(d) + Len(e)) : x[i] = IF i <= Len(d) + 1 THEN Append(d, Head(e))[i]
                                               ELSE Tail(e)[i - (Len(d) + 1)]
  BY <1>1, <1>2, ConcatProperties
<1>4. /\ y \in Seq(S) /\ Len(y) = Len(d) + Len(e)
      /\ \A i \in 1..(Len(d) + Len(e)) : y[i] = IF i <= Len(d) THEN d[i] ELSE e[i - Len(d)]
  BY <1>1, ConcatProperties
<1>5. ASSUME NEW i \in 1..(Len(d) + Len(e)) PROVE x[i] = y[i]
  <2>1. CASE i <= Len(d)
    BY <2>1, <1>1, <1>2, <1>3, <1>4
  <2>2. CASE i = Len(d) + 1
    BY <2>2, <1>1, <1>2, <1>3, <1>4
  <2>3. CASE i > Len(d) + 1
    <3>1. /\ i - (Len(d) + 1) \in 1..Len(Tail(e)) /\ i - (Len(d) + 1) + 1 = i - Len(d)
          /\ ~(i <= Len(d) + 1) /\ ~(i <= Len(d))
      BY <2>3, <1>1
    <3> QED BY <3>1, <1>1, <1>3, <1>4
  <2> QED BY <1>1, <2>1, <2>2, <2>3
<1> QED BY <1>3, <1>4, <1>5, SeqEqual

\* Answering the first pending call keeps a history paired.
LEMMA AnswerPaired ==
  ASSUME NEW p \in Progress, Paired(p), p.pend # <<>>, NEW o \in {"tool", "notdone"}
  PROVE  /\ Answer(p, o) \in Progress
         /\ Paired(Answer(p, o))
         /\ Answer(p, o).asked = p.asked
<1> DEFINE q == Answer(p, o)
<1>0. /\ p.asked \in Seq(Calls) /\ p.done \in Seq(Calls) /\ p.pend \in Seq(Calls)
      /\ p.out \in [Calls -> Outs]
  BY DEF Progress
<1>1. Head(p.pend) \in Calls /\ Tail(p.pend) \in Seq(Calls)
  BY <1>0, HeadTailProperties
<1>2. /\ q.asked = p.asked /\ q.done = Append(p.done, Head(p.pend)) /\ q.pend = Tail(p.pend)
      /\ q.out = [p.out EXCEPT ![Head(p.pend)] = o] /\ q.steps = p.steps
  BY DEF Answer, Progress
<1>3. q \in Progress
  <2>1. q.done \in Seq(Calls)
    BY <1>0, <1>1, <1>2, AppendProperties
  <2>2. q.out \in [Calls -> Outs]
    BY <1>0, <1>1, <1>2 DEF Outs
  <2>3. q.steps \in Nat
    BY <1>2 DEF Progress
  <2> QED BY <1>0, <1>1, <1>2, <2>1, <2>2, <2>3 DEF Progress, Answer
<1>4. q.done \o q.pend = p.done \o p.pend
  <2>1. Append(p.done, Head(p.pend)) \o Tail(p.pend) = p.done \o p.pend
    BY <1>0, MoveHead
  <2> QED BY <1>2, <2>1
<1>5. ASSUME NEW c \in Calls
      PROVE  q.out[c] # "none" <=> \E i \in 1..Len(q.done) : q.done[i] = c
  <2>1. CASE c = Head(p.pend)
    <3>1. q.out[c] # "none"
      BY <1>0, <1>1, <1>2, <2>1
    <3>2. Len(q.done) \in 1..Len(q.done) /\ q.done[Len(q.done)] = c
      BY <1>0, <1>1, <1>2, <2>1
    <3> QED BY <3>1, <3>2
  <2>2. CASE c # Head(p.pend)
    <3>1. q.out[c] = p.out[c]
      BY <1>0, <1>1, <1>2, <2>2
    <3>2. (\E i \in 1..Len(q.done) : q.done[i] = c) <=> (\E i \in 1..Len(p.done) : p.done[i] = c)
      BY <1>0, <1>1, <1>2, <2>2
    <3> QED BY <3>1, <3>2 DEF Paired
  <2> QED BY <2>1, <2>2
<1> QED BY <1>2, <1>3, <1>4, <1>5 DEF Paired

\* A model step with calls that are new keeps it paired.
LEMMA AddStepPaired ==
  ASSUME NEW p \in Progress, Paired(p), p.pend = <<>>, NEW cs \in FreshCalls,
         used \in SUBSET Calls,
         \A i \in 1..Len(p.asked) : p.asked[i] \in used
  PROVE  /\ AddStep(p, cs) \in Progress
         /\ Paired(AddStep(p, cs))
         /\ LET q == AddStep(p, cs) IN
              \A i \in 1..Len(q.asked) : q.asked[i] \in used \cup {cs[j] : j \in DOMAIN cs}
<1> DEFINE q == AddStep(p, cs)
<1>0. /\ p.asked \in Seq(Calls) /\ p.done \in Seq(Calls) /\ p.pend \in Seq(Calls)
      /\ p.out \in [Calls -> Outs] /\ p.steps \in Nat
  BY DEF Progress
<1>1. PICK n \in 0..MaxCallsPerStep : cs \in [1..n -> Calls \ used]
  BY DEF FreshCalls
<1>2. /\ cs \in Seq(Calls) /\ Len(cs) = n /\ DOMAIN cs = 1..n
      /\ \A i \in 1..n : cs[i] \in Calls /\ cs[i] \notin used
  <2>1. n \in Nat
    BY BoundsAssumption
  <2>2. cs \in [1..n -> Calls]
    BY <1>1
  <2>3. cs \in Seq(Calls)
    BY <2>1, <2>2, SeqDef
  <2> QED BY <1>1, <2>1, <2>3, LenProperties
<1>3. \A i, j \in 1..n : cs[i] = cs[j] => i = j
  BY <1>2 DEF FreshCalls
<1>4. /\ q.asked = p.asked \o cs /\ q.done = p.done /\ q.pend = cs
      /\ q.out = p.out /\ q.steps = p.steps + 1
  BY DEF AddStep, Progress
<1>5. q \in Progress
  <2>1. q.asked \in Seq(Calls)
    BY <1>0, <1>2, <1>4, ConcatProperties
  <2>2. q.steps \in Nat
    BY <1>0, <1>4
  <2> QED BY <1>0, <1>2, <1>4, <2>1, <2>2 DEF Progress, AddStep
<1>6. p.asked = p.done
  BY <1>0, ConcatEmptySeq DEF Paired
<1>7. /\ Len(q.asked) = Len(p.asked) + n
      /\ \A i \in 1..Len(q.asked) :
           q.asked[i] = IF i <= Len(p.asked) THEN p.asked[i] ELSE cs[i - Len(p.asked)]
      /\ Len(p.asked) \in Nat
  <2>1. Len(p.asked) \in Nat
    BY <1>0, LenProperties
  <2>2. /\ Len(p.asked \o cs) = Len(p.asked) + Len(cs)
        /\ \A i \in 1..(Len(p.asked) + Len(cs)) :
             (p.asked \o cs)[i] = IF i <= Len(p.asked) THEN p.asked[i] ELSE cs[i - Len(p.asked)]
    <3>1. p.asked \in Seq(Calls) /\ cs \in Seq(Calls)
      BY <1>0, <1>2
    <3> QED BY ONLY <3>1, ConcatProperties, Zenon
  <2> QED BY <1>2, <1>4, <2>1, <2>2
<1>8. \A i, j \in 1..Len(q.asked) : q.asked[i] = q.asked[j] => i = j
  <2> SUFFICES ASSUME NEW i \in 1..Len(q.asked), NEW j \in 1..Len(q.asked), q.asked[i] = q.asked[j]
               PROVE  i = j
    OBVIOUS
  <2> DEFINE m == Len(p.asked)
  <2>1. n \in Nat /\ m \in Nat /\ i \in 1..(m + n) /\ j \in 1..(m + n)
    BY <1>7, BoundsAssumption
  <2>2. CASE i <= m /\ j <= m
    <3>1. i \in 1..m /\ j \in 1..m /\ p.asked[i] = p.asked[j]
      BY <2>1, <2>2, <1>7
    <3> QED BY <3>1 DEF Paired
  <2>3. CASE i > m /\ j > m
    <3>1. i - m \in 1..n /\ j - m \in 1..n /\ ~(i <= m) /\ ~(j <= m)
      BY <2>1, <2>3
    <3>2. cs[i - m] = cs[j - m]
      BY <3>1, <1>7
    <3>3. i - m = j - m
      BY <3>1, <3>2, <1>3
    <3> QED BY <2>1, <3>3
  <2>4. CASE i <= m /\ j > m
    <3>1. j - m \in 1..n /\ ~(j <= m) /\ i \in 1..m
      BY <2>1, <2>4
    <3> QED BY <3>1, <2>4, <1>2, <1>7
  <2>5. CASE i > m /\ j <= m
    <3>1. i - m \in 1..n /\ ~(i <= m) /\ j \in 1..m
      BY <2>1, <2>5
    <3> QED BY <3>1, <2>5, <1>2, <1>7
  <2> QED BY <2>1, <2>2, <2>3, <2>4, <2>5
<1>9. ASSUME NEW i \in 1..Len(q.asked) PROVE q.asked[i] \in used \cup {cs[j] : j \in DOMAIN cs}
  <2>1. CASE i <= Len(p.asked)
    <3>1. i \in 1..Len(p.asked)
      BY <2>1, <1>7
    <3>2. q.asked[i] = p.asked[i]
      BY <2>1, <1>7
    <3> QED BY <3>1, <3>2
  <2>2. CASE ~(i <= Len(p.asked))
    <3>1. i - Len(p.asked) \in DOMAIN cs
      BY <2>2, <1>2, <1>7, BoundsAssumption
    <3> QED BY <2>2, <3>1, <1>7
  <2> QED BY <2>1, <2>2
<1>10. Paired(q)
  BY <1>4, <1>6, <1>8 DEF Paired
<1> QED BY <1>5, <1>9, <1>10

\* The columns of a new task: an empty history, which is paired.
LEMMA NoProgressGood ==
  ASSUME NEW u
  PROVE  NoProgress \in Progress /\ Good(NoProgress, u)
<1>1. /\ NoProgress.asked = <<>> /\ NoProgress.done = <<>> /\ NoProgress.pend = <<>>
      /\ \A c \in Calls : NoProgress.out[c] = "none"
  BY DEF NoProgress
<1>2. NoProgress \in Progress
  BY EmptySeq DEF NoProgress, Progress, Outs
<1>3. <<>> \o <<>> = <<>> /\ Len(<<>>) = 0
  BY ConcatEmptySeq, EmptySeq
<1> QED BY <1>1, <1>2, <1>3 DEF Good, Paired

\* The rows that are not inserted yet, and idle handlers, have their types.
LEMMA RowTypes ==
  /\ NoRow \in Row
  /\ Idle \in Worker
  /\ Quiet \in Submitter
  /\ NoConfirmation \in Confirmation
  /\ NoApproval \in Approval
BY NoProgressGood DEF NoRow, Row, Idle, Worker, Quiet, Submitter, NoConfirmation,
   Confirmation, NoApproval, Approval, TaskStates, Outs

\* The tables start empty and every worker is idle.
LEMMA InitInv == Init => TypeOK /\ HistoryInv
<1> SUFFICES ASSUME Init PROVE TypeOK /\ HistoryInv
  OBVIOUS
<1>1. TypeOK
  BY RowTypes DEF Init, TypeOK
<1>2. HistoryInv
  BY NoProgressGood DEF Init, HistoryInv, NoRow, Idle
<1> QED BY <1>1, <1>2

\* SaveApproval stores an approval of the type Approval.
LEMMA SaveApprovalType ==
  ASSUME TypeOK, NEW a \in ApprIds, NEW t \in Tasks, NEW c \in Calls \cup {NoCall},
         SaveApproval(a, t, c)
  PROVE  appr' \in [ApprIds -> Approval]
BY DEF SaveApproval, TypeOK, Approval

\* CreateConfirmation stores a question of the type Confirmation.
LEMMA CreateConfirmationType ==
  ASSUME TypeOK, NEW k \in ConfIds, NEW t \in Tasks, NEW c \in Calls,
         CreateConfirmation(k, t, c)
  PROVE  conf' \in [ConfIds -> Confirmation]
BY DEF CreateConfirmation, TypeOK, Confirmation

\* ResumeTask leaves every row a row, whatever ids it is called with.
LEMMA ResumeTaskType ==
  ASSUME TypeOK, HistoryInv, NEW t, NEW c, NEW o \in {"tool", "notdone"}, ResumeTask(t, c, o)
  PROVE  task' \in [Tasks -> Row]
<1>1. CASE t \notin Tasks
  <2>1. task' = task
    BY <1>1 DEF ResumeTask, TypeOK
  <2> QED BY <2>1 DEF TypeOK
<1>2. CASE t \in Tasks
  <2>1. task[t].prog.pend # <<>> => Answer(task[t].prog, o) \in Progress
    BY <1>2, AnswerPaired DEF TypeOK, Row, HistoryInv, Good
  <2>2. \/ task' = task
        \/ task' = [task EXCEPT ![t].state = "succeeded", ![t].result = o]
        \/ task' = [task EXCEPT ![t].state = "failed", ![t].result = o]
        \/ /\ task[t].prog.pend # <<>>
           /\ task' = [task EXCEPT ![t].state = "queued", ![t].prog = Answer(task[t].prog, o)]
    BY <1>2 DEF ResumeTask, WaitsOn, TypeOK
  <2> QED BY <1>2, <2>1, <2>2, SMTT(30) DEF TypeOK, Row, TaskStates, Terminal, Outs
<1> QED BY <1>1, <1>2

\* Every step keeps the type invariant; the history invariant is needed where a
\* worker or a handler computes new columns from a copy.
LEMMA TypeStep == TypeOK /\ HistoryInv /\ [Next]_vars => TypeOK'
<1> SUFFICES ASSUME TypeOK, HistoryInv, [Next]_vars PROVE TypeOK'
  OBVIOUS
<1> USE RowTypes
<1>1. ASSUME NEW t \in Tasks, startTask(t) PROVE TypeOK'
  BY <1>1 DEF startTask, CreateTask, TypeOK, Row, NoRow, TaskStates, Waiting
<1>2. ASSUME NEW t \in Tasks, awaitApproval(t) PROVE TypeOK'
  BY <1>2 DEF awaitApproval, CreateTask, TypeOK, Row, NoRow, TaskStates, Waiting
<1>3. ASSUME NEW t \in Tasks, awaitApprovalSave(t) PROVE TypeOK'
  <2>1. appr' \in [ApprIds -> Approval]
    <3>1. CASE device
      <4>1. PICK a \in ApprIds : SaveApproval(a, t, NoCall)
        BY <1>3, <3>1 DEF awaitApprovalSave
      <4> QED BY <4>1, SaveApprovalType
    <3>2. CASE ~device
      BY <1>3, <3>2 DEF awaitApprovalSave, TypeOK
    <3> QED BY <3>1, <3>2
  <2> QED BY <1>3, <2>1 DEF awaitApprovalSave, TypeOK
<1>4. ASSUME NEW t \in Tasks, Cancel(t) PROVE TypeOK'
  <2>1. task' \in [Tasks -> Row]
    BY <1>4 DEF Cancel, CancelTask, Released, TypeOK, Row, TaskStates, Terminal
  <2>2. conf' \in [ConfIds -> Confirmation]
    BY <1>4 DEF Cancel, CancelTask, TypeOK, Confirmation
  <2> QED BY <1>4, <2>1, <2>2 DEF Cancel, TypeOK
<1>5. ASSUME NEW w \in Workers, NEW t \in Tasks, taskWorker(w, t) PROVE TypeOK'
  BY <1>5, ZenonT(30) DEF taskWorker, LeaseTask, TypeOK, Row, TaskStates, Worker
<1>6. ASSUME NEW w \in Workers, NEW t \in Tasks, Renew(w, t) PROVE TypeOK'
  BY <1>6 DEF Renew, RenewLease, TypeOK, Row
<1>7. ASSUME NEW w \in Workers, NEW t \in Tasks, LoseLease(w, t) PROVE TypeOK'
  BY <1>7 DEF LoseLease, TypeOK
<1>8. ASSUME NEW w \in Workers, NEW t \in Tasks, NEW p \in Progress, save(w, t, p)
      PROVE  task' \in [Tasks -> Row] /\ wk' \in [Workers -> Worker] /\ stalls' \in Nat
  <2>1. wk' \in [Workers -> Worker]
    BY <1>8 DEF save, TypeOK, Worker
  <2>2. task' = task \/ task' = [task EXCEPT ![t].prog = p]
    BY <1>8 DEF save, SaveProgress
  <2>3. task' \in [Tasks -> Row]
    BY <2>2 DEF TypeOK, Row
  <2>4. stalls' \in Nat
    BY <1>8 DEF save, TypeOK
  <2> QED BY <2>1, <2>3, <2>4
<1>9. ASSUME NEW w \in Workers, NEW t \in Tasks, NEW p \in Progress, NEW st \in TaskStates,
             SetTaskState(w, t, p, st)
      PROVE  task' \in [Tasks -> Row]
  <2>1. CASE Holds(w, t)
    BY <1>9, <2>1 DEF SetTaskState, Released, TypeOK, Row
  <2>2. CASE ~Holds(w, t)
    BY <1>9, <2>2 DEF SetTaskState, TypeOK
  <2> QED BY <2>1, <2>2
<1>10. ASSUME NEW w \in Workers, NEW t \in Tasks, NEW p \in Progress, NEW st \in TaskStates,
              finish(w, t, p, st)
       PROVE  task' \in [Tasks -> Row] /\ wk' \in [Workers -> Worker] /\ stalls' \in Nat
  BY <1>9, <1>10 DEF finish, TypeOK
<1>11. ASSUME NEW w \in Workers, NEW t \in Tasks, runCall(w, t) PROVE TypeOK'
  <2>1. wk[w].prog \in Progress /\ Paired(wk[w].prog) /\ wk[w].prog.pend # <<>>
    BY <1>11 DEF runCall, TypeOK, Worker, HistoryInv, Good
  <2>2. Answer(wk[w].prog, "tool") \in Progress
    BY <2>1, AnswerPaired
  <2> QED BY <1>8, <1>11, <2>2 DEF runCall, TypeOK
<1>12. ASSUME NEW w \in Workers, NEW t \in Tasks, pauseTask(w, t) PROVE TypeOK'
  <2>1. wk[w].prog \in Progress
    BY DEF TypeOK, Worker
  <2>2. task' \in [Tasks -> Row]
    BY <1>9, <1>12, <2>1 DEF pauseTask, TaskStates, Waiting
  <2>3. wk' \in [Workers -> Worker]
    <3>1. \/ wk' = [wk EXCEPT ![w] = Idle]
          \/ wk' = [wk EXCEPT ![w].pc = "askC"]
          \/ wk' = [wk EXCEPT ![w].pc = "askA"]
      BY <1>12 DEF pauseTask
    <3> QED BY <3>1 DEF TypeOK, Worker
  <2> QED BY <1>12, <2>2, <2>3 DEF pauseTask, TypeOK
<1>13. ASSUME NEW w \in Workers, NEW t \in Tasks, wk[w].pc \in {"askC", "askA"}
       PROVE  Head(wk[w].prog.pend) \in Calls
  <2>1. wk[w].prog.pend \in Seq(Calls) /\ wk[w].prog.pend # <<>>
    BY <1>13 DEF TypeOK, Worker, Progress, HistoryInv
  <2> QED BY <2>1, HeadTailProperties
<1>14. ASSUME NEW w \in Workers, NEW t \in Tasks, pauseTaskAsk(w, t) PROVE TypeOK'
  <2>1. conf' \in [ConfIds -> Confirmation]
    BY <1>13, <1>14, CreateConfirmationType DEF pauseTaskAsk
  <2> QED BY <1>14, <2>1 DEF pauseTaskAsk, TypeOK
<1>15. ASSUME NEW w \in Workers, NEW t \in Tasks, pauseTaskApproval(w, t) PROVE TypeOK'
  <2>1. appr' \in [ApprIds -> Approval]
    <3>1. CASE device
      <4>1. PICK a \in ApprIds : SaveApproval(a, t, Head(wk[w].prog.pend))
        BY <1>15, <3>1 DEF pauseTaskApproval
      <4> QED BY <1>13, <1>15, <4>1, SaveApprovalType DEF pauseTaskApproval
    <3>2. CASE ~device
      BY <1>15, <3>2 DEF pauseTaskApproval, TypeOK
    <3> QED BY <3>1, <3>2
  <2> QED BY <1>15, <2>1 DEF pauseTaskApproval, TypeOK
<1>16. ASSUME NEW w \in Workers, NEW t \in Tasks, decide(w, t) PROVE TypeOK'
  <2>1. /\ wk[w].prog \in Progress /\ Paired(wk[w].prog) /\ wk[w].prog.pend = <<>>
        /\ used \in SUBSET Calls
        /\ \A i \in 1..Len(wk[w].prog.asked) : wk[w].prog.asked[i] \in used
    BY <1>16 DEF decide, TypeOK, Worker, HistoryInv, Good
  <2>2. PICK cs \in FreshCalls :
          /\ used' = used \cup {cs[i] : i \in DOMAIN cs}
          /\ IF cs = <<>> THEN finish(w, t, AddStep(wk[w].prog, cs), "succeeded")
                          ELSE save(w, t, AddStep(wk[w].prog, cs))
    BY <1>16 DEF decide
  <2>3. AddStep(wk[w].prog, cs) \in Progress
    BY <2>1, AddStepPaired
  <2>4. task' \in [Tasks -> Row] /\ wk' \in [Workers -> Worker] /\ stalls' \in Nat
    BY <1>8, <1>10, <2>2, <2>3 DEF TaskStates, Terminal
  <2>5. used' \in SUBSET Calls
    BY <2>1, <2>2 DEF FreshCalls
  <2> QED BY <1>16, <2>4, <2>5 DEF decide, TypeOK
<1>17. ASSUME NEW w \in Workers, NEW t \in Tasks, decideAgain(w, t) PROVE TypeOK'
  <2>1. wk[w].transient + 1 \in Nat
    BY DEF TypeOK, Worker
  <2>2. wk' \in [Workers -> Worker]
    BY <1>17, <2>1 DEF decideAgain, TypeOK, Worker
  <2> QED BY <1>17, <2>2 DEF decideAgain, TypeOK
<1>18. ASSUME NEW w \in Workers, NEW t \in Tasks, giveUp(w, t) PROVE TypeOK'
  <2>1. wk[w].prog \in Progress
    BY DEF TypeOK, Worker
  <2> QED BY <1>10, <1>18, <2>1 DEF giveUp, TypeOK, TaskStates, Terminal
<1>19. ASSUME NEW k \in ConfIds, settle(k) PROVE TypeOK'
  <2>1. conf' \in [ConfIds -> Confirmation]
    <3>1. \/ conf' = [conf EXCEPT ![k].state = "confirmed", ![k].at = "act"]
          \/ conf' = [conf EXCEPT ![k].state = "cancelled", ![k].at = "resume"]
      BY <1>19 DEF settle, Settle
    <3> QED BY <3>1 DEF TypeOK, Confirmation
  <2> QED BY <1>19, <2>1 DEF settle, TypeOK
<1>20. ASSUME NEW k \in ConfIds, runAction(k) PROVE TypeOK'
  <2>1. conf' \in [ConfIds -> Confirmation]
    <3>1. [conf[k] EXCEPT !.at = "resume", !.ran = TRUE] \in Confirmation
      BY DEF TypeOK, Confirmation
    <3>2. conf' = [conf EXCEPT ![k] = [conf[k] EXCEPT !.at = "resume", !.ran = TRUE]]
      BY <1>20 DEF runAction, TypeOK
    <3> QED BY <3>1, <3>2 DEF TypeOK
  <2> QED BY <1>20, <2>1 DEF runAction, TypeOK
<1>21. ASSUME NEW k \in ConfIds, maintenanceConfirmation(k) PROVE TypeOK'
  <2>1. conf' \in [ConfIds -> Confirmation]
    <3>1. [conf[k] EXCEPT !.state = "expired", !.at = "resume"] \in Confirmation
      BY DEF TypeOK, Confirmation
    <3>2. conf' = [conf EXCEPT ![k] = [conf[k] EXCEPT !.state = "expired", !.at = "resume"]]
      BY <1>21 DEF maintenanceConfirmation, ExpireConfirmations, TypeOK
    <3> QED BY <3>1, <3>2 DEF TypeOK
  <2> QED BY <1>21, <2>1 DEF maintenanceConfirmation, TypeOK
<1>22. ASSUME NEW k \in ConfIds, resumeAnswered(k) PROVE TypeOK'
  <2>1. task' \in [Tasks -> Row]
    BY <1>22, ResumeTaskType DEF resumeAnswered
  <2>2. conf' \in [ConfIds -> Confirmation]
    BY <1>22 DEF resumeAnswered, TypeOK, Confirmation
  <2> QED BY <1>22, <2>1, <2>2 DEF resumeAnswered, TypeOK
<1>23. ASSUME NEW s \in Submitters, NEW a \in ApprIds, SubmitApproval(s, a) PROVE TypeOK'
  BY <1>23 DEF SubmitApproval, TypeOK, Submitter
<1>24. ASSUME NEW s \in Submitters, NEW a \in ApprIds, execDevice(s, a) PROVE TypeOK'
  <2>1. appr' \in [ApprIds -> Approval]
    BY <1>24 DEF execDevice, TypeOK, Approval
  <2>2. sub' \in [Submitters -> Submitter]
    BY <1>24 DEF execDevice, TypeOK, Submitter
  <2> QED BY <1>24, <2>1, <2>2 DEF execDevice, TypeOK
<1>25. ASSUME NEW s \in Submitters, NEW a \in ApprIds, commandEnds(s, a) PROVE TypeOK'
  <2>1. appr' \in [ApprIds -> Approval]
    BY <1>25 DEF commandEnds, TypeOK, Approval
  <2>2. sub' \in [Submitters -> Submitter]
    BY <1>25 DEF commandEnds, TypeOK, Submitter
  <2> QED BY <1>25, <2>1, <2>2 DEF commandEnds, Lose, TypeOK
<1>26. ASSUME NEW s \in Submitters, NEW a \in ApprIds, deleteSubmitted(s, a) PROVE TypeOK'
  <2>1. appr' \in [ApprIds -> Approval]
    BY <1>26, SMTT(30) DEF deleteSubmitted, DeleteApproval, TypeOK, Approval
  <2>2. sub' \in [Submitters -> Submitter]
    BY <1>26 DEF deleteSubmitted, TypeOK, Submitter
  <2> QED BY <1>26, <2>1, <2>2 DEF deleteSubmitted, TypeOK
<1>27. ASSUME NEW s \in Submitters, NEW a \in ApprIds, resumeSubmitted(s, a) PROVE TypeOK'
  <2>1. task' \in [Tasks -> Row]
    BY <1>27, ResumeTaskType DEF resumeSubmitted
  <2> QED BY <1>27, <2>1 DEF resumeSubmitted, TypeOK
<1>28. ASSUME NEW a \in ApprIds, expireApprovals(a) PROVE TypeOK'
  BY <1>28 DEF expireApprovals, ExpireApprovals, TypeOK, Approval
<1>29. ASSUME NEW a \in ApprIds, dropApproval(a) PROVE TypeOK'
  <2>1. task' \in [Tasks -> Row]
    BY <1>29, ResumeTaskType DEF dropApproval
  <2>2. appr' \in [ApprIds -> Approval]
    BY <1>29 DEF dropApproval, TypeOK, Approval
  <2> QED BY <1>29, <2>1, <2>2 DEF dropApproval, TypeOK
<1>30. ASSUME NEW t \in Tasks, Overdue(t) PROVE TypeOK'
  BY <1>30 DEF Overdue, TypeOK
<1>31. ASSUME NEW k \in ConfIds, ConfirmationLate(k) PROVE TypeOK'
  BY <1>31, ZenonT(30) DEF ConfirmationLate, TypeOK, Confirmation
<1>32. ASSUME NEW a \in ApprIds, ApprovalLate(a) \/ DaemonForgets(a) PROVE TypeOK'
  <2>1. CASE ApprovalLate(a)
    BY <2>1, ZenonT(30) DEF ApprovalLate, TypeOK, Approval
  <2>2. CASE DaemonForgets(a)
    BY <2>2 DEF DaemonForgets, TypeOK, Approval
  <2> QED BY <1>32, <2>1, <2>2
<1>33. ASSUME NEW t \in Tasks, LeaseLapses(t) PROVE TypeOK'
  <2>1. task' \in [Tasks -> Row]
    BY <1>33 DEF LeaseLapses, TypeOK, Row
  <2> QED BY <1>33, <2>1 DEF LeaseLapses, TypeOK
<1>34. ASSUME NEW w \in Workers, WorkerLost(w) PROVE TypeOK'
  BY <1>34 DEF WorkerLost, Lose, TypeOK
<1>35. ASSUME HandlerLost PROVE TypeOK'
  <2>1. conf' \in [ConfIds -> Confirmation]
    BY <1>35 DEF HandlerLost, TypeOK, Confirmation
  <2>2. appr' \in [ApprIds -> Approval]
    BY <1>35 DEF HandlerLost, TypeOK, Approval
  <2>3. sub' \in [Submitters -> Submitter] /\ voice' \in [Tasks -> BOOLEAN]
    BY <1>35 DEF HandlerLost, TypeOK
  <2> QED BY <1>35, <2>1, <2>2, <2>3 DEF HandlerLost, Lose, TypeOK
<1>36. ASSUME RemoveDevice PROVE TypeOK'
  <2>1. appr' \in [ApprIds -> Approval]
    BY <1>36 DEF RemoveDevice, TypeOK, Approval
  <2>2. device' \in BOOLEAN
    BY <1>36, Zenon DEF RemoveDevice
  <2>3. losses' = losses + 1
    BY <1>36, Zenon DEF RemoveDevice, Lose
  <2> QED BY <1>36, <2>1, <2>2, <2>3 DEF RemoveDevice, TypeOK
<1>37. CASE UNCHANGED vars
  BY <1>37 DEF vars, TypeOK
<1> QED
  BY <1>1, <1>2, <1>3, <1>4, <1>5, <1>6, <1>7, <1>11, <1>12, <1>14, <1>15, <1>16, <1>17,
     <1>18, <1>19, <1>20, <1>21, <1>22, <1>23, <1>24, <1>25, <1>26, <1>27, <1>28, <1>29,
     <1>30, <1>31, <1>32, <1>33, <1>34, <1>35, <1>36, <1>37
  DEF Next, WorkerStep, SubmitStep

\* A paired history stays good when the model gives out more call ids.
LEMMA GoodGrows ==
  ASSUME NEW p, NEW u, NEW v, u \subseteq v, Good(p, u)
  PROVE  Good(p, v)
BY DEF Good

\* Every step keeps the history invariant: a row or a copy keeps its history,
\* starts with an empty one, takes over that of the other, or extends it by a
\* result for its first pending call or by a model step with new calls.
LEMMA HistoryStep == TypeOK /\ HistoryInv /\ [Next]_vars => HistoryInv'
<1> SUFFICES ASSUME TypeOK, HistoryInv, [Next]_vars PROVE HistoryInv'
  OBVIOUS
<1>1. ASSUME UNCHANGED <<task, wk, used>> PROVE HistoryInv'
  BY <1>1 DEF HistoryInv
<1>2. ASSUME NEW t \in Tasks, startTask(t) \/ awaitApproval(t) PROVE HistoryInv'
  <2>1. /\ \A x \in Tasks : task'[x].prog = task[x].prog \/ task'[x].prog = NoProgress
        /\ UNCHANGED <<wk, used>>
    BY <1>2, ZenonT(30) DEF startTask, awaitApproval, CreateTask, NoRow, TypeOK
  <2> QED BY <2>1, NoProgressGood DEF HistoryInv
<1>3. ASSUME \A x \in Tasks : task'[x].prog = task[x].prog, UNCHANGED <<wk, used>>
      PROVE  HistoryInv'
  BY <1>3 DEF HistoryInv
<1>4. ASSUME NEW t \in Tasks, Cancel(t) PROVE HistoryInv'
  <2>1. \A x \in Tasks : task'[x].prog = task[x].prog
    BY <1>4 DEF Cancel, CancelTask, Released, TypeOK, Row
  <2> QED BY <1>3, <1>4, <2>1 DEF Cancel
<1>5. ASSUME NEW t \in Tasks, LeaseLapses(t) PROVE HistoryInv'
  <2>1. \A x \in Tasks : task'[x].prog = task[x].prog
    BY <1>5 DEF LeaseLapses, TypeOK, Row
  <2> QED BY <1>3, <1>5, <2>1 DEF LeaseLapses
<1>6. ASSUME NEW w \in Workers, NEW t \in Tasks, Renew(w, t) PROVE HistoryInv'
  <2>1. \A x \in Tasks : task'[x].prog = task[x].prog
    BY <1>6 DEF Renew, RenewLease, TypeOK, Row
  <2> QED BY <1>3, <1>6, <2>1 DEF Renew
<1>7. ASSUME NEW w \in Workers, NEW t \in Tasks, taskWorker(w, t) PROVE HistoryInv'
  <2>1. \A x \in Tasks : task'[x].prog = task[x].prog
    BY <1>7 DEF taskWorker, LeaseTask, TypeOK, Row
  <2>2. \A x \in Workers : \/ wk'[x] = wk[x]
                           \/ wk'[x].prog = task[t].prog /\ wk'[x].pc = "loop"
    BY <1>7 DEF taskWorker, TypeOK
  <2>3. used' = used
    BY <1>7 DEF taskWorker
  <2> QED BY <2>1, <2>2, <2>3 DEF HistoryInv
<1>8. ASSUME NEW w \in Workers, wk' = [wk EXCEPT ![w] = Idle],
             \A x \in Tasks : \/ task'[x].prog = task[x].prog
                              \/ Good(task'[x].prog, used'),
             used \subseteq used'
      PROVE  HistoryInv'
  <2>1. \A x \in Tasks : Good(task'[x].prog, used')
    BY <1>8, GoodGrows DEF HistoryInv
  <2>2. \A x \in Workers : \/ wk'[x] = wk[x]
                           \/ wk'[x].prog = NoProgress /\ wk'[x].pc = "idle"
    BY <1>8 DEF TypeOK, Idle
  <2>3. \A x \in Workers : Good(wk'[x].prog, used')
    BY <1>8, <2>2, GoodGrows, NoProgressGood DEF HistoryInv
  <2>4. \A x \in Workers : wk'[x].pc \in {"askC", "askA"} => wk'[x].prog.pend # <<>>
    BY <2>2 DEF HistoryInv
  <2> QED BY <2>1, <2>3, <2>4 DEF HistoryInv
<1>9. ASSUME NEW w \in Workers, NEW t \in Tasks, LoseLease(w, t) PROVE HistoryInv'
  BY <1>8, <1>9 DEF LoseLease
<1>10. ASSUME NEW w \in Workers, WorkerLost(w) PROVE HistoryInv'
  BY <1>8, <1>10 DEF WorkerLost
<1>11. ASSUME NEW w \in Workers, NEW t \in Tasks, NEW p, save(w, t, p), wk[w].pc = "loop",
              Good(p, used'), used \subseteq used'
       PROVE  HistoryInv'
  <2>1. \A x \in Tasks : task'[x].prog = task[x].prog \/ task'[x].prog = p
    BY <1>11 DEF save, SaveProgress, TypeOK, Row
  <2>2. \A x \in Workers : wk'[x] = wk[x] \/ (wk'[x].prog = p /\ wk'[x].pc = "loop")
    BY <1>11 DEF save, TypeOK, Worker
  <2>3. \A x \in Tasks : Good(task'[x].prog, used')
    BY <1>11, <2>1, GoodGrows DEF HistoryInv
  <2>4. \A x \in Workers : Good(wk'[x].prog, used')
    BY <1>11, <2>2, GoodGrows DEF HistoryInv
  <2>5. \A x \in Workers : wk'[x].pc \in {"askC", "askA"} => wk'[x].prog.pend # <<>>
    BY <2>2 DEF HistoryInv
  <2> QED BY <2>3, <2>4, <2>5 DEF HistoryInv
<1>12. ASSUME NEW w \in Workers, NEW t \in Tasks, NEW p, NEW st, SetTaskState(w, t, p, st)
       PROVE  \A x \in Tasks : task'[x].prog = task[x].prog \/ task'[x].prog = p
  BY <1>12 DEF SetTaskState, Released, TypeOK
<1>13. ASSUME NEW w \in Workers, NEW t \in Tasks, NEW p, NEW st, finish(w, t, p, st),
              Good(p, used'), used \subseteq used'
       PROVE  HistoryInv'
  <2>1. \A x \in Tasks : task'[x].prog = task[x].prog \/ task'[x].prog = p
    BY <1>12, <1>13 DEF finish
  <2>2. wk' = [wk EXCEPT ![w] = Idle]
    BY <1>13 DEF finish
  <2>3. \A x \in Tasks : task'[x].prog = task[x].prog \/ Good(task'[x].prog, used')
    BY <1>13, <2>1
  <2> QED BY <1>8, <1>13, <2>2, <2>3
<1>14. ASSUME NEW w \in Workers, NEW t \in Tasks, runCall(w, t) PROVE HistoryInv'
  <2>1. wk[w].prog \in Progress /\ Good(wk[w].prog, used) /\ wk[w].prog.pend # <<>>
    BY <1>14 DEF runCall, TypeOK, Worker, HistoryInv
  <2>2. Good(Answer(wk[w].prog, "tool"), used)
    BY <2>1, AnswerPaired DEF Good
  <2> QED BY <1>11, <1>14, <2>2 DEF runCall, Looping
<1>15. ASSUME NEW w \in Workers, NEW t \in Tasks, pauseTask(w, t) PROVE HistoryInv'
  <2>1. Good(wk[w].prog, used) /\ wk[w].prog.pend # <<>> /\ used' = used
    BY <1>15 DEF pauseTask, HistoryInv
  <2>2. \A x \in Tasks : task'[x].prog = task[x].prog \/ task'[x].prog = wk[w].prog
    BY <1>12, <1>15 DEF pauseTask
  <2>3. \A x \in Workers : \/ wk'[x] = wk[x]
                           \/ wk'[x].prog = wk[w].prog
                           \/ wk'[x].prog = NoProgress /\ wk'[x].pc = "idle"
    <3>1. \/ wk' = [wk EXCEPT ![w] = Idle]
          \/ wk' = [wk EXCEPT ![w].pc = "askC"]
          \/ wk' = [wk EXCEPT ![w].pc = "askA"]
      BY <1>15 DEF pauseTask
    <3> QED BY <3>1 DEF TypeOK, Worker, Idle
  <2>4. \A x \in Tasks : Good(task'[x].prog, used')
    BY <2>1, <2>2 DEF HistoryInv
  <2>5. \A x \in Workers : Good(wk'[x].prog, used')
    BY <2>1, <2>3, NoProgressGood DEF HistoryInv
  <2>6. \A x \in Workers : wk'[x].pc \in {"askC", "askA"} => wk'[x].prog.pend # <<>>
    BY <2>1, <2>3 DEF HistoryInv
  <2> QED BY <2>4, <2>5, <2>6 DEF HistoryInv
<1>16. ASSUME NEW w \in Workers, NEW t \in Tasks, pauseTaskAsk(w, t) \/ pauseTaskApproval(w, t)
       PROVE  HistoryInv'
  BY <1>8, <1>16 DEF pauseTaskAsk, pauseTaskApproval
<1>17. ASSUME NEW w \in Workers, NEW t \in Tasks, decide(w, t) PROVE HistoryInv'
  <2>1. /\ wk[w].prog \in Progress /\ Paired(wk[w].prog) /\ wk[w].prog.pend = <<>>
        /\ used \in SUBSET Calls /\ wk[w].pc = "loop"
        /\ \A i \in 1..Len(wk[w].prog.asked) : wk[w].prog.asked[i] \in used
    BY <1>17 DEF decide, Looping, TypeOK, Worker, HistoryInv, Good
  <2>2. PICK cs \in FreshCalls :
          /\ used' = used \cup {cs[i] : i \in DOMAIN cs}
          /\ IF cs = <<>> THEN finish(w, t, AddStep(wk[w].prog, cs), "succeeded")
                          ELSE save(w, t, AddStep(wk[w].prog, cs))
    BY <1>17 DEF decide
  <2>3. Good(AddStep(wk[w].prog, cs), used') /\ used \subseteq used'
    BY <2>1, <2>2, AddStepPaired DEF Good
  <2> QED BY <1>11, <1>13, <2>1, <2>2, <2>3
<1>18. ASSUME NEW w \in Workers, NEW t \in Tasks, decideAgain(w, t) PROVE HistoryInv'
  <2>1. \A x \in Workers : wk'[x].prog = wk[x].prog /\ wk'[x].pc = wk[x].pc
    BY <1>18 DEF decideAgain, TypeOK, Worker
  <2> QED BY <1>18, <2>1 DEF decideAgain, HistoryInv
<1>19. ASSUME NEW w \in Workers, NEW t \in Tasks, giveUp(w, t) PROVE HistoryInv'
  BY <1>13, <1>19 DEF giveUp, HistoryInv
<1>20. ASSUME NEW t, NEW c, NEW o \in {"tool", "notdone"}, ResumeTask(t, c, o),
              UNCHANGED <<wk, used>>
       PROVE  HistoryInv'
  <2>1. CASE t \notin Tasks
    <3>1. task' = task
      BY <1>20, <2>1 DEF ResumeTask, TypeOK
    <3> QED BY <1>1, <1>20, <3>1
  <2>2. CASE t \in Tasks
    <3>1. task[t].prog.pend # <<>> => Good(Answer(task[t].prog, o), used)
      BY <2>2, AnswerPaired DEF TypeOK, Row, HistoryInv, Good
    <3>2. \A x \in Tasks : \/ task'[x].prog = task[x].prog
                           \/ /\ task[t].prog.pend # <<>>
                              /\ task'[x].prog = Answer(task[t].prog, o)
      BY <1>20, <2>2 DEF ResumeTask, WaitsOn, TypeOK, Row
    <3> QED BY <1>20, <3>1, <3>2 DEF HistoryInv
  <2> QED BY <2>1, <2>2
<1>21. ASSUME NEW k \in ConfIds, resumeAnswered(k) PROVE HistoryInv'
  BY <1>20, <1>21 DEF resumeAnswered
<1>22. ASSUME NEW s \in Submitters, NEW a \in ApprIds, resumeSubmitted(s, a) PROVE HistoryInv'
  BY <1>20, <1>22 DEF resumeSubmitted
<1>23. ASSUME NEW a \in ApprIds, dropApproval(a) PROVE HistoryInv'
  BY <1>20, <1>23 DEF dropApproval
<1>24. ASSUME NEW k \in ConfIds,
              settle(k) \/ runAction(k) \/ maintenanceConfirmation(k) \/ ConfirmationLate(k)
       PROVE  HistoryInv'
  BY <1>1, <1>24 DEF settle, runAction, maintenanceConfirmation, ConfirmationLate
<1>25. ASSUME NEW s \in Submitters, NEW a \in ApprIds,
              \/ SubmitApproval(s, a) \/ execDevice(s, a) \/ commandEnds(s, a)
              \/ deleteSubmitted(s, a)
       PROVE  HistoryInv'
  BY <1>1, <1>25 DEF SubmitApproval, execDevice, commandEnds, deleteSubmitted
<1>26. ASSUME NEW a \in ApprIds, expireApprovals(a) \/ ApprovalLate(a) \/ DaemonForgets(a)
       PROVE  HistoryInv'
  BY <1>1, <1>26 DEF expireApprovals, ApprovalLate, DaemonForgets
<1>27. ASSUME NEW t \in Tasks, awaitApprovalSave(t) \/ Overdue(t) PROVE HistoryInv'
  BY <1>1, <1>27 DEF awaitApprovalSave, Overdue
<1>28. ASSUME HandlerLost \/ RemoveDevice \/ UNCHANGED vars PROVE HistoryInv'
  BY <1>1, <1>28 DEF HandlerLost, RemoveDevice, vars
<1> QED
  BY <1>2, <1>4, <1>5, <1>6, <1>7, <1>9, <1>10, <1>14, <1>15, <1>16, <1>17, <1>18, <1>19,
     <1>21, <1>22, <1>23, <1>24, <1>25, <1>26, <1>27, <1>28
  DEF Next, WorkerStep, SubmitStep

\* Every column of every table has its type in every reachable state, for any
\* number of tasks, workers, submitters and lost handlers.
THEOREM TypeCorrect == Spec => []TypeOK
<1>1. TypeOK /\ HistoryInv /\ [Next]_vars => (TypeOK /\ HistoryInv)'
  BY TypeStep, HistoryStep
<1> QED BY InitInv, <1>1, PTL DEF Spec

\* In every stored task the results and the pending calls are, in order, exactly
\* the calls of the model steps, and no call occurs twice: whatever worker,
\* answer, approval or expiry wrote the row, and whatever was stale or lost.
THEOREM HistoryAlwaysPaired == Spec => []HistoryPaired
<1>1. TypeOK /\ HistoryInv /\ [Next]_vars => (TypeOK /\ HistoryInv)'
  BY TypeStep, HistoryStep
<1>2. HistoryInv => HistoryPaired
  BY DEF HistoryInv, HistoryPaired, Good
<1> QED BY InitInv, <1>1, <1>2, PTL DEF Spec

\* No step changes the row of a finished task.
LEMMA TerminalStep ==
  ASSUME TypeOK, [Next]_vars, NEW f \in Tasks, task[f].state \in Terminal
  PROVE  task'[f] = task[f]
<1> USE DEF Terminal, Waiting
<1>1. ASSUME NEW t \in Tasks, startTask(t) \/ awaitApproval(t) PROVE task'[f] = task[f]
  BY <1>1 DEF startTask, awaitApproval, CreateTask, TypeOK
<1>2. ASSUME NEW t \in Tasks, Cancel(t) PROVE task'[f] = task[f]
  BY <1>2 DEF Cancel, CancelTask, TypeOK
<1>3. ASSUME NEW t \in Tasks, LeaseLapses(t) PROVE task'[f] = task[f]
  BY <1>3 DEF LeaseLapses, TypeOK
<1>4. ASSUME NEW w \in Workers, NEW t \in Tasks, taskWorker(w, t) PROVE task'[f] = task[f]
  BY <1>4 DEF taskWorker, LeaseTask, Leasable, TypeOK
<1>5. ASSUME NEW w \in Workers, NEW t \in Tasks, Renew(w, t) PROVE task'[f] = task[f]
  BY <1>5 DEF Renew, RenewLease, Holds, TypeOK
<1>6. ASSUME NEW w \in Workers, NEW t \in Tasks, NEW p, save(w, t, p) PROVE task'[f] = task[f]
  BY <1>6 DEF save, SaveProgress, Holds, TypeOK
<1>7. ASSUME NEW w \in Workers, NEW t \in Tasks, NEW p, NEW st, SetTaskState(w, t, p, st)
      PROVE  task'[f] = task[f]
  BY <1>7 DEF SetTaskState, Holds, TypeOK
<1>8. ASSUME NEW t, NEW c, NEW o, ResumeTask(t, c, o) PROVE task'[f] = task[f]
  BY <1>8 DEF ResumeTask, TypeOK
<1>9. ASSUME NEW w \in Workers, NEW t \in Tasks, WorkerStep(w, t) \/ decideAgain(w, t)
      PROVE  task'[f] = task[f]
  <2>1. CASE runCall(w, t)
    BY <1>6, <2>1 DEF runCall
  <2>2. CASE pauseTask(w, t)
    BY <1>7, <2>2 DEF pauseTask
  <2>3. CASE decide(w, t)
    BY <1>6, <1>7, <2>3 DEF decide, finish
  <2>4. CASE giveUp(w, t)
    BY <1>7, <2>4 DEF giveUp, finish
  <2>5. CASE LoseLease(w, t) \/ pauseTaskAsk(w, t) \/ pauseTaskApproval(w, t) \/ decideAgain(w, t)
    BY <2>5 DEF LoseLease, pauseTaskAsk, pauseTaskApproval, decideAgain
  <2> QED BY <1>9, <2>1, <2>2, <2>3, <2>4, <2>5 DEF WorkerStep
<1>10. ASSUME NEW k \in ConfIds, resumeAnswered(k) PROVE task'[f] = task[f]
  BY <1>8, <1>10 DEF resumeAnswered
<1>11. ASSUME NEW s \in Submitters, NEW a \in ApprIds, resumeSubmitted(s, a)
       PROVE  task'[f] = task[f]
  BY <1>8, <1>11 DEF resumeSubmitted
<1>12. ASSUME NEW a \in ApprIds, dropApproval(a) PROVE task'[f] = task[f]
  BY <1>8, <1>12 DEF dropApproval
<1>13. ASSUME UNCHANGED task PROVE task'[f] = task[f]
  BY <1>13
<1>14. ASSUME NEW t \in Tasks, awaitApprovalSave(t) \/ Overdue(t) PROVE UNCHANGED task
  BY <1>14 DEF awaitApprovalSave, Overdue
<1>15. ASSUME NEW k \in ConfIds,
              settle(k) \/ runAction(k) \/ maintenanceConfirmation(k) \/ ConfirmationLate(k)
       PROVE  UNCHANGED task
  BY <1>15 DEF settle, runAction, maintenanceConfirmation, ConfirmationLate
<1>16. ASSUME NEW s \in Submitters, NEW a \in ApprIds,
              \/ SubmitApproval(s, a) \/ execDevice(s, a) \/ commandEnds(s, a)
              \/ deleteSubmitted(s, a)
       PROVE  UNCHANGED task
  BY <1>16 DEF SubmitApproval, execDevice, commandEnds, deleteSubmitted
<1>17. ASSUME NEW a \in ApprIds, expireApprovals(a) \/ ApprovalLate(a) \/ DaemonForgets(a)
       PROVE  UNCHANGED task
  BY <1>17 DEF expireApprovals, ApprovalLate, DaemonForgets
<1>18. ASSUME HandlerLost \/ RemoveDevice \/ (\E w \in Workers : WorkerLost(w)) \/ UNCHANGED vars
       PROVE  UNCHANGED task
  BY <1>18 DEF HandlerLost, RemoveDevice, WorkerLost, vars
<1> QED
  BY <1>1, <1>2, <1>3, <1>4, <1>5, <1>9, <1>10, <1>11, <1>12, <1>13, <1>14, <1>15, <1>16,
     <1>17, <1>18
  DEF Next, SubmitStep

\* A task that has ended is never reopened or rewritten, by any stale worker,
\* late answer, late approval or expiry.
THEOREM FinishedStaysFinished == Spec => TerminalFinal
<1>1. TypeOK /\ [Next]_vars => [\A t \in Tasks : task[t].state \in Terminal => task'[t] = task[t]]_vars
  BY TerminalStep
<1> QED BY TypeCorrect, <1>1, PTL DEF Spec, TerminalFinal

-----------------------------------------------------------------------------
(* Questions, approvals and waits.  The history invariant says that every    *)
(* copy is paired; it does not say whose copy may be written over a row, nor *)
(* what a row that waits, a question and an approval know of each other.     *)

\* q is p, with perhaps more results and steps.
Kept(p, q) ==
  /\ Len(p.done) <= Len(q.done) /\ \A i \in 1..Len(p.done) : q.done[i] = p.done[i]
  /\ p.steps <= q.steps
  /\ \A c \in Calls : p.out[c] # "none" => q.out[c] = p.out[c]

\* ... which a worker that holds the task has added: not for an action.
Ahead(p, q) == Kept(p, q) /\ \A c \in ActionCalls : q.out[c] = p.out[c]

\* The task waits on call c in state st, or was ended while it did.
Rests(t, c, st) == WaitsOn(t, c) /\ task[t].state \in {st} \cup Terminal

\* ... or the call has its result.
Reached(t, c, st) == task[t].prog.out[c] # "none" \/ Rests(t, c, st)

\* A row that is not inserted has no history; a command is never a worker's.
RowsInv ==
  \A t \in Tasks :
    /\ task[t].state = "none" => task[t].prog = NoProgress
    /\ task[t].kind = "command" => task[t].state \notin {"queued", "running", "awaiting_confirmation"}

\* The call that a worker in pauseTask asks about.
Asked(w) == Head(wk[w].prog.pend)

\* The worker is between the two statements of pauseTask.
Asking(w) == wk[w].pc \in {"askC", "askA"}

\* A worker's task exists; the copy of the one that holds it is ahead of the row,
\* so its writes extend it; the task that a worker asks about rests on that very
\* call, and nobody else asks about it.
WorkersInv ==
  /\ \A w \in Workers : wk[w].pc # "idle" =>
       /\ wk[w].task \in Tasks /\ task[wk[w].task].kind = "agent" /\ task[wk[w].task].state # "none"
       /\ wk[w].pc = "loop" /\ Holds(w, wk[w].task) => Ahead(task[wk[w].task].prog, wk[w].prog)
       /\ wk[w].pc = "askC" => Asked(w) \in ActionCalls /\ Rests(wk[w].task, Asked(w), "awaiting_confirmation")
       /\ wk[w].pc = "askA" => Asked(w) \in DeviceCalls /\ Rests(wk[w].task, Asked(w), "awaiting_approval")
  /\ \A v, w \in Workers : Asking(v) /\ Asking(w) /\ wk[v].task = wk[w].task => v = w

\* A question is about an action that its task has reached, it agrees with its
\* handler, and nobody is about to ask it again.
ConfInv ==
  \A k \in ConfIds : LET q == conf[k] IN
    /\ q.state = "none" => q = NoConfirmation
    /\ q.state # "none" =>
         /\ q.task \in Tasks /\ task[q.task].kind = "agent" /\ task[q.task].state # "none"
         /\ q.call \in ActionCalls /\ Reached(q.task, q.call, "awaiting_confirmation")
    /\ q.ran \/ q.at = "act" => q.state = "confirmed"
    /\ q.at = "resume" => q.state \in {"confirmed", "cancelled", "expired"} /\ (q.state = "confirmed" => q.ran)
    /\ \A w \in Workers : wk[w].pc = "askC" /\ wk[w].task = q.task => Asked(w) # q.call

\* The same for approvals; a request that says the command ran is right, and a
\* voice call that has not saved its approval owns the only one of its task.
ApprInv ==
  /\ \A a \in ApprIds : LET q == appr[a] IN
       /\ q.row = "none" => q = NoApproval
       /\ q.row # "none" =>
            /\ q.task \in Tasks /\ task[q.task].state # "none"
            /\ \/ q.call = NoCall /\ task[q.task].kind = "command"
               \/ q.call \in DeviceCalls /\ task[q.task].kind = "agent" /\ Reached(q.task, q.call, "awaiting_approval")
       /\ \A w \in Workers : wk[w].pc = "askA" /\ wk[w].task = q.task => Asked(w) # q.call
  /\ \A s \in Submitters : sub[s].pc # "idle" =>
       /\ sub[s].appr \in ApprIds /\ appr[sub[s].appr].row # "none"
       /\ sub[s].pc \in {"delete", "resume"} => appr[sub[s].appr].dev = "ran"
  /\ \A t \in Tasks : voice[t] =>
       /\ task[t].kind = "command" /\ task[t].state # "none"
       /\ \A a \in ApprIds : appr[a].task # t

\* Only a loss removes the device.
DeviceInv == losses = 0 => device

\* What the steps preserve, and the properties that go with it.
AskInv == RowsInv /\ WorkersInv /\ ConfInv /\ ApprInv /\ DeviceInv
Safe == AskedOnce /\ ActionResultTrue /\ CommandResultTrue /\ WaitEnds

-----------------------------------------------------------------------------
(* Histories that grow.                                                      *)

\* A history is kept by itself and by what keeps its extensions.
LEMMA KeptTrans ==
  ASSUME NEW p \in Progress, NEW q \in Progress, NEW r \in Progress
  PROVE  /\ Kept(p, p) /\ Ahead(p, p)
         /\ Kept(p, q) /\ Kept(q, r) => Kept(p, r)
         /\ Ahead(p, q) /\ Ahead(q, r) => Ahead(p, r)
<1>1. /\ p.done \in Seq(Calls) /\ q.done \in Seq(Calls) /\ r.done \in Seq(Calls)
      /\ p.steps \in Nat /\ q.steps \in Nat /\ r.steps \in Nat
  BY DEF Progress
<1>2. Len(p.done) \in Nat /\ Len(q.done) \in Nat /\ Len(r.done) \in Nat
  BY <1>1
<1>3. Kept(p, p) /\ Ahead(p, p)
  BY <1>1, <1>2 DEF Kept, Ahead
<1>4. Kept(p, q) /\ Kept(q, r) => Kept(p, r)
  <2> SUFFICES ASSUME Kept(p, q), Kept(q, r) PROVE Kept(p, r)
    OBVIOUS
  <2>1. Len(p.done) <= Len(q.done) /\ Len(q.done) <= Len(r.done) /\ p.steps <= r.steps
    BY <1>1 DEF Kept
  <2>2. \A i \in 1..Len(p.done) : i \in 1..Len(q.done)
    BY <1>2, <2>1
  <2>3. \A i \in 1..Len(p.done) : r.done[i] = p.done[i]
    BY <2>2 DEF Kept
  <2>4. Len(p.done) <= Len(r.done)
    BY <1>2, <2>1
  <2>5. \A c \in Calls : p.out[c] # "none" => r.out[c] = p.out[c]
    BY DEF Kept
  <2> QED BY <2>1, <2>3, <2>4, <2>5 DEF Kept
<1> QED BY <1>3, <1>4 DEF Ahead

\* The first pending call has no result yet.
LEMMA FirstPending ==
  ASSUME NEW p \in Progress, Paired(p), p.pend # <<>>
  PROVE  Head(p.pend) \in Calls /\ p.out[Head(p.pend)] = "none"
<1>0. /\ p.asked \in Seq(Calls) /\ p.done \in Seq(Calls) /\ p.pend \in Seq(Calls)
  BY DEF Progress
<1>1. Head(p.pend) \in Calls /\ Head(p.pend) = p.pend[1] /\ Len(p.pend) >= 1 /\ Len(p.pend) \in Nat
      /\ Len(p.done) \in Nat
  BY <1>0
<1>2. PICK n \in Nat : n = Len(p.done)
  BY <1>1
<1>3. /\ Len(p.asked) = n + Len(p.pend)
      /\ \A i \in 1..n : p.asked[i] = p.done[i]
      /\ p.asked[n + 1] = p.pend[1]
  <2>1. p.asked = p.done \o p.pend
    BY DEF Paired
  <2>2. /\ Len(p.done \o p.pend) = Len(p.done) + Len(p.pend)
        /\ \A i \in 1..(Len(p.done) + Len(p.pend)) :
             (p.done \o p.pend)[i] = IF i <= Len(p.done) THEN p.done[i] ELSE p.pend[i - Len(p.done)]
    <3>1. p.done \in Seq(Calls) /\ p.pend \in Seq(Calls)
      BY <1>0
    <3> QED BY ONLY <3>1, ConcatProperties, Zenon
  <2>3. /\ n + 1 \in 1..(n + Len(p.pend)) /\ ~(n + 1 <= n) /\ (n + 1) - n = 1
        /\ \A i \in 1..n : i \in 1..(n + Len(p.pend)) /\ i <= n
    <3>1. PICK m \in Nat : m = Len(p.pend) /\ m >= 1
      BY <1>1
    <3>2. /\ n + 1 \in 1..(n + m) /\ ~(n + 1 <= n) /\ (n + 1) - n = 1
          /\ \A i \in 1..n : i \in 1..(n + m) /\ i <= n
      BY ONLY <3>1, n \in Nat
    <3> QED BY <3>1, <3>2
  <2> QED BY <1>2, <2>1, <2>2, <2>3
<1>4. \A i \in 1..n : i \in 1..Len(p.asked) /\ n + 1 \in 1..Len(p.asked) /\ i # n + 1
  BY <1>1, <1>3
<1>5. ASSUME NEW i \in 1..n PROVE p.done[i] # Head(p.pend)
  <2>1. i \in 1..Len(p.asked) /\ n + 1 \in 1..Len(p.asked) /\ i # n + 1
    BY <1>4
  <2>2. p.asked[i] # p.asked[n + 1]
    BY <2>1 DEF Paired
  <2> QED BY <1>1, <1>3, <2>2
<1>6. p.out[Head(p.pend)] # "none" <=> \E i \in 1..Len(p.done) : p.done[i] = Head(p.pend)
  BY <1>1 DEF Paired
<1> QED BY <1>1, <1>2, <1>5, <1>6

\* A result for the first pending call is added to the history.
LEMMA AnswerKept ==
  ASSUME NEW p \in Progress, Paired(p), p.pend # <<>>, NEW o \in {"tool", "notdone"}
  PROVE  /\ Answer(p, o) \in Progress /\ Kept(p, Answer(p, o))
         /\ Answer(p, o).out = [p.out EXCEPT ![Head(p.pend)] = o]
         /\ Answer(p, o).out[Head(p.pend)] = o
         /\ Head(p.pend) \notin ActionCalls => Ahead(p, Answer(p, o))
<1>0. p.done \in Seq(Calls) /\ p.pend \in Seq(Calls) /\ p.steps \in Nat /\ p.out \in [Calls -> Outs]
  BY DEF Progress
<1>1. Answer(p, o) \in Progress
  BY AnswerPaired
<1>2. Head(p.pend) \in Calls /\ p.out[Head(p.pend)] = "none"
  BY FirstPending
<1>3. /\ Answer(p, o).done = Append(p.done, Head(p.pend)) /\ Answer(p, o).steps = p.steps
      /\ Answer(p, o).out = [p.out EXCEPT ![Head(p.pend)] = o]
  BY DEF Answer
<1>4. /\ Len(Append(p.done, Head(p.pend))) = Len(p.done) + 1 /\ Len(p.done) \in Nat
      /\ \A i \in 1..Len(p.done) : Append(p.done, Head(p.pend))[i] = p.done[i]
  BY <1>0, <1>2
<1>5. \A c \in Calls : c # Head(p.pend) => Answer(p, o).out[c] = p.out[c]
  BY <1>0, <1>3
<1>6. Kept(p, Answer(p, o))
  BY <1>0, <1>2, <1>3, <1>4, <1>5 DEF Kept
<1>7. Head(p.pend) \notin ActionCalls => Ahead(p, Answer(p, o))
  <2>1. ActionCalls \subseteq Calls
    BY DEF Calls
  <2> QED BY <1>5, <1>6, <2>1 DEF Ahead
<1> QED BY <1>0, <1>1, <1>2, <1>3, <1>6, <1>7

\* So is a step of the model.
LEMMA AddStepKept ==
  ASSUME NEW p \in Progress, NEW cs
  PROVE  Ahead(p, AddStep(p, cs))
<1>0. p.done \in Seq(Calls) /\ p.steps \in Nat
  BY DEF Progress
<1>1. AddStep(p, cs).done = p.done /\ AddStep(p, cs).steps = p.steps + 1 /\ AddStep(p, cs).out = p.out
  BY DEF AddStep
<1>2. Len(p.done) \in Nat
  BY <1>0
<1> QED BY <1>0, <1>1, <1>2 DEF Kept, Ahead

-----------------------------------------------------------------------------
(* What a step may do to a row.                                              *)

\* What the code reads and everyone else's writes are told by stays as it is.
SameRow(x) ==
  /\ task'[x].kind = task[x].kind /\ task'[x].prog = task[x].prog
  /\ task'[x].state = task[x].state /\ task'[x].owner = task[x].owner

Created(x) ==
  /\ task[x].state = "none" /\ task'[x].prog = NoProgress
  /\ \/ task'[x].kind = "agent" /\ task'[x].state = "queued"
     \/ task'[x].kind = "command" /\ task'[x].state = "awaiting_approval" /\ voice'[x]

Leased(w, x) ==
  /\ Leasable(x) /\ wk[w].pc = "idle"
  /\ task'[x].kind = task[x].kind /\ task'[x].prog = task[x].prog
  /\ task'[x].state = "running" /\ task'[x].owner = w

Cancelled(x) ==
  /\ task[x].state \notin Terminal \cup {"none"} /\ task'[x].state = "cancelled"
  /\ task'[x].kind = task[x].kind /\ task'[x].prog = task[x].prog

\* A worker that holds the task writes what it has.
Wrote(w, x) ==
  /\ Holds(w, x) /\ wk[w].pc = "loop" /\ wk[w].task = x
  /\ task'[x].kind = task[x].kind /\ Ahead(task[x].prog, task'[x].prog)
  /\ \/ task'[x].state = "running" /\ task'[x].owner = w /\ task'[x].prog = wk'[w].prog
     \/ task'[x].state \in Terminal
     \/ task'[x].state = "awaiting_confirmation" /\ wk'[w].pc = "askC" /\ wk'[w].task = x
     \/ task'[x].state = "awaiting_approval" /\ wk'[w].pc = "askA" /\ wk'[w].task = x

\* Who may bring the result o for call c of a task.
Source(x, c, o) ==
  \/ \E k \in ConfIds : /\ conf[k].at = "resume" /\ conf[k].task = x /\ conf[k].call = c
                        /\ o = IF conf[k].state = "confirmed" THEN "tool" ELSE "notdone"
                        /\ conf'[k].ran = conf[k].ran
  \/ \E a \in ApprIds : appr[a].row # "none" /\ appr[a].task = x /\ appr[a].call = c

\* A task that waits is ended, or queued again with a result.
Resumed(x) ==
  /\ task[x].state \in Waiting /\ task'[x].kind = task[x].kind
  /\ \/ /\ task[x].kind = "command" /\ task'[x].prog = task[x].prog
        /\ \/ task'[x].state = "failed"
           \/ task'[x].state = "succeeded" /\ \E a \in ApprIds : appr[a].task = x /\ appr[a].dev = "ran"
     \/ /\ task[x].kind = "agent" /\ task[x].prog.pend # <<>> /\ task'[x].state = "queued"
        /\ \E o \in {"tool", "notdone"} : /\ task'[x].prog = Answer(task[x].prog, o)
                                         /\ Source(x, Head(task[x].prog.pend), o)

RowRule(x) ==
  \/ SameRow(x) \/ Created(x) \/ Cancelled(x) \/ Resumed(x)
  \/ \E w \in Workers : Leased(w, x) \/ Wrote(w, x)

\* The rows start as NoRow and Outs.
LEMMA RowFields ==
  ASSUME TypeOK, NEW x \in Tasks
  PROVE  /\ task[x] \in Row /\ task[x].prog \in Progress /\ task[x].kind \in {"agent", "command"}
         /\ task[x].state \in TaskStates
BY DEF TypeOK, Row

\* ResumeTask, on its row and the others.
LEMMA ResumeEffect ==
  ASSUME TypeOK, NEW t, NEW c, NEW o \in {"tool", "notdone"}, ResumeTask(t, c, o), NEW x \in Tasks
  PROVE  \/ task'[x] = task[x] /\ (x = t => \/ task[x].state \notin Waiting
                                            \/ task[x].kind = "agent" /\ ~WaitsOn(x, c))
         \/ /\ x = t /\ task[x].state \in Waiting /\ task'[x].kind = task[x].kind
            /\ \/ /\ task[x].kind = "command" /\ task'[x].prog = task[x].prog
                  /\ task'[x].state = (IF o = "tool" THEN "succeeded" ELSE "failed")
               \/ /\ task[x].kind = "agent" /\ WaitsOn(x, c) /\ task'[x].state = "queued"
                  /\ task'[x].prog = Answer(task[x].prog, o)
<1>0. task[x] \in Row /\ task \in [Tasks -> Row] /\ task[x].kind \in {"agent", "command"}
  BY RowFields DEF TypeOK
<1>1. CASE task[t].state \notin Waiting
  BY <1>1 DEF ResumeTask
<1>2. CASE task[t].state \in Waiting /\ task[t].kind = "command"
  <2>1. task' = [task EXCEPT ![t].state = IF o = "tool" THEN "succeeded" ELSE "failed", ![t].result = o]
    BY <1>2 DEF ResumeTask
  <2>2. x # t => task'[x] = task[x]
    BY <1>0, <2>1
  <2>3. ASSUME x = t PROVE /\ task'[x].kind = task[x].kind /\ task'[x].prog = task[x].prog
                           /\ task'[x].state = (IF o = "tool" THEN "succeeded" ELSE "failed")
    BY <1>0, <2>1, <2>3 DEF Row
  <2> QED BY <1>2, <2>2, <2>3
<1>3. CASE task[t].state \in Waiting /\ task[t].kind # "command" /\ WaitsOn(t, c)
  <2>0. PICK a : a = Answer(task[t].prog, o)
    OBVIOUS
  <2>1. task' = [task EXCEPT ![t].state = "queued", ![t].prog = a]
    BY <1>3, <2>0 DEF ResumeTask
  <2>2. x # t => task'[x] = task[x]
    BY <1>0, <2>1
  <2>3. ASSUME x = t PROVE task'[x].kind = task[x].kind /\ task'[x].prog = a /\ task'[x].state = "queued"
    BY <1>0, <2>1, <2>3 DEF Row
  <2> QED BY <1>0, <1>3, <2>0, <2>2, <2>3
<1>4. CASE task[t].state \in Waiting /\ task[t].kind # "command" /\ ~WaitsOn(t, c)
  BY <1>0, <1>4 DEF ResumeTask
<1> QED BY <1>1, <1>2, <1>3, <1>4

\* What a worker computes from the copy of a task that it holds is ahead of the row.
LEMMA HolderAhead ==
  ASSUME TypeOK, WorkersInv, NEW w \in Workers, NEW t \in Tasks, Looping(w, t), Holds(w, t),
         NEW p \in Progress, Ahead(wk[w].prog, p)
  PROVE  Ahead(task[t].prog, p)
<1>1. wk[w].prog \in Progress /\ task[t].prog \in Progress
  BY RowFields DEF TypeOK, Worker
<1>2. Ahead(task[t].prog, wk[w].prog)
  BY DEF WorkersInv, Looping
<1> QED BY <1>1, <1>2, KeptTrans

\* SaveProgress, on its row and the others.
LEMMA SaveRule ==
  ASSUME TypeOK, WorkersInv, NEW w \in Workers, NEW t \in Tasks, Looping(w, t),
         NEW p \in Progress, Ahead(wk[w].prog, p), save(w, t, p), NEW x \in Tasks
  PROVE  RowRule(x)
<1>0. task[x] \in Row /\ task \in [Tasks -> Row] /\ wk \in [Workers -> Worker]
  BY DEF TypeOK
<1>1. CASE task' = task
  BY <1>1 DEF RowRule, SameRow
<1>2. CASE task' # task
  <2>1. Holds(w, t) /\ task' = [task EXCEPT ![t].prog = p]
    BY <1>2 DEF save, SaveProgress
  <2>2. CASE x # t
    BY <1>0, <2>1, <2>2 DEF RowRule, SameRow
  <2>3. CASE x = t
    <3>1. /\ task'[x].kind = task[x].kind /\ task'[x].state = task[x].state
          /\ task'[x].owner = task[x].owner /\ task'[x].prog = p
      BY <1>0, <2>1, <2>3 DEF Row
    <3>2. wk'[w].prog = p
      BY <1>0 DEF save, Worker
    <3>3. Ahead(task[x].prog, p)
      BY <2>1, <2>3, HolderAhead
    <3>4. Wrote(w, x)
      BY <2>1, <2>3, <3>1, <3>2, <3>3 DEF Wrote, Holds, Looping
    <3> QED BY <3>4 DEF RowRule
  <2> QED BY <2>2, <2>3
<1> QED BY <1>1, <1>2

\* SetTaskState, with what becomes of the worker.
LEMMA SetRule ==
  ASSUME TypeOK, WorkersInv, NEW w \in Workers, NEW t \in Tasks, Looping(w, t),
         NEW p \in Progress, Ahead(wk[w].prog, p), NEW st, SetTaskState(w, t, p, st), NEW x \in Tasks,
         Holds(w, t) => \/ st \in Terminal
                        \/ st = "awaiting_confirmation" /\ wk'[w].pc = "askC" /\ wk'[w].task = t
                        \/ st = "awaiting_approval" /\ wk'[w].pc = "askA" /\ wk'[w].task = t
  PROVE  RowRule(x)
<1>0. task[x] \in Row /\ task \in [Tasks -> Row]
  BY DEF TypeOK
<1>1. CASE ~Holds(w, t)
  BY <1>1 DEF SetTaskState, RowRule, SameRow
<1>2. CASE Holds(w, t)
  <2>1. PICK r : r = Released(task[t], st, p)
    OBVIOUS
  <2>2. task' = [task EXCEPT ![t] = r]
    BY <1>2, <2>1 DEF SetTaskState
  <2>3. CASE x # t
    BY <1>0, <2>2, <2>3 DEF RowRule, SameRow
  <2>4. CASE x = t
    <3>1. task'[x].kind = task[x].kind /\ task'[x].state = st /\ task'[x].prog = p
      BY <1>0, <2>1, <2>2, <2>4 DEF Released
    <3>2. Ahead(task[x].prog, p)
      BY <1>2, <2>4, HolderAhead
    <3>3. Wrote(w, x)
      BY <1>2, <2>4, <3>1, <3>2 DEF Wrote, Looping
    <3> QED BY <3>3 DEF RowRule
  <2> QED BY <2>3, <2>4
<1> QED BY <1>1, <1>2

\* ResumeTask with a source for its result.
LEMMA ResumeRule ==
  ASSUME TypeOK, NEW t, NEW c, NEW o \in {"tool", "notdone"}, ResumeTask(t, c, o), NEW x \in Tasks,
         x = t /\ task[x].kind = "agent" => Source(x, c, o),
         x = t /\ task[x].kind = "command" /\ o = "tool" =>
           \E a \in ApprIds : appr[a].task = x /\ appr[a].dev = "ran"
  PROVE  RowRule(x)
<1>1. CASE task'[x] = task[x]
  BY <1>1 DEF RowRule, SameRow
<1>2. CASE /\ x = t /\ task[x].state \in Waiting /\ task'[x].kind = task[x].kind
           /\ task[x].kind = "command" /\ task'[x].prog = task[x].prog
           /\ task'[x].state = (IF o = "tool" THEN "succeeded" ELSE "failed")
  <2>1. Resumed(x)
    BY <1>2 DEF Resumed
  <2> QED BY <2>1 DEF RowRule
<1>3. CASE /\ x = t /\ task[x].state \in Waiting /\ task'[x].kind = task[x].kind
           /\ task[x].kind = "agent" /\ WaitsOn(x, c) /\ task'[x].state = "queued"
           /\ task'[x].prog = Answer(task[x].prog, o)
  <2>1. Source(x, Head(task[x].prog.pend), o) /\ task[x].prog.pend # <<>>
    BY <1>3 DEF WaitsOn
  <2>2. Resumed(x)
    BY <1>3, <2>1 DEF Resumed
  <2> QED BY <2>2 DEF RowRule
<1> QED BY <1>1, <1>2, <1>3, ResumeEffect

\* Every step treats every row by the rule.
LEMMA RowRules ==
  ASSUME TypeOK, HistoryInv, AskInv, [Next]_vars, NEW x \in Tasks
  PROVE  RowRule(x)
<1>0. task[x] \in Row /\ task \in [Tasks -> Row] /\ wk \in [Workers -> Worker] /\ WorkersInv
      /\ \A w \in Workers : wk[w].prog \in Progress
  BY DEF TypeOK, AskInv, Worker
<1>1. ASSUME UNCHANGED task PROVE RowRule(x)
  BY <1>1 DEF RowRule, SameRow
<1>2. ASSUME NEW t \in Tasks, startTask(t) PROVE RowRule(x)
  BY <1>0, <1>2 DEF startTask, CreateTask, NoRow, RowRule, SameRow, Created
<1>3. ASSUME NEW t \in Tasks, awaitApproval(t) PROVE RowRule(x)
  BY <1>0, <1>3 DEF awaitApproval, CreateTask, NoRow, RowRule, SameRow, Created, TypeOK
<1>4. ASSUME NEW t \in Tasks, Cancel(t) PROVE RowRule(x)
  <2>1. PICK r : r = Released(task[t], "cancelled", task[t].prog)
    OBVIOUS
  <2>2. task' = [task EXCEPT ![t] = r] /\ task[t].state \notin Terminal \cup {"none"}
    BY <1>4, <2>1 DEF Cancel, CancelTask
  <2> QED BY <1>0, <2>1, <2>2 DEF Released, RowRule, SameRow, Cancelled
<1>5. ASSUME NEW t \in Tasks, LeaseLapses(t) PROVE RowRule(x)
  BY <1>0, <1>5 DEF LeaseLapses, RowRule, SameRow, Row
<1>6. ASSUME NEW w \in Workers, NEW t \in Tasks, taskWorker(w, t) PROVE RowRule(x)
  <2>1. CASE x # t
    BY <1>0, <1>6, <2>1 DEF taskWorker, LeaseTask, RowRule, SameRow
  <2>2. CASE x = t
    <3>1. Leased(w, x)
      BY <1>0, <1>6, <2>2 DEF taskWorker, LeaseTask, Leased, Row
    <3> QED BY <3>1 DEF RowRule
  <2> QED BY <2>1, <2>2
<1>7. ASSUME NEW w \in Workers, NEW t \in Tasks, Renew(w, t) PROVE RowRule(x)
  BY <1>0, <1>7 DEF Renew, RenewLease, RowRule, SameRow, Row
<1>8. ASSUME NEW w \in Workers, NEW t \in Tasks, WorkerStep(w, t) \/ decideAgain(w, t)
      PROVE  RowRule(x)
  <2>0. PICK p \in Progress : p = wk[w].prog /\ Paired(p) /\ Ahead(wk[w].prog, p) /\ Good(p, used)
    BY <1>0, KeptTrans DEF HistoryInv, Good
  <2>1. CASE runCall(w, t)
    <3>1. p.pend # <<>> /\ Head(p.pend) \in ReadCalls \cup DeviceCalls
      BY <2>0, <2>1 DEF runCall
    <3>2. Answer(p, "tool") \in Progress /\ Ahead(p, Answer(p, "tool"))
      BY <2>0, <3>1, AnswerKept, CallsAssumption
    <3> QED BY <2>0, <2>1, <3>2, <1>0, SaveRule DEF runCall
  <2>2. CASE pauseTask(w, t)
    <3>1. Looping(w, t) /\ (Holds(w, t) => wk[w].pc = "loop" /\ wk[w].task = t)
      BY <2>2 DEF pauseTask, Looping
    <3>2. \/ SetTaskState(w, t, p, "awaiting_confirmation") /\ (Holds(w, t) => wk'[w].pc = "askC" /\ wk'[w].task = t)
          \/ SetTaskState(w, t, p, "awaiting_approval") /\ (Holds(w, t) => wk'[w].pc = "askA" /\ wk'[w].task = t)
      BY <1>0, <2>0, <2>2, <3>1 DEF pauseTask, Worker
    <3> QED BY <1>0, <2>0, <3>1, <3>2, SetRule
  <2>3. CASE decide(w, t)
    <3>1. PICK cs \in FreshCalls : \/ finish(w, t, AddStep(p, cs), "succeeded")
                                   \/ save(w, t, AddStep(p, cs))
      BY <2>0, <2>3 DEF decide
    <3>2. AddStep(p, cs) \in Progress /\ Ahead(p, AddStep(p, cs))
      <4>1. p.pend = <<>> /\ used \in SUBSET Calls
        BY <2>0, <2>3 DEF decide, TypeOK
      <4> QED BY <2>0, <4>1, AddStepPaired, AddStepKept DEF Good
    <3>3. Looping(w, t) /\ "succeeded" \in Terminal
      BY <2>3 DEF decide, Terminal
    <3> QED BY <1>0, <2>0, <3>1, <3>2, <3>3, SaveRule, SetRule DEF finish
  <2>4. CASE giveUp(w, t)
    BY <1>0, <2>0, <2>4, SetRule DEF giveUp, finish, Terminal
  <2>5. CASE LoseLease(w, t) \/ pauseTaskAsk(w, t) \/ pauseTaskApproval(w, t) \/ decideAgain(w, t)
    BY <1>1, <2>5 DEF LoseLease, pauseTaskAsk, pauseTaskApproval, decideAgain
  <2> QED BY <1>8, <2>1, <2>2, <2>3, <2>4, <2>5 DEF WorkerStep
<1>9. ASSUME NEW k \in ConfIds, resumeAnswered(k) PROVE RowRule(x)
  <2>0. PICK o \in {"tool", "notdone"} : o = IF conf[k].state = "confirmed" THEN "tool" ELSE "notdone"
    OBVIOUS
  <2>1. PICK t, c : t = conf[k].task /\ c = conf[k].call
    OBVIOUS
  <2>2. ResumeTask(t, c, o) /\ conf[k].at = "resume" /\ conf' = [conf EXCEPT ![k].at = "none"]
    BY <1>9, <2>0, <2>1 DEF resumeAnswered
  <2>3. conf[k] \in Confirmation /\ conf[k].state # "none"
    BY <2>2 DEF AskInv, ConfInv, TypeOK
  <2>4. task[t].kind = "agent" /\ conf'[k].ran = conf[k].ran
    BY <2>1, <2>2, <2>3 DEF AskInv, ConfInv, TypeOK, Confirmation
  <2>5. x = t => Source(x, c, o)
    BY <2>0, <2>1, <2>2, <2>4 DEF Source
  <2> QED BY <2>2, <2>4, <2>5, ResumeRule
<1>10. ASSUME NEW s \in Submitters, NEW a \in ApprIds, resumeSubmitted(s, a)
       PROVE  RowRule(x)
  <2>0. PICK o \in {"tool", "notdone"} : o = IF sub[s].pc = "resume" THEN "tool" ELSE "notdone"
    OBVIOUS
  <2>1. PICK t, c : t = appr[a].task /\ c = appr[a].call
    OBVIOUS
  <2>2. ResumeTask(t, c, o) /\ sub[s].pc \in {"resume", "dropped"} /\ sub[s].appr = a
    BY <1>10, <2>0, <2>1 DEF resumeSubmitted
  <2>3. appr[a].row # "none" /\ (o = "tool" => appr[a].dev = "ran")
    BY <2>0, <2>1, <2>2 DEF AskInv, ApprInv
  <2>4. x = t => Source(x, c, o)
    BY <2>1, <2>3 DEF Source
  <2> QED BY <2>1, <2>2, <2>3, <2>4, ResumeRule
<1>11. ASSUME NEW a \in ApprIds, dropApproval(a) PROVE RowRule(x)
  <2>1. PICK t, c : t = appr[a].task /\ c = appr[a].call
    OBVIOUS
  <2>2. ResumeTask(t, c, "notdone") /\ appr[a].row # "none"
    BY <1>11, <2>1 DEF dropApproval
  <2>3. x = t => Source(x, c, "notdone")
    BY <2>1, <2>2 DEF Source
  <2> QED BY <2>2, <2>3, ResumeRule
<1>14. ASSUME NEW t \in Tasks, awaitApprovalSave(t) \/ Overdue(t) PROVE UNCHANGED task
  BY <1>14 DEF awaitApprovalSave, Overdue
<1>15. ASSUME NEW k \in ConfIds,
              settle(k) \/ runAction(k) \/ maintenanceConfirmation(k) \/ ConfirmationLate(k)
       PROVE  UNCHANGED task
  BY <1>15 DEF settle, runAction, maintenanceConfirmation, ConfirmationLate
<1>16. ASSUME NEW s \in Submitters, NEW a \in ApprIds,
              \/ SubmitApproval(s, a) \/ execDevice(s, a) \/ commandEnds(s, a)
              \/ deleteSubmitted(s, a)
       PROVE  UNCHANGED task
  BY <1>16 DEF SubmitApproval, execDevice, commandEnds, deleteSubmitted
<1>17. ASSUME NEW a \in ApprIds, expireApprovals(a) \/ ApprovalLate(a) \/ DaemonForgets(a)
       PROVE  UNCHANGED task
  BY <1>17 DEF expireApprovals, ApprovalLate, DaemonForgets
<1>18. ASSUME HandlerLost \/ RemoveDevice \/ (\E w \in Workers : WorkerLost(w)) \/ UNCHANGED vars
       PROVE  UNCHANGED task
  BY <1>18 DEF HandlerLost, RemoveDevice, WorkerLost, vars
<1> QED
  BY <1>1, <1>2, <1>3, <1>4, <1>5, <1>6, <1>7, <1>8, <1>9, <1>10, <1>11, <1>14, <1>15, <1>16,
     <1>17, <1>18
  DEF Next, SubmitStep

\* A row's history only grows, whatever rule a step follows; a task keeps its
\* kind, and a call that was reached stays so.
LEMMA RowGrows ==
  ASSUME TypeOK, HistoryInv, RowsInv, NEW x \in Tasks, RowRule(x)
  PROVE  /\ Kept(task[x].prog, task'[x].prog)
         /\ task[x].state # "none" => task'[x].state # "none" /\ task'[x].kind = task[x].kind
         /\ \A c \in Calls, st \in Waiting : Reached(x, c, st) => Reached(x, c, st)'
<1>0. task[x] \in Row /\ task[x].prog \in Progress /\ Paired(task[x].prog)
  BY RowFields DEF HistoryInv, Good
<1>1. CASE SameRow(x)
  BY <1>0, <1>1, KeptTrans DEF SameRow, Reached, Rests, WaitsOn
<1>2. CASE Created(x)
  <2>1. task[x].prog = NoProgress /\ task'[x].prog = NoProgress /\ task[x].state = "none"
    BY <1>2 DEF RowsInv, Created
  <2>2. Kept(task[x].prog, task'[x].prog)
    BY <1>0, <2>1, KeptTrans
  <2>3. ASSUME NEW c \in Calls, NEW st PROVE ~Reached(x, c, st)
    BY <2>1 DEF Reached, Rests, WaitsOn, NoProgress
  <2> QED BY <2>1, <2>2, <2>3
<1>3. CASE Cancelled(x)
  BY <1>0, <1>3, KeptTrans DEF Cancelled, Reached, Rests, WaitsOn, Terminal
<1>4. CASE Resumed(x) /\ task[x].kind = "command"
  BY <1>0, <1>4, KeptTrans DEF Resumed, Reached, Rests, WaitsOn, Terminal
<1>5. CASE Resumed(x) /\ task[x].kind # "command"
  <2>1. PICK o \in {"tool", "notdone"} : task'[x].prog = Answer(task[x].prog, o)
    BY <1>5 DEF Resumed
  <2>2. /\ task[x].prog.pend # <<>> /\ task'[x].state = "queued" /\ task'[x].kind = task[x].kind
    BY <1>5 DEF Resumed
  <2>3. /\ Kept(task[x].prog, task'[x].prog)
        /\ task'[x].prog.out[Head(task[x].prog.pend)] = o
    <3>1. PICK p \in Progress : p = task[x].prog
      BY <1>0
    <3>2. Kept(p, Answer(p, o)) /\ Answer(p, o).out[Head(p.pend)] = o
      BY <1>0, <2>2, <3>1, AnswerKept
    <3>3. task'[x].prog = Answer(p, o)
      BY <2>1, <3>1
    <3> QED BY <3>1, <3>2, <3>3
  <2>4. ASSUME NEW c \in Calls, NEW st \in Waiting, Reached(x, c, st) PROVE Reached(x, c, st)'
    <3>1. CASE task[x].prog.out[c] # "none"
      BY <2>3, <3>1 DEF Kept, Reached
    <3>2. CASE Rests(x, c, st)
      BY <2>3, <3>2 DEF Rests, WaitsOn, Reached
    <3> QED BY <2>4, <3>1, <3>2 DEF Reached
  <2> QED BY <2>2, <2>3, <2>4
<1>6. CASE \E w \in Workers : Leased(w, x)
  BY <1>0, <1>6, KeptTrans DEF Leased, Leasable, Reached, Rests, WaitsOn, Terminal, Waiting
<1>7. CASE \E w \in Workers : Wrote(w, x)
  <2>1. PICK w \in Workers : Wrote(w, x)
    BY <1>7
  <2>2. /\ task[x].state = "running" /\ task'[x].kind = task[x].kind /\ Kept(task[x].prog, task'[x].prog)
        /\ task'[x].state # "none"
    BY <2>1 DEF Wrote, Holds, Ahead, Terminal
  <2>3. ASSUME NEW c \in Calls, NEW st \in Waiting, Reached(x, c, st) PROVE Reached(x, c, st)'
    BY <2>2, <2>3 DEF Reached, Rests, Waiting, Terminal, Kept
  <2> QED BY <2>2, <2>3
<1> QED BY <1>1, <1>2, <1>3, <1>4, <1>5, <1>6, <1>7 DEF RowRule

\* No step breaks what a row's kind and state say of each other.
LEMMA RowsStep ==
  ASSUME TypeOK, HistoryInv, AskInv, [Next]_vars
  PROVE  RowsInv'
<1> SUFFICES ASSUME NEW x \in Tasks
             PROVE  /\ task'[x].state = "none" => task'[x].prog = NoProgress
                    /\ task'[x].kind = "command" =>
                         task'[x].state \notin {"queued", "running", "awaiting_confirmation"}
  BY DEF RowsInv
<1>0. /\ task[x].state = "none" => task[x].prog = NoProgress
      /\ task[x].kind = "command" => task[x].state \notin {"queued", "running", "awaiting_confirmation"}
  BY DEF AskInv, RowsInv
<1>1. RowRule(x)
  BY RowRules
<1>3. CASE SameRow(x)
  BY <1>0, <1>3 DEF SameRow
<1>4. CASE Created(x) \/ Cancelled(x) \/ Resumed(x)
  BY <1>4 DEF Created, Cancelled, Resumed, Waiting
<1>5. CASE \E w \in Workers : Leased(w, x) \/ Wrote(w, x)
  <2>1. task[x].kind = "agent" /\ task'[x].kind = task[x].kind
    BY <1>0, <1>5, RowFields DEF Leased, Leasable, Wrote, Holds
  <2>2. task'[x].state # "none"
    BY <1>5 DEF Leased, Wrote, Terminal
  <2> QED BY <2>1, <2>2
<1> QED BY <1>1, <1>3, <1>4, <1>5 DEF RowRule

-----------------------------------------------------------------------------
(* What a step may do to a worker.                                           *)

SameWorker(w) == wk'[w].pc = wk[w].pc /\ wk'[w].task = wk[w].task /\ wk'[w].prog = wk[w].prog

Took(w) ==
  /\ wk[w].pc = "idle" /\ wk'[w].pc = "loop"
  /\ \E x \in Tasks : wk'[w].task = x /\ Leased(w, x) /\ wk'[w].prog = task[x].prog

\* The worker goes on, whether its copy was written to the row or not.
WentOn(w) ==
  /\ wk[w].pc = "loop" /\ wk'[w].pc = "loop" /\ wk'[w].task = wk[w].task
  /\ wk'[w].prog \in Progress /\ Ahead(wk[w].prog, wk'[w].prog)
  /\ SameRow(wk[w].task) \/ task'[wk[w].task].prog = wk'[w].prog

Paused(w) ==
  /\ wk[w].pc = "loop" /\ wk'[w].task = wk[w].task /\ wk'[w].prog = wk[w].prog
  /\ wk[w].prog.pend # <<>> /\ Holds(w, wk[w].task)
  /\ task'[wk[w].task].prog = wk[w].prog /\ UNCHANGED <<conf, appr>>
  /\ \/ wk'[w].pc = "askC" /\ Asked(w) \in ActionCalls /\ task'[wk[w].task].state = "awaiting_confirmation"
     \/ wk'[w].pc = "askA" /\ Asked(w) \in DeviceCalls /\ task'[wk[w].task].state = "awaiting_approval"

WorkerRule(w) == SameWorker(w) \/ wk'[w].pc = "idle" \/ Took(w) \/ WentOn(w) \/ Paused(w)

\* save, seen from the worker that calls it.
LEMMA SaveWorker ==
  ASSUME TypeOK, NEW w \in Workers, NEW t \in Tasks, Looping(w, t),
         NEW p \in Progress, Ahead(wk[w].prog, p), save(w, t, p)
  PROVE  WentOn(w)
<1>0. task[t] \in Row /\ task \in [Tasks -> Row] /\ wk \in [Workers -> Worker] /\ wk[w].task = t
      /\ wk[w].pc = "loop"
  BY DEF TypeOK, Looping
<1>1. wk'[w].pc = "loop" /\ wk'[w].task = t /\ wk'[w].prog = p
  BY <1>0 DEF save, Worker
<1>2. task' = task \/ task' = [task EXCEPT ![t].prog = p]
  BY DEF save, SaveProgress
<1>3. SameRow(t) \/ task'[t].prog = p
  <2>1. CASE task' = task
    BY <2>1 DEF SameRow
  <2>2. CASE task' = [task EXCEPT ![t].prog = p]
    BY <1>0, <2>2 DEF Row
  <2> QED BY <1>2, <2>1, <2>2
<1> QED BY <1>0, <1>1, <1>3 DEF WentOn

\* Every step treats every worker by the rule.
LEMMA WorkerRules ==
  ASSUME TypeOK, HistoryInv, AskInv, [Next]_vars, NEW v \in Workers
  PROVE  WorkerRule(v)
<1>0. task \in [Tasks -> Row] /\ wk \in [Workers -> Worker] /\ wk[v] \in Worker
      /\ \A w \in Workers : wk[w].prog \in Progress
  BY DEF TypeOK, Worker
<1>1. ASSUME UNCHANGED wk PROVE WorkerRule(v)
  BY <1>1 DEF WorkerRule, SameWorker
<1>2. ASSUME NEW w, wk' = [wk EXCEPT ![w] = Idle] PROVE WorkerRule(v)
  BY <1>0, <1>2 DEF WorkerRule, SameWorker, Idle
<1>3. ASSUME NEW w \in Workers, NEW t \in Tasks, taskWorker(w, t) PROVE WorkerRule(v)
  <2>1. CASE v # w
    BY <1>0, <1>3, <2>1 DEF taskWorker, WorkerRule, SameWorker
  <2>2. CASE v = w
    <3>1. Leased(w, t)
      BY <1>0, <1>3 DEF taskWorker, LeaseTask, Leased, Row
    <3>2. Took(v)
      BY <1>0, <1>3, <2>2, <3>1 DEF taskWorker, Took
    <3> QED BY <3>2 DEF WorkerRule
  <2> QED BY <2>1, <2>2
<1>4. ASSUME NEW w \in Workers, NEW t \in Tasks, Looping(w, t), NEW p \in Progress,
             Ahead(wk[w].prog, p), save(w, t, p)
      PROVE  WorkerRule(v)
  <2>1. CASE v # w
    BY <1>0, <1>4, <2>1 DEF save, WorkerRule, SameWorker
  <2>2. CASE v = w
    BY <1>4, <2>2, SaveWorker DEF WorkerRule
  <2> QED BY <2>1, <2>2
<1>5. ASSUME NEW w \in Workers, NEW t \in Tasks, WorkerStep(w, t) PROVE WorkerRule(v)
  <2>0. PICK p \in Progress : p = wk[w].prog /\ Paired(p) /\ Good(p, used)
    BY <1>0 DEF HistoryInv, Good
  <2>1. CASE runCall(w, t)
    <3>1. p.pend # <<>> /\ Head(p.pend) \in ReadCalls \cup DeviceCalls
      BY <2>0, <2>1 DEF runCall
    <3>2. Answer(p, "tool") \in Progress /\ Ahead(p, Answer(p, "tool"))
      BY <2>0, <3>1, AnswerKept, CallsAssumption
    <3> QED BY <2>0, <2>1, <3>2, <1>4 DEF runCall
  <2>2. CASE pauseTask(w, t)
    <3>1. CASE ~Holds(w, t)
      BY <1>2, <2>2, <3>1 DEF pauseTask
    <3>2. CASE Holds(w, t)
      <4>1. PICK q \in {"askC", "askA"} :
              /\ wk' = [wk EXCEPT ![w].pc = q]
              /\ q = "askC" => /\ Head(p.pend) \in ActionCalls
                               /\ SetTaskState(w, t, p, "awaiting_confirmation")
              /\ q = "askA" => Head(p.pend) \in DeviceCalls /\ SetTaskState(w, t, p, "awaiting_approval")
        BY <2>0, <2>2, <3>2 DEF pauseTask
      <4>2. CASE v # w
        BY <1>0, <4>1, <4>2 DEF WorkerRule, SameWorker
      <4>3. CASE v = w
        <5>1. wk'[v].pc = q /\ wk'[v].task = wk[v].task /\ wk'[v].prog = wk[v].prog
          BY <1>0, <4>1, <4>3 DEF Worker
        <5>2. PICK st : /\ SetTaskState(w, t, p, st)
                        /\ q = "askC" => st = "awaiting_confirmation"
                        /\ q = "askA" => st = "awaiting_approval"
          BY <4>1
        <5>3. PICK r : r = Released(task[t], st, p)
          OBVIOUS
        <5>4. task' = [task EXCEPT ![t] = r]
          BY <3>2, <5>2, <5>3 DEF SetTaskState
        <5>5. task'[t].prog = p /\ task'[t].state = st
          BY <1>0, <5>3, <5>4 DEF Released
        <5>6. /\ wk[v].pc = "loop" /\ wk[v].task = t /\ wk[v].prog.pend # <<>> /\ Holds(v, t)
              /\ UNCHANGED <<conf, appr>>
          BY <2>2, <3>2, <4>3 DEF pauseTask, Looping
        <5>7. Paused(v)
          BY <2>0, <4>1, <4>3, <5>1, <5>2, <5>5, <5>6 DEF Paused, Asked
        <5> QED BY <5>7 DEF WorkerRule
      <4> QED BY <4>2, <4>3
    <3> QED BY <3>1, <3>2
  <2>3. CASE decide(w, t)
    <3>1. PICK cs \in FreshCalls : \/ finish(w, t, AddStep(p, cs), "succeeded")
                                   \/ save(w, t, AddStep(p, cs))
      BY <2>0, <2>3 DEF decide
    <3>2. AddStep(p, cs) \in Progress /\ Ahead(p, AddStep(p, cs))
      <4>1. p.pend = <<>> /\ used \in SUBSET Calls
        BY <2>0, <2>3 DEF decide, TypeOK
      <4> QED BY <2>0, <4>1, AddStepPaired, AddStepKept DEF Good
    <3> QED BY <1>2, <1>4, <2>0, <2>3, <3>1, <3>2 DEF finish, decide
  <2>4. CASE LoseLease(w, t) \/ pauseTaskAsk(w, t) \/ pauseTaskApproval(w, t) \/ giveUp(w, t)
    BY <1>2, <2>4 DEF LoseLease, pauseTaskAsk, pauseTaskApproval, giveUp, finish
  <2> QED BY <1>5, <2>1, <2>2, <2>3, <2>4 DEF WorkerStep
<1>6. ASSUME NEW w \in Workers, NEW t \in Tasks, decideAgain(w, t) PROVE WorkerRule(v)
  BY <1>0, <1>6 DEF decideAgain, WorkerRule, SameWorker, Worker
<1>7. ASSUME NEW w \in Workers, WorkerLost(w) PROVE WorkerRule(v)
  BY <1>2, <1>7 DEF WorkerLost
<1>8. ASSUME NEW t \in Tasks, \/ startTask(t) \/ awaitApproval(t) \/ awaitApprovalSave(t) \/ Cancel(t)
                              \/ Overdue(t) \/ LeaseLapses(t)
      PROVE  UNCHANGED wk
  BY <1>8 DEF startTask, awaitApproval, awaitApprovalSave, Cancel, Overdue, LeaseLapses
<1>9. ASSUME NEW w \in Workers, NEW t \in Tasks, Renew(w, t) PROVE UNCHANGED wk
  BY <1>9 DEF Renew
<1>10. ASSUME NEW k \in ConfIds, \/ settle(k) \/ runAction(k) \/ maintenanceConfirmation(k)
                                 \/ resumeAnswered(k) \/ ConfirmationLate(k)
       PROVE  UNCHANGED wk
  BY <1>10 DEF settle, runAction, maintenanceConfirmation, resumeAnswered, ConfirmationLate
<1>11. ASSUME NEW s \in Submitters, NEW a \in ApprIds, SubmitApproval(s, a) \/ SubmitStep(s, a)
       PROVE  UNCHANGED wk
  BY <1>11 DEF SubmitApproval, SubmitStep, execDevice, commandEnds, deleteSubmitted, resumeSubmitted
<1>12. ASSUME NEW a \in ApprIds, \/ expireApprovals(a) \/ dropApproval(a)
                                 \/ ApprovalLate(a) \/ DaemonForgets(a)
       PROVE  UNCHANGED wk
  BY <1>12 DEF expireApprovals, dropApproval, ApprovalLate, DaemonForgets
<1>13. ASSUME HandlerLost \/ RemoveDevice \/ UNCHANGED vars PROVE UNCHANGED wk
  BY <1>13 DEF HandlerLost, RemoveDevice, vars
<1> QED
  BY <1>1, <1>3, <1>5, <1>6, <1>7, <1>8, <1>9, <1>10, <1>11, <1>12, <1>13 DEF Next

\* A task that is being asked about is not answered meanwhile: its question or
\* approval does not exist yet.
LEMMA AskerRests ==
  ASSUME TypeOK, HistoryInv, AskInv, [Next]_vars, NEW w \in Workers,
         NEW st, \/ wk[w].pc = "askC" /\ st = "awaiting_confirmation"
                 \/ wk[w].pc = "askA" /\ st = "awaiting_approval"
  PROVE  /\ wk[w].task \in Tasks /\ Asked(w) \in Calls /\ Rests(wk[w].task, Asked(w), st)
         /\ task'[wk[w].task].prog = task[wk[w].task].prog
         /\ task'[wk[w].task].state \in {st} \cup Terminal
<1>1. PICK x \in Tasks : x = wk[w].task
  BY DEF AskInv, WorkersInv
<1>2. PICK c \in ActionCalls \cup DeviceCalls :
        /\ c = Asked(w) /\ Rests(x, c, st) /\ task[x].kind = "agent" /\ task[x].state # "none"
        /\ wk[w].pc = "askC" => c \in ActionCalls
        /\ wk[w].pc = "askA" => c \in DeviceCalls
  BY <1>1 DEF AskInv, WorkersInv
<1>3. c \in Calls
  BY <1>2 DEF Calls
<1>4. ~Resumed(x)
  <2> SUFFICES ASSUME Resumed(x) PROVE FALSE
    OBVIOUS
  <2>1. PICK o \in {"tool", "notdone"} : Source(x, c, o)
    BY <1>2 DEF Resumed, Rests, WaitsOn
  <2>2. CASE \E k \in ConfIds : conf[k].at = "resume" /\ conf[k].task = x /\ conf[k].call = c
    <3>1. PICK k \in ConfIds : conf[k].at = "resume" /\ conf[k].task = x /\ conf[k].call = c
      BY <2>2
    <3>2. conf[k].state # "none"
      BY <3>1 DEF AskInv, ConfInv
    <3>3. c \in ActionCalls
      BY <3>1, <3>2 DEF AskInv, ConfInv
    <3>4. wk[w].pc = "askC"
      BY <1>2, <3>3, CallsAssumption
    <3> QED BY <1>1, <1>2, <3>1, <3>4 DEF AskInv, ConfInv
  <2>3. CASE \E a \in ApprIds : appr[a].row # "none" /\ appr[a].task = x /\ appr[a].call = c
    <3>1. PICK a \in ApprIds : appr[a].row # "none" /\ appr[a].task = x /\ appr[a].call = c
      BY <2>3
    <3>2. c \in DeviceCalls
      BY <1>3, <3>1, CallsAssumption DEF AskInv, ApprInv
    <3>3. wk[w].pc = "askA"
      BY <1>2, <3>2, CallsAssumption
    <3> QED BY <1>1, <1>2, <3>1, <3>3 DEF AskInv, ApprInv
  <2> QED BY <2>1, <2>2, <2>3 DEF Source
<1>5. RowRule(x) /\ ~Created(x) /\ (\A v \in Workers : ~Leased(v, x) /\ ~Wrote(v, x))
  BY <1>2, RowRules DEF Created, Leased, Leasable, Wrote, Holds, Rests, Terminal
<1>6. task'[x].prog = task[x].prog /\ task'[x].state \in {st} \cup Terminal
  BY <1>2, <1>4, <1>5 DEF RowRule, SameRow, Cancelled, Rests, Terminal
<1> QED BY <1>1, <1>2, <1>3, <1>6

\* What a worker that goes on knows of its task.
LEMMA WorkerKnows ==
  ASSUME TypeOK, TypeOK', HistoryInv, AskInv, [Next]_vars, NEW w \in Workers, wk'[w].pc # "idle"
  PROVE  /\ wk'[w].task \in Tasks /\ task'[wk'[w].task].kind = "agent" /\ task'[wk'[w].task].state # "none"
         /\ wk'[w].pc = "loop" /\ Holds(w, wk[w].task)' => Ahead(task'[wk'[w].task].prog, wk'[w].prog)
         /\ wk'[w].pc = "askC" =>
              Asked(w)' \in ActionCalls /\ Rests(wk[w].task, Asked(w), "awaiting_confirmation")'
         /\ wk'[w].pc = "askA" =>
              Asked(w)' \in DeviceCalls /\ Rests(wk[w].task, Asked(w), "awaiting_approval")'
<1>0. WorkerRule(w) /\ \A x \in Tasks : RowRule(x) /\ task[x].prog \in Progress /\ task'[x].prog \in Progress
  BY WorkerRules, RowRules DEF TypeOK, Row
<1>1. wk[w] \in Worker /\ wk'[w] \in Worker /\ wk[w].prog \in Progress /\ wk'[w].prog \in Progress
  BY DEF TypeOK, Worker
<1>2. CASE Took(w)
  <2>1. PICK x \in Tasks : wk'[w].task = x /\ Leased(w, x) /\ wk'[w].prog = task[x].prog
    BY <1>2 DEF Took
  <2>2. wk'[w].pc = "loop" /\ task'[x].prog = wk'[w].prog /\ task'[x].state # "none"
    BY <1>2, <2>1 DEF Took, Leased
  <2>3. task'[x].kind = "agent"
    BY <2>1, RowFields DEF Leased, Leasable, AskInv, RowsInv
  <2> QED BY <1>1, <2>1, <2>2, <2>3, KeptTrans
<1>3. ASSUME ~Took(w) PROVE wk[w].pc # "idle" /\ wk'[w].task = wk[w].task
  BY <1>0, <1>3 DEF WorkerRule, SameWorker, WentOn, Paused
<1>4. ASSUME ~Took(w) PROVE /\ wk[w].task \in Tasks /\ task'[wk[w].task].kind = "agent"
                            /\ task'[wk[w].task].state # "none" /\ task[wk[w].task].state # "none"
  <2>1. PICK x \in Tasks : x = wk[w].task /\ task[x].kind = "agent" /\ task[x].state # "none"
    BY <1>3, <1>4 DEF AskInv, WorkersInv
  <2>2. RowRule(x) /\ RowsInv
    BY <1>0 DEF AskInv
  <2> QED BY <2>1, <2>2, RowGrows
<1>5. CASE SameWorker(w) /\ wk'[w].pc = "loop"
  <2>1. PICK x \in Tasks : x = wk[w].task /\ task[x].state # "none"
    BY <1>4, <1>5 DEF SameWorker, Took
  <2>2. ASSUME Holds(w, x)' PROVE Ahead(task'[x].prog, wk'[w].prog)
    <3>1. task'[x].state = "running" /\ task'[x].owner = w
      BY <2>2 DEF Holds
    <3>2. CASE SameRow(x)
      <4>1. Holds(w, x) /\ wk[w].pc = "loop" /\ wk[w].pc # "idle"
        BY <1>5, <3>1, <3>2 DEF SameRow, SameWorker, Holds
      <4>2. Ahead(task[x].prog, wk[w].prog)
        BY <2>1, <4>1 DEF AskInv, WorkersInv
      <4> QED BY <1>5, <3>2, <4>2 DEF SameRow, SameWorker
    <3>3. CASE \E v \in Workers : Wrote(v, x)
      <4>1. task'[x].prog = wk'[w].prog
        BY <3>1, <3>3 DEF Wrote, Terminal
      <4> QED BY <1>1, <4>1, KeptTrans
    <3>4. ~Created(x) /\ ~Cancelled(x) /\ ~Resumed(x) /\ \A v \in Workers : ~Leased(v, x)
      BY <1>5, <2>1, <3>1 DEF Created, Cancelled, Resumed, Leased, SameWorker
    <3> QED BY <1>0, <3>2, <3>3, <3>4 DEF RowRule
  <2>3. ~Took(w)
    BY <1>5 DEF SameWorker, Took
  <2>4. wk'[w].task = x
    BY <2>1, <2>3, <1>3
  <2>5. Holds(w, wk[w].task)' => Ahead(task'[wk'[w].task].prog, wk'[w].prog)
    BY <2>2, <2>4 DEF Holds
  <2> QED BY <1>3, <1>4, <1>5, <2>3, <2>5
<1>6. CASE SameWorker(w) /\ wk'[w].pc # "loop"
  <2>1. PICK st : \/ wk[w].pc = "askC" /\ st = "awaiting_confirmation"
                  \/ wk[w].pc = "askA" /\ st = "awaiting_approval"
    BY <1>1, <1>6 DEF Worker, SameWorker
  <2>2. /\ wk[w].task \in Tasks /\ Rests(wk[w].task, Asked(w), st)
        /\ task'[wk[w].task].prog = task[wk[w].task].prog
        /\ task'[wk[w].task].state \in {st} \cup Terminal
    BY <2>1, AskerRests
  <2>3. PICK x \in Tasks : x = wk[w].task /\ wk'[w].task = x
    BY <1>6, <2>2 DEF SameWorker
  <2>4. Asked(w)' = Asked(w)
    BY <1>6 DEF SameWorker, Asked
  <2>5. Rests(wk[w].task, Asked(w), st)'
    BY <2>2, <2>3, <2>4 DEF Rests, WaitsOn
  <2>6. /\ wk[w].pc = "askC" => Asked(w) \in ActionCalls
        /\ wk[w].pc = "askA" => Asked(w) \in DeviceCalls
    BY DEF AskInv, WorkersInv
  <2>7. ~Took(w) /\ wk'[w].pc = wk[w].pc
    BY <1>6 DEF SameWorker, Took
  <2> QED BY <1>3, <1>4, <1>6, <2>1, <2>4, <2>5, <2>6, <2>7
<1>7. CASE WentOn(w)
  <2>1. ~Took(w)
    BY <1>7 DEF WentOn, Took
  <2>2. PICK x \in Tasks : x = wk[w].task /\ wk'[w].task = x
    BY <1>3, <1>4, <2>1
  <2>3. ASSUME Holds(w, x)' PROVE Ahead(task'[x].prog, wk'[w].prog)
    <3>1. CASE task'[x].prog = wk'[w].prog
      BY <1>1, <3>1, KeptTrans
    <3>2. CASE SameRow(x)
      <4>1. Holds(w, x)
        BY <2>3, <3>2 DEF SameRow, Holds
      <4>2. Ahead(task[x].prog, wk[w].prog)
        BY <1>7, <2>2, <4>1 DEF AskInv, WorkersInv, WentOn
      <4>3. Ahead(wk[w].prog, wk'[w].prog) /\ task'[x].prog = task[x].prog
        BY <1>7, <3>2 DEF WentOn, SameRow
      <4> QED BY <1>0, <1>1, <4>2, <4>3, KeptTrans
    <3> QED BY <1>7, <2>2, <3>1, <3>2 DEF WentOn
  <2>4. Holds(w, wk[w].task)' => Ahead(task'[wk'[w].task].prog, wk'[w].prog)
    BY <2>2, <2>3 DEF Holds
  <2>5. wk'[w].pc = "loop"
    BY <1>7 DEF WentOn
  <2> QED BY <1>3, <1>4, <2>1, <2>4, <2>5
<1>8. CASE Paused(w)
  <2>1. ~Took(w)
    BY <1>8 DEF Paused, Took
  <2>2. PICK x \in Tasks : x = wk[w].task /\ wk'[w].task = x
    BY <1>3, <1>4, <2>1
  <2>3. Asked(w)' = Asked(w) /\ WaitsOn(wk[w].task, Asked(w))'
    BY <1>8, <2>2 DEF Paused, Asked, WaitsOn
  <2>4. wk'[w].pc \in {"askC", "askA"}
    BY <1>8 DEF Paused
  <2>5. wk'[w].pc = "askC" =>
          Asked(w)' \in ActionCalls /\ Rests(wk[w].task, Asked(w), "awaiting_confirmation")'
    BY <1>8, <2>2, <2>3 DEF Paused, Rests
  <2>6. wk'[w].pc = "askA" =>
          Asked(w)' \in DeviceCalls /\ Rests(wk[w].task, Asked(w), "awaiting_approval")'
    BY <1>8, <2>2, <2>3 DEF Paused, Rests
  <2> QED BY <1>3, <1>4, <2>1, <2>4, <2>5, <2>6
<1> QED BY <1>0, <1>2, <1>5, <1>6, <1>7, <1>8 DEF WorkerRule

\* Only the worker that set a task waiting asks about it.
LEMMA WorkersStep ==
  ASSUME TypeOK, TypeOK', HistoryInv, AskInv, [Next]_vars
  PROVE  WorkersInv'
<1>1. ASSUME NEW v \in Workers, NEW w \in Workers, Asking(v)', Asking(w)', wk'[v].task = wk'[w].task
      PROVE  v = w
  <2>1. ASSUME NEW u \in Workers, Asking(u)'
        PROVE  /\ wk'[u].task = wk[u].task /\ wk[u].task \in Tasks
               /\ \/ Asking(u) /\ task[wk[u].task].state \in Waiting \cup Terminal
                  \/ Holds(u, wk[u].task)
    <3>1. WorkerRule(u) /\ wk'[u].pc # "idle"
      BY <2>1, WorkerRules DEF Asking
    <3>2. ~Took(u) /\ ~WentOn(u) /\ wk'[u].task = wk[u].task /\ wk[u].pc # "idle"
      BY <2>1, <3>1 DEF WorkerRule, Asking, SameWorker, Took, WentOn, Paused
    <3>3. wk[u].task \in Tasks
      BY <3>2 DEF AskInv, WorkersInv
    <3>4. ASSUME SameWorker(u) PROVE Asking(u) /\ task[wk[u].task].state \in Waiting \cup Terminal
      <4>1. Asking(u)
        BY <2>1, <3>4 DEF SameWorker, Asking
      <4> QED BY <4>1 DEF Asking, AskInv, WorkersInv, Rests, Waiting
    <3> QED BY <3>1, <3>2, <3>3, <3>4 DEF WorkerRule, Paused
  <2>2. PICK x \in Tasks : x = wk[v].task /\ x = wk[w].task
    BY <1>1, <2>1
  <2>3. CASE Asking(v) /\ Asking(w)
    BY <2>2, <2>3 DEF AskInv, WorkersInv
  <2>4. CASE Holds(v, x) /\ Holds(w, x)
    BY <2>4 DEF Holds
  <2> QED BY <1>1, <2>1, <2>2, <2>3, <2>4 DEF Holds, Waiting, Terminal
<1> QED BY <1>1, WorkerKnows DEF WorkersInv

-----------------------------------------------------------------------------
(* What a step may do to a question.                                         *)

\* ResumeTask for call c of task t leaves it no wait on that call.
Woken(t, c) ==
  \/ task[t].state \notin Waiting \/ task'[t].state \notin Waiting
  \/ task[t].kind = "agent" /\ ~WaitsOn(t, c)

NewQuestion(k, w) ==
  /\ wk[w].pc = "askC" /\ wk'[w].pc = "idle" /\ conf[k].state = "none"
  /\ conf' = [conf EXCEPT ![k] = [task |-> wk[w].task, call |-> Asked(w), state |-> "pending",
                                   late |-> FALSE, at |-> "none", ran |-> FALSE]]

QuestionMoves(k) ==
  /\ conf[k].state # "none" /\ conf'[k].task = conf[k].task /\ conf'[k].call = conf[k].call
  /\ \/ \* it gets late
        conf'[k].state = conf[k].state /\ conf'[k].at = conf[k].at /\ conf'[k].ran = conf[k].ran
     \/ \* it is settled, or expires
        /\ conf[k].state = "pending" /\ conf'[k].ran = conf[k].ran
        /\ \/ conf'[k].state = "confirmed" /\ conf'[k].at = "act"
           \/ conf'[k].state \in {"cancelled", "expired"} /\ conf'[k].at = "resume"
     \/ \* it is cancelled with its task
        /\ conf[k].state = "pending" /\ conf'[k].state = "cancelled" /\ task'[conf[k].task].state = "cancelled"
        /\ conf'[k].at = conf[k].at /\ conf'[k].ran = conf[k].ran
     \/ \* its action is run
        /\ conf[k].at = "act" /\ conf'[k].at = "resume" /\ conf'[k].ran /\ conf'[k].state = conf[k].state
     \/ \* its handler ends
        /\ conf[k].at # "none" /\ conf'[k].at = "none"
        /\ conf'[k].ran = conf[k].ran /\ conf'[k].state = conf[k].state
        /\ losses' > 0 \/ Woken(conf[k].task, conf[k].call)

QuestionRule == \/ \E k \in ConfIds, w \in Workers : NewQuestion(k, w)
                \/ \A k \in ConfIds : conf'[k] = conf[k] \/ QuestionMoves(k)

\* One question is moved and the others are left alone.
LEMMA OneQuestion ==
  ASSUME TypeOK, NEW k \in ConfIds, NEW r, conf' = [conf EXCEPT ![k] = r], QuestionMoves(k)
  PROVE  QuestionRule
<1>1. \A j \in ConfIds : j # k => conf'[j] = conf[j]
  BY DEF TypeOK
<1> QED BY <1>1 DEF QuestionRule

\* Every step treats the questions by the rule.
LEMMA QuestionRules ==
  ASSUME TypeOK, AskInv, [Next]_vars
  PROVE  QuestionRule
<1>0. conf \in [ConfIds -> Confirmation] /\ losses \in Nat
      /\ \A k \in ConfIds : conf[k] \in Confirmation /\ (conf[k].at # "none" => conf[k].state # "none")
  BY DEF TypeOK, AskInv, ConfInv, NoConfirmation
<1>1. ASSUME UNCHANGED conf PROVE QuestionRule
  BY <1>1 DEF QuestionRule
<1>2. ASSUME NEW t \in Tasks, Cancel(t) PROVE QuestionRule
  <2>1. ASSUME NEW k \in ConfIds PROVE conf'[k] = conf[k] \/ QuestionMoves(k)
    <3>1. CASE conf[k].task = t /\ conf[k].state = "pending"
      <4>1. PICK r : r = [conf[k] EXCEPT !.state = "cancelled"]
        OBVIOUS
      <4>2. conf'[k] = r
        BY <1>2, <3>1, <4>1 DEF Cancel, CancelTask
      <4>3. task'[t].state = "cancelled"
        <5>1. PICK q : q = Released(task[t], "cancelled", task[t].prog)
          OBVIOUS
        <5>2. task' = [task EXCEPT ![t] = q]
          BY <1>2, <5>1 DEF Cancel, CancelTask
        <5> QED BY <5>1, <5>2 DEF Released, TypeOK
      <4> QED BY <1>0, <3>1, <4>1, <4>2, <4>3 DEF QuestionMoves, Confirmation
    <3>2. CASE ~(conf[k].task = t /\ conf[k].state = "pending")
      BY <1>2, <3>2 DEF Cancel, CancelTask
    <3> QED BY <3>1, <3>2
  <2> QED BY <2>1 DEF QuestionRule
<1>3. ASSUME NEW w \in Workers, NEW t \in Tasks, pauseTaskAsk(w, t) PROVE QuestionRule
  <2>1. PICK k \in ConfIds : CreateConfirmation(k, t, Head(wk[w].prog.pend))
    BY <1>3 DEF pauseTaskAsk
  <2>2. wk'[w].pc = "idle" /\ wk[w].pc = "askC" /\ wk[w].task = t
    BY <1>3 DEF pauseTaskAsk, TypeOK, Idle
  <2>3. NewQuestion(k, w)
    BY <2>1, <2>2 DEF NewQuestion, CreateConfirmation, Asked
  <2> QED BY <2>3 DEF QuestionRule
<1>4. ASSUME NEW k \in ConfIds, settle(k) PROVE QuestionRule
  <2>1. PICK st, at : /\ conf[k].state = "pending"
                      /\ \/ st = "confirmed" /\ at = "act"
                         \/ st = "cancelled" /\ at = "resume"
                      /\ conf' = [conf EXCEPT ![k].state = st, ![k].at = at]
    BY <1>4 DEF settle, Settle
  <2>2. PICK r : r = [conf[k] EXCEPT !.state = st, !.at = at]
    OBVIOUS
  <2>3. conf' = [conf EXCEPT ![k] = r]
    BY <1>0, <2>1, <2>2
  <2>4. r.state = st /\ r.at = at /\ r.ran = conf[k].ran /\ r.task = conf[k].task /\ r.call = conf[k].call
    BY <1>0, <2>2 DEF Confirmation
  <2>5. conf'[k] = r
    BY <1>0, <2>3
  <2>6. QuestionMoves(k)
    BY <2>1, <2>4, <2>5 DEF QuestionMoves
  <2> QED BY <2>3, <2>6, OneQuestion
<1>5. ASSUME NEW k \in ConfIds, runAction(k) PROVE QuestionRule
  <2>1. conf[k].at = "act" /\ conf' = [conf EXCEPT ![k].at = "resume", ![k].ran = TRUE]
    BY <1>5 DEF runAction
  <2>2. PICK r : r = [conf[k] EXCEPT !.at = "resume", !.ran = TRUE]
    OBVIOUS
  <2>3. conf' = [conf EXCEPT ![k] = r]
    BY <1>0, <2>1, <2>2
  <2>4. /\ r.state = conf[k].state /\ r.at = "resume" /\ r.ran = TRUE
        /\ r.task = conf[k].task /\ r.call = conf[k].call
    BY <1>0, <2>2 DEF Confirmation
  <2>5. conf'[k] = r
    BY <1>0, <2>3
  <2>6. QuestionMoves(k)
    BY <1>0, <2>1, <2>4, <2>5 DEF QuestionMoves
  <2> QED BY <2>3, <2>6, OneQuestion
<1>6. ASSUME NEW k \in ConfIds, maintenanceConfirmation(k) PROVE QuestionRule
  <2>1. conf[k].state = "pending" /\ conf' = [conf EXCEPT ![k].state = "expired", ![k].at = "resume"]
    BY <1>6 DEF maintenanceConfirmation, ExpireConfirmations
  <2>2. PICK r : r = [conf[k] EXCEPT !.state = "expired", !.at = "resume"]
    OBVIOUS
  <2>3. conf' = [conf EXCEPT ![k] = r]
    BY <1>0, <2>1, <2>2
  <2>4. /\ r.state = "expired" /\ r.at = "resume" /\ r.ran = conf[k].ran
        /\ r.task = conf[k].task /\ r.call = conf[k].call
    BY <1>0, <2>2 DEF Confirmation
  <2>5. conf'[k] = r
    BY <1>0, <2>3
  <2>6. QuestionMoves(k)
    BY <2>1, <2>4, <2>5 DEF QuestionMoves
  <2> QED BY <2>3, <2>6, OneQuestion
<1>7. ASSUME NEW k \in ConfIds, ConfirmationLate(k) PROVE QuestionRule
  <2>1. conf[k].state = "pending" /\ conf' = [conf EXCEPT ![k].late = TRUE]
    BY <1>7 DEF ConfirmationLate
  <2>2. PICK r : r = [conf[k] EXCEPT !.late = TRUE]
    OBVIOUS
  <2>3. conf' = [conf EXCEPT ![k] = r]
    BY <1>0, <2>1, <2>2
  <2>4. /\ r.state = conf[k].state /\ r.at = conf[k].at /\ r.ran = conf[k].ran
        /\ r.task = conf[k].task /\ r.call = conf[k].call
    BY <1>0, <2>2 DEF Confirmation
  <2>5. conf'[k] = r
    BY <1>0, <2>3
  <2>6. QuestionMoves(k)
    BY <2>1, <2>4, <2>5 DEF QuestionMoves
  <2> QED BY <2>3, <2>6, OneQuestion
<1>8. ASSUME NEW k \in ConfIds, conf[k].at # "none", conf' = [conf EXCEPT ![k].at = "none"],
             losses' > 0 \/ Woken(conf[k].task, conf[k].call)
      PROVE  QuestionRule
  <2>2. PICK r : r = [conf[k] EXCEPT !.at = "none"]
    OBVIOUS
  <2>3. conf' = [conf EXCEPT ![k] = r]
    BY <1>0, <1>8, <2>2
  <2>4. /\ r.state = conf[k].state /\ r.at = "none" /\ r.ran = conf[k].ran
        /\ r.task = conf[k].task /\ r.call = conf[k].call
    BY <1>0, <2>2 DEF Confirmation
  <2>5. conf'[k] = r
    BY <1>0, <2>3
  <2>6. QuestionMoves(k)
    BY <1>0, <1>8, <2>4, <2>5 DEF QuestionMoves
  <2> QED BY <2>3, <2>6, OneQuestion
<1>9. ASSUME NEW k \in ConfIds, resumeAnswered(k) PROVE QuestionRule
  <2>0. PICK o \in {"tool", "notdone"} : o = IF conf[k].state = "confirmed" THEN "tool" ELSE "notdone"
    OBVIOUS
  <2>1. PICK t, c : t = conf[k].task /\ c = conf[k].call
    OBVIOUS
  <2>2. ResumeTask(t, c, o) /\ conf[k].at = "resume" /\ conf' = [conf EXCEPT ![k].at = "none"]
    BY <1>9, <2>0, <2>1 DEF resumeAnswered
  <2>3. t \in Tasks
    BY <1>0, <2>1, <2>2 DEF AskInv, ConfInv
  <2>4. Woken(t, c)
    BY <2>2, <2>3, ResumeEffect DEF Woken, Waiting
  <2> QED BY <1>8, <2>1, <2>2, <2>4
<1>10. ASSUME HandlerLost PROVE QuestionRule
  <2>1. losses' > 0
    BY <1>0, <1>10 DEF HandlerLost, Lose
  <2>2. CASE \E k \in ConfIds : conf[k].at # "none" /\ conf' = [conf EXCEPT ![k].at = "none"]
    BY <1>8, <2>1, <2>2
  <2> QED BY <1>1, <1>10, <2>2 DEF HandlerLost
<1>11. ASSUME NEW t \in Tasks, \/ startTask(t) \/ awaitApproval(t) \/ awaitApprovalSave(t)
                               \/ Overdue(t) \/ LeaseLapses(t)
       PROVE  UNCHANGED conf
  BY <1>11 DEF startTask, awaitApproval, awaitApprovalSave, Overdue, LeaseLapses
<1>12. ASSUME NEW w \in Workers, NEW t \in Tasks,
              \/ taskWorker(w, t) \/ Renew(w, t) \/ decideAgain(w, t) \/ LoseLease(w, t) \/ runCall(w, t)
              \/ pauseTask(w, t) \/ pauseTaskApproval(w, t) \/ decide(w, t) \/ giveUp(w, t)
       PROVE  UNCHANGED conf
  BY <1>12 DEF taskWorker, Renew, decideAgain, LoseLease, runCall, pauseTask, pauseTaskApproval,
               decide, giveUp
<1>13. ASSUME NEW s \in Submitters, NEW a \in ApprIds, SubmitApproval(s, a) \/ SubmitStep(s, a)
       PROVE  UNCHANGED conf
  BY <1>13 DEF SubmitApproval, SubmitStep, execDevice, commandEnds, deleteSubmitted, resumeSubmitted
<1>14. ASSUME NEW a \in ApprIds, \/ expireApprovals(a) \/ dropApproval(a)
                                 \/ ApprovalLate(a) \/ DaemonForgets(a)
       PROVE  UNCHANGED conf
  BY <1>14 DEF expireApprovals, dropApproval, ApprovalLate, DaemonForgets
<1>15. ASSUME RemoveDevice \/ (\E w \in Workers : WorkerLost(w)) \/ UNCHANGED vars PROVE UNCHANGED conf
  BY <1>15 DEF RemoveDevice, WorkerLost, vars
<1> QED
  BY <1>1, <1>2, <1>3, <1>4, <1>5, <1>6, <1>7, <1>9, <1>10, <1>11, <1>12, <1>13, <1>14, <1>15
  DEF Next, WorkerStep

\* A worker that asks has just paused, or has not moved.
LEMMA AskingBefore ==
  ASSUME TypeOK, HistoryInv, AskInv, [Next]_vars, NEW w \in Workers, Asking(w)'
  PROVE  wk'[w].task = wk[w].task /\ wk[w].task \in Tasks /\ (SameWorker(w) \/ Paused(w))
<1>1. WorkerRule(w) /\ wk'[w].pc # "idle"
  BY WorkerRules DEF Asking
<1>2. ~Took(w) /\ ~WentOn(w) /\ wk'[w].task = wk[w].task /\ wk[w].pc # "idle"
  BY <1>1 DEF WorkerRule, Asking, SameWorker, Took, WentOn, Paused
<1> QED BY <1>1, <1>2 DEF WorkerRule, AskInv, WorkersInv

\* Nobody starts to ask about a call that was reached before.
LEMMA NotAskedAgain ==
  ASSUME TypeOK, HistoryInv, AskInv, [Next]_vars, NEW w \in Workers, Asking(w)',
         NEW c \in Calls, NEW st \in Waiting, Reached(wk[w].task, c, st),
         SameWorker(w) => Asked(w) # c
  PROVE  Asked(w)' # c
<1>0. wk[w].task \in Tasks /\ (SameWorker(w) \/ Paused(w))
  BY AskingBefore
<1>1. CASE SameWorker(w)
  BY <1>1 DEF SameWorker, Asked
<1>2. CASE Paused(w)
  <2>1. PICK x \in Tasks : x = wk[w].task
    BY AskingBefore
  <2>2. /\ Asked(w)' = Asked(w) /\ Holds(w, x) /\ wk[w].pc = "loop" /\ wk[w].prog.pend # <<>>
    BY <1>2, <2>1 DEF Paused, Asked
  <2>3. task[x].prog.out[c] # "none"
    BY <2>1, <2>2 DEF Reached, Rests, Holds, Waiting, Terminal
  <2>4. Kept(task[x].prog, wk[w].prog)
    BY <2>1, <2>2 DEF AskInv, WorkersInv, Ahead
  <2>5. wk[w].prog.out[c] # "none"
    BY <2>3, <2>4 DEF Kept
  <2>6. wk[w].prog \in Progress /\ Paired(wk[w].prog)
    BY DEF TypeOK, Worker, HistoryInv, Good
  <2>7. wk[w].prog.out[Asked(w)] = "none"
    BY <2>2, <2>6, FirstPending DEF Asked
  <2> QED BY <2>2, <2>5, <2>7
<1> QED BY <1>0, <1>1, <1>2

\* What a question says of its task and of itself.
LEMMA QuestionsStep ==
  ASSUME TypeOK, TypeOK', HistoryInv, AskInv, [Next]_vars
  PROVE  ConfInv'
<1>0. /\ RowsInv /\ QuestionRule /\ ConfInv /\ \A x \in Tasks : RowRule(x)
      /\ ActionCalls \subseteq Calls /\ "awaiting_confirmation" \in Waiting
  BY RowRules, QuestionRules DEF AskInv, Calls, Waiting
<1>1. ASSUME NEW k \in ConfIds, conf[k].state # "none",
             conf'[k].task = conf[k].task, conf'[k].call = conf[k].call
      PROVE  /\ conf'[k].task \in Tasks /\ task'[conf'[k].task].kind = "agent"
             /\ task'[conf'[k].task].state # "none"
             /\ conf'[k].call \in ActionCalls /\ Reached(conf[k].task, conf[k].call, "awaiting_confirmation")'
             /\ \A w \in Workers : wk'[w].pc = "askC" /\ wk'[w].task = conf'[k].task => Asked(w)' # conf'[k].call
  <2>1. PICK x \in Tasks, c \in Calls : x = conf[k].task /\ c = conf[k].call
    BY <1>0, <1>1 DEF ConfInv
  <2>2. /\ task[x].kind = "agent" /\ task[x].state # "none" /\ c \in ActionCalls
        /\ Reached(x, c, "awaiting_confirmation")
        /\ \A w \in Workers : wk[w].pc = "askC" /\ wk[w].task = x => Asked(w) # c
    BY <1>0, <1>1, <2>1 DEF ConfInv
  <2>3. /\ task'[x].kind = "agent" /\ task'[x].state # "none" /\ Reached(x, c, "awaiting_confirmation")'
    BY <1>0, <2>2, RowGrows
  <2>4. Reached(conf[k].task, conf[k].call, "awaiting_confirmation")'
    BY <1>1, <2>1, <2>3 DEF Reached, Rests, WaitsOn
  <2>5. ASSUME NEW w \in Workers, wk'[w].pc = "askC", wk'[w].task = x PROVE Asked(w)' # c
    <3>1. Asking(w)'
      BY <2>5 DEF Asking
    <3>2. wk[w].task = x
      BY <2>5, <3>1, AskingBefore
    <3>3. SameWorker(w) => Asked(w) # c
      BY <2>2, <2>5, <3>2 DEF SameWorker
    <3> QED BY <1>0, <2>2, <3>1, <3>2, <3>3, NotAskedAgain
  <2> QED BY <1>1, <2>1, <2>2, <2>3, <2>4, <2>5
<1>2. ASSUME NEW k \in ConfIds, conf[k].state = "none", conf'[k] = conf[k]
      PROVE  /\ conf'[k] = NoConfirmation /\ conf'[k].state = "none" /\ conf'[k].at = "none" /\ ~conf'[k].ran
             /\ \A w \in Workers : wk'[w].pc = "askC" => wk'[w].task # conf'[k].task
  <2>1. conf'[k] = NoConfirmation
    BY <1>0, <1>2 DEF ConfInv
  <2>2. ASSUME NEW w \in Workers, wk'[w].pc = "askC" PROVE wk'[w].task # NoTask
    <3>1. Asking(w)'
      BY <2>2 DEF Asking
    <3> QED BY <3>1, AskingBefore, NullAssumption
  <2> QED BY <1>2, <2>1, <2>2 DEF NoConfirmation
<1> DEFINE P(k) ==
      /\ conf'[k].state = "none" => conf'[k] = NoConfirmation
      /\ conf'[k].state # "none" =>
           /\ conf'[k].task \in Tasks /\ task'[conf'[k].task].kind = "agent" /\ task'[conf'[k].task].state # "none"
           /\ conf'[k].call \in ActionCalls /\ Reached(conf[k].task, conf[k].call, "awaiting_confirmation")'
      /\ conf'[k].ran \/ conf'[k].at = "act" => conf'[k].state = "confirmed"
      /\ conf'[k].at = "resume" => /\ conf'[k].state \in {"confirmed", "cancelled", "expired"}
                                   /\ conf'[k].state = "confirmed" => conf'[k].ran
      /\ \A w \in Workers : wk'[w].pc = "askC" /\ wk'[w].task = conf'[k].task => Asked(w)' # conf'[k].call
<1>3. ASSUME NEW k \in ConfIds, conf'[k] = conf[k] PROVE P(k)
  <2>1. CASE conf[k].state = "none"
    BY <1>2, <1>3, <2>1
  <2>2. CASE conf[k].state # "none"
    BY <1>0, <1>1, <1>3, <2>2 DEF ConfInv
  <2> QED BY <2>1, <2>2
<1>4. ASSUME NEW k \in ConfIds, QuestionMoves(k) PROVE P(k)
  <2>1. conf[k].state # "none" /\ conf'[k].task = conf[k].task /\ conf'[k].call = conf[k].call
        /\ conf'[k].state # "none"
    BY <1>4 DEF QuestionMoves
  <2>2. /\ conf[k].ran \/ conf[k].at = "act" => conf[k].state = "confirmed"
        /\ conf[k].at = "resume" => /\ conf[k].state \in {"confirmed", "cancelled", "expired"}
                                    /\ conf[k].state = "confirmed" => conf[k].ran
        /\ conf[k] \in Confirmation
    BY <1>0 DEF ConfInv, TypeOK
  <2>3. conf'[k].ran \/ conf'[k].at = "act" => conf'[k].state = "confirmed"
    BY <1>4, <2>2 DEF QuestionMoves
  <2>4. conf'[k].at = "resume" => /\ conf'[k].state \in {"confirmed", "cancelled", "expired"}
                                  /\ conf'[k].state = "confirmed" => conf'[k].ran
    BY <1>4, <2>2 DEF QuestionMoves
  <2> QED BY <1>1, <2>1, <2>3, <2>4
<1>5. ASSUME NEW j \in ConfIds, NEW w \in Workers, NewQuestion(j, w), NEW k \in ConfIds PROVE P(k)
  <2>0. conf \in [ConfIds -> Confirmation]
    BY DEF TypeOK
  <2>1. CASE k # j
    BY <1>3, <1>5, <2>0, <2>1 DEF NewQuestion
  <2>2. CASE k = j
    <3>1. PICK x \in Tasks, c \in Calls : x = wk[w].task /\ c = Asked(w)
      BY <1>5, AskerRests DEF NewQuestion
    <3>2. /\ conf'[k].task = x /\ conf'[k].call = c /\ conf'[k].state = "pending"
          /\ conf'[k].at = "none" /\ conf'[k].ran = FALSE
      BY <1>5, <2>0, <2>2, <3>1 DEF NewQuestion
    <3>3. c \in ActionCalls /\ task[x].kind = "agent" /\ task[x].state # "none"
      BY <1>5, <3>1 DEF NewQuestion, AskInv, WorkersInv
    <3>4. task'[x].kind = "agent" /\ task'[x].state # "none"
      BY <1>0, <3>3, RowGrows
    <3>5. Rests(x, c, "awaiting_confirmation")'
      <4>1. /\ Rests(x, c, "awaiting_confirmation") /\ task'[x].prog = task[x].prog
            /\ task'[x].state \in {"awaiting_confirmation"} \cup Terminal
        BY <1>5, <3>1, AskerRests DEF NewQuestion
      <4> QED BY <4>1 DEF Rests, WaitsOn
    <3>6. Reached(conf[k].task, conf[k].call, "awaiting_confirmation")'
      BY <3>2, <3>5 DEF Reached, Rests, WaitsOn
    <3>7. ASSUME NEW v \in Workers, wk'[v].pc = "askC", wk'[v].task = x PROVE FALSE
      <4>1. Asking(v)' /\ wk[v].task = x /\ (SameWorker(v) \/ Paused(v))
        BY <3>7, AskingBefore DEF Asking
      <4>2. CASE SameWorker(v)
        <5>1. Asking(v) /\ Asking(w)
          BY <1>5, <3>7, <4>2 DEF SameWorker, Asking, NewQuestion
        <5>2. v = w
          BY <3>1, <4>1, <5>1 DEF AskInv, WorkersInv
        <5> QED BY <1>5, <3>7, <5>2 DEF NewQuestion
      <4>3. CASE Paused(v)
        <5>1. conf' = conf
          BY <4>3 DEF Paused
        <5> QED BY <1>5, <2>2, <3>2, <5>1 DEF NewQuestion
      <4> QED BY <4>1, <4>2, <4>3
    <3> QED BY <3>2, <3>3, <3>4, <3>6, <3>7
  <2> QED BY <2>1, <2>2
<1>6. \A k \in ConfIds : P(k)
  BY <1>0, <1>3, <1>4, <1>5 DEF QuestionRule
<1> QED BY <1>6 DEF ConfInv

-----------------------------------------------------------------------------
(* What a step may do to an approval.                                        *)

\* The call an approval is for, if the task has calls.
AnyCall == Calls \cup {NoCall}

NewApproval(a, t, c) ==
  /\ appr[a].row = "none" /\ t \in Tasks /\ UNCHANGED sub
  /\ appr' = [appr EXCEPT ![a] = [task |-> t, call |-> c, row |-> "saved", late |-> FALSE, dev |-> "issued"]]
  /\ \/ voice[t] /\ c = NoCall /\ voice' = [voice EXCEPT ![t] = FALSE] /\ UNCHANGED wk
     \/ /\ UNCHANGED voice
        /\ \E w \in Workers : wk[w].pc = "askA" /\ wk'[w].pc = "idle" /\ wk[w].task = t /\ Asked(w) = c

ApprovalMoves(a) ==
  /\ appr[a].row # "none" /\ appr'[a].task = appr[a].task /\ appr'[a].call = appr[a].call
  /\ appr'[a].row # "none" /\ (appr[a].dev = "ran" => appr'[a].dev = "ran")
  /\ appr[a].row \in {"saved", "drop"} =>
       \/ appr'[a].row \in {"saved", "drop"} \/ losses' > 0 \/ Woken(appr[a].task, appr[a].call)
       \/ \E s \in Submitters : sub'[s].appr = a /\ sub'[s].pc \in {"resume", "dropped"}

ApprovalRule == \/ \E a \in ApprIds, t \in Tasks, c \in AnyCall : NewApproval(a, t, c)
                \/ \A a \in ApprIds : appr'[a] = appr[a] \/ ApprovalMoves(a)

SubmitMoves(s) ==
  \/ sub'[s] = sub[s]
  \/ /\ sub'[s].pc = "idle"
     /\ sub[s].pc \in {"resume", "dropped"} =>
          losses' > 0 \/ Woken(appr[sub[s].appr].task, appr[sub[s].appr].call)
  \/ /\ sub[s].pc \notin {"resume", "dropped"} /\ sub'[s].appr \in ApprIds
     /\ appr[sub'[s].appr].row # "none"
     /\ sub'[s].pc \in {"delete", "resume"} => appr'[sub'[s].appr].dev = "ran"

VoiceMoves(t) ==
  \/ voice'[t] = voice[t]
  \/ ~voice'[t] /\ (losses' > 0 \/ ~device \/ \E a \in ApprIds : NewApproval(a, t, NoCall))
  \/ task[t].state = "none" /\ task'[t].kind = "command" /\ task'[t].state # "none" /\ UNCHANGED appr

\* One approval is moved and the others are left alone.
LEMMA OneApproval ==
  ASSUME TypeOK, NEW a \in ApprIds, NEW r, appr' = [appr EXCEPT ![a] = r],
         r.task = appr[a].task, r.call = appr[a].call, appr[a].row # "none", r.row # "none",
         appr[a].dev = "ran" => r.dev = "ran",
         appr[a].row \in {"saved", "drop"} =>
           \/ r.row \in {"saved", "drop"} \/ losses' > 0 \/ Woken(appr[a].task, appr[a].call)
           \/ \E s \in Submitters : sub'[s].appr = a /\ sub'[s].pc \in {"resume", "dropped"}
  PROVE  ApprovalRule
<1>1. appr'[a] = r /\ \A b \in ApprIds : b # a => appr'[b] = appr[b]
  BY DEF TypeOK
<1>2. ApprovalMoves(a)
  BY <1>1 DEF ApprovalMoves
<1> QED BY <1>1, <1>2 DEF ApprovalRule

\* ResumeTask for an approval's call leaves no wait on it.
LEMMA ResumeWakes ==
  ASSUME TypeOK, NEW t, NEW c, NEW o \in {"tool", "notdone"}, ResumeTask(t, c, o), t \in Tasks
  PROVE  Woken(t, c)
BY ResumeEffect DEF Woken, Waiting

\* Every step treats the approvals and the requests about them by the rules.
LEMMA ApprovalRules ==
  ASSUME TypeOK, AskInv, [Next]_vars
  PROVE  ApprovalRule /\ (\A s \in Submitters : SubmitMoves(s)) /\ (\A t \in Tasks : VoiceMoves(t))
<1>0. /\ appr \in [ApprIds -> Approval] /\ sub \in [Submitters -> Submitter] /\ losses \in Nat
      /\ voice \in [Tasks -> BOOLEAN] /\ wk \in [Workers -> Worker] /\ task \in [Tasks -> Row]
      /\ \A a \in ApprIds : appr[a] \in Approval
      /\ \A s \in Submitters : sub[s] \in Submitter
  BY DEF TypeOK
<1>1. ASSUME UNCHANGED appr PROVE ApprovalRule
  BY <1>1 DEF ApprovalRule
<1>2. ASSUME UNCHANGED sub PROVE \A s \in Submitters : SubmitMoves(s)
  BY <1>2 DEF SubmitMoves
<1>3. ASSUME UNCHANGED voice PROVE \A t \in Tasks : VoiceMoves(t)
  BY <1>3 DEF VoiceMoves
<1> DEFINE Goal == ApprovalRule /\ (\A s \in Submitters : SubmitMoves(s)) /\ (\A t \in Tasks : VoiceMoves(t))
<1>4. ASSUME NEW x \in Tasks, awaitApproval(x) PROVE Goal
  <2>1. UNCHANGED appr /\ UNCHANGED sub /\ voice' = [voice EXCEPT ![x] = TRUE] /\ task[x].state = "none"
    BY <1>4 DEF awaitApproval
  <2>2. task'[x].kind = "command" /\ task'[x].state # "none"
    BY <1>0, <1>4 DEF awaitApproval, CreateTask, NoRow
  <2>3. \A t \in Tasks : VoiceMoves(t)
    BY <1>0, <2>1, <2>2 DEF VoiceMoves
  <2> QED BY <1>1, <1>2, <2>1, <2>3
<1>5. ASSUME NEW x \in Tasks, awaitApprovalSave(x) PROVE Goal
  <2>1. UNCHANGED sub /\ UNCHANGED wk /\ voice[x] /\ voice' = [voice EXCEPT ![x] = FALSE]
    BY <1>5 DEF awaitApprovalSave
  <2>2. CASE device
    <3>1. PICK a \in ApprIds : SaveApproval(a, x, NoCall)
      BY <1>5, <2>2 DEF awaitApprovalSave
    <3>2. NewApproval(a, x, NoCall)
      BY <2>1, <3>1 DEF NewApproval, SaveApproval
    <3>3. \A t \in Tasks : VoiceMoves(t)
      BY <1>0, <2>1, <3>2 DEF VoiceMoves
    <3>4. ApprovalRule
      BY <3>2 DEF ApprovalRule, AnyCall
    <3> QED BY <1>2, <2>1, <3>3, <3>4
  <2>3. CASE ~device
    <3>1. UNCHANGED appr
      BY <1>5, <2>3 DEF awaitApprovalSave
    <3>2. \A t \in Tasks : VoiceMoves(t)
      BY <1>0, <2>1, <2>3 DEF VoiceMoves
    <3> QED BY <1>1, <1>2, <2>1, <3>1, <3>2
  <2> QED BY <2>2, <2>3
<1>6. ASSUME NEW w \in Workers, NEW x \in Tasks, pauseTaskApproval(w, x) PROVE Goal
  <2>1. UNCHANGED sub /\ UNCHANGED voice /\ wk[w].pc = "askA" /\ wk[w].task = x /\ wk'[w].pc = "idle"
    BY <1>0, <1>6 DEF pauseTaskApproval, Idle
  <2>2. CASE device
    <3>0. PICK c \in AnyCall : c = Asked(w)
      BY <2>1 DEF AskInv, WorkersInv, AnyCall, Calls
    <3>1. PICK a \in ApprIds : SaveApproval(a, x, c)
      BY <1>6, <2>2, <3>0 DEF pauseTaskApproval, Asked
    <3>2. NewApproval(a, x, c)
      BY <2>1, <3>0, <3>1 DEF NewApproval, SaveApproval
    <3>3. ApprovalRule
      BY <3>2 DEF ApprovalRule
    <3> QED BY <1>2, <1>3, <2>1, <3>3
  <2>3. CASE ~device
    BY <1>1, <1>2, <1>3, <1>6, <2>1, <2>3 DEF pauseTaskApproval
  <2> QED BY <2>2, <2>3
<1>7. ASSUME NEW s \in Submitters, NEW r, sub' = [sub EXCEPT ![s] = r],
             \/ r.pc = "idle" /\ (sub[s].pc \in {"resume", "dropped"} =>
                                    losses' > 0 \/ Woken(appr[sub[s].appr].task, appr[sub[s].appr].call))
             \/ /\ sub[s].pc \notin {"resume", "dropped"} /\ r.appr \in ApprIds /\ appr[r.appr].row # "none"
                /\ r.pc \in {"delete", "resume"} => appr'[r.appr].dev = "ran"
      PROVE  \A z \in Submitters : SubmitMoves(z)
  <2>1. sub'[s] = r /\ \A z \in Submitters : z # s => sub'[z] = sub[z]
    BY <1>0, <1>7
  <2>2. SubmitMoves(s)
    BY <1>7, <2>1 DEF SubmitMoves
  <2> QED BY <2>1, <2>2 DEF SubmitMoves
<1>8. ASSUME NEW s \in Submitters, NEW a \in ApprIds, SubmitApproval(s, a) PROVE Goal
  <2>1. /\ UNCHANGED appr /\ UNCHANGED voice /\ sub[s].pc = "idle" /\ appr[a].row # "none"
        /\ sub' = [sub EXCEPT ![s] = [pc |-> "exec", appr |-> a]]
    BY <1>8 DEF SubmitApproval
  <2>2. \A z \in Submitters : SubmitMoves(z)
    BY <1>7, <2>1
  <2> QED BY <1>1, <1>3, <2>1, <2>2
<1>9. ASSUME NEW s \in Submitters, NEW a \in ApprIds, execDevice(s, a) PROVE Goal
  <2>1. /\ UNCHANGED voice /\ sub[s].pc = "exec" /\ sub[s].appr = a /\ appr[a].row # "none"
    BY <1>9 DEF execDevice, AskInv, ApprInv
  <2>2. PICK r : /\ sub' = [sub EXCEPT ![s] = r]
                 /\ r.pc = "idle" \/ (r.pc \in {"wait", "drop"} /\ r.appr = a)
    <3>1. PICK q \in {"wait", "drop"} : sub' = [sub EXCEPT ![s].pc = q] \/ sub' = [sub EXCEPT ![s] = Quiet]
      BY <1>9 DEF execDevice
    <3>2. CASE sub' = [sub EXCEPT ![s] = Quiet]
      <4>0. Quiet.pc = "idle"
        BY DEF Quiet
      <4>1. PICK r : r = Quiet /\ r.pc = "idle"
        BY <4>0
      <4>2. sub' = [sub EXCEPT ![s] = r]
        BY <3>2, <4>1
      <4> QED BY <4>1, <4>2
    <3>3. CASE sub' = [sub EXCEPT ![s].pc = q]
      <4>1. PICK r : r = [sub[s] EXCEPT !.pc = q]
        OBVIOUS
      <4>2. sub' = [sub EXCEPT ![s] = r] /\ r.pc = q /\ r.appr = a
        BY <1>0, <2>1, <3>3, <4>1 DEF Submitter
      <4> QED BY <4>2
    <3> QED BY <3>1, <3>2, <3>3
  <2>3. \A z \in Submitters : SubmitMoves(z)
    BY <1>7, <2>1, <2>2
  <2>4. CASE UNCHANGED appr
    BY <1>1, <1>3, <2>1, <2>3, <2>4
  <2>5. CASE appr' # appr
    <3>1. PICK d : appr' = [appr EXCEPT ![a].dev = d] /\ (appr[a].dev = "ran" => d = "ran")
      <4>1. \/ appr[a].dev = "issued" /\ appr' = [appr EXCEPT ![a].dev = "running"]
            \/ appr[a].dev = "issued" /\ appr' = [appr EXCEPT ![a].dev = "spent"]
            \/ appr' = [appr EXCEPT ![a].dev = IF appr[a].dev = "issued" THEN "spent" ELSE appr[a].dev]
        BY <1>0, <1>9, <2>5 DEF execDevice
      <4>2. PICK e : e = IF appr[a].dev = "issued" THEN "spent" ELSE appr[a].dev
        OBVIOUS
      <4>3. appr[a].dev = "ran" => e = "ran"
        BY <4>2
      <4> QED BY <4>1, <4>2, <4>3
    <3>2. PICK q : q = [appr[a] EXCEPT !.dev = d]
      OBVIOUS
    <3>3. /\ appr' = [appr EXCEPT ![a] = q] /\ q.dev = d /\ q.task = appr[a].task
          /\ q.call = appr[a].call /\ q.row = appr[a].row
      BY <1>0, <3>1, <3>2 DEF Approval
    <3>4. ApprovalRule
      BY <2>1, <3>1, <3>3, OneApproval
    <3> QED BY <1>3, <2>1, <2>3, <3>4
  <2> QED BY <2>4, <2>5
<1>10. ASSUME NEW s \in Submitters, NEW a \in ApprIds, commandEnds(s, a) PROVE Goal
  <2>1. /\ UNCHANGED voice /\ sub[s].pc = "wait" /\ sub[s].appr = a /\ appr[a].row # "none"
        /\ appr' = [appr EXCEPT ![a].dev = "ran"]
    BY <1>10 DEF commandEnds, AskInv, ApprInv
  <2>2. PICK q : q = [appr[a] EXCEPT !.dev = "ran"]
    OBVIOUS
  <2>3. /\ appr' = [appr EXCEPT ![a] = q] /\ q.dev = "ran" /\ q.task = appr[a].task
        /\ q.call = appr[a].call /\ q.row = appr[a].row
    BY <1>0, <2>1, <2>2 DEF Approval
  <2>4. ApprovalRule /\ appr'[a].dev = "ran"
    BY <1>0, <2>1, <2>3, OneApproval
  <2>5. PICK r : sub' = [sub EXCEPT ![s] = r] /\ (r.pc = "idle" \/ r.appr = a)
    <3>1. CASE sub' = [sub EXCEPT ![s] = Quiet]
      <4>1. Quiet.pc = "idle"
        BY DEF Quiet
      <4> QED BY <3>1, <4>1
    <3>2. CASE sub' = [sub EXCEPT ![s].pc = "delete"]
      <4>1. PICK r : r = [sub[s] EXCEPT !.pc = "delete"]
        OBVIOUS
      <4>2. sub' = [sub EXCEPT ![s] = r] /\ r.appr = a
        BY <1>0, <2>1, <3>2, <4>1 DEF Submitter
      <4> QED BY <4>2
    <3> QED BY <1>10, <3>1, <3>2 DEF commandEnds
  <2>6. \A z \in Submitters : SubmitMoves(z)
    BY <1>7, <2>1, <2>4, <2>5
  <2> QED BY <1>3, <2>1, <2>4, <2>6
<1>11. ASSUME NEW s \in Submitters, NEW a \in ApprIds, deleteSubmitted(s, a) PROVE Goal
  <2>1. /\ UNCHANGED voice /\ sub[s].pc \in {"delete", "drop"} /\ sub[s].appr = a /\ appr[a].row # "none"
        /\ sub[s].pc = "delete" => appr[a].dev = "ran"
    BY <1>11 DEF deleteSubmitted, AskInv, ApprInv
  <2>2. PICK d \in {"resume", "dropped"} : /\ sub' = [sub EXCEPT ![s].pc = d]
                                           /\ d = "resume" => sub[s].pc = "delete"
    BY <1>0, <1>11, <2>1 DEF deleteSubmitted
  <2>3. PICK r : r = [sub[s] EXCEPT !.pc = d]
    OBVIOUS
  <2>4. sub' = [sub EXCEPT ![s] = r] /\ r.pc = d /\ r.appr = a /\ sub'[s] = r
    BY <1>0, <2>1, <2>2, <2>3 DEF Submitter
  <2>5. PICK st : appr' = [appr EXCEPT ![a].row = st] /\ st = IF appr[a].row = "saved" THEN "gone" ELSE appr[a].row
    BY <1>0, <1>11 DEF deleteSubmitted, DeleteApproval
  <2>6. PICK q : q = [appr[a] EXCEPT !.row = st]
    OBVIOUS
  <2>7. /\ appr' = [appr EXCEPT ![a] = q] /\ q.dev = appr[a].dev /\ q.task = appr[a].task
        /\ q.call = appr[a].call /\ q.row = st /\ appr'[a] = q
    BY <1>0, <2>5, <2>6 DEF Approval
  <2>8. ApprovalRule
    <3>1. sub'[s].appr = a /\ sub'[s].pc \in {"resume", "dropped"}
      BY <2>2, <2>4
    <3>2. q.row # "none"
      BY <2>1, <2>5, <2>7
    <3> QED BY <2>1, <2>7, <3>1, <3>2, OneApproval
  <2>9. \A z \in Submitters : SubmitMoves(z)
    <3>1. /\ sub[s].pc \notin {"resume", "dropped"} /\ r.appr \in ApprIds /\ appr[r.appr].row # "none"
          /\ r.pc \in {"delete", "resume"} => appr'[r.appr].dev = "ran"
      BY <2>1, <2>2, <2>4, <2>7
    <3> QED BY <1>7, <2>4, <3>1
  <2> QED BY <1>3, <2>1, <2>8, <2>9
<1>12. ASSUME NEW s \in Submitters, NEW a \in ApprIds, resumeSubmitted(s, a) PROVE Goal
  <2>0. PICK o \in {"tool", "notdone"} : o = IF sub[s].pc = "resume" THEN "tool" ELSE "notdone"
    OBVIOUS
  <2>1. PICK t, c : t = appr[a].task /\ c = appr[a].call
    OBVIOUS
  <2>2. /\ ResumeTask(t, c, o) /\ sub[s].pc \in {"resume", "dropped"} /\ sub[s].appr = a
        /\ UNCHANGED appr /\ UNCHANGED voice /\ sub' = [sub EXCEPT ![s] = Quiet]
    BY <1>12, <2>0, <2>1 DEF resumeSubmitted
  <2>3. appr[a].row # "none" /\ t \in Tasks
    BY <2>1, <2>2 DEF AskInv, ApprInv
  <2>4. Woken(t, c)
    BY <2>2, <2>3, ResumeWakes
  <2>5. \A z \in Submitters : SubmitMoves(z)
    BY <1>7, <2>1, <2>2, <2>4 DEF Quiet
  <2> QED BY <1>1, <1>3, <2>2, <2>5
<1>13. ASSUME NEW a \in ApprIds, NEW st, appr' = [appr EXCEPT ![a].row = st], appr[a].row # "none",
              st # "none", UNCHANGED sub, UNCHANGED voice,
              st = "drop" \/ losses' > 0 \/ Woken(appr[a].task, appr[a].call)
       PROVE  Goal
  <2>1. PICK q : q = [appr[a] EXCEPT !.row = st]
    OBVIOUS
  <2>2. /\ appr' = [appr EXCEPT ![a] = q] /\ q.dev = appr[a].dev /\ q.task = appr[a].task
        /\ q.call = appr[a].call /\ q.row = st
    BY <1>0, <1>13, <2>1 DEF Approval
  <2>3. ApprovalRule
    <3>1. q.row \in {"saved", "drop"} \/ losses' > 0 \/ Woken(appr[a].task, appr[a].call)
      BY <1>13, <2>2
    <3>2. q.row # "none" /\ appr[a].row # "none"
      BY <1>13, <2>2
    <3> QED BY <2>2, <3>1, <3>2, OneApproval
  <2> QED BY <1>2, <1>3, <1>13, <2>3
<1>14. ASSUME NEW a \in ApprIds, expireApprovals(a) PROVE Goal
  BY <1>13, <1>14 DEF expireApprovals, ExpireApprovals
<1>15. ASSUME NEW a \in ApprIds, dropApproval(a) PROVE Goal
  <2>1. PICK t, c : t = appr[a].task /\ c = appr[a].call
    OBVIOUS
  <2>2. /\ ResumeTask(t, c, "notdone") /\ appr[a].row = "drop" /\ appr' = [appr EXCEPT ![a].row = "gone"]
        /\ UNCHANGED sub /\ UNCHANGED voice
    BY <1>15, <2>1 DEF dropApproval
  <2>3. t \in Tasks
    BY <2>1, <2>2 DEF AskInv, ApprInv
  <2>4. Woken(appr[a].task, appr[a].call)
    BY <2>1, <2>2, <2>3, ResumeWakes
  <2> QED BY <1>13, <2>2, <2>4
<1>16. ASSUME NEW a \in ApprIds, ApprovalLate(a) PROVE Goal
  <2>1. appr[a].row = "saved" /\ appr' = [appr EXCEPT ![a].late = TRUE] /\ UNCHANGED sub /\ UNCHANGED voice
    BY <1>16 DEF ApprovalLate
  <2>2. PICK q : q = [appr[a] EXCEPT !.late = TRUE]
    OBVIOUS
  <2>3. /\ appr' = [appr EXCEPT ![a] = q] /\ q.dev = appr[a].dev /\ q.task = appr[a].task
        /\ q.call = appr[a].call /\ q.row = appr[a].row
    BY <1>0, <2>1, <2>2 DEF Approval
  <2> QED BY <1>2, <1>3, <2>1, <2>3, OneApproval
<1>17. ASSUME NEW a \in ApprIds, DaemonForgets(a) PROVE Goal
  <2>1. /\ appr[a].dev = "issued" /\ appr' = [appr EXCEPT ![a].dev = "spent"] /\ UNCHANGED sub /\ UNCHANGED voice
    BY <1>17 DEF DaemonForgets
  <2>2. appr[a].row # "none"
    BY <2>1 DEF AskInv, ApprInv, NoApproval
  <2>3. PICK q : q = [appr[a] EXCEPT !.dev = "spent"]
    OBVIOUS
  <2>4. /\ appr' = [appr EXCEPT ![a] = q] /\ q.task = appr[a].task
        /\ q.call = appr[a].call /\ q.row = appr[a].row
    BY <1>0, <2>1, <2>3 DEF Approval
  <2> QED BY <1>2, <1>3, <2>1, <2>2, <2>4, OneApproval
<1>18. ASSUME HandlerLost PROVE Goal
  <2>0. losses' > 0
    BY <1>0, <1>18 DEF HandlerLost, Lose
  <2>1. CASE UNCHANGED <<appr, sub, voice>>
    BY <1>1, <1>2, <1>3, <2>1
  <2>2. CASE \E a \in ApprIds : /\ appr[a].row = "drop" /\ appr' = [appr EXCEPT ![a].row = "gone"]
                                /\ UNCHANGED <<conf, sub, voice>>
    BY <1>13, <2>0, <2>2
  <2>3. CASE \E s \in Submitters : sub' = [sub EXCEPT ![s] = Quiet] /\ UNCHANGED <<conf, appr, voice>>
    <3>1. \A z \in Submitters : SubmitMoves(z)
      BY <1>7, <2>0, <2>3 DEF Quiet
    <3> QED BY <1>1, <1>3, <2>3, <3>1
  <2>4. CASE \E t \in Tasks : voice' = [voice EXCEPT ![t] = FALSE] /\ UNCHANGED <<conf, appr, sub>>
    <3>1. \A t \in Tasks : VoiceMoves(t)
      BY <1>0, <2>0, <2>4 DEF VoiceMoves
    <3> QED BY <1>1, <1>2, <2>4, <3>1
  <2> QED BY <1>18, <2>1, <2>2, <2>3, <2>4 DEF HandlerLost
<1>19. ASSUME RemoveDevice PROVE Goal
  <2>1. losses' > 0 /\ UNCHANGED sub /\ UNCHANGED voice
    BY <1>0, <1>19 DEF RemoveDevice, Lose
  <2>2. ASSUME NEW a \in ApprIds PROVE appr'[a] = appr[a] \/ ApprovalMoves(a)
    <3>1. CASE appr[a].row # "saved"
      BY <1>19, <3>1 DEF RemoveDevice
    <3>2. CASE appr[a].row = "saved"
      <4>1. PICK q : q = [appr[a] EXCEPT !.row = "gone"]
        OBVIOUS
      <4>2. appr'[a] = q
        BY <1>19, <3>2, <4>1 DEF RemoveDevice
      <4> QED BY <1>0, <2>1, <3>2, <4>1, <4>2 DEF ApprovalMoves, Approval
    <3> QED BY <3>1, <3>2
  <2> QED BY <1>2, <1>3, <2>1, <2>2 DEF ApprovalRule
<1>20. ASSUME UNCHANGED <<appr, sub, voice>> PROVE Goal
  BY <1>1, <1>2, <1>3, <1>20
<1>21. ASSUME NEW t \in Tasks, startTask(t) \/ Cancel(t) \/ Overdue(t) \/ LeaseLapses(t)
       PROVE  UNCHANGED <<appr, sub, voice>>
  BY <1>21 DEF startTask, Cancel, Overdue, LeaseLapses
<1>22. ASSUME NEW w \in Workers, NEW t \in Tasks,
              \/ taskWorker(w, t) \/ Renew(w, t) \/ decideAgain(w, t) \/ LoseLease(w, t) \/ runCall(w, t)
              \/ pauseTask(w, t) \/ pauseTaskAsk(w, t) \/ decide(w, t) \/ giveUp(w, t)
       PROVE  UNCHANGED <<appr, sub, voice>>
  BY <1>22 DEF taskWorker, Renew, decideAgain, LoseLease, runCall, pauseTask, pauseTaskAsk,
               decide, giveUp
<1>23. ASSUME NEW k \in ConfIds, \/ settle(k) \/ runAction(k) \/ maintenanceConfirmation(k)
                                 \/ resumeAnswered(k) \/ ConfirmationLate(k)
       PROVE  UNCHANGED <<appr, sub, voice>>
  BY <1>23 DEF settle, runAction, maintenanceConfirmation, resumeAnswered, ConfirmationLate
<1>24. ASSUME (\E w \in Workers : WorkerLost(w)) \/ UNCHANGED vars PROVE UNCHANGED <<appr, sub, voice>>
  BY <1>24 DEF WorkerLost, vars
<1> HIDE DEF Goal
<1>25. Goal
  BY <1>4, <1>5, <1>6, <1>8, <1>9, <1>10, <1>11, <1>12, <1>14, <1>15, <1>16, <1>17, <1>18, <1>19,
     <1>20, <1>21, <1>22, <1>23, <1>24
  DEF Next, WorkerStep, SubmitStep
<1> QED BY <1>25 DEF Goal

\* An approval stays the approval of its call; what its command did stays done.
LEMMA ApprovalKept ==
  ASSUME TypeOK, AskInv, [Next]_vars, NEW a \in ApprIds, appr[a].row # "none"
  PROVE  /\ appr'[a].row # "none" /\ appr'[a].task = appr[a].task /\ appr'[a].call = appr[a].call
         /\ appr[a].dev = "ran" => appr'[a].dev = "ran"
<1>1. CASE \E b \in ApprIds, t \in Tasks, c \in AnyCall : NewApproval(b, t, c)
  <2>1. PICK b \in ApprIds, t \in Tasks, c \in AnyCall : NewApproval(b, t, c)
    BY <1>1
  <2>2. a # b
    BY <2>1 DEF NewApproval
  <2>3. appr'[a] = appr[a]
    BY <2>1, <2>2 DEF NewApproval, TypeOK
  <2> QED BY <2>3
<1>2. CASE appr'[a] = appr[a] \/ ApprovalMoves(a)
  BY <1>2 DEF ApprovalMoves
<1> QED BY <1>1, <1>2, ApprovalRules DEF ApprovalRule

\* What an approval says of its task, and what the requests and the voice call
\* that hold it know.
LEMMA ApprovalsStep ==
  ASSUME TypeOK, TypeOK', HistoryInv, AskInv, [Next]_vars
  PROVE  ApprInv'
<1>0. /\ RowsInv /\ ApprovalRule /\ ApprInv /\ \A x \in Tasks : RowRule(x)
      /\ DeviceCalls \subseteq Calls /\ "awaiting_approval" \in Waiting /\ NoCall \notin DeviceCalls
      /\ appr \in [ApprIds -> Approval] /\ voice \in [Tasks -> BOOLEAN]
  BY RowRules, ApprovalRules, CallsAssumption DEF AskInv, Calls, Waiting, TypeOK
<1>01. ASSUME NEW w \in Workers, wk'[w].pc = "askA"
       PROVE  Asking(w)' /\ wk[w].task \in Tasks /\ wk'[w].task = wk[w].task /\ Asked(w)' # NoCall
  BY <1>0, <1>01, AskingBefore, WorkerKnows DEF Asking
<1> DEFINE P(a) ==
      /\ appr'[a].row = "none" => appr'[a] = NoApproval
      /\ appr'[a].row # "none" =>
           /\ appr'[a].task \in Tasks /\ task'[appr'[a].task].state # "none"
           /\ \/ appr'[a].call = NoCall /\ task'[appr'[a].task].kind = "command"
              \/ /\ appr'[a].call \in DeviceCalls /\ task'[appr'[a].task].kind = "agent"
                 /\ Reached(appr[a].task, appr[a].call, "awaiting_approval")'
      /\ \A w \in Workers : wk'[w].pc = "askA" /\ wk'[w].task = appr'[a].task => Asked(w)' # appr'[a].call
<1>1. ASSUME NEW a \in ApprIds, appr[a].row # "none" PROVE P(a)
  <2>0. appr'[a].row # "none" /\ appr'[a].task = appr[a].task /\ appr'[a].call = appr[a].call
    BY <1>1, ApprovalKept
  <2>1. PICK x \in Tasks, c \in AnyCall : x = appr[a].task /\ c = appr[a].call /\ task[x].state # "none"
    BY <1>0, <1>1 DEF ApprInv, AnyCall, Calls
  <2>2. task'[x].state # "none" /\ task'[x].kind = task[x].kind
    BY <1>0, <2>1, RowGrows
  <2>3. CASE c = NoCall /\ task[x].kind = "command"
    BY <1>01, <2>0, <2>1, <2>2, <2>3
  <2>4. CASE c \in DeviceCalls /\ task[x].kind = "agent" /\ Reached(x, c, "awaiting_approval")
    <3>1. Reached(x, c, "awaiting_approval")'
      BY <1>0, <2>4, RowGrows
    <3>2. Reached(appr[a].task, appr[a].call, "awaiting_approval")'
      BY <2>0, <2>1, <3>1 DEF Reached, Rests, WaitsOn
    <3>3. ASSUME NEW w \in Workers, wk'[w].pc = "askA", wk'[w].task = x PROVE Asked(w)' # c
      <4>1. Asking(w)' /\ wk[w].task = x
        BY <1>01, <3>3
      <4>2. SameWorker(w) => Asked(w) # c
        BY <1>0, <2>1, <3>3, <4>1 DEF SameWorker, ApprInv
      <4> QED BY <1>0, <2>4, <4>1, <4>2, NotAskedAgain
    <3> QED BY <2>0, <2>1, <2>2, <2>4, <3>2, <3>3
  <2> QED BY <1>0, <1>1, <2>1, <2>3, <2>4 DEF ApprInv
<1>2. ASSUME NEW a \in ApprIds, appr[a].row = "none", appr'[a] = appr[a] PROVE P(a)
  <2>1. appr'[a] = NoApproval
    BY <1>0, <1>2 DEF ApprInv
  <2> QED BY <1>01, <1>2, <2>1, NullAssumption DEF NoApproval
<1>3. ASSUME NEW b \in ApprIds, NEW t \in Tasks, NEW c \in AnyCall, NewApproval(b, t, c), NEW a \in ApprIds PROVE P(a)
  <2>1. CASE a # b
    BY <1>0, <1>1, <1>2, <1>3, <2>1 DEF NewApproval
  <2>2. CASE a = b
    <3>1. t \in Tasks /\ appr'[a].task = t /\ appr'[a].call = c /\ appr'[a].row = "saved"
      BY <1>0, <1>3, <2>2 DEF NewApproval
    <3>2. CASE voice[t] /\ c = NoCall
      <4>1. task[t].kind = "command" /\ task[t].state # "none"
        BY <1>0, <3>1, <3>2 DEF ApprInv
      <4>2. task'[t].kind = "command" /\ task'[t].state # "none"
        BY <1>0, <3>1, <4>1, RowGrows
      <4> QED BY <1>01, <3>1, <3>2, <4>2
    <3>3. CASE \E w \in Workers : wk[w].pc = "askA" /\ wk'[w].pc = "idle" /\ wk[w].task = t /\ Asked(w) = c
      <4>1. PICK w \in Workers : wk[w].pc = "askA" /\ wk'[w].pc = "idle" /\ wk[w].task = t /\ Asked(w) = c
        BY <3>3
      <4>2. c \in DeviceCalls /\ task[t].kind = "agent" /\ task[t].state # "none"
        BY <4>1 DEF AskInv, WorkersInv
      <4>3. task'[t].kind = "agent" /\ task'[t].state # "none"
        BY <1>0, <3>1, <4>2, RowGrows
      <4>4. /\ Rests(t, c, "awaiting_approval") /\ task'[t].prog = task[t].prog
            /\ task'[t].state \in {"awaiting_approval"} \cup Terminal
        BY <4>1, AskerRests
      <4>5. Reached(appr[a].task, appr[a].call, "awaiting_approval")'
        BY <3>1, <4>4 DEF Reached, Rests, WaitsOn
      <4>6. ASSUME NEW v \in Workers, wk'[v].pc = "askA", wk'[v].task = t PROVE FALSE
        <5>1. Asking(v)' /\ wk[v].task = t /\ (SameWorker(v) \/ Paused(v))
          BY <1>01, <4>6, AskingBefore
        <5>2. CASE SameWorker(v)
          <6>1. Asking(v) /\ Asking(w)
            BY <4>1, <4>6, <5>2 DEF SameWorker, Asking
          <6>2. v = w
            BY <4>1, <5>1, <6>1 DEF AskInv, WorkersInv
          <6> QED BY <4>1, <4>6, <6>2
        <5>3. CASE Paused(v)
          <6>1. appr' = appr
            BY <5>3 DEF Paused
          <6> QED BY <1>3, <2>2, <3>1, <6>1 DEF NewApproval
        <5> QED BY <5>1, <5>2, <5>3
      <4> QED BY <3>1, <4>2, <4>3, <4>5, <4>6
    <3> QED BY <1>3, <3>2, <3>3 DEF NewApproval
  <2> QED BY <2>1, <2>2
<1>4. \A a \in ApprIds : P(a)
  BY <1>0, <1>1, <1>2, <1>3 DEF ApprovalRule, ApprovalMoves
<1>5. ASSUME NEW s \in Submitters, sub'[s].pc # "idle"
      PROVE  /\ sub'[s].appr \in ApprIds /\ appr'[sub'[s].appr].row # "none"
             /\ sub'[s].pc \in {"delete", "resume"} => appr'[sub'[s].appr].dev = "ran"
  <2>1. SubmitMoves(s)
    BY ApprovalRules
  <2>2. CASE sub'[s] = sub[s]
    <3>1. PICK a \in ApprIds : a = sub[s].appr
      BY <1>0, <1>5, <2>2 DEF ApprInv
    <3>2. appr[a].row # "none" /\ (sub[s].pc \in {"delete", "resume"} => appr[a].dev = "ran")
      BY <1>0, <1>5, <2>2, <3>1 DEF ApprInv
    <3> QED BY <2>2, <3>1, <3>2, ApprovalKept
  <2>3. CASE /\ sub'[s].appr \in ApprIds /\ appr[sub'[s].appr].row # "none"
             /\ sub'[s].pc \in {"delete", "resume"} => appr'[sub'[s].appr].dev = "ran"
    BY <2>3, ApprovalKept
  <2> QED BY <1>5, <2>1, <2>2, <2>3 DEF SubmitMoves
<1>6. ASSUME NEW t \in Tasks, voice'[t]
      PROVE  /\ task'[t].kind = "command" /\ task'[t].state # "none"
             /\ \A a \in ApprIds : appr'[a].task # t
  <2>1. VoiceMoves(t)
    BY ApprovalRules
  <2>2. CASE voice'[t] = voice[t]
    <3>1. task[t].kind = "command" /\ task[t].state # "none" /\ \A a \in ApprIds : appr[a].task # t
      BY <1>0, <1>6, <2>2 DEF ApprInv
    <3>2. task'[t].kind = "command" /\ task'[t].state # "none"
      BY <1>0, <3>1, RowGrows
    <3>3. ASSUME NEW a \in ApprIds PROVE appr'[a].task # t
      <4>1. CASE \E b \in ApprIds, y \in Tasks, c \in AnyCall : NewApproval(b, y, c)
        <5>1. PICK b \in ApprIds, y \in Tasks, c \in AnyCall : NewApproval(b, y, c)
          BY <4>1
        <5>2. y # t
          <6>1. CASE voice' = [voice EXCEPT ![y] = FALSE]
            BY <1>0, <1>6, <6>1
          <6>2. CASE \E w \in Workers : wk[w].pc = "askA" /\ wk[w].task = y
            BY <3>1, <6>2 DEF AskInv, WorkersInv
          <6> QED BY <5>1, <6>1, <6>2 DEF NewApproval
        <5> QED BY <1>0, <3>1, <5>1, <5>2 DEF NewApproval
      <4>2. CASE appr'[a] = appr[a] \/ ApprovalMoves(a)
        BY <3>1, <4>2 DEF ApprovalMoves
      <4> QED BY <1>0, <4>1, <4>2 DEF ApprovalRule
    <3> QED BY <3>2, <3>3
  <2>3. CASE task[t].state = "none" /\ task'[t].kind = "command" /\ task'[t].state # "none" /\ UNCHANGED appr
    <3>1. ASSUME NEW a \in ApprIds PROVE appr[a].task # t
      <4>1. CASE appr[a].row = "none"
        <5>1. appr[a].task = NoTask
          BY <1>0, <4>1 DEF ApprInv, NoApproval
        <5> QED BY <5>1, NullAssumption
      <4>2. CASE appr[a].row # "none"
        BY <1>0, <2>3, <4>2 DEF ApprInv
      <4> QED BY <4>1, <4>2
    <3> QED BY <2>3, <3>1
  <2> QED BY <1>6, <2>1, <2>2, <2>3 DEF VoiceMoves
<1> HIDE DEF P
<1>7. \A a \in ApprIds : LET q == appr'[a] IN
       /\ q.row = "none" => q = NoApproval
       /\ q.row # "none" =>
            /\ q.task \in Tasks /\ task'[q.task].state # "none"
            /\ \/ q.call = NoCall /\ task'[q.task].kind = "command"
               \/ q.call \in DeviceCalls /\ task'[q.task].kind = "agent" /\ Reached(appr[a].task, appr[a].call, "awaiting_approval")'
       /\ \A w \in Workers : wk'[w].pc = "askA" /\ wk'[w].task = q.task => Asked(w)' # q.call
  BY <1>4 DEF P
<1> QED BY <1>5, <1>6, <1>7 DEF ApprInv

\* The device is only gone when it was removed, which counts as a loss.
LEMMA DeviceStep ==
  ASSUME TypeOK, DeviceInv, [Next]_vars
  PROVE  DeviceInv' /\ (losses' = 0 => losses = 0)
<1>0. losses \in Nat
  BY DEF TypeOK
<1>1. ASSUME losses' = losses, device' = device PROVE DeviceInv' /\ (losses' = 0 => losses = 0)
  BY <1>1 DEF DeviceInv
<1>2. ASSUME losses' = losses + 1 PROVE DeviceInv' /\ (losses' = 0 => losses = 0)
  BY <1>0, <1>2 DEF DeviceInv
<1>3. ASSUME NEW t \in Tasks, \/ startTask(t) \/ awaitApproval(t) \/ awaitApprovalSave(t) \/ Cancel(t)
                              \/ Overdue(t) \/ LeaseLapses(t)
      PROVE  losses' = losses /\ device' = device
  BY <1>3 DEF startTask, awaitApproval, awaitApprovalSave, Cancel, Overdue, LeaseLapses
<1>4. ASSUME NEW w \in Workers, NEW t \in Tasks,
             taskWorker(w, t) \/ Renew(w, t) \/ decideAgain(w, t) \/ WorkerStep(w, t)
      PROVE  losses' = losses /\ device' = device
  BY <1>4 DEF taskWorker, Renew, decideAgain, WorkerStep, LoseLease, runCall, pauseTask, pauseTaskAsk,
              pauseTaskApproval, decide, giveUp
<1>5. ASSUME NEW k \in ConfIds, \/ settle(k) \/ runAction(k) \/ maintenanceConfirmation(k)
                                \/ resumeAnswered(k) \/ ConfirmationLate(k)
      PROVE  losses' = losses /\ device' = device
  BY <1>5 DEF settle, runAction, maintenanceConfirmation, resumeAnswered, ConfirmationLate
<1>6. ASSUME NEW s \in Submitters, NEW a \in ApprIds,
             SubmitApproval(s, a) \/ execDevice(s, a) \/ deleteSubmitted(s, a) \/ resumeSubmitted(s, a)
      PROVE  losses' = losses /\ device' = device
  BY <1>6 DEF SubmitApproval, execDevice, deleteSubmitted, resumeSubmitted
<1>7. ASSUME NEW s \in Submitters, NEW a \in ApprIds, commandEnds(s, a)
      PROVE  (losses' = losses /\ device' = device) \/ losses' = losses + 1
  BY <1>7 DEF commandEnds, Lose
<1>8. ASSUME NEW a \in ApprIds, \/ expireApprovals(a) \/ dropApproval(a)
                                \/ ApprovalLate(a) \/ DaemonForgets(a)
      PROVE  losses' = losses /\ device' = device
  BY <1>8 DEF expireApprovals, dropApproval, ApprovalLate, DaemonForgets
<1>9. ASSUME HandlerLost \/ RemoveDevice \/ (\E w \in Workers : WorkerLost(w))
      PROVE  losses' = losses + 1
  BY <1>9 DEF HandlerLost, RemoveDevice, WorkerLost, Lose
<1>10. ASSUME UNCHANGED vars PROVE losses' = losses /\ device' = device
  BY <1>10 DEF vars
<1> QED BY <1>1, <1>2, <1>3, <1>4, <1>5, <1>6, <1>7, <1>8, <1>9, <1>10 DEF Next, SubmitStep

-----------------------------------------------------------------------------
(* The properties.                                                           *)

\* A question stays the question about its call, and what it led to stays.
LEMMA QuestionKept ==
  ASSUME TypeOK, AskInv, [Next]_vars, NEW k \in ConfIds, conf[k].state # "none"
  PROVE  /\ conf'[k] = conf[k] \/ QuestionMoves(k)
         /\ conf'[k].state # "none" /\ conf'[k].task = conf[k].task /\ conf'[k].call = conf[k].call
         /\ conf[k].ran => conf'[k].ran
         /\ ~conf[k].ran /\ conf[k].state \notin {"pending", "confirmed"} =>
              ~conf'[k].ran /\ conf'[k].state \notin {"pending", "confirmed"}
<1>1. conf'[k] = conf[k] \/ QuestionMoves(k)
  <2>1. CASE \E j \in ConfIds, w \in Workers : NewQuestion(j, w)
    <3>1. PICK j \in ConfIds, w \in Workers : NewQuestion(j, w)
      BY <2>1
    <3>2. k # j
      BY <3>1 DEF NewQuestion
    <3> QED BY <3>1, <3>2 DEF NewQuestion, TypeOK
  <2> QED BY <2>1, QuestionRules DEF QuestionRule
<1>2. conf[k].at = "act" => conf[k].state = "confirmed"
  BY DEF AskInv, ConfInv
<1>3. conf[k] \in Confirmation
  BY DEF TypeOK
<1>4. CASE conf'[k] = conf[k]
  BY <1>4
<1>5. CASE QuestionMoves(k)
  <2>1. conf'[k].state # "none" /\ conf'[k].task = conf[k].task /\ conf'[k].call = conf[k].call
    BY <1>5 DEF QuestionMoves
  <2>2. conf[k].ran => conf'[k].ran
    BY <1>5 DEF QuestionMoves
  <2>3. ~conf[k].ran /\ conf[k].state \notin {"pending", "confirmed"} =>
          ~conf'[k].ran /\ conf'[k].state \notin {"pending", "confirmed"}
    BY <1>2, <1>5 DEF QuestionMoves
  <2> QED BY <1>5, <2>1, <2>2, <2>3
<1> QED BY <1>1, <1>4, <1>5

\* A question that was not there before is the one a worker has just asked.
LEMMA QuestionOrigin ==
  ASSUME TypeOK, AskInv, [Next]_vars, NEW k \in ConfIds, conf[k].state = "none", conf'[k].task \in Tasks
  PROVE  \E w \in Workers : NewQuestion(k, w) /\ conf'[k].task = wk[w].task /\ conf'[k].call = Asked(w)
<1>1. conf[k].task \notin Tasks
  BY NullAssumption DEF AskInv, ConfInv, NoConfirmation
<1>2. CASE \E j \in ConfIds, w \in Workers : NewQuestion(j, w)
  <2>1. PICK j \in ConfIds, w \in Workers : NewQuestion(j, w)
    BY <1>2
  <2>2. j = k
    BY <1>1, <2>1 DEF NewQuestion, TypeOK
  <2> QED BY <2>1, <2>2 DEF NewQuestion, TypeOK
<1> QED BY <1>1, <1>2, QuestionRules DEF QuestionRule, QuestionMoves

\* The same for approvals.
LEMMA ApprovalOrigin ==
  ASSUME TypeOK, AskInv, [Next]_vars, NEW a \in ApprIds, appr[a].row = "none", appr'[a].row # "none"
  PROVE  /\ NewApproval(a, appr'[a].task, appr'[a].call)
         /\ \A b \in ApprIds : b # a => appr'[b] = appr[b]
<1>1. CASE \E b \in ApprIds, t \in Tasks, c \in AnyCall : NewApproval(b, t, c)
  <2>1. PICK b \in ApprIds, t \in Tasks, c \in AnyCall : NewApproval(b, t, c)
    BY <1>1
  <2>2. b = a
    BY <2>1 DEF NewApproval, TypeOK
  <2>3. appr'[a].task = t /\ appr'[a].call = c /\ \A d \in ApprIds : d # a => appr'[d] = appr[d]
    BY <2>1, <2>2 DEF NewApproval, TypeOK
  <2> QED BY <2>1, <2>2, <2>3
<1> QED BY <1>1, ApprovalRules DEF ApprovalRule, ApprovalMoves

\* Nobody has asked the question that a worker is about to ask.
LEMMA FreshAsk ==
  ASSUME AskInv, NEW w \in Workers
  PROVE  /\ wk[w].pc = "askC" => \A k \in ConfIds : ~(conf[k].task = wk[w].task /\ conf[k].call = Asked(w))
         /\ wk[w].pc = "askA" => \A a \in ApprIds : ~(appr[a].task = wk[w].task /\ appr[a].call = Asked(w))
BY DEF AskInv, ConfInv, ApprInv

\* No step asks twice.
LEMMA AskedOnceStep ==
  ASSUME TypeOK, AskInv, TypeOK', AskInv', AskedOnce, [Next]_vars
  PROVE  AskedOnce'
<1>1. ASSUME NEW j \in ConfIds, NEW k \in ConfIds, conf'[j].state # "none", conf'[k].state # "none",
             conf'[j].task = conf'[k].task, conf'[j].call = conf'[k].call, conf[k].state # "none"
      PROVE  j = k
  <2>1. conf'[k].task = conf[k].task /\ conf'[k].call = conf[k].call
    BY <1>1, QuestionKept
  <2>2. CASE conf[j].state # "none"
    <3>1. conf'[j].task = conf[j].task /\ conf'[j].call = conf[j].call
      BY <2>2, QuestionKept
    <3> QED BY <1>1, <2>1, <2>2, <3>1 DEF AskedOnce
  <2>3. CASE conf[j].state = "none"
    <3>0. conf'[j].task \in Tasks
      BY <1>1 DEF AskInv, ConfInv
    <3>1. PICK w \in Workers : NewQuestion(j, w) /\ conf'[j].task = wk[w].task /\ conf'[j].call = Asked(w)
      BY <2>3, <3>0, QuestionOrigin
    <3> QED BY <1>1, <2>1, <3>1, FreshAsk DEF NewQuestion
  <2> QED BY <2>2, <2>3
<1>2. ASSUME NEW j \in ConfIds, NEW k \in ConfIds, conf'[j].state # "none", conf'[k].state # "none",
             conf[j].state = "none", conf[k].state = "none"
      PROVE  j = k
  <2>0. conf'[j].task \in Tasks /\ conf'[k].task \in Tasks
    BY <1>2 DEF AskInv, ConfInv
  <2>1. PICK w \in Workers : NewQuestion(j, w)
    BY <1>2, <2>0, QuestionOrigin
  <2>2. ASSUME k # j PROVE conf'[k] = conf[k]
    BY <2>1, <2>2 DEF NewQuestion, TypeOK
  <2> QED BY <1>2, <2>2
<1>3. ASSUME NEW a \in ApprIds, NEW b \in ApprIds, appr'[a].row # "none", appr'[b].row # "none",
             appr'[a].task = appr'[b].task, appr'[a].call = appr'[b].call, appr[b].row # "none"
      PROVE  a = b
  <2>1. appr'[b].task = appr[b].task /\ appr'[b].call = appr[b].call
    BY <1>3, ApprovalKept
  <2>2. CASE appr[a].row # "none"
    <3>1. appr'[a].task = appr[a].task /\ appr'[a].call = appr[a].call
      BY <2>2, ApprovalKept
    <3> QED BY <1>3, <2>1, <2>2, <3>1 DEF AskedOnce
  <2>3. CASE appr[a].row = "none"
    <3>1. PICK t, c : t = appr'[a].task /\ c = appr'[a].call /\ NewApproval(a, t, c)
      BY <1>3, <2>3, ApprovalOrigin
    <3>2. ~voice[t]
      BY <1>3, <2>1, <3>1, SMTT(30) DEF NewApproval, AskInv, ApprInv
    <3>3. PICK w \in Workers : wk[w].pc = "askA" /\ wk[w].task = t /\ Asked(w) = c
      BY <3>1, <3>2 DEF NewApproval
    <3> QED BY <1>3, <2>1, <3>1, <3>3, FreshAsk
  <2> QED BY <2>2, <2>3
<1>4. ASSUME NEW a \in ApprIds, NEW b \in ApprIds, appr'[a].row # "none", appr'[b].row # "none",
             appr[a].row = "none", appr[b].row = "none"
      PROVE  a = b
  BY <1>4, ApprovalOrigin
<1>5. \A j, k \in ConfIds : conf'[j].state # "none" /\ conf'[k].state # "none"
        /\ conf'[j].task = conf'[k].task /\ conf'[j].call = conf'[k].call => j = k
  BY <1>1, <1>2
<1>6. \A a, b \in ApprIds : appr'[a].row # "none" /\ appr'[b].row # "none"
        /\ appr'[a].task = appr'[b].task /\ appr'[a].call = appr'[b].call => a = b
  BY <1>3, <1>4
<1> QED BY <1>5, <1>6 DEF AskedOnce

\* A result for an action comes from its question.
LEMMA ActionResultStep ==
  ASSUME TypeOK, HistoryInv, AskInv, AskedOnce, ActionResultTrue, [Next]_vars
  PROVE  ActionResultTrue'
<1> SUFFICES ASSUME NEW x \in Tasks, NEW c \in ActionCalls
             PROVE  /\ task'[x].prog.out[c] = "tool" =>
                         \E k \in ConfIds : conf'[k].task = x /\ conf'[k].call = c /\ conf'[k].ran
                    /\ task'[x].prog.out[c] = "notdone" =>
                         \A k \in ConfIds : conf'[k].task = x /\ conf'[k].call = c =>
                           ~conf'[k].ran /\ conf'[k].state \notin {"pending", "confirmed"}
  BY DEF ActionResultTrue
<1>0. task[x].prog \in Progress /\ Paired(task[x].prog) /\ c \in Calls /\ RowRule(x)
  BY RowFields, RowRules DEF HistoryInv, Good, Calls
<1>1. /\ task[x].prog.out[c] = "tool" => \E k \in ConfIds : conf[k].task = x /\ conf[k].call = c /\ conf[k].ran
      /\ task[x].prog.out[c] = "notdone" =>
           \A k \in ConfIds : conf[k].task = x /\ conf[k].call = c =>
             ~conf[k].ran /\ conf[k].state \notin {"pending", "confirmed"}
  BY DEF ActionResultTrue
<1>2. CASE task'[x].prog.out[c] = task[x].prog.out[c]
  <2>1. ASSUME task'[x].prog.out[c] = "tool"
        PROVE  \E k \in ConfIds : conf'[k].task = x /\ conf'[k].call = c /\ conf'[k].ran
    <3>1. PICK k \in ConfIds : conf[k].task = x /\ conf[k].call = c /\ conf[k].ran
      BY <1>1, <1>2, <2>1
    <3>2. conf[k].state # "none"
      BY <3>1 DEF AskInv, ConfInv
    <3> QED BY <3>1, <3>2, QuestionKept
  <2>2. ASSUME task'[x].prog.out[c] = "notdone", NEW k \in ConfIds, conf'[k].task = x, conf'[k].call = c
        PROVE  ~conf'[k].ran /\ conf'[k].state \notin {"pending", "confirmed"}
    <3>1. CASE conf[k].state # "none"
      BY <1>1, <1>2, <2>2, <3>1, QuestionKept
    <3>2. CASE conf[k].state = "none"
      <4>1. PICK w \in Workers : NewQuestion(k, w) /\ wk[w].task = x /\ Asked(w) = c
        BY <2>2, <3>2, QuestionOrigin
      <4>2. Rests(x, c, "awaiting_confirmation")
        BY <4>1, AskerRests DEF NewQuestion
      <4>3. task[x].prog.out[c] = "none"
        BY <1>0, <4>2, FirstPending DEF Rests, WaitsOn
      <4> QED BY <1>2, <2>2, <4>3
    <3> QED BY <3>1, <3>2
  <2> QED BY <2>1, <2>2
<1>3. CASE task'[x].prog.out[c] # task[x].prog.out[c]
  <2>1. Resumed(x) /\ task[x].kind # "command"
    <3>1. ~SameRow(x) /\ ~Cancelled(x) /\ ~(Resumed(x) /\ task[x].kind = "command")
      BY <1>3 DEF SameRow, Cancelled, Resumed
    <3>2. ~Created(x)
      BY <1>3 DEF Created, AskInv, RowsInv
    <3>3. \A w \in Workers : ~Leased(w, x) /\ ~Wrote(w, x)
      BY <1>3 DEF Leased, Wrote, Ahead
    <3> QED BY <1>0, <3>1, <3>2, <3>3 DEF RowRule
  <2>2. PICK o \in {"tool", "notdone"} : /\ task'[x].prog = Answer(task[x].prog, o)
                                         /\ Source(x, Head(task[x].prog.pend), o)
    BY <2>1 DEF Resumed
  <2>3. task[x].prog.pend # <<>>
    BY <2>1 DEF Resumed
  <2>4. PICK p \in Progress : p = task[x].prog
    BY <1>0
  <2>5. /\ Answer(p, o).out = [p.out EXCEPT ![Head(p.pend)] = o] /\ p.out \in [Calls -> Outs]
        /\ Head(p.pend) \in Calls
    <3>1. Paired(p) /\ p.pend # <<>> /\ p.out \in [Calls -> Outs]
      BY <1>0, <2>3, <2>4 DEF Progress
    <3> QED BY <3>1, AnswerKept, FirstPending
  <2>6. c = Head(task[x].prog.pend) /\ task'[x].prog.out[c] = o
    BY <1>0, <1>3, <2>2, <2>4, <2>5
  <2>7. Source(x, c, o)
    BY <2>2, <2>6
  <2>8. ~\E a \in ApprIds : appr[a].row # "none" /\ appr[a].task = x /\ appr[a].call = c
    BY <1>0, CallsAssumption DEF AskInv, ApprInv
  <2>9. PICK k \in ConfIds : /\ conf[k].at = "resume" /\ conf[k].task = x /\ conf[k].call = c
                             /\ o = IF conf[k].state = "confirmed" THEN "tool" ELSE "notdone"
    BY <2>7, <2>8 DEF Source
  <2>10. /\ conf[k].state \in {"confirmed", "cancelled", "expired"}
         /\ conf[k].state = "confirmed" => conf[k].ran
         /\ conf[k].ran => conf[k].state = "confirmed"
    BY <2>9 DEF AskInv, ConfInv
  <2>11. ASSUME o = "tool"
         PROVE  \E i \in ConfIds : conf'[i].task = x /\ conf'[i].call = c /\ conf'[i].ran
    BY <2>9, <2>10, <2>11, QuestionKept
  <2>12. ASSUME o = "notdone", NEW j \in ConfIds, conf'[j].task = x, conf'[j].call = c
         PROVE  ~conf'[j].ran /\ conf'[j].state \notin {"pending", "confirmed"}
    <3>1. CASE conf[j].state = "none"
      <4>1. PICK w \in Workers : NewQuestion(j, w) /\ wk[w].task = x /\ Asked(w) = c
        BY <2>12, <3>1, QuestionOrigin
      <4> QED BY <2>9, <4>1, FreshAsk DEF NewQuestion
    <3>2. CASE conf[j].state # "none"
      <4>1. conf[j].task = x /\ conf[j].call = c
        BY <2>12, <3>2, QuestionKept
      <4>2. j = k
        BY <2>9, <2>10, <3>2, <4>1 DEF AskedOnce
      <4>3. ~conf[k].ran /\ conf[k].state \notin {"pending", "confirmed"}
        BY <2>9, <2>10, <2>12
      <4> QED BY <3>2, <4>2, <4>3, QuestionKept
    <3> QED BY <3>1, <3>2
  <2> QED BY <2>6, <2>11, <2>12
<1> QED BY <1>2, <1>3

\* A command task succeeds with the result of a command that ran.
LEMMA CommandResultStep ==
  ASSUME TypeOK, HistoryInv, AskInv, RowsInv', CommandResultTrue, [Next]_vars
  PROVE  CommandResultTrue'
<1> SUFFICES ASSUME NEW x \in Tasks, task'[x].kind = "command"
             PROVE  /\ task'[x].state \notin {"queued", "running"}
                    /\ task'[x].state = "succeeded" =>
                         \E a \in ApprIds : appr'[a].task = x /\ appr'[a].dev = "ran"
  BY DEF CommandResultTrue
<1>1. RowRule(x)
  BY RowRules
<1>2. task'[x].state \notin {"queued", "running"}
  BY DEF RowsInv
<1>3. ASSUME task'[x].state = "succeeded" PROVE \E a \in ApprIds : appr[a].task = x /\ appr[a].dev = "ran"
  <2>1. CASE SameRow(x)
    BY <1>3, <2>1 DEF SameRow, CommandResultTrue
  <2>2. CASE Resumed(x)
    BY <1>3, <2>2 DEF Resumed
  <2>3. ~Created(x) /\ ~Cancelled(x) /\ \A w \in Workers : ~Leased(w, x) /\ ~Wrote(w, x)
    BY <1>3 DEF Created, Cancelled, Leased, Wrote, AskInv, WorkersInv
  <2> QED BY <1>1, <2>1, <2>2, <2>3 DEF RowRule
<1>4. ASSUME NEW a \in ApprIds, appr[a].task = x, appr[a].dev = "ran"
      PROVE  appr'[a].task = x /\ appr'[a].dev = "ran"
  <2>1. appr[a].row # "none"
    BY <1>4 DEF AskInv, ApprInv, NoApproval
  <2> QED BY <1>4, <2>1, ApprovalKept
<1> QED BY <1>2, <1>3, <1>4

\* A worker that stops asking has asked, or was lost, or the device is gone.
LEMMA AskerEnds ==
  ASSUME TypeOK, HistoryInv, AskInv, [Next]_vars, NEW v \in Workers, Asking(v)
  PROVE  \/ SameWorker(v) \/ losses' > 0 \/ ~device
         \/ wk[v].pc = "askC" /\ \E k \in ConfIds : NewQuestion(k, v)
         \/ wk[v].pc = "askA" /\ \E a \in ApprIds : NewApproval(a, wk[v].task, Asked(v))
<1>0. wk \in [Workers -> Worker] /\ losses \in Nat /\ wk[v].pc \in {"askC", "askA"}
  BY DEF TypeOK, Asking
<1> DEFINE Goal == \/ SameWorker(v) \/ losses' > 0 \/ ~device
                   \/ wk[v].pc = "askC" /\ \E k \in ConfIds : NewQuestion(k, v)
                   \/ wk[v].pc = "askA" /\ \E a \in ApprIds : NewApproval(a, wk[v].task, Asked(v))
<1>1. ASSUME UNCHANGED wk PROVE Goal
  BY <1>1 DEF SameWorker
<1>2. ASSUME NEW w \in Workers, v # w, NEW r, wk' = [wk EXCEPT ![w] = r] PROVE Goal
  BY <1>0, <1>2 DEF SameWorker
<1>3. ASSUME NEW w \in Workers, NEW t \in Tasks, pauseTaskAsk(w, t) PROVE Goal
  <2>1. CASE v = w
    <3>1. PICK k \in ConfIds : CreateConfirmation(k, t, Head(wk[w].prog.pend))
      BY <1>3 DEF pauseTaskAsk
    <3>2. NewQuestion(k, v)
      BY <1>0, <1>3, <2>1, <3>1 DEF NewQuestion, CreateConfirmation, Asked, pauseTaskAsk, Idle
    <3> QED BY <1>3, <2>1, <3>2 DEF pauseTaskAsk
  <2> QED BY <1>2, <1>3, <2>1 DEF pauseTaskAsk
<1>4. ASSUME NEW w \in Workers, NEW t \in Tasks, pauseTaskApproval(w, t) PROVE Goal
  <2>1. CASE v = w /\ device
    <3>0. PICK c : c = Asked(v)
      OBVIOUS
    <3>1. PICK a \in ApprIds : SaveApproval(a, t, c)
      BY <1>4, <2>1, <3>0 DEF pauseTaskApproval, Asked
    <3>2. wk[v].pc = "askA" /\ wk[v].task = t /\ wk'[v].pc = "idle" /\ UNCHANGED sub /\ UNCHANGED voice
      BY <1>0, <1>4, <2>1 DEF pauseTaskApproval, Idle
    <3>3. NewApproval(a, t, c)
      BY <3>0, <3>1, <3>2 DEF NewApproval, SaveApproval
    <3> QED BY <3>0, <3>2, <3>3
  <2> QED BY <1>2, <1>4, <2>1 DEF pauseTaskApproval
<1>5. ASSUME NEW w \in Workers, WorkerLost(w) PROVE losses' > 0
  BY <1>0, <1>5 DEF WorkerLost, Lose
<1>6. ASSUME NEW w \in Workers, NEW t \in Tasks,
             \/ taskWorker(w, t) \/ decideAgain(w, t) \/ LoseLease(w, t) \/ runCall(w, t)
             \/ pauseTask(w, t) \/ decide(w, t) \/ giveUp(w, t)
      PROVE  Goal
  <2>1. v # w
    BY <1>0, <1>6 DEF taskWorker, decideAgain, LoseLease, runCall, pauseTask, decide, giveUp, Looping
  <2>2. CASE taskWorker(w, t) \/ LoseLease(w, t) \/ pauseTask(w, t) \/ giveUp(w, t)
    BY <1>2, <2>1, <2>2 DEF taskWorker, LoseLease, pauseTask, giveUp, finish
  <2>3. CASE decideAgain(w, t)
    BY <1>0, <2>1, <2>3 DEF decideAgain, SameWorker
  <2>4. ASSUME NEW p, save(w, t, p) \/ finish(w, t, p, "succeeded") PROVE SameWorker(v)
    BY <1>0, <2>1, <2>4 DEF save, finish, SameWorker
  <2>5. CASE runCall(w, t)
    BY <2>4, <2>5 DEF runCall
  <2>6. CASE decide(w, t)
    BY <2>4, <2>6 DEF decide
  <2> QED BY <1>6, <2>2, <2>3, <2>5, <2>6
<1>8. ASSUME NEW t \in Tasks, \/ startTask(t) \/ awaitApproval(t) \/ awaitApprovalSave(t) \/ Cancel(t)
                              \/ Overdue(t) \/ LeaseLapses(t)
      PROVE  UNCHANGED wk
  BY <1>8 DEF startTask, awaitApproval, awaitApprovalSave, Cancel, Overdue, LeaseLapses
<1>9. ASSUME NEW w \in Workers, NEW t \in Tasks, Renew(w, t) PROVE UNCHANGED wk
  BY <1>9 DEF Renew
<1>10. ASSUME NEW k \in ConfIds, \/ settle(k) \/ runAction(k) \/ maintenanceConfirmation(k)
                                 \/ resumeAnswered(k) \/ ConfirmationLate(k)
       PROVE  UNCHANGED wk
  BY <1>10 DEF settle, runAction, maintenanceConfirmation, resumeAnswered, ConfirmationLate
<1>11. ASSUME NEW s \in Submitters, NEW a \in ApprIds, SubmitApproval(s, a) \/ SubmitStep(s, a)
       PROVE  UNCHANGED wk
  BY <1>11 DEF SubmitApproval, SubmitStep, execDevice, commandEnds, deleteSubmitted, resumeSubmitted
<1>12. ASSUME NEW a \in ApprIds, \/ expireApprovals(a) \/ dropApproval(a)
                                 \/ ApprovalLate(a) \/ DaemonForgets(a)
       PROVE  UNCHANGED wk
  BY <1>12 DEF expireApprovals, dropApproval, ApprovalLate, DaemonForgets
<1>13. ASSUME HandlerLost \/ RemoveDevice \/ UNCHANGED vars PROVE UNCHANGED wk
  BY <1>13 DEF HandlerLost, RemoveDevice, vars
<1> HIDE DEF Goal
<1>14. losses' > 0 => Goal
  BY DEF Goal
<1>15. Goal
  BY <1>1, <1>3, <1>4, <1>5, <1>6, <1>8, <1>9, <1>10, <1>11, <1>12, <1>13, <1>14 DEF Next, WorkerStep
<1> QED BY <1>15 DEF Goal

\* Who will end a wait on a question hands it on to somebody who will.
LEMMA QuestionWaker ==
  ASSUME TypeOK, HistoryInv, AskInv, [Next]_vars, losses' = 0, device, NEW x \in Tasks, HasWaker(x),
         SameRow(x), task[x].state = "awaiting_confirmation"
  PROVE  \/ \E w \in Workers : wk'[w].pc = "askC" /\ wk'[w].task = x
         \/ \E k \in ConfIds : /\ conf'[k].task = x /\ WaitsOn(x, conf[k].call)'
                               /\ conf'[k].state = "pending" \/ conf'[k].at # "none"
<1>0. \A c : WaitsOn(x, c) <=> (task'[x].prog.pend # <<>> /\ Head(task'[x].prog.pend) = c)
  BY DEF SameRow, WaitsOn
<1>1. ASSUME NEW w \in Workers, wk[w].pc = "askC", wk[w].task = x,
             ~(wk'[w].pc = "askC" /\ wk'[w].task = x)
      PROVE  \E k \in ConfIds : /\ conf'[k].task = x /\ WaitsOn(x, conf[k].call)'
                                /\ conf'[k].state = "pending" \/ conf'[k].at # "none"
  <2>1. PICK k \in ConfIds : NewQuestion(k, w)
    <3>1. Asking(w) /\ ~SameWorker(w) /\ ~(losses' > 0)
      BY <1>1 DEF Asking, SameWorker
    <3> QED BY <1>1, <3>1, AskerEnds
  <2>2. conf'[k].task = x /\ conf'[k].call = Asked(w) /\ conf'[k].state = "pending"
    BY <1>1, <2>1 DEF NewQuestion, TypeOK
  <2>3. WaitsOn(x, Asked(w))
    BY <1>1, AskerRests DEF Rests
  <2>4. WaitsOn(x, conf[k].call)'
    BY <1>0, <2>2, <2>3 DEF WaitsOn
  <2> QED BY <2>2, <2>4
<1>2. ASSUME NEW k \in ConfIds, conf[k].task = x, WaitsOn(x, conf[k].call),
             conf[k].state = "pending" \/ conf[k].at # "none"
      PROVE  /\ conf'[k].task = x /\ WaitsOn(x, conf[k].call)'
             /\ conf'[k].state = "pending" \/ conf'[k].at # "none"
  <2>1. conf[k].state # "none"
    BY <1>2 DEF AskInv, ConfInv, NoConfirmation
  <2>2. conf'[k].task = x /\ conf'[k].call = conf[k].call /\ (conf'[k] = conf[k] \/ QuestionMoves(k))
    BY <1>2, <2>1, QuestionKept
  <2>3. WaitsOn(x, conf[k].call)'
    BY <1>0, <1>2, <2>2 DEF WaitsOn
  <2>4. ~Woken(x, conf[k].call)
    BY <1>2 DEF Woken, SameRow, Waiting
  <2>5. task'[x].state # "cancelled" /\ ~(losses' > 0)
    BY DEF SameRow
  <2>6. conf'[k].state = "pending" \/ conf'[k].at # "none"
    BY <1>2, <2>2, <2>4, <2>5 DEF QuestionMoves
  <2> QED BY <2>2, <2>3, <2>6
<1>3. \/ \E w \in Workers : wk[w].pc = "askC" /\ wk[w].task = x
      \/ \E k \in ConfIds : /\ conf[k].task = x /\ WaitsOn(x, conf[k].call)
                            /\ conf[k].state = "pending" \/ conf[k].at # "none"
  BY DEF HasWaker
<1> QED BY <1>1, <1>2, <1>3

\* The same for a wait on an approval.
LEMMA ApprovalWaker ==
  ASSUME TypeOK, HistoryInv, AskInv, [Next]_vars, losses' = 0, device, NEW x \in Tasks, HasWaker(x),
         SameRow(x), task[x].state = "awaiting_approval"
  PROVE  \/ voice'[x]
         \/ \E w \in Workers : wk'[w].pc = "askA" /\ wk'[w].task = x
         \/ \E a \in ApprIds : /\ appr'[a].task = x
                               /\ task'[x].kind = "agent" => WaitsOn(x, appr[a].call)'
                               /\ \/ appr'[a].row \in {"saved", "drop"}
                                  \/ \E s \in Submitters : /\ sub'[s].appr = a
                                                           /\ sub'[s].pc \in {"resume", "dropped"}
<1>0. \A c : WaitsOn(x, c) <=> (task'[x].prog.pend # <<>> /\ Head(task'[x].prog.pend) = c)
  BY DEF SameRow, WaitsOn
<1> DEFINE W(a) == /\ appr'[a].task = x
                   /\ task'[x].kind = "agent" => WaitsOn(x, appr[a].call)'
                   /\ \/ appr'[a].row \in {"saved", "drop"}
                      \/ \E s \in Submitters : sub'[s].appr = a /\ sub'[s].pc \in {"resume", "dropped"}
<1>1. ASSUME voice[x], ~voice'[x] PROVE \E a \in ApprIds : W(a)
  <2>1. task[x].kind = "command"
    BY <1>1 DEF AskInv, ApprInv
  <2>2. VoiceMoves(x)
    BY ApprovalRules
  <2>3. PICK a \in ApprIds : NewApproval(a, x, NoCall)
    <3>1. ~(losses' > 0) /\ task[x].state # "none"
      OBVIOUS
    <3>2. voice'[x] # voice[x]
      BY <1>1
    <3> QED BY <1>1, <2>2, <3>1, <3>2, Zenon DEF VoiceMoves
  <2>4. appr'[a].task = x /\ appr'[a].row = "saved" /\ task'[x].kind = "command"
    BY <2>1, <2>3 DEF NewApproval, TypeOK, SameRow
  <2> QED BY <2>4
<1>2. ASSUME NEW w \in Workers, wk[w].pc = "askA", wk[w].task = x,
             ~(wk'[w].pc = "askA" /\ wk'[w].task = x)
      PROVE  \E a \in ApprIds : W(a)
  <2>1. PICK a \in ApprIds : NewApproval(a, x, Asked(w))
    <3>1. Asking(w) /\ ~SameWorker(w) /\ ~(losses' > 0)
      BY <1>2 DEF Asking, SameWorker
    <3> QED BY <1>2, <3>1, AskerEnds
  <2>2. appr'[a].task = x /\ appr'[a].call = Asked(w) /\ appr'[a].row = "saved"
    BY <2>1 DEF NewApproval, TypeOK
  <2>3. WaitsOn(x, Asked(w))
    BY <1>2, AskerRests DEF Rests
  <2>4. WaitsOn(x, appr[a].call)'
    BY <1>0, <2>2, <2>3 DEF WaitsOn
  <2> QED BY <2>2, <2>4
<1>3. ASSUME NEW a \in ApprIds, appr[a].task = x, task[x].kind = "agent" => WaitsOn(x, appr[a].call),
             \/ appr[a].row \in {"saved", "drop"}
             \/ \E s \in Submitters : sub[s].appr = a /\ sub[s].pc \in {"resume", "dropped"}
      PROVE  W(a)
  <2>1. appr[a].row # "none"
    BY <1>3 DEF AskInv, ApprInv
  <2>2. appr'[a].task = x /\ appr'[a].call = appr[a].call
    BY <1>3, <2>1, ApprovalKept
  <2>3. task'[x].kind = "agent" => WaitsOn(x, appr[a].call)'
    BY <1>0, <1>3, <2>2 DEF WaitsOn, SameRow
  <2>4. ~Woken(x, appr[a].call) /\ ~(losses' > 0)
    BY <1>3 DEF Woken, SameRow, Waiting
  <2>5. CASE appr[a].row \in {"saved", "drop"}
    <3>1. appr'[a] = appr[a] \/ ApprovalMoves(a)
      <4>1. CASE \E b \in ApprIds, t \in Tasks, c \in AnyCall : NewApproval(b, t, c)
        BY <2>1, <4>1 DEF NewApproval, TypeOK
      <4> QED BY <4>1, ApprovalRules DEF ApprovalRule
    <3> QED BY <1>3, <2>2, <2>3, <2>4, <2>5, <3>1 DEF ApprovalMoves
  <2>6. ASSUME NEW s \in Submitters, sub[s].appr = a, sub[s].pc \in {"resume", "dropped"} PROVE W(a)
    <3>1. SubmitMoves(s)
      BY ApprovalRules
    <3>2. sub'[s] = sub[s]
      BY <1>3, <2>4, <2>6, <3>1 DEF SubmitMoves
    <3> QED BY <2>2, <2>3, <2>6, <3>2
  <2> QED BY <1>3, <2>5, <2>6
<1>4. \/ voice[x]
      \/ \E w \in Workers : wk[w].pc = "askA" /\ wk[w].task = x
      \/ \E a \in ApprIds : /\ appr[a].task = x /\ (task[x].kind = "agent" => WaitsOn(x, appr[a].call))
                            /\ \/ appr[a].row \in {"saved", "drop"}
                               \/ \E s \in Submitters : /\ sub[s].appr = a
                                                        /\ sub[s].pc \in {"resume", "dropped"}
  BY DEF HasWaker
<1> QED BY <1>1, <1>2, <1>3, <1>4

\* Whoever waits still has somebody who will end the wait.
LEMMA WaitEndsStep ==
  ASSUME TypeOK, HistoryInv, AskInv, WaitEnds, [Next]_vars
  PROVE  WaitEnds'
<1> SUFFICES ASSUME losses' = 0, NEW x \in Tasks PROVE HasWaker(x)'
  BY DEF WaitEnds
<1>1. RowRule(x) /\ losses = 0 /\ device /\ HasWaker(x)
  BY RowRules, DeviceStep DEF AskInv, DeviceInv, WaitEnds
<1>2. CASE SameRow(x)
  <2>1. CASE task[x].state = "awaiting_confirmation"
    <3>1. task'[x].state = "awaiting_confirmation"
      BY <1>2, <2>1 DEF SameRow
    <3> QED BY <1>1, <1>2, <2>1, <3>1, QuestionWaker DEF HasWaker
  <2>2. CASE task[x].state = "awaiting_approval"
    <3>1. task'[x].state = "awaiting_approval"
      BY <1>2, <2>2 DEF SameRow
    <3> QED BY <1>1, <1>2, <2>2, <3>1, ApprovalWaker DEF HasWaker
  <2>3. CASE task[x].state \notin {"awaiting_confirmation", "awaiting_approval"}
    BY <1>2, <2>3 DEF SameRow, HasWaker
  <2> QED BY <2>1, <2>2, <2>3
<1>3. CASE Created(x) \/ Cancelled(x) \/ Resumed(x)
  BY <1>3 DEF Created, Cancelled, Resumed, HasWaker
<1>4. CASE \E w \in Workers : Leased(w, x) \/ Wrote(w, x)
  BY <1>4 DEF Leased, Wrote, HasWaker, Terminal
<1> QED BY <1>1, <1>2, <1>3, <1>4 DEF RowRule

\* No one has asked anything yet.
LEMMA InitAsk == Init => AskInv /\ Safe
<1> SUFFICES ASSUME Init PROVE AskInv /\ Safe
  OBVIOUS
<1>1. RowsInv
  BY DEF Init, RowsInv, NoRow
<1>2. WorkersInv
  BY DEF Init, WorkersInv, Idle, Asking
<1>3. ConfInv
  BY DEF Init, ConfInv, NoConfirmation, Idle
<1>4. ApprInv
  BY DEF Init, ApprInv, NoApproval, Idle, Quiet
<1>5. DeviceInv
  BY DEF Init, DeviceInv
<1>6. AskedOnce
  BY DEF Init, AskedOnce, NoConfirmation, NoApproval
<1>7. ActionResultTrue
  BY DEF Init, ActionResultTrue, NoRow, NoProgress, Calls
<1>8. CommandResultTrue
  BY DEF Init, CommandResultTrue, NoRow
<1>9. WaitEnds
  BY DEF Init, WaitEnds, HasWaker, NoRow
<1> QED BY <1>1, <1>2, <1>3, <1>4, <1>5, <1>6, <1>7, <1>8, <1>9 DEF AskInv, Safe

\* Every step keeps the invariant and the properties that rest on it.
LEMMA AskStep ==
  ASSUME TypeOK, HistoryInv, AskInv, Safe, [Next]_vars
  PROVE  AskInv' /\ Safe'
<1>1. TypeOK'
  BY TypeStep
<1>2. AskInv'
  <2>1. DeviceInv'
    BY DeviceStep DEF AskInv
  <2> QED BY <1>1, <2>1, RowsStep, WorkersStep, QuestionsStep, ApprovalsStep DEF AskInv
<1>3. RowsInv'
  BY RowsStep
<1>4. AskedOnce'
  BY <1>1, <1>2, AskedOnceStep DEF Safe
<1>5. ActionResultTrue'
  BY ActionResultStep DEF Safe
<1>6. CommandResultTrue'
  BY <1>3, CommandResultStep DEF Safe
<1>7. WaitEnds'
  BY WaitEndsStep DEF Safe
<1> QED BY <1>2, <1>4, <1>5, <1>6, <1>7 DEF Safe

\* The inductive invariant: what rows, workers, questions and approvals know of
\* each other in every reachable state.
THEOREM AskInvHolds == Spec => [](TypeOK /\ HistoryInv /\ AskInv /\ Safe)
<1>1. Init => TypeOK /\ HistoryInv /\ AskInv /\ Safe
  BY InitInv, InitAsk
<1>2. TypeOK /\ HistoryInv /\ AskInv /\ Safe /\ [Next]_vars => (TypeOK /\ HistoryInv /\ AskInv /\ Safe)'
  BY TypeStep, HistoryStep, AskStep
<1> QED BY <1>1, <1>2, PTL DEF Spec

\* A user is asked at most once about a call, by however many workers that lost
\* and took over the lease.
THEOREM AskedOnceAlways == Spec => []AskedOnce
<1>1. Safe => AskedOnce
  BY DEF Safe
<1> QED BY AskInvHolds, <1>1, PTL

\* What a task's history says about an action that needed consent is true.
THEOREM ActionResultAlwaysTrue == Spec => []ActionResultTrue
<1>1. Safe => ActionResultTrue
  BY DEF Safe
<1> QED BY AskInvHolds, <1>1, PTL

\* A command task only succeeds with the result of a command that ran.
THEOREM CommandResultAlwaysTrue == Spec => []CommandResultTrue
<1>1. Safe => CommandResultTrue
  BY DEF Safe
<1> QED BY AskInvHolds, <1>1, PTL

\* Somebody will end every wait, as long as no handler is lost half way and no
\* device is removed.
THEOREM WaitEndsAlways == Spec => []WaitEnds
<1>1. Safe => WaitEnds
  BY DEF Safe
<1> QED BY AskInvHolds, <1>1, PTL

\* A longer sequence that keeps a shorter one begins with it.
LEMMA KeptPrefix ==
  ASSUME NEW p \in Progress, NEW q \in Progress, Kept(p, q)
  PROVE  SubSeq(q.done, 1, Len(p.done)) = p.done
<1>1. p.done \in Seq(Calls) /\ q.done \in Seq(Calls)
  BY DEF Progress
<1>2. PICK n \in Nat : n = Len(p.done) /\ n <= Len(q.done) /\ Len(q.done) \in Nat
  BY <1>1 DEF Kept
<1>3. /\ SubSeq(q.done, 1, n) \in Seq(Calls) /\ Len(SubSeq(q.done, 1, n)) = n
      /\ \A i \in 1..n : SubSeq(q.done, 1, n)[i] = q.done[i]
  <2>1. \A i \in 1..n : i \in 1..Len(q.done) /\ 1 + i - 1 = i
    BY <1>2
  <2> QED BY <1>1, <1>2, <2>1
<1>4. \A i \in 1..n : SubSeq(q.done, 1, n)[i] = p.done[i]
  BY <1>2, <1>3 DEF Kept
<1> QED BY <1>1, <1>2, <1>3, <1>4, SeqEqual

\* A row's history is only ever extended and a recorded result never replaced,
\* whichever worker, answer or expiry writes it.
THEOREM HistoryOnlyGrows == Spec => HistoryGrows
<1> DEFINE Grows == \A t \in Tasks : LET old == task[t].prog  new == task'[t].prog IN
                      /\ Len(old.done) <= Len(new.done)
                      /\ SubSeq(new.done, 1, Len(old.done)) = old.done
                      /\ old.steps <= new.steps
                      /\ \A c \in Calls : old.out[c] # "none" => new.out[c] = old.out[c]
<1>1. TypeOK /\ HistoryInv /\ AskInv /\ [Next]_vars => [Grows]_vars
  <2> SUFFICES ASSUME TypeOK, HistoryInv, AskInv, [Next]_vars, NEW t \in Tasks
               PROVE  /\ Len(task[t].prog.done) <= Len(task'[t].prog.done)
                      /\ SubSeq(task'[t].prog.done, 1, Len(task[t].prog.done)) = task[t].prog.done
                      /\ task[t].prog.steps <= task'[t].prog.steps
                      /\ \A c \in Calls : task[t].prog.out[c] # "none" => task'[t].prog.out[c] = task[t].prog.out[c]
    OBVIOUS
  <2>1. Kept(task[t].prog, task'[t].prog)
    BY RowRules, RowGrows DEF AskInv
  <2>2. TypeOK'
    BY TypeStep
  <2>3. PICK p \in Progress, q \in Progress : p = task[t].prog /\ q = task'[t].prog
    BY <2>2 DEF TypeOK, Row
  <2>4. SubSeq(q.done, 1, Len(p.done)) = p.done
    BY <2>1, <2>3, KeptPrefix
  <2> QED BY <2>1, <2>3, <2>4 DEF Kept
<1> QED BY AskInvHolds, <1>1, PTL DEF Spec, HistoryGrows
=============================================================================
