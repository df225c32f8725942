------------------------ MODULE ConversationsProofs ------------------------
(***************************************************************************)
(* Proofs about Conversations for every number of conversations, turns and  *)
(* events: types, that a question stays with its event, that the turn it    *)
(* was asked in is one of its own conversation, and that only an answer     *)
(* from there can confirm it.                                               *)
(***************************************************************************)
EXTENDS Conversations, TLAPS

\* The null values are neither conversations nor turns.
LEMMA Nulls == NoConv \notin Convs /\ NoTurn \notin Turns
  BY ConvBoundsAssumption DEF NoConv, Convs, NoTurn, Turns

\* The conversations AddEvent may choose are conversations.
LEMMA TargetsAreConvs ==
  ASSUME NEW c \in Convs
  PROVE  Targets(c) \subseteq Convs
  BY DEF Targets, Live

\* A question that moves is still a question, and one that is not pending stays as it is.
LEMMA MoveQuestionType ==
  ASSUME NEW x \in Questions, NEW c \in Convs, q[x] \in Question
  PROVE  /\ MoveQuestion(x, c) \in Question
         /\ MoveQuestion(x, c).state = q[x].state
         /\ q[x].state = "pending" => MoveQuestion(x, c).conv = c /\ MoveQuestion(x, c).asked = NoTurn
         /\ q[x].state # "pending" => MoveQuestion(x, c) = q[x]
  BY DEF MoveQuestion, Question

-----------------------------------------------------------------------------
\* Every action of Conversations keeps the types.
LEMMA ConvTypeStep == TypeOK /\ [Next]_vars => TypeOK'
<1> SUFFICES ASSUME TypeOK, [Next]_vars PROVE TypeOK'
  OBVIOUS
<1> USE DEF TypeOK
<1>1. CASE CloseAbandoned
  BY <1>1 DEF CloseAbandoned, Abandoned
<1>2. ASSUME NEW c \in Convs, CreateConversation(c) PROVE TypeOK'
  BY <1>2 DEF CreateConversation
<1>3. ASSUME NEW c \in Convs, CarryOverEvents(c) PROVE TypeOK'
  <2>1. ev' \in [Events -> EventRow]
    BY <1>3 DEF CarryOverEvents, EventRow
  <2>2. q' \in [Questions -> Question]
    BY <1>3, MoveQuestionType DEF CarryOverEvents
  <2>3. gw' \in [Convs -> Session]
    BY <1>3 DEF CarryOverEvents, Session
  <2> QED BY <1>3, <2>1, <2>2, <2>3 DEF CarryOverEvents
<1>4. ASSUME NEW c \in Convs, CarryOverFails(c) PROVE TypeOK'
  <2>1. gw' \in [Convs -> Session]
    BY <1>4 DEF CarryOverFails, Session
  <2> QED BY <1>4, <2>1 DEF CarryOverFails
<1>5. ASSUME NEW c \in Convs, SessionEnds(c) PROVE TypeOK'
  BY <1>5, ConvBoundsAssumption DEF SessionEnds, Session, NoSession, Turns
<1>6. ASSUME NEW c \in Convs, CloseConversation(c) PROVE TypeOK'
  BY <1>6 DEF CloseConversation
<1>7. ASSUME NEW c \in Convs, ConversationAges(c) PROVE TypeOK'
  BY <1>7 DEF ConversationAges
<1>8. ASSUME NEW c \in Convs, UserSpeaks(c) PROVE TypeOK'
  BY <1>8, ConvBoundsAssumption DEF UserSpeaks, Turns
<1>9. ASSUME NEW c \in Convs, NEW x \in Events, PauseOrFinish(x, c) PROVE TypeOK'
  <2>1. em' \in [Events -> Handler] /\ em'[x].from \in Convs
    <3>1. [em[x] EXCEPT !.pc = "emit", !.from = c] \in Handler
      BY DEF Handler
    <3>2. em' = [em EXCEPT ![x] = [em[x] EXCEPT !.pc = "emit", !.from = c]]
      BY <1>9 DEF PauseOrFinish
    <3>3. [em[x] EXCEPT !.pc = "emit", !.from = c].from = c
      BY DEF Handler
    <3> QED BY <3>1, <3>2, <3>3
  <2>2. \A y \in Events : y # x => em'[y] = em[y]
    BY <1>9 DEF PauseOrFinish
  <2>3. em'[x].pc = "emit"
    BY <1>9 DEF PauseOrFinish, Handler
  <2>4. q' \in [Questions -> Question]
    <3>1. \A y \in Questions : [q[y] EXCEPT !.conv = c, !.state = "pending"] \in Question
      BY DEF Question
    <3> QED BY <1>9, <3>1 DEF PauseOrFinish
  <2> QED BY <1>9, <2>1, <2>2, <2>3, <2>4 DEF PauseOrFinish
<1>10. ASSUME NEW c \in Convs, NEW x \in Events, Watch(c, x) PROVE TypeOK'
  <2>1. ev[x].id \in Nat
    BY DEF EventRow
  <2> DEFINE new == {y \in NewEvents(c) : ev[y].id <= ev[x].id}
  <2>2. new \subseteq Events
    BY DEF NewEvents
  <2>3. [gw[c] EXCEPT !.got = gw[c].got \cup new, !.after = ev[x].id] \in Session
    BY <2>1, <2>2 DEF Session
  <2>4. gw' = [gw EXCEPT ![c] = [gw[c] EXCEPT !.got = gw[c].got \cup new, !.after = ev[x].id]]
    BY <1>10 DEF Watch
  <2>5. gw' \in [Convs -> Session]
    BY ONLY <2>3, <2>4, TypeOK DEF TypeOK
  <2> QED BY <1>10, <2>5 DEF Watch
<1>11. ASSUME NEW c \in Convs, NEW x \in Events, Speak(c, x) PROVE TypeOK'
  <2>1. gw' \in [Convs -> Session]
    BY <1>11 DEF Speak, Session
  <2>2. acks' \subseteq Ack
    BY <1>11 DEF Speak, Ack
  <2> QED BY <1>11, <2>1, <2>2 DEF Speak
<1>12. ASSUME NEW c \in Convs, NEW x \in Questions, CallTool(c, x) PROVE TypeOK'
  BY <1>12 DEF CallTool, Answer
<1>13. ASSUME NEW x \in Events, AddEvent(x) PROVE TypeOK'
  <2>1. PICK d \in Targets(em[x].from) : em' = [em EXCEPT ![x].pc = "commit", ![x].to = d]
    BY <1>13 DEF AddEvent
  <2>2. d \in Convs
    <3>0. em[x].pc = "emit"
      BY <1>13, Zenon DEF AddEvent
    <3>1. em[x].from \in Convs
      BY <3>0
    <3>2. Targets(em[x].from) \subseteq Convs
      BY ONLY <3>1, TargetsAreConvs
    <3> QED BY <2>1, <3>2
  <2>3. em' \in [Events -> Handler] /\ em'[x].pc = "commit" /\ em'[x].to = d
    BY <2>1, <2>2 DEF Handler
  <2>4. \A y \in Events : y # x => em'[y] = em[y]
    BY <2>1
  <2>5. ev' \in [Events -> EventRow] /\ nextId' \in Nat
    <3>1. [ev[x] EXCEPT !.id = nextId] \in EventRow
      BY DEF EventRow
    <3>2. ev' = [ev EXCEPT ![x] = [ev[x] EXCEPT !.id = nextId]] /\ nextId' = nextId + 1
      BY <1>13 DEF AddEvent
    <3> QED BY <3>1, <3>2
  <2> QED BY <1>13, <2>2, <2>3, <2>4, <2>5 DEF AddEvent
<1>14. ASSUME NEW x \in Events, AddEventCommit(x) PROVE TypeOK'
  <2>1. em' \in [Events -> Handler] /\ em'[x].pc = "done"
    BY <1>14 DEF AddEventCommit, Handler, Done, Idle
  <2>2. \A y \in Events : y # x => em'[y] = em[y]
    BY <1>14 DEF AddEventCommit
  <2>3. em[x].to \in Convs
    BY <1>14 DEF AddEventCommit
  <2>4. ev' \in [Events -> EventRow]
    BY <1>14, <2>3 DEF AddEventCommit, EventRow
  <2>5. q' \in [Questions -> Question]
    BY <1>14, <2>3, MoveQuestionType DEF AddEventCommit
  <2> QED BY <1>14, <2>1, <2>2, <2>4, <2>5 DEF AddEventCommit
<1>15. ASSUME NEW x \in Events, AddEventFails(x) PROVE TypeOK'
  <2>1. em' \in [Events -> Handler] /\ em'[x].pc = "done"
    BY <1>15 DEF AddEventFails, Handler, Done, Idle
  <2>2. \A y \in Events : y # x => em'[y] = em[y]
    BY <1>15 DEF AddEventFails
  <2> QED BY <1>15, <2>1, <2>2 DEF AddEventFails
<1>16. ASSUME NEW x \in Questions, ExpireConfirmations(x) PROVE TypeOK'
  BY <1>16 DEF ExpireConfirmations, Question
<1>17. ASSUME NEW a \in acks, AckEvent(a) PROVE TypeOK'
  <2>1. a \in Ack /\ [a EXCEPT !.pc = "mark"] \in Ack
    BY DEF Ack
  <2>2. ev' \in [Events -> EventRow]
    BY <1>17, <2>1 DEF AckEvent, EventRow, Ack
  <2>3. acks' \subseteq Ack
    BY <1>17, <2>1 DEF AckEvent
  <2> QED BY <1>17, <2>2, <2>3 DEF AckEvent
<1>18. ASSUME NEW a \in acks, MarkAsked(a) PROVE TypeOK'
  <2>1. a.turn \in Turns /\ a.conv \in Convs
    BY DEF Ack
  <2>2. \A x \in Questions : [q[x] EXCEPT !.asked = a.turn, !.by = a.conv] \in Question
    BY <2>1 DEF Question
  <2>3. q' \in [Questions -> Question]
    BY <1>18, <2>2 DEF MarkAsked
  <2>4. acks' \subseteq Ack
    BY <1>18 DEF MarkAsked
  <2> QED BY <1>18, <2>3, <2>4 DEF MarkAsked
<1>19. ASSUME NEW a \in acks, AckFails(a) PROVE TypeOK'
  <2>1. [a EXCEPT !.pc = "ack"] \in Ack
    BY DEF Ack
  <2> QED BY <1>19, <2>1 DEF AckFails
<1>20. ASSUME NEW a \in answers, NEW yes \in BOOLEAN, Settle(a, yes) PROVE TypeOK'
  BY <1>20 DEF Settle, Question, Answer
<1>21. CASE UNCHANGED vars
  BY <1>21 DEF vars
<1> QED
  BY <1>1, <1>2, <1>3, <1>4, <1>5, <1>6, <1>7, <1>8, <1>9, <1>10, <1>11, <1>12, <1>13, <1>14,
     <1>15, <1>16, <1>17, <1>18, <1>19, <1>20, <1>21 DEF Next

\* Every row, handler, session and message of the conversations keeps its
\* type, and a handler that adds an event always has a conversation for it.
THEOREM ConversationTypes == Spec => []TypeOK
<1>1. Init => TypeOK
  BY ConvBoundsAssumption DEF Init, TypeOK, EventRow, Question, Handler, Idle, Session, NoSession, Turns
<1> QED BY <1>1, ConvTypeStep, PTL DEF Spec

-----------------------------------------------------------------------------
(* The inductive invariant.  AskedInOwnTurns depends on MarkAsked, which     *)
(* looks at nothing but the question, so what AckEvent saw must still hold:  *)
(* an acknowledged event stays where it is.                                  *)

\* An acknowledgement between its two statements: its event is still there,
\* and no carry-over will take it.
MarksStay ==
  \A a \in acks : a.pc = "mark" =>
    a.event \in Questions /\ ev[a.event].at = a.conv /\ ev[a.event].acked # NoTurn

\* What holds of an event before its handler has added it.
BeforeAdded ==
  /\ \A x \in Events : em[x].pc # "done" => ev[x].at = NoConv
  /\ \A x \in Questions :
       /\ em[x].pc = "idle" => q[x].state = "none"
       /\ em[x].pc \in {"emit", "commit"} /\ q[x].state = "pending" => q[x].conv = em[x].from
       /\ ev[x].at = NoConv => q[x].asked = NoTurn

ConfirmedAsked == \A x \in Questions : q[x].state = "confirmed" => q[x].asked # NoTurn

ConvInv == QuestionFollowsEvent /\ AskedInOwnTurns /\ MarksStay /\ BeforeAdded /\ ConfirmedAsked

\* Sessions, turns and answers do not matter to the invariant.
LEMMA ConvInvFrame ==
  ASSUME ConvInv, UNCHANGED <<ev, q, em, acks>> PROVE ConvInv'
  BY DEF ConvInv, QuestionFollowsEvent, AskedInOwnTurns, MarksStay, BeforeAdded, ConfirmedAsked

\* Every action keeps the invariant.
LEMMA ConvInvStep ==
  ASSUME TypeOK, ConvInv, [Next]_vars PROVE ConvInv'
<1> USE DEF ConvInv
<1>1. CASE CloseAbandoned
  BY <1>1, ConvInvFrame DEF CloseAbandoned
<1>2. ASSUME NEW c \in Convs,
             \/ CreateConversation(c) \/ CarryOverFails(c) \/ SessionEnds(c)
             \/ CloseConversation(c) \/ ConversationAges(c) \/ UserSpeaks(c)
             \/ \E x \in Events : Watch(c, x)
             \/ \E x \in Questions : CallTool(c, x)
      PROVE  ConvInv'
  <2>1. UNCHANGED <<ev, q, em, acks>>
    BY <1>2 DEF CreateConversation, CarryOverFails, SessionEnds, CloseConversation, ConversationAges,
                UserSpeaks, Watch, CallTool
  <2> QED BY <2>1, ConvInvFrame
<1>3. ASSUME NEW c \in Convs, CarryOverEvents(c) PROVE ConvInv'
  <2>1. UNCHANGED <<em, acks>>
    BY <1>3 DEF CarryOverEvents
  <2>2. \A x \in Events \ Unheard : ev'[x] = ev[x]
    BY <1>3 DEF CarryOverEvents
  <2>3. \A x \in Events \cap Unheard : ev'[x].at = c /\ ev[x].at # NoConv /\ ev[x].acked = NoTurn
    BY <1>3 DEF CarryOverEvents, Unheard, TypeOK, EventRow
  <2>4. \A x \in Questions \ Unheard : q'[x] = q[x]
    BY <1>3 DEF CarryOverEvents
  <2>5. \A x \in Questions \cap Unheard :
          /\ q'[x].state = q[x].state
          /\ q[x].state = "pending" => q'[x].conv = c /\ q'[x].asked = NoTurn
          /\ q[x].state # "pending" => q'[x] = q[x]
    BY <1>3, MoveQuestionType DEF CarryOverEvents, TypeOK
  <2>6. Questions \subseteq Events /\ c # NoConv
    BY Nulls DEF Events
  <2>7. QuestionFollowsEvent'
    BY <2>2, <2>3, <2>4, <2>5, <2>6 DEF QuestionFollowsEvent
  <2>8. AskedInOwnTurns'
    BY <2>4, <2>5 DEF AskedInOwnTurns
  <2>9. MarksStay'
    BY <2>1, <2>2, <2>3, <2>6 DEF MarksStay
  <2>10. BeforeAdded'
    BY <2>1, <2>2, <2>3, <2>4, <2>5, <2>6 DEF BeforeAdded
  <2>11. ConfirmedAsked'
    BY <2>4, <2>5 DEF ConfirmedAsked
  <2> QED BY <2>7, <2>8, <2>9, <2>10, <2>11
<1>4. ASSUME NEW c \in Convs, NEW x \in Events, PauseOrFinish(x, c) PROVE ConvInv'
  <2>1. UNCHANGED <<ev, acks>>
    BY <1>4 DEF PauseOrFinish
  <2>2. em[x].pc = "idle" /\ em'[x].pc = "emit" /\ em'[x].from = c
    BY <1>4 DEF PauseOrFinish, TypeOK, Handler
  <2>3. \A y \in Events : y # x => em'[y] = em[y]
    BY <1>4 DEF PauseOrFinish, TypeOK
  <2>4. \A y \in Questions : y # x => q'[y] = q[y]
    BY <1>4 DEF PauseOrFinish
  <2>5. x \in Questions => /\ q'[x].conv = c /\ q'[x].state = "pending"
                           /\ q'[x].asked = q[x].asked
    BY <1>4 DEF PauseOrFinish, TypeOK, Question
  <2>6. Questions \subseteq Events
    BY DEF Events
  <2>7. ev[x].at = NoConv /\ (x \in Questions => q[x].asked = NoTurn)
    BY <2>2 DEF BeforeAdded
  <2>8. QuestionFollowsEvent'
    BY <2>1, <2>4, <2>7 DEF QuestionFollowsEvent
  <2>9. AskedInOwnTurns'
    BY <2>4, <2>5, <2>7 DEF AskedInOwnTurns
  <2>10. MarksStay'
    BY <2>1 DEF MarksStay
  <2>11. BeforeAdded'
    BY <2>1, <2>2, <2>3, <2>4, <2>5, <2>6, <2>7 DEF BeforeAdded
  <2>12. ConfirmedAsked'
    BY <2>4, <2>5 DEF ConfirmedAsked
  <2> QED BY <2>8, <2>9, <2>10, <2>11, <2>12
<1>5. ASSUME NEW c \in Convs, NEW x \in Events, Speak(c, x) PROVE ConvInv'
  <2>1. UNCHANGED <<ev, q, em>>
    BY <1>5 DEF Speak
  <2>2. \A a \in acks' : a \in acks \/ a.pc = "ack"
    BY <1>5 DEF Speak
  <2>3. MarksStay'
    BY <2>1, <2>2 DEF MarksStay
  <2> QED BY <2>1, <2>3 DEF QuestionFollowsEvent, AskedInOwnTurns, BeforeAdded, ConfirmedAsked
<1>6. ASSUME NEW x \in Events, AddEvent(x) PROVE ConvInv'
  <2>1. UNCHANGED <<q, acks>>
    BY <1>6 DEF AddEvent
  <2>2. em[x].pc = "emit" /\ em'[x].pc = "commit" /\ em'[x].from = em[x].from
    BY <1>6 DEF AddEvent, TypeOK, Handler
  <2>3. \A y \in Events : y # x => em'[y] = em[y]
    BY <1>6 DEF AddEvent, TypeOK
  <2>4. \A y \in Events : ev'[y].at = ev[y].at /\ ev'[y].acked = ev[y].acked
    BY <1>6 DEF AddEvent, TypeOK, EventRow
  <2>5. Questions \subseteq Events
    BY DEF Events
  <2>6. MarksStay'
    BY <2>1, <2>4, <2>5 DEF MarksStay
  <2>7. BeforeAdded'
    BY <2>1, <2>2, <2>3, <2>4, <2>5 DEF BeforeAdded
  <2> QED BY <2>1, <2>4, <2>5, <2>6, <2>7 DEF QuestionFollowsEvent, AskedInOwnTurns, ConfirmedAsked
<1>7. ASSUME NEW x \in Events, AddEventCommit(x) PROVE ConvInv'
  <2> DEFINE to == em[x].to
  <2>1. UNCHANGED acks /\ em[x].pc = "commit" /\ em'[x].pc = "done" /\ to \in Convs
    BY <1>7 DEF AddEventCommit, TypeOK, Done, Idle
  <2>2. \A y \in Events : y # x => em'[y] = em[y] /\ ev'[y] = ev[y]
    BY <1>7 DEF AddEventCommit, TypeOK
  <2>3. ev'[x].at = to /\ ev[x].at = NoConv
    BY <1>7, <2>1 DEF AddEventCommit, TypeOK, EventRow, BeforeAdded
  <2>4. \A y \in Questions : y # x => q'[y] = q[y]
    BY <1>7 DEF AddEventCommit
  <2>5. x \in Questions =>
          /\ q'[x].state = q[x].state /\ q[x].asked = NoTurn
          /\ q[x].state = "pending" => q'[x].conv = to /\ q'[x].asked = NoTurn
          /\ q[x].state # "pending" => q'[x] = q[x]
    <3> HAVE x \in Questions
    <3>1. q[x].asked = NoTurn /\ (q[x].state = "pending" => q[x].conv = em[x].from)
      BY <2>1, <2>3 DEF BeforeAdded
    <3>2. CASE to = em[x].from
      BY <1>7, <3>1, <3>2 DEF AddEventCommit
    <3>3. CASE to # em[x].from
      <4>1. q'[x] = MoveQuestion(x, to)
        BY <1>7, <3>3 DEF AddEventCommit
      <4> QED BY <2>1, <3>1, <4>1, MoveQuestionType DEF TypeOK
    <3> QED BY <3>2, <3>3
  <2>6. Questions \subseteq Events /\ to # NoConv
    BY <2>1, Nulls DEF Events
  <2>7. QuestionFollowsEvent'
    BY <2>2, <2>3, <2>4, <2>5, <2>6 DEF QuestionFollowsEvent
  <2>8. AskedInOwnTurns'
    BY <2>4, <2>5 DEF AskedInOwnTurns
  <2>9. MarksStay'
    <3>1. \A a \in acks : a.pc = "mark" => a.event # x
      <4>1. \A a \in acks : a.conv # NoConv
        BY Nulls DEF TypeOK, Ack
      <4> QED BY <2>3, <4>1 DEF MarksStay
    <3> QED BY <2>1, <2>2, <2>6, <3>1 DEF MarksStay
  <2>10. BeforeAdded'
    BY <2>1, <2>2, <2>3, <2>4, <2>5, <2>6 DEF BeforeAdded
  <2>11. ConfirmedAsked'
    BY <2>4, <2>5 DEF ConfirmedAsked
  <2> QED BY <2>7, <2>8, <2>9, <2>10, <2>11
<1>8. ASSUME NEW x \in Events, AddEventFails(x) PROVE ConvInv'
  <2>1. UNCHANGED <<ev, q, acks>> /\ em'[x].pc = "done"
    BY <1>8 DEF AddEventFails, TypeOK, Done, Idle
  <2>2. \A y \in Events : y # x => em'[y] = em[y]
    BY <1>8 DEF AddEventFails, TypeOK
  <2>3. BeforeAdded'
    BY <2>1, <2>2 DEF BeforeAdded, Events
  <2> QED BY <2>1, <2>3 DEF QuestionFollowsEvent, AskedInOwnTurns, MarksStay, ConfirmedAsked
<1>9. ASSUME NEW x \in Questions, ExpireConfirmations(x) PROVE ConvInv'
  <2>1. UNCHANGED <<ev, em, acks>> /\ q[x].state = "pending" /\ q'[x].state = "expired"
    BY <1>9 DEF ExpireConfirmations, TypeOK, Question
  <2>2. \A y \in Questions : /\ q'[y].asked = q[y].asked
                             /\ y # x => q'[y] = q[y]
    BY <1>9 DEF ExpireConfirmations, TypeOK, Question
  <2>3. BeforeAdded'
    BY <2>1, <2>2 DEF BeforeAdded
  <2> QED BY <2>1, <2>2, <2>3 DEF QuestionFollowsEvent, AskedInOwnTurns, MarksStay, ConfirmedAsked
<1>10. ASSUME NEW a \in acks, AckEvent(a) PROVE ConvInv'
  <2>1. UNCHANGED <<q, em>>
    BY <1>10 DEF AckEvent
  <2>2. a.event \in Events /\ a.turn # NoTurn
    BY Nulls DEF TypeOK, Ack
  <2>3. \A y \in Events : /\ ev'[y].at = ev[y].at
                          /\ ev[y].acked # NoTurn => ev'[y].acked # NoTurn
    BY <1>10, <2>2 DEF AckEvent, TypeOK, EventRow
  <2>4. \A b \in acks' : \/ b \in acks
                         \/ /\ b.event = a.event /\ b.conv = a.conv /\ b.event \in Questions
                            /\ ev[a.event].at = a.conv /\ ev'[a.event].acked # NoTurn
    <3>1. CASE ev[a.event].at = a.conv
      <4>1. ev'[a.event].acked # NoTurn
        BY <1>10, <2>2, <3>1 DEF AckEvent, TypeOK, EventRow
      <4>2. [a EXCEPT !.pc = "mark"].event = a.event /\ [a EXCEPT !.pc = "mark"].conv = a.conv
        BY DEF TypeOK, Ack
      <4> QED BY <1>10, <3>1, <4>1, <4>2 DEF AckEvent
    <3>2. CASE ev[a.event].at # a.conv
      BY <1>10, <3>2 DEF AckEvent
    <3> QED BY <3>1, <3>2
  <2>5. MarksStay'
    BY <2>2, <2>3, <2>4 DEF MarksStay, Events
  <2> QED BY <2>1, <2>3, <2>5 DEF QuestionFollowsEvent, AskedInOwnTurns, BeforeAdded, ConfirmedAsked, Events
<1>11. ASSUME NEW a \in acks, MarkAsked(a) PROVE ConvInv'
  <2>1. UNCHANGED <<ev, em>> /\ acks' \subseteq acks
    BY <1>11 DEF MarkAsked
  <2> DEFINE x == a.event
  <2>2. x \in Questions /\ ev[x].at = a.conv /\ a.conv # NoConv /\ a.turn # NoTurn
    BY <1>11, Nulls DEF MarkAsked, MarksStay, TypeOK, Ack
  <2>3. \A y \in Questions : y # x => q'[y] = q[y]
    BY <1>11 DEF MarkAsked, TypeOK
  <2>4. q'[x].state = q[x].state /\ q'[x].conv = q[x].conv
    BY <1>11, <2>2 DEF MarkAsked, TypeOK, Question
  <2>5. /\ q[x].asked = NoTurn => q'[x].asked = a.turn /\ q'[x].by = a.conv
        /\ q[x].asked # NoTurn => q'[x] = q[x]
    BY <1>11, <2>2 DEF MarkAsked, TypeOK, Question
  <2>6. QuestionFollowsEvent'
    BY <2>1, <2>3, <2>4 DEF QuestionFollowsEvent
  <2>7. AskedInOwnTurns'
    <3>1. q[x].state = "pending" => q[x].conv = a.conv
      BY <2>2 DEF QuestionFollowsEvent
    <3>2. q[x].state = "confirmed" => q[x].asked # NoTurn
      BY <2>2 DEF ConfirmedAsked
    <3> QED BY <2>3, <2>4, <2>5, <3>1, <3>2 DEF AskedInOwnTurns
  <2>8. BeforeAdded'
    BY <2>1, <2>2, <2>3, <2>4 DEF BeforeAdded
  <2>9. ConfirmedAsked'
    BY <2>2, <2>3, <2>4, <2>5 DEF ConfirmedAsked
  <2> QED BY <2>1, <2>6, <2>7, <2>8, <2>9 DEF MarksStay
<1>12. ASSUME NEW a \in acks, AckFails(a) PROVE ConvInv'
  <2>1. UNCHANGED <<ev, q, em>>
    BY <1>12 DEF AckFails
  <2>2. [a EXCEPT !.pc = "ack"].pc = "ack"
    BY DEF TypeOK, Ack
  <2>3. \A b \in acks' : b \in acks \/ b.pc = "ack"
    BY <1>12, <2>2 DEF AckFails
  <2>4. MarksStay'
    BY <2>1, <2>3 DEF MarksStay
  <2> QED BY <2>1, <2>4 DEF QuestionFollowsEvent, AskedInOwnTurns, BeforeAdded, ConfirmedAsked
<1>13. ASSUME NEW a \in answers, NEW yes \in BOOLEAN, Settle(a, yes) PROVE ConvInv'
  <2>1. UNCHANGED <<ev, em, acks>>
    BY <1>13 DEF Settle
  <2> DEFINE x == a.question
  <2>2. x \in Questions
    BY DEF TypeOK, Answer
  <2>3. \A y \in Questions : /\ q'[y].conv = q[y].conv /\ q'[y].asked = q[y].asked /\ q'[y].by = q[y].by
                             /\ y # x => q'[y] = q[y]
    BY <1>13 DEF Settle, TypeOK, Question
  <2>4. \/ q'[x].state = q[x].state
        \/ q[x].state = "pending" /\ q'[x].state = "cancelled"
        \/ q[x].state = "pending" /\ q'[x].state = "confirmed" /\ q[x].asked # NoTurn
    BY <1>13, <2>2 DEF Settle, Settles, TypeOK, Question
  <2>5. BeforeAdded'
    BY <2>1, <2>2, <2>3, <2>4 DEF BeforeAdded
  <2> QED BY <2>1, <2>2, <2>3, <2>4, <2>5 DEF QuestionFollowsEvent, AskedInOwnTurns, MarksStay, ConfirmedAsked
<1>14. CASE UNCHANGED vars
  BY <1>14, ConvInvFrame DEF vars
<1> QED
  BY <1>1, <1>2, <1>3, <1>4, <1>5, <1>6, <1>7, <1>8, <1>9, <1>10, <1>11, <1>12, <1>13, <1>14 DEF Next

\* The invariant holds for every value of the constants.
LEMMA ConvInvariant == Spec => [](TypeOK /\ ConvInv)
<1>1. Init => TypeOK
  BY ConvBoundsAssumption DEF Init, TypeOK, EventRow, Question, Handler, Idle, Session, NoSession, Turns
<1>2. Init => ConvInv
  BY DEF Init, ConvInv, QuestionFollowsEvent, AskedInOwnTurns, MarksStay, BeforeAdded, ConfirmedAsked,
         Idle, Events
<1>3. TypeOK /\ ConvInv /\ [Next]_vars => (TypeOK /\ ConvInv)'
  BY ConvTypeStep, ConvInvStep
<1> QED BY <1>1, <1>2, <1>3, PTL DEF Spec

\* A pending question is always in the conversation of its event, however
\* AddEvent, CarryOverEvents, acknowledgements and endings interleave.
THEOREM QuestionsFollowEvents == Spec => []QuestionFollowsEvent
<1>1. TypeOK /\ ConvInv => QuestionFollowsEvent
  BY DEF ConvInv
<1> QED BY <1>1, ConvInvariant, PTL

\* The turn in which a question was asked is always a turn of the conversation
\* that may answer it, although MarkAsked does not look at the conversation.
THEOREM AskedTurnsAreOwn == Spec => []AskedInOwnTurns
<1>1. TypeOK /\ ConvInv => AskedInOwnTurns
  BY DEF ConvInv
<1> QED BY <1>1, ConvInvariant, PTL

\* A question is only ever confirmed by an answer from the conversation in which
\* it was asked, from a later turn: Settle's conditions are enough, also for
\* answers that arrive after the question has moved.
THEOREM OnlySettledWhereAsked == Spec => SettledWhereAsked
<1> DEFINE Step == \A x \in Questions : q[x].state = "pending" /\ q'[x].state = "confirmed" =>
                     \E a \in answers : a.question = x /\ a.conv = q[x].by /\ q[x].asked < a.turn
<1>1. TypeOK /\ ConvInv /\ [Next]_vars => [Step]_vars
  <2> SUFFICES ASSUME TypeOK, ConvInv, Next,
                      NEW x \in Questions, q[x].state = "pending", q'[x].state = "confirmed"
               PROVE  \E a \in answers : a.question = x /\ a.conv = q[x].by /\ q[x].asked < a.turn
    OBVIOUS
  <2>1. ASSUME UNCHANGED q PROVE FALSE
    BY <2>1
  <2>2. ASSUME NEW c \in Convs, CarryOverEvents(c) PROVE FALSE
    BY <2>2, MoveQuestionType DEF CarryOverEvents, TypeOK
  <2>3. ASSUME NEW c \in Convs, NEW y \in Events, PauseOrFinish(y, c) PROVE FALSE
    BY <2>3 DEF PauseOrFinish, TypeOK, Question
  <2>4. ASSUME NEW y \in Events, AddEventCommit(y) PROVE FALSE
    BY <2>4, MoveQuestionType DEF AddEventCommit, TypeOK
  <2>5. ASSUME NEW y \in Questions, ExpireConfirmations(y) PROVE FALSE
    BY <2>5 DEF ExpireConfirmations, TypeOK, Question
  <2>6. ASSUME NEW a \in acks, MarkAsked(a) PROVE FALSE
    BY <2>6 DEF MarkAsked, TypeOK, Question
  <2>7. ASSUME NEW a \in answers, NEW yes \in BOOLEAN, Settle(a, yes)
        PROVE  a.question = x /\ a.conv = q[x].by /\ q[x].asked < a.turn
    <3>1. a.question = x /\ Settles(a, yes) /\ yes
      BY <2>7 DEF Settle, TypeOK, Question
    <3>2. q[x].conv = a.conv /\ q[x].asked # NoTurn /\ q[x].asked < a.turn
      BY <3>1 DEF Settles
    <3>3. q[x].by = q[x].conv
      BY <3>2 DEF ConvInv, AskedInOwnTurns
    <3> QED BY <3>1, <3>2, <3>3
  <2> QED
    BY <2>1, <2>2, <2>3, <2>4, <2>5, <2>6, <2>7
    DEF Next, CloseAbandoned, CreateConversation, CarryOverFails, SessionEnds, CloseConversation,
        ConversationAges, UserSpeaks, Watch, Speak, CallTool, AddEvent, AddEventFails, AckEvent, AckFails
<1>2. Spec => [][Step]_vars
  BY <1>1, ConvInvariant, PTL DEF Spec
<1> QED BY <1>2 DEF SettledWhereAsked

-----------------------------------------------------------------------------
(* For ToldOnce: who acknowledges an event has it, or is gone for good.      *)

\* The session of c has ended; another one never begins.
Over(c) == ~gw[c].up /\ c \notin opening /\ conv[c] # "none"

\* Where an event was told when its acknowledgement is stored or on its way.
HeardInv ==
  /\ \A c \in Convs : gw[c].up \/ c \in opening => conv[c] # "none"
  /\ \A c \in Convs : gw[c].up => c \notin opening
  /\ \A a \in acks : a.event \in gw[a.conv].got \/ Over(a.conv)
  /\ \A x \in Events : ev[x].acked # NoTurn =>
       ev[x].at \in Convs /\ (x \in gw[ev[x].at].got \/ Over(ev[x].at))

\* What a step that leaves events and acknowledgements alone must respect.
LEMMA HeardFrame ==
  ASSUME TypeOK, HeardInv, acks' \subseteq acks,
         \A x \in Events : ev'[x].acked = ev[x].acked /\ (ev[x].acked # NoTurn => ev'[x].at = ev[x].at),
         \A c \in Convs : /\ gw[c].got \subseteq gw'[c].got \/ Over(c)'
                          /\ Over(c) => Over(c)'
                          /\ gw'[c].up \/ c \in opening' => conv'[c] # "none"
                          /\ gw'[c].up => c \notin opening'
  PROVE  HeardInv'
<1>1. \A a \in acks : a.conv \in Convs
  BY DEF TypeOK, Ack
<1>2. \A a \in acks' : a.event \in gw'[a.conv].got \/ Over(a.conv)'
  BY <1>1 DEF HeardInv
<1>3. ASSUME NEW x \in Events, ev'[x].acked # NoTurn
      PROVE  ev'[x].at \in Convs /\ (x \in gw'[ev'[x].at].got \/ Over(ev[x].at)')
  BY <1>3 DEF HeardInv
<1> QED BY <1>2, <1>3 DEF HeardInv

\* Every action keeps HeardInv.
LEMMA HeardStep ==
  ASSUME TypeOK, ConvInv, HeardInv, [Next]_vars PROVE HeardInv'
<1>1. CASE CloseAbandoned
  <2>1. UNCHANGED <<ev, gw, acks, opening>> /\ \A c \in Convs : conv[c] # "none" => conv'[c] # "none"
    BY <1>1 DEF CloseAbandoned, TypeOK
  <2> QED BY <2>1, HeardFrame DEF HeardInv, Over
<1>2. ASSUME NEW c \in Convs, CreateConversation(c) PROVE HeardInv'
  <2>1. UNCHANGED <<ev, gw, acks>> /\ conv[c] = "none" /\ opening' = opening \cup {c}
    BY <1>2 DEF CreateConversation
  <2>2. conv'[c] = "open" /\ \A d \in Convs : d # c => conv'[d] = conv[d]
    BY <1>2 DEF CreateConversation, TypeOK
  <2> QED BY <2>1, <2>2, HeardFrame DEF HeardInv, Over
<1>3. ASSUME NEW c \in Convs, CarryOverEvents(c) \/ CarryOverFails(c) PROVE HeardInv'
  <2>1. UNCHANGED <<acks, conv>> /\ c \in opening /\ opening' = opening \ {c}
    BY <1>3 DEF CarryOverEvents, CarryOverFails
  <2>2. \A d \in Convs : gw'[d].got = gw[d].got /\ (d # c => gw'[d] = gw[d])
    BY <1>3 DEF CarryOverEvents, CarryOverFails, TypeOK, Session
  <2>3. \A x \in Events : ev'[x].acked = ev[x].acked /\ (ev[x].acked # NoTurn => ev'[x].at = ev[x].at)
    BY <1>3 DEF CarryOverEvents, CarryOverFails, Unheard, TypeOK, EventRow
  <2> QED BY <2>1, <2>2, <2>3, HeardFrame DEF HeardInv, Over
<1>4. ASSUME NEW c \in Convs, SessionEnds(c) PROVE HeardInv'
  <2>1. UNCHANGED <<ev, acks, conv, opening>> /\ gw[c].up /\ ~gw'[c].up
    BY <1>4 DEF SessionEnds, TypeOK, NoSession
  <2>2. \A d \in Convs : d # c => gw'[d] = gw[d]
    BY <1>4 DEF SessionEnds, TypeOK
  <2> QED BY <2>1, <2>2, HeardFrame DEF HeardInv, Over
<1>5. ASSUME NEW c \in Convs, CloseConversation(c) PROVE HeardInv'
  <2>1. UNCHANGED <<ev, gw, acks, opening>> /\ \A d \in Convs : conv[d] # "none" => conv'[d] # "none"
    BY <1>5 DEF CloseConversation, TypeOK
  <2> QED BY <2>1, HeardFrame DEF HeardInv, Over
<1>6. ASSUME NEW c \in Convs, NEW x \in Events, Watch(c, x) PROVE HeardInv'
  <2>1. UNCHANGED <<ev, acks, conv, opening>>
    BY <1>6 DEF Watch
  <2>2. \A d \in Convs : gw[d].got \subseteq gw'[d].got /\ gw'[d].up = gw[d].up
    BY <1>6 DEF Watch, TypeOK, Session
  <2> QED BY <2>1, <2>2, HeardFrame DEF HeardInv, Over
<1>7. ASSUME NEW c \in Convs, NEW x \in Events, Speak(c, x) PROVE HeardInv'
  <2>1. UNCHANGED <<ev, conv, opening>> /\ x \in gw[c].got
    BY <1>7 DEF Speak
  <2>2. \A d \in Convs : gw'[d].got = gw[d].got /\ gw'[d].up = gw[d].up
    BY <1>7 DEF Speak, TypeOK, Session
  <2>3. \A a \in acks' : a \in acks \/ (a.event = x /\ a.conv = c)
    BY <1>7 DEF Speak
  <2>4. \A a \in acks : a.conv \in Convs
    BY DEF TypeOK, Ack
  <2>5. \A d \in Convs : Over(d) => Over(d)'
    BY <2>1, <2>2 DEF Over
  <2>6. \A a \in acks' : a.event \in gw'[a.conv].got \/ Over(a.conv)'
    BY <2>1, <2>2, <2>3, <2>4, <2>5 DEF HeardInv
  <2> QED BY <2>1, <2>2, <2>5, <2>6 DEF HeardInv
<1>8. ASSUME NEW x \in Events, AddEvent(x) PROVE HeardInv'
  <2>1. UNCHANGED <<gw, acks, conv, opening>>
    BY <1>8 DEF AddEvent
  <2>2. \A y \in Events : ev'[y].acked = ev[y].acked /\ ev'[y].at = ev[y].at
    BY <1>8 DEF AddEvent, TypeOK, EventRow
  <2> QED BY <2>1, <2>2, HeardFrame DEF HeardInv, Over
<1>9. ASSUME NEW x \in Events, AddEventCommit(x) PROVE HeardInv'
  <2>1. UNCHANGED <<gw, acks, conv, opening>>
    BY <1>9 DEF AddEventCommit
  <2>2. ev[x].acked = NoTurn
    <3>1. ev[x].at = NoConv
      BY <1>9 DEF AddEventCommit, ConvInv, BeforeAdded
    <3> QED BY <3>1, Nulls DEF HeardInv
  <2>3. \A y \in Events : ev'[y].acked = ev[y].acked /\ (y # x => ev'[y].at = ev[y].at)
    BY <1>9 DEF AddEventCommit, TypeOK, EventRow
  <2> QED BY <2>1, <2>2, <2>3, HeardFrame DEF HeardInv, Over
<1>10. ASSUME NEW a \in acks, AckEvent(a) PROVE HeardInv'
  <2>1. UNCHANGED <<gw, conv, opening>>
    BY <1>10 DEF AckEvent
  <2>2. a.event \in Events /\ a.conv \in Convs
    BY DEF TypeOK, Ack
  <2>3. [a EXCEPT !.pc = "mark"].event = a.event /\ [a EXCEPT !.pc = "mark"].conv = a.conv
    BY DEF TypeOK, Ack
  <2>4. \A b \in acks' : b \in acks \/ (b.event = a.event /\ b.conv = a.conv)
    BY <1>10, <2>3 DEF AckEvent
  <2>5. \A d \in Convs : Over(d)' = Over(d)
    BY <2>1 DEF Over
  <2>6. \A b \in acks' : b.event \in gw'[b.conv].got \/ Over(b.conv)'
    <3>1. \A b \in acks : b.conv \in Convs
      BY DEF TypeOK, Ack
    <3> QED BY <2>1, <2>2, <2>4, <2>5, <3>1 DEF HeardInv
  <2>7. \A y \in Events : /\ ev'[y].at = ev[y].at
                          /\ y # a.event => ev'[y].acked = ev[y].acked
    BY <1>10, <2>2 DEF AckEvent, TypeOK, EventRow
  <2>8. ev[a.event].at = a.conv \/ ev'[a.event].acked = ev[a.event].acked
    BY <1>10 DEF AckEvent
  <2>9. ASSUME NEW y \in Events, ev'[y].acked # NoTurn
        PROVE  ev'[y].at \in Convs /\ (y \in gw'[ev'[y].at].got \/ Over(ev[y].at)')
    <3>1. ev[y].acked # NoTurn \/ (y = a.event /\ ev[y].at = a.conv)
      BY <2>7, <2>8, <2>9
    <3>2. ev[y].at \in Convs /\ (y \in gw[ev[y].at].got \/ Over(ev[y].at))
      BY <2>2, <3>1 DEF HeardInv
    <3>3. ev'[y].at = ev[y].at
      BY <2>7
    <3> QED BY <2>1, <3>2, <3>3 DEF Over
  <2> QED BY <2>1, <2>6, <2>9 DEF HeardInv
<1>11. ASSUME NEW a \in acks, AckFails(a) PROVE HeardInv'
  <2>1. UNCHANGED <<ev, gw, conv, opening>>
    BY <1>11 DEF AckFails
  <2>2. [a EXCEPT !.pc = "ack"].event = a.event /\ [a EXCEPT !.pc = "ack"].conv = a.conv
    BY DEF TypeOK, Ack
  <2>3. \A b \in acks' : b \in acks \/ (b.event = a.event /\ b.conv = a.conv)
    BY <1>11, <2>2 DEF AckFails
  <2> QED BY <2>1, <2>3 DEF HeardInv, Over
<1>12. ASSUME NEW a \in acks, MarkAsked(a) PROVE HeardInv'
  <2>1. UNCHANGED <<ev, gw, conv, opening>> /\ acks' \subseteq acks
    BY <1>12 DEF MarkAsked
  <2> QED BY <2>1 DEF HeardInv, Over
<1>13. ASSUME UNCHANGED <<ev, gw, acks, conv, opening>> PROVE HeardInv'
  BY <1>13 DEF HeardInv, Over
<1> QED
  BY <1>1, <1>2, <1>3, <1>4, <1>5, <1>6, <1>7, <1>8, <1>9, <1>10, <1>11, <1>12, <1>13
  DEF Next, vars, ConversationAges, UserSpeaks, PauseOrFinish, CallTool, AddEventFails,
      ExpireConfirmations, Settle

\* An event whose acknowledgement is stored reaches no other session, and not
\* the same one again: carry-over leaves it, and its own session has it.
THEOREM EventsToldOnce == Spec => ToldOnce
<1> DEFINE Step == \A x \in Events, c \in Convs :
                     ev[x].acked # NoTurn /\ x \notin gw[c].got => x \notin gw'[c].got
<1>1. TypeOK /\ ConvInv /\ HeardInv /\ [Next]_vars => [Step]_vars
  <2> SUFFICES ASSUME TypeOK, HeardInv, Next, NEW x \in Events, NEW c \in Convs,
                      ev[x].acked # NoTurn, x \notin gw[c].got, x \in gw'[c].got
               PROVE  FALSE
    OBVIOUS
  <2>1. ASSUME UNCHANGED gw PROVE FALSE
    BY <2>1
  <2>2. ASSUME NEW d \in Convs, CarryOverEvents(d) \/ CarryOverFails(d) PROVE FALSE
    BY <2>2 DEF CarryOverEvents, CarryOverFails, TypeOK, Session
  <2>3. ASSUME NEW d \in Convs, SessionEnds(d) PROVE FALSE
    BY <2>3 DEF SessionEnds, NoSession, TypeOK, Session
  <2>4. ASSUME NEW d \in Convs, NEW y \in Events, Speak(d, y) PROVE FALSE
    BY <2>4 DEF Speak, TypeOK, Session
  <2>5. ASSUME NEW d \in Convs, NEW y \in Events, Watch(d, y) PROVE FALSE
    <3>1. d = c /\ gw[c].up /\ x \in NewEvents(c)
      BY <2>5 DEF Watch, TypeOK, Session
    <3>2. ev[x].at = c
      BY <3>1 DEF NewEvents
    <3> QED BY <3>1, <3>2 DEF HeardInv, Over
  <2> QED
    BY <2>1, <2>2, <2>3, <2>4, <2>5
    DEF Next, CloseAbandoned, CreateConversation, CloseConversation, ConversationAges, UserSpeaks,
        PauseOrFinish, CallTool, AddEvent, AddEventCommit, AddEventFails, ExpireConfirmations,
        AckEvent, MarkAsked, AckFails, Settle
<1>2. Init => HeardInv
  BY DEF Init, HeardInv, NoSession
<1>3. TypeOK /\ ConvInv /\ HeardInv /\ [Next]_vars => HeardInv'
  BY HeardStep
<1>4. Spec => [][Step]_vars
  BY <1>1, <1>2, <1>3, ConvInvariant, PTL DEF Spec
<1> QED BY <1>4 DEF ToldOnce
=============================================================================
