--------------------------- MODULE Conversations ---------------------------
(***************************************************************************)
(* What is said to one user: conversations, the events that handlers add    *)
(* for them, the questions some events ask, and the gateway sessions that   *)
(* watch, speak and acknowledge them (orchestrator store.go, engine.go,     *)
(* voice.go, memory.go; voice gateway jarvis.go).                           *)
(*                                                                          *)
(* One action is one SQL statement, or a transaction where its statements   *)
(* cannot be told apart.  AddEvent has two: the event gets its conversation *)
(* and its id before others see it.  Conversations are numbered in the      *)
(* order they are created; a session that ends leaves no state behind.      *)
(* The memory jobs that follow a close, and the notifications that handlers *)
(* add for the phone, are other tables and not in here.                     *)
(***************************************************************************)
EXTENDS Integers, FiniteSets

CONSTANTS
  Questions,   \* events that ask about a confirmation (pauseTask), one each
  Results,     \* events that ask nothing: ends of tasks, approvals on the phone
  MaxConvs,    \* bound: conversations the user opens
  MaxTurns,    \* bound: user turns of a conversation
  MaxAnswers,  \* bound: answers on their way at a time
  MaxLosses    \* bound: calls and handlers that fail or get lost

ASSUME EventsAssumption == Questions \cap Results = {}
ASSUME ConvBoundsAssumption ==
  MaxConvs \in Nat /\ MaxTurns \in Nat /\ MaxAnswers \in Nat /\ MaxLosses \in Nat

VARIABLES
  conv,     \* conversation -> "none", "open" or "closed" (closed_at)
  old,      \* conversations older than ConversationLifetime
  opening,  \* conversations created, whose Open has not carried events over yet
  ev,       \* events: the rows of the table, once committed
  nextId,   \* the sequence events.id is drawn from
  q,        \* question -> its row in confirmations
  em,       \* event -> the handler that adds it
  gw,       \* conversation -> the session of the gateway
  turn,     \* conversation -> user turns the gateway has counted
  acks,     \* acknowledgements on their way
  answers,  \* confirm_action and cancel_action calls on their way (which of them is open)
  losses

vars == <<conv, old, opening, ev, nextId, q, em, gw, turn, acks, answers, losses>>

Convs  == 1..MaxConvs
Events == Questions \cup Results
Turns  == 0..MaxTurns
NoConv == 0
NoTurn == -1   \* NULL in acked_turn and asked_turn

\* at is NoConv until the row is committed.
EventRow == [at : Convs \cup {NoConv}, id : Nat, acked : Turns \cup {NoTurn}]

\* `by` is not a column: the conversation whose turn asked_turn is.
Question == [conv : Convs \cup {NoConv}, asked : Turns \cup {NoTurn}, by : Convs \cup {NoConv},
             state : {"none", "pending", "confirmed", "cancelled", "expired"}]

\* A handler between CreateConfirmation or FinishTask and the end of emit.
Handler == [pc : {"idle", "emit", "commit", "done"},
            from : Convs \cup {NoConv}, to : Convs \cup {NoConv}]

Idle == [pc |-> "idle", from |-> NoConv, to |-> NoConv]
Done == [Idle EXCEPT !.pc = "done"]

\* after is the watch loop's cursor; got has the events that reached the
\* session, said those whose response has started.
Session == [up : BOOLEAN, after : Nat, got : SUBSET Events, said : SUBSET Events]

NoSession == [up |-> FALSE, after |-> 0, got |-> {}, said |-> {}]

Ack == [conv : Convs, event : Events, turn : Turns, pc : {"ack", "mark"}]

Answer == [conv : Convs, question : Questions, turn : Turns]

\* Every row, handler, session and message is in a state the code knows: a
\* handler that adds an event has a conversation to add it to.
TypeOK ==
  /\ conv \in [Convs -> {"none", "open", "closed"}]
  /\ old \subseteq Convs /\ opening \subseteq Convs
  /\ ev \in [Events -> EventRow] /\ nextId \in Nat
  /\ q \in [Questions -> Question]
  /\ em \in [Events -> Handler]
  /\ \A x \in Events : /\ em[x].pc = "emit" => em[x].from \in Convs
                       /\ em[x].pc = "commit" => em[x].to \in Convs
  /\ gw \in [Convs -> Session]
  /\ turn \in [Convs -> Turns]
  /\ acks \subseteq Ack
  /\ answers \subseteq Answer
  /\ losses \in Nat

Init ==
  /\ conv = [c \in Convs |-> "none"]
  /\ old = {} /\ opening = {}
  /\ ev = [x \in Events |-> [at |-> NoConv, id |-> 0, acked |-> NoTurn]]
  /\ nextId = 1
  /\ q = [x \in Questions |-> [conv |-> NoConv, asked |-> NoTurn, by |-> NoConv, state |-> "none"]]
  /\ em = [x \in Events |-> Idle]
  /\ gw = [c \in Convs |-> NoSession]
  /\ turn = [c \in Convs |-> 0]
  /\ acks = {} /\ answers = {}
  /\ losses = 0

-----------------------------------------------------------------------------
(* Opening and ending a conversation.                                       *)

\* Open, first statement.
CreateConversation(c) ==
  /\ conv[c] = "none"
  /\ \A d \in Convs : d < c => conv[d] # "none"
  /\ conv' = [conv EXCEPT ![c] = "open"]
  /\ opening' = opening \cup {c}
  /\ UNCHANGED <<old, ev, nextId, q, em, gw, turn, acks, answers, losses>>

\* Mutant: acknowledged events are carried over too.
UnheardOrHeard == {x \in Events : ev[x].at # NoConv /\ conv[ev[x].at] = "closed"}

\* The events nobody acknowledged before their conversation was closed.
Unheard == {x \in Events : ev[x].at # NoConv /\ conv[ev[x].at] = "closed" /\ ev[x].acked = NoTurn}

\* The question x goes with its event to conversation c, where nobody has asked it.
MoveQuestion(x, c) ==
  IF q[x].state = "pending" THEN [q[x] EXCEPT !.conv = c, !.asked = NoTurn, !.by = NoConv] ELSE q[x]

\* Open, second transaction.  The row locks order it with AckEvent on the same
\* event.  Then the gateway gets the conversation and watches it.
CarryOverEvents(c) ==
  /\ c \in opening
  /\ ev' = [x \in Events |-> IF x \in Unheard THEN [ev[x] EXCEPT !.at = c] ELSE ev[x]]
  /\ q' = [x \in Questions |-> IF x \in Unheard THEN MoveQuestion(x, c) ELSE q[x]]
  /\ opening' = opening \ {c}
  /\ gw' = [gw EXCEPT ![c].up = TRUE]
  /\ UNCHANGED <<conv, old, nextId, em, turn, acks, answers, losses>>

\* It failed; Open logs that and goes on.
CarryOverFails(c) ==
  /\ c \in opening
  /\ losses < MaxLosses /\ losses' = losses + 1
  /\ opening' = opening \ {c}
  /\ gw' = [gw EXCEPT ![c].up = TRUE]
  /\ UNCHANGED <<conv, old, ev, nextId, q, em, turn, acks, answers>>

\* The phone hangs up, or the gateway dies.
SessionEnds(c) ==
  /\ gw[c].up
  /\ gw' = [gw EXCEPT ![c] = NoSession]
  /\ turn' = [turn EXCEPT ![c] = 0]
  /\ UNCHANGED <<conv, old, opening, ev, nextId, q, em, acks, answers, losses>>

\* The gateway closes the conversation last of all, if it still can.
CloseConversation(c) ==
  /\ conv[c] = "open" /\ ~gw[c].up /\ c \notin opening
  /\ conv' = [conv EXCEPT ![c] = "closed"]
  /\ UNCHANGED <<old, opening, ev, nextId, q, em, gw, turn, acks, answers, losses>>

\* ConversationLifetime has passed; no session lasts that long.
ConversationAges(c) ==
  /\ conv[c] = "open" /\ ~gw[c].up /\ c \notin opening /\ c \notin old
  /\ old' = old \cup {c}
  /\ UNCHANGED <<conv, opening, ev, nextId, q, em, gw, turn, acks, answers, losses>>

Abandoned == {c \in old : conv[c] = "open"}

\* Maintenance closes what no gateway closed.
CloseAbandoned ==
  /\ Abandoned # {}
  /\ conv' = [c \in Convs |-> IF c \in Abandoned THEN "closed" ELSE conv[c]]
  /\ UNCHANGED <<old, opening, ev, nextId, q, em, gw, turn, acks, answers, losses>>

-----------------------------------------------------------------------------
(* Handlers that add an event.                                              *)

\* A task whose conversation is c stops for a question, or is finished.
PauseOrFinish(x, c) ==
  /\ em[x].pc = "idle" /\ conv[c] # "none"
  /\ em' = [em EXCEPT ![x].pc = "emit", ![x].from = c]
  /\ q' = [y \in Questions |-> IF y = x THEN [q[y] EXCEPT !.conv = c, !.state = "pending"] ELSE q[y]]
  /\ UNCHANGED <<conv, old, opening, ev, nextId, gw, turn, acks, answers, losses>>

Live == {c \in Convs : conv[c] = "open" /\ c \notin old}

\* Mutant: without a live conversation there is none.
TargetsLiveOnly(c) ==
  IF conv[c] = "open" THEN {c}
  ELSE IF Live = {} THEN {NoConv} ELSE {d \in Live : \A e \in Live : e <= d}

\* The conversation of the task while it is open, else the newest live one,
\* else the one of the task after all.
Targets(c) ==
  IF conv[c] = "open" \/ Live = {} THEN {c}
  ELSE {d \in Live : \A e \in Live : e <= d}

\* AddEvent reads where the event goes and inserts it, which draws the id;
\* nothing keeps that conversation open, and nobody sees the row yet.
AddEvent(x) ==
  /\ em[x].pc = "emit"
  /\ \E d \in Targets(em[x].from) : em' = [em EXCEPT ![x].pc = "commit", ![x].to = d]
  /\ ev' = [ev EXCEPT ![x].id = nextId]
  /\ nextId' = nextId + 1
  /\ UNCHANGED <<conv, old, opening, q, gw, turn, acks, answers, losses>>

\* Mutant: the question stays behind.
AddEventCommitAlone(x) ==
  /\ em[x].pc = "commit"
  /\ em' = [em EXCEPT ![x] = Done]
  /\ ev' = [ev EXCEPT ![x].at = em[x].to]
  /\ UNCHANGED <<conv, old, opening, nextId, q, gw, turn, acks, answers, losses>>

\* The question is moved in the same transaction; commit makes both visible.
AddEventCommit(x) ==
  /\ em[x].pc = "commit"
  /\ em' = [em EXCEPT ![x] = Done]
  /\ ev' = [ev EXCEPT ![x].at = em[x].to]
  /\ q' = [y \in Questions |-> IF y = x /\ em[x].to # em[x].from THEN MoveQuestion(y, em[x].to) ELSE q[y]]
  /\ UNCHANGED <<conv, old, opening, nextId, gw, turn, acks, answers, losses>>

\* The transaction fails or the process dies: no event.
AddEventFails(x) ==
  /\ em[x].pc \in {"emit", "commit"}
  /\ losses < MaxLosses /\ losses' = losses + 1
  /\ em' = [em EXCEPT ![x] = Done]
  /\ UNCHANGED <<conv, old, opening, ev, nextId, q, gw, turn, acks, answers>>

-----------------------------------------------------------------------------
(* The session of a conversation.                                           *)

\* Without a cursor, Watch begins after the last acknowledged event.
LastAcked(c) ==
  LET ids == {0} \cup {ev[x].id : x \in {y \in Events : ev[y].at = c /\ ev[y].acked # NoTurn}}
  IN  CHOOSE n \in ids : \A m \in ids : m <= n

Cursor(c) == IF gw[c].after = 0 THEN LastAcked(c) ELSE gw[c].after

\* The query of Watch.
NewEvents(c) == {x \in Events : ev[x].at = c /\ ev[x].id > Cursor(c)}

\* Watch sends the events it found in the order of their ids, up to x when
\* the stream breaks there; the session takes them and moves its cursor.
Watch(c, x) ==
  /\ gw[c].up /\ x \in NewEvents(c)
  /\ gw' = [gw EXCEPT ![c].got = @ \cup {y \in NewEvents(c) : ev[y].id <= ev[x].id},
                      ![c].after = ev[x].id]
  /\ UNCHANGED <<conv, old, opening, ev, nextId, q, em, turn, acks, answers, losses>>

\* The response that speaks an event starts (Consent has the details): the
\* turn it starts in is acknowledged, also when the session ends meanwhile.
Speak(c, x) ==
  /\ gw[c].up /\ x \in gw[c].got \ gw[c].said
  /\ gw' = [gw EXCEPT ![c].said = @ \cup {x}]
  /\ acks' = acks \cup {[conv |-> c, event |-> x, turn |-> turn[c], pc |-> "ack"]}
  /\ UNCHANGED <<conv, old, opening, ev, nextId, q, em, turn, answers, losses>>

\* Mutant: the event is found by its id alone.
AckEventById(a) ==
  /\ a.pc = "ack"
  /\ ev' = [ev EXCEPT ![a.event].acked = IF @ = NoTurn THEN a.turn ELSE @]
  /\ acks' = (acks \ {a}) \cup (IF a.event \in Questions THEN {[a EXCEPT !.pc = "mark"]} ELSE {})
  /\ UNCHANGED <<conv, old, opening, nextId, q, em, gw, turn, answers, losses>>

\* Ack, first statement: the event must be in the conversation still.
AckEvent(a) ==
  /\ a.pc = "ack"
  /\ \/ /\ ev[a.event].at = a.conv
        /\ ev' = [ev EXCEPT ![a.event].acked = IF @ = NoTurn THEN a.turn ELSE @]
        /\ acks' = (acks \ {a}) \cup (IF a.event \in Questions THEN {[a EXCEPT !.pc = "mark"]} ELSE {})
     \/ /\ ev[a.event].at # a.conv
        /\ acks' = acks \ {a}
        /\ UNCHANGED ev
  /\ UNCHANGED <<conv, old, opening, nextId, q, em, gw, turn, answers, losses>>

\* Ack, second statement: by the id of the question alone.
MarkAsked(a) ==
  /\ a.pc = "mark"
  /\ q' = [q EXCEPT ![a.event] = IF @.asked = NoTurn THEN [@ EXCEPT !.asked = a.turn, !.by = a.conv] ELSE @]
  /\ acks' = acks \ {a}
  /\ UNCHANGED <<conv, old, opening, ev, nextId, em, gw, turn, answers, losses>>

\* The call fails before, between or after the statements: it is made again,
\* or was the last attempt.
AckFails(a) ==
  /\ losses < MaxLosses /\ losses' = losses + 1
  /\ acks' \in {acks \ {a}, (acks \ {a}) \cup {[a EXCEPT !.pc = "ack"]}}
  /\ UNCHANGED <<conv, old, opening, ev, nextId, q, em, gw, turn, answers>>

UserSpeaks(c) ==
  /\ gw[c].up /\ turn[c] < MaxTurns
  /\ turn' = [turn EXCEPT ![c] = @ + 1]
  /\ UNCHANGED <<conv, old, opening, ev, nextId, q, em, gw, acks, answers, losses>>

\* The model answers a question it has been told of; CallTool checks that the
\* conversation is open.
CallTool(c, x) ==
  /\ gw[c].up /\ conv[c] = "open" /\ x \in gw[c].got
  /\ Cardinality(answers) < MaxAnswers
  /\ answers' = answers \cup {[conv |-> c, question |-> x, turn |-> turn[c]]}
  /\ UNCHANGED <<conv, old, opening, ev, nextId, q, em, gw, turn, acks, losses>>

\* Mutant: from any conversation.
SettlesAnywhere(a, yes) ==
  /\ q[a.question].state = "pending"
  /\ yes => q[a.question].asked # NoTurn /\ q[a.question].asked < a.turn

\* Whether the answer counts: a "no" always does, in the question's conversation.
Settles(a, yes) ==
  /\ q[a.question].state = "pending" /\ q[a.question].conv = a.conv
  /\ yes => q[a.question].asked # NoTurn /\ q[a.question].asked < a.turn

Settle(a, yes) ==
  /\ answers' = answers \ {a}
  /\ q' = [q EXCEPT ![a.question].state =
            IF Settles(a, yes) THEN IF yes THEN "confirmed" ELSE "cancelled" ELSE @]
  /\ UNCHANGED <<conv, old, opening, ev, nextId, em, gw, turn, acks, losses>>

\* Nobody answered in time.
ExpireConfirmations(x) ==
  /\ q[x].state = "pending"
  /\ q' = [q EXCEPT ![x].state = "expired"]
  /\ UNCHANGED <<conv, old, opening, ev, nextId, em, gw, turn, acks, answers, losses>>

Next ==
  \/ CloseAbandoned
  \/ \E c \in Convs :
       \/ CreateConversation(c) \/ CarryOverEvents(c) \/ CarryOverFails(c)
       \/ SessionEnds(c) \/ CloseConversation(c) \/ ConversationAges(c) \/ UserSpeaks(c)
       \/ \E x \in Events : PauseOrFinish(x, c) \/ Watch(c, x) \/ Speak(c, x)
       \/ \E x \in Questions : CallTool(c, x)
  \/ \E x \in Events : AddEvent(x) \/ AddEventCommit(x) \/ AddEventFails(x)
  \/ \E x \in Questions : ExpireConfirmations(x)
  \/ \E a \in acks : AckEvent(a) \/ MarkAsked(a) \/ AckFails(a)
  \/ \E a \in answers, yes \in BOOLEAN : Settle(a, yes)

Spec == Init /\ [][Next]_vars

-----------------------------------------------------------------------------
(* Properties.                                                              *)

\* A pending question is in the conversation of its event: AddEvent and
\* CarryOverEvents move both or none, whatever ends or is acknowledged meanwhile.
QuestionFollowsEvent ==
  \A x \in Questions : q[x].state = "pending" /\ ev[x].at # NoConv => q[x].conv = ev[x].at

\* The turn stored with a question that is or was answerable counts turns of the
\* conversation that may answer it: MarkAsked, which knows only the question,
\* never writes the turn of the conversation the question has left.
AskedInOwnTurns ==
  \A x \in Questions :
    q[x].state \in {"pending", "confirmed"} /\ q[x].asked # NoTurn => q[x].by = q[x].conv

\* A "yes" that counts comes from the conversation in which the question was
\* asked, from a later turn of it, also when it is late and the question has
\* moved meanwhile.
SettledWhereAsked ==
  [][\A x \in Questions : q[x].state = "pending" /\ q'[x].state = "confirmed" =>
       \E a \in answers : a.question = x /\ a.conv = q[x].by /\ q[x].asked < a.turn]_vars

\* An acknowledged event is not told in another conversation.
ToldOnce ==
  [][\A x \in Events, c \in Convs :
       ev[x].acked # NoTurn /\ x \notin gw[c].got => x \notin gw'[c].got]_vars

\* "Watch sends a conversation's events after a cursor until the conversation
\* closes (and its events are sent)" (engine.go:240): whatever of the
\* conversation is behind the cursor was sent.
NoneSkipped ==
  \A x \in Events, c \in Convs :
    ev[x].at = c /\ gw[c].up /\ ev[x].id <= Cursor(c) => x \in gw[c].got
=============================================================================
