------------------------------ MODULE Consent ------------------------------
(***************************************************************************)
(* When a spoken "yes" counts.  The orchestrator runs an action that        *)
(* changes something only if the model confirms it in a user turn later     *)
(* than the one in which the question reached the user; the voice gateway   *)
(* supplies the turns (services/voice-gateway/internal/session/jarvis.go,   *)
(* services/orchestrator/internal/engine/voice.go, store.Settle).           *)
(*                                                                          *)
(* The gateway and the realtime provider exchange messages over a socket:   *)
(* two queues that nobody waits for, so an item the gateway sends and an    *)
(* event the provider sends may cross.  Acknowledgements and tool calls go  *)
(* to the orchestrator from goroutines of their own.  The provider is       *)
(* modelled from how the gateway uses it.  One conversation; expiry of a    *)
(* question is in Tasks, the end of a conversation is not modelled.         *)
(***************************************************************************)
EXTENDS Naturals, Sequences, FiniteSets, SequencesExt

CONSTANTS
  ToolQuestions,     \* questions asked by voice calls of tools that are not read-only
  TaskQuestions,     \* questions asked by background tasks, which come as events
  MaxCallsInFlight,  \* maxCallsInFlight
  MaxCreateRetries,  \* maxCreateRetries
  MaxTurns,          \* bound: user turns
  MaxResponses,      \* bound: responses of the provider
  MaxCallsPerResponse, \* bound: function calls of one response
  MaxErrors,         \* bound: error events of the provider that no active response explains
  MaxFailures,       \* bound: acks that fail three times, calls without an answer
  NoQuestion, NoTurn

Questions == ToolQuestions \cup TaskQuestions
Responses == 1..MaxResponses
Turns == 0..MaxTurns

ASSUME QuestionsAssumption ==
  ToolQuestions \cap TaskQuestions = {} /\ NoQuestion \notin Questions
ASSUME BoundsAssumption ==
  /\ MaxCallsInFlight \in Nat /\ MaxCreateRetries \in Nat /\ MaxTurns \in Nat
  /\ MaxResponses \in Nat /\ MaxCallsPerResponse \in Nat /\ MaxErrors \in Nat /\ MaxFailures \in Nat
  /\ NoTurn \notin Nat

VARIABLES
  toProvider,  \* items and response.create on their way to the provider
  toGateway,   \* events on their way to the gateway
  provider,    \* the conversation at the provider
  gw,          \* what the provider loop of the gateway owns (type jarvis)
  acks,        \* acknowledgements being stored, oldest first (startAcks)
  stored,      \* how many have been dealt with: barriers are counted in them
  conf,        \* the confirmations of the conversation
  sent,        \* question -> the turn in which the gateway gave it to the provider
  crossed,     \* questions that crossed a response the provider started by itself
  mistaken,    \* the gateway took an event for the answer to its response.create that was not
  failures

vars == <<toProvider, toGateway, provider, gw, acks, stored, conf, sent, crossed, mistaken, failures>>

-----------------------------------------------------------------------------
Item(q) == [kind |-> "item", q |-> q]
Create  == [kind |-> "create", q |-> NoQuestion]

\* `auto`: no response.create caused it.  `calls` is the call announced; the
\* end of a response names all of its calls again.
Event(kind, r, auto, calls) == [kind |-> kind, r |-> r, auto |-> auto, calls |-> calls]

\* What was put into the conversation for the model to speak (delivered).
Nothing == [want |-> FALSE, acks |-> {}]
add(d, e) == [want |-> d.want \/ e.want, acks |-> d.acks \cup e.acks]

\* A call the gateway runs: `at` is "run" (its goroutine), "back" (in the
\* results channel) or "held" (in the batch of its response, which is sent
\* when the response is done and all its calls have returned).
Call(c, r, turn, barrier, at) ==
  [kind |-> c.kind, q |-> c.q, r |-> r, turn |-> turn, barrier |-> barrier, at |-> at, asks |-> FALSE]

Init ==
  /\ toProvider = <<>> /\ toGateway = <<>>
  /\ provider = [ctx |-> {}, active |-> 0, speaking |-> FALSE, turns |-> 0, made |-> 0,
                 knows |-> [r \in Responses |-> {}], turnAt |-> [r \in Responses |-> 0],
                 calls |-> {}, asked |-> {}, errors |-> 0]
  /\ gw = [turn |-> 0, speaking |-> FALSE, responding |-> {}, turnOf |-> [r \in Responses |-> 0],
           unspoken |-> Nothing, afterRequest |-> Nothing, requested |-> FALSE,
           createFailures |-> 0, calls |-> {}]
  /\ acks = <<>> /\ stored = 0
  /\ conf = [q \in Questions |-> [state |-> "none", asked |-> NoTurn, by |-> 0]]
  /\ sent = [q \in Questions |-> NoTurn]
  /\ crossed = {}
  /\ mistaken = FALSE
  /\ failures = 0

-----------------------------------------------------------------------------
(* The provider and the user.                                               *)

\* A new response knows what the conversation holds.
Respond(p) == [p EXCEPT !.made = @ + 1, !.active = p.made + 1,
                        !.knows[p.made + 1] = p.ctx, !.turnAt[p.made + 1] = p.turns, !.calls = {}]

\* Server VAD: the user is heard, and the active response is cut off.
UserSpeaks ==
  /\ ~provider.speaking /\ provider.turns < MaxTurns
  /\ provider' = [provider EXCEPT !.speaking = TRUE, !.active = 0]
  /\ toGateway' = toGateway \o <<Event("speechStarted", 0, FALSE, {})>>
       \o IF provider.active = 0 THEN <<>>
          ELSE <<Event("done", provider.active, FALSE, provider.calls)>>
  /\ UNCHANGED <<toProvider, gw, acks, stored, conf, sent, crossed, mistaken, failures>>

\* The user has spoken, and the provider starts a response by itself, unless
\* one is active.  What the gateway has sent and the provider has not seen
\* crosses it.
UserStops ==
  /\ provider.speaking
  /\ LET p == [provider EXCEPT !.speaking = FALSE, !.turns = @ + 1]
         stop == Event("speechStopped", 0, FALSE, {}) IN
     IF p.active = 0
     THEN /\ p.made < MaxResponses
          /\ provider' = Respond(p)
          /\ toGateway' = toGateway \o <<stop, Event("created", p.made + 1, TRUE, {})>>
          /\ crossed' = crossed \cup ({toProvider[i].q : i \in DOMAIN toProvider} \ {NoQuestion})
     ELSE provider' = p /\ toGateway' = Append(toGateway, stop) /\ UNCHANGED crossed
  /\ UNCHANGED <<toProvider, gw, acks, stored, conf, sent, mistaken, failures>>

\* conversation.item.create and response.create.  A response is refused while
\* another is active; the provider may also refuse it for reasons of its own.
Receive ==
  /\ toProvider # <<>>
  /\ toProvider' = Tail(toProvider)
  /\ LET m == Head(toProvider) IN
     \/ /\ m.kind = "item"
        /\ provider' = [provider EXCEPT !.ctx = @ \cup ({m.q} \ {NoQuestion})]
        /\ UNCHANGED toGateway
     \/ /\ m.kind = "create" /\ provider.active = 0 /\ provider.made < MaxResponses
        /\ provider' = Respond(provider)
        /\ toGateway' = Append(toGateway, Event("created", provider.made + 1, FALSE, {}))
     \/ /\ m.kind = "create"
        /\ provider.active # 0 \/ provider.errors < MaxErrors
        /\ provider' = [provider EXCEPT !.errors = IF provider.active # 0 THEN @ ELSE @ + 1]
        /\ toGateway' = Append(toGateway, Event("error", 0, FALSE, {}))
  /\ UNCHANGED <<gw, acks, stored, conf, sent, crossed, mistaken, failures>>

\* The model calls a tool: one that needs consent, or confirm_action or
\* cancel_action for a question it knows.  Each kind once in a response.
ModelCalls ==
  /\ provider.active # 0
  /\ Cardinality(provider.calls) < MaxCallsPerResponse
  /\ \E q \in Questions, kind \in {"ask", "confirm", "cancel"} :
       LET c == [kind |-> kind, q |-> q] IN
       /\ c \notin provider.calls
       /\ IF kind = "ask" THEN q \in ToolQuestions \ provider.asked
          ELSE q \in provider.knows[provider.active]
       /\ provider' = [provider EXCEPT !.calls = @ \cup {c},
                                        !.asked = IF kind = "ask" THEN @ \cup {q} ELSE @]
       /\ \/ toGateway' = Append(toGateway, Event("call", provider.active, FALSE, {c}))
          \/ UNCHANGED toGateway \* announced with the end of the response only
  /\ UNCHANGED <<toProvider, gw, acks, stored, conf, sent, crossed, mistaken, failures>>

ResponseEnds ==
  /\ provider.active # 0
  /\ provider' = [provider EXCEPT !.active = 0]
  /\ toGateway' = Append(toGateway, Event("done", provider.active, FALSE, provider.calls))
  /\ UNCHANGED <<toProvider, gw, acks, stored, conf, sent, crossed, mistaken, failures>>

\* An error event that no response.create has caused.
StrayError ==
  /\ provider.errors < MaxErrors
  /\ provider' = [provider EXCEPT !.errors = @ + 1]
  /\ toGateway' = Append(toGateway, Event("error", 0, TRUE, {}))
  /\ UNCHANGED <<toProvider, gw, acks, stored, conf, sent, crossed, mistaken, failures>>

-----------------------------------------------------------------------------
(* The provider loop of the gateway.                                        *)

Event1(kind) == toGateway # <<>> /\ Head(toGateway).kind = kind /\ toGateway' = Tail(toGateway)

\* The event is handled as the answer to a request, which it may not be.
AsAnswer == mistaken' = (mistaken \/ (gw.requested /\ Head(toGateway).auto))

\* Mutant of added: a response that was asked for already speaks them too.
addedAtOnce(g, qs) == [g EXCEPT !.unspoken = add(@, [want |-> TRUE, acks |-> qs])]

\* Items with these questions were put into the conversation.
added(g, qs) ==
  LET new == [want |-> TRUE, acks |-> qs] IN
  IF g.requested THEN [g EXCEPT !.afterRequest = add(@, new)]
                 ELSE [g EXCEPT !.unspoken = add(@, new)]

\* respond asks the model to speak, unless the user is talking, a response is
\* running, or one was asked for already.
MayRespond(g) == g.unspoken.want /\ ~g.requested /\ ~g.speaking /\ g.responding = {}

\* The end of a handler: the items it sends, then respond.
SendAndRespond(g, items) ==
  LET qs == {items[i].q : i \in DOMAIN items} \ {NoQuestion} IN
  /\ gw' = [g EXCEPT !.requested = @ \/ MayRespond(g)]
  /\ toProvider' = toProvider \o items \o IF MayRespond(g) THEN <<Create>> ELSE <<>>
  /\ sent' = [q \in Questions |-> IF q \in qs THEN g.turn ELSE sent[q]]
  /\ crossed' = IF \E i \in DOMAIN toGateway : toGateway[i].kind = "created" /\ toGateway[i].auto
                THEN crossed \cup qs ELSE crossed

\* deliver: the outputs of every response that is done and whose calls have
\* all returned, a question among them with its acknowledgement.
deliver(g) ==
  LET ready == {c \in g.calls : /\ c.r \notin g.responding
                                /\ \A d \in g.calls : d.r = c.r => d.at = "held"}
      outputs == [i \in 1..Cardinality(ready) |->
                    LET c == SetToSeq(ready)[i] IN Item(IF c.asks THEN c.q ELSE NoQuestion)]
      g1 == [g EXCEPT !.calls = @ \ ready] IN
  SendAndRespond(IF ready = {} THEN g1 ELSE added(g1, {c.q : c \in {d \in ready : d.asks}}), outputs)

jarvisSpeechStarted ==
  /\ Event1("speechStarted")
  /\ gw' = [gw EXCEPT !.speaking = TRUE]
  /\ UNCHANGED <<toProvider, provider, acks, stored, conf, sent, crossed, mistaken, failures>>

jarvisSpeechStopped ==
  /\ Event1("speechStopped")
  /\ gw' = [gw EXCEPT !.speaking = FALSE, !.turn = @ + 1]
  /\ UNCHANGED <<toProvider, provider, acks, stored, conf, sent, crossed, mistaken, failures>>

\* The response speaks what was delivered before it was asked for; the
\* acknowledgements of the questions among it are queued (startAcks).
jarvisResponseCreated ==
  /\ Event1("created")
  /\ AsAnswer
  /\ LET r == Head(toGateway).r
         spoken == SetToSeq(gw.unspoken.acks) IN
     /\ gw' = [gw EXCEPT !.responding = @ \cup {r}, !.turnOf[r] = gw.turn,
                         !.unspoken = gw.afterRequest, !.afterRequest = Nothing,
                         !.requested = FALSE, !.createFailures = 0]
     /\ acks' = acks \o [i \in DOMAIN spoken |-> [q |-> spoken[i], turn |-> gw.turn]]
  /\ UNCHANGED <<toProvider, provider, stored, conf, sent, crossed, failures>>

\* jarvisFunctionCall for calls that are not running already; one too many
\* gets its error result at once.  (The loop takes them one by one; which of
\* several is the one too many makes no difference.)
StartCalls(g, r, cs, turn, barrier) ==
  LET new == {c \in cs : ~\E d \in g.calls : d.r = r /\ d.kind = c.kind /\ d.q = c.q}
      running == Cardinality({d \in g.calls : d.at # "held"})
      free == IF running >= MaxCallsInFlight THEN 0 ELSE MaxCallsInFlight - running
      order == SetToSeq(new) IN
  [g EXCEPT !.calls = @ \cup {Call(order[i], r, turn, barrier, IF i <= free THEN "run" ELSE "held")
                                : i \in DOMAIN order}]

TurnOf(g, r) == IF r \in g.responding THEN g.turnOf[r] ELSE g.turn

\* Mutant of Started: calls do not wait for acknowledgements.
StartedAtOnce(g, r, cs) == StartCalls(g, r, cs, TurnOf(g, r), 0)

\* Mutant of Started: calls are stamped with the current turn.
StartedNow(g, r, cs) == StartCalls(g, r, cs, g.turn, stored + Len(acks))

\* A call has the turn of its response, and waits for the acknowledgements
\* started so far.
Started(g, r, cs) == StartCalls(g, r, cs, TurnOf(g, r), stored + Len(acks))

jarvisFunctionCall ==
  /\ Event1("call")
  /\ LET g == Started(gw, Head(toGateway).r, Head(toGateway).calls) IN
     IF \E c \in g.calls \ gw.calls : c.at = "held" THEN deliver(g)
     ELSE gw' = g /\ UNCHANGED <<toProvider, sent, crossed>>
  /\ UNCHANGED <<provider, acks, stored, conf, mistaken, failures>>

jarvisResponseDone ==
  /\ Event1("done")
  /\ LET r == Head(toGateway).r
         g == Started(gw, r, Head(toGateway).calls) IN
     deliver([g EXCEPT !.responding = @ \ {r}])
  /\ UNCHANGED <<provider, acks, stored, conf, mistaken, failures>>

\* Mutant of jarvisProviderError: errors are ignored.
jarvisProviderErrorIgnored ==
  /\ Event1("error")
  /\ AsAnswer
  /\ UNCHANGED <<toProvider, provider, gw, acks, stored, conf, sent, crossed, failures>>

\* While a response is being created, an error is taken for its failure.
jarvisProviderError ==
  /\ Event1("error")
  /\ AsAnswer
  /\ IF ~gw.requested THEN UNCHANGED <<toProvider, gw, sent, crossed>>
     ELSE LET g == [gw EXCEPT !.requested = FALSE, !.unspoken = add(@, gw.afterRequest),
                              !.afterRequest = Nothing, !.createFailures = @ + 1] IN
          IF g.createFailures > MaxCreateRetries
          THEN /\ gw' = [g EXCEPT !.unspoken.want = FALSE]
               /\ UNCHANGED <<toProvider, sent, crossed>>
          ELSE SendAndRespond(g, <<>>)
  /\ UNCHANGED <<provider, acks, stored, conf, failures>>

\* A finished call: it joins the batch of its response.
jarvisResult ==
  /\ \E c \in gw.calls :
       /\ c.at = "back"
       /\ deliver([gw EXCEPT !.calls = (@ \ {c}) \cup {[c EXCEPT !.at = "held"]}])
  /\ UNCHANGED <<toGateway, provider, acks, stored, conf, mistaken, failures>>

\* An event of the orchestrator: a task asks something.
jarvisNotice(q) ==
  /\ q \in TaskQuestions
  /\ conf[q].state # "none" /\ sent[q] = NoTurn
  /\ SendAndRespond(added(gw, {q}), <<Item(q)>>)
  /\ UNCHANGED <<toGateway, provider, acks, stored, conf, mistaken, failures>>

-----------------------------------------------------------------------------
(* The goroutines of the gateway and what they do at the orchestrator.      *)

\* MarkCallAsked, MarkAsked: the first turn counts.
MarkAsked(q, turn) == conf' = [conf EXCEPT ![q].asked = IF @ = NoTurn THEN turn ELSE @]

\* The oldest acknowledgement is stored, or given up after three attempts.
sendAck ==
  /\ acks # <<>>
  /\ acks' = Tail(acks)
  /\ stored' = stored + 1
  /\ \/ MarkAsked(Head(acks).q, Head(acks).turn) /\ UNCHANGED failures
     \/ failures < MaxFailures /\ failures' = failures + 1 /\ UNCHANGED conf
  /\ UNCHANGED <<toProvider, toGateway, provider, gw, sent, crossed, mistaken>>

\* Mutant of Settle: the turn of the question counts as an answer.
SettleSameTurn(q, r, turn, confirm) ==
  conf' = IF conf[q].state = "pending"
               /\ (confirm => conf[q].asked # NoTurn /\ conf[q].asked <= turn)
          THEN [conf EXCEPT ![q].state = IF confirm THEN "confirmed" ELSE "cancelled", ![q].by = r]
          ELSE conf

\* Settle: a confirmation counts in a later turn than the question, a
\* cancellation always.
Settle(q, r, turn, confirm) ==
  conf' = IF conf[q].state = "pending"
               /\ (confirm => conf[q].asked # NoTurn /\ conf[q].asked < turn)
          THEN [conf EXCEPT ![q].state = IF confirm THEN "confirmed" ELSE "cancelled", ![q].by = r]
          ELSE conf

\* CallTool, once the acknowledgements before the call are stored.  A call
\* without an answer may have been done all the same.
runCall ==
  /\ \E c \in gw.calls, answered \in BOOLEAN :
       /\ c.at = "run" /\ c.barrier <= stored
       /\ failures' = IF answered THEN failures ELSE failures + 1
       /\ failures' <= MaxFailures
       /\ gw' = [gw EXCEPT !.calls = (@ \ {c}) \cup
                   {[c EXCEPT !.at = "back", !.asks = answered /\ c.kind = "ask"]}]
       /\ \/ /\ c.kind = "ask"
             /\ conf' = [conf EXCEPT ![c.q].state = "pending"]
          \/ c.kind # "ask" /\ Settle(c.q, c.r, c.turn, c.kind = "confirm")
          \/ ~answered /\ UNCHANGED conf
  /\ UNCHANGED <<toProvider, toGateway, provider, acks, stored, sent, crossed, mistaken>>

\* A background task stops for a question (pauseTask).
TaskAsks(q) ==
  /\ q \in TaskQuestions
  /\ conf[q].state = "none"
  /\ conf' = [conf EXCEPT ![q].state = "pending"]
  /\ UNCHANGED <<toProvider, toGateway, provider, gw, acks, stored, sent, crossed, mistaken, failures>>

-----------------------------------------------------------------------------
GatewayEvent ==
  \/ jarvisSpeechStarted \/ jarvisSpeechStopped \/ jarvisResponseCreated
  \/ jarvisFunctionCall \/ jarvisResponseDone \/ jarvisProviderError

Next ==
  \/ UserSpeaks \/ UserStops \/ Receive \/ ModelCalls \/ ResponseEnds \/ StrayError
  \/ GatewayEvent \/ jarvisResult \/ sendAck \/ runCall
  \/ \E q \in Questions : jarvisNotice(q) \/ TaskAsks(q)

Spec == Init /\ [][Next]_vars

\* The provider loop, the goroutines and the provider keep going; the user
\* stops talking some time, and need not start.
Fairness ==
  /\ WF_vars(GatewayEvent) /\ WF_vars(jarvisResult) /\ WF_vars(sendAck) /\ WF_vars(runCall)
  /\ WF_vars(UserStops) /\ WF_vars(Receive) /\ WF_vars(ResponseEnds)
  /\ \A q \in Questions : WF_vars(jarvisNotice(q))

FairSpec == Spec /\ Fairness

-----------------------------------------------------------------------------
\* A confirmed action was confirmed in a response that the provider created
\* after a user turn that ended after the gateway had put the question into
\* the conversation, whatever crosses on the wire, is lost or fails.
ConsentGiven ==
  \A q \in Questions : conf[q].state = "confirmed" =>
    sent[q] # NoTurn /\ sent[q] < provider.turnAt[conf[q].by]

\* The turn stored for a question is that of the first response that could
\* speak it; only a response the provider started by itself while the question
\* was on its way, or an error about something else, can make it an earlier one.
AskedWhenSpoken ==
  \A q \in Questions : conf[q].asked # NoTurn /\ q \notin crossed /\ ~mistaken =>
    \E r \in Responses : /\ q \in provider.knows[r] /\ provider.turnAt[r] = conf[q].asked
                         /\ \A s \in 1..(r - 1) : q \notin provider.knows[s]

\* The acknowledgements a call depends on are stored before it runs: a call
\* of a later turn never finds the question of an earlier one unasked.
AcksFirst ==
  \A c \in gw.calls : c.at = "run" /\ c.barrier <= stored =>
    \A i \in DOMAIN acks : acks[i].q = c.q => acks[i].turn >= c.turn

\* A question put into the conversation is asked some time, unless the
\* provider refuses to speak or an acknowledgement is lost.
QuestionAsked ==
  \A q \in Questions : (sent[q] # NoTurn) ~>
    \/ conf[q].asked # NoTurn
    \/ failures > 0 \/ gw.createFailures > MaxCreateRetries \/ provider.made = MaxResponses

\* "confirm_action counts only in a user speech turn later than the one in
\* which the question reached the user" (services/orchestrator/README.md): a
\* response that could speak the question was created before that turn ended.
ConfirmedAfterSpoken ==
  \A q \in Questions : conf[q].state = "confirmed" =>
    \E r \in Responses : q \in provider.knows[r] /\ provider.turnAt[r] < provider.turnAt[conf[q].by]
=============================================================================
