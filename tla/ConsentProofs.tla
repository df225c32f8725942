--------------------------- MODULE ConsentProofs ---------------------------
(***************************************************************************)
(* A spoken "yes" counts only after a user turn that ended when the gateway *)
(* had sent the question, and finds the acknowledgements before it stored;  *)
(* the turn stored for a question is that of the first response to know it: *)
(* proved for any questions, turns, responses, calls, errors and failures.  *)
(***************************************************************************)
EXTENDS Consent, FiniteSetTheorems, TLAPS

-----------------------------------------------------------------------------
(* The invariant.                                                            *)

\* What the model may call.
Calls == [kind : {"ask", "confirm", "cancel"}, q : Questions]

Messages == [kind : {"item", "create"}, q : Questions \cup {NoQuestion}]

Events == [kind : {"speechStarted", "speechStopped", "created", "call", "done", "error"},
           r : 0..MaxResponses, auto : BOOLEAN, calls : SUBSET Calls]

\* The calls of the gateway.
Runs == [kind : {"ask", "confirm", "cancel"}, q : Questions, r : Nat, turn : Nat, barrier : Nat,
         at : {"run", "back", "held"}, asks : BOOLEAN]

Deliveries == [want : BOOLEAN, acks : SUBSET Questions]

Providers ==
  [ctx : SUBSET Questions, active : 0..MaxResponses, speaking : BOOLEAN, turns : Nat,
   made : 0..MaxResponses, knows : [Responses -> SUBSET Questions], turnAt : [Responses -> Nat],
   calls : SUBSET Calls, asked : SUBSET Questions, errors : Nat]

Gateways ==
  [turn : Nat, speaking : BOOLEAN, responding : SUBSET Responses, turnOf : [Responses -> Nat],
   unspoken : Deliveries, afterRequest : Deliveries, requested : BOOLEAN,
   createFailures : Nat, calls : SUBSET Runs]

SentTurns == [Questions -> Nat \cup {NoTurn}]

Acks == Seq([q : Questions, turn : Nat])

Confirmations == [Questions -> [state : {"none", "pending", "confirmed", "cancelled"},
                                asked : Nat \cup {NoTurn}, by : Nat]]

ProviderType == provider \in Providers /\ IsFiniteSet(provider.calls)

\* Sequences are made of finite sets of calls and of questions.
GatewayType(g) ==
  /\ g \in Gateways
  /\ IsFiniteSet(g.calls) /\ IsFiniteSet(g.unspoken.acks) /\ IsFiniteSet(g.afterRequest.acks)

FiniteCalls(W) == \A i \in 1..Len(W) : IsFiniteSet(W[i].calls)

WireType == toProvider \in Seq(Messages) /\ toGateway \in Seq(Events) /\ FiniteCalls(toGateway)

StoreType ==
  /\ acks \in Acks
  /\ stored \in Nat
  /\ conf \in Confirmations
  /\ sent \in SentTurns
  /\ crossed \in SUBSET Questions
  /\ mistaken \in BOOLEAN
  /\ failures \in Nat

\* The rest relates the events W on their way to the gateway, the provider p,
\* the gateway g, the turns s in which questions were sent, the queue a of
\* acknowledgements, of which n have been dealt with, and the confirmations k:
\* a handler changes several of them one after the other.

\* The numbers of user turns that the gateway will have counted after each of
\* the events: in the end they are the provider's.
Counts(f, W, p, g) ==
  /\ f \in [0..Len(W) -> Nat]
  /\ f[0] = g.turn /\ f[Len(W)] = p.turns
  /\ \A i \in 1..Len(W) : f[i] = IF W[i].kind = "speechStopped" THEN f[i - 1] + 1 ELSE f[i - 1]
  /\ \A i \in 1..Len(W) : W[i].kind = "created" => p.turnAt[W[i].r] = f[i]

ClockInv(W, p, g) == \E f : Counts(f, W, p, g)

IsCreated(e, r) == e.kind = "created" /\ e.r = r

\* A response is created, calls and ends, in this order on the wire: whoever
\* hears of a call or of an end has heard of the beginning.
OrderInv(W, p, g) ==
  /\ \A i \in 1..Len(W) : W[i].kind \in {"created", "call", "done"} => W[i].r \in 1..p.made
  /\ \A i \in 1..Len(W) : W[i].kind \in {"call", "done"}
       => W[i].r \in g.responding \/ \E j \in 1..(i - 1) : IsCreated(W[j], W[i].r)
  /\ \A i, j \in 1..Len(W) : i < j /\ W[i].kind = "done" => W[j].r # W[i].r
  /\ \A i \in 1..Len(W) : W[i].kind \notin {"call", "done"} => W[i].calls = {}

\* The response in progress.
ActiveInv(W, p, g) ==
  /\ p.active <= p.made
  /\ p.active # 0 =>
       /\ p.active \in g.responding \/ \E j \in 1..Len(W) : IsCreated(W[j], p.active)
       /\ \A i \in 1..Len(W) : W[i].kind = "done" => W[i].r # p.active

\* The gateway learns of a response once, and has no calls of it before.
NewInv(W, g) ==
  \A i \in 1..Len(W) : W[i].kind = "created" =>
    /\ W[i].r \notin g.responding
    /\ \A c \in g.calls : c.r # W[i].r
    /\ \A j \in 1..Len(W) : IsCreated(W[j], W[i].r) => j = i

WireInv(W, p, g) == ClockInv(W, p, g) /\ OrderInv(W, p, g) /\ ActiveInv(W, p, g) /\ NewInv(W, g)

\* The gateway has the right turn for every response and every call of it.
TurnsInv(p, g) ==
  /\ \A r \in g.responding : r \in 1..p.made /\ g.turnOf[r] = p.turnAt[r] /\ g.turnOf[r] <= g.turn
  /\ \A c \in g.calls :
       /\ c.r \in 1..p.made /\ c.turn = p.turnAt[c.r] /\ c.turn <= g.turn
       /\ c.asks => c.kind = "ask"

\* What is acknowledged was sent, in that turn or before.
SentBy(q, turn, s) == s[q] # NoTurn /\ s[q] <= turn

SentInv(g, s, a, k) ==
  /\ \A q \in g.unspoken.acks \cup g.afterRequest.acks : SentBy(q, g.turn, s)
  /\ \A i \in 1..Len(a) : SentBy(a[i].q, a[i].turn, s)
  /\ \A q \in Questions : k[q].asked # NoTurn => SentBy(q, k[q].asked, s)

Ask(q) == [kind |-> "ask", q |-> q]

\* The call of response r that asks q is on its way or being handled.
Asks(q, r, W, p, g) ==
  \/ \E c \in g.calls : c.kind = "ask" /\ c.q = q /\ c.r = r
  \/ \E i \in 1..Len(W) : W[i].r = r /\ Ask(q) \in W[i].calls
  \/ p.active = r /\ r # 0 /\ Ask(q) \in p.calls

\* As long as it is, its question has not been sent; no other call asks it.
OnceInv(W, p, g, s) ==
  \A q \in Questions, r \in Nat : Asks(q, r, W, p, g) =>
    /\ q \in ToolQuestions /\ q \in p.asked /\ s[q] = NoTurn
    /\ \A t \in Nat : Asks(q, t, W, p, g) => t = r

\* The question of a call that nobody has made has not been sent.
UnaskedInv(p, s) == \A q \in ToolQuestions : q \notin p.asked => s[q] = NoTurn

\* The acknowledgements queued after a call was started are not of an earlier
\* turn than the call.
AckInv(g, a, n) ==
  \A c \in g.calls :
    /\ c.barrier <= n + Len(a)
    /\ \A i \in 1..Len(a) : n + i > c.barrier => a[i].turn >= c.turn

\* Who confirmed.
ByInv(p, k) ==
  \A q \in Questions : k[q].state = "confirmed" =>
    k[q].by \in 1..p.made /\ k[q].asked # NoTurn /\ k[q].asked < p.turnAt[k[q].by]

Consistent(W, p, g, s, a, n, k) ==
  /\ GatewayType(g) /\ WireInv(W, p, g) /\ TurnsInv(p, g)
  /\ SentInv(g, s, a, k) /\ OnceInv(W, p, g, s) /\ UnaskedInv(p, s) /\ AckInv(g, a, n) /\ ByInv(p, k)

Inv ==
  /\ ProviderType /\ WireType /\ StoreType
  /\ Consistent(toGateway, provider, gw, sent, acks, stored, conf)

-----------------------------------------------------------------------------
(* Sequences.                                                                *)

\* SetToSeq puts all elements of a finite set into a sequence.
LEMMA SetToSeqFacts ==
  ASSUME NEW S, IsFiniteSet(S)
  PROVE  /\ Cardinality(S) \in Nat
         /\ SetToSeq(S) \in [1..Cardinality(S) -> S]
         /\ \A x \in S : \E i \in 1..Cardinality(S) : SetToSeq(S)[i] = x
<1> DEFINE n == Cardinality(S)
<1>1. n \in Nat /\ ExistsBijection(1..n, S)
  BY FS_CardinalityType, Zenon
<1>2. PICK f : f \in Bijection(1..n, S)
  BY <1>1 DEF ExistsBijection
<1>3. f \in [1..n -> S] /\ IsInjective(f)
  BY <1>2 DEF Bijection, Injection, Surjection
<1>4. SetToSeq(S) \in [1..n -> S] /\ IsInjective(SetToSeq(S))
  BY <1>3, Zenon DEF SetToSeq
<1>5. SetToSeq(S) \in Injection(1..n, S)
  BY <1>4 DEF Injection
<1>6. Cardinality(1..n) = n
  BY <1>1, FS_Interval
<1>7. SetToSeq(S) \in Surjection(1..n, S)
  BY <1>5, <1>6, FS_Injection
<1> QED BY <1>1, <1>4, <1>7 DEF Surjection

\* Appending to a sequence.
LEMMA AppendFacts ==
  ASSUME NEW S, NEW q \in Seq(S), NEW x \in S
  PROVE  /\ Append(q, x) \in Seq(S) /\ Len(Append(q, x)) = Len(q) + 1
         /\ \A i \in 1..Len(q) : Append(q, x)[i] = q[i]
         /\ Append(q, x)[Len(q) + 1] = x
OBVIOUS

\* Taking the first element of a sequence.
LEMMA TailFacts ==
  ASSUME NEW S, NEW q \in Seq(S), q # <<>>
  PROVE  /\ Len(q) \in Nat \ {0} /\ Head(q) = q[1] /\ Head(q) \in S
         /\ Tail(q) \in Seq(S) /\ Len(Tail(q)) = Len(q) - 1
         /\ \A i \in 1..(Len(q) - 1) : Tail(q)[i] = q[i + 1]
OBVIOUS

-----------------------------------------------------------------------------
(* Events put on the wire and taken from it.                                 *)

\* The provider says what it has done.
Pushes(e, p, p2) ==
  /\ p2.turns = (IF e.kind = "speechStopped" THEN p.turns + 1 ELSE p.turns)
  /\ p2.made = (IF e.kind = "created" THEN p.made + 1 ELSE p.made)
  /\ \A r \in 1..p.made : p2.turnAt[r] = p.turnAt[r]
  /\ e.kind = "created" => e.r = p2.made /\ p2.active = p2.made /\ p2.turnAt[p2.made] = p2.turns
  /\ e.kind \in {"call", "done"} => e.r = p.active /\ p.active # 0
  /\ e.kind = "done" => p2.active = 0
  /\ e.kind \notin {"created", "done"} => p2.active = p.active
  /\ e.kind \notin {"created", "call", "done"} => e.r = 0
  /\ e.kind \notin {"call", "done"} => e.calls = {}

\* The event that the provider puts on the wire continues the story.
LEMMA PushKeeps ==
  ASSUME NEW W \in Seq(Events), NEW e \in Events, NEW p \in Providers, NEW p2 \in Providers,
         NEW g \in Gateways, Pushes(e, p, p2), TurnsInv(p, g), WireInv(W, p, g)
  PROVE  WireInv(Append(W, e), p2, g)
<1> DEFINE V == Append(W, e)
           n == Len(W)
<1>1. /\ V \in Seq(Events) /\ Len(V) = n + 1 /\ n \in Nat
      /\ \A i \in 1..n : V[i] = W[i]
      /\ V[n + 1] = e
  BY AppendFacts
<1>2. /\ p.turns \in Nat /\ p.made \in Nat /\ p.active \in Nat
      /\ p2.turns \in Nat /\ p2.made \in Nat /\ p2.active \in Nat
  BY BoundsAssumption DEF Providers
<1>3. \A i \in 1..n : W[i] \in Events
  OBVIOUS
<1>4. e.r \in Nat /\ \A i \in 1..n : W[i].r \in Nat
  BY <1>3, BoundsAssumption DEF Events
<1> HIDE DEF V, n
<1>5. ClockInv(V, p2, g)
  <2>1. PICK f : Counts(f, W, p, g)
    BY DEF WireInv, ClockInv
  <2> DEFINE h == [i \in 0..(n + 1) |-> IF i <= n THEN f[i] ELSE p2.turns]
  <2>2. h \in [0..Len(V) -> Nat]
    BY <1>1, <1>2, <2>1 DEF Counts, n
  <2>3. h[0] = g.turn /\ h[Len(V)] = p2.turns
    BY <1>1, <2>1 DEF Counts, n
  <2>4. \A i \in 1..Len(V) : h[i] = IF V[i].kind = "speechStopped" THEN h[i - 1] + 1 ELSE h[i - 1]
    <3> SUFFICES ASSUME NEW i \in 1..(n + 1)
                 PROVE  h[i] = IF V[i].kind = "speechStopped" THEN h[i - 1] + 1 ELSE h[i - 1]
      BY <1>1
    <3>1. CASE i <= n
      BY <1>1, <2>1, <3>1 DEF Counts, n
    <3>2. CASE i = n + 1
      BY <1>1, <1>2, <2>1, <3>2 DEF Counts, n, Pushes
    <3> QED BY <1>1, <3>1, <3>2
  <2>5. \A i \in 1..Len(V) : V[i].kind = "created" => p2.turnAt[V[i].r] = h[i]
    <3> SUFFICES ASSUME NEW i \in 1..(n + 1), V[i].kind = "created" PROVE p2.turnAt[V[i].r] = h[i]
      BY <1>1
    <3>1. CASE i <= n
      <4>1. i \in 1..Len(W) /\ V[i] = W[i] /\ W[i].kind = "created" /\ h[i] = f[i]
        BY <1>1, <3>1 DEF n
      <4>2. W[i].r \in 1..p.made
        BY <4>1 DEF WireInv, OrderInv
      <4> HIDE DEF h
      <4> QED BY <2>1, <4>1, <4>2 DEF Counts, Pushes
    <3>2. CASE i = n + 1
      BY <1>1, <3>2 DEF Pushes
    <3> QED BY <1>1, <3>1, <3>2
  <2> HIDE DEF h
  <2> QED BY <2>2, <2>3, <2>4, <2>5 DEF ClockInv, Counts
<1>6. OrderInv(V, p2, g)
  <2>1. OrderInv(W, p, g) /\ ActiveInv(W, p, g)
    BY DEF WireInv
  <2>2. \A i \in 1..Len(V) : V[i].kind \in {"created", "call", "done"} => V[i].r \in 1..p2.made
    BY <1>1, <1>2, <1>4, <2>1 DEF OrderInv, ActiveInv, Pushes, n
  <2>3. ASSUME NEW i \in 1..Len(V), V[i].kind \in {"call", "done"}
        PROVE  V[i].r \in g.responding \/ \E j \in 1..(i - 1) : IsCreated(V[j], V[i].r)
    <3>1. CASE i <= n
      <4>1. W[i].r \in g.responding \/ \E j \in 1..(i - 1) : IsCreated(W[j], W[i].r)
        BY <1>1, <2>1, <2>3, <3>1 DEF OrderInv, n
      <4> QED BY <1>1, <3>1, <4>1
    <3>2. CASE i = n + 1
      <4>1. p.active \in g.responding \/ \E j \in 1..n : IsCreated(W[j], p.active)
        BY <1>1, <2>1, <2>3, <3>2 DEF ActiveInv, Pushes, n
      <4> QED BY <1>1, <2>3, <3>2, <4>1 DEF Pushes
    <3> QED BY <1>1, <3>1, <3>2
  <2>4. ASSUME NEW i \in 1..Len(V), NEW j \in 1..Len(V), i < j, V[i].kind = "done" PROVE V[j].r # V[i].r
    <3>1. i <= n /\ W[i].kind = "done" /\ W[i].r \in 1..p.made
      BY <1>1, <2>1, <2>4 DEF OrderInv, n
    <3>2. CASE j <= n
      BY <1>1, <2>1, <2>4, <3>1, <3>2 DEF OrderInv, n
    <3>3. CASE j = n + 1
      <4>1. p.active # 0 => W[i].r # p.active
        BY <2>1, <3>1 DEF ActiveInv, n
      <4> QED BY <1>1, <1>2, <3>1, <3>3, <4>1 DEF Pushes
    <3> QED BY <1>1, <3>2, <3>3
  <2>5. \A i \in 1..Len(V) : V[i].kind \notin {"call", "done"} => V[i].calls = {}
    BY <1>1, <2>1 DEF OrderInv, Pushes, n
  <2> QED BY <2>2, <2>3, <2>4, <2>5 DEF OrderInv
<1>7. ActiveInv(V, p2, g)
  <2>1. OrderInv(W, p, g) /\ ActiveInv(W, p, g)
    BY DEF WireInv
  <2>2. p2.active <= p2.made
    BY <1>2, <2>1 DEF ActiveInv, Pushes
  <2>3. ASSUME p2.active # 0
        PROVE  p2.active \in g.responding \/ \E j \in 1..Len(V) : IsCreated(V[j], p2.active)
    <3>1. CASE e.kind = "created"
      BY <1>1, <3>1 DEF Pushes, IsCreated
    <3>2. CASE e.kind # "created"
      <4>1. p2.active = p.active
        BY <2>3, <3>2 DEF Pushes
      <4>2. p.active \in g.responding \/ \E j \in 1..n : IsCreated(W[j], p.active)
        BY <2>1, <2>3, <4>1 DEF ActiveInv, n
      <4> QED BY <1>1, <4>1, <4>2
    <3> QED BY <3>1, <3>2
  <2>4. ASSUME p2.active # 0, NEW i \in 1..Len(V), V[i].kind = "done" PROVE V[i].r # p2.active
    <3>1. i <= n /\ W[i].kind = "done" /\ W[i].r \in 1..p.made
      BY <1>1, <2>1, <2>4 DEF OrderInv, Pushes, n
    <3> QED BY <1>1, <1>2, <2>1, <2>4, <3>1 DEF ActiveInv, Pushes, n
  <2> QED BY <2>2, <2>3, <2>4 DEF ActiveInv
<1>8. NewInv(V, g)
  <2> SUFFICES ASSUME NEW i \in 1..Len(V), V[i].kind = "created"
               PROVE  /\ V[i].r \notin g.responding
                      /\ \A c \in g.calls : c.r # V[i].r
                      /\ \A j \in 1..Len(V) : IsCreated(V[j], V[i].r) => j = i
    BY DEF NewInv
  <2>1. OrderInv(W, p, g) /\ NewInv(W, g)
    BY DEF WireInv
  <2>2. \A j \in 1..n : W[j].kind = "created" => W[j].r \in 1..p.made
    BY <2>1 DEF OrderInv, n
  <2>3. CASE i <= n
    <3>1. i \in 1..Len(W) /\ V[i] = W[i] /\ W[i].r \in 1..p.made
      BY <1>1, <2>2, <2>3 DEF n
    <3>2. /\ W[i].r \notin g.responding
          /\ \A c \in g.calls : c.r # W[i].r
          /\ \A j \in 1..n : IsCreated(W[j], W[i].r) => j = i
      BY <2>1, <3>1 DEF NewInv, n
    <3>3. ~IsCreated(V[n + 1], W[i].r)
      BY <1>1, <1>2, <3>1 DEF IsCreated, Pushes
    <3>4. ASSUME NEW j \in 1..Len(V), IsCreated(V[j], W[i].r) PROVE j = i
      <4>1. j \in 1..n /\ V[j] = W[j]
        BY <1>1, <3>3, <3>4
      <4> QED BY <3>2, <3>4, <4>1
    <3> QED BY <3>1, <3>2, <3>4
  <2>4. CASE i = n + 1
    <3>1. V[i] = e /\ e.r = p.made + 1
      BY <1>1, <2>4 DEF Pushes
    <3>2. e.r \notin g.responding /\ \A c \in g.calls : c.r # e.r
      BY <1>2, <3>1 DEF TurnsInv
    <3>3. \A j \in 1..n : V[j].kind = "created" => V[j].r # e.r
      BY <1>1, <1>2, <2>2, <3>1
    <3>4. ASSUME NEW j \in 1..Len(V), IsCreated(V[j], e.r) PROVE j = i
      BY <1>1, <2>4, <3>3, <3>4 DEF IsCreated
    <3> QED BY <3>1, <3>2, <3>4
  <2> QED BY <1>1, <2>3, <2>4
<1> QED BY <1>5, <1>6, <1>7, <1>8 DEF WireInv, V

\* The gateway does what an event says: g2 is what it has become.
Pops(e, g, g2) ==
  /\ g2.turn = (IF e.kind = "speechStopped" THEN g.turn + 1 ELSE g.turn)
  /\ g2.responding = (IF e.kind = "created" THEN g.responding \cup {e.r}
                      ELSE IF e.kind = "done" THEN g.responding \ {e.r} ELSE g.responding)
  /\ \A c \in g2.calls : (\E d \in g.calls : d.r = c.r) \/ (e.kind \in {"call", "done"} /\ c.r = e.r)

\* Taking an event from the wire.
LEMMA PopKeeps ==
  ASSUME NEW W \in Seq(Events), W # <<>>, NEW p \in Providers, NEW g \in Gateways, NEW g2 \in Gateways,
         Pops(Head(W), g, g2), WireInv(W, p, g)
  PROVE  WireInv(Tail(W), p, g2)
<1> DEFINE V == Tail(W)
           n == Len(W) - 1
           e == Head(W)
<1>1. /\ V \in Seq(Events) /\ Len(V) = n /\ n \in Nat /\ Len(W) = n + 1
      /\ \A i \in 1..n : V[i] = W[i + 1]
      /\ W[1] = e
  BY TailFacts
<1>2. g.turn \in Nat
  BY DEF Gateways
<1>3. Pops(e, g, g2)
  OBVIOUS
<1>4. OrderInv(W, p, g) /\ ActiveInv(W, p, g) /\ NewInv(W, g)
  BY DEF WireInv
<1> HIDE DEF V, n, e
<1>5. ClockInv(V, p, g2)
  <2>1. PICK f : Counts(f, W, p, g)
    BY DEF WireInv, ClockInv
  <2> DEFINE h == [i \in 0..n |-> f[i + 1]]
  <2>2. h \in [0..Len(V) -> Nat]
    BY <1>1, <2>1 DEF Counts
  <2>3. h[0] = g2.turn /\ h[Len(V)] = p.turns
    BY <1>1, <1>2, <1>3, <2>1 DEF Counts, Pops
  <2>4. \A i \in 1..Len(V) : h[i] = IF V[i].kind = "speechStopped" THEN h[i - 1] + 1 ELSE h[i - 1]
    <3> SUFFICES ASSUME NEW i \in 1..n
                 PROVE  h[i] = IF V[i].kind = "speechStopped" THEN h[i - 1] + 1 ELSE h[i - 1]
      BY <1>1
    <3>1. i + 1 \in 1..Len(W) /\ (i + 1) - 1 = i
      BY <1>1
    <3>2. f[i + 1] = IF W[i + 1].kind = "speechStopped" THEN f[(i + 1) - 1] + 1 ELSE f[(i + 1) - 1]
      BY <2>1, <3>1 DEF Counts
    <3>3. h[i] = f[i + 1] /\ h[i - 1] = f[i]
      BY <1>1
    <3> QED BY <1>1, <3>1, <3>2, <3>3
  <2>5. \A i \in 1..Len(V) : V[i].kind = "created" => p.turnAt[V[i].r] = h[i]
    BY <1>1, <2>1 DEF Counts
  <2> HIDE DEF h
  <2> QED BY <2>2, <2>3, <2>4, <2>5 DEF ClockInv, Counts
<1>6. OrderInv(V, p, g2)
  <2>1. \A i \in 1..Len(V) : V[i].kind \in {"created", "call", "done"} => V[i].r \in 1..p.made
    BY <1>1, <1>4 DEF OrderInv
  <2>2. ASSUME NEW i \in 1..Len(V), V[i].kind \in {"call", "done"}
        PROVE  V[i].r \in g2.responding \/ \E j \in 1..(i - 1) : IsCreated(V[j], V[i].r)
    <3>1. i + 1 \in 1..Len(W) /\ V[i] = W[i + 1] /\ 1 < i + 1
      BY <1>1
    <3>2. W[i + 1].r \in g.responding \/ \E j \in 1..((i + 1) - 1) : IsCreated(W[j], W[i + 1].r)
      BY <1>4, <2>2, <3>1 DEF OrderInv
    <3>3. e.kind = "done" => V[i].r # e.r
      BY <1>1, <1>4, <3>1 DEF OrderInv
    <3>4. CASE W[i + 1].r \in g.responding
      BY <1>3, <3>1, <3>3, <3>4 DEF Pops
    <3>5. CASE \E j \in 1..((i + 1) - 1) : IsCreated(W[j], W[i + 1].r)
      <4>1. PICK j \in 1..i : IsCreated(W[j], V[i].r)
        BY <1>1, <3>1, <3>5
      <4>2. CASE j = 1
        BY <1>1, <1>3, <4>1, <4>2 DEF IsCreated, Pops
      <4>3. CASE j > 1
        <5>1. j - 1 \in 1..(i - 1) /\ V[j - 1] = W[j]
          BY <1>1, <4>3
        <5> QED BY <4>1, <5>1
      <4> QED BY <4>2, <4>3
    <3> QED BY <3>2, <3>4, <3>5
  <2>3. ASSUME NEW i \in 1..Len(V), NEW j \in 1..Len(V), i < j, V[i].kind = "done" PROVE V[j].r # V[i].r
    <3>1. i + 1 \in 1..Len(W) /\ j + 1 \in 1..Len(W) /\ i + 1 < j + 1 /\ V[i] = W[i + 1] /\ V[j] = W[j + 1]
      BY <1>1, <2>3
    <3> QED BY <1>4, <2>3, <3>1 DEF OrderInv
  <2>4. \A i \in 1..Len(V) : V[i].kind \notin {"call", "done"} => V[i].calls = {}
    BY <1>1, <1>4 DEF OrderInv
  <2> QED BY <2>1, <2>2, <2>3, <2>4 DEF OrderInv
<1>7. ActiveInv(V, p, g2)
  <2>1. p.active <= p.made
    BY <1>4 DEF ActiveInv
  <2>2. ASSUME p.active # 0
        PROVE  p.active \in g2.responding \/ \E j \in 1..Len(V) : IsCreated(V[j], p.active)
    <3>1. p.active \in g.responding \/ \E j \in 1..Len(W) : IsCreated(W[j], p.active)
      BY <1>4, <2>2 DEF ActiveInv
    <3>2. CASE p.active \in g.responding
      <4>1. e.kind = "done" => e.r # p.active
        BY <1>1, <1>4, <2>2 DEF ActiveInv
      <4> QED BY <1>3, <3>2, <4>1 DEF Pops
    <3>3. CASE \E j \in 1..Len(W) : IsCreated(W[j], p.active)
      <4>1. PICK j \in 1..Len(W) : IsCreated(W[j], p.active)
        BY <3>3
      <4>2. CASE j = 1
        BY <1>1, <1>3, <4>1, <4>2 DEF IsCreated, Pops
      <4>3. CASE j > 1
        <5>1. j - 1 \in 1..Len(V) /\ V[j - 1] = W[j]
          BY <1>1, <4>3
        <5> QED BY <4>1, <5>1
      <4> QED BY <4>2, <4>3
    <3> QED BY <3>1, <3>2, <3>3
  <2>3. ASSUME p.active # 0, NEW i \in 1..Len(V), V[i].kind = "done" PROVE V[i].r # p.active
    BY <1>1, <1>4, <2>3 DEF ActiveInv
  <2> QED BY <2>1, <2>2, <2>3 DEF ActiveInv
<1>8. NewInv(V, g2)
  <2> SUFFICES ASSUME NEW i \in 1..Len(V), V[i].kind = "created"
               PROVE  /\ V[i].r \notin g2.responding
                      /\ \A c \in g2.calls : c.r # V[i].r
                      /\ \A j \in 1..Len(V) : IsCreated(V[j], V[i].r) => j = i
    BY DEF NewInv
  <2>1. i + 1 \in 1..Len(W) /\ V[i] = W[i + 1] /\ i + 1 # 1
    BY <1>1
  <2>2. /\ V[i].r \notin g.responding
        /\ \A c \in g.calls : c.r # V[i].r
        /\ \A j \in 1..Len(W) : IsCreated(W[j], V[i].r) => j = i + 1
    BY <1>4, <2>1 DEF NewInv
  <2>3. e.kind = "created" => e.r # V[i].r
    BY <1>1, <2>1, <2>2 DEF IsCreated
  <2>4. e.kind \in {"call", "done"} => e.r \in g.responding
    BY <1>1, <1>4 DEF OrderInv
  <2>5. V[i].r \notin g2.responding
    BY <1>3, <2>2, <2>3 DEF Pops
  <2>6. \A c \in g2.calls : c.r # V[i].r
    BY <1>3, <2>2, <2>4 DEF Pops
  <2>7. ASSUME NEW j \in 1..Len(V), IsCreated(V[j], V[i].r) PROVE j = i
    <3>1. j + 1 \in 1..Len(W) /\ V[j] = W[j + 1]
      BY <1>1
    <3>2. j + 1 = i + 1
      BY <2>2, <2>7, <3>1
    <3> QED BY <3>2
  <2> QED BY <2>5, <2>6, <2>7
<1> QED BY <1>5, <1>6, <1>7, <1>8 DEF WireInv, V

-----------------------------------------------------------------------------
(* What the gateway sends.                                                   *)

SentNow(qs, turn, s) == [q \in Questions |-> IF q \in qs THEN turn ELSE s[q]]

ToSpeak(g) == g.unspoken.acks \cup g.afterRequest.acks

\* The null turn is no turn.
LEMMA NoTurnFacts == NoTurn \notin Nat
BY BoundsAssumption

\* An acknowledgement is of a question and has a turn.
LEMMA AckFacts ==
  ASSUME NEW a \in Acks, NEW i \in 1..Len(a)
  PROVE  a[i].q \in Questions /\ a[i].turn \in Nat
<1>1. a[i] \in [q : Questions, turn : Nat]
  <2> DEFINE A == [q : Questions, turn : Nat]
  <2>1. a \in Seq(A)
    BY DEF Acks
  <2> HIDE DEF A
  <2>2. a[i] \in A
    BY <2>1
  <2> QED BY <2>2 DEF A
<1> QED BY <1>1

\* A gateway that gives up calls and keeps turns and responses sees the same
\* events coming.
LEMMA QuietKeeps ==
  ASSUME NEW W, NEW p, NEW g, NEW g2, WireInv(W, p, g), g2.turn = g.turn, g2.responding = g.responding,
         \A c \in g2.calls : \E d \in g.calls : d.r = c.r
  PROVE  WireInv(W, p, g2)
<1>1. ClockInv(W, p, g2)
  BY DEF WireInv, ClockInv, Counts
<1>2. OrderInv(W, p, g2) /\ ActiveInv(W, p, g2)
  BY DEF WireInv, OrderInv, ActiveInv
<1>3. NewInv(W, g2)
  BY DEF WireInv, NewInv
<1> QED BY <1>1, <1>2, <1>3 DEF WireInv

\* Sending questions that were not sent before and that no call asks any more.
LEMMA SendKeeps ==
  ASSUME NEW W, NEW p, NEW g, NEW g2, NEW s \in SentTurns, NEW a \in Acks, NEW n, NEW k \in Confirmations,
         NEW qs \in SUBSET Questions,
         Consistent(W, p, g, s, a, n, k), GatewayType(g2),
         g2.turn = g.turn, g2.responding = g.responding, g2.turnOf = g.turnOf, g2.calls \subseteq g.calls,
         ToSpeak(g2) \subseteq ToSpeak(g) \cup qs,
         \A q \in qs : s[q] = NoTurn /\ (q \in ToolQuestions => q \in p.asked) /\ \A r \in Nat : ~Asks(q, r, W, p, g2)
  PROVE  Consistent(W, p, g2, SentNow(qs, g.turn, s), a, n, k)
<1> DEFINE s2 == SentNow(qs, g.turn, s)
<1>1. /\ GatewayType(g) /\ WireInv(W, p, g) /\ TurnsInv(p, g) /\ SentInv(g, s, a, k)
      /\ OnceInv(W, p, g, s) /\ UnaskedInv(p, s) /\ AckInv(g, a, n) /\ ByInv(p, k)
  BY DEF Consistent
<1>2. g.turn \in Nat
  BY <1>1 DEF GatewayType, Gateways
<1>3. \A q \in Questions : s2[q] = IF q \in qs THEN g.turn ELSE s[q]
  BY DEF SentNow
<1>4. \A q \in qs : SentBy(q, g.turn, s2)
  BY <1>2, <1>3, NoTurnFacts DEF SentBy
<1>5. \A q \in Questions, t \in Nat : SentBy(q, t, s) => SentBy(q, t, s2)
  BY <1>3 DEF SentBy
<1> HIDE DEF s2
<1>6. SentInv(g2, s2, a, k)
  <2>1. \A q \in ToSpeak(g2) : SentBy(q, g2.turn, s2)
    <3> SUFFICES ASSUME NEW q \in ToSpeak(g2), q \notin qs PROVE SentBy(q, g.turn, s2)
      BY <1>4
    <3>1. q \in ToSpeak(g) /\ q \in Questions
      BY <1>1 DEF ToSpeak, GatewayType, Gateways, Deliveries
    <3> QED BY <1>1, <1>2, <1>5, <3>1 DEF SentInv, ToSpeak
  <2>2. \A i \in 1..Len(a) : a[i].q \in Questions /\ a[i].turn \in Nat
    BY AckFacts
  <2>3. \A i \in 1..Len(a) : SentBy(a[i].q, a[i].turn, s2)
    BY <1>1, <1>5, <2>2 DEF SentInv
  <2>4. \A q \in Questions : k[q].asked \in Nat \cup {NoTurn}
    BY DEF Confirmations
  <2>5. \A q \in Questions : k[q].asked # NoTurn => SentBy(q, k[q].asked, s2)
    BY <1>1, <1>5, <2>4 DEF SentInv
  <2> QED BY <2>1, <2>3, <2>5 DEF SentInv, ToSpeak
<1>7. OnceInv(W, p, g2, s2)
  <2>1. \A q, r : Asks(q, r, W, p, g2) => Asks(q, r, W, p, g)
    BY DEF Asks
  <2> SUFFICES ASSUME NEW q \in Questions, NEW r \in Nat, Asks(q, r, W, p, g2)
               PROVE  /\ q \in ToolQuestions /\ q \in p.asked /\ s2[q] = NoTurn
                      /\ \A t \in Nat : Asks(q, t, W, p, g2) => t = r
    BY DEF OnceInv
  <2>2. /\ q \in ToolQuestions /\ q \in p.asked /\ s[q] = NoTurn
        /\ \A t \in Nat : Asks(q, t, W, p, g) => t = r
    BY <1>1, <2>1 DEF OnceInv
  <2> QED BY <1>3, <2>1, <2>2
<1>8. WireInv(W, p, g2)
  BY <1>1, QuietKeeps
<1>9. TurnsInv(p, g2)
  BY <1>1 DEF TurnsInv
<1>10. AckInv(g2, a, n)
  BY <1>1 DEF AckInv
<1>11. UnaskedInv(p, s2)
  BY <1>1, <1>3 DEF UnaskedInv, Questions
<1> QED BY <1>1, <1>6, <1>7, <1>8, <1>9, <1>10, <1>11 DEF Consistent, s2

\* The messages that SendAndRespond puts on the wire, and what it notes.
LEMMA SendFacts ==
  ASSUME NEW g \in Gateways, NEW items \in Seq(Messages), SendAndRespond(g, items),
         toProvider \in Seq(Messages), crossed \in SUBSET Questions, sent \in SentTurns,
         NEW qs, qs = {items[i].q : i \in DOMAIN items} \ {NoQuestion}
  PROVE  /\ gw' \in Gateways
         /\ gw'.turn = g.turn /\ gw'.responding = g.responding /\ gw'.turnOf = g.turnOf
         /\ gw'.calls = g.calls /\ gw'.unspoken = g.unspoken /\ gw'.afterRequest = g.afterRequest
         /\ qs \in SUBSET Questions
         /\ sent' = SentNow(qs, g.turn, sent) /\ sent' \in SentTurns
         /\ toProvider' \in Seq(Messages)
         /\ crossed' \in SUBSET Questions
<1>1. gw' = [g EXCEPT !.requested = g.requested \/ MayRespond(g)]
  BY DEF SendAndRespond
<1>2. (g.requested \/ MayRespond(g)) \in BOOLEAN
  OBVIOUS
<1>3. /\ gw' \in Gateways
      /\ gw'.turn = g.turn /\ gw'.responding = g.responding /\ gw'.turnOf = g.turnOf
      /\ gw'.calls = g.calls /\ gw'.unspoken = g.unspoken /\ gw'.afterRequest = g.afterRequest
  BY <1>1, <1>2 DEF Gateways
<1>4. qs \in SUBSET Questions
  <2>1. \A i \in DOMAIN items : items[i] \in Messages
    OBVIOUS
  <2> QED BY <2>1 DEF Messages
<1>5. sent' = SentNow(qs, g.turn, sent)
  <2>1. sent' = [q \in Questions |-> IF q \in {items[i].q : i \in DOMAIN items} \ {NoQuestion} THEN g.turn ELSE sent[q]]
    BY Zenon DEF SendAndRespond
  <2> QED BY <2>1, Zenon DEF SentNow
<1>6. g.turn \in Nat
  BY DEF Gateways
<1>7. sent' \in SentTurns
  BY <1>5, <1>6 DEF SentNow, SentTurns
<1>8. Create \in Messages
  BY DEF Create, Messages
<1>9. (IF MayRespond(g) THEN <<Create>> ELSE <<>>) \in Seq(Messages)
  BY <1>8
<1>10. toProvider' \in Seq(Messages)
  BY <1>9 DEF SendAndRespond
<1>11. crossed' \in SUBSET Questions
  BY <1>4 DEF SendAndRespond
<1> QED BY <1>3, <1>4, <1>5, <1>7, <1>10, <1>11

\* What was put into the conversation is spoken by this response or the next.
LEMMA AddedFacts ==
  ASSUME NEW g, GatewayType(g), NEW qs \in SUBSET Questions, IsFiniteSet(qs)
  PROVE  LET h == added(g, qs) IN
         /\ GatewayType(h) /\ ToSpeak(h) = ToSpeak(g) \cup qs
         /\ h.turn = g.turn /\ h.responding = g.responding /\ h.turnOf = g.turnOf /\ h.calls = g.calls
<1> DEFINE new == [want |-> TRUE, acks |-> qs]
           h == added(g, qs)
<1>1. g \in Gateways /\ IsFiniteSet(g.calls) /\ IsFiniteSet(g.unspoken.acks) /\ IsFiniteSet(g.afterRequest.acks)
  BY DEF GatewayType
<1>2. g.unspoken \in Deliveries /\ g.afterRequest \in Deliveries
  BY <1>1 DEF Gateways
<1>3. /\ add(g.unspoken, new) \in Deliveries
      /\ add(g.unspoken, new).acks = g.unspoken.acks \cup qs
      /\ add(g.afterRequest, new) \in Deliveries
      /\ add(g.afterRequest, new).acks = g.afterRequest.acks \cup qs
  BY <1>2 DEF add, Deliveries
<1>4. IsFiniteSet(g.unspoken.acks \cup qs) /\ IsFiniteSet(g.afterRequest.acks \cup qs)
  BY <1>1, FS_Union
<1>5. CASE g.requested
  <2>1. h = [g EXCEPT !.afterRequest = add(g.afterRequest, new)]
    BY <1>5 DEF added
  <2> HIDE DEF new, h
  <2>2. /\ h \in Gateways /\ h.unspoken = g.unspoken /\ h.afterRequest = add(g.afterRequest, new)
        /\ h.turn = g.turn /\ h.responding = g.responding /\ h.turnOf = g.turnOf /\ h.calls = g.calls
    BY <1>1, <1>3, <2>1 DEF Gateways
  <2>3. GatewayType(h)
    BY <1>1, <1>3, <1>4, <2>2 DEF GatewayType
  <2>4. ToSpeak(h) = ToSpeak(g) \cup qs
    BY <1>3, <2>2 DEF ToSpeak
  <2> QED BY <2>2, <2>3, <2>4 DEF h
<1>6. CASE ~g.requested
  <2>1. h = [g EXCEPT !.unspoken = add(g.unspoken, new)]
    BY <1>6 DEF added
  <2> HIDE DEF new, h
  <2>2. /\ h \in Gateways /\ h.afterRequest = g.afterRequest /\ h.unspoken = add(g.unspoken, new)
        /\ h.turn = g.turn /\ h.responding = g.responding /\ h.turnOf = g.turnOf /\ h.calls = g.calls
    BY <1>1, <1>3, <2>1 DEF Gateways
  <2>3. GatewayType(h)
    BY <1>1, <1>3, <1>4, <2>2 DEF GatewayType
  <2>4. ToSpeak(h) = ToSpeak(g) \cup qs
    BY <1>3, <2>2 DEF ToSpeak
  <2> QED BY <2>2, <2>3, <2>4 DEF h
<1> QED BY <1>5, <1>6

\* The image of a finite set of calls under its field q.
LEMMA QuestionsFinite ==
  ASSUME NEW S, IsFiniteSet(S)
  PROVE  IsFiniteSet({c.q : c \in S})
<1> DEFINE T == {c.q : c \in S}
           f == [c \in S |-> c.q]
<1>1. f \in Surjection(S, T)
  BY DEF Surjection
<1> HIDE DEF f, T
<1>2. IsFiniteSet(T)
  BY <1>1, FS_Surjection
<1> QED BY <1>2 DEF T

\* deliver sends the outputs of responses that are over: the questions among
\* them are sent now and by nobody else.
LEMMA DeliverKeeps ==
  ASSUME NEW W \in Seq(Events), NEW g, provider \in Providers, StoreType, toProvider \in Seq(Messages),
         Consistent(W, provider, g, sent, acks, stored, conf), deliver(g)
  PROVE  /\ Consistent(W, provider, gw', sent', acks, stored, conf)
         /\ toProvider' \in Seq(Messages) /\ sent' \in SentTurns /\ crossed' \in SUBSET Questions
<1> DEFINE ready == {c \in g.calls : /\ c.r \notin g.responding
                                     /\ \A d \in g.calls : d.r = c.r => d.at = "held"}
           asking == {d \in ready : d.asks}
           qs == {c.q : c \in asking}
           outputs == [i \in 1..Cardinality(ready) |->
                         Item(IF SetToSeq(ready)[i].asks THEN SetToSeq(ready)[i].q ELSE NoQuestion)]
           g1 == [g EXCEPT !.calls = g.calls \ ready]
           g3 == IF ready = {} THEN g1 ELSE added(g1, qs)
<1>1. SendAndRespond(g3, outputs)
  BY DEF deliver
<1>2. /\ GatewayType(g) /\ WireInv(W, provider, g) /\ TurnsInv(provider, g)
      /\ OnceInv(W, provider, g, sent)
  BY DEF Consistent
<1>3. g \in Gateways /\ IsFiniteSet(g.calls)
  BY <1>2 DEF GatewayType
<1>4. ready \subseteq g.calls /\ IsFiniteSet(ready)
  <2>1. ready \in SUBSET g.calls
    OBVIOUS
  <2> QED BY <1>3, <2>1, FS_Subset
<1>5. \A c \in g.calls : c \in Runs
  BY <1>3 DEF Gateways
<1>6. qs \in SUBSET Questions
  BY <1>4, <1>5 DEF Runs
<1>7. IsFiniteSet(qs)
  <2>1. asking \in SUBSET ready
    OBVIOUS
  <2>2. IsFiniteSet(asking)
    BY <1>4, <2>1, FS_Subset
  <2> QED BY <2>2, QuestionsFinite
<1>8. /\ Cardinality(ready) \in Nat
      /\ SetToSeq(ready) \in [1..Cardinality(ready) -> ready]
      /\ \A x \in ready : \E i \in 1..Cardinality(ready) : SetToSeq(ready)[i] = x
  BY <1>4, SetToSeqFacts
<1>9. \A i \in 1..Cardinality(ready) : SetToSeq(ready)[i] \in ready
  BY <1>8
<1>10. outputs \in Seq(Messages)
  <2>1. \A c \in ready : Item(IF c.asks THEN c.q ELSE NoQuestion) \in Messages
    BY <1>4, <1>5 DEF Item, Messages, Runs
  <2> HIDE DEF ready
  <2>2. \A i \in 1..Cardinality(ready) : outputs[i] \in Messages
    BY <1>9, <2>1
  <2> QED BY <1>8, <2>2
<1>11. qs = {outputs[i].q : i \in DOMAIN outputs} \ {NoQuestion}
  <2>1. NoQuestion \notin Questions
    BY QuestionsAssumption
  <2>2. ASSUME NEW q \in qs PROVE q \in {outputs[i].q : i \in DOMAIN outputs} \ {NoQuestion}
    <3>1. PICK c \in ready : c.asks /\ c.q = q
      OBVIOUS
    <3>2. PICK i \in 1..Cardinality(ready) : SetToSeq(ready)[i] = c
      BY <1>8
    <3> HIDE DEF ready
    <3>3. outputs[i].q = q /\ i \in DOMAIN outputs
      BY <3>1, <3>2 DEF Item
    <3> HIDE DEF outputs
    <3> QED BY <1>6, <2>1, <3>3
  <2>3. ASSUME NEW q \in {outputs[i].q : i \in DOMAIN outputs} \ {NoQuestion} PROVE q \in qs
    <3>1. PICK i \in 1..Cardinality(ready) : outputs[i].q = q /\ q # NoQuestion
      OBVIOUS
    <3>2. SetToSeq(ready)[i] \in ready
      BY <1>9
    <3> HIDE DEF ready
    <3>3. SetToSeq(ready)[i].asks /\ SetToSeq(ready)[i].q = q
      BY <3>1 DEF Item
    <3> QED BY <3>2, <3>3
  <2> HIDE DEF qs, outputs
  <2> QED BY <2>2, <2>3
<1>12. /\ GatewayType(g1) /\ ToSpeak(g1) = ToSpeak(g) /\ g1.calls = g.calls \ ready
       /\ g1.turn = g.turn /\ g1.responding = g.responding /\ g1.turnOf = g.turnOf
  <2> HIDE DEF ready
  <2>1. /\ g1 \in Gateways /\ g1.calls = g.calls \ ready /\ g1.unspoken = g.unspoken
        /\ g1.afterRequest = g.afterRequest
        /\ g1.turn = g.turn /\ g1.responding = g.responding /\ g1.turnOf = g.turnOf
    BY <1>3 DEF Gateways
  <2>2. IsFiniteSet(g.calls \ ready)
    <3>1. g.calls \ ready \in SUBSET g.calls
      OBVIOUS
    <3> QED BY <1>3, <3>1, FS_Subset
  <2> HIDE DEF g1
  <2> QED BY <1>2, <2>1, <2>2 DEF GatewayType, ToSpeak
<1>13. /\ GatewayType(g3) /\ ToSpeak(g3) = ToSpeak(g) \cup qs /\ g3.calls = g.calls \ ready
       /\ g3.turn = g.turn /\ g3.responding = g.responding /\ g3.turnOf = g.turnOf
  <2>1. CASE ready = {}
    <3>1. qs = {}
      BY <2>1
    <3> HIDE DEF ready, qs, g1
    <3> QED BY <1>12, <2>1, <3>1
  <2>2. CASE ready # {}
    <3> HIDE DEF ready, qs, g1
    <3> QED BY <1>6, <1>7, <1>12, <2>2, AddedFacts
  <2> QED BY <2>1, <2>2
<1> HIDE DEF g3, outputs, g1
<1>14. /\ gw' \in Gateways
       /\ gw'.turn = g.turn /\ gw'.responding = g.responding /\ gw'.turnOf = g.turnOf
       /\ gw'.calls = g.calls \ ready /\ gw'.unspoken = g3.unspoken /\ gw'.afterRequest = g3.afterRequest
       /\ sent' = SentNow(qs, g.turn, sent) /\ sent' \in SentTurns
       /\ toProvider' \in Seq(Messages)
       /\ crossed' \in SUBSET Questions
  <2>1. g3 \in Gateways /\ crossed \in SUBSET Questions /\ sent \in SentTurns
    BY <1>13 DEF GatewayType, StoreType
  <2> HIDE DEF qs, ready
  <2> QED BY <1>1, <1>10, <1>11, <1>13, <2>1, SendFacts
<1>15. GatewayType(gw') /\ ToSpeak(gw') = ToSpeak(g) \cup qs
  <2> HIDE DEF qs, ready
  <2> QED BY <1>13, <1>14 DEF GatewayType, ToSpeak
<1>16. ASSUME NEW q \in qs
       PROVE  /\ sent[q] = NoTurn /\ (q \in ToolQuestions => q \in provider.asked)
              /\ \A r \in Nat : ~Asks(q, r, W, provider, gw')
  <2>1. PICK c \in ready : c.asks /\ c.q = q
    OBVIOUS
  <2>2. c \in g.calls /\ c.kind = "ask" /\ c.r \in Nat /\ q \in Questions
    BY <1>2, <1>5, <1>6, <2>1 DEF TurnsInv, Runs
  <2>3. Asks(q, c.r, W, provider, g)
    BY <2>1, <2>2 DEF Asks
  <2>4. sent[q] = NoTurn /\ q \in provider.asked /\ \A t \in Nat : Asks(q, t, W, provider, g) => t = c.r
    BY <1>2, <2>2, <2>3 DEF OnceInv
  <2>5. \A d \in g.calls : d.r = c.r => d \in ready
    BY <2>1
  <2>6. c.r \notin g.responding
    BY <2>1
  <2> HIDE DEF ready, qs
  <2>7. \A j \in 1..Len(W) : ~IsCreated(W[j], c.r)
    BY <1>2, <2>2 DEF WireInv, NewInv, IsCreated
  <2>8. \A i \in 1..Len(W) : W[i].r = c.r => W[i].calls = {}
    <3> SUFFICES ASSUME NEW i \in 1..Len(W), W[i].r = c.r, W[i].kind \in {"call", "done"} PROVE FALSE
      BY <1>2 DEF WireInv, OrderInv
    <3>1. W[i].r \in g.responding \/ \E j \in 1..(i - 1) : IsCreated(W[j], W[i].r)
      BY <1>2 DEF WireInv, OrderInv
    <3>2. PICK j \in 1..(i - 1) : IsCreated(W[j], c.r)
      BY <2>6, <3>1
    <3> QED BY <2>7, <3>2
  <2>9. provider.active # c.r \/ c.r = 0
    BY <1>2, <2>6, <2>7 DEF WireInv, ActiveInv
  <2>10. ASSUME NEW r \in Nat, Asks(q, r, W, provider, gw') PROVE FALSE
    <3>1. Asks(q, r, W, provider, g)
      BY <1>14, <2>10 DEF Asks
    <3>2. r = c.r
      BY <2>4, <3>1
    <3> QED BY <1>14, <2>5, <2>8, <2>9, <2>10, <3>2 DEF Asks
  <2> QED BY <2>4, <2>10
<1>17. Consistent(W, provider, gw', sent', acks, stored, conf)
  <2>1. sent \in SentTurns /\ acks \in Acks /\ conf \in Confirmations
    BY DEF StoreType
  <2>2. gw'.calls \subseteq g.calls /\ ToSpeak(gw') \subseteq ToSpeak(g) \cup qs
    BY <1>14, <1>15
  <2> HIDE DEF qs, ready
  <2> QED BY <1>6, <1>14, <1>15, <1>16, <2>1, <2>2, SendKeeps
<1> QED BY <1>14, <1>17

-----------------------------------------------------------------------------
(* Calls that the gateway starts.                                            *)

\* A started call carries the turn of its response and the number of the
\* acknowledgements before it.
LEMMA StartedFacts ==
  ASSUME GatewayType(gw), acks \in Acks, stored \in Nat,
         NEW r \in gw.responding, NEW cs \in SUBSET Calls, IsFiniteSet(cs)
  PROVE  LET g == Started(gw, r, cs) IN
         /\ GatewayType(g) /\ gw.calls \subseteq g.calls
         /\ g.turn = gw.turn /\ g.responding = gw.responding /\ g.turnOf = gw.turnOf
         /\ g.unspoken = gw.unspoken /\ g.afterRequest = gw.afterRequest
         /\ \A d \in g.calls \ gw.calls :
              /\ d.r = r /\ d.turn = gw.turnOf[r] /\ d.barrier = stored + Len(acks) /\ ~d.asks
              /\ d.kind = "ask" => Ask(d.q) \in cs
<1> DEFINE g == Started(gw, r, cs)
           new == {c \in cs : ~\E d \in gw.calls : d.r = r /\ d.kind = c.kind /\ d.q = c.q}
           running == Cardinality({d \in gw.calls : d.at # "held"})
           free == IF running >= MaxCallsInFlight THEN 0 ELSE MaxCallsInFlight - running
           order == SetToSeq(new)
           turn == gw.turnOf[r]
           barrier == stored + Len(acks)
           At(i) == IF i <= free THEN "run" ELSE "held"
           started == {Call(order[i], r, turn, barrier, At(i)) : i \in DOMAIN order}
<1>1. gw \in Gateways /\ IsFiniteSet(gw.calls)
  BY DEF GatewayType
<1>2. g = [gw EXCEPT !.calls = gw.calls \cup started]
  <2>1. TurnOf(gw, r) = turn
    BY DEF TurnOf
  <2> QED BY <2>1 DEF Started, StartCalls
<1>3. new \in SUBSET cs /\ IsFiniteSet(new)
  <2>1. new \in SUBSET cs
    OBVIOUS
  <2> QED BY <2>1, FS_Subset
<1>4. /\ Cardinality(new) \in Nat
      /\ order \in [1..Cardinality(new) -> new]
  BY <1>3, SetToSeqFacts
<1>5. turn \in Nat /\ barrier \in Nat /\ r \in Nat
  <2>1. gw.responding \in SUBSET Responses /\ gw.turnOf \in [Responses -> Nat]
    BY <1>1 DEF Gateways
  <2>2. Len(acks) \in Nat
    BY DEF Acks
  <2>3. r \in Responses
    BY <2>1
  <2> QED BY <2>1, <2>2, <2>3, BoundsAssumption DEF Responses
<1> HIDE DEF new, order, turn, barrier, free
<1>6. \A i \in DOMAIN order : order[i] \in cs /\ order[i] \in Calls
  BY <1>3, <1>4
<1>7. started \in SUBSET Runs
  <2> SUFFICES ASSUME NEW i \in DOMAIN order PROVE Call(order[i], r, turn, barrier, At(i)) \in Runs
    OBVIOUS
  <2>1. At(i) \in {"run", "back", "held"}
    OBVIOUS
  <2>2. order[i].kind \in {"ask", "confirm", "cancel"} /\ order[i].q \in Questions
    BY <1>6 DEF Calls
  <2> HIDE DEF At
  <2> QED BY <1>5, <2>1, <2>2 DEF Call, Runs
<1>8. IsFiniteSet(started)
  <2> DEFINE f == [i \in DOMAIN order |-> Call(order[i], r, turn, barrier, At(i))]
  <2>1. DOMAIN order = 1..Cardinality(new)
    BY <1>4
  <2>2. IsFiniteSet(DOMAIN order)
    BY <1>4, <2>1, FS_Interval
  <2> HIDE DEF At
  <2>3. f \in Surjection(DOMAIN order, started)
    BY DEF Surjection
  <2> HIDE DEF f, started
  <2> QED BY <2>2, <2>3, FS_Surjection
<1>9. \A d \in started : /\ d.r = r /\ d.turn = turn /\ d.barrier = barrier /\ ~d.asks
                         /\ d.kind = "ask" => Ask(d.q) \in cs
  <2> SUFFICES ASSUME NEW i \in DOMAIN order
               PROVE  LET d == Call(order[i], r, turn, barrier, At(i)) IN
                      /\ d.r = r /\ d.turn = turn /\ d.barrier = barrier /\ ~d.asks
                      /\ d.kind = "ask" => Ask(d.q) \in cs
    OBVIOUS
  <2>1. order[i].kind = "ask" => order[i] = Ask(order[i].q)
    BY <1>6 DEF Calls, Ask
  <2> HIDE DEF At
  <2> QED BY <1>6, <2>1 DEF Call
<1> HIDE DEF started, g
<1>10. /\ g \in Gateways /\ g.calls = gw.calls \cup started
       /\ g.turn = gw.turn /\ g.responding = gw.responding /\ g.turnOf = gw.turnOf
       /\ g.unspoken = gw.unspoken /\ g.afterRequest = gw.afterRequest
  BY <1>1, <1>2, <1>7 DEF Gateways
<1>11. GatewayType(g)
  BY <1>1, <1>8, <1>10, FS_Union DEF GatewayType
<1> QED BY <1>9, <1>10, <1>11 DEF g, turn, barrier

\* The gateway h after a call was announced, or after its response ended.
LEMMA StartedKeeps ==
  ASSUME Inv, toGateway # <<>>, NEW h,
         Head(toGateway).kind \in {"call", "done"},
         GatewayType(h), gw.calls \subseteq h.calls,
         h.turn = gw.turn, h.turnOf = gw.turnOf,
         h.unspoken = gw.unspoken, h.afterRequest = gw.afterRequest,
         h.responding = IF Head(toGateway).kind = "done" THEN gw.responding \ {Head(toGateway).r}
                        ELSE gw.responding,
         \A d \in h.calls \ gw.calls :
           /\ d.r = Head(toGateway).r /\ d.turn = gw.turnOf[d.r] /\ d.barrier = stored + Len(acks) /\ ~d.asks
           /\ d.kind = "ask" => Ask(d.q) \in Head(toGateway).calls
  PROVE  Consistent(Tail(toGateway), provider, h, sent, acks, stored, conf)
<1> DEFINE W == toGateway
           e == Head(toGateway)
<1>1. W \in Seq(Events) /\ provider \in Providers /\ acks \in Acks /\ stored \in Nat
  BY DEF Inv, WireType, ProviderType, StoreType
<1>2. /\ GatewayType(gw) /\ WireInv(W, provider, gw) /\ TurnsInv(provider, gw)
      /\ SentInv(gw, sent, acks, conf) /\ OnceInv(W, provider, gw, sent)
      /\ UnaskedInv(provider, sent) /\ AckInv(gw, acks, stored) /\ ByInv(provider, conf)
  BY DEF Inv, Consistent
<1>3. W[1] = e /\ 1 \in 1..Len(W) /\ Tail(W) \in Seq(Events) /\ Len(Tail(W)) = Len(W) - 1
      /\ \A i \in 1..(Len(W) - 1) : Tail(W)[i] = W[i + 1]
  BY <1>1, TailFacts
<1>4. e.r \in gw.responding
  BY <1>2, <1>3 DEF WireInv, OrderInv
<1>5. WireInv(Tail(W), provider, h)
  <2>1. Pops(e, gw, h)
    BY DEF Pops
  <2> QED BY <1>1, <1>2, <2>1, PopKeeps DEF GatewayType
<1>6. TurnsInv(provider, h)
  <2>1. \A r \in h.responding :
          r \in 1..provider.made /\ h.turnOf[r] = provider.turnAt[r] /\ h.turnOf[r] <= h.turn
    BY <1>2 DEF TurnsInv
  <2>2. ASSUME NEW c \in h.calls
        PROVE  /\ c.r \in 1..provider.made /\ c.turn = provider.turnAt[c.r] /\ c.turn <= h.turn
               /\ c.asks => c.kind = "ask"
    <3>1. CASE c \in gw.calls
      BY <1>2, <3>1 DEF TurnsInv
    <3>2. CASE c \notin gw.calls
      BY <1>2, <1>4, <3>2 DEF TurnsInv
    <3> QED BY <3>1, <3>2
  <2> QED BY <2>1, <2>2 DEF TurnsInv
<1>7. SentInv(h, sent, acks, conf)
  BY <1>2 DEF SentInv
<1>8. OnceInv(Tail(W), provider, h, sent)
  <2>1. ASSUME NEW q, NEW r, Asks(q, r, Tail(W), provider, h) PROVE Asks(q, r, W, provider, gw)
    <3>1. CASE \E c \in h.calls : c.kind = "ask" /\ c.q = q /\ c.r = r
      <4>1. PICK c \in h.calls : c.kind = "ask" /\ c.q = q /\ c.r = r
        BY <3>1
      <4>2. CASE c \in gw.calls
        BY <4>1, <4>2 DEF Asks
      <4>3. CASE c \notin gw.calls
        <5>1. W[1].r = r /\ Ask(q) \in W[1].calls
          BY <1>3, <4>1, <4>3
        <5> QED BY <1>3, <5>1 DEF Asks
      <4> QED BY <4>2, <4>3
    <3>2. CASE \E i \in 1..Len(Tail(W)) : Tail(W)[i].r = r /\ Ask(q) \in Tail(W)[i].calls
      <4>1. PICK i \in 1..Len(Tail(W)) : Tail(W)[i].r = r /\ Ask(q) \in Tail(W)[i].calls
        BY <3>2
      <4>2. i + 1 \in 1..Len(W) /\ W[i + 1] = Tail(W)[i]
        BY <1>1, <1>3
      <4> QED BY <4>1, <4>2 DEF Asks
    <3>3. CASE provider.active = r /\ r # 0 /\ Ask(q) \in provider.calls
      BY <3>3 DEF Asks
    <3> QED BY <2>1, <3>1, <3>2, <3>3 DEF Asks
  <2> HIDE DEF W
  <2> QED BY <1>2, <2>1 DEF OnceInv
<1>9. AckInv(h, acks, stored)
  <2> SUFFICES ASSUME NEW c \in h.calls
               PROVE  /\ c.barrier <= stored + Len(acks)
                      /\ \A i \in 1..Len(acks) : stored + i > c.barrier => acks[i].turn >= c.turn
    BY DEF AckInv
  <2>1. CASE c \in gw.calls
    BY <1>2, <2>1 DEF AckInv
  <2>2. CASE c \notin gw.calls
    <3>1. Len(acks) \in Nat
      BY <1>1 DEF Acks
    <3> QED BY <1>1, <2>2, <3>1
  <2> QED BY <2>1, <2>2
<1> QED BY <1>2, <1>5, <1>6, <1>7, <1>8, <1>9 DEF Consistent

-----------------------------------------------------------------------------
(* The provider's steps.                                                     *)

\* Two events after each other.
LEMMA ConcatFacts ==
  ASSUME NEW S, NEW q \in Seq(S), NEW x \in S, NEW y \in S
  PROVE  /\ q \o <<x>> \o <<>> = Append(q, x)
         /\ q \o <<x>> \o <<y>> = Append(Append(q, x), y)
         /\ q \o <<x, y>> = Append(Append(q, x), y)
OBVIOUS

\* Adding an event with finitely many calls.
LEMMA FiniteCallsAppend ==
  ASSUME NEW W \in Seq(Events), FiniteCalls(W), NEW e \in Events, IsFiniteSet(e.calls)
  PROVE  FiniteCalls(Append(W, e)) /\ Append(W, e) \in Seq(Events)
<1>1. /\ Append(W, e) \in Seq(Events) /\ Len(Append(W, e)) = Len(W) + 1
      /\ \A i \in 1..Len(W) : Append(W, e)[i] = W[i]
      /\ Append(W, e)[Len(W) + 1] = e
  BY AppendFacts
<1> SUFFICES ASSUME NEW i \in 1..(Len(W) + 1) PROVE IsFiniteSet(Append(W, e)[i].calls)
  BY <1>1 DEF FiniteCalls
<1>2. CASE i <= Len(W)
  BY <1>1, <1>2 DEF FiniteCalls
<1>3. CASE i = Len(W) + 1
  BY <1>1, <1>3
<1> QED BY <1>2, <1>3

\* A step of the provider that keeps the order of the events: the questions Q
\* are asked in it for the first time.
LEMMA ProviderKeeps ==
  ASSUME NEW W \in Seq(Events), NEW V \in Seq(Events), NEW p \in Providers, NEW p2 \in Providers,
         NEW g, NEW s, NEW a, NEW n, NEW k, NEW Q \in SUBSET (ToolQuestions \ p.asked),
         Consistent(W, p, g, s, a, n, k), WireInv(V, p2, g),
         p.made <= p2.made, \A r \in 1..p.made : p2.turnAt[r] = p.turnAt[r],
         p2.asked = p.asked \cup Q,
         \A i \in 1..Len(V) : \/ i \in 1..Len(W) /\ V[i] = W[i]
                              \/ V[i].calls = {}
                              \/ /\ V[i].r = p.active /\ p.active # 0
                                 /\ \A q : Ask(q) \in V[i].calls => Ask(q) \in p.calls \/ q \in Q,
         \A q : p2.active # 0 /\ Ask(q) \in p2.calls =>
           p2.active = p.active /\ (Ask(q) \in p.calls \/ q \in Q)
  PROVE  Consistent(V, p2, g, s, a, n, k)
<1>1. /\ GatewayType(g) /\ WireInv(W, p, g) /\ TurnsInv(p, g) /\ SentInv(g, s, a, k)
      /\ OnceInv(W, p, g, s) /\ UnaskedInv(p, s) /\ AckInv(g, a, n) /\ ByInv(p, k)
  BY DEF Consistent
<1>2. p.made \in Nat /\ p2.made \in Nat /\ p.active \in Nat
  BY BoundsAssumption DEF Providers
<1>3. TurnsInv(p2, g)
  BY <1>1, <1>2 DEF TurnsInv
<1>4. UnaskedInv(p2, s)
  BY <1>1 DEF UnaskedInv
<1>5. ByInv(p2, k)
  <2> SUFFICES ASSUME NEW q \in Questions, k[q].state = "confirmed"
               PROVE  k[q].by \in 1..p2.made /\ k[q].asked # NoTurn /\ k[q].asked < p2.turnAt[k[q].by]
    BY DEF ByInv
  <2>1. k[q].by \in 1..p.made /\ k[q].asked # NoTurn /\ k[q].asked < p.turnAt[k[q].by]
    BY <1>1 DEF ByInv
  <2> QED BY <1>2, <2>1
<1>6. ASSUME NEW q, NEW r, Asks(q, r, V, p2, g)
      PROVE  Asks(q, r, W, p, g) \/ (q \in Q /\ r = p.active)
  <2>1. CASE \E c \in g.calls : c.kind = "ask" /\ c.q = q /\ c.r = r
    BY <2>1 DEF Asks
  <2>2. CASE \E i \in 1..Len(V) : V[i].r = r /\ Ask(q) \in V[i].calls
    <3>1. PICK i \in 1..Len(V) : V[i].r = r /\ Ask(q) \in V[i].calls
      BY <2>2
    <3>2. CASE i \in 1..Len(W) /\ V[i] = W[i]
      BY <3>1, <3>2 DEF Asks
    <3>3. CASE V[i].calls = {}
      BY <3>1, <3>3
    <3>4. CASE V[i].r = p.active /\ p.active # 0 /\ (Ask(q) \in p.calls \/ q \in Q)
      BY <3>1, <3>4 DEF Asks
    <3> QED BY <3>1, <3>2, <3>3, <3>4
  <2>3. CASE p2.active = r /\ r # 0 /\ Ask(q) \in p2.calls
    BY <2>3 DEF Asks
  <2> QED BY <1>6, <2>1, <2>2, <2>3 DEF Asks
<1>7. OnceInv(V, p2, g, s)
  <2> SUFFICES ASSUME NEW q \in Questions, NEW r \in Nat, Asks(q, r, V, p2, g)
               PROVE  /\ q \in ToolQuestions /\ q \in p2.asked /\ s[q] = NoTurn
                      /\ \A t \in Nat : Asks(q, t, V, p2, g) => t = r
    BY DEF OnceInv
  <2>1. \A t \in Nat : Asks(q, t, W, p, g) => q \in p.asked
    BY <1>1 DEF OnceInv
  <2>2. CASE q \in Q
    <3>1. \A t \in Nat : Asks(q, t, V, p2, g) => t = p.active
      BY <1>6, <2>1, <2>2
    <3> QED BY <1>1, <2>2, <3>1 DEF UnaskedInv
  <2>3. CASE q \notin Q
    <3>1. \A t \in Nat : Asks(q, t, V, p2, g) => Asks(q, t, W, p, g)
      BY <1>6, <2>3
    <3> QED BY <1>1, <3>1 DEF OnceInv
  <2> QED BY <2>2, <2>3
<1> QED BY <1>1, <1>3, <1>4, <1>5, <1>7 DEF Consistent

\* What holds of the provider and its events.
LEMMA InvFacts ==
  ASSUME Inv
  PROVE  /\ provider \in Providers /\ IsFiniteSet(provider.calls) /\ provider.calls \in SUBSET Calls
         /\ provider.active \in 0..MaxResponses /\ provider.made \in 0..MaxResponses
         /\ provider.turns \in Nat /\ MaxResponses \in Nat
         /\ toGateway \in Seq(Events) /\ FiniteCalls(toGateway) /\ toProvider \in Seq(Messages)
         /\ gw \in Gateways /\ GatewayType(gw)
         /\ WireInv(toGateway, provider, gw) /\ TurnsInv(provider, gw)
         /\ Consistent(toGateway, provider, gw, sent, acks, stored, conf)
         /\ StoreType
BY BoundsAssumption DEF Inv, ProviderType, WireType, Consistent, GatewayType, Providers

\* A step of the provider keeps the invariant if it keeps types and order.
LEMMA ProviderStep ==
  ASSUME Inv, NEW Q \in SUBSET (ToolQuestions \ provider.asked),
         UNCHANGED <<gw, acks, stored, conf, sent, mistaken, failures>>,
         crossed' \in SUBSET Questions, toProvider' \in Seq(Messages),
         toGateway' \in Seq(Events), FiniteCalls(toGateway'),
         provider' \in Providers, IsFiniteSet(provider'.calls),
         WireInv(toGateway', provider', gw),
         provider.made <= provider'.made,
         \A r \in 1..provider.made : provider'.turnAt[r] = provider.turnAt[r],
         provider'.asked = provider.asked \cup Q,
         \A i \in 1..Len(toGateway') :
            \/ i \in 1..Len(toGateway) /\ toGateway'[i] = toGateway[i]
            \/ toGateway'[i].calls = {}
            \/ /\ toGateway'[i].r = provider.active /\ provider.active # 0
               /\ \A q : Ask(q) \in toGateway'[i].calls => Ask(q) \in provider.calls \/ q \in Q,
         \A q : provider'.active # 0 /\ Ask(q) \in provider'.calls =>
            provider'.active = provider.active /\ (Ask(q) \in provider.calls \/ q \in Q)
  PROVE  Inv'
<1>1. Consistent(toGateway', provider', gw, sent, acks, stored, conf)
  BY InvFacts, ProviderKeeps
<1>2. Consistent(toGateway', provider', gw', sent', acks', stored', conf')
  BY <1>1
<1>3. StoreType'
  BY InvFacts DEF StoreType
<1> QED BY <1>2, <1>3 DEF Inv, ProviderType, WireType

\* The same, if nothing is asked in the step.
LEMMA PlainStep ==
  ASSUME Inv,
         UNCHANGED <<gw, acks, stored, conf, sent, mistaken, failures>>,
         crossed' \in SUBSET Questions, toProvider' \in Seq(Messages),
         toGateway' \in Seq(Events), FiniteCalls(toGateway'),
         provider' \in Providers, IsFiniteSet(provider'.calls),
         WireInv(toGateway', provider', gw),
         provider.made <= provider'.made,
         \A r \in 1..provider.made : provider'.turnAt[r] = provider.turnAt[r],
         provider'.asked = provider.asked,
         \A i \in 1..Len(toGateway') :
            \/ i \in 1..Len(toGateway) /\ toGateway'[i] = toGateway[i]
            \/ toGateway'[i].calls = {}
            \/ toGateway'[i].r = provider.active /\ provider.active # 0 /\ toGateway'[i].calls = provider.calls,
         provider'.active = 0 \/ provider'.calls = {}
           \/ (provider'.active = provider.active /\ provider'.calls = provider.calls)
  PROVE  Inv'
<1> DEFINE Q == {}
<1>1. Q \in SUBSET (ToolQuestions \ provider.asked) /\ provider'.asked = provider.asked \cup Q
  OBVIOUS
<1> HIDE DEF Q
<1> QED BY <1>1, ProviderStep

\* The provider after it has cut off its response.
LEMMA SilencedFacts ==
  ASSUME NEW p \in Providers, 0 \in 0..MaxResponses, NEW p2, p2 = [p EXCEPT !.speaking = TRUE, !.active = 0]
  PROVE  /\ p2 \in Providers /\ p2.active = 0 /\ p2.calls = p.calls
         /\ p2.turns = p.turns /\ p2.made = p.made /\ p2.turnAt = p.turnAt /\ p2.asked = p.asked
BY DEF Providers

\* UserSpeaks keeps the invariant.
LEMMA UserSpeaksStep ==
  ASSUME Inv, UserSpeaks
  PROVE  Inv'
<1> DEFINE e1 == Event("speechStarted", 0, FALSE, {})
           e2 == Event("done", provider.active, FALSE, provider.calls)
           W == toGateway
<1>1. /\ provider \in Providers /\ IsFiniteSet(provider.calls) /\ provider.calls \in SUBSET Calls
      /\ provider.active \in 0..MaxResponses /\ MaxResponses \in Nat
      /\ W \in Seq(Events) /\ FiniteCalls(W) /\ toProvider \in Seq(Messages)
      /\ gw \in Gateways /\ WireInv(W, provider, gw) /\ TurnsInv(provider, gw)
      /\ crossed \in SUBSET Questions
  BY InvFacts DEF StoreType
<1>2. /\ provider' = [provider EXCEPT !.speaking = TRUE, !.active = 0]
      /\ toGateway' = W \o <<e1>> \o IF provider.active = 0 THEN <<>> ELSE <<e2>>
      /\ UNCHANGED <<toProvider, gw, acks, stored, conf, sent, crossed, mistaken, failures>>
  BY Zenon DEF UserSpeaks
<1>3. e1 \in Events /\ e1.kind = "speechStarted" /\ e1.r = 0 /\ e1.calls = {}
  BY <1>1 DEF Event, Events
<1>4. e2 \in Events /\ e2.kind = "done" /\ e2.r = provider.active /\ e2.calls = provider.calls
  BY <1>1 DEF Event, Events
<1>5. /\ provider' \in Providers /\ provider'.active = 0 /\ provider'.calls = provider.calls
      /\ provider'.turns = provider.turns /\ provider'.made = provider.made
      /\ provider'.turnAt = provider.turnAt /\ provider'.asked = provider.asked
  <2>1. 0 \in 0..MaxResponses
    BY <1>1
  <2> QED BY <1>1, <1>2, <2>1, SilencedFacts
<1> HIDE DEF e1, e2
<1>6. IsFiniteSet(e1.calls) /\ IsFiniteSet(e2.calls)
  BY <1>1, <1>3, <1>4, FS_EmptySet
<1> DEFINE V == Append(W, e1)
<1>7. V \in Seq(Events) /\ FiniteCalls(V)
  BY <1>1, <1>3, <1>6, FiniteCallsAppend
<1>8. /\ Len(W) \in Nat /\ Len(V) = Len(W) + 1
      /\ \A i \in 1..Len(W) : V[i] = W[i]
      /\ V[Len(W) + 1] = e1
  BY <1>1, <1>3, AppendFacts
<1> HIDE DEF V
<1>9. provider.made <= provider'.made /\ provider.made \in Nat
  BY <1>1, <1>5 DEF Providers
<1>10. CASE provider.active = 0
  <2>1. toGateway' = V
    BY <1>1, <1>2, <1>3, <1>10, ConcatFacts DEF V
  <2>2. Pushes(e1, provider, provider')
    BY <1>3, <1>5, <1>10 DEF Pushes
  <2>3. WireInv(toGateway', provider', gw)
    BY <1>1, <1>3, <1>5, <2>1, <2>2, PushKeeps DEF V
  <2>4. \A i \in 1..Len(toGateway') : (i \in 1..Len(W) /\ toGateway'[i] = W[i]) \/ toGateway'[i].calls = {}
    BY <1>3, <1>8, <2>1
  <2> QED BY <1>1, <1>2, <1>5, <1>7, <1>9, <2>1, <2>3, <2>4, PlainStep
<1>11. CASE provider.active # 0
  <2>1. toGateway' = Append(V, e2)
    <3>1. toGateway' = W \o <<e1>> \o <<e2>>
      BY <1>2, <1>11
    <3>2. W \in Seq(Events) /\ e1 \in Events /\ e2 \in Events
      BY <1>1, <1>3, <1>4
    <3>3. W \o <<e1>> \o <<e2>> = Append(Append(W, e1), e2)
      BY <3>2, ConcatFacts
    <3> QED BY <3>1, <3>3 DEF V
  <2>2. Pushes(e1, provider, provider)
    BY <1>3 DEF Pushes
  <2>3. WireInv(V, provider, gw)
    BY <1>1, <1>3, <2>2, PushKeeps DEF V
  <2>4. Pushes(e2, provider, provider')
    BY <1>4, <1>5, <1>11 DEF Pushes
  <2>5. WireInv(toGateway', provider', gw)
    BY <1>1, <1>4, <1>5, <1>7, <2>1, <2>3, <2>4, PushKeeps
  <2>6. toGateway' \in Seq(Events) /\ FiniteCalls(toGateway')
    BY <1>4, <1>6, <1>7, <2>1, FiniteCallsAppend
  <2>7. /\ Len(toGateway') = Len(V) + 1
        /\ \A i \in 1..Len(V) : toGateway'[i] = V[i]
        /\ toGateway'[Len(V) + 1] = e2
    BY <1>4, <1>7, <2>1, AppendFacts
  <2>8. \A i \in 1..Len(toGateway') :
            \/ i \in 1..Len(W) /\ toGateway'[i] = W[i]
            \/ toGateway'[i].calls = {}
            \/ toGateway'[i].r = provider.active /\ toGateway'[i].calls = provider.calls
    BY <1>3, <1>4, <1>8, <2>7
  <2> QED BY <1>1, <1>2, <1>5, <1>9, <1>11, <2>5, <2>6, <2>8, PlainStep
<1> QED BY <1>10, <1>11

\* What a new response changes.
LEMMA RespondFacts ==
  ASSUME NEW p \in Providers, p.made < MaxResponses
  PROVE  LET p2 == Respond(p) IN
         /\ p2 \in Providers /\ p2.made = p.made + 1 /\ p2.active = p.made + 1 /\ p2.calls = {}
         /\ p2.turns = p.turns /\ p2.asked = p.asked /\ p2.ctx = p.ctx
         /\ p2.turnAt[p.made + 1] = p.turns /\ p2.knows[p.made + 1] = p.ctx
         /\ \A r \in Responses \ {p.made + 1} : p2.turnAt[r] = p.turnAt[r] /\ p2.knows[r] = p.knows[r]
         /\ \A r \in 1..p.made : p2.turnAt[r] = p.turnAt[r] /\ p2.knows[r] = p.knows[r]
<1> DEFINE p2 == Respond(p)
           n == p.made + 1
<1>1. MaxResponses \in Nat
  BY BoundsAssumption
<1>2. p.made \in Nat /\ n \in Responses /\ n \in 0..MaxResponses /\ 1..p.made \subseteq Responses \ {n}
  BY <1>1 DEF Providers, Responses
<1>3. p.turnAt \in [Responses -> Nat] /\ p.knows \in [Responses -> SUBSET Questions]
  BY DEF Providers
<1>4. p2 = [p EXCEPT !.made = n, !.active = n, !.knows = [p.knows EXCEPT ![n] = p.ctx],
                     !.turnAt = [p.turnAt EXCEPT ![n] = p.turns], !.calls = {}]
  BY DEF Respond, Providers
<1> HIDE DEF p2, n
<1>5. [p.knows EXCEPT ![n] = p.ctx] \in [Responses -> SUBSET Questions] /\ [p.turnAt EXCEPT ![n] = p.turns] \in [Responses -> Nat]
  BY <1>2, <1>3 DEF Providers
<1>6. /\ p2 \in Providers /\ p2.made = n /\ p2.active = n /\ p2.calls = {}
      /\ p2.turns = p.turns /\ p2.asked = p.asked /\ p2.ctx = p.ctx
      /\ p2.knows = [p.knows EXCEPT ![n] = p.ctx] /\ p2.turnAt = [p.turnAt EXCEPT ![n] = p.turns]
  BY <1>2, <1>4, <1>5 DEF Providers
<1> QED BY <1>2, <1>3, <1>6 DEF p2, n

\* One event of the provider without questions of its own.
LEMMA OneEventStep ==
  ASSUME Inv, NEW e \in Events, toGateway' = Append(toGateway, e), IsFiniteSet(e.calls),
         UNCHANGED <<gw, acks, stored, conf, sent, mistaken, failures>>,
         crossed' \in SUBSET Questions, toProvider' \in Seq(Messages),
         provider' \in Providers, IsFiniteSet(provider'.calls), Pushes(e, provider, provider'),
         provider'.asked = provider.asked,
         e.calls = {} \/ e.calls = provider.calls,
         provider'.active = 0 \/ provider'.calls = {}
           \/ (provider'.active = provider.active /\ provider'.calls = provider.calls)
  PROVE  Inv'
<1>1. /\ provider \in Providers /\ toGateway \in Seq(Events) /\ FiniteCalls(toGateway) /\ gw \in Gateways
      /\ WireInv(toGateway, provider, gw) /\ TurnsInv(provider, gw)
  BY InvFacts
<1>2. provider.made \in Nat
  BY <1>1, BoundsAssumption DEF Providers
<1>3. WireInv(toGateway', provider', gw)
  BY <1>1, PushKeeps
<1>4. toGateway' \in Seq(Events) /\ FiniteCalls(toGateway')
  BY <1>1, FiniteCallsAppend
<1>5. /\ Len(toGateway') = Len(toGateway) + 1 /\ Len(toGateway) \in Nat
      /\ \A i \in 1..Len(toGateway) : toGateway'[i] = toGateway[i]
      /\ toGateway'[Len(toGateway) + 1] = e
  BY <1>1, AppendFacts
<1>6. e.calls # {} => e.r = provider.active /\ provider.active # 0
  BY DEF Pushes
<1>7. \A i \in 1..Len(toGateway') :
            \/ i \in 1..Len(toGateway) /\ toGateway'[i] = toGateway[i]
            \/ toGateway'[i].calls = {}
            \/ toGateway'[i].r = provider.active /\ provider.active # 0 /\ toGateway'[i].calls = provider.calls
  BY <1>5, <1>6
<1>8. provider.made <= provider'.made /\ \A r \in 1..provider.made : provider'.turnAt[r] = provider.turnAt[r]
  BY <1>2 DEF Pushes
<1> QED BY <1>3, <1>4, <1>7, <1>8, PlainStep

\* The provider after the user has spoken.
LEMMA HeardFacts ==
  ASSUME NEW p \in Providers, NEW p2, p2 = [p EXCEPT !.speaking = FALSE, !.turns = @ + 1]
  PROVE  /\ p2 \in Providers /\ p2.active = p.active /\ p2.calls = p.calls /\ p2.ctx = p.ctx
         /\ p2.turns = p.turns + 1 /\ p2.made = p.made /\ p2.turnAt = p.turnAt /\ p2.asked = p.asked
         /\ p2.knows = p.knows
<1>1. p.turns \in Nat /\ p.turns + 1 \in Nat
  BY DEF Providers
<1>2. ASSUME NEW t \in Nat, p2 = [p EXCEPT !.speaking = FALSE, !.turns = t]
      PROVE  /\ p2 \in Providers /\ p2.active = p.active /\ p2.calls = p.calls /\ p2.ctx = p.ctx
             /\ p2.turns = t /\ p2.made = p.made /\ p2.turnAt = p.turnAt /\ p2.asked = p.asked
             /\ p2.knows = p.knows
  BY <1>2 DEF Providers
<1> QED BY <1>1, <1>2

\* The questions of messages.
LEMMA MessageQuestions ==
  ASSUME NEW M \in Seq(Messages)
  PROVE  {M[i].q : i \in DOMAIN M} \ {NoQuestion} \in SUBSET Questions
<1>1. \A i \in DOMAIN M : M[i] \in Messages
  OBVIOUS
<1> QED BY <1>1 DEF Messages

\* UserStops keeps the invariant.
LEMMA UserStopsStep ==
  ASSUME Inv, UserStops
  PROVE  Inv'
<1> DEFINE p == [provider EXCEPT !.speaking = FALSE, !.turns = @ + 1]
           stop == Event("speechStopped", 0, FALSE, {})
           made == Event("created", p.made + 1, TRUE, {})
           W == toGateway
<1>1. /\ provider \in Providers /\ IsFiniteSet(provider.calls)
      /\ W \in Seq(Events) /\ FiniteCalls(W) /\ toProvider \in Seq(Messages)
      /\ gw \in Gateways /\ WireInv(W, provider, gw) /\ TurnsInv(provider, gw)
      /\ crossed \in SUBSET Questions
  BY InvFacts DEF StoreType
<1>2. UNCHANGED <<toProvider, gw, acks, stored, conf, sent, mistaken, failures>>
  BY Zenon DEF UserStops
<1>3. /\ p \in Providers /\ p.active = provider.active /\ p.calls = provider.calls
      /\ p.turns = provider.turns + 1 /\ p.made = provider.made /\ p.turnAt = provider.turnAt
      /\ p.asked = provider.asked
  BY <1>1, HeardFacts
<1>4. MaxResponses \in Nat /\ 0 \in 0..MaxResponses
  BY BoundsAssumption
<1>5. stop \in Events /\ stop.kind = "speechStopped" /\ stop.r = 0 /\ stop.calls = {}
  BY <1>4 DEF Event, Events
<1>6. \/ /\ p.active = 0 /\ p.made < MaxResponses /\ provider' = Respond(p)
         /\ toGateway' = W \o <<stop, made>>
         /\ crossed' = crossed \cup ({toProvider[i].q : i \in DOMAIN toProvider} \ {NoQuestion})
      \/ p.active # 0 /\ provider' = p /\ toGateway' = Append(W, stop) /\ UNCHANGED crossed
  BY DEF UserStops
<1>7. IsFiniteSet({})
  BY FS_EmptySet
<1> HIDE DEF p, stop
<1>8. CASE p.active # 0 /\ provider' = p /\ toGateway' = Append(W, stop) /\ UNCHANGED crossed
  <2>1. Pushes(stop, provider, provider')
    BY <1>3, <1>5, <1>8 DEF Pushes
  <2>2. IsFiniteSet(stop.calls)
    BY <1>5, <1>7
  <2> QED BY <1>1, <1>2, <1>3, <1>5, <1>8, <2>1, <2>2, OneEventStep
<1>9. CASE /\ p.active = 0 /\ p.made < MaxResponses /\ provider' = Respond(p)
           /\ toGateway' = W \o <<stop, made>>
           /\ crossed' = crossed \cup ({toProvider[i].q : i \in DOMAIN toProvider} \ {NoQuestion})
  <2> DEFINE V == Append(W, stop)
  <2>1. p.made \in Nat /\ p.made + 1 \in 0..MaxResponses
    BY <1>3, <1>4, <1>9 DEF Providers
  <2>2. made \in Events /\ made.kind = "created" /\ made.r = p.made + 1 /\ made.calls = {}
    BY <2>1 DEF Event, Events
  <2> HIDE DEF made
  <2>3. toGateway' = Append(V, made)
    <3>1. W \in Seq(Events) /\ stop \in Events /\ made \in Events
      BY <1>1, <1>5, <2>2
    <3>2. W \o <<stop, made>> = Append(Append(W, stop), made)
      BY <3>1, ConcatFacts
    <3> QED BY <1>9, <3>2
  <2>4. /\ provider' \in Providers /\ provider'.made = p.made + 1 /\ provider'.active = p.made + 1
        /\ provider'.calls = {} /\ provider'.turns = p.turns /\ provider'.asked = p.asked
        /\ provider'.turnAt[p.made + 1] = p.turns
        /\ \A r \in 1..p.made : provider'.turnAt[r] = p.turnAt[r]
    BY <1>3, <1>9, RespondFacts
  <2>5. Pushes(stop, provider, p)
    BY <1>3, <1>5 DEF Pushes
  <2>6. V \in Seq(Events) /\ FiniteCalls(V)
    BY <1>1, <1>5, <1>7, FiniteCallsAppend
  <2>7. WireInv(V, p, gw)
    BY <1>1, <1>3, <1>5, <2>5, PushKeeps
  <2>8. TurnsInv(p, gw)
    BY <1>1, <1>3 DEF TurnsInv
  <2>9. Pushes(made, p, provider')
    BY <2>2, <2>4 DEF Pushes
  <2>10. /\ Len(W) \in Nat /\ Len(V) = Len(W) + 1
         /\ \A i \in 1..Len(W) : V[i] = W[i]
         /\ V[Len(W) + 1] = stop
    BY <1>1, <1>5, AppendFacts
  <2> HIDE DEF V
  <2>11. WireInv(toGateway', provider', gw)
    BY <1>1, <1>3, <2>2, <2>3, <2>4, <2>6, <2>7, <2>8, <2>9, PushKeeps
  <2>12. toGateway' \in Seq(Events) /\ FiniteCalls(toGateway')
    BY <1>7, <2>2, <2>3, <2>6, FiniteCallsAppend
  <2>13. /\ Len(toGateway') = Len(V) + 1
         /\ \A i \in 1..Len(V) : toGateway'[i] = V[i]
         /\ toGateway'[Len(V) + 1] = made
    BY <2>2, <2>3, <2>6, AppendFacts
  <2>14. \A i \in 1..Len(toGateway') : (i \in 1..Len(W) /\ toGateway'[i] = W[i]) \/ toGateway'[i].calls = {}
    BY <1>5, <2>2, <2>10, <2>13
  <2>15. crossed' \in SUBSET Questions
    BY <1>1, <1>9, MessageQuestions
  <2>16. provider.made <= provider'.made /\ \A r \in 1..provider.made : provider'.turnAt[r] = provider.turnAt[r]
    BY <1>3, <2>1, <2>4
  <2> QED BY <1>1, <1>2, <1>3, <1>7, <2>4, <2>11, <2>12, <2>14, <2>15, <2>16, PlainStep
<1> QED BY <1>6, <1>8, <1>9

\* ResponseEnds and StrayError keep the invariant.
LEMMA ResponseEndsStep ==
  ASSUME Inv, ResponseEnds
  PROVE  Inv'
<1> DEFINE e == Event("done", provider.active, FALSE, provider.calls)
<1>1. /\ provider \in Providers /\ IsFiniteSet(provider.calls) /\ provider.calls \in SUBSET Calls
      /\ provider.active \in 0..MaxResponses /\ toProvider \in Seq(Messages) /\ crossed \in SUBSET Questions
  BY InvFacts DEF StoreType
<1>2. /\ provider.active # 0 /\ provider' = [provider EXCEPT !.active = 0]
      /\ toGateway' = Append(toGateway, e)
      /\ UNCHANGED <<toProvider, gw, acks, stored, conf, sent, crossed, mistaken, failures>>
  BY Zenon DEF ResponseEnds
<1>3. /\ provider' \in Providers /\ provider'.active = 0 /\ provider'.calls = provider.calls
      /\ provider'.turns = provider.turns /\ provider'.made = provider.made
      /\ provider'.turnAt = provider.turnAt /\ provider'.asked = provider.asked
  <2>1. 0 \in 0..MaxResponses
    BY BoundsAssumption
  <2>2. provider \in Providers /\ provider' = [provider EXCEPT !.active = 0]
    BY <1>1, <1>2
  <2> QED BY <2>1, <2>2 DEF Providers
<1>4. e \in Events /\ e.kind = "done" /\ e.r = provider.active /\ e.calls = provider.calls
  BY <1>1 DEF Event, Events
<1> HIDE DEF e
<1>5. Pushes(e, provider, provider')
  BY <1>2, <1>3, <1>4 DEF Pushes
<1>6. IsFiniteSet(e.calls)
  BY <1>1, <1>4
<1> QED BY <1>1, <1>2, <1>3, <1>4, <1>5, <1>6, OneEventStep

\* An error event keeps the invariant.
LEMMA StrayErrorStep ==
  ASSUME Inv, StrayError
  PROVE  Inv'
<1> DEFINE e == Event("error", 0, TRUE, {})
<1>1. /\ provider \in Providers /\ IsFiniteSet(provider.calls)
      /\ toProvider \in Seq(Messages) /\ crossed \in SUBSET Questions
  BY InvFacts DEF StoreType
<1>2. /\ provider' = [provider EXCEPT !.errors = @ + 1]
      /\ toGateway' = Append(toGateway, e)
      /\ UNCHANGED <<toProvider, gw, acks, stored, conf, sent, crossed, mistaken, failures>>
  BY Zenon DEF StrayError
<1>3. /\ provider' \in Providers /\ provider'.active = provider.active /\ provider'.calls = provider.calls
      /\ provider'.turns = provider.turns /\ provider'.made = provider.made
      /\ provider'.turnAt = provider.turnAt /\ provider'.asked = provider.asked
  <2>1. provider \in Providers /\ provider' = [provider EXCEPT !.errors = @ + 1]
    BY <1>1, <1>2
  <2> QED BY <2>1 DEF Providers
<1>4. e \in Events /\ e.kind = "error" /\ e.r = 0 /\ e.calls = {}
  <2>1. 0 \in 0..MaxResponses
    BY BoundsAssumption
  <2> QED BY <2>1 DEF Event, Events
<1> HIDE DEF e
<1>5. Pushes(e, provider, provider')
  BY <1>3, <1>4 DEF Pushes
<1>6. IsFiniteSet(e.calls)
  BY <1>4, FS_EmptySet
<1> QED BY <1>1, <1>2, <1>3, <1>4, <1>5, <1>6, OneEventStep

\* A provider that keeps turns and responses has sent the same events.
LEMMA QuietProvider ==
  ASSUME NEW W, NEW p, NEW p2, NEW g, WireInv(W, p, g),
         p2.turns = p.turns, p2.turnAt = p.turnAt, p2.made = p.made, p2.active = p.active
  PROVE  WireInv(W, p2, g)
<1>1. ClockInv(W, p2, g)
  BY DEF WireInv, ClockInv, Counts
<1>2. OrderInv(W, p2, g) /\ ActiveInv(W, p2, g) /\ NewInv(W, g)
  BY DEF WireInv, OrderInv, ActiveInv
<1> QED BY <1>1, <1>2 DEF WireInv

\* Receive keeps the invariant.
LEMMA ReceiveStep ==
  ASSUME Inv, Receive
  PROVE  Inv'
<1> DEFINE m == Head(toProvider)
<1>1. /\ provider \in Providers /\ IsFiniteSet(provider.calls) /\ toProvider \in Seq(Messages)
      /\ toGateway \in Seq(Events) /\ FiniteCalls(toGateway)
      /\ WireInv(toGateway, provider, gw) /\ crossed \in SUBSET Questions
  BY InvFacts DEF StoreType
<1>2. /\ toProvider # <<>> /\ toProvider' = Tail(toProvider)
      /\ UNCHANGED <<gw, acks, stored, conf, sent, crossed, mistaken, failures>>
  BY Zenon DEF Receive
<1>3. toProvider' \in Seq(Messages) /\ m \in Messages
  BY <1>1, <1>2, TailFacts
<1>4. crossed' \in SUBSET Questions
  BY <1>1, <1>2
<1>5. MaxResponses \in Nat /\ 0 \in 0..MaxResponses
  BY BoundsAssumption
<1>6. IsFiniteSet({})
  BY FS_EmptySet
<1>7. \/ provider' = [provider EXCEPT !.ctx = @ \cup ({m.q} \ {NoQuestion})] /\ UNCHANGED toGateway
      \/ /\ provider.active = 0 /\ provider.made < MaxResponses
         /\ provider' = Respond(provider)
         /\ toGateway' = Append(toGateway, Event("created", provider.made + 1, FALSE, {}))
      \/ /\ provider' = [provider EXCEPT !.errors = IF provider.active # 0 THEN @ ELSE @ + 1]
         /\ toGateway' = Append(toGateway, Event("error", 0, FALSE, {}))
  BY Zenon DEF Receive
<1>8. CASE provider' = [provider EXCEPT !.ctx = @ \cup ({m.q} \ {NoQuestion})] /\ UNCHANGED toGateway
  <2>1. {m.q} \ {NoQuestion} \in SUBSET Questions
    BY <1>3 DEF Messages
  <2> HIDE DEF m
  <2>2. /\ provider' \in Providers /\ provider'.active = provider.active /\ provider'.calls = provider.calls
        /\ provider'.turns = provider.turns /\ provider'.made = provider.made
        /\ provider'.turnAt = provider.turnAt /\ provider'.asked = provider.asked
    BY <1>1, <1>8, <2>1 DEF Providers
  <2>3. WireInv(toGateway', provider', gw)
    BY <1>1, <1>8, <2>2, QuietProvider
  <2>4. provider.made <= provider'.made
    BY <1>1, <2>2 DEF Providers
  <2> QED BY <1>1, <1>2, <1>3, <1>4, <1>8, <2>2, <2>3, <2>4, PlainStep
<1>9. CASE /\ provider.active = 0 /\ provider.made < MaxResponses
           /\ provider' = Respond(provider)
           /\ toGateway' = Append(toGateway, Event("created", provider.made + 1, FALSE, {}))
  <2> DEFINE e == Event("created", provider.made + 1, FALSE, {})
  <2>1. provider.made \in Nat /\ provider.made + 1 \in 0..MaxResponses
    BY <1>1, <1>5, <1>9 DEF Providers
  <2>2. e \in Events /\ e.kind = "created" /\ e.r = provider.made + 1 /\ e.calls = {}
    BY <2>1 DEF Event, Events
  <2> HIDE DEF e
  <2>3. /\ provider' \in Providers /\ provider'.made = provider.made + 1
        /\ provider'.active = provider.made + 1 /\ provider'.calls = {}
        /\ provider'.turns = provider.turns /\ provider'.asked = provider.asked
        /\ provider'.turnAt[provider.made + 1] = provider.turns
        /\ \A r \in 1..provider.made : provider'.turnAt[r] = provider.turnAt[r]
    BY <1>1, <1>9, RespondFacts
  <2>4. Pushes(e, provider, provider')
    BY <2>2, <2>3 DEF Pushes
  <2>5. IsFiniteSet(e.calls) /\ IsFiniteSet(provider'.calls) /\ toGateway' = Append(toGateway, e)
    BY <1>6, <1>9, <2>2, <2>3 DEF e
  <2> QED BY <1>2, <1>3, <1>4, <2>2, <2>3, <2>4, <2>5, OneEventStep
<1>10. CASE /\ provider' = [provider EXCEPT !.errors = IF provider.active # 0 THEN @ ELSE @ + 1]
            /\ toGateway' = Append(toGateway, Event("error", 0, FALSE, {}))
  <2> DEFINE e == Event("error", 0, FALSE, {})
             k == IF provider.active # 0 THEN provider.errors ELSE provider.errors + 1
  <2>1. e \in Events /\ e.kind = "error" /\ e.r = 0 /\ e.calls = {}
    BY <1>5 DEF Event, Events
  <2>2. k \in Nat /\ provider' = [provider EXCEPT !.errors = k]
    BY <1>1, <1>10 DEF Providers
  <2> HIDE DEF e, k
  <2>3. /\ provider' \in Providers /\ provider'.active = provider.active /\ provider'.calls = provider.calls
        /\ provider'.turns = provider.turns /\ provider'.made = provider.made
        /\ provider'.turnAt = provider.turnAt /\ provider'.asked = provider.asked
    BY <1>1, <2>2 DEF Providers
  <2>4. Pushes(e, provider, provider')
    BY <2>1, <2>3 DEF Pushes
  <2>5. IsFiniteSet(e.calls) /\ IsFiniteSet(provider'.calls) /\ toGateway' = Append(toGateway, e)
    BY <1>1, <1>6, <1>10, <2>1, <2>3 DEF e
  <2> QED BY <1>2, <1>3, <1>4, <2>1, <2>3, <2>4, <2>5, OneEventStep
<1> QED BY <1>7, <1>8, <1>9, <1>10

\* ModelCalls keeps the invariant: a question is asked by one call.
LEMMA ModelCallsStep ==
  ASSUME Inv, ModelCalls
  PROVE  Inv'
<1>1. /\ provider \in Providers /\ IsFiniteSet(provider.calls) /\ provider.calls \in SUBSET Calls
      /\ provider.active \in 0..MaxResponses /\ provider.asked \in SUBSET Questions
      /\ toGateway \in Seq(Events) /\ FiniteCalls(toGateway) /\ toProvider \in Seq(Messages)
      /\ gw \in Gateways /\ WireInv(toGateway, provider, gw) /\ TurnsInv(provider, gw)
      /\ crossed \in SUBSET Questions /\ provider.made \in Nat
  BY InvFacts DEF StoreType, Providers
<1>2. provider.active # 0 /\ UNCHANGED <<toProvider, gw, acks, stored, conf, sent, crossed, mistaken, failures>>
  BY Zenon DEF ModelCalls
<1>3. PICK q \in Questions, kind \in {"ask", "confirm", "cancel"} :
        LET c == [kind |-> kind, q |-> q] IN
        /\ c \notin provider.calls
        /\ IF kind = "ask" THEN q \in ToolQuestions \ provider.asked
           ELSE q \in provider.knows[provider.active]
        /\ provider' = [provider EXCEPT !.calls = @ \cup {c},
                                        !.asked = IF kind = "ask" THEN @ \cup {q} ELSE @]
        /\ \/ toGateway' = Append(toGateway, Event("call", provider.active, FALSE, {c}))
           \/ UNCHANGED toGateway
  BY Zenon DEF ModelCalls
<1> DEFINE c == [kind |-> kind, q |-> q]
           Q == IF kind = "ask" THEN {q} ELSE {}
           e == Event("call", provider.active, FALSE, {c})
<1>4. c \in Calls /\ \A x : Ask(x) = c => x \in Q
  BY DEF Calls, Ask
<1>5. Q \in SUBSET (ToolQuestions \ provider.asked) /\ Q \in SUBSET Questions
  BY <1>3
<1>6. provider' = [provider EXCEPT !.calls = provider.calls \cup {c}, !.asked = provider.asked \cup Q]
  BY <1>1, <1>3 DEF Providers
<1>7. e \in Events /\ e.kind = "call" /\ e.r = provider.active /\ e.calls = {c}
  BY <1>1, <1>4 DEF Event, Events
<1>8. toGateway' = Append(toGateway, e) \/ UNCHANGED toGateway
  BY <1>3, Zenon
<1> HIDE DEF c, Q, e
<1>9. /\ provider' \in Providers /\ provider'.active = provider.active
      /\ provider'.calls = provider.calls \cup {c} /\ provider'.asked = provider.asked \cup Q
      /\ provider'.turns = provider.turns /\ provider'.made = provider.made
      /\ provider'.turnAt = provider.turnAt
  <2>1. provider \in Providers /\ c \in Calls /\ Q \in SUBSET Questions
    BY <1>1, <1>4, <1>5
  <2> QED BY <1>6, <2>1 DEF Providers
<1>10. IsFiniteSet(provider'.calls)
  <2>1. IsFiniteSet(provider.calls \cup {c})
    BY <1>1, FS_AddElement, Zenon
  <2> QED BY <1>9, <2>1
<1>11. /\ \A x : provider'.active # 0 /\ Ask(x) \in provider'.calls =>
            provider'.active = provider.active /\ (Ask(x) \in provider.calls \/ x \in Q)
       /\ provider.made <= provider'.made
       /\ \A r \in 1..provider.made : provider'.turnAt[r] = provider.turnAt[r]
       /\ crossed' \in SUBSET Questions /\ toProvider' \in Seq(Messages)
       /\ UNCHANGED <<gw, acks, stored, conf, sent, mistaken, failures>>
  BY <1>1, <1>2, <1>4, <1>9
<1>12. CASE UNCHANGED toGateway
  <2>1. WireInv(toGateway', provider', gw)
    BY <1>1, <1>9, <1>12, QuietProvider
  <2>2. /\ toGateway' \in Seq(Events) /\ FiniteCalls(toGateway')
        /\ \A i \in 1..Len(toGateway') : i \in 1..Len(toGateway) /\ toGateway'[i] = toGateway[i]
    BY <1>1, <1>12
  <2> QED BY <1>5, <1>9, <1>10, <1>11, <2>1, <2>2, ProviderStep
<1>13. CASE toGateway' = Append(toGateway, e)
  <2>1. Pushes(e, provider, provider')
    BY <1>2, <1>7, <1>9 DEF Pushes
  <2>2. WireInv(toGateway', provider', gw)
    BY <1>1, <1>7, <1>9, <1>13, <2>1, PushKeeps
  <2>3. IsFiniteSet(e.calls)
    BY <1>7, FS_Singleton
  <2>4. toGateway' \in Seq(Events) /\ FiniteCalls(toGateway')
    BY <1>1, <1>7, <1>13, <2>3, FiniteCallsAppend
  <2>5. /\ Len(toGateway') = Len(toGateway) + 1 /\ Len(toGateway) \in Nat
        /\ \A i \in 1..Len(toGateway) : toGateway'[i] = toGateway[i]
        /\ toGateway'[Len(toGateway) + 1] = e
    BY <1>1, <1>7, <1>13, AppendFacts
  <2>6. \A i \in 1..Len(toGateway') :
          \/ i \in 1..Len(toGateway) /\ toGateway'[i] = toGateway[i]
          \/ toGateway'[i] = e
    BY <2>5
  <2>7. \A x : Ask(x) \in e.calls => x \in Q
    BY <1>4, <1>7
  <2>8. \A i \in 1..Len(toGateway') :
          \/ i \in 1..Len(toGateway) /\ toGateway'[i] = toGateway[i]
          \/ toGateway'[i].calls = {}
          \/ /\ toGateway'[i].r = provider.active /\ provider.active # 0
             /\ \A x : Ask(x) \in toGateway'[i].calls => Ask(x) \in provider.calls \/ x \in Q
    BY <1>2, <1>7, <2>6, <2>7
  <2> QED BY <1>5, <1>9, <1>10, <1>11, <2>2, <2>4, <2>8, ProviderStep
<1> QED BY <1>8, <1>12, <1>13

-----------------------------------------------------------------------------
(* The steps of the gateway.                                                 *)

\* Events that are left when the first has been taken.
LEMMA TailEvents ==
  ASSUME NEW W \in Seq(Events), W # <<>>, FiniteCalls(W)
  PROVE  /\ Tail(W) \in Seq(Events) /\ FiniteCalls(Tail(W)) /\ Len(W) \in Nat /\ 1 \in 1..Len(W)
         /\ Head(W) = W[1] /\ Head(W) \in Events /\ IsFiniteSet(Head(W).calls)
         /\ Len(Tail(W)) = Len(W) - 1
         /\ \A i \in 1..Len(Tail(W)) : i + 1 \in 1..Len(W) /\ Tail(W)[i] = W[i + 1]
<1>1. /\ Len(W) \in Nat \ {0} /\ Head(W) = W[1] /\ Head(W) \in Events
      /\ Tail(W) \in Seq(Events) /\ Len(Tail(W)) = Len(W) - 1
      /\ \A i \in 1..(Len(W) - 1) : Tail(W)[i] = W[i + 1]
  BY TailFacts
<1>2. 1 \in 1..Len(W) /\ \A i \in 1..Len(Tail(W)) : i + 1 \in 1..Len(W) /\ Tail(W)[i] = W[i + 1]
  BY <1>1
<1> QED BY <1>1, <1>2 DEF FiniteCalls

\* The gateway h after an event that starts no calls.
LEMMA PopConsistent ==
  ASSUME Inv, toGateway # <<>>, NEW h, GatewayType(h), h.calls = gw.calls,
         Pops(Head(toGateway), gw, h), gw.turn <= h.turn, ToSpeak(h) \subseteq ToSpeak(gw),
         \A r \in gw.responding : h.turnOf[r] = gw.turnOf[r],
         \A r \in h.responding \ gw.responding :
           r \in 1..provider.made /\ h.turnOf[r] = provider.turnAt[r] /\ h.turnOf[r] <= h.turn
  PROVE  Consistent(Tail(toGateway), provider, h, sent, acks, stored, conf)
<1> DEFINE W == toGateway
<1>1. /\ W \in Seq(Events) /\ FiniteCalls(W) /\ provider \in Providers /\ sent \in SentTurns
      /\ gw \in Gateways /\ h \in Gateways
  BY InvFacts DEF StoreType, GatewayType
<1>2. /\ GatewayType(gw) /\ WireInv(W, provider, gw) /\ TurnsInv(provider, gw)
      /\ SentInv(gw, sent, acks, conf) /\ OnceInv(W, provider, gw, sent)
      /\ UnaskedInv(provider, sent) /\ AckInv(gw, acks, stored) /\ ByInv(provider, conf)
  BY DEF Inv, Consistent
<1>3. WireInv(Tail(W), provider, h)
  BY <1>1, <1>2, PopKeeps
<1>4. gw.turn \in Nat /\ h.turn \in Nat /\ gw.turnOf \in [Responses -> Nat] /\ gw.responding \in SUBSET Responses
      /\ gw.calls \in SUBSET Runs
  BY <1>1 DEF Gateways
<1>5. TurnsInv(provider, h)
  <2>1. ASSUME NEW r \in h.responding
        PROVE  r \in 1..provider.made /\ h.turnOf[r] = provider.turnAt[r] /\ h.turnOf[r] <= h.turn
    <3>1. CASE r \in gw.responding
      <4>1. r \in 1..provider.made /\ gw.turnOf[r] = provider.turnAt[r] /\ gw.turnOf[r] <= gw.turn
        BY <1>2, <3>1 DEF TurnsInv
      <4>2. gw.turnOf[r] \in Nat /\ h.turnOf[r] = gw.turnOf[r]
        BY <1>4, <3>1
      <4> QED BY <1>4, <4>1, <4>2
    <3>2. CASE r \notin gw.responding
      BY <3>2
    <3> QED BY <3>1, <3>2
  <2>2. ASSUME NEW c \in h.calls
        PROVE  /\ c.r \in 1..provider.made /\ c.turn = provider.turnAt[c.r] /\ c.turn <= h.turn
               /\ c.asks => c.kind = "ask"
    <3>1. /\ c.r \in 1..provider.made /\ c.turn = provider.turnAt[c.r] /\ c.turn <= gw.turn
          /\ c.asks => c.kind = "ask"
      BY <1>2 DEF TurnsInv
    <3>2. c.turn \in Nat
      BY <1>4 DEF Runs
    <3> QED BY <1>4, <3>1, <3>2
  <2> QED BY <2>1, <2>2 DEF TurnsInv
<1>6. SentInv(h, sent, acks, conf)
  <2>1. ASSUME NEW q \in ToSpeak(h) PROVE SentBy(q, h.turn, sent)
    <3>1. SentBy(q, gw.turn, sent) /\ q \in ToSpeak(gw)
      BY <1>2 DEF SentInv, ToSpeak
    <3>2. q \in Questions
      BY <1>1, <3>1 DEF ToSpeak, Gateways, Deliveries
    <3>3. sent[q] \in Nat \cup {NoTurn}
      BY <1>1, <3>2 DEF SentTurns
    <3> QED BY <1>4, <3>1, <3>3 DEF SentBy
  <2> QED BY <1>2, <2>1 DEF SentInv, ToSpeak
<1>7. OnceInv(Tail(W), provider, h, sent)
  <2>1. ASSUME NEW q, NEW r, Asks(q, r, Tail(W), provider, h) PROVE Asks(q, r, W, provider, gw)
    <3>1. CASE \E c \in h.calls : c.kind = "ask" /\ c.q = q /\ c.r = r
      BY <3>1 DEF Asks
    <3>2. CASE \E i \in 1..Len(Tail(W)) : Tail(W)[i].r = r /\ Ask(q) \in Tail(W)[i].calls
      <4>1. PICK i \in 1..Len(Tail(W)) : Tail(W)[i].r = r /\ Ask(q) \in Tail(W)[i].calls
        BY <3>2
      <4>2. i + 1 \in 1..Len(W) /\ W[i + 1] = Tail(W)[i]
        BY <1>1, TailEvents
      <4> QED BY <4>1, <4>2 DEF Asks
    <3>3. CASE provider.active = r /\ r # 0 /\ Ask(q) \in provider.calls
      BY <3>3 DEF Asks
    <3> QED BY <2>1, <3>1, <3>2, <3>3 DEF Asks
  <2> HIDE DEF W
  <2> QED BY <1>2, <2>1 DEF OnceInv
<1>8. AckInv(h, acks, stored)
  BY <1>2 DEF AckInv
<1> QED BY <1>2, <1>3, <1>5, <1>6, <1>7, <1>8 DEF Consistent

\* The step of the gateway is over.
LEMMA GatewayDone ==
  ASSUME Inv, UNCHANGED <<provider, stored, conf>>,
         toGateway' = toGateway \/ (toGateway # <<>> /\ toGateway' = Tail(toGateway)),
         toProvider' \in Seq(Messages), sent' \in SentTurns, crossed' \in SUBSET Questions,
         acks' \in Acks, mistaken' \in BOOLEAN, failures' \in Nat,
         Consistent(toGateway', provider, gw', sent', acks', stored, conf)
  PROVE  Inv'
<1>1. toGateway' \in Seq(Events) /\ FiniteCalls(toGateway')
  BY InvFacts, TailEvents
<1>2. ProviderType'
  BY DEF Inv, ProviderType
<1>3. StoreType'
  BY InvFacts DEF StoreType
<1>4. Consistent(toGateway', provider', gw', sent', acks', stored', conf')
  OBVIOUS
<1> QED BY <1>1, <1>2, <1>3, <1>4 DEF Inv, WireType

\* The user starts to speak.
LEMMA SpeechStartedStep ==
  ASSUME Inv, jarvisSpeechStarted
  PROVE  Inv'
<1>1. /\ toGateway # <<>> /\ Head(toGateway).kind = "speechStarted" /\ toGateway' = Tail(toGateway)
      /\ UNCHANGED <<toProvider, provider, acks, stored, conf, sent, crossed, mistaken, failures>>
  BY Zenon DEF jarvisSpeechStarted, Event1
<1>e. gw' = [gw EXCEPT !.speaking = TRUE]
  BY Zenon DEF jarvisSpeechStarted
<1>2. GatewayType(gw) /\ gw \in Gateways /\ gw.turn \in Nat
  BY InvFacts DEF Gateways
<1>4. /\ GatewayType(gw') /\ gw'.turn = gw.turn /\ gw'.responding = gw.responding
      /\ gw'.turnOf = gw.turnOf /\ gw'.calls = gw.calls /\ ToSpeak(gw') = ToSpeak(gw)
  <2>1. gw \in Gateways /\ gw.turn + 1 \in Nat
    BY <1>2
  <2>2. /\ gw' \in Gateways /\ gw'.turn = gw.turn /\ gw'.responding = gw.responding
        /\ gw'.turnOf = gw.turnOf /\ gw'.calls = gw.calls
        /\ gw'.unspoken = gw.unspoken /\ gw'.afterRequest = gw.afterRequest
    BY <1>e, <2>1 DEF Gateways
  <2> QED BY <1>2, <2>2 DEF GatewayType, ToSpeak
<1>5. Pops(Head(toGateway), gw, gw')
  BY <1>1, <1>4 DEF Pops
<1>6. Consistent(toGateway', provider, gw', sent, acks, stored, conf)
  BY <1>1, <1>2, <1>4, <1>5, PopConsistent
<1>7. StoreType /\ toProvider \in Seq(Messages)
  BY InvFacts
<1> QED BY <1>1, <1>6, <1>7, GatewayDone DEF StoreType

\* A turn of the user has ended.
LEMMA SpeechStoppedStep ==
  ASSUME Inv, jarvisSpeechStopped
  PROVE  Inv'
<1>1. /\ toGateway # <<>> /\ Head(toGateway).kind = "speechStopped" /\ toGateway' = Tail(toGateway)
      /\ UNCHANGED <<toProvider, provider, acks, stored, conf, sent, crossed, mistaken, failures>>
  BY Zenon DEF jarvisSpeechStopped, Event1
<1>e. gw' = [gw EXCEPT !.speaking = FALSE, !.turn = @ + 1]
  BY Zenon DEF jarvisSpeechStopped
<1>2. GatewayType(gw) /\ gw \in Gateways /\ gw.turn \in Nat /\ gw.turn + 1 \in Nat
  BY InvFacts DEF Gateways
<1>4. /\ GatewayType(gw') /\ gw'.turn = gw.turn + 1 /\ gw'.responding = gw.responding
      /\ gw'.turnOf = gw.turnOf /\ gw'.calls = gw.calls /\ ToSpeak(gw') = ToSpeak(gw)
  <2>1. gw \in Gateways /\ gw.turn + 1 \in Nat
    BY <1>2
  <2>2. /\ gw' \in Gateways /\ gw'.turn = gw.turn + 1 /\ gw'.responding = gw.responding
        /\ gw'.turnOf = gw.turnOf /\ gw'.calls = gw.calls
        /\ gw'.unspoken = gw.unspoken /\ gw'.afterRequest = gw.afterRequest
    BY <1>e, <2>1 DEF Gateways
  <2> QED BY <1>2, <2>2 DEF GatewayType, ToSpeak
<1>5. Pops(Head(toGateway), gw, gw')
  BY <1>1, <1>4 DEF Pops
<1>6. Consistent(toGateway', provider, gw', sent, acks, stored, conf)
  BY <1>1, <1>2, <1>4, <1>5, PopConsistent
<1>7. StoreType /\ toProvider \in Seq(Messages)
  BY InvFacts
<1> QED BY <1>1, <1>6, <1>7, GatewayDone DEF StoreType

\* Acknowledgements of the current turn are queued for questions that were sent.
LEMMA AcksGrow ==
  ASSUME NEW W, NEW p, NEW g, NEW s, NEW a \in Acks, NEW b \in Acks, NEW n \in Nat, NEW k,
         Consistent(W, p, g, s, a, n, k), Len(a) <= Len(b), \A i \in 1..Len(a) : b[i] = a[i],
         \A i \in 1..Len(b) : i > Len(a) => b[i].turn = g.turn /\ SentBy(b[i].q, g.turn, s)
  PROVE  Consistent(W, p, g, s, b, n, k)
<1>1. /\ GatewayType(g) /\ WireInv(W, p, g) /\ TurnsInv(p, g) /\ SentInv(g, s, a, k)
      /\ OnceInv(W, p, g, s) /\ UnaskedInv(p, s) /\ AckInv(g, a, n) /\ ByInv(p, k)
  BY DEF Consistent
<1>2. Len(a) \in Nat /\ Len(b) \in Nat
  BY DEF Acks
<1>3. SentInv(g, s, b, k)
  <2>1. ASSUME NEW i \in 1..Len(b) PROVE SentBy(b[i].q, b[i].turn, s)
    <3>1. CASE i <= Len(a)
      BY <1>1, <1>2, <3>1 DEF SentInv
    <3>2. CASE i > Len(a)
      BY <3>2
    <3> QED BY <1>2, <3>1, <3>2
  <2> QED BY <1>1, <2>1 DEF SentInv
<1>4. AckInv(g, b, n)
  <2> SUFFICES ASSUME NEW c \in g.calls
               PROVE  /\ c.barrier <= n + Len(b)
                      /\ \A i \in 1..Len(b) : n + i > c.barrier => b[i].turn >= c.turn
    BY DEF AckInv
  <2>1. c \in Runs /\ g.turn \in Nat
    BY <1>1 DEF GatewayType, Gateways
  <2>2. c.barrier \in Nat /\ c.turn \in Nat /\ c.turn <= g.turn
    BY <1>1, <2>1 DEF Runs, TurnsInv
  <2>3. /\ c.barrier <= n + Len(a)
        /\ \A i \in 1..Len(a) : n + i > c.barrier => a[i].turn >= c.turn
    BY <1>1 DEF AckInv
  <2>4. ASSUME NEW i \in 1..Len(b), n + i > c.barrier PROVE b[i].turn >= c.turn
    <3>1. CASE i <= Len(a)
      BY <1>2, <2>3, <2>4, <3>1
    <3>2. CASE i > Len(a)
      BY <2>1, <2>2, <3>2
    <3> QED BY <1>2, <3>1, <3>2
  <2> QED BY <1>2, <2>2, <2>3, <2>4
<1> QED BY <1>1, <1>3, <1>4 DEF Consistent

\* One sequence after another.
LEMMA JoinFacts ==
  ASSUME NEW S, NEW a \in Seq(S), NEW x \in Seq(S)
  PROVE  /\ a \o x \in Seq(S) /\ Len(a) \in Nat /\ Len(x) \in Nat /\ Len(a \o x) = Len(a) + Len(x)
         /\ \A i \in 1..Len(a) : (a \o x)[i] = a[i]
         /\ \A i \in 1..Len(a \o x) : i > Len(a) => i - Len(a) \in 1..Len(x) /\ (a \o x)[i] = x[i - Len(a)]
<1>1. Len(a) \in Nat /\ Len(x) \in Nat
  OBVIOUS
<1>2. a \o x \in Seq(S) /\ Len(a \o x) = Len(a) + Len(x)
  OBVIOUS
<1>3. \A i \in 1..Len(a) : (a \o x)[i] = a[i]
  OBVIOUS
<1>4. \A i \in 1..(Len(a) + Len(x)) : i > Len(a) => i - Len(a) \in 1..Len(x)
  BY <1>1
<1>5. \A i \in 1..(Len(a) + Len(x)) : i > Len(a) => (a \o x)[i] = x[i - Len(a)]
  BY <1>1
<1> QED BY <1>1, <1>2, <1>3, <1>4, <1>5

\* The queue a with the acknowledgements of the questions S.
Queued(a, S, t) == a \o [i \in DOMAIN SetToSeq(S) |-> [q |-> SetToSeq(S)[i], turn |-> t]]

\* Queueing the acknowledgements of a set of questions.
LEMMA QueueFacts ==
  ASSUME NEW a \in Acks, NEW S \in SUBSET Questions, IsFiniteSet(S), NEW t \in Nat, NEW b, b = Queued(a, S, t)
  PROVE  /\ b \in Acks /\ Len(a) <= Len(b) /\ \A i \in 1..Len(a) : b[i] = a[i]
         /\ \A i \in 1..Len(b) : i > Len(a) => b[i].turn = t /\ b[i].q \in S
<1> DEFINE A == [q : Questions, turn : Nat]
           m == Cardinality(S)
           x == [i \in 1..m |-> [q |-> SetToSeq(S)[i], turn |-> t]]
<1>1. m \in Nat /\ SetToSeq(S) \in [1..m -> S]
  BY SetToSeqFacts
<1>2. \A i \in 1..m : SetToSeq(S)[i] \in S
  BY <1>1
<1>3. DOMAIN SetToSeq(S) = 1..m
  BY <1>1
<1>4. b = a \o x
  BY <1>3 DEF Queued
<1>5. \A i \in 1..m : x[i] = [q |-> SetToSeq(S)[i], turn |-> t] /\ x[i] \in A
  BY <1>2
<1>6. \A i \in 1..m : x[i].turn = t /\ x[i].q \in S
  BY <1>2, <1>5
<1>7. x \in [1..m -> A]
  BY <1>5
<1>8. a \in Seq(A)
  BY DEF Acks
<1> HIDE DEF A, x, m
<1>s. x \in Seq(A) /\ Len(x) = m
  <2>1. m \in Nat
    BY <1>1 DEF m
  <2> QED BY <1>7, <2>1
<1>9. /\ b \in Seq(A) /\ Len(a) \in Nat /\ m \in Nat /\ Len(b) = Len(a) + m
      /\ \A i \in 1..Len(a) : b[i] = a[i]
      /\ \A i \in 1..Len(b) : i > Len(a) => i - Len(a) \in 1..m /\ b[i] = x[i - Len(a)]
  <2> DEFINE y == a \o x
  <2>1. /\ y \in Seq(A) /\ Len(a) \in Nat /\ Len(x) \in Nat /\ Len(y) = Len(a) + Len(x)
        /\ \A i \in 1..Len(a) : y[i] = a[i]
        /\ \A i \in 1..Len(y) : i > Len(a) => i - Len(a) \in 1..Len(x) /\ y[i] = x[i - Len(a)]
    BY <1>8, <1>s, JoinFacts, Zenon
  <2>2. b = y
    BY <1>4
  <2> HIDE DEF y
  <2> QED BY <1>s, <2>1, <2>2
<1>10. \A i \in 1..Len(b) : i > Len(a) => b[i].turn = t /\ b[i].q \in S
  BY <1>6, <1>9
<1>11. b \in Acks
  BY <1>9 DEF Acks, A
<1> QED BY <1>9, <1>10, <1>11

\* A response has begun: what was delivered before it counts as asked.
LEMMA ResponseCreatedStep ==
  ASSUME Inv, jarvisResponseCreated
  PROVE  Inv'
<1> DEFINE r == Head(toGateway).r
           to == [gw.turnOf EXCEPT ![r] = gw.turn]
<1>1. /\ toGateway # <<>> /\ Head(toGateway).kind = "created" /\ toGateway' = Tail(toGateway)
      /\ mistaken' = (mistaken \/ (gw.requested /\ Head(toGateway).auto))
      /\ UNCHANGED <<toProvider, provider, stored, conf, sent, crossed, failures>>
  BY Zenon DEF jarvisResponseCreated, Event1, AsAnswer
<1>2. gw' = [gw EXCEPT !.responding = @ \cup {r}, !.turnOf[r] = gw.turn,
                       !.unspoken = gw.afterRequest, !.afterRequest = Nothing,
                       !.requested = FALSE, !.createFailures = 0]
  BY Zenon DEF jarvisResponseCreated
<1>3. acks' = acks \o [i \in DOMAIN SetToSeq(gw.unspoken.acks) |->
                         [q |-> SetToSeq(gw.unspoken.acks)[i], turn |-> gw.turn]]
  BY Zenon DEF jarvisResponseCreated
<1>4. /\ GatewayType(gw) /\ gw \in Gateways /\ WireInv(toGateway, provider, gw)
      /\ TurnsInv(provider, gw) /\ provider \in Providers
      /\ toGateway \in Seq(Events) /\ FiniteCalls(toGateway) /\ toProvider \in Seq(Messages)
      /\ Consistent(toGateway, provider, gw, sent, acks, stored, conf) /\ StoreType
  BY InvFacts
<1>5. gw.turn \in Nat /\ gw.turnOf \in [Responses -> Nat] /\ gw.afterRequest \in Deliveries
      /\ gw.unspoken \in Deliveries /\ gw.responding \in SUBSET Responses
  BY <1>4 DEF Gateways
<1>6. 1 \in 1..Len(toGateway) /\ Head(toGateway) = toGateway[1] /\ Len(toGateway) \in Nat
  BY <1>1, <1>4, TailEvents
<1>7. r \in 1..provider.made
  BY <1>1, <1>4, <1>6 DEF WireInv, OrderInv
<1>8. r \in Responses
  BY <1>4, <1>7, BoundsAssumption DEF Providers, Responses
<1>9. provider.turnAt[r] = gw.turn
  <2>1. PICK f : Counts(f, toGateway, provider, gw)
    BY <1>4 DEF WireInv, ClockInv
  <2>2. f[1] = f[1 - 1] /\ provider.turnAt[r] = f[1]
    BY <1>1, <1>6, <2>1 DEF Counts
  <2> QED BY <2>1, <2>2 DEF Counts
<1>10. Nothing \in Deliveries /\ Nothing.acks = {}
  BY DEF Nothing, Deliveries
<1> HIDE DEF r
<1>11. to \in [Responses -> Nat] /\ to[r] = gw.turn /\ \A x \in Responses \ {r} : to[x] = gw.turnOf[x]
  BY <1>5, <1>8
<1>12. gw' = [gw EXCEPT !.responding = gw.responding \cup {r}, !.turnOf = to,
                       !.unspoken = gw.afterRequest, !.afterRequest = Nothing,
                       !.requested = FALSE, !.createFailures = 0]
  BY <1>2, <1>4 DEF Gateways
<1> HIDE DEF to
<1>13. /\ gw' \in Gateways /\ gw'.turn = gw.turn /\ gw'.responding = gw.responding \cup {r}
       /\ gw'.turnOf = to /\ gw'.unspoken = gw.afterRequest /\ gw'.afterRequest = Nothing
       /\ gw'.calls = gw.calls
  <2>1. /\ gw.responding \cup {r} \in SUBSET Responses /\ to \in [Responses -> Nat]
        /\ gw.afterRequest \in Deliveries /\ Nothing \in Deliveries /\ gw \in Gateways
    BY <1>4, <1>5, <1>8, <1>10, <1>11
  <2> HIDE DEF Nothing
  <2> QED BY <1>12, <2>1 DEF Gateways
<1>14. GatewayType(gw')
  BY <1>4, <1>10, <1>13, FS_EmptySet DEF GatewayType
<1>15. Pops(Head(toGateway), gw, gw')
  BY <1>1, <1>13 DEF Pops, r
<1>16. ToSpeak(gw') \subseteq ToSpeak(gw)
  BY <1>10, <1>13 DEF ToSpeak
<1>17. r \notin gw.responding
  BY <1>1, <1>4, <1>6 DEF WireInv, NewInv, r
<1>18. Consistent(toGateway', provider, gw', sent, acks, stored, conf)
  <2>1. \A x \in gw.responding : gw'.turnOf[x] = gw.turnOf[x]
    BY <1>5, <1>11, <1>13, <1>17
  <2>2. \A x \in gw'.responding \ gw.responding :
          x \in 1..provider.made /\ gw'.turnOf[x] = provider.turnAt[x] /\ gw'.turnOf[x] <= gw'.turn
    BY <1>5, <1>7, <1>9, <1>11, <1>13
  <2>3. gw.turn <= gw'.turn
    BY <1>5, <1>13
  <2> QED BY <1>1, <1>13, <1>14, <1>15, <1>16, <2>1, <2>2, <2>3, PopConsistent
<1>19. /\ acks' \in Acks /\ Len(acks) <= Len(acks') /\ \A i \in 1..Len(acks) : acks'[i] = acks[i]
       /\ \A i \in 1..Len(acks') : i > Len(acks) => acks'[i].turn = gw.turn /\ acks'[i].q \in gw.unspoken.acks
  <2>1. gw.unspoken.acks \in SUBSET Questions /\ IsFiniteSet(gw.unspoken.acks) /\ acks \in Acks
    BY <1>4, <1>5 DEF Deliveries, GatewayType, StoreType
  <2> DEFINE S == gw.unspoken.acks
  <2>2. acks' = Queued(acks, S, gw.turn)
    BY <1>3, Zenon DEF Queued
  <2>3. S \in SUBSET Questions /\ IsFiniteSet(S) /\ acks \in Acks /\ gw.turn \in Nat
    BY <1>5, <2>1
  <2> HIDE DEF S
  <2>4. /\ acks' \in Acks /\ Len(acks) <= Len(acks') /\ \A i \in 1..Len(acks) : acks'[i] = acks[i]
        /\ \A i \in 1..Len(acks') : i > Len(acks) => acks'[i].turn = gw.turn /\ acks'[i].q \in S
    BY <2>2, <2>3, QueueFacts
  <2> QED BY <2>4 DEF S
<1>20. \A q \in gw.unspoken.acks : SentBy(q, gw.turn, sent)
  BY <1>4 DEF Consistent, SentInv
<1>21. Consistent(toGateway', provider, gw', sent, acks', stored, conf)
  <2>1. acks \in Acks /\ stored \in Nat
    BY <1>4 DEF StoreType
  <2> QED BY <1>13, <1>18, <1>19, <1>20, <2>1, AcksGrow
<1>22. mistaken' \in BOOLEAN
  BY <1>1
<1> QED BY <1>1, <1>4, <1>19, <1>21, <1>22, GatewayDone DEF StoreType

\* The calls named by an event of a response.
HeadCalls(r, cs) ==
  /\ GatewayType(gw) /\ acks \in Acks /\ stored \in Nat
  /\ r \in gw.responding /\ cs \in SUBSET Calls /\ IsFiniteSet(cs)

\* They are of a response that the gateway knows.
LEMMA HeadCallsFacts ==
  ASSUME Inv, toGateway # <<>>, Head(toGateway).kind \in {"call", "done"}
  PROVE  HeadCalls(Head(toGateway).r, Head(toGateway).calls)
<1>1. /\ GatewayType(gw) /\ toGateway \in Seq(Events) /\ FiniteCalls(toGateway)
      /\ WireInv(toGateway, provider, gw) /\ StoreType
  BY InvFacts
<1>2. /\ Head(toGateway) = toGateway[1] /\ Head(toGateway) \in Events /\ IsFiniteSet(Head(toGateway).calls)
      /\ 1 \in 1..Len(toGateway)
  BY <1>1, TailEvents
<1>3. Head(toGateway).r \in gw.responding
  BY <1>1, <1>2 DEF WireInv, OrderInv
<1>4. Head(toGateway).calls \in SUBSET Calls
  BY <1>2 DEF Events
<1> QED BY <1>1, <1>2, <1>3, <1>4 DEF HeadCalls, StoreType

\* A response is over for the gateway.
LEMMA ForgetFacts ==
  ASSUME NEW g, GatewayType(g), NEW r
  PROVE  LET h == [g EXCEPT !.responding = g.responding \ {r}] IN
         /\ GatewayType(h) /\ h.turn = g.turn /\ h.responding = g.responding \ {r} /\ h.turnOf = g.turnOf
         /\ h.unspoken = g.unspoken /\ h.afterRequest = g.afterRequest /\ h.calls = g.calls
<1> DEFINE h == [g EXCEPT !.responding = g.responding \ {r}]
<1>1. g \in Gateways /\ g.responding \ {r} \in SUBSET Responses
  BY DEF GatewayType, Gateways
<1>2. /\ h \in Gateways /\ h.turn = g.turn /\ h.responding = g.responding \ {r} /\ h.turnOf = g.turnOf
      /\ h.unspoken = g.unspoken /\ h.afterRequest = g.afterRequest /\ h.calls = g.calls
  BY <1>1 DEF Gateways
<1> HIDE DEF h
<1>3. GatewayType(h)
  BY <1>2 DEF GatewayType
<1> QED BY <1>2, <1>3 DEF h

\* A call is announced: it is started, or answered at once if it is one too many.
LEMMA FunctionCallStep ==
  ASSUME Inv, jarvisFunctionCall
  PROVE  Inv'
<1> DEFINE r == Head(toGateway).r
           cs == Head(toGateway).calls
           g == Started(gw, r, cs)
<1>1. /\ toGateway # <<>> /\ Head(toGateway).kind = "call" /\ toGateway' = Tail(toGateway)
      /\ UNCHANGED <<provider, acks, stored, conf, mistaken, failures>>
  BY Zenon DEF jarvisFunctionCall, Event1
<1>2. deliver(g) \/ (gw' = g /\ UNCHANGED <<toProvider, sent, crossed>>)
  BY Zenon DEF jarvisFunctionCall
<1>3. HeadCalls(r, cs)
  BY <1>1, HeadCallsFacts
<1>4. /\ GatewayType(g) /\ gw.calls \subseteq g.calls
      /\ g.turn = gw.turn /\ g.responding = gw.responding /\ g.turnOf = gw.turnOf
      /\ g.unspoken = gw.unspoken /\ g.afterRequest = gw.afterRequest
      /\ \A d \in g.calls \ gw.calls :
           /\ d.r = r /\ d.turn = gw.turnOf[r] /\ d.barrier = stored + Len(acks) /\ ~d.asks
           /\ d.kind = "ask" => Ask(d.q) \in cs
  BY <1>3, StartedFacts DEF HeadCalls
<1> HIDE DEF g
<1>5. Consistent(Tail(toGateway), provider, g, sent, acks, stored, conf)
  BY <1>1, <1>4, StartedKeeps
<1>6. /\ StoreType /\ toProvider \in Seq(Messages) /\ Tail(toGateway) \in Seq(Events) /\ provider \in Providers
  BY <1>1, InvFacts, TailEvents
<1>7. /\ Consistent(Tail(toGateway), provider, gw', sent', acks, stored, conf)
      /\ toProvider' \in Seq(Messages) /\ sent' \in SentTurns /\ crossed' \in SUBSET Questions
  <2>1. CASE deliver(g)
    BY <1>5, <1>6, <2>1, DeliverKeeps
  <2>2. CASE gw' = g /\ UNCHANGED <<toProvider, sent, crossed>>
    BY <1>5, <1>6, <2>2 DEF StoreType
  <2> QED BY <1>2, <2>1, <2>2
<1> QED BY <1>1, <1>6, <1>7, GatewayDone DEF StoreType

\* A response has ended: what its calls returned is sent.
LEMMA ResponseDoneStep ==
  ASSUME Inv, jarvisResponseDone
  PROVE  Inv'
<1> DEFINE r == Head(toGateway).r
           cs == Head(toGateway).calls
           g == Started(gw, r, cs)
           h == [g EXCEPT !.responding = g.responding \ {r}]
<1>1. /\ toGateway # <<>> /\ Head(toGateway).kind = "done" /\ toGateway' = Tail(toGateway)
      /\ UNCHANGED <<provider, acks, stored, conf, mistaken, failures>>
  BY Zenon DEF jarvisResponseDone, Event1
<1>2. deliver(h)
  BY Zenon DEF jarvisResponseDone
<1>3. HeadCalls(r, cs)
  BY <1>1, HeadCallsFacts
<1>4. /\ GatewayType(g) /\ gw.calls \subseteq g.calls
      /\ g.turn = gw.turn /\ g.responding = gw.responding /\ g.turnOf = gw.turnOf
      /\ g.unspoken = gw.unspoken /\ g.afterRequest = gw.afterRequest
      /\ \A d \in g.calls \ gw.calls :
           /\ d.r = r /\ d.turn = gw.turnOf[r] /\ d.barrier = stored + Len(acks) /\ ~d.asks
           /\ d.kind = "ask" => Ask(d.q) \in cs
  BY <1>3, StartedFacts DEF HeadCalls
<1> HIDE DEF g
<1>5. /\ GatewayType(h) /\ h.turn = g.turn /\ h.responding = g.responding \ {r} /\ h.turnOf = g.turnOf
      /\ h.unspoken = g.unspoken /\ h.afterRequest = g.afterRequest /\ h.calls = g.calls
  BY <1>4, ForgetFacts
<1> HIDE DEF h
<1>6. Consistent(Tail(toGateway), provider, h, sent, acks, stored, conf)
  BY <1>1, <1>4, <1>5, StartedKeeps
<1>7. /\ StoreType /\ toProvider \in Seq(Messages) /\ Tail(toGateway) \in Seq(Events) /\ provider \in Providers
  BY <1>1, InvFacts, TailEvents
<1>8. /\ Consistent(Tail(toGateway), provider, gw', sent', acks, stored, conf)
      /\ toProvider' \in Seq(Messages) /\ sent' \in SentTurns /\ crossed' \in SUBSET Questions
  BY <1>2, <1>6, <1>7, DeliverKeeps
<1> QED BY <1>1, <1>7, <1>8, GatewayDone DEF StoreType

\* What a gateway does that hears of an error after it had asked for a response.
Failed(g) == [g EXCEPT !.requested = FALSE, !.unspoken = add(@, g.afterRequest),
                       !.afterRequest = Nothing, !.createFailures = @ + 1]

\* It still has the same to speak.
LEMMA FailedFacts ==
  ASSUME NEW g, GatewayType(g)
  PROVE  /\ GatewayType(Failed(g)) /\ Failed(g).turn = g.turn /\ Failed(g).responding = g.responding
         /\ Failed(g).turnOf = g.turnOf /\ Failed(g).calls = g.calls /\ ToSpeak(Failed(g)) = ToSpeak(g)
<1> DEFINE u == add(g.unspoken, g.afterRequest)
           n == g.createFailures + 1
           h == Failed(g)
<1>1. g \in Gateways /\ IsFiniteSet(g.calls) /\ IsFiniteSet(g.unspoken.acks) /\ IsFiniteSet(g.afterRequest.acks)
  BY DEF GatewayType
<1>2. g.unspoken \in Deliveries /\ g.afterRequest \in Deliveries /\ n \in Nat
  BY <1>1 DEF Gateways
<1>3. u \in Deliveries /\ u.acks = g.unspoken.acks \cup g.afterRequest.acks
  BY <1>2 DEF add, Deliveries
<1>4. Nothing \in Deliveries /\ Nothing.acks = {}
  BY DEF Nothing, Deliveries
<1>5. h = [g EXCEPT !.requested = FALSE, !.unspoken = u, !.afterRequest = Nothing, !.createFailures = n]
  BY DEF Failed
<1> HIDE DEF u, n, h
<1>6. /\ h \in Gateways /\ h.turn = g.turn /\ h.responding = g.responding /\ h.turnOf = g.turnOf
      /\ h.calls = g.calls /\ h.unspoken = u /\ h.afterRequest = Nothing
  BY <1>1, <1>2, <1>3, <1>4, <1>5 DEF Gateways
<1>7. GatewayType(h)
  <2>1. IsFiniteSet(h.unspoken.acks)
    BY <1>1, <1>3, <1>6, FS_Union
  <2>2. IsFiniteSet(h.afterRequest.acks)
    BY <1>4, <1>6, FS_EmptySet
  <2> QED BY <1>1, <1>6, <2>1, <2>2 DEF GatewayType
<1>8. ToSpeak(h) = ToSpeak(g)
  BY <1>3, <1>4, <1>6 DEF ToSpeak
<1> QED BY <1>6, <1>7, <1>8 DEF h

\* A gateway that gives up speaking keeps the questions.
LEMMA GivesUpFacts ==
  ASSUME NEW g, GatewayType(g)
  PROVE  LET h == [g EXCEPT !.unspoken.want = FALSE] IN
         /\ GatewayType(h) /\ h.turn = g.turn /\ h.responding = g.responding
         /\ h.turnOf = g.turnOf /\ h.calls = g.calls /\ ToSpeak(h) = ToSpeak(g)
<1> DEFINE u == [g.unspoken EXCEPT !.want = FALSE]
           h == [g EXCEPT !.unspoken.want = FALSE]
<1>1. g \in Gateways /\ IsFiniteSet(g.calls) /\ IsFiniteSet(g.unspoken.acks) /\ IsFiniteSet(g.afterRequest.acks)
  BY DEF GatewayType
<1>2. g.unspoken \in Deliveries
  BY <1>1 DEF Gateways
<1>3. u \in Deliveries /\ u.acks = g.unspoken.acks
  BY <1>2 DEF Deliveries
<1>5. h = [g EXCEPT !.unspoken = u]
  OBVIOUS
<1> HIDE DEF u, h
<1>6. /\ h \in Gateways /\ h.turn = g.turn /\ h.responding = g.responding /\ h.turnOf = g.turnOf
      /\ h.calls = g.calls /\ h.unspoken = u /\ h.afterRequest = g.afterRequest
  BY <1>1, <1>3, <1>5 DEF Gateways
<1>7. GatewayType(h)
  BY <1>1, <1>3, <1>6 DEF GatewayType
<1>8. ToSpeak(h) = ToSpeak(g)
  BY <1>3, <1>6 DEF ToSpeak
<1> QED BY <1>6, <1>7, <1>8 DEF h

\* Speaking without sending anything new.
LEMMA RespondKeeps ==
  ASSUME NEW W \in Seq(Events), NEW g, StoreType, toProvider \in Seq(Messages),
         Consistent(W, provider, g, sent, acks, stored, conf), SendAndRespond(g, <<>>)
  PROVE  /\ Consistent(W, provider, gw', sent', acks, stored, conf)
         /\ toProvider' \in Seq(Messages) /\ sent' \in SentTurns /\ crossed' \in SUBSET Questions
<1> DEFINE items == <<>>
           qs == {items[i].q : i \in DOMAIN items} \ {NoQuestion}
<1>1. items \in Seq(Messages) /\ DOMAIN items = {}
  <2>1. items \in Seq(Messages) /\ Len(items) = 0
    OBVIOUS
  <2> HIDE DEF items
  <2>2. DOMAIN items = 1..Len(items)
    BY <2>1
  <2> QED BY <2>1, <2>2
<1>2. qs = {}
  BY <1>1
<1>3. GatewayType(g) /\ g \in Gateways /\ sent \in SentTurns /\ acks \in Acks /\ conf \in Confirmations
      /\ crossed \in SUBSET Questions
  BY DEF Consistent, GatewayType, StoreType
<1>4. SendAndRespond(g, items)
  OBVIOUS
<1> HIDE DEF items
<1>5. /\ gw' \in Gateways
      /\ gw'.turn = g.turn /\ gw'.responding = g.responding /\ gw'.turnOf = g.turnOf
      /\ gw'.calls = g.calls /\ gw'.unspoken = g.unspoken /\ gw'.afterRequest = g.afterRequest
      /\ qs \in SUBSET Questions
      /\ sent' = SentNow(qs, g.turn, sent) /\ sent' \in SentTurns
      /\ toProvider' \in Seq(Messages)
      /\ crossed' \in SUBSET Questions
  BY <1>1, <1>3, <1>4, SendFacts
<1>6. GatewayType(gw') /\ ToSpeak(gw') = ToSpeak(g)
  BY <1>3, <1>5 DEF GatewayType, ToSpeak
<1>7. Consistent(W, provider, gw', sent', acks, stored, conf)
  <2> HIDE DEF qs
  <2>1. \A q \in qs : /\ sent[q] = NoTurn /\ (q \in ToolQuestions => q \in provider.asked)
                      /\ \A r \in Nat : ~Asks(q, r, W, provider, gw')
    BY <1>2
  <2>2. gw'.calls \subseteq g.calls /\ ToSpeak(gw') \subseteq ToSpeak(g) \cup qs
    BY <1>5, <1>6
  <2> QED BY <1>3, <1>5, <1>6, <2>1, <2>2, SendKeeps
<1> QED BY <1>5, <1>7

\* An error is taken for the failure of a request, if there is one.
LEMMA ProviderErrorStep ==
  ASSUME Inv, jarvisProviderError
  PROVE  Inv'
<1> DEFINE g == Failed(gw)
<1>1. /\ toGateway # <<>> /\ Head(toGateway).kind = "error" /\ toGateway' = Tail(toGateway)
      /\ mistaken' = (mistaken \/ (gw.requested /\ Head(toGateway).auto))
      /\ UNCHANGED <<provider, acks, stored, conf, failures>>
  BY Zenon DEF jarvisProviderError, Event1, AsAnswer
<1>2. \/ UNCHANGED <<toProvider, gw, sent, crossed>>
      \/ gw' = [g EXCEPT !.unspoken.want = FALSE] /\ UNCHANGED <<toProvider, sent, crossed>>
      \/ SendAndRespond(g, <<>>)
  BY Zenon DEF jarvisProviderError, Failed
<1>3. /\ GatewayType(gw) /\ gw \in Gateways /\ StoreType /\ toProvider \in Seq(Messages)
      /\ Tail(toGateway) \in Seq(Events) /\ gw.turn \in Nat
  BY <1>1, InvFacts, TailEvents DEF Gateways
<1>4. /\ GatewayType(g) /\ g.turn = gw.turn /\ g.responding = gw.responding
      /\ g.turnOf = gw.turnOf /\ g.calls = gw.calls /\ ToSpeak(g) = ToSpeak(gw)
  BY <1>3, FailedFacts
<1>5. mistaken' \in BOOLEAN
  BY <1>1
<1> HIDE DEF g
<1>6. ASSUME NEW h, GatewayType(h), h.turn = gw.turn, h.responding = gw.responding,
             h.turnOf = gw.turnOf, h.calls = gw.calls, ToSpeak(h) = ToSpeak(gw)
      PROVE  Consistent(Tail(toGateway), provider, h, sent, acks, stored, conf)
  <2>1. Pops(Head(toGateway), gw, h)
    BY <1>1, <1>6 DEF Pops
  <2> QED BY <1>1, <1>3, <1>6, <2>1, PopConsistent
<1>7. /\ Consistent(Tail(toGateway), provider, gw', sent', acks, stored, conf)
      /\ toProvider' \in Seq(Messages) /\ sent' \in SentTurns /\ crossed' \in SUBSET Questions
  <2>1. CASE UNCHANGED <<toProvider, gw, sent, crossed>>
    BY <1>3, <1>6, <2>1 DEF StoreType
  <2>2. CASE gw' = [g EXCEPT !.unspoken.want = FALSE] /\ UNCHANGED <<toProvider, sent, crossed>>
    <3>1. /\ GatewayType(gw') /\ gw'.turn = gw.turn /\ gw'.responding = gw.responding
          /\ gw'.turnOf = gw.turnOf /\ gw'.calls = gw.calls /\ ToSpeak(gw') = ToSpeak(gw)
      BY <1>4, <2>2, GivesUpFacts
    <3> QED BY <1>3, <1>6, <2>2, <3>1 DEF StoreType
  <2>3. CASE SendAndRespond(g, <<>>)
    <3>1. Consistent(Tail(toGateway), provider, g, sent, acks, stored, conf)
      BY <1>4, <1>6
    <3> QED BY <1>3, <2>3, <3>1, RespondKeeps
  <2> QED BY <1>2, <2>1, <2>2, <2>3
<1> QED BY <1>1, <1>3, <1>5, <1>7, GatewayDone DEF StoreType

-----------------------------------------------------------------------------
(* The calls that run, and their results.                                    *)

\* A call goes on: the call d that replaces c is the same call of the same
\* response.
LEMMA ReplaceKeeps ==
  ASSUME NEW W, NEW p, NEW g, NEW s, NEW a, NEW n, NEW k, Consistent(W, p, g, s, a, n, k),
         NEW c \in g.calls, NEW d \in Runs,
         d.kind = c.kind, d.q = c.q, d.r = c.r, d.turn = c.turn, d.barrier = c.barrier,
         d.asks => d.kind = "ask",
         NEW h, h = [g EXCEPT !.calls = (g.calls \ {c}) \cup {d}]
  PROVE  Consistent(W, p, h, s, a, n, k)
<1> DEFINE cs == (g.calls \ {c}) \cup {d}
<1>1. /\ GatewayType(g) /\ WireInv(W, p, g) /\ TurnsInv(p, g) /\ SentInv(g, s, a, k)
      /\ OnceInv(W, p, g, s) /\ UnaskedInv(p, s) /\ AckInv(g, a, n) /\ ByInv(p, k)
  BY DEF Consistent
<1>2. g \in Gateways /\ IsFiniteSet(g.calls) /\ g.calls \in SUBSET Runs
  BY <1>1 DEF GatewayType, Gateways
<1>3. IsFiniteSet(cs)
  <2>1. IsFiniteSet(g.calls \ {c})
    BY <1>2, FS_Subset
  <2> QED BY <2>1, FS_AddElement
<1>4. cs \in SUBSET Runs /\ h = [g EXCEPT !.calls = cs]
  BY <1>2
<1>5. \A x \in cs : x = d \/ x \in g.calls
  OBVIOUS
<1> HIDE DEF cs
<1>6. /\ h \in Gateways /\ h.turn = g.turn /\ h.responding = g.responding /\ h.turnOf = g.turnOf
      /\ h.unspoken = g.unspoken /\ h.afterRequest = g.afterRequest /\ h.calls = cs
  BY <1>2, <1>4 DEF Gateways
<1>7. GatewayType(h)
  BY <1>1, <1>3, <1>6 DEF GatewayType
<1>8. WireInv(W, p, h)
  <2>1. \A x \in h.calls : \E y \in g.calls : y.r = x.r
    BY <1>5, <1>6
  <2> QED BY <1>1, <1>6, <2>1, QuietKeeps
<1>9. TurnsInv(p, h)
  BY <1>1, <1>5, <1>6 DEF TurnsInv
<1>10. SentInv(h, s, a, k)
  BY <1>1, <1>6 DEF SentInv
<1>11. OnceInv(W, p, h, s)
  <2>1. \A q, r : Asks(q, r, W, p, h) => Asks(q, r, W, p, g)
    BY <1>5, <1>6 DEF Asks
  <2> QED BY <1>1, <2>1 DEF OnceInv
<1>12. AckInv(h, a, n)
  BY <1>1, <1>5, <1>6 DEF AckInv
<1> QED BY <1>1, <1>7, <1>8, <1>9, <1>10, <1>11, <1>12 DEF Consistent

HeldCall(c) == [c EXCEPT !.at = "held"]
BackCall(c, b) == [c EXCEPT !.at = "back", !.asks = b]

\* The result of a call is kept for the end of its response.
LEMMA HeldFacts ==
  ASSUME NEW c \in Runs, NEW d, d = HeldCall(c)
  PROVE  /\ d \in Runs /\ d.kind = c.kind /\ d.q = c.q /\ d.r = c.r /\ d.turn = c.turn
         /\ d.barrier = c.barrier /\ d.asks = c.asks
BY DEF Runs, HeldCall

\* A call returns.
LEMMA BackFacts ==
  ASSUME NEW c \in Runs, NEW b \in BOOLEAN, NEW d, d = BackCall(c, b)
  PROVE  /\ d \in Runs /\ d.kind = c.kind /\ d.q = c.q /\ d.r = c.r /\ d.turn = c.turn
         /\ d.barrier = c.barrier /\ d.asks = b
BY DEF Runs, BackCall

\* The result of a call is handled.
LEMMA ResultStep ==
  ASSUME Inv, jarvisResult
  PROVE  Inv'
<1>1. UNCHANGED <<toGateway, provider, acks, stored, conf, mistaken, failures>>
  BY Zenon DEF jarvisResult
<1>2. PICK c \in gw.calls : deliver([gw EXCEPT !.calls = (gw.calls \ {c}) \cup {[c EXCEPT !.at = "held"]}])
  BY Zenon DEF jarvisResult
<1> DEFINE d == HeldCall(c)
           h == [gw EXCEPT !.calls = (gw.calls \ {c}) \cup {d}]
<1>3. /\ StoreType /\ toProvider \in Seq(Messages) /\ toGateway \in Seq(Events) /\ provider \in Providers
      /\ Consistent(toGateway, provider, gw, sent, acks, stored, conf) /\ TurnsInv(provider, gw)
      /\ gw \in Gateways
  BY InvFacts
<1>4. c \in Runs
  BY <1>3 DEF Gateways
<1>5. /\ d \in Runs /\ d.kind = c.kind /\ d.q = c.q /\ d.r = c.r /\ d.turn = c.turn
      /\ d.barrier = c.barrier /\ d.asks = c.asks
  BY <1>4, HeldFacts
<1>6. d.asks => d.kind = "ask"
  BY <1>3, <1>5 DEF TurnsInv
<1>7. deliver(h)
  BY <1>2, Zenon DEF HeldCall
<1>8. h = [gw EXCEPT !.calls = (gw.calls \ {c}) \cup {d}]
  OBVIOUS
<1> HIDE DEF d, h
<1>9. Consistent(toGateway, provider, h, sent, acks, stored, conf)
  BY <1>3, <1>5, <1>6, <1>8, ReplaceKeeps
<1>10. /\ Consistent(toGateway, provider, gw', sent', acks, stored, conf)
       /\ toProvider' \in Seq(Messages) /\ sent' \in SentTurns /\ crossed' \in SUBSET Questions
  BY <1>3, <1>7, <1>9, DeliverKeeps
<1> QED BY <1>1, <1>3, <1>10, GatewayDone DEF StoreType

\* The confirmations change.
LEMMA ConfKeeps ==
  ASSUME NEW W, NEW p, NEW g, NEW s, NEW a, NEW n, NEW k, NEW k2, Consistent(W, p, g, s, a, n, k),
         \A q \in Questions : k2[q].asked # NoTurn => SentBy(q, k2[q].asked, s),
         ByInv(p, k2)
  PROVE  Consistent(W, p, g, s, a, n, k2)
<1>1. SentInv(g, s, a, k2)
  BY DEF Consistent, SentInv
<1> QED BY <1>1 DEF Consistent

ConfStates == {"none", "pending", "confirmed", "cancelled"}
Marked(k, q, st) == [k EXCEPT ![q].state = st]
Settled(k, q, st, b) == [k EXCEPT ![q].state = st, ![q].by = b]

\* The state of a confirmation changes.
LEMMA StateFacts ==
  ASSUME NEW k \in Confirmations, NEW q \in Questions,
         NEW st \in ConfStates,
         NEW k2, k2 = Marked(k, q, st)
  PROVE  /\ k2 \in Confirmations /\ \A x \in Questions : k2[x].asked = k[x].asked
         /\ \A x \in Questions \ {q} : k2[x] = k[x]
         /\ k2[q].state = st
BY DEF Confirmations, ConfStates, Marked

\* A confirmation is settled by the call of a response.
LEMMA SettledFacts ==
  ASSUME NEW k \in Confirmations, NEW q \in Questions,
         NEW st \in ConfStates, NEW b \in Nat,
         NEW k2, k2 = Settled(k, q, st, b)
  PROVE  /\ k2 \in Confirmations /\ \A x \in Questions : k2[x].asked = k[x].asked
         /\ \A x \in Questions \ {q} : k2[x] = k[x]
         /\ k2[q].state = st /\ k2[q].by = b
BY DEF Confirmations, ConfStates, Settled

\* A question is asked: nobody has confirmed it.
LEMMA PendingKeeps ==
  ASSUME NEW W, NEW p, NEW g, NEW s, NEW a, NEW n, NEW k \in Confirmations, NEW q \in Questions,
         Consistent(W, p, g, s, a, n, k), NEW k2, k2 = Marked(k, q, "pending")
  PROVE  k2 \in Confirmations /\ Consistent(W, p, g, s, a, n, k2)
<1>1. /\ k2 \in Confirmations /\ \A x \in Questions : k2[x].asked = k[x].asked
      /\ \A x \in Questions \ {q} : k2[x] = k[x]
      /\ k2[q].state = "pending"
  <2>1. "pending" \in ConfStates
    BY DEF ConfStates
  <2> QED BY <2>1, StateFacts
<1>2. ByInv(p, k) /\ SentInv(g, s, a, k)
  BY DEF Consistent
<1>3. ByInv(p, k2)
  <2> SUFFICES ASSUME NEW x \in Questions, k2[x].state = "confirmed"
               PROVE  k2[x].by \in 1..p.made /\ k2[x].asked # NoTurn /\ k2[x].asked < p.turnAt[k2[x].by]
    BY DEF ByInv
  <2>1. k2[x] = k[x]
    BY <1>1
  <2> QED BY <1>2, <2>1 DEF ByInv
<1>4. \A x \in Questions : k2[x].asked # NoTurn => SentBy(x, k2[x].asked, s)
  BY <1>1, <1>2 DEF SentInv
<1> QED BY <1>1, <1>3, <1>4, ConfKeeps

\* A confirmation counts in a response that began in a later turn than the
\* question was asked in, a cancellation always.
LEMMA SettleKeeps ==
  ASSUME NEW W, NEW p \in Providers, NEW g, NEW s, NEW a, NEW n, NEW k \in Confirmations, NEW q \in Questions,
         NEW r \in 1..p.made, NEW st \in {"confirmed", "cancelled"},
         st = "confirmed" => k[q].asked # NoTurn /\ k[q].asked < p.turnAt[r],
         Consistent(W, p, g, s, a, n, k), NEW k2, k2 = Settled(k, q, st, r)
  PROVE  k2 \in Confirmations /\ Consistent(W, p, g, s, a, n, k2)
<1>1. /\ k2 \in Confirmations /\ \A x \in Questions : k2[x].asked = k[x].asked
      /\ \A x \in Questions \ {q} : k2[x] = k[x]
      /\ k2[q].state = st /\ k2[q].by = r
  <2>1. st \in ConfStates /\ r \in Nat
    BY BoundsAssumption DEF ConfStates, Providers
  <2> QED BY <2>1, SettledFacts
<1>2. ByInv(p, k) /\ SentInv(g, s, a, k)
  BY DEF Consistent
<1>3. ByInv(p, k2)
  <2> SUFFICES ASSUME NEW x \in Questions, k2[x].state = "confirmed"
               PROVE  k2[x].by \in 1..p.made /\ k2[x].asked # NoTurn /\ k2[x].asked < p.turnAt[k2[x].by]
    BY DEF ByInv
  <2>1. CASE x = q
    BY <1>1, <2>1
  <2>2. CASE x # q
    <3>1. k2[x] = k[x]
      BY <1>1, <2>2
    <3> QED BY <1>2, <3>1 DEF ByInv
  <2> QED BY <2>1, <2>2
<1>4. \A x \in Questions : k2[x].asked # NoTurn => SentBy(x, k2[x].asked, s)
  BY <1>1, <1>2 DEF SentInv
<1> QED BY <1>1, <1>3, <1>4, ConfKeeps

\* A goroutine or a task has changed the confirmations: the rest stands.
LEMMA StoreDone ==
  ASSUME Inv, UNCHANGED <<toProvider, toGateway, provider, sent, crossed, mistaken>>,
         acks' \in Acks, stored' \in Nat, conf' \in Confirmations, failures' \in Nat,
         Consistent(toGateway, provider, gw', sent, acks', stored', conf')
  PROVE  Inv'
<1>1. ProviderType' /\ WireType'
  BY DEF Inv, ProviderType, WireType
<1>2. StoreType'
  BY InvFacts DEF StoreType
<1>3. Consistent(toGateway', provider', gw', sent', acks', stored', conf')
  OBVIOUS
<1> QED BY <1>1, <1>2, <1>3 DEF Inv

\* A call is done at the orchestrator, with or without an answer.
LEMMA RunCallStep ==
  ASSUME Inv, runCall
  PROVE  Inv'
<1>1. UNCHANGED <<toProvider, toGateway, provider, acks, stored, sent, crossed, mistaken>>
  BY Zenon DEF runCall
<1>2. PICK c \in gw.calls, answered \in BOOLEAN :
       /\ failures' = IF answered THEN failures ELSE failures + 1
       /\ gw' = [gw EXCEPT !.calls = (gw.calls \ {c}) \cup
                   {[c EXCEPT !.at = "back", !.asks = answered /\ c.kind = "ask"]}]
       /\ \/ /\ c.kind = "ask"
             /\ conf' = [conf EXCEPT ![c.q].state = "pending"]
          \/ c.kind # "ask" /\ Settle(c.q, c.r, c.turn, c.kind = "confirm")
          \/ ~answered /\ UNCHANGED conf
  BY Zenon DEF runCall
<1> DEFINE b == (answered /\ c.kind = "ask")
           d == BackCall(c, b)
<1>3. /\ StoreType /\ provider \in Providers /\ gw \in Gateways /\ TurnsInv(provider, gw)
      /\ Consistent(toGateway, provider, gw, sent, acks, stored, conf)
  BY InvFacts
<1>4. /\ conf \in Confirmations /\ failures \in Nat /\ acks \in Acks /\ stored \in Nat
  BY <1>3 DEF StoreType
<1>5. c \in Runs /\ c.q \in Questions /\ c.kind \in {"ask", "confirm", "cancel"}
  BY <1>3 DEF Gateways, Runs
<1>6. failures' \in Nat
  BY <1>2, <1>4
<1>7. gw' = [gw EXCEPT !.calls = (gw.calls \ {c}) \cup {d}]
  BY <1>2, Zenon DEF BackCall
<1>8. b \in BOOLEAN /\ (b => c.kind = "ask")
  OBVIOUS
<1> HIDE DEF b
<1>9. /\ d \in Runs /\ d.kind = c.kind /\ d.q = c.q /\ d.r = c.r /\ d.turn = c.turn
      /\ d.barrier = c.barrier /\ d.asks = b
  BY <1>5, <1>8, BackFacts
<1>10. d.asks => d.kind = "ask"
  BY <1>8, <1>9
<1> HIDE DEF d
<1>11. Consistent(toGateway, provider, gw', sent, acks, stored, conf)
  BY <1>3, <1>7, <1>9, <1>10, ReplaceKeeps
<1>12. conf' \in Confirmations /\ Consistent(toGateway, provider, gw', sent, acks, stored, conf')
  <2>1. CASE conf' = [conf EXCEPT ![c.q].state = "pending"]
    <3>1. conf' = Marked(conf, c.q, "pending")
      BY <2>1, Zenon DEF Marked
    <3> QED BY <1>4, <1>5, <1>11, <3>1, PendingKeeps
  <2>2. CASE c.kind # "ask" /\ Settle(c.q, c.r, c.turn, c.kind = "confirm")
    <3> DEFINE st == IF c.kind = "confirm" THEN "confirmed" ELSE "cancelled"
    <3>1. \/ conf' = conf
          \/ /\ conf' = Settled(conf, c.q, st, c.r)
             /\ c.kind = "confirm" => conf[c.q].asked # NoTurn /\ conf[c.q].asked < c.turn
      BY <2>2, Zenon DEF Settle, Settled
    <3>2. c.r \in 1..provider.made /\ c.turn = provider.turnAt[c.r]
      BY <1>3 DEF TurnsInv
    <3>3. st \in {"confirmed", "cancelled"} /\ (st = "confirmed" => c.kind = "confirm")
      OBVIOUS
    <3> HIDE DEF st
    <3>4. CASE conf' = conf
      BY <1>4, <1>11, <3>4
    <3>5. CASE /\ conf' = Settled(conf, c.q, st, c.r)
               /\ c.kind = "confirm" => conf[c.q].asked # NoTurn /\ conf[c.q].asked < c.turn
      <4>1. st = "confirmed" => conf[c.q].asked # NoTurn /\ conf[c.q].asked < provider.turnAt[c.r]
        BY <3>2, <3>3, <3>5
      <4> QED BY <1>3, <1>4, <1>5, <1>11, <3>2, <3>3, <3>5, <4>1, SettleKeeps
    <3> QED BY <3>1, <3>4, <3>5
  <2>3. CASE UNCHANGED conf
    BY <1>4, <1>11, <2>3
  <2> QED BY <1>2, <2>1, <2>2, <2>3
<1> QED BY <1>1, <1>4, <1>6, <1>12, StoreDone

\* A task stops for a question.
LEMMA TaskAsksStep ==
  ASSUME Inv, NEW q \in Questions, TaskAsks(q)
  PROVE  Inv'
<1>1. UNCHANGED <<toProvider, toGateway, provider, gw, acks, stored, sent, crossed, mistaken, failures>>
  BY Zenon DEF TaskAsks
<1>2. conf' = Marked(conf, q, "pending")
  BY Zenon DEF TaskAsks, Marked
<1>3. /\ conf \in Confirmations /\ failures \in Nat /\ acks \in Acks /\ stored \in Nat
      /\ Consistent(toGateway, provider, gw, sent, acks, stored, conf)
  BY InvFacts DEF StoreType
<1>4. conf' \in Confirmations /\ Consistent(toGateway, provider, gw, sent, acks, stored, conf')
  BY <1>2, <1>3, PendingKeeps
<1>5. Consistent(toGateway, provider, gw', sent, acks', stored', conf')
  BY <1>1, <1>4
<1> QED BY <1>1, <1>3, <1>4, <1>5, StoreDone

\* The question of a task is put into the conversation.
LEMMA NoticeStep ==
  ASSUME Inv, NEW q \in Questions, jarvisNotice(q)
  PROVE  Inv'
<1> DEFINE h == added(gw, {q})
           items == <<Item(q)>>
           qs == {items[i].q : i \in DOMAIN items} \ {NoQuestion}
<1>1. /\ q \in TaskQuestions /\ sent[q] = NoTurn
      /\ UNCHANGED <<toGateway, provider, acks, stored, conf, mistaken, failures>>
  BY Zenon DEF jarvisNotice
<1>2. SendAndRespond(h, items)
  BY Zenon DEF jarvisNotice
<1>3. /\ StoreType /\ toProvider \in Seq(Messages) /\ GatewayType(gw)
      /\ Consistent(toGateway, provider, gw, sent, acks, stored, conf)
      /\ sent \in SentTurns /\ acks \in Acks /\ conf \in Confirmations /\ crossed \in SUBSET Questions
  BY InvFacts DEF StoreType
<1>4. /\ GatewayType(h) /\ ToSpeak(h) = ToSpeak(gw) \cup {q}
      /\ h.turn = gw.turn /\ h.responding = gw.responding /\ h.turnOf = gw.turnOf /\ h.calls = gw.calls
  <2>1. {q} \in SUBSET Questions /\ IsFiniteSet({q})
    BY FS_Singleton
  <2> QED BY <1>3, <2>1, AddedFacts
<1>5. items \in Seq(Messages) /\ DOMAIN items = {1} /\ items[1].q = q
  <2>1. Item(q) \in Messages /\ Item(q).q = q
    BY DEF Item, Messages
  <2> HIDE DEF Item
  <2> QED BY <2>1
<1>6. qs = {q}
  <2> HIDE DEF items
  <2>1. q # NoQuestion
    BY QuestionsAssumption
  <2> QED BY <1>5, <2>1
<1> HIDE DEF h, items
<1>7. /\ gw' \in Gateways
      /\ gw'.turn = h.turn /\ gw'.responding = h.responding /\ gw'.turnOf = h.turnOf
      /\ gw'.calls = h.calls /\ gw'.unspoken = h.unspoken /\ gw'.afterRequest = h.afterRequest
      /\ qs \in SUBSET Questions
      /\ sent' = SentNow(qs, h.turn, sent) /\ sent' \in SentTurns
      /\ toProvider' \in Seq(Messages)
      /\ crossed' \in SUBSET Questions
  <2>1. h \in Gateways
    BY <1>4 DEF GatewayType
  <2> QED BY <1>2, <1>3, <1>5, <2>1, SendFacts
<1> HIDE DEF qs
<1>8. GatewayType(gw') /\ ToSpeak(gw') = ToSpeak(gw) \cup qs
  BY <1>4, <1>6, <1>7 DEF GatewayType, ToSpeak
<1>9. q \notin ToolQuestions
  BY <1>1, QuestionsAssumption
<1>10. \A r \in Nat : ~Asks(q, r, toGateway, provider, gw')
  <2>1. \A r : Asks(q, r, toGateway, provider, gw') => Asks(q, r, toGateway, provider, gw)
    BY <1>4, <1>7 DEF Asks
  <2>2. OnceInv(toGateway, provider, gw, sent)
    BY <1>3 DEF Consistent
  <2> QED BY <1>9, <2>1, <2>2 DEF OnceInv
<1>11. Consistent(toGateway, provider, gw', sent', acks, stored, conf)
  <2>1. \A x \in qs : /\ sent[x] = NoTurn /\ (x \in ToolQuestions => x \in provider.asked)
                      /\ \A r \in Nat : ~Asks(x, r, toGateway, provider, gw')
    BY <1>1, <1>6, <1>9, <1>10
  <2>2. /\ gw'.turn = gw.turn /\ gw'.responding = gw.responding /\ gw'.turnOf = gw.turnOf
        /\ gw'.calls \subseteq gw.calls /\ ToSpeak(gw') \subseteq ToSpeak(gw) \cup qs
        /\ sent' = SentNow(qs, gw.turn, sent) /\ qs \in SUBSET Questions
    BY <1>4, <1>7, <1>8
  <2> QED BY <1>3, <1>8, <2>1, <2>2, SendKeeps
<1> QED BY <1>1, <1>3, <1>7, <1>11, GatewayDone DEF StoreType

\* The first turn in which a question was asked counts.
AskedAt(k, q, t) == [k EXCEPT ![q].asked = IF @ = NoTurn THEN t ELSE @]

\* It is noted once.
LEMMA AskedFacts ==
  ASSUME NEW k \in Confirmations, NEW q \in Questions, NEW t \in Nat, NEW k2, k2 = AskedAt(k, q, t)
  PROVE  /\ k2 \in Confirmations
         /\ \A x \in Questions : k2[x].state = k[x].state /\ k2[x].by = k[x].by
         /\ \A x \in Questions : x # q \/ k[x].asked # NoTurn => k2[x].asked = k[x].asked
         /\ k[q].asked = NoTurn => k2[q].asked = t
<1> DEFINE new == IF k[q].asked = NoTurn THEN t ELSE k[q].asked
<1>1. k2 = [k EXCEPT ![q].asked = new]
  BY DEF AskedAt, Confirmations
<1>2. new \in Nat \cup {NoTurn} /\ (k[q].asked # NoTurn => new = k[q].asked) /\ (k[q].asked = NoTurn => new = t)
  BY DEF Confirmations
<1> HIDE DEF new
<1>3. /\ k2 \in Confirmations
      /\ \A x \in Questions : k2[x].state = k[x].state /\ k2[x].by = k[x].by
      /\ \A x \in Questions \ {q} : k2[x].asked = k[x].asked
      /\ k2[q].asked = new
  BY <1>1, <1>2 DEF Confirmations
<1> QED BY <1>2, <1>3

\* An acknowledgement is stored, or lost.
LEMMA SendAckStep ==
  ASSUME Inv, sendAck
  PROVE  Inv'
<1>1. /\ acks # <<>> /\ acks' = Tail(acks) /\ stored' = stored + 1
      /\ UNCHANGED <<toProvider, toGateway, provider, gw, sent, crossed, mistaken>>
  BY Zenon DEF sendAck
<1>2. \/ conf' = AskedAt(conf, Head(acks).q, Head(acks).turn) /\ failures' = failures
      \/ failures' = failures + 1 /\ conf' = conf
  BY Zenon DEF sendAck, MarkAsked, AskedAt
<1>3. /\ StoreType /\ acks \in Acks /\ stored \in Nat /\ conf \in Confirmations /\ failures \in Nat
      /\ Consistent(toGateway, provider, gw, sent, acks, stored, conf)
  BY InvFacts DEF StoreType
<1>4. /\ SentInv(gw, sent, acks, conf) /\ AckInv(gw, acks, stored) /\ ByInv(provider, conf) /\ GatewayType(gw)
  BY <1>3 DEF Consistent
<1>5. /\ Len(acks) \in Nat \ {0} /\ Head(acks) = acks[1] /\ acks' \in Acks /\ Len(acks') = Len(acks) - 1
      /\ \A i \in 1..(Len(acks) - 1) : acks'[i] = acks[i + 1]
  <2> DEFINE A == [q : Questions, turn : Nat]
  <2>1. acks \in Seq(A)
    BY <1>3 DEF Acks
  <2> HIDE DEF A
  <2>2. /\ Len(acks) \in Nat \ {0} /\ Head(acks) = acks[1] /\ Tail(acks) \in Seq(A) /\ Len(Tail(acks)) = Len(acks) - 1
        /\ \A i \in 1..(Len(acks) - 1) : Tail(acks)[i] = acks[i + 1]
    BY <1>1, <2>1, TailFacts
  <2> QED BY <1>1, <2>2 DEF Acks, A
<1>6. SentInv(gw, sent, acks', conf)
  BY <1>4, <1>5 DEF SentInv
<1>7. AckInv(gw, acks', stored + 1)
  <2> SUFFICES ASSUME NEW c \in gw.calls
               PROVE  /\ c.barrier <= stored + 1 + Len(acks')
                      /\ \A i \in 1..Len(acks') : stored + 1 + i > c.barrier => acks'[i].turn >= c.turn
    BY DEF AckInv
  <2>1. /\ c.barrier <= stored + Len(acks)
        /\ \A i \in 1..Len(acks) : stored + i > c.barrier => acks[i].turn >= c.turn
    BY <1>4 DEF AckInv
  <2>2. c \in Runs
    BY <1>4 DEF GatewayType, Gateways
  <2>3. c.barrier \in Nat
    BY <2>2 DEF Runs
  <2>4. ASSUME NEW i \in 1..Len(acks'), stored + 1 + i > c.barrier PROVE acks'[i].turn >= c.turn
    <3>1. i + 1 \in 1..Len(acks) /\ acks'[i] = acks[i + 1] /\ stored + (i + 1) > c.barrier
      BY <1>3, <1>5, <2>3, <2>4
    <3> QED BY <2>1, <3>1
  <2> QED BY <1>3, <1>5, <2>1, <2>3, <2>4
<1>8. Consistent(toGateway, provider, gw, sent, acks', stored + 1, conf)
  BY <1>3, <1>6, <1>7 DEF Consistent
<1>9. /\ conf' \in Confirmations /\ failures' \in Nat
      /\ Consistent(toGateway, provider, gw, sent, acks', stored + 1, conf')
  <2>1. CASE conf' = AskedAt(conf, Head(acks).q, Head(acks).turn) /\ failures' = failures
    <3> DEFINE q == Head(acks).q
               t == Head(acks).turn
    <3>1. q \in Questions /\ t \in Nat
      BY <1>3, <1>5, AckFacts
    <3>2. SentBy(q, t, sent)
      BY <1>4, <1>5 DEF SentInv
    <3> HIDE DEF q, t
    <3>3. conf' = AskedAt(conf, q, t)
      BY <2>1 DEF q, t
    <3>4. /\ conf' \in Confirmations
          /\ \A x \in Questions : conf'[x].state = conf[x].state /\ conf'[x].by = conf[x].by
          /\ \A x \in Questions : x # q \/ conf[x].asked # NoTurn => conf'[x].asked = conf[x].asked
          /\ conf[q].asked = NoTurn => conf'[q].asked = t
      BY <1>3, <3>1, <3>3, AskedFacts, SMTT(30)
    <3>5. \A x \in Questions : conf'[x].asked # NoTurn => SentBy(x, conf'[x].asked, sent)
      BY <1>4, <3>2, <3>4 DEF SentInv
    <3>6. ByInv(provider, conf')
      BY <1>4, <3>4 DEF ByInv
    <3>7. Consistent(toGateway, provider, gw, sent, acks', stored + 1, conf')
      BY <1>8, <3>5, <3>6, ConfKeeps
    <3> QED BY <1>3, <2>1, <3>4, <3>7
  <2>2. CASE failures' = failures + 1 /\ conf' = conf
    BY <1>3, <1>8, <2>2
  <2> QED BY <1>2, <2>1, <2>2
<1>10. stored' \in Nat /\ Consistent(toGateway, provider, gw', sent, acks', stored', conf')
  BY <1>1, <1>3, <1>9
<1> QED BY <1>1, <1>5, <1>9, <1>10, StoreDone

-----------------------------------------------------------------------------
(* The theorems.                                                             *)

\* A conversation begins consistent.
LEMMA InitInv == Init => Inv
<1> SUFFICES ASSUME Init PROVE Inv
  OBVIOUS
<1>1. /\ toProvider = <<>> /\ toGateway = <<>> /\ acks = <<>> /\ stored = 0
      /\ crossed = {} /\ mistaken = FALSE /\ failures = 0
      /\ conf = [q \in Questions |-> [state |-> "none", asked |-> NoTurn, by |-> 0]]
      /\ sent = [q \in Questions |-> NoTurn]
  BY DEF Init
<1>2. provider = [ctx |-> {}, active |-> 0, speaking |-> FALSE, turns |-> 0, made |-> 0,
                  knows |-> [r \in Responses |-> {}], turnAt |-> [r \in Responses |-> 0],
                  calls |-> {}, asked |-> {}, errors |-> 0]
  BY DEF Init
<1>3. gw = [turn |-> 0, speaking |-> FALSE, responding |-> {}, turnOf |-> [r \in Responses |-> 0],
            unspoken |-> Nothing, afterRequest |-> Nothing, requested |-> FALSE,
            createFailures |-> 0, calls |-> {}]
  BY DEF Init
<1>4. ProviderType
  <2>1. [r \in Responses |-> {}] \in [Responses -> SUBSET Questions] /\ [r \in Responses |-> 0] \in [Responses -> Nat]
    OBVIOUS
  <2>2. 0 \in 0..MaxResponses
    BY BoundsAssumption
  <2>3. provider \in Providers
    BY <1>2, <2>1, <2>2 DEF Providers
  <2> QED BY <1>2, <2>3, FS_EmptySet DEF ProviderType
<1>5. GatewayType(gw)
  <2>1. Nothing \in Deliveries /\ Nothing.acks = {}
    BY DEF Nothing, Deliveries
  <2>2. [r \in Responses |-> 0] \in [Responses -> Nat]
    OBVIOUS
  <2> HIDE DEF Nothing
  <2>3. gw \in Gateways
    BY <1>3, <2>1, <2>2 DEF Gateways
  <2> QED BY <1>3, <2>1, <2>3, FS_EmptySet DEF GatewayType
<1>6. WireType
  BY <1>1 DEF WireType, FiniteCalls
<1>7. StoreType
  <2>1. acks \in Acks
    BY <1>1 DEF Acks
  <2>2. conf \in Confirmations /\ sent \in SentTurns
    BY <1>1 DEF Confirmations, SentTurns
  <2> QED BY <1>1, <2>1, <2>2 DEF StoreType
<1>8. WireInv(toGateway, provider, gw)
  <2>0. Len(toGateway) = 0 /\ gw.turn = 0 /\ provider.turns = 0 /\ provider.active = 0 /\ provider.made = 0
    BY <1>1, <1>2, <1>3
  <2>1. Counts([i \in 0..0 |-> 0], toGateway, provider, gw)
    BY <2>0 DEF Counts
  <2>2. ClockInv(toGateway, provider, gw)
    BY <2>1 DEF ClockInv
  <2>3. OrderInv(toGateway, provider, gw) /\ ActiveInv(toGateway, provider, gw) /\ NewInv(toGateway, gw)
    BY <2>0 DEF OrderInv, ActiveInv, NewInv
  <2> QED BY <2>2, <2>3 DEF WireInv
<1>9. TurnsInv(provider, gw) /\ AckInv(gw, acks, stored)
  BY <1>3 DEF TurnsInv, AckInv
<1>10. SentInv(gw, sent, acks, conf)
  BY <1>1, <1>3 DEF SentInv, Nothing
<1>11. OnceInv(toGateway, provider, gw, sent)
  <2>1. \A q, r : ~Asks(q, r, toGateway, provider, gw)
    BY <1>1, <1>2, <1>3 DEF Asks
  <2> QED BY <2>1 DEF OnceInv
<1>12. UnaskedInv(provider, sent) /\ ByInv(provider, conf)
  BY <1>1 DEF UnaskedInv, ByInv, Questions
<1> QED BY <1>1, <1>4, <1>5, <1>6, <1>7, <1>8, <1>9, <1>10, <1>11, <1>12 DEF Inv, Consistent

\* Every step keeps the invariant.
LEMMA NextInv == Inv /\ [Next]_vars => Inv'
<1> SUFFICES ASSUME Inv, [Next]_vars PROVE Inv'
  OBVIOUS
<1>1. CASE UserSpeaks
  BY <1>1, UserSpeaksStep
<1>2. CASE UserStops
  BY <1>2, UserStopsStep
<1>3. CASE Receive
  BY <1>3, ReceiveStep
<1>4. CASE ModelCalls
  BY <1>4, ModelCallsStep
<1>5. CASE ResponseEnds
  BY <1>5, ResponseEndsStep
<1>6. CASE StrayError
  BY <1>6, StrayErrorStep
<1>7. CASE GatewayEvent
  BY <1>7, SpeechStartedStep, SpeechStoppedStep, ResponseCreatedStep, FunctionCallStep,
     ResponseDoneStep, ProviderErrorStep DEF GatewayEvent
<1>8. CASE jarvisResult
  BY <1>8, ResultStep
<1>9. CASE sendAck
  BY <1>9, SendAckStep
<1>10. CASE runCall
  BY <1>10, RunCallStep
<1>11. CASE \E q \in Questions : jarvisNotice(q) \/ TaskAsks(q)
  BY <1>11, NoticeStep, TaskAsksStep
<1>12. CASE UNCHANGED vars
  BY <1>12 DEF vars, Inv, ProviderType, WireType, StoreType
<1> QED BY <1>1, <1>2, <1>3, <1>4, <1>5, <1>6, <1>7, <1>8, <1>9, <1>10, <1>11, <1>12, Zenon DEF Next

\* The gateway, the provider, the messages between them and what the
\* orchestrator knows stay consistent: the turns that the gateway has counted
\* and those that are on their way are the provider's, a call has the turn of
\* its response, and what is acknowledged was sent (jarvis.go).
THEOREM ConsentInvHolds == Spec => []Inv
BY InitInv, NextInv, PTL DEF Spec

\* An action runs only if the response that confirms it began after a user
\* turn that ended after the question was sent (store.Settle with the turns
\* of the gateway), whatever crosses on the wire, is lost or fails.
THEOREM ConsentGivenAlways == Spec => []ConsentGiven
<1>1. Inv => ConsentGiven
  <2> SUFFICES ASSUME Inv, NEW q \in Questions, conf[q].state = "confirmed"
               PROVE  sent[q] # NoTurn /\ sent[q] < provider.turnAt[conf[q].by]
    BY DEF ConsentGiven
  <2>1. /\ SentInv(gw, sent, acks, conf) /\ ByInv(provider, conf) /\ StoreType /\ provider \in Providers
    BY InvFacts DEF Consistent
  <2>2. /\ conf[q].by \in 1..provider.made /\ conf[q].asked # NoTurn
        /\ conf[q].asked < provider.turnAt[conf[q].by]
    BY <2>1 DEF ByInv
  <2>3. sent[q] # NoTurn /\ sent[q] <= conf[q].asked
    BY <2>1, <2>2 DEF SentInv, SentBy
  <2>4. sent[q] \in Nat /\ conf[q].asked \in Nat
    BY <2>1, <2>2, <2>3 DEF StoreType, SentTurns, Confirmations
  <2>5. conf[q].by \in Responses
    BY <2>1, <2>2, BoundsAssumption DEF Providers, Responses
  <2>6. provider.turnAt[conf[q].by] \in Nat
    BY <2>1, <2>5 DEF Providers
  <2> QED BY <2>2, <2>3, <2>4, <2>6
<1> QED BY <1>1, ConsentInvHolds, PTL

\* A call that may run finds no acknowledgement of an earlier turn still
\* queued: jarvisFunctionCall has it wait for all of them (jarvis.go).
THEOREM AcksFirstAlways == Spec => []AcksFirst
<1>1. Inv => AcksFirst
  <2> SUFFICES ASSUME Inv, NEW c \in gw.calls, c.barrier <= stored, NEW i \in DOMAIN acks
               PROVE  acks[i].turn >= c.turn
    BY DEF AcksFirst
  <2>1. AckInv(gw, acks, stored) /\ StoreType /\ gw \in Gateways
    BY InvFacts DEF Consistent
  <2>2. c \in Runs /\ stored \in Nat /\ acks \in Acks
    BY <2>1 DEF StoreType, Gateways
  <2>3. c.barrier \in Nat
    BY <2>2 DEF Runs
  <2>4. i \in 1..Len(acks)
    BY <2>2 DEF Acks
  <2>5. stored + i > c.barrier
    BY <2>2, <2>3, <2>4
  <2> QED BY <2>1, <2>4, <2>5 DEF AckInv
<1> QED BY <1>1, ConsentInvHolds, PTL

-----------------------------------------------------------------------------
(* The turn stored for a question: the invariant.                            *)

\* The answer of the provider to a response.create.
IsAnswer(e) == e.kind \in {"created", "error"} /\ ~e.auto

IsCreate(m) == m.kind = "create"

\* The rest is about the messages M on their way to the provider, the events W
\* on their way to the gateway, the provider p, the gateway g, and the turns s.
\* The provider and its responses know only what was sent.
KnowsInv(M, p, s) ==
  /\ \A r \in Responses : p.knows[r] \subseteq p.ctx /\ (r > p.made => p.knows[r] = {})
  /\ \A q \in p.ctx : s[q] # NoTurn
  /\ \A i \in 1..Len(M) : /\ M[i].q # NoQuestion => s[M[i].q] # NoTurn
                          /\ IsCreate(M[i]) => M[i].q = NoQuestion

\* A request of the gateway is on one of the wires, there or back, until it is
\* answered: there is only one.
RequestInv(M, W, g) ==
  /\ \A i, j \in 1..Len(M) : IsCreate(M[i]) /\ IsCreate(M[j]) => i = j
  /\ \A i, j \in 1..Len(W) : IsAnswer(W[i]) /\ IsAnswer(W[j]) => i = j
  /\ \A i \in 1..Len(M), j \in 1..Len(W) : ~(IsCreate(M[i]) /\ IsAnswer(W[j]))
  /\ g.requested <=> \/ \E i \in 1..Len(M) : IsCreate(M[i])
                     \/ \E i \in 1..Len(W) : IsAnswer(W[i])
  /\ ~g.requested => g.afterRequest.acks = {}

\* No response up to number m knows q.
Unknown(q, m, p) == \A r \in 1..m : q \notin p.knows[r]

OnItsWay(q, M) == \E i \in 1..Len(M) : M[i].q = q

\* The first response that is created after the events 1..n is the first that
\* knows q, whether the provider has created it already or not.
KnownAfter(n, q, M, W, p) ==
  /\ OnItsWay(q, M) \/ q \in p.ctx
  /\ OnItsWay(q, M) => \A i \in (n + 1)..Len(W) : W[i].kind # "created"
  /\ \A i \in (n + 1)..Len(W) : W[i].kind = "created" =>
       \/ \E j \in (n + 1)..(i - 1) : W[j].kind = "created"
       \/ q \in p.knows[W[i].r] /\ Unknown(q, W[i].r - 1, p)
  /\ (\A i \in (n + 1)..Len(W) : W[i].kind # "created") => Unknown(q, p.made, p)

\* A question that the next response speaks ...
SpokenNext(q, M, W, p) ==
  /\ KnownAfter(0, q, M, W, p)
  /\ \A i, j \in 1..Len(M) : IsCreate(M[i]) /\ M[j].q = q => j < i

\* ... and one that was sent after a request: on the wire it is behind the
\* request, or it counts from the answer.
SpokenLater(q, M, W, p) ==
  \/ /\ \E i \in 1..Len(M) : IsCreate(M[i])
     /\ \A i, j \in 1..Len(M) : IsCreate(M[i]) /\ M[j].q = q => i < j
     /\ OnItsWay(q, M) /\ q \notin p.ctx
     /\ \A i \in 1..Len(W) : W[i].kind # "created"
  \/ \E n \in 1..Len(W) :
       /\ IsAnswer(W[n])
       /\ \A i \in 1..(n - 1) : W[i].kind # "created"
       /\ KnownAfter(n, q, M, W, p)

ToSpeakInv(q, M, W, p, g) ==
  /\ q \in g.unspoken.acks => SpokenNext(q, M, W, p)
  /\ q \in g.afterRequest.acks => SpokenLater(q, M, W, p)

\* Turn t is that of the first response that knows q.
SpokenIn(q, t, p) ==
  \E r \in Responses : q \in p.knows[r] /\ p.turnAt[r] = t /\ Unknown(q, r - 1, p)

SpokenInv(q, a, k, p) ==
  /\ \A i \in 1..Len(a) : a[i].q = q => SpokenIn(q, a[i].turn, p)
  /\ k[q].asked # NoTurn => SpokenIn(q, k[q].asked, p)

SpeechInv(M, W, p, g, a, k, x) ==
  /\ RequestInv(M, W, g)
  /\ \A q \in Questions \ x : ToSpeakInv(q, M, W, p, g) /\ SpokenInv(q, a, k, p)

AskedInv ==
  /\ KnowsInv(toProvider, provider, sent)
  /\ mistaken \/ SpeechInv(toProvider, toGateway, provider, gw, acks, conf, crossed)

-----------------------------------------------------------------------------
(* Events put on the wire.                                                   *)

\* What the provider and its responses know.
SameKnowledge(p, p2) ==
  p2.ctx = p.ctx /\ p2.knows = p.knows /\ p2.made = p.made /\ p2.turnAt = p.turnAt

\* The responses on the wire were made.
Announced(W, p) == \A i \in 1..Len(W) : W[i].kind = "created" => W[i].r \in 1..p.made

\* Another event does not change who is the first to know a question.
LEMMA PushKnown ==
  ASSUME NEW q, NEW M, NEW W \in Seq(Events), NEW e \in Events, e.kind # "created", NEW n \in 0..Len(W),
         NEW p, NEW p2, SameKnowledge(p, p2), KnownAfter(n, q, M, W, p)
  PROVE  KnownAfter(n, q, M, Append(W, e), p2)
<1> DEFINE V == Append(W, e)
<1>1. /\ Len(V) = Len(W) + 1 /\ Len(W) \in Nat /\ n \in Nat /\ n <= Len(W)
      /\ \A i \in 1..Len(W) : V[i] = W[i]
      /\ V[Len(W) + 1] = e
  BY AppendFacts
<1>2. p2.ctx = p.ctx /\ p2.knows = p.knows /\ p2.made = p.made
  BY DEF SameKnowledge
<1>3. \A m : Unknown(q, m, p) <=> Unknown(q, m, p2)
  BY <1>2 DEF Unknown
<1> HIDE DEF V
<1>4. \A i \in (n + 1)..Len(V) : V[i].kind = "created" => i \in (n + 1)..Len(W) /\ V[i] = W[i]
  BY <1>1
<1>5. \A i \in (n + 1)..Len(W) : i \in (n + 1)..Len(V) /\ V[i] = W[i]
  BY <1>1
<1>6. ASSUME NEW i \in (n + 1)..Len(V), V[i].kind = "created"
      PROVE  \/ \E j \in (n + 1)..(i - 1) : V[j].kind = "created"
             \/ q \in p2.knows[V[i].r] /\ Unknown(q, V[i].r - 1, p2)
  <2>1. i \in (n + 1)..Len(W) /\ V[i] = W[i]
    BY <1>4, <1>6
  <2>2. CASE \E j \in (n + 1)..(i - 1) : W[j].kind = "created"
    <3>1. PICK j \in (n + 1)..(i - 1) : W[j].kind = "created"
      BY <2>2
    <3>2. j \in (n + 1)..Len(W)
      BY <1>1, <2>1, <3>1
    <3> QED BY <1>5, <3>1, <3>2
  <2>3. CASE q \in p.knows[W[i].r] /\ Unknown(q, W[i].r - 1, p)
    BY <1>2, <1>3, <2>1, <2>3
  <2> QED BY <1>6, <2>1, <2>2, <2>3 DEF KnownAfter
<1>7. OnItsWay(q, M) \/ q \in p2.ctx
  BY <1>2 DEF KnownAfter
<1>8. OnItsWay(q, M) => \A i \in (n + 1)..Len(V) : V[i].kind # "created"
  BY <1>4 DEF KnownAfter
<1>9. (\A i \in (n + 1)..Len(V) : V[i].kind # "created") => Unknown(q, p2.made, p2)
  BY <1>2, <1>3, <1>5 DEF KnownAfter
<1> QED BY <1>6, <1>7, <1>8, <1>9 DEF KnownAfter, V

\* A new response is the first that knows a question, or another was: it finds
\* the questions that are not on their way any more.
LEMMA PushNew ==
  ASSUME NEW q, NEW M, NEW W \in Seq(Events), NEW e \in Events, NEW n \in 0..Len(W),
         NEW p \in Providers, p.made < MaxResponses, NEW p2, p2 = Respond(p), Announced(W, p),
         e.kind = "created", e.r = p.made + 1, ~OnItsWay(q, M), KnownAfter(n, q, M, W, p)
  PROVE  KnownAfter(n, q, M, Append(W, e), p2)
<1> DEFINE V == Append(W, e)
<1>1. /\ Len(V) = Len(W) + 1 /\ Len(W) \in Nat /\ n \in Nat /\ n <= Len(W)
      /\ \A i \in 1..Len(W) : V[i] = W[i]
      /\ V[Len(W) + 1] = e
  BY AppendFacts
<1>2. /\ p2.ctx = p.ctx /\ p2.knows[p.made + 1] = p.ctx /\ p.made \in Nat
      /\ \A r \in 1..p.made : p2.knows[r] = p.knows[r]
  BY RespondFacts, BoundsAssumption DEF Providers
<1>3. \A r \in 1..p.made : Unknown(q, r - 1, p) <=> Unknown(q, r - 1, p2)
  BY <1>2 DEF Unknown
<1>4. Unknown(q, p.made, p) => Unknown(q, p.made, p2)
  BY <1>2 DEF Unknown
<1>5. q \in p.ctx
  BY DEF KnownAfter
<1> HIDE DEF V
<1>6. \A j \in (n + 1)..Len(W) : W[j].kind = "created" => V[j].kind = "created"
  BY <1>1
<1>7. ASSUME NEW i \in (n + 1)..Len(V), V[i].kind = "created"
      PROVE  \/ \E j \in (n + 1)..(i - 1) : V[j].kind = "created"
             \/ q \in p2.knows[V[i].r] /\ Unknown(q, V[i].r - 1, p2)
  <2>1. CASE i <= Len(W)
    <3>1. i \in (n + 1)..Len(W) /\ i \in 1..Len(W) /\ V[i] = W[i]
      BY <1>1, <2>1
    <3>2. W[i].r \in 1..p.made
      BY <1>7, <3>1 DEF Announced
    <3>3. CASE \E j \in (n + 1)..(i - 1) : W[j].kind = "created"
      <4>1. PICK j \in (n + 1)..(i - 1) : W[j].kind = "created"
        BY <3>3
      <4>2. j \in (n + 1)..Len(W)
        BY <1>1, <3>1, <4>1
      <4> QED BY <1>6, <4>1, <4>2
    <3>4. CASE q \in p.knows[W[i].r] /\ Unknown(q, W[i].r - 1, p)
      BY <1>2, <1>3, <3>1, <3>2, <3>4
    <3> QED BY <1>7, <3>1, <3>3, <3>4 DEF KnownAfter
  <2>2. CASE i = Len(W) + 1
    <3>1. CASE \E j \in (n + 1)..Len(W) : W[j].kind = "created"
      <4>1. PICK j \in (n + 1)..Len(W) : W[j].kind = "created"
        BY <3>1
      <4>2. j \in (n + 1)..(i - 1)
        BY <1>1, <2>2, <4>1
      <4> QED BY <1>6, <4>1, <4>2
    <3>2. CASE \A j \in (n + 1)..Len(W) : W[j].kind # "created"
      <4>1. Unknown(q, p.made, p2)
        BY <1>4, <3>2 DEF KnownAfter
      <4>2. V[i].r = p.made + 1 /\ V[i].r - 1 = p.made
        BY <1>1, <1>2, <2>2
      <4> QED BY <1>2, <1>5, <4>1, <4>2
    <3> QED BY <3>1, <3>2
  <2> QED BY <1>1, <2>1, <2>2
<1>8. Len(W) + 1 \in (n + 1)..Len(V) /\ V[Len(W) + 1].kind = "created"
  BY <1>1
<1> QED BY <1>2, <1>5, <1>7, <1>8 DEF KnownAfter, V

\* Taking an event from the wire; the first of those that count is not a new
\* response.
LEMMA PopKnown ==
  ASSUME NEW q, NEW M, NEW W \in Seq(Events), W # <<>>, NEW n \in 0..Len(W), NEW p,
         n = 0 => W[1].kind # "created", NEW m, m = (IF n = 0 THEN 0 ELSE n - 1),
         KnownAfter(n, q, M, W, p)
  PROVE  KnownAfter(m, q, M, Tail(W), p)
<1> DEFINE V == Tail(W)
<1>1. /\ Len(W) \in Nat /\ Len(V) = Len(W) - 1 /\ n \in Nat /\ n <= Len(W) /\ m \in Nat
      /\ \A i \in 1..(Len(W) - 1) : V[i] = W[i + 1]
  BY TailFacts
<1> HIDE DEF V
<1>2. \A i \in (m + 1)..Len(V) : i + 1 \in (n + 1)..Len(W) /\ V[i] = W[i + 1] /\ i \in Nat /\ (i + 1) - 1 = i
  BY <1>1
<1>3. \A j \in (n + 1)..Len(W) : W[j].kind = "created" =>
        j - 1 \in (m + 1)..Len(V) /\ V[j - 1] = W[j]
  <2> SUFFICES ASSUME NEW j \in (n + 1)..Len(W), W[j].kind = "created"
               PROVE  j - 1 \in (m + 1)..Len(V) /\ V[j - 1] = W[j]
    OBVIOUS
  <2>1. j # 1
    BY <1>1
  <2>2. j - 1 \in (m + 1)..Len(V) /\ j - 1 \in 1..(Len(W) - 1) /\ (j - 1) + 1 = j
    BY <1>1, <2>1
  <2>3. V[j - 1] = W[(j - 1) + 1]
    BY <1>1, <2>2
  <2> QED BY <2>2, <2>3
<1>4. ASSUME NEW i \in (m + 1)..Len(V), V[i].kind = "created"
      PROVE  \/ \E j \in (m + 1)..(i - 1) : V[j].kind = "created"
             \/ q \in p.knows[V[i].r] /\ Unknown(q, V[i].r - 1, p)
  <2>1. \/ \E j \in (n + 1)..((i + 1) - 1) : W[j].kind = "created"
        \/ q \in p.knows[W[i + 1].r] /\ Unknown(q, W[i + 1].r - 1, p)
    BY <1>2, <1>4 DEF KnownAfter
  <2>2. CASE \E j \in (n + 1)..((i + 1) - 1) : W[j].kind = "created"
    <3>1. PICK j \in (n + 1)..i : W[j].kind = "created"
      BY <1>2, <2>2
    <3>2. j \in (n + 1)..Len(W) /\ j \in Nat
      BY <1>1, <1>2, <3>1
    <3>3. j - 1 \in (m + 1)..Len(V) /\ V[j - 1] = W[j]
      BY <1>3, <3>1, <3>2
    <3>4. j - 1 \in (m + 1)..(i - 1)
      BY <1>1, <1>2, <3>1, <3>2, <3>3
    <3> QED BY <3>1, <3>3, <3>4
  <2>3. CASE q \in p.knows[W[i + 1].r] /\ Unknown(q, W[i + 1].r - 1, p)
    BY <1>2, <2>3
  <2> QED BY <2>1, <2>2, <2>3
<1>5. OnItsWay(q, M) \/ q \in p.ctx
  BY DEF KnownAfter
<1>6. OnItsWay(q, M) => \A i \in (m + 1)..Len(V) : V[i].kind # "created"
  BY <1>2 DEF KnownAfter
<1>7. (\A i \in (m + 1)..Len(V) : V[i].kind # "created") => Unknown(q, p.made, p)
  <2> SUFFICES ASSUME \A i \in (m + 1)..Len(V) : V[i].kind # "created" PROVE Unknown(q, p.made, p)
    OBVIOUS
  <2>1. \A j \in (n + 1)..Len(W) : W[j].kind # "created"
    BY <1>3
  <2> QED BY <2>1 DEF KnownAfter
<1> QED BY <1>4, <1>5, <1>6, <1>7 DEF KnownAfter, V

\* An event that answers no request leaves the requests as they are.
LEMMA PushRequest ==
  ASSUME NEW M, NEW W \in Seq(Events), NEW e \in Events, ~IsAnswer(e), NEW g, RequestInv(M, W, g)
  PROVE  RequestInv(M, Append(W, e), g)
<1> DEFINE V == Append(W, e)
<1>1. /\ Len(V) = Len(W) + 1 /\ Len(W) \in Nat
      /\ \A i \in 1..Len(W) : V[i] = W[i]
      /\ V[Len(W) + 1] = e
  BY AppendFacts
<1> HIDE DEF V
<1>2. \A i \in 1..Len(V) : IsAnswer(V[i]) => i \in 1..Len(W) /\ V[i] = W[i]
  BY <1>1
<1>3. \A i \in 1..Len(W) : i \in 1..Len(V) /\ V[i] = W[i]
  BY <1>1
<1> HIDE DEF IsAnswer, IsCreate
<1>4. (\E i \in 1..Len(W) : IsAnswer(W[i])) <=> (\E i \in 1..Len(V) : IsAnswer(V[i]))
  BY <1>2, <1>3
<1>5. \A i, j \in 1..Len(V) : IsAnswer(V[i]) /\ IsAnswer(V[j]) => i = j
  BY <1>2 DEF RequestInv
<1>6. \A i \in 1..Len(M), j \in 1..Len(V) : ~(IsCreate(M[i]) /\ IsAnswer(V[j]))
  BY <1>2 DEF RequestInv
<1> QED BY <1>4, <1>5, <1>6, Zenon DEF RequestInv, V

\* An event that is no new response leaves a question to the same response.
LEMMA PushSpoken ==
  ASSUME NEW q, NEW M, NEW W \in Seq(Events), NEW e \in Events, e.kind # "created",
         NEW p, NEW p2, SameKnowledge(p, p2)
  PROVE  /\ SpokenNext(q, M, W, p) => SpokenNext(q, M, Append(W, e), p2)
         /\ SpokenLater(q, M, W, p) => SpokenLater(q, M, Append(W, e), p2)
<1> DEFINE V == Append(W, e)
<1>1. /\ Len(V) = Len(W) + 1 /\ Len(W) \in Nat
      /\ \A i \in 1..Len(W) : V[i] = W[i]
      /\ V[Len(W) + 1] = e
  BY AppendFacts
<1>2. \A n \in 0..Len(W) : KnownAfter(n, q, M, W, p) => KnownAfter(n, q, M, V, p2)
  BY PushKnown
<1>3. p2.ctx = p.ctx
  BY DEF SameKnowledge
<1> HIDE DEF V
<1>4. SpokenNext(q, M, W, p) => SpokenNext(q, M, V, p2)
  BY <1>1, <1>2 DEF SpokenNext
<1>5. ASSUME SpokenLater(q, M, W, p) PROVE SpokenLater(q, M, V, p2)
  <2>1. CASE \A i \in 1..Len(W) : W[i].kind # "created"
    <3>1. \A i \in 1..Len(V) : V[i].kind # "created"
      BY <1>1, <2>1
    <3>2. CASE \E n \in 1..Len(W) : /\ IsAnswer(W[n])
                                    /\ \A i \in 1..(n - 1) : W[i].kind # "created"
                                    /\ KnownAfter(n, q, M, W, p)
      <4>1. PICK n \in 1..Len(W) : IsAnswer(W[n]) /\ KnownAfter(n, q, M, W, p)
        BY <3>2
      <4>2. n \in 1..Len(V) /\ n \in 0..Len(W) /\ V[n] = W[n] /\ \A i \in 1..(n - 1) : i \in 1..Len(V)
        BY <1>1
      <4>3. KnownAfter(n, q, M, V, p2)
        BY <1>2, <4>1, <4>2
      <4> QED BY <3>1, <4>1, <4>2, <4>3 DEF SpokenLater
    <3> QED BY <1>3, <1>5, <3>1, <3>2 DEF SpokenLater
  <2>2. CASE \E i \in 1..Len(W) : W[i].kind = "created"
    <3>1. PICK n \in 1..Len(W) : /\ IsAnswer(W[n])
                                 /\ \A i \in 1..(n - 1) : W[i].kind # "created"
                                 /\ KnownAfter(n, q, M, W, p)
      BY <1>5, <2>2 DEF SpokenLater
    <3>2. n \in 1..Len(V) /\ n \in 0..Len(W) /\ V[n] = W[n] /\ \A i \in 1..(n - 1) : V[i] = W[i]
      BY <1>1
    <3>3. KnownAfter(n, q, M, V, p2)
      BY <1>2, <3>1, <3>2
    <3> QED BY <3>1, <3>2, <3>3 DEF SpokenLater
  <2> QED BY <2>1, <2>2
<1> QED BY <1>4, <1>5 DEF V

\* The turn of the first response that knows a question stays, if the
\* responses that were made stay as they are.
LEMMA SpokenStays ==
  ASSUME NEW M, NEW s, NEW p \in Providers, NEW p2, KnowsInv(M, p, s),
         \A r \in 1..p.made : p2.knows[r] = p.knows[r] /\ p2.turnAt[r] = p.turnAt[r],
         NEW q, NEW a, NEW k, SpokenInv(q, a, k, p)
  PROVE  SpokenInv(q, a, k, p2)
<1>1. ASSUME NEW t, SpokenIn(q, t, p) PROVE SpokenIn(q, t, p2)
  <2>1. PICK r \in Responses : q \in p.knows[r] /\ p.turnAt[r] = t /\ Unknown(q, r - 1, p)
    BY <1>1 DEF SpokenIn
  <2>2. r \in Nat /\ p.made \in Nat /\ r >= 1
    BY BoundsAssumption DEF Responses, Providers
  <2>3. ~(r > p.made)
    BY <2>1 DEF KnowsInv
  <2>4. r \in 1..p.made /\ \A i \in 1..(r - 1) : i \in 1..p.made
    BY <2>2, <2>3
  <2>5. Unknown(q, r - 1, p2)
    BY <2>1, <2>4 DEF Unknown
  <2> QED BY <2>1, <2>4, <2>5 DEF SpokenIn
<1> QED BY <1>1 DEF SpokenInv

\* The provider says something that is neither a new response nor an answer.
LEMMA QuietPush ==
  ASSUME NEW M, NEW W \in Seq(Events), NEW e \in Events, e.kind # "created", ~IsAnswer(e),
         NEW p \in Providers, NEW p2, SameKnowledge(p, p2), NEW g, NEW a, NEW k, NEW x, NEW s,
         KnowsInv(M, p, s), SpeechInv(M, W, p, g, a, k, x)
  PROVE  SpeechInv(M, Append(W, e), p2, g, a, k, x)
<1>1. RequestInv(M, Append(W, e), g)
  BY PushRequest DEF SpeechInv
<1>2. \A r \in 1..p.made : p2.knows[r] = p.knows[r] /\ p2.turnAt[r] = p.turnAt[r]
  BY DEF SameKnowledge
<1>3. ASSUME NEW q \in Questions \ x
      PROVE  ToSpeakInv(q, M, Append(W, e), p2, g) /\ SpokenInv(q, a, k, p2)
  <2>1. ToSpeakInv(q, M, W, p, g) /\ SpokenInv(q, a, k, p)
    BY <1>3 DEF SpeechInv
  <2>2. SpokenInv(q, a, k, p2)
    BY <1>2, <2>1, SpokenStays
  <2>3. ToSpeakInv(q, M, Append(W, e), p2, g)
    BY <2>1, PushSpoken DEF ToSpeakInv
  <2> QED BY <2>2, <2>3
<1> QED BY <1>1, <1>3 DEF SpeechInv

\* It knows the same as before.
LEMMA SameKnows ==
  ASSUME NEW M, NEW s, NEW p, NEW p2, SameKnowledge(p, p2), KnowsInv(M, p, s)
  PROVE  KnowsInv(M, p2, s)
BY DEF KnowsInv, SameKnowledge

\* A silent step of the provider changes nothing for the questions.
LEMMA SameSpeech ==
  ASSUME NEW M, NEW W, NEW p \in Providers, NEW p2, SameKnowledge(p, p2), NEW g, NEW a, NEW k, NEW x, NEW s,
         KnowsInv(M, p, s), SpeechInv(M, W, p, g, a, k, x)
  PROVE  SpeechInv(M, W, p2, g, a, k, x)
<1>1. p2.ctx = p.ctx /\ p2.knows = p.knows /\ p2.made = p.made /\ p2.turnAt = p.turnAt
  BY DEF SameKnowledge
<1>2. ASSUME NEW q \in Questions \ x PROVE ToSpeakInv(q, M, W, p2, g) /\ SpokenInv(q, a, k, p2)
  <2>1. ToSpeakInv(q, M, W, p, g) /\ SpokenInv(q, a, k, p)
    BY <1>2 DEF SpeechInv
  <2>2. \A m : Unknown(q, m, p) <=> Unknown(q, m, p2)
    BY <1>1 DEF Unknown
  <2>3. \A n : KnownAfter(n, q, M, W, p) => KnownAfter(n, q, M, W, p2)
    BY <1>1, <2>2, Zenon DEF KnownAfter
  <2>4. SpokenNext(q, M, W, p) => SpokenNext(q, M, W, p2)
    BY <2>3, Zenon DEF SpokenNext
  <2>5. SpokenLater(q, M, W, p) => SpokenLater(q, M, W, p2)
    BY <1>1, <2>3, Zenon DEF SpokenLater
  <2>6. SpokenInv(q, a, k, p2)
    BY <1>1, <2>1, SpokenStays
  <2> QED BY <2>1, <2>4, <2>5, <2>6 DEF ToSpeakInv
<1> QED BY <1>2 DEF SpeechInv

\* A new response knows what was sent.
LEMMA NewKnows ==
  ASSUME NEW M, NEW s, NEW p \in Providers, p.made < MaxResponses, NEW p2, p2 = Respond(p), KnowsInv(M, p, s)
  PROVE  KnowsInv(M, p2, s)
<1>1. /\ p2.ctx = p.ctx /\ p2.knows[p.made + 1] = p.ctx /\ p.made \in Nat /\ p2.made = p.made + 1
      /\ \A r \in Responses \ {p.made + 1} : p2.knows[r] = p.knows[r]
  BY RespondFacts, BoundsAssumption DEF Providers
<1>2. \A r \in Responses : r \in Nat
  BY BoundsAssumption DEF Responses
<1>3. ASSUME NEW r \in Responses PROVE p2.knows[r] \subseteq p2.ctx /\ (r > p2.made => p2.knows[r] = {})
  BY <1>1, <1>2 DEF KnowsInv
<1> QED BY <1>1, <1>3 DEF KnowsInv

\* The provider starts a response by itself; the questions that cross it do
\* not count any more.
LEMMA AutoPush ==
  ASSUME NEW M, NEW W \in Seq(Events), NEW p \in Providers, p.made < MaxResponses,
         NEW p2, p2 = Respond(p), Announced(W, p),
         NEW e \in Events, e.kind = "created", e.auto, e.r = p.made + 1,
         NEW g, NEW a, NEW k, NEW x, NEW s, KnowsInv(M, p, s), SpeechInv(M, W, p, g, a, k, x),
         NEW y, x \subseteq y, \A q \in Questions \ y : ~OnItsWay(q, M)
  PROVE  SpeechInv(M, Append(W, e), p2, g, a, k, y)
<1> DEFINE V == Append(W, e)
<1>1. /\ Len(V) = Len(W) + 1 /\ Len(W) \in Nat
      /\ \A i \in 1..Len(W) : V[i] = W[i]
  BY AppendFacts
<1>2. RequestInv(M, V, g)
  BY PushRequest DEF SpeechInv, IsAnswer
<1>3. \A r \in 1..p.made : p2.knows[r] = p.knows[r] /\ p2.turnAt[r] = p.turnAt[r]
  BY RespondFacts
<1>4. ASSUME NEW q \in Questions \ y
      PROVE  ToSpeakInv(q, M, V, p2, g) /\ SpokenInv(q, a, k, p2)
  <2>1. ToSpeakInv(q, M, W, p, g) /\ SpokenInv(q, a, k, p) /\ ~OnItsWay(q, M)
    BY <1>4 DEF SpeechInv
  <2>2. SpokenInv(q, a, k, p2)
    BY <1>3, <2>1, SpokenStays
  <2>3. \A n \in 0..Len(W) : KnownAfter(n, q, M, W, p) => KnownAfter(n, q, M, V, p2)
    BY <2>1, PushNew
  <2> HIDE DEF V
  <2>4. SpokenNext(q, M, W, p) => SpokenNext(q, M, V, p2)
    BY <1>1, <2>3 DEF SpokenNext
  <2>5. ASSUME SpokenLater(q, M, W, p) PROVE SpokenLater(q, M, V, p2)
    <3>1. PICK n \in 1..Len(W) : /\ IsAnswer(W[n])
                                 /\ \A i \in 1..(n - 1) : W[i].kind # "created"
                                 /\ KnownAfter(n, q, M, W, p)
      BY <2>1, <2>5 DEF SpokenLater
    <3>2. n \in 1..Len(V) /\ n \in 0..Len(W) /\ V[n] = W[n] /\ \A i \in 1..(n - 1) : V[i] = W[i]
      BY <1>1
    <3>3. KnownAfter(n, q, M, V, p2)
      BY <2>3, <3>1, <3>2
    <3> QED BY <3>1, <3>2, <3>3 DEF SpokenLater
  <2>6. ToSpeakInv(q, M, V, p2, g)
    BY <2>1, <2>4, <2>5 DEF ToSpeakInv
  <2> QED BY <2>2, <2>6
<1> QED BY <1>2, <1>4 DEF SpeechInv, V

-----------------------------------------------------------------------------
(* Messages that arrive at the provider.                                     *)

\* The first message has gone: the places of the others.
LEMMA TailMessages ==
  ASSUME NEW M \in Seq(Messages), M # <<>>
  PROVE  /\ Head(M) = M[1] /\ Head(M) \in Messages /\ Tail(M) \in Seq(Messages) /\ 1 \in 1..Len(M)
         /\ Len(M) \in Nat /\ Len(Tail(M)) = Len(M) - 1
         /\ \A i \in 1..Len(Tail(M)) : i + 1 \in 1..Len(M) /\ Tail(M)[i] = M[i + 1]
         /\ \A i \in 1..Len(M) : i = 1 \/ (i - 1 \in 1..Len(Tail(M)) /\ Tail(M)[i - 1] = M[i])
<1> DEFINE V == Tail(M)
<1>1. /\ Head(M) = M[1] /\ Head(M) \in Messages /\ V \in Seq(Messages)
      /\ Len(M) \in Nat \ {0} /\ Len(V) = Len(M) - 1
      /\ \A i \in 1..(Len(M) - 1) : V[i] = M[i + 1]
  BY TailFacts
<1> HIDE DEF V
<1>2. 1 \in 1..Len(M) /\ \A i \in 1..Len(V) : i + 1 \in 1..Len(M) /\ V[i] = M[i + 1]
  BY <1>1
<1>3. ASSUME NEW i \in 1..Len(M), i # 1 PROVE i - 1 \in 1..Len(V) /\ V[i - 1] = M[i]
  <2>1. i - 1 \in 1..(Len(M) - 1) /\ (i - 1) + 1 = i
    BY <1>1, <1>3
  <2>2. V[i - 1] = M[(i - 1) + 1]
    BY <1>1, <2>1
  <2> QED BY <1>1, <2>1, <2>2
<1> QED BY <1>1, <1>2, <1>3 DEF V

\* What is left of the messages was sent.
LEMMA TailKnows ==
  ASSUME NEW M \in Seq(Messages), M # <<>>, NEW p, NEW s, KnowsInv(M, p, s)
  PROVE  KnowsInv(Tail(M), p, s)
<1>1. \A i \in 1..Len(Tail(M)) : i + 1 \in 1..Len(M) /\ Tail(M)[i] = M[i + 1]
  BY TailMessages
<1> QED BY <1>1 DEF KnowsInv

\* An item arrives.
LEMMA ItemKnows ==
  ASSUME NEW M \in Seq(Messages), M # <<>>, NEW p, NEW s, KnowsInv(M, p, s),
         NEW p2, p2.ctx = p.ctx \cup ({M[1].q} \ {NoQuestion}), p2.knows = p.knows, p2.made = p.made
  PROVE  KnowsInv(Tail(M), p2, s)
<1>1. 1 \in 1..Len(M)
  BY TailMessages
<1>2. \A q \in p2.ctx : s[q] # NoTurn
  BY <1>1 DEF KnowsInv
<1>3. KnowsInv(Tail(M), p, s)
  BY TailKnows
<1> QED BY <1>2, <1>3 DEF KnowsInv

\* A question that arrives leaves the wire for the conversation.
LEMMA ItemKnown ==
  ASSUME NEW M \in Seq(Messages), M # <<>>, NEW q, q # NoQuestion, NEW n, NEW W, NEW p,
         NEW p2, p2.ctx = p.ctx \cup ({M[1].q} \ {NoQuestion}), p2.knows = p.knows, p2.made = p.made,
         KnownAfter(n, q, M, W, p)
  PROVE  KnownAfter(n, q, Tail(M), W, p2)
<1>1. /\ \A i \in 1..Len(Tail(M)) : i + 1 \in 1..Len(M) /\ Tail(M)[i] = M[i + 1]
      /\ \A i \in 1..Len(M) : i = 1 \/ (i - 1 \in 1..Len(Tail(M)) /\ Tail(M)[i - 1] = M[i])
  BY TailMessages
<1>2. OnItsWay(q, Tail(M)) => OnItsWay(q, M)
  BY <1>1 DEF OnItsWay
<1>3. OnItsWay(q, M) => OnItsWay(q, Tail(M)) \/ q = M[1].q
  BY <1>1 DEF OnItsWay
<1>4. \A m : Unknown(q, m, p) <=> Unknown(q, m, p2)
  BY DEF Unknown
<1>5. OnItsWay(q, Tail(M)) \/ q \in p2.ctx
  BY <1>3 DEF KnownAfter
<1> HIDE DEF OnItsWay, Unknown
<1> QED BY <1>2, <1>4, <1>5, Zenon DEF KnownAfter

\* A request that has not arrived, and where it is.
LEMMA ItemRequest ==
  ASSUME NEW M \in Seq(Messages), M # <<>>, ~IsCreate(M[1]), NEW W, NEW g, RequestInv(M, W, g)
  PROVE  RequestInv(Tail(M), W, g)
<1> DEFINE V == Tail(M)
<1>1. /\ \A i \in 1..Len(V) : i + 1 \in 1..Len(M) /\ V[i] = M[i + 1]
      /\ \A i \in 1..Len(M) : i = 1 \/ (i - 1 \in 1..Len(V) /\ V[i - 1] = M[i])
      /\ Len(V) \in Nat
  BY TailMessages
<1> HIDE DEF V, IsCreate, IsAnswer
<1>2. \A i, j \in 1..Len(V) : IsCreate(V[i]) /\ IsCreate(V[j]) => i = j
  <2> SUFFICES ASSUME NEW i \in 1..Len(V), NEW j \in 1..Len(V), IsCreate(V[i]), IsCreate(V[j]) PROVE i = j
    OBVIOUS
  <2>1. i + 1 = j + 1
    BY <1>1 DEF RequestInv
  <2> QED BY <1>1, <2>1
<1>3. (\E i \in 1..Len(M) : IsCreate(M[i])) <=> (\E i \in 1..Len(V) : IsCreate(V[i]))
  BY <1>1
<1>4. \A i \in 1..Len(V), j \in 1..Len(W) : ~(IsCreate(V[i]) /\ IsAnswer(W[j]))
  BY <1>1 DEF RequestInv
<1> QED BY <1>2, <1>3, <1>4, Zenon DEF RequestInv, V

\* An item arrives at the provider.
LEMMA ItemSpeech ==
  ASSUME NEW M \in Seq(Messages), M # <<>>, ~IsCreate(M[1]), NEW W, NEW p \in Providers,
         NEW p2, p2.ctx = p.ctx \cup ({M[1].q} \ {NoQuestion}), p2.knows = p.knows, p2.made = p.made,
         p2.turnAt = p.turnAt, NEW s, KnowsInv(M, p, s),
         NEW g, NEW a, NEW k, NEW x, SpeechInv(M, W, p, g, a, k, x)
  PROVE  SpeechInv(Tail(M), W, p2, g, a, k, x)
<1> DEFINE V == Tail(M)
<1>1. /\ \A i \in 1..Len(V) : i + 1 \in 1..Len(M) /\ V[i] = M[i + 1]
      /\ \A i \in 1..Len(M) : i = 1 \/ (i - 1 \in 1..Len(V) /\ V[i - 1] = M[i])
      /\ Len(V) \in Nat /\ 1 \in 1..Len(M)
  BY TailMessages
<1>2. RequestInv(V, W, g)
  BY ItemRequest DEF SpeechInv
<1>3. ASSUME NEW q \in Questions \ x
      PROVE  ToSpeakInv(q, V, W, p2, g) /\ SpokenInv(q, a, k, p2)
  <2>1. ToSpeakInv(q, M, W, p, g) /\ SpokenInv(q, a, k, p)
    BY <1>3 DEF SpeechInv
  <2>2. SpokenInv(q, a, k, p2)
    BY <2>1, SpokenStays
  <2>3. q # NoQuestion
    BY QuestionsAssumption
  <2>4. \A n : KnownAfter(n, q, M, W, p) => KnownAfter(n, q, V, W, p2)
    BY <2>3, ItemKnown
  <2> HIDE DEF V
  <2>5. ASSUME SpokenNext(q, M, W, p) PROVE SpokenNext(q, V, W, p2)
    <3>1. KnownAfter(0, q, V, W, p2)
      BY <2>4, <2>5 DEF SpokenNext
    <3>2. ASSUME NEW i \in 1..Len(V), NEW j \in 1..Len(V), IsCreate(V[i]), V[j].q = q PROVE j < i
      <4>1. j + 1 < i + 1
        BY <1>1, <2>5, <3>2 DEF SpokenNext
      <4> QED BY <1>1, <4>1
    <3> QED BY <3>1, <3>2 DEF SpokenNext
  <2>6. ASSUME SpokenLater(q, M, W, p) PROVE SpokenLater(q, V, W, p2)
    <3>1. CASE \E n \in 1..Len(W) : /\ IsAnswer(W[n])
                                    /\ \A i \in 1..(n - 1) : W[i].kind # "created"
                                    /\ KnownAfter(n, q, M, W, p)
      BY <2>4, <3>1 DEF SpokenLater
    <3>2. CASE /\ \E i \in 1..Len(M) : IsCreate(M[i])
               /\ \A i, j \in 1..Len(M) : IsCreate(M[i]) /\ M[j].q = q => i < j
               /\ OnItsWay(q, M) /\ q \notin p.ctx
               /\ \A i \in 1..Len(W) : W[i].kind # "created"
      <4>1. PICK i \in 1..Len(M) : IsCreate(M[i])
        BY <3>2
      <4>2. PICK j \in 1..Len(M) : M[j].q = q
        BY <3>2 DEF OnItsWay
      <4>3. M[1].q # q
        <5>1. M[1].q = q => i < 1
          BY <1>1, <3>2, <4>1
        <5> QED BY <5>1
      <4>4. i - 1 \in 1..Len(V) /\ V[i - 1] = M[i] /\ j - 1 \in 1..Len(V) /\ V[j - 1] = M[j]
        BY <1>1, <4>1, <4>2, <4>3
      <4>5. OnItsWay(q, V) /\ \E m \in 1..Len(V) : IsCreate(V[m])
        BY <4>1, <4>2, <4>4 DEF OnItsWay
      <4>6. q \notin p2.ctx
        BY <3>2, <4>3
      <4>7. ASSUME NEW m \in 1..Len(V), NEW l \in 1..Len(V), IsCreate(V[m]), V[l].q = q PROVE m < l
        <5>1. m + 1 < l + 1
          BY <1>1, <3>2, <4>7
        <5> QED BY <1>1, <5>1
      <4> QED BY <3>2, <4>5, <4>6, <4>7 DEF SpokenLater
    <3> QED BY <2>6, <3>1, <3>2 DEF SpokenLater
  <2>7. ToSpeakInv(q, V, W, p2, g)
    BY <2>1, <2>5, <2>6 DEF ToSpeakInv
  <2> QED BY <2>2, <2>7
<1> QED BY <1>2, <1>3 DEF SpeechInv, V

\* A request arrives: its answer is on the wire back.
LEMMA CreateRequest ==
  ASSUME NEW M \in Seq(Messages), M # <<>>, IsCreate(M[1]), NEW W \in Seq(Events), NEW e \in Events, IsAnswer(e),
         NEW g, RequestInv(M, W, g)
  PROVE  /\ RequestInv(Tail(M), Append(W, e), g)
         /\ \A i \in 1..Len(Tail(M)) : ~IsCreate(Tail(M)[i])
         /\ \A i \in 1..Len(W) : ~IsAnswer(W[i])
<1> DEFINE V == Tail(M)
           X == Append(W, e)
<1>1. /\ \A i \in 1..Len(V) : i + 1 \in 1..Len(M) /\ V[i] = M[i + 1]
      /\ Len(V) \in Nat /\ 1 \in 1..Len(M)
  BY TailMessages
<1>2. /\ Len(X) = Len(W) + 1 /\ Len(W) \in Nat
      /\ \A i \in 1..Len(W) : X[i] = W[i]
      /\ X[Len(W) + 1] = e
  BY AppendFacts
<1> HIDE DEF V, X, IsCreate, IsAnswer
<1>3. \A i \in 1..Len(V) : ~IsCreate(V[i])
  <2> SUFFICES ASSUME NEW i \in 1..Len(V), IsCreate(V[i]) PROVE FALSE
    OBVIOUS
  <2>1. i + 1 = 1
    BY <1>1 DEF RequestInv
  <2> QED BY <1>1, <2>1
<1>4. \A i \in 1..Len(W) : ~IsAnswer(W[i])
  BY <1>1 DEF RequestInv
<1>5. g.requested
  BY <1>1 DEF RequestInv
<1>6. \A i \in 1..Len(X) : IsAnswer(X[i]) => i = Len(W) + 1
  BY <1>2, <1>4
<1>7. Len(W) + 1 \in 1..Len(X) /\ IsAnswer(X[Len(W) + 1])
  BY <1>2
<1> QED BY <1>3, <1>4, <1>5, <1>6, <1>7 DEF RequestInv, V, X

\* A request arrives, and is answered by a response or an error.
LEMMA CreateSpeech ==
  ASSUME NEW M \in Seq(Messages), M # <<>>, IsCreate(M[1]), NEW W \in Seq(Events), NEW e \in Events, IsAnswer(e),
         NEW p \in Providers, Announced(W, p), NEW p2,
         \/ e.kind # "created" /\ SameKnowledge(p, p2)
         \/ e.kind = "created" /\ e.r = p.made + 1 /\ p.made < MaxResponses /\ p2 = Respond(p),
         NEW s, KnowsInv(M, p, s), NEW g, NEW a, NEW k, NEW x, SpeechInv(M, W, p, g, a, k, x)
  PROVE  SpeechInv(Tail(M), Append(W, e), p2, g, a, k, x)
<1> DEFINE V == Tail(M)
           X == Append(W, e)
<1>1. /\ \A i \in 1..Len(V) : i + 1 \in 1..Len(M) /\ V[i] = M[i + 1]
      /\ \A i \in 1..Len(M) : i = 1 \/ (i - 1 \in 1..Len(V) /\ V[i - 1] = M[i])
      /\ Len(V) \in Nat /\ 1 \in 1..Len(M)
  BY TailMessages
<1>2. /\ Len(X) = Len(W) + 1 /\ Len(W) \in Nat
      /\ \A i \in 1..Len(W) : X[i] = W[i]
      /\ X[Len(W) + 1] = e
  BY AppendFacts
<1>3. /\ RequestInv(V, X, g)
      /\ \A i \in 1..Len(V) : ~IsCreate(V[i])
      /\ \A i \in 1..Len(W) : ~IsAnswer(W[i])
  BY CreateRequest DEF SpeechInv
<1>4. \A r \in 1..p.made : p2.knows[r] = p.knows[r] /\ p2.turnAt[r] = p.turnAt[r]
  BY RespondFacts DEF SameKnowledge
<1>5. KnowsInv(M, p2, s) /\ p2.ctx = p.ctx /\ p2.made \in 0..MaxResponses
  <2>1. CASE e.kind # "created" /\ SameKnowledge(p, p2)
    BY <2>1, SameKnows DEF SameKnowledge, Providers
  <2>2. CASE e.kind = "created" /\ e.r = p.made + 1 /\ p.made < MaxResponses /\ p2 = Respond(p)
    BY <2>2, NewKnows, RespondFacts DEF Providers
  <2> QED BY <2>1, <2>2
<1>6. ASSUME NEW q \in Questions \ x
      PROVE  ToSpeakInv(q, V, X, p2, g) /\ SpokenInv(q, a, k, p2)
  <2>1. ToSpeakInv(q, M, W, p, g) /\ SpokenInv(q, a, k, p)
    BY <1>6 DEF SpeechInv
  <2>2. SpokenInv(q, a, k, p2)
    BY <1>4, <2>1, SpokenStays
  <2>3. q # NoQuestion /\ M[1].q = NoQuestion
    BY <1>1, QuestionsAssumption DEF KnowsInv
  <2>4. OnItsWay(q, V) <=> OnItsWay(q, M)
    BY <1>1, <2>3 DEF OnItsWay
  <2>5. ASSUME SpokenNext(q, M, W, p) PROVE SpokenNext(q, V, X, p2)
    <3>1. ~OnItsWay(q, M)
      <4> SUFFICES ASSUME NEW j \in 1..Len(M), M[j].q = q PROVE FALSE
        BY DEF OnItsWay
      <4>1. j < 1
        BY <1>1, <2>5 DEF SpokenNext
      <4> QED BY <4>1
    <3>2. KnownAfter(0, q, M, W, p) /\ 0 \in 0..Len(W)
      BY <1>2, <2>5 DEF SpokenNext
    <3>3. KnownAfter(0, q, M, X, p2)
      <4>1. CASE e.kind # "created" /\ SameKnowledge(p, p2)
        BY <3>2, <4>1, PushKnown
      <4>2. CASE e.kind = "created" /\ e.r = p.made + 1 /\ p.made < MaxResponses /\ p2 = Respond(p)
        BY <3>1, <3>2, <4>2, PushNew
      <4> QED BY <4>1, <4>2
    <3> HIDE DEF V, X
    <3>4. KnownAfter(0, q, V, X, p2)
      BY <2>4, <3>3, Zenon DEF KnownAfter
    <3> QED BY <1>3, <3>4 DEF SpokenNext
  <2>6. ASSUME SpokenLater(q, M, W, p) PROVE SpokenLater(q, V, X, p2)
    <3> HIDE DEF V, X
    <3>1. /\ OnItsWay(q, V) /\ q \notin p2.ctx
          /\ \A i \in 1..Len(W) : W[i].kind # "created"
      BY <1>3, <1>5, <2>4, <2>6 DEF SpokenLater
    <3>2. Unknown(q, p2.made, p2)
      <4>1. \A r \in 1..p2.made : r \in Responses
        BY <1>5, BoundsAssumption DEF Responses
      <4> QED BY <1>5, <3>1, <4>1 DEF Unknown, KnowsInv
    <3> DEFINE n == Len(W) + 1
    <3>3. n \in 1..Len(X) /\ IsAnswer(X[n]) /\ (n + 1)..Len(X) = {} /\ \A i \in 1..(n - 1) : X[i].kind # "created"
      BY <1>2, <3>1
    <3> HIDE DEF n
    <3>4. KnownAfter(n, q, V, X, p2)
      BY <3>1, <3>2, <3>3 DEF KnownAfter
    <3> QED BY <3>3, <3>4 DEF SpokenLater
  <2>7. ToSpeakInv(q, V, X, p2, g)
    BY <2>1, <2>5, <2>6 DEF ToSpeakInv
  <2> QED BY <2>2, <2>7
<1> QED BY <1>3, <1>6 DEF SpeechInv, V, X

-----------------------------------------------------------------------------
(* What the gateway sends.                                                   *)

\* The gateway h has these questions more to speak than g: with the next
\* response, or after the one that was asked for (added).
Adds(g, h, qs) ==
  /\ h.requested = g.requested
  /\ IF g.requested
     THEN h.unspoken.acks = g.unspoken.acks /\ h.afterRequest.acks = g.afterRequest.acks \cup qs
     ELSE h.unspoken.acks = g.unspoken.acks \cup qs /\ h.afterRequest.acks = g.afterRequest.acks

\* Items that carry the questions qs.
Carries(items, qs) ==
  /\ \A i \in 1..Len(items) : ~IsCreate(items[i]) /\ (items[i].q # NoQuestion => items[i].q \in qs)
  /\ \A q \in qs : \E i \in 1..Len(items) : items[i].q = q

\* What was sent with a turn is known to be sent.
LEMMA ItemsKnows ==
  ASSUME NEW M \in Seq(Messages), NEW items \in Seq(Messages), NEW qs \in SUBSET Questions, Carries(items, qs),
         NEW p \in Providers, NEW s, NEW t \in Nat, KnowsInv(M, p, s)
  PROVE  KnowsInv(M \o items, p, SentNow(qs, t, s))
<1> DEFINE V == M \o items
           s2 == SentNow(qs, t, s)
<1>1. /\ V \in Seq(Messages) /\ Len(M) \in Nat /\ Len(V) = Len(M) + Len(items)
      /\ \A i \in 1..Len(M) : V[i] = M[i]
      /\ \A i \in 1..Len(V) : i > Len(M) => i - Len(M) \in 1..Len(items) /\ V[i] = items[i - Len(M)]
  BY JoinFacts
<1>2. /\ \A q \in Questions : s[q] # NoTurn => s2[q] # NoTurn
      /\ \A q \in qs : s2[q] # NoTurn
  BY NoTurnFacts DEF SentNow
<1>3. \A i \in 1..Len(V) : V[i] \in Messages
  BY <1>1
<1> HIDE DEF V, s2
<1>4. \A i \in 1..Len(V) : i > Len(M) => ~IsCreate(V[i]) /\ (V[i].q # NoQuestion => V[i].q \in qs)
  <2> SUFFICES ASSUME NEW i \in 1..Len(V), i > Len(M)
               PROVE  ~IsCreate(V[i]) /\ (V[i].q # NoQuestion => V[i].q \in qs)
    OBVIOUS
  <2>1. i - Len(M) \in 1..Len(items) /\ V[i] = items[i - Len(M)]
    BY <1>1
  <2> QED BY <2>1 DEF Carries
<1>5. ASSUME NEW i \in 1..Len(V)
      PROVE  /\ V[i].q # NoQuestion => s2[V[i].q] # NoTurn
             /\ IsCreate(V[i]) => V[i].q = NoQuestion
  <2>1. V[i].q # NoQuestion => V[i].q \in Questions
    BY <1>3 DEF Messages
  <2>2. CASE i > Len(M)
    BY <1>2, <1>4, <2>2
  <2>3. CASE i <= Len(M)
    <3>1. i \in 1..Len(M) /\ V[i] = M[i]
      BY <1>1, <2>3
    <3>2. (M[i].q # NoQuestion => s[M[i].q] # NoTurn) /\ (IsCreate(M[i]) => M[i].q = NoQuestion)
      BY <3>1 DEF KnowsInv
    <3> QED BY <1>2, <2>1, <3>1, <3>2
  <2> QED BY <1>1, <2>2, <2>3
<1>6. p.ctx \in SUBSET Questions
  BY DEF Providers
<1>7. \A q \in p.ctx : s2[q] # NoTurn
  BY <1>2, <1>6 DEF KnowsInv
<1> QED BY <1>5, <1>7 DEF KnowsInv, V, s2

\* A question that was not sent is on no wire and in no response.
LEMMA FreshFacts ==
  ASSUME NEW M, NEW p \in Providers, NEW s, KnowsInv(M, p, s), NEW q \in Questions, s[q] = NoTurn
  PROVE  q \notin p.ctx /\ Unknown(q, p.made, p) /\ ~OnItsWay(q, M)
<1>1. q \notin p.ctx
  BY DEF KnowsInv
<1>2. \A r \in 1..p.made : r \in Responses
  BY BoundsAssumption DEF Providers, Responses
<1>3. q # NoQuestion
  BY QuestionsAssumption
<1> QED BY <1>1, <1>2, <1>3 DEF KnowsInv, Unknown, OnItsWay

\* Questions that were not sent before, and what becomes of them if a response
\* of the provider is on its way.
Unsent(qs, g, s) == \A q \in qs : s[q] = NoTurn /\ q \notin g.unspoken.acks \cup g.afterRequest.acks
Crossing(qs, W, x, y) ==
  /\ x \subseteq y
  /\ (\E i \in 1..Len(W) : W[i].kind = "created" /\ W[i].auto) => qs \subseteq y

\* Items with new questions: they are spoken by the next response, or by the
\* one after the request that is on its way.  Those that crossed a response of
\* the provider do not count any more.
LEMMA ItemsSpeech ==
  ASSUME NEW M \in Seq(Messages), NEW items \in Seq(Messages), NEW qs \in SUBSET Questions, Carries(items, qs),
         NEW W \in Seq(Events), NEW p \in Providers, NEW s, KnowsInv(M, p, s), NEW g \in Gateways, Unsent(qs, g, s),
         NEW h, Adds(g, h, qs), NEW a, NEW k, NEW x, SpeechInv(M, W, p, g, a, k, x),
         NEW y, Crossing(qs, W, x, y)
  PROVE  SpeechInv(M \o items, W, p, h, a, k, y)
<1> USE DEF Unsent, Crossing
<1>0. g.requested \in BOOLEAN
  BY DEF Gateways
<1> DEFINE V == M \o items
<1>1. /\ V \in Seq(Messages) /\ Len(M) \in Nat /\ Len(items) \in Nat /\ Len(V) = Len(M) + Len(items)
      /\ \A i \in 1..Len(M) : V[i] = M[i]
      /\ \A i \in 1..Len(V) : i > Len(M) => i - Len(M) \in 1..Len(items) /\ V[i] = items[i - Len(M)]
  BY JoinFacts
<1> HIDE DEF V
<1>2. \A i \in 1..Len(V) : i > Len(M) => ~IsCreate(V[i]) /\ (V[i].q # NoQuestion => V[i].q \in qs)
  BY <1>1 DEF Carries
<1>3. \A i \in 1..Len(V) : IsCreate(V[i]) => i \in 1..Len(M) /\ V[i] = M[i]
  BY <1>1, <1>2
<1>4. \A i \in 1..Len(M) : i \in 1..Len(V) /\ V[i] = M[i]
  <2>1. Len(M) \in Nat /\ Len(items) \in Nat /\ Len(V) = Len(M) + Len(items)
    BY <1>1
  <2>2. \A i \in 1..Len(M) : i \in 1..Len(V)
    BY <2>1
  <2> QED BY <1>1, <2>2
<1>5. \A q \in qs : \E j \in 1..Len(V) : V[j].q = q
  <2> SUFFICES ASSUME NEW q \in qs PROVE \E j \in 1..Len(V) : V[j].q = q
    OBVIOUS
  <2>1. PICK i \in 1..Len(items) : items[i].q = q
    BY DEF Carries
  <2>2. Len(M) + i \in 1..Len(V) /\ Len(M) + i > Len(M) /\ (Len(M) + i) - Len(M) = i
    BY <1>1
  <2> QED BY <1>1, <2>1, <2>2
<1>6. RequestInv(M, W, g)
  BY DEF SpeechInv
<1>7. RequestInv(V, W, h)
  <2> HIDE DEF IsCreate, IsAnswer
  <2>1. (\E i \in 1..Len(M) : IsCreate(M[i])) <=> (\E i \in 1..Len(V) : IsCreate(V[i]))
    BY <1>3, <1>4
  <2>2. /\ \A i, j \in 1..Len(V) : IsCreate(V[i]) /\ IsCreate(V[j]) => i = j
        /\ \A i \in 1..Len(V), j \in 1..Len(W) : ~(IsCreate(V[i]) /\ IsAnswer(W[j]))
    BY <1>3, <1>6 DEF RequestInv
  <2>3. h.requested = g.requested /\ (~g.requested => h.afterRequest.acks = {})
    BY <1>0, <1>6 DEF RequestInv, Adds
  <2> QED BY <1>6, <2>1, <2>2, <2>3, Zenon DEF RequestInv
<1>8. ASSUME NEW q \in Questions \ y, q \notin qs
      PROVE  ToSpeakInv(q, V, W, p, h)
  <2>1. ToSpeakInv(q, M, W, p, g)
    BY <1>8 DEF SpeechInv
  <2>2. q # NoQuestion
    BY QuestionsAssumption
  <2>3. \A j \in 1..Len(V) : V[j].q = q => j \in 1..Len(M) /\ V[j] = M[j]
    BY <1>1, <1>2, <1>8, <2>2
  <2>4. OnItsWay(q, V) <=> OnItsWay(q, M)
    BY <1>4, <2>3 DEF OnItsWay
  <2>5. \A n : KnownAfter(n, q, M, W, p) => KnownAfter(n, q, V, W, p)
    BY <2>4, Zenon DEF KnownAfter
  <2>6. ASSUME SpokenNext(q, M, W, p) PROVE SpokenNext(q, V, W, p)
    <3>1. KnownAfter(0, q, V, W, p)
      BY <2>5, <2>6 DEF SpokenNext
    <3>2. \A i, j \in 1..Len(V) : IsCreate(V[i]) /\ V[j].q = q => j < i
      BY <1>3, <2>3, <2>6 DEF SpokenNext
    <3> QED BY <3>1, <3>2 DEF SpokenNext
  <2>7. ASSUME SpokenLater(q, M, W, p) PROVE SpokenLater(q, V, W, p)
    <3>1. CASE \E n \in 1..Len(W) : /\ IsAnswer(W[n])
                                    /\ \A i \in 1..(n - 1) : W[i].kind # "created"
                                    /\ KnownAfter(n, q, M, W, p)
      BY <2>5, <3>1 DEF SpokenLater
    <3>2. CASE /\ \E i \in 1..Len(M) : IsCreate(M[i])
               /\ \A i, j \in 1..Len(M) : IsCreate(M[i]) /\ M[j].q = q => i < j
               /\ OnItsWay(q, M) /\ q \notin p.ctx
               /\ \A i \in 1..Len(W) : W[i].kind # "created"
      <4>1. \E i \in 1..Len(V) : IsCreate(V[i])
        BY <1>4, <3>2
      <4>2. \A i, j \in 1..Len(V) : IsCreate(V[i]) /\ V[j].q = q => i < j
        BY <1>3, <2>3, <3>2
      <4> QED BY <2>4, <3>2, <4>1, <4>2 DEF SpokenLater
    <3> QED BY <2>7, <3>1, <3>2 DEF SpokenLater
  <2>8. (q \in h.unspoken.acks <=> q \in g.unspoken.acks) /\ (q \in h.afterRequest.acks <=> q \in g.afterRequest.acks)
    BY <1>8 DEF Adds
  <2> QED BY <2>1, <2>6, <2>7, <2>8 DEF ToSpeakInv
<1>9. ASSUME NEW q \in Questions \ y, q \in qs
      PROVE  ToSpeakInv(q, V, W, p, h)
  <2>1. q \notin p.ctx /\ Unknown(q, p.made, p) /\ ~OnItsWay(q, M)
    BY <1>9, FreshFacts
  <2>2. \A i \in 1..Len(W) : W[i].kind = "created" => IsAnswer(W[i])
    BY <1>9 DEF IsAnswer
  <2>3. OnItsWay(q, V)
    BY <1>5, <1>9 DEF OnItsWay
  <2>4. \A j \in 1..Len(V) : V[j].q = q => j > Len(M)
    BY <1>1, <2>1 DEF OnItsWay
  <2>5. CASE ~g.requested
    <3>1. /\ \A i \in 1..Len(M) : ~IsCreate(M[i])
          /\ \A i \in 1..Len(W) : W[i].kind # "created"
      BY <1>0, <1>6, <2>2, <2>5 DEF RequestInv
    <3>2. KnownAfter(0, q, V, W, p)
      BY <2>1, <2>3, <3>1 DEF KnownAfter
    <3>3. \A i \in 1..Len(V) : ~IsCreate(V[i])
      BY <1>3, <3>1
    <3>4. SpokenNext(q, V, W, p)
      BY <3>2, <3>3 DEF SpokenNext
    <3>5. q \notin h.afterRequest.acks
      BY <1>0, <1>9, <2>5 DEF Adds
    <3> QED BY <3>4, <3>5 DEF ToSpeakInv
  <2>6. CASE g.requested
    <3>1. q \notin h.unspoken.acks
      BY <1>0, <1>9, <2>6 DEF Adds
    <3>2. CASE \E i \in 1..Len(M) : IsCreate(M[i])
      <4>1. \A i \in 1..Len(W) : W[i].kind # "created"
        BY <1>6, <2>2, <3>2 DEF RequestInv
      <4>2. \E i \in 1..Len(V) : IsCreate(V[i])
        BY <1>4, <3>2
      <4>3. \A i, j \in 1..Len(V) : IsCreate(V[i]) /\ V[j].q = q => i < j
        BY <1>1, <1>3, <2>4
      <4>4. SpokenLater(q, V, W, p)
        BY <2>1, <2>3, <4>1, <4>2, <4>3 DEF SpokenLater
      <4> QED BY <3>1, <4>4 DEF ToSpeakInv
    <3>3. CASE \E i \in 1..Len(W) : IsAnswer(W[i])
      <4>1. PICK n \in 1..Len(W) : IsAnswer(W[n])
        BY <3>3
      <4>2. \A i \in 1..Len(W) : W[i].kind = "created" => i = n
        BY <1>6, <2>2, <4>1 DEF RequestInv
      <4>3. /\ \A i \in 1..(n - 1) : i \in 1..Len(W) /\ i # n
            /\ \A i \in (n + 1)..Len(W) : i \in 1..Len(W) /\ i # n
        OBVIOUS
      <4>4. KnownAfter(n, q, V, W, p)
        BY <2>1, <2>3, <4>2, <4>3 DEF KnownAfter
      <4>5. SpokenLater(q, V, W, p)
        BY <4>1, <4>2, <4>3, <4>4 DEF SpokenLater
      <4> QED BY <3>1, <4>5 DEF ToSpeakInv
    <3> QED BY <1>6, <2>6, <3>2, <3>3 DEF RequestInv
  <2> QED BY <2>5, <2>6
<1>10. \A q \in Questions \ y : SpokenInv(q, a, k, p)
  BY DEF SpeechInv
<1> QED BY <1>7, <1>8, <1>9, <1>10 DEF SpeechInv, V

\* A request follows the items: the response it asks for knows them.
LEMMA AskSpeech ==
  ASSUME NEW M \in Seq(Messages), NEW W, NEW p, NEW g, ~g.requested, NEW h, h.requested = TRUE,
         h.unspoken.acks = g.unspoken.acks, h.afterRequest.acks = g.afterRequest.acks,
         NEW a, NEW k, NEW x, SpeechInv(M, W, p, g, a, k, x)
  PROVE  SpeechInv(Append(M, Create), W, p, h, a, k, x)
<1> DEFINE V == Append(M, Create)
<1>1. Create \in Messages /\ IsCreate(Create) /\ Create.q = NoQuestion
  BY DEF Create, Messages, IsCreate
<1> HIDE DEF Create
<1>2. /\ Len(V) = Len(M) + 1 /\ Len(M) \in Nat
      /\ \A i \in 1..Len(M) : V[i] = M[i]
      /\ V[Len(M) + 1] = Create
  BY <1>1, AppendFacts
<1> HIDE DEF V
<1>3. /\ \A i \in 1..Len(M) : ~IsCreate(M[i])
      /\ \A i \in 1..Len(W) : ~IsAnswer(W[i])
      /\ g.afterRequest.acks = {}
  BY DEF SpeechInv, RequestInv
<1>4. \A i \in 1..Len(V) : IsCreate(V[i]) <=> i = Len(M) + 1
  BY <1>1, <1>2, <1>3
<1>5. Len(M) + 1 \in 1..Len(V)
  BY <1>2
<1>6. RequestInv(V, W, h)
  BY <1>3, <1>4, <1>5 DEF RequestInv
<1>7. ASSUME NEW q \in Questions \ x
      PROVE  ToSpeakInv(q, V, W, p, h)
  <2>1. ToSpeakInv(q, M, W, p, g) /\ q # NoQuestion
    BY <1>7, QuestionsAssumption DEF SpeechInv
  <2>2. \A j \in 1..Len(V) : V[j].q = q => j \in 1..Len(M) /\ V[j] = M[j]
    BY <1>1, <1>2, <2>1
  <2>3. OnItsWay(q, V) <=> OnItsWay(q, M)
    BY <1>2, <2>2 DEF OnItsWay
  <2>4. KnownAfter(0, q, M, W, p) => KnownAfter(0, q, V, W, p)
    BY <2>3, Zenon DEF KnownAfter
  <2>5. \A i, j \in 1..Len(V) : IsCreate(V[i]) /\ V[j].q = q => j < i
    BY <1>2, <1>4, <2>2
  <2>6. SpokenNext(q, M, W, p) => SpokenNext(q, V, W, p)
    BY <2>4, <2>5 DEF SpokenNext
  <2> QED BY <1>3, <2>1, <2>6 DEF ToSpeakInv
<1>8. \A q \in Questions \ x : SpokenInv(q, a, k, p)
  BY DEF SpeechInv
<1> QED BY <1>6, <1>7, <1>8 DEF SpeechInv, V

-----------------------------------------------------------------------------
(* Events that arrive at the gateway.                                        *)

\* The first event has gone: the places of the others.
LEMMA TailPlaces ==
  ASSUME NEW W \in Seq(Events), W # <<>>
  PROVE  /\ 1 \in 1..Len(W) /\ Len(W) \in Nat /\ Len(Tail(W)) = Len(W) - 1 /\ Tail(W) \in Seq(Events)
         /\ Head(W) = W[1]
         /\ \A i \in 1..Len(Tail(W)) : i + 1 \in 1..Len(W) /\ Tail(W)[i] = W[i + 1] /\ i + 1 # 1
         /\ \A i \in 1..Len(W) : i = 1 \/ (i - 1 \in 1..Len(Tail(W)) /\ Tail(W)[i - 1] = W[i])
<1> DEFINE V == Tail(W)
<1>1. /\ Head(W) = W[1] /\ V \in Seq(Events)
      /\ Len(W) \in Nat \ {0} /\ Len(V) = Len(W) - 1
      /\ \A i \in 1..(Len(W) - 1) : V[i] = W[i + 1]
  BY TailFacts
<1> HIDE DEF V
<1>2. 1 \in 1..Len(W) /\ \A i \in 1..Len(V) : i + 1 \in 1..Len(W) /\ V[i] = W[i + 1] /\ i + 1 # 1
  BY <1>1
<1>3. ASSUME NEW i \in 1..Len(W), i # 1 PROVE i - 1 \in 1..Len(V) /\ V[i - 1] = W[i]
  <2>1. i - 1 \in 1..(Len(W) - 1) /\ (i - 1) + 1 = i
    BY <1>1, <1>3
  <2>2. V[i - 1] = W[(i - 1) + 1]
    BY <1>1, <2>1
  <2> QED BY <1>1, <2>1, <2>2
<1> QED BY <1>1, <1>2, <1>3 DEF V

\* An event that answers nothing leaves the requests as they are.
LEMMA PopRequest ==
  ASSUME NEW M, NEW W \in Seq(Events), W # <<>>, ~IsAnswer(W[1]), NEW g, NEW h, RequestInv(M, W, g),
         h.requested = g.requested, h.afterRequest.acks = g.afterRequest.acks
  PROVE  RequestInv(M, Tail(W), h)
<1> DEFINE V == Tail(W)
<1>1. /\ \A i \in 1..Len(V) : i + 1 \in 1..Len(W) /\ V[i] = W[i + 1]
      /\ \A i \in 1..Len(W) : i = 1 \/ (i - 1 \in 1..Len(V) /\ V[i - 1] = W[i])
      /\ Len(V) \in Nat
  BY TailPlaces
<1> HIDE DEF V, IsCreate, IsAnswer
<1>2. \A i, j \in 1..Len(V) : IsAnswer(V[i]) /\ IsAnswer(V[j]) => i = j
  <2> SUFFICES ASSUME NEW i \in 1..Len(V), NEW j \in 1..Len(V), IsAnswer(V[i]), IsAnswer(V[j]) PROVE i = j
    OBVIOUS
  <2>1. i + 1 = j + 1
    BY <1>1 DEF RequestInv
  <2> QED BY <1>1, <2>1
<1>3. (\E i \in 1..Len(W) : IsAnswer(W[i])) <=> (\E i \in 1..Len(V) : IsAnswer(V[i]))
  BY <1>1
<1>4. \A i \in 1..Len(M), j \in 1..Len(V) : ~(IsCreate(M[i]) /\ IsAnswer(V[j]))
  BY <1>1 DEF RequestInv
<1> QED BY <1>2, <1>3, <1>4, Zenon DEF RequestInv, V

\* Nor does it change the response that speaks a question.
LEMMA PopNext ==
  ASSUME NEW q, NEW M, NEW W \in Seq(Events), W # <<>>, W[1].kind # "created", NEW p, SpokenNext(q, M, W, p)
  PROVE  SpokenNext(q, M, Tail(W), p)
<1>1. KnownAfter(0, q, M, W, p) /\ 0 \in 0..Len(W)
  BY DEF SpokenNext
<1>2. KnownAfter(0, q, M, Tail(W), p)
  BY <1>1, PopKnown
<1> QED BY <1>2 DEF SpokenNext

\* An event arrives that is neither a new response nor an answer.
LEMMA QuietPop ==
  ASSUME NEW M, NEW W \in Seq(Events), W # <<>>, W[1].kind # "created", ~IsAnswer(W[1]), NEW p, NEW g,
         NEW h, h.requested = g.requested, h.afterRequest.acks = g.afterRequest.acks,
         h.unspoken.acks = g.unspoken.acks, NEW a, NEW k, NEW x, SpeechInv(M, W, p, g, a, k, x)
  PROVE  SpeechInv(M, Tail(W), p, h, a, k, x)
<1> DEFINE V == Tail(W)
<1>1. /\ \A i \in 1..Len(V) : i + 1 \in 1..Len(W) /\ V[i] = W[i + 1]
      /\ \A i \in 1..Len(W) : i = 1 \/ (i - 1 \in 1..Len(V) /\ V[i - 1] = W[i])
      /\ Len(V) \in Nat /\ Len(W) \in Nat
  BY TailPlaces
<1>2. RequestInv(M, V, h)
  BY PopRequest DEF SpeechInv
<1>3. ASSUME NEW q \in Questions \ x PROVE ToSpeakInv(q, M, V, p, h)
  <2>1. ToSpeakInv(q, M, W, p, g)
    BY <1>3 DEF SpeechInv
  <2>2. SpokenNext(q, M, W, p) => SpokenNext(q, M, V, p)
    BY PopNext
  <2>3. ASSUME SpokenLater(q, M, W, p) PROVE SpokenLater(q, M, V, p)
    <3>1. ASSUME NEW n \in 1..Len(W), IsAnswer(W[n]), \A i \in 1..(n - 1) : W[i].kind # "created",
                 KnownAfter(n, q, M, W, p)
          PROVE  SpokenLater(q, M, V, p)
      <4>1. n # 1 /\ n \in 0..Len(W) /\ n # 0
        BY <3>1
      <4>2. KnownAfter(n - 1, q, M, V, p)
        BY <3>1, <4>1, PopKnown
      <4> HIDE DEF V
      <4>3. n - 1 \in 1..Len(V) /\ V[n - 1] = W[n]
        BY <1>1, <4>1
      <4>4. \A i \in 1..((n - 1) - 1) : i \in 1..Len(V) /\ i + 1 \in 1..(n - 1)
        BY <1>1, <4>3
      <4>5. \A i \in 1..((n - 1) - 1) : V[i].kind # "created"
        BY <1>1, <3>1, <4>4
      <4> QED BY <3>1, <4>2, <4>3, <4>5 DEF SpokenLater
    <3> HIDE DEF V
    <3>2. (\A i \in 1..Len(W) : W[i].kind # "created") => \A i \in 1..Len(V) : V[i].kind # "created"
      BY <1>1
    <3>3. CASE /\ \E i \in 1..Len(M) : IsCreate(M[i])
               /\ \A i, j \in 1..Len(M) : IsCreate(M[i]) /\ M[j].q = q => i < j
               /\ OnItsWay(q, M) /\ q \notin p.ctx
               /\ \A i \in 1..Len(W) : W[i].kind # "created"
      BY <3>2, <3>3 DEF SpokenLater
    <3> QED BY <2>3, <3>1, <3>3 DEF SpokenLater
  <2> QED BY <2>1, <2>2, <2>3 DEF ToSpeakInv
<1>4. \A q \in Questions \ x : SpokenInv(q, a, k, p)
  BY DEF SpeechInv
<1> QED BY <1>2, <1>3, <1>4 DEF SpeechInv, V

\* The answer to a request arrives: there is no other, and what was sent after
\* the request is spoken next.
LEMMA AnswerPop ==
  ASSUME NEW M, NEW W \in Seq(Events), W # <<>>, IsAnswer(W[1]), NEW p, NEW g, NEW a, NEW k, NEW x,
         SpeechInv(M, W, p, g, a, k, x)
  PROVE  /\ g.requested
         /\ \A i \in 1..Len(M) : ~IsCreate(M[i])
         /\ \A i \in 1..Len(Tail(W)) : ~IsAnswer(Tail(W)[i])
         /\ \A q \in Questions \ x : q \in g.afterRequest.acks => SpokenNext(q, M, Tail(W), p)
<1> DEFINE V == Tail(W)
<1>1. /\ \A i \in 1..Len(V) : i + 1 \in 1..Len(W) /\ V[i] = W[i + 1] /\ i + 1 # 1
      /\ 1 \in 1..Len(W)
  BY TailPlaces
<1>2. RequestInv(M, W, g)
  BY DEF SpeechInv
<1>3. g.requested /\ \A i \in 1..Len(M) : ~IsCreate(M[i])
  BY <1>1, <1>2 DEF RequestInv
<1>4. \A i \in 1..Len(W) : IsAnswer(W[i]) => i = 1
  BY <1>1, <1>2 DEF RequestInv
<1>5. \A i \in 1..Len(V) : ~IsAnswer(V[i])
  <2> HIDE DEF V, IsAnswer
  <2> QED BY <1>1, <1>4
<1>6. ASSUME NEW q \in Questions \ x, q \in g.afterRequest.acks PROVE SpokenNext(q, M, V, p)
  <2>1. SpokenLater(q, M, W, p)
    BY <1>6 DEF SpeechInv, ToSpeakInv
  <2>2. KnownAfter(1, q, M, W, p)
    BY <1>3, <1>4, <2>1 DEF SpokenLater
  <2>3. 1 \in 0..Len(W)
    BY <1>1
  <2>4. KnownAfter(0, q, M, V, p)
    BY <2>2, <2>3, PopKnown
  <2> QED BY <1>3, <2>4 DEF SpokenNext
<1> QED BY <1>3, <1>5, <1>6 DEF V

\* An error arrives as the answer to a request.
LEMMA ErrorSpeech ==
  ASSUME NEW M, NEW W \in Seq(Events), W # <<>>, IsAnswer(W[1]), W[1].kind # "created", NEW p, NEW g,
         NEW h, ~h.requested, h.unspoken.acks = g.unspoken.acks \cup g.afterRequest.acks, h.afterRequest.acks = {},
         h.requested \in BOOLEAN, NEW a, NEW k, NEW x, SpeechInv(M, W, p, g, a, k, x)
  PROVE  SpeechInv(M, Tail(W), p, h, a, k, x)
<1>1. /\ \A i \in 1..Len(M) : ~IsCreate(M[i])
      /\ \A i \in 1..Len(Tail(W)) : ~IsAnswer(Tail(W)[i])
      /\ \A q \in Questions \ x : q \in g.afterRequest.acks => SpokenNext(q, M, Tail(W), p)
  BY AnswerPop
<1>2. RequestInv(M, Tail(W), h)
  BY <1>1 DEF RequestInv
<1>3. ASSUME NEW q \in Questions \ x PROVE ToSpeakInv(q, M, Tail(W), p, h)
  <2>1. ToSpeakInv(q, M, W, p, g)
    BY <1>3 DEF SpeechInv
  <2>2. q \in g.unspoken.acks => SpokenNext(q, M, Tail(W), p)
    BY <2>1, PopNext DEF ToSpeakInv
  <2> QED BY <1>1, <1>3, <2>2 DEF ToSpeakInv
<1>4. \A q \in Questions \ x : SpokenInv(q, a, k, p)
  BY DEF SpeechInv
<1> QED BY <1>2, <1>3, <1>4 DEF SpeechInv

\* A new response arrives: it is the first that knows what it speaks, and the
\* questions are acknowledged with its turn.
LEMMA CreatedSpeech ==
  ASSUME NEW M, NEW W \in Seq(Events), W # <<>>, W[1].kind = "created", NEW p \in Providers, Announced(W, p),
         NEW g, NEW h, ~h.requested, h.requested \in BOOLEAN, g.requested => IsAnswer(W[1]),
         h.unspoken.acks = g.afterRequest.acks, h.afterRequest.acks = {},
         NEW a, NEW b, NEW k, NEW x, SpeechInv(M, W, p, g, a, k, x),
         \A i \in 1..Len(b) :
           \/ i \in 1..Len(a) /\ b[i] = a[i]
           \/ b[i].turn = p.turnAt[W[1].r] /\ b[i].q \in g.unspoken.acks
  PROVE  SpeechInv(M, Tail(W), p, h, b, k, x)
<1> DEFINE V == Tail(W)
<1>1. /\ \A i \in 1..Len(V) : i + 1 \in 1..Len(W) /\ V[i] = W[i + 1] /\ i + 1 # 1
      /\ 1 \in 1..Len(W)
  BY TailPlaces
<1>2. RequestInv(M, W, g)
  BY DEF SpeechInv
<1>3. /\ \A i \in 1..Len(M) : ~IsCreate(M[i])
      /\ \A i \in 1..Len(V) : ~IsAnswer(V[i])
      /\ \A q \in Questions \ x : q \in g.afterRequest.acks => SpokenNext(q, M, V, p)
  <2>1. CASE g.requested
    BY <2>1, AnswerPop
  <2>2. CASE ~g.requested
    <3>1. /\ \A i \in 1..Len(M) : ~IsCreate(M[i])
          /\ \A i \in 1..Len(W) : ~IsAnswer(W[i])
          /\ g.afterRequest.acks = {}
      BY <1>2, <2>2 DEF RequestInv
    <3> HIDE DEF V, IsAnswer, IsCreate
    <3> QED BY <1>1, <3>1
  <2> QED BY <2>1, <2>2
<1> HIDE DEF V
<1>4. RequestInv(M, V, h)
  BY <1>3 DEF RequestInv
<1>5. ASSUME NEW q \in Questions \ x
      PROVE  ToSpeakInv(q, M, V, p, h) /\ SpokenInv(q, b, k, p)
  <2>1. ToSpeakInv(q, M, W, p, g) /\ SpokenInv(q, a, k, p)
    BY <1>5 DEF SpeechInv
  <2>2. ToSpeakInv(q, M, V, p, h)
    BY <1>3, <1>5 DEF ToSpeakInv
  <2>3. ASSUME q \in g.unspoken.acks PROVE SpokenIn(q, p.turnAt[W[1].r], p)
    <3>1. KnownAfter(0, q, M, W, p)
      BY <2>1, <2>3 DEF ToSpeakInv, SpokenNext
    <3>2. 1 \in (0 + 1)..Len(W) /\ (0 + 1)..(1 - 1) = {}
      BY <1>1
    <3>3. q \in p.knows[W[1].r] /\ Unknown(q, W[1].r - 1, p)
      BY <3>1, <3>2 DEF KnownAfter
    <3>4. W[1].r \in Responses
      BY <1>1, BoundsAssumption DEF Announced, Responses, Providers
    <3> QED BY <3>3, <3>4 DEF SpokenIn
  <2>4. SpokenInv(q, b, k, p)
    BY <2>1, <2>3 DEF SpokenInv
  <2> QED BY <2>2, <2>4
<1> QED BY <1>4, <1>5 DEF SpeechInv, V

-----------------------------------------------------------------------------
(* The steps of the provider and the user.                                   *)

\* The facts about messages and events that the steps need.
LEMMA AskedInvFacts ==
  ASSUME Inv, AskedInv
  PROVE  /\ provider \in Providers /\ toGateway \in Seq(Events) /\ toProvider \in Seq(Messages)
         /\ KnowsInv(toProvider, provider, sent) /\ Announced(toGateway, provider)
         /\ ~mistaken => SpeechInv(toProvider, toGateway, provider, gw, acks, conf, crossed)
         /\ mistaken \in BOOLEAN
<1>1. /\ provider \in Providers /\ toGateway \in Seq(Events) /\ toProvider \in Seq(Messages)
      /\ WireInv(toGateway, provider, gw) /\ StoreType
  BY InvFacts
<1>2. Announced(toGateway, provider)
  BY <1>1 DEF WireInv, OrderInv, Announced
<1> QED BY <1>1, <1>2 DEF AskedInv, StoreType

\* What a step that changes only the events and the provider has to keep.
LEMMA ProviderAsked ==
  ASSUME Inv, AskedInv, UNCHANGED <<toProvider, gw, acks, conf, sent, crossed, mistaken>>,
         NEW e \in Events, e.kind # "created", ~IsAnswer(e), SameKnowledge(provider, provider'),
         toGateway' = Append(toGateway, e)
  PROVE  AskedInv'
<1>1. /\ provider \in Providers /\ toGateway \in Seq(Events) /\ KnowsInv(toProvider, provider, sent)
      /\ ~mistaken => SpeechInv(toProvider, toGateway, provider, gw, acks, conf, crossed)
  BY AskedInvFacts
<1>2. KnowsInv(toProvider, provider', sent)
  BY <1>1, SameKnows
<1>3. ~mistaken => SpeechInv(toProvider, Append(toGateway, e), provider', gw, acks, conf, crossed)
  BY <1>1, QuietPush
<1> QED BY <1>2, <1>3 DEF AskedInv

\* UserSpeaks keeps the invariant.
LEMMA UserSpeaksAsked ==
  ASSUME Inv, AskedInv, UserSpeaks
  PROVE  AskedInv'
<1> DEFINE e1 == Event("speechStarted", 0, FALSE, {})
           e2 == Event("done", provider.active, FALSE, provider.calls)
<1>1. /\ provider \in Providers /\ toGateway \in Seq(Events) /\ KnowsInv(toProvider, provider, sent)
      /\ ~mistaken => SpeechInv(toProvider, toGateway, provider, gw, acks, conf, crossed)
  BY AskedInvFacts
<1>2. /\ provider' = [provider EXCEPT !.speaking = TRUE, !.active = 0]
      /\ toGateway' = toGateway \o <<e1>> \o IF provider.active = 0 THEN <<>> ELSE <<e2>>
      /\ UNCHANGED <<toProvider, gw, acks, stored, conf, sent, crossed, mistaken, failures>>
  BY Zenon DEF UserSpeaks
<1>3. /\ provider.calls \in SUBSET Calls /\ provider.active \in 0..MaxResponses /\ MaxResponses \in Nat
  BY InvFacts
<1>4. e1 \in Events /\ e1.kind # "created" /\ ~IsAnswer(e1)
  BY <1>3 DEF Event, Events, IsAnswer
<1>5. e2 \in Events /\ e2.kind # "created" /\ ~IsAnswer(e2)
  BY <1>3 DEF Event, Events, IsAnswer
<1>6. SameKnowledge(provider, provider') /\ SameKnowledge(provider, provider)
  BY <1>1, <1>2 DEF Providers, SameKnowledge
<1> HIDE DEF e1, e2
<1>7. CASE provider.active = 0
  <2>1. toGateway' = Append(toGateway, e1)
    BY <1>1, <1>2, <1>4, <1>7, ConcatFacts
  <2> QED BY <1>2, <1>4, <1>6, <2>1, ProviderAsked
<1>8. CASE provider.active # 0
  <2>1. toGateway' = Append(Append(toGateway, e1), e2)
    <3>1. toGateway' = toGateway \o <<e1>> \o <<e2>>
      BY <1>2, <1>8
    <3>2. toGateway \o <<e1>> \o <<e2>> = Append(Append(toGateway, e1), e2)
      BY <1>1, <1>4, <1>5, ConcatFacts
    <3> QED BY <3>1, <3>2
  <2>2. ~mistaken => SpeechInv(toProvider, Append(toGateway, e1), provider, gw, acks, conf, crossed)
    BY <1>1, <1>4, <1>6, QuietPush
  <2>3. Append(toGateway, e1) \in Seq(Events)
    BY <1>1, <1>4, AppendFacts
  <2>4. ~mistaken => SpeechInv(toProvider, toGateway', provider', gw, acks, conf, crossed)
    BY <1>1, <1>5, <1>6, <2>1, <2>2, <2>3, QuietPush
  <2>5. KnowsInv(toProvider, provider', sent)
    BY <1>1, <1>6, SameKnows
  <2> QED BY <1>2, <2>4, <2>5 DEF AskedInv
<1> QED BY <1>7, <1>8

\* UserStops keeps the invariant: what crosses the response that the provider
\* starts by itself does not count.
LEMMA UserStopsAsked ==
  ASSUME Inv, AskedInv, UserStops
  PROVE  AskedInv'
<1> DEFINE p == [provider EXCEPT !.speaking = FALSE, !.turns = @ + 1]
           stop == Event("speechStopped", 0, FALSE, {})
           made == Event("created", p.made + 1, TRUE, {})
           qs == {toProvider[i].q : i \in DOMAIN toProvider} \ {NoQuestion}
           W == toGateway
<1>1. /\ provider \in Providers /\ toGateway \in Seq(Events) /\ toProvider \in Seq(Messages)
      /\ KnowsInv(toProvider, provider, sent) /\ Announced(toGateway, provider)
      /\ ~mistaken => SpeechInv(toProvider, W, provider, gw, acks, conf, crossed)
  BY AskedInvFacts
<1>2. UNCHANGED <<toProvider, gw, acks, stored, conf, sent, mistaken, failures>>
  BY Zenon DEF UserStops
<1>3. /\ p \in Providers /\ p.ctx = provider.ctx /\ p.knows = provider.knows
      /\ p.made = provider.made /\ p.turnAt = provider.turnAt
  BY <1>1, HeardFacts
<1>4. MaxResponses \in Nat /\ 0 \in 0..MaxResponses
  BY BoundsAssumption
<1>5. stop \in Events /\ stop.kind = "speechStopped" /\ ~IsAnswer(stop)
  BY <1>4 DEF Event, Events, IsAnswer
<1>6. \/ /\ p.made < MaxResponses /\ provider' = Respond(p)
         /\ toGateway' = W \o <<stop, made>>
         /\ crossed' = crossed \cup qs
      \/ provider' = p /\ toGateway' = Append(W, stop) /\ UNCHANGED crossed
  BY DEF UserStops
<1> HIDE DEF p, stop
<1>7. SameKnowledge(provider, p)
  BY <1>3 DEF SameKnowledge
<1>8. CASE provider' = p /\ toGateway' = Append(W, stop) /\ UNCHANGED crossed
  BY <1>2, <1>5, <1>7, <1>8, ProviderAsked
<1>9. CASE /\ p.made < MaxResponses /\ provider' = Respond(p)
           /\ toGateway' = W \o <<stop, made>>
           /\ crossed' = crossed \cup qs
  <2> DEFINE V == Append(W, stop)
  <2>1. p.made \in Nat /\ p.made + 1 \in 0..MaxResponses
    BY <1>3, <1>4, <1>9 DEF Providers
  <2>2. made \in Events /\ made.kind = "created" /\ made.r = p.made + 1 /\ made.auto
    BY <2>1 DEF Event, Events
  <2> HIDE DEF made
  <2>3. toGateway' = Append(V, made)
    <3>1. W \in Seq(Events) /\ stop \in Events /\ made \in Events
      BY <1>1, <1>5, <2>2
    <3>2. W \o <<stop, made>> = Append(Append(W, stop), made)
      BY <3>1, ConcatFacts
    <3> QED BY <1>9, <3>2
  <2>4. /\ V \in Seq(Events) /\ Len(V) = Len(W) + 1 /\ Len(W) \in Nat
        /\ \A i \in 1..Len(W) : V[i] = W[i]
        /\ V[Len(W) + 1] = stop
    BY <1>1, <1>5, AppendFacts
  <2>5. ~mistaken => SpeechInv(toProvider, V, p, gw, acks, conf, crossed)
    BY <1>1, <1>5, <1>7, QuietPush
  <2> HIDE DEF V
  <2>6. Announced(V, p)
    BY <1>1, <1>3, <1>5, <2>4 DEF Announced
  <2>7. KnowsInv(toProvider, p, sent)
    BY <1>1, <1>7, SameKnows
  <2>8. \A q \in Questions \ crossed' : ~OnItsWay(q, toProvider)
    <3>1. DOMAIN toProvider = 1..Len(toProvider) /\ NoQuestion \notin Questions
      BY <1>1, QuestionsAssumption
    <3> QED BY <1>9, <3>1 DEF OnItsWay
  <2>9. crossed \subseteq crossed'
    BY <1>9
  <2>10. ~mistaken => SpeechInv(toProvider, toGateway', provider', gw, acks, conf, crossed')
    <3> SUFFICES ASSUME ~mistaken
                 PROVE  SpeechInv(toProvider, toGateway', provider', gw, acks, conf, crossed')
      OBVIOUS
    <3>1. SpeechInv(toProvider, V, p, gw, acks, conf, crossed)
      BY <2>5
    <3>2. p \in Providers /\ p.made < MaxResponses /\ V \in Seq(Events) /\ provider' = Respond(p)
      BY <1>3, <1>9, <2>4
    <3>3. SpeechInv(toProvider, Append(V, made), provider', gw, acks, conf, crossed')
      BY <2>2, <2>6, <2>7, <2>8, <2>9, <3>1, <3>2, AutoPush
    <3> QED BY <2>3, <3>3
  <2>11. KnowsInv(toProvider, provider', sent)
    BY <1>3, <1>9, <2>7, NewKnows
  <2> QED BY <1>2, <2>10, <2>11 DEF AskedInv
<1> QED BY <1>6, <1>8, <1>9

\* ResponseEnds keeps the invariant.
LEMMA ResponseEndsAsked ==
  ASSUME Inv, AskedInv, ResponseEnds
  PROVE  AskedInv'
<1> DEFINE e == Event("done", provider.active, FALSE, provider.calls)
<1>1. /\ provider' = [provider EXCEPT !.active = 0] /\ toGateway' = Append(toGateway, e)
      /\ UNCHANGED <<toProvider, gw, acks, stored, conf, sent, crossed, mistaken, failures>>
  BY Zenon DEF ResponseEnds
<1>2. provider \in Providers /\ provider.calls \in SUBSET Calls /\ provider.active \in 0..MaxResponses
  BY InvFacts
<1>3. e \in Events /\ e.kind # "created" /\ ~IsAnswer(e)
  BY <1>2 DEF Event, Events, IsAnswer
<1>4. SameKnowledge(provider, provider')
  BY <1>1, <1>2 DEF Providers, SameKnowledge
<1> HIDE DEF e
<1> QED BY <1>1, <1>3, <1>4, ProviderAsked

\* StrayError keeps the invariant.
LEMMA StrayErrorAsked ==
  ASSUME Inv, AskedInv, StrayError
  PROVE  AskedInv'
<1> DEFINE e == Event("error", 0, TRUE, {})
<1>1. /\ provider' = [provider EXCEPT !.errors = @ + 1] /\ toGateway' = Append(toGateway, e)
      /\ UNCHANGED <<toProvider, gw, acks, stored, conf, sent, crossed, mistaken, failures>>
  BY Zenon DEF StrayError
<1>2. provider \in Providers /\ MaxResponses \in Nat
  BY InvFacts
<1>3. e \in Events /\ e.kind # "created" /\ ~IsAnswer(e)
  BY <1>2 DEF Event, Events, IsAnswer
<1>4. SameKnowledge(provider, provider')
  BY <1>1, <1>2 DEF Providers, SameKnowledge
<1> HIDE DEF e
<1> QED BY <1>1, <1>3, <1>4, ProviderAsked

\* ModelCalls keeps the invariant.
LEMMA ModelCallsAsked ==
  ASSUME Inv, AskedInv, ModelCalls
  PROVE  AskedInv'
<1>1. UNCHANGED <<toProvider, gw, acks, stored, conf, sent, crossed, mistaken, failures>>
  BY Zenon DEF ModelCalls
<1>2. PICK q \in Questions, kind \in {"ask", "confirm", "cancel"} :
        LET c == [kind |-> kind, q |-> q] IN
        /\ provider' = [provider EXCEPT !.calls = @ \cup {c},
                                        !.asked = IF kind = "ask" THEN @ \cup {q} ELSE @]
        /\ \/ toGateway' = Append(toGateway, Event("call", provider.active, FALSE, {c}))
           \/ UNCHANGED toGateway
  BY Zenon DEF ModelCalls
<1> DEFINE c == [kind |-> kind, q |-> q]
           e == Event("call", provider.active, FALSE, {c})
<1>3. provider \in Providers /\ provider.active \in 0..MaxResponses
  BY InvFacts
<1>4. c \in Calls
  BY DEF Calls
<1>5. e \in Events /\ e.kind # "created" /\ ~IsAnswer(e)
  BY <1>3, <1>4 DEF Event, Events, IsAnswer
<1>6. SameKnowledge(provider, provider')
  BY <1>2, <1>3 DEF Providers, SameKnowledge
<1>7. toGateway' = Append(toGateway, e) \/ UNCHANGED toGateway
  BY <1>2, Zenon
<1> HIDE DEF c, e
<1>8. CASE toGateway' = Append(toGateway, e)
  BY <1>1, <1>5, <1>6, <1>8, ProviderAsked
<1>9. CASE UNCHANGED toGateway
  <2>1. /\ KnowsInv(toProvider, provider, sent)
        /\ ~mistaken => SpeechInv(toProvider, toGateway, provider, gw, acks, conf, crossed)
    BY AskedInvFacts
  <2>2. KnowsInv(toProvider, provider', sent)
    BY <1>6, <2>1, SameKnows
  <2>3. ~mistaken => SpeechInv(toProvider, toGateway, provider', gw, acks, conf, crossed)
    BY <1>3, <1>6, <2>1, SameSpeech
  <2> QED BY <1>1, <1>9, <2>2, <2>3 DEF AskedInv
<1> QED BY <1>7, <1>8, <1>9

\* Receive keeps the invariant.
LEMMA ReceiveAsked ==
  ASSUME Inv, AskedInv, Receive
  PROVE  AskedInv'
<1> DEFINE m == Head(toProvider)
           M == toProvider
<1>1. /\ provider \in Providers /\ toGateway \in Seq(Events) /\ M \in Seq(Messages)
      /\ KnowsInv(M, provider, sent) /\ Announced(toGateway, provider)
      /\ ~mistaken => SpeechInv(M, toGateway, provider, gw, acks, conf, crossed)
  BY AskedInvFacts
<1>2. /\ M # <<>> /\ toProvider' = Tail(M)
      /\ UNCHANGED <<gw, acks, stored, conf, sent, crossed, mistaken, failures>>
  BY Zenon DEF Receive
<1>3. m = M[1] /\ m \in Messages
  BY <1>1, <1>2, TailMessages
<1>4. MaxResponses \in Nat /\ 0 \in 0..MaxResponses
  BY BoundsAssumption
<1>5. \/ /\ m.kind = "item" /\ UNCHANGED toGateway
         /\ provider' = [provider EXCEPT !.ctx = @ \cup ({m.q} \ {NoQuestion})]
      \/ /\ m.kind = "create" /\ provider.made < MaxResponses
         /\ provider' = Respond(provider)
         /\ toGateway' = Append(toGateway, Event("created", provider.made + 1, FALSE, {}))
      \/ /\ m.kind = "create"
         /\ provider' = [provider EXCEPT !.errors = IF provider.active # 0 THEN @ ELSE @ + 1]
         /\ toGateway' = Append(toGateway, Event("error", 0, FALSE, {}))
  BY Zenon DEF Receive
<1> HIDE DEF m
<1>6. CASE /\ m.kind = "item" /\ UNCHANGED toGateway
           /\ provider' = [provider EXCEPT !.ctx = @ \cup ({m.q} \ {NoQuestion})]
  <2>1. /\ provider'.ctx = provider.ctx \cup ({M[1].q} \ {NoQuestion}) /\ provider'.knows = provider.knows
        /\ provider'.made = provider.made /\ provider'.turnAt = provider.turnAt
    BY <1>1, <1>3, <1>6 DEF Providers
  <2>2. ~IsCreate(M[1])
    BY <1>3, <1>6 DEF IsCreate
  <2>3. KnowsInv(Tail(M), provider', sent)
    BY <1>1, <1>2, <2>1, ItemKnows
  <2>4. ~mistaken => SpeechInv(Tail(M), toGateway, provider', gw, acks, conf, crossed)
    BY <1>1, <1>2, <2>1, <2>2, ItemSpeech
  <2> QED BY <1>2, <1>6, <2>3, <2>4 DEF AskedInv
<1>7. CASE /\ m.kind = "create" /\ provider.made < MaxResponses
           /\ provider' = Respond(provider)
           /\ toGateway' = Append(toGateway, Event("created", provider.made + 1, FALSE, {}))
  <2> DEFINE e == Event("created", provider.made + 1, FALSE, {})
  <2>1. provider.made \in Nat /\ provider.made + 1 \in 0..MaxResponses
    BY <1>1, <1>4, <1>7 DEF Providers
  <2>2. e \in Events /\ e.kind = "created" /\ e.r = provider.made + 1 /\ IsAnswer(e)
    BY <2>1 DEF Event, Events, IsAnswer
  <2>3. IsCreate(M[1])
    BY <1>3, <1>7 DEF IsCreate
  <2>4. KnowsInv(Tail(M), provider', sent)
    BY <1>1, <1>2, <1>7, NewKnows, TailKnows
  <2>5. toGateway' = Append(toGateway, e)
    BY <1>7
  <2> HIDE DEF e
  <2>6. ~mistaken => SpeechInv(Tail(M), toGateway', provider', gw, acks, conf, crossed)
    BY <1>1, <1>2, <1>7, <2>2, <2>3, <2>5, CreateSpeech
  <2> QED BY <1>2, <2>4, <2>6 DEF AskedInv
<1>8. CASE /\ m.kind = "create"
           /\ provider' = [provider EXCEPT !.errors = IF provider.active # 0 THEN @ ELSE @ + 1]
           /\ toGateway' = Append(toGateway, Event("error", 0, FALSE, {}))
  <2> DEFINE e == Event("error", 0, FALSE, {})
  <2>1. e \in Events /\ e.kind # "created" /\ IsAnswer(e)
    BY <1>4 DEF Event, Events, IsAnswer
  <2>2. SameKnowledge(provider, provider')
    BY <1>1, <1>8 DEF Providers, SameKnowledge
  <2>3. IsCreate(M[1])
    BY <1>3, <1>8 DEF IsCreate
  <2>4. KnowsInv(Tail(M), provider', sent)
    BY <1>1, <1>2, <2>2, SameKnows, TailKnows
  <2>5. toGateway' = Append(toGateway, e)
    BY <1>8
  <2> HIDE DEF e
  <2>6. ~mistaken => SpeechInv(Tail(M), toGateway', provider', gw, acks, conf, crossed)
    BY <1>1, <1>2, <2>1, <2>2, <2>3, <2>5, CreateSpeech
  <2> QED BY <1>2, <2>4, <2>6 DEF AskedInv
<1> QED BY <1>5, <1>6, <1>7, <1>8

-----------------------------------------------------------------------------
(* The steps of the gateway.                                                 *)

\* A gateway with the same questions to speak.
SameQuestions(g, h) ==
  /\ h.requested = g.requested
  /\ h.unspoken.acks = g.unspoken.acks /\ h.afterRequest.acks = g.afterRequest.acks

\* It speaks them with the same responses.
LEMMA SameGateway ==
  ASSUME NEW M, NEW W, NEW p, NEW g, NEW h, SameQuestions(g, h), NEW a, NEW k, NEW x,
         SpeechInv(M, W, p, g, a, k, x)
  PROVE  SpeechInv(M, W, p, h, a, k, x)
BY Zenon DEF SpeechInv, RequestInv, ToSpeakInv, SameQuestions

\* What was put into the conversation is to be spoken with the next response,
\* or after the one that was asked for.
LEMMA AddedAdds ==
  ASSUME NEW g \in Gateways, NEW qs \in SUBSET Questions
  PROVE  LET h == added(g, qs) IN h \in Gateways /\ h.turn = g.turn /\ Adds(g, h, qs)
<1> DEFINE new == [want |-> TRUE, acks |-> qs]
           h == added(g, qs)
<1>1. g.unspoken \in Deliveries /\ g.afterRequest \in Deliveries
  BY DEF Gateways
<1>2. /\ add(g.unspoken, new) \in Deliveries
      /\ add(g.unspoken, new).acks = g.unspoken.acks \cup qs
      /\ add(g.afterRequest, new) \in Deliveries
      /\ add(g.afterRequest, new).acks = g.afterRequest.acks \cup qs
  BY <1>1 DEF add, Deliveries
<1>3. CASE g.requested
  <2>1. h = [g EXCEPT !.afterRequest = add(g.afterRequest, new)]
    BY <1>3 DEF added
  <2> HIDE DEF new, h
  <2>2. /\ h \in Gateways /\ h.unspoken = g.unspoken /\ h.afterRequest = add(g.afterRequest, new)
        /\ h.turn = g.turn /\ h.requested = g.requested
    BY <1>2, <2>1 DEF Gateways
  <2> QED BY <1>2, <1>3, <2>2 DEF Adds, h
<1>4. CASE ~g.requested
  <2>1. h = [g EXCEPT !.unspoken = add(g.unspoken, new)]
    BY <1>4 DEF added
  <2> HIDE DEF new, h
  <2>2. /\ h \in Gateways /\ h.afterRequest = g.afterRequest /\ h.unspoken = add(g.unspoken, new)
        /\ h.turn = g.turn /\ h.requested = g.requested
    BY <1>2, <2>1 DEF Gateways
  <2> QED BY <1>2, <1>4, <2>2 DEF Adds, h
<1> QED BY <1>3, <1>4

\* What is left of the events.
LeftOf(W) == \A i \in 1..Len(W) : \E j \in 1..Len(toGateway) : W[i] = toGateway[j]

\* The end of a handler: W is what is left of the events, g what the handler
\* started from, h what the items with the questions qs have made of it.
LEMMA SendSpeech ==
  ASSUME NEW W \in Seq(Events), NEW g \in Gateways, NEW h \in Gateways, NEW qs \in SUBSET Questions,
         NEW items \in Seq(Messages), SendAndRespond(h, items), Carries(items, qs), Adds(g, h, qs),
         Unsent(qs, g, sent),
         toProvider \in Seq(Messages), provider \in Providers, KnowsInv(toProvider, provider, sent),
         toGateway \in Seq(Events), LeftOf(W)
  PROVE  /\ KnowsInv(toProvider', provider, sent')
         /\ SpeechInv(toProvider, W, provider, g, acks, conf, crossed)
            => SpeechInv(toProvider', W, provider, gw', acks, conf, crossed')
<1> DEFINE V == toProvider \o items
<1>1. DOMAIN items = 1..Len(items)
  OBVIOUS
<1>2. qs = {items[i].q : i \in DOMAIN items} \ {NoQuestion}
  <2>1. NoQuestion \notin qs
    BY QuestionsAssumption
  <2>2. \A q \in qs : q \in {items[i].q : i \in DOMAIN items} \ {NoQuestion}
    BY <1>1, <2>1 DEF Carries
  <2>3. \A q \in {items[i].q : i \in DOMAIN items} \ {NoQuestion} : q \in qs
    BY <1>1 DEF Carries
  <2> QED BY <2>2, <2>3
<1>3. sent' = SentNow(qs, h.turn, sent)
  <2>1. sent' = [q \in Questions |-> IF q \in {items[i].q : i \in DOMAIN items} \ {NoQuestion} THEN h.turn ELSE sent[q]]
    BY Zenon DEF SendAndRespond
  <2> QED BY <1>2, <2>1, Zenon DEF SentNow
<1>4. h.turn \in Nat /\ h.requested \in BOOLEAN
  BY DEF Gateways
<1>5. V \in Seq(Messages)
  BY JoinFacts
<1>6. KnowsInv(V, provider, sent')
  BY <1>3, <1>4, ItemsKnows
<1>7. Crossing(qs, W, crossed, crossed')
  <2>1. crossed' = IF \E i \in DOMAIN toGateway : toGateway[i].kind = "created" /\ toGateway[i].auto
                   THEN crossed \cup qs ELSE crossed
    BY <1>2, Zenon DEF SendAndRespond
  <2>2. DOMAIN toGateway = 1..Len(toGateway)
    OBVIOUS
  <2> HIDE DEF SendAndRespond
  <2>3. (\E i \in 1..Len(W) : W[i].kind = "created" /\ W[i].auto) =>
          \E i \in DOMAIN toGateway : toGateway[i].kind = "created" /\ toGateway[i].auto
    BY <2>2 DEF LeftOf
  <2> QED BY <2>1, <2>3 DEF Crossing
<1>8. SpeechInv(toProvider, W, provider, g, acks, conf, crossed) => SpeechInv(V, W, provider, h, acks, conf, crossed')
  BY <1>7, ItemsSpeech
<1>9. toProvider' = V \o IF MayRespond(h) THEN <<Create>> ELSE <<>>
  BY DEF SendAndRespond
<1>10. gw' = [h EXCEPT !.requested = h.requested \/ MayRespond(h)]
  BY DEF SendAndRespond
<1>11. gw'.unspoken = h.unspoken /\ gw'.afterRequest = h.afterRequest /\ gw'.requested = (h.requested \/ MayRespond(h))
  <2> HIDE DEF MayRespond
  <2> QED BY <1>10 DEF Gateways
<1> HIDE DEF V
<1>12. CASE MayRespond(h)
  <2>1. ~h.requested /\ gw'.requested = TRUE
    BY <1>11, <1>12 DEF MayRespond
  <2>2. Create \in Messages /\ Create.q = NoQuestion
    BY DEF Create, Messages
  <2> HIDE DEF Create
  <2>3. toProvider' = Append(V, Create)
    BY <1>5, <1>9, <1>12, <2>2
  <2>4. /\ Len(toProvider') = Len(V) + 1 /\ Len(V) \in Nat
        /\ \A i \in 1..Len(V) : toProvider'[i] = V[i]
        /\ toProvider'[Len(V) + 1] = Create
    BY <1>5, <2>2, <2>3, AppendFacts
  <2>5. \A i \in 1..Len(toProvider') : toProvider'[i].q # NoQuestion => i \in 1..Len(V)
    BY <2>2, <2>4
  <2>6. \A i \in 1..Len(toProvider') : toProvider'[i].q = NoQuestion \/ (i \in 1..Len(V) /\ toProvider'[i] = V[i])
    BY <2>4, <2>5
  <2>7. KnowsInv(toProvider', provider, sent')
    BY <1>6, <2>6 DEF KnowsInv
  <2>8. SpeechInv(V, W, provider, h, acks, conf, crossed') => SpeechInv(toProvider', W, provider, gw', acks, conf, crossed')
    BY <1>5, <1>11, <2>1, <2>3, AskSpeech
  <2> QED BY <1>8, <2>7, <2>8
<1>13. CASE ~MayRespond(h)
  <2>1. toProvider' = V
    BY <1>5, <1>9, <1>13
  <2>2. gw'.requested = h.requested
    BY <1>4, <1>11, <1>13
  <2>3. SameQuestions(h, gw')
    BY <1>11, <2>2 DEF SameQuestions
  <2> QED BY <1>6, <1>8, <2>1, <2>3, SameGateway
<1> QED BY <1>12, <1>13

\* Speaking without sending anything new.
LEMMA RespondSpeech ==
  ASSUME NEW W \in Seq(Events), NEW g \in Gateways, NEW items \in Seq(Messages), Len(items) = 0,
         SendAndRespond(g, items),
         toProvider \in Seq(Messages), provider \in Providers, KnowsInv(toProvider, provider, sent),
         toGateway \in Seq(Events), LeftOf(W)
  PROVE  /\ KnowsInv(toProvider', provider, sent')
         /\ SpeechInv(toProvider, W, provider, g, acks, conf, crossed)
            => SpeechInv(toProvider', W, provider, gw', acks, conf, crossed')
<1> DEFINE none == {}
<1>1. none \in SUBSET Questions /\ \A q : q \notin none
  OBVIOUS
<1>2. g.unspoken.acks \cup none = g.unspoken.acks /\ g.afterRequest.acks \cup none = g.afterRequest.acks
  OBVIOUS
<1> HIDE DEF none
<1>4. Carries(items, none)
  BY <1>1 DEF Carries
<1>5. Adds(g, g, none)
  BY <1>2 DEF Adds
<1>6. Unsent(none, g, sent)
  BY <1>1 DEF Unsent
<1>7. none \in SUBSET Questions
  BY <1>1
<1> QED BY <1>4, <1>5, <1>6, <1>7, SendSpeech

\* What the gateway delivers, and what it becomes.
Ready(g) == {c \in g.calls : /\ c.r \notin g.responding
                             /\ \A d \in g.calls : d.r = c.r => d.at = "held"}
ReadyAsks(g) == {c.q : c \in {d \in Ready(g) : d.asks}}
Outputs(g) == [i \in 1..Cardinality(Ready(g)) |->
                 Item(IF SetToSeq(Ready(g))[i].asks THEN SetToSeq(Ready(g))[i].q ELSE NoQuestion)]
Delivered(g) == [g EXCEPT !.calls = g.calls \ Ready(g)]

\* The outputs of the calls carry the questions that the calls have asked.
LEMMA DeliverCarries ==
  ASSUME NEW g, GatewayType(g)
  PROVE  /\ Outputs(g) \in Seq(Messages) /\ ReadyAsks(g) \in SUBSET Questions /\ Carries(Outputs(g), ReadyAsks(g))
         /\ Ready(g) = {} => ReadyAsks(g) = {}
<1> DEFINE n == Cardinality(Ready(g))
           out == Outputs(g)
<1>1. g \in Gateways /\ IsFiniteSet(g.calls) /\ \A c \in g.calls : c \in Runs
  BY DEF GatewayType, Gateways
<1>2. Ready(g) \subseteq g.calls /\ IsFiniteSet(Ready(g))
  <2>1. Ready(g) \in SUBSET g.calls
    BY DEF Ready
  <2> QED BY <1>1, <2>1, FS_Subset
<1>3. ReadyAsks(g) \in SUBSET Questions /\ (Ready(g) = {} => ReadyAsks(g) = {})
  BY <1>1, <1>2 DEF Runs, ReadyAsks
<1>4. /\ n \in Nat /\ SetToSeq(Ready(g)) \in [1..n -> Ready(g)]
      /\ \A x \in Ready(g) : \E i \in 1..n : SetToSeq(Ready(g))[i] = x
  BY <1>2, SetToSeqFacts
<1>5. \A i \in 1..n : SetToSeq(Ready(g))[i] \in Ready(g)
  BY <1>4
<1>6. \A c \in Ready(g) :
        LET m == Item(IF c.asks THEN c.q ELSE NoQuestion) IN
        /\ m \in Messages /\ ~IsCreate(m) /\ (m.q # NoQuestion => m.q \in ReadyAsks(g))
        /\ c.asks => m.q = c.q
  BY <1>1, <1>2 DEF Item, Messages, Runs, IsCreate, ReadyAsks
<1>7. \A i \in 1..n : out[i] = Item(IF SetToSeq(Ready(g))[i].asks THEN SetToSeq(Ready(g))[i].q ELSE NoQuestion)
  BY DEF Outputs
<1>8. \A i \in 1..n : out[i] \in Messages
  BY <1>5, <1>6, <1>7
<1>9. out \in Seq(Messages) /\ Len(out) = n
  <2>1. out \in [1..n -> Messages]
    BY <1>8 DEF Outputs
  <2> HIDE DEF n, out
  <2> QED BY <1>4, <2>1
<1>10. \A i \in 1..n : ~IsCreate(out[i]) /\ (out[i].q # NoQuestion => out[i].q \in ReadyAsks(g))
  BY <1>5, <1>6, <1>7
<1>11. ASSUME NEW q \in ReadyAsks(g) PROVE \E i \in 1..n : out[i].q = q
  <2>1. PICK c \in Ready(g) : c.asks /\ c.q = q
    BY DEF ReadyAsks
  <2>2. PICK i \in 1..n : SetToSeq(Ready(g))[i] = c
    BY <1>4
  <2> QED BY <1>6, <1>7, <2>1, <2>2
<1> HIDE DEF out, n
<1>12. Carries(out, ReadyAsks(g))
  BY <1>9, <1>10, <1>11 DEF Carries
<1> QED BY <1>3, <1>9, <1>12 DEF out

\* deliver: W is what is left of the events.
LEMMA DeliverSpeech ==
  ASSUME NEW W \in Seq(Events), NEW g, provider \in Providers, toProvider \in Seq(Messages),
         Consistent(W, provider, g, sent, acks, stored, conf), deliver(g),
         KnowsInv(toProvider, provider, sent), toGateway \in Seq(Events),
         LeftOf(W)
  PROVE  /\ KnowsInv(toProvider', provider, sent')
         /\ SpeechInv(toProvider, W, provider, g, acks, conf, crossed)
            => SpeechInv(toProvider', W, provider, gw', acks, conf, crossed')
<1> DEFINE qs == ReadyAsks(g)
           g1 == Delivered(g)
           h == IF Ready(g) = {} THEN g1 ELSE added(g1, qs)
<1>1. SendAndRespond(h, Outputs(g))
  BY DEF deliver, Outputs, Ready, ReadyAsks, Delivered
<1>2. GatewayType(g) /\ TurnsInv(provider, g) /\ OnceInv(W, provider, g, sent) /\ SentInv(g, sent, acks, conf)
  BY DEF Consistent
<1>3. /\ Outputs(g) \in Seq(Messages) /\ qs \in SUBSET Questions /\ Carries(Outputs(g), qs)
      /\ Ready(g) = {} => qs = {}
  BY <1>2, DeliverCarries
<1>4. g \in Gateways /\ g.requested \in BOOLEAN
  BY <1>2 DEF GatewayType, Gateways
<1>5. /\ g1 \in Gateways /\ g1.requested = g.requested
      /\ g1.unspoken = g.unspoken /\ g1.afterRequest = g.afterRequest
  <2>1. g.calls \ Ready(g) \in SUBSET Runs
    BY <1>4 DEF Gateways
  <2> QED BY <1>4, <2>1 DEF Gateways, Delivered
<1>6. \A c \in Ready(g) : c \in g.calls /\ c \in Runs
  BY <1>4 DEF Ready, Gateways
<1>7. \A q \in qs : sent[q] = NoTurn
  <2> SUFFICES ASSUME NEW q \in qs PROVE sent[q] = NoTurn
    OBVIOUS
  <2>1. PICK c \in Ready(g) : c.asks /\ c.q = q
    BY DEF ReadyAsks
  <2>2. c \in g.calls /\ c.kind = "ask" /\ c.r \in Nat /\ q \in Questions
    BY <1>2, <1>6, <2>1 DEF TurnsInv, Runs
  <2>3. Asks(q, c.r, W, provider, g)
    BY <2>1, <2>2 DEF Asks
  <2> QED BY <1>2, <2>2, <2>3 DEF OnceInv
<1>8. \A q \in qs : q \notin g.unspoken.acks \cup g.afterRequest.acks
  BY <1>2, <1>7 DEF SentInv, SentBy
<1> HIDE DEF qs, g1
<1>9. h \in Gateways /\ Adds(g, h, qs)
  <2>1. CASE Ready(g) = {}
    BY <1>3, <1>5, <2>1 DEF Adds
  <2>2. CASE Ready(g) # {}
    <3>1. h \in Gateways /\ Adds(g1, h, qs)
      BY <1>3, <1>5, <2>2, AddedAdds
    <3> QED BY <1>5, <3>1 DEF Adds
  <2> QED BY <2>1, <2>2
<1> HIDE DEF h
<1>10. Unsent(qs, g, sent)
  BY <1>7, <1>8 DEF Unsent
<1> QED BY <1>1, <1>3, <1>4, <1>9, <1>10, SendSpeech

\* What is left of the events was there before.
LEMMA TailWas ==
  ASSUME toGateway \in Seq(Events), toGateway # <<>>
  PROVE  LeftOf(Tail(toGateway)) /\ Tail(toGateway) \in Seq(Events)
BY TailPlaces DEF LeftOf

\* jarvisSpeechStarted and jarvisSpeechStopped keep the invariant.
LEMMA SpeechEventAsked ==
  ASSUME Inv, AskedInv, jarvisSpeechStarted \/ jarvisSpeechStopped
  PROVE  AskedInv'
<1>1. /\ toGateway # <<>> /\ Head(toGateway).kind \in {"speechStarted", "speechStopped"} /\ toGateway' = Tail(toGateway)
      /\ UNCHANGED <<toProvider, provider, acks, stored, conf, sent, crossed, mistaken, failures>>
      /\ gw' = [gw EXCEPT !.speaking = TRUE] \/ gw' = [gw EXCEPT !.speaking = FALSE, !.turn = @ + 1]
  BY Zenon DEF jarvisSpeechStarted, jarvisSpeechStopped, Event1
<1>2. /\ toGateway \in Seq(Events) /\ KnowsInv(toProvider, provider, sent)
      /\ ~mistaken => SpeechInv(toProvider, toGateway, provider, gw, acks, conf, crossed)
  BY AskedInvFacts
<1>3. gw \in Gateways
  BY InvFacts
<1>4. gw'.requested = gw.requested /\ gw'.unspoken = gw.unspoken /\ gw'.afterRequest = gw.afterRequest
  BY <1>1, <1>3 DEF Gateways
<1>5. toGateway[1].kind # "created" /\ ~IsAnswer(toGateway[1])
  <2>1. Head(toGateway) = toGateway[1]
    BY <1>1, <1>2, TailPlaces
  <2> QED BY <1>1, <2>1 DEF IsAnswer
<1>6. ~mistaken => SpeechInv(toProvider, Tail(toGateway), provider, gw', acks, conf, crossed)
  BY <1>1, <1>2, <1>4, <1>5, QuietPop
<1> QED BY <1>1, <1>2, <1>6 DEF AskedInv

\* A new response has the turn that the gateway has counted.
LEMMA HeadTurn ==
  ASSUME Inv, toGateway # <<>>, Head(toGateway).kind = "created"
  PROVE  provider.turnAt[Head(toGateway).r] = gw.turn
<1>1. WireInv(toGateway, provider, gw) /\ 1 \in 1..Len(toGateway) /\ Head(toGateway) = toGateway[1]
  BY InvFacts, TailEvents
<1>2. PICK f : Counts(f, toGateway, provider, gw)
  BY <1>1 DEF WireInv, ClockInv
<1>3. f[1] = f[1 - 1] /\ provider.turnAt[Head(toGateway).r] = f[1]
  BY <1>1, <1>2 DEF Counts
<1> QED BY <1>2, <1>3 DEF Counts

\* jarvisResponseCreated keeps the invariant.
LEMMA ResponseCreatedAsked ==
  ASSUME Inv, AskedInv, jarvisResponseCreated
  PROVE  AskedInv'
<1> DEFINE r == Head(toGateway).r
           S == gw.unspoken.acks
<1>1. /\ toGateway # <<>> /\ Head(toGateway).kind = "created" /\ toGateway' = Tail(toGateway)
      /\ mistaken' = (mistaken \/ (gw.requested /\ Head(toGateway).auto))
      /\ UNCHANGED <<toProvider, provider, stored, conf, sent, crossed, failures>>
  BY Zenon DEF jarvisResponseCreated, Event1, AsAnswer
<1>2. gw' = [gw EXCEPT !.responding = @ \cup {r}, !.turnOf[r] = gw.turn,
                       !.unspoken = gw.afterRequest, !.afterRequest = Nothing,
                       !.requested = FALSE, !.createFailures = 0]
  BY Zenon DEF jarvisResponseCreated
<1>3. acks' = Queued(acks, S, gw.turn)
  BY Zenon DEF jarvisResponseCreated, Queued
<1>4. /\ provider \in Providers /\ toGateway \in Seq(Events) /\ KnowsInv(toProvider, provider, sent)
      /\ Announced(toGateway, provider) /\ mistaken \in BOOLEAN
      /\ ~mistaken => SpeechInv(toProvider, toGateway, provider, gw, acks, conf, crossed)
  BY AskedInvFacts
<1>5. gw \in Gateways /\ GatewayType(gw) /\ acks \in Acks
  BY InvFacts DEF StoreType
<1>6. gw'.unspoken = gw.afterRequest /\ gw'.afterRequest = Nothing /\ gw'.requested = FALSE
  <2> HIDE DEF Nothing
  <2> QED BY <1>2, <1>5 DEF Gateways
<1>7. Nothing.acks = {}
  BY DEF Nothing
<1>8. S \in SUBSET Questions /\ IsFiniteSet(S) /\ gw.turn \in Nat
  BY <1>5 DEF GatewayType, Gateways, Deliveries
<1> HIDE DEF S
<1>9. /\ acks' \in Acks /\ Len(acks) <= Len(acks') /\ \A i \in 1..Len(acks) : acks'[i] = acks[i]
      /\ \A i \in 1..Len(acks') : i > Len(acks) => acks'[i].turn = gw.turn /\ acks'[i].q \in S
  BY <1>3, <1>5, <1>8, QueueFacts
<1>10. toGateway[1] = Head(toGateway) /\ provider.turnAt[toGateway[1].r] = gw.turn /\ 1 \in 1..Len(toGateway)
  BY <1>1, <1>4, HeadTurn, TailPlaces
<1>11. \A i \in 1..Len(acks') : \/ i \in 1..Len(acks) /\ acks'[i] = acks[i]
                                \/ acks'[i].turn = provider.turnAt[toGateway[1].r] /\ acks'[i].q \in gw.unspoken.acks
  <2>1. Len(acks) \in Nat
    BY <1>5 DEF Acks
  <2> QED BY <1>9, <1>10, <2>1 DEF S
<1>12. ASSUME ~mistaken' PROVE SpeechInv(toProvider, Tail(toGateway), provider, gw', acks', conf, crossed)
  <2>1. ~mistaken /\ (gw.requested => ~Head(toGateway).auto)
    BY <1>1, <1>12
  <2>2. gw.requested => IsAnswer(toGateway[1])
    BY <1>1, <1>10, <2>1 DEF IsAnswer
  <2>3. SpeechInv(toProvider, toGateway, provider, gw, acks, conf, crossed)
    BY <1>4, <2>1
  <2>4. ~gw'.requested /\ gw'.requested \in BOOLEAN /\ gw'.unspoken.acks = gw.afterRequest.acks /\ gw'.afterRequest.acks = {}
    BY <1>6, <1>7
  <2> QED BY <1>1, <1>4, <1>10, <1>11, <2>2, <2>3, <2>4, CreatedSpeech
<1> QED BY <1>1, <1>4, <1>12 DEF AskedInv

\* jarvisProviderError keeps the invariant.
LEMMA ProviderErrorAsked ==
  ASSUME Inv, AskedInv, jarvisProviderError
  PROVE  AskedInv'
<1> DEFINE g == Failed(gw)
<1>1. /\ toGateway # <<>> /\ Head(toGateway).kind = "error" /\ toGateway' = Tail(toGateway)
      /\ mistaken' = (mistaken \/ (gw.requested /\ Head(toGateway).auto))
      /\ UNCHANGED <<provider, acks, stored, conf, failures>>
  BY Zenon DEF jarvisProviderError, Event1, AsAnswer
<1>2. \/ ~gw.requested /\ UNCHANGED <<toProvider, gw, sent, crossed>>
      \/ gw.requested /\ gw' = [g EXCEPT !.unspoken.want = FALSE] /\ UNCHANGED <<toProvider, sent, crossed>>
      \/ gw.requested /\ SendAndRespond(g, <<>>)
  BY Zenon DEF jarvisProviderError, Failed
<1>3. /\ provider \in Providers /\ toGateway \in Seq(Events) /\ toProvider \in Seq(Messages)
      /\ KnowsInv(toProvider, provider, sent) /\ mistaken \in BOOLEAN
      /\ ~mistaken => SpeechInv(toProvider, toGateway, provider, gw, acks, conf, crossed)
  BY AskedInvFacts
<1>4. gw \in Gateways /\ GatewayType(gw) /\ gw.requested \in BOOLEAN
  BY InvFacts DEF Gateways
<1>5. /\ g.requested = FALSE /\ g.unspoken.acks = gw.unspoken.acks \cup gw.afterRequest.acks
      /\ g.afterRequest.acks = {} /\ g \in Gateways
  <2> DEFINE u == add(gw.unspoken, gw.afterRequest)
             n == gw.createFailures + 1
  <2>1. gw.unspoken \in Deliveries /\ gw.afterRequest \in Deliveries
    BY <1>4 DEF Gateways
  <2>2. u.acks = gw.unspoken.acks \cup gw.afterRequest.acks
    BY <2>1 DEF add, Deliveries
  <2>3. Nothing.acks = {}
    BY DEF Nothing
  <2>4. g = [gw EXCEPT !.requested = FALSE, !.unspoken = u, !.afterRequest = Nothing, !.createFailures = n]
    BY DEF Failed
  <2>5. g \in Gateways
    BY <1>4, FailedFacts DEF GatewayType
  <2> HIDE DEF u, n, g, Nothing
  <2>6. g.requested = FALSE /\ g.unspoken = u /\ g.afterRequest = Nothing
    BY <1>4, <2>4 DEF Gateways
  <2> QED BY <2>2, <2>3, <2>5, <2>6
<1>6. toGateway[1] = Head(toGateway) /\ toGateway[1].kind # "created" /\ Tail(toGateway) \in Seq(Events)
  BY <1>1, <1>3, TailPlaces
<1> HIDE DEF g
<1>7. CASE ~gw.requested /\ UNCHANGED <<toProvider, gw, sent, crossed>>
  <2>1. ASSUME ~mistaken PROVE SpeechInv(toProvider, Tail(toGateway), provider, gw, acks, conf, crossed)
    <3>1. SpeechInv(toProvider, toGateway, provider, gw, acks, conf, crossed)
      BY <1>3, <2>1
    <3>2. 1 \in 1..Len(toGateway)
      BY <1>1, <1>3, TailPlaces
    <3>3. ~IsAnswer(toGateway[1])
      BY <1>7, <3>1, <3>2 DEF SpeechInv, RequestInv
    <3> QED BY <1>1, <1>3, <1>6, <3>1, <3>3, QuietPop
  <2> QED BY <1>1, <1>3, <1>7, <2>1 DEF AskedInv
<1>8. ASSUME ~mistaken', gw.requested, NEW h, h.requested = FALSE, h.afterRequest.acks = {},
             h.unspoken.acks = gw.unspoken.acks \cup gw.afterRequest.acks
      PROVE  SpeechInv(toProvider, Tail(toGateway), provider, h, acks, conf, crossed)
  <2>1. ~mistaken /\ ~Head(toGateway).auto
    BY <1>1, <1>8
  <2>2. IsAnswer(toGateway[1])
    BY <1>1, <1>6, <2>1 DEF IsAnswer
  <2>3. SpeechInv(toProvider, toGateway, provider, gw, acks, conf, crossed)
    BY <1>3, <2>1
  <2> QED BY <1>1, <1>3, <1>6, <1>8, <2>2, <2>3, ErrorSpeech
<1>9. CASE gw.requested /\ gw' = [g EXCEPT !.unspoken.want = FALSE] /\ UNCHANGED <<toProvider, sent, crossed>>
  <2>1. /\ gw'.requested = g.requested /\ gw'.unspoken.acks = g.unspoken.acks
        /\ gw'.afterRequest = g.afterRequest
    BY <1>5, <1>9 DEF Gateways, Deliveries
  <2>2. ~mistaken' => SpeechInv(toProvider, Tail(toGateway), provider, gw', acks, conf, crossed)
    BY <1>5, <1>8, <1>9, <2>1
  <2> QED BY <1>1, <1>3, <1>9, <2>2 DEF AskedInv
<1>10. CASE gw.requested /\ SendAndRespond(g, <<>>)
  <2>3. ~mistaken' => SpeechInv(toProvider, Tail(toGateway), provider, g, acks, conf, crossed)
    BY <1>5, <1>8, <1>10
  <2>4. LeftOf(Tail(toGateway))
    BY <1>1, <1>3, TailWas
  <2>5. /\ KnowsInv(toProvider', provider, sent')
        /\ SpeechInv(toProvider, Tail(toGateway), provider, g, acks, conf, crossed)
           => SpeechInv(toProvider', Tail(toGateway), provider, gw', acks, conf, crossed')
    <3> DEFINE items == <<>>
    <3>1. items \in Seq(Messages) /\ Len(items) = 0 /\ SendAndRespond(g, items)
      BY <1>10
    <3> HIDE DEF items
    <3> QED BY <1>3, <1>5, <1>6, <2>4, <3>1, RespondSpeech
  <2> QED BY <1>1, <1>3, <2>3, <2>5 DEF AskedInv
<1> QED BY <1>2, <1>7, <1>9, <1>10

\* A gateway that starts calls waits for what it has waited for.
LEMMA StartedRequested ==
  ASSUME NEW g \in Gateways, NEW r, NEW cs
  PROVE  Started(g, r, cs).requested = g.requested
<1> DEFINE h == Started(g, r, cs)
<1>1. PICK S : h = [g EXCEPT !.calls = S]
  BY Zenon DEF Started, StartCalls
<1> HIDE DEF h
<1>2. h.requested = g.requested
  BY <1>1 DEF Gateways
<1> QED BY <1>2 DEF h

\* An event of a response, for a gateway h that has handled it.
LEMMA HandledSpeech ==
  ASSUME Inv, AskedInv, toGateway # <<>>, Head(toGateway).kind \in {"call", "done"},
         NEW h, SameQuestions(gw, h)
  PROVE  ~mistaken => SpeechInv(toProvider, Tail(toGateway), provider, h, acks, conf, crossed)
<1>1. /\ toGateway \in Seq(Events)
      /\ ~mistaken => SpeechInv(toProvider, toGateway, provider, gw, acks, conf, crossed)
  BY AskedInvFacts
<1>2. toGateway[1].kind # "created" /\ ~IsAnswer(toGateway[1])
  <2>1. Head(toGateway) = toGateway[1]
    BY <1>1, TailPlaces
  <2> QED BY <2>1 DEF IsAnswer
<1>3. /\ h.requested = gw.requested /\ h.afterRequest.acks = gw.afterRequest.acks
      /\ h.unspoken.acks = gw.unspoken.acks
  BY DEF SameQuestions
<1> QED BY <1>1, <1>2, <1>3, QuietPop

\* The end of a handler that delivers, for what is left of the events.
LEMMA DeliverAsked ==
  ASSUME Inv, AskedInv, NEW W \in Seq(Events), LeftOf(W), NEW h, deliver(h),
         Consistent(W, provider, h, sent, acks, stored, conf),
         ~mistaken => SpeechInv(toProvider, W, provider, h, acks, conf, crossed),
         toGateway' = W, UNCHANGED <<provider, acks, conf, mistaken>>
  PROVE  AskedInv'
<1>1. /\ provider \in Providers /\ toGateway \in Seq(Events) /\ toProvider \in Seq(Messages)
      /\ KnowsInv(toProvider, provider, sent) /\ mistaken \in BOOLEAN
  BY AskedInvFacts
<1>2. /\ KnowsInv(toProvider', provider, sent')
      /\ SpeechInv(toProvider, W, provider, h, acks, conf, crossed)
         => SpeechInv(toProvider', W, provider, gw', acks, conf, crossed')
  BY <1>1, DeliverSpeech
<1>3. KnowsInv(toProvider', provider', sent')
  BY <1>2
<1>4. ~mistaken' => SpeechInv(toProvider', toGateway', provider', gw', acks', conf', crossed')
  BY <1>2
<1> QED BY <1>1, <1>3, <1>4 DEF AskedInv

\* jarvisFunctionCall keeps the invariant.
LEMMA FunctionCallAsked ==
  ASSUME Inv, AskedInv, jarvisFunctionCall
  PROVE  AskedInv'
<1> DEFINE r == Head(toGateway).r
           cs == Head(toGateway).calls
           g == Started(gw, r, cs)
<1>1. /\ toGateway # <<>> /\ Head(toGateway).kind = "call" /\ toGateway' = Tail(toGateway)
      /\ UNCHANGED <<provider, acks, stored, conf, mistaken, failures>>
  BY Zenon DEF jarvisFunctionCall, Event1
<1>2. deliver(g) \/ (gw' = g /\ UNCHANGED <<toProvider, sent, crossed>>)
  BY Zenon DEF jarvisFunctionCall
<1>3. HeadCalls(r, cs)
  BY <1>1, HeadCallsFacts
<1>4. /\ GatewayType(g) /\ gw.calls \subseteq g.calls
      /\ g.turn = gw.turn /\ g.responding = gw.responding /\ g.turnOf = gw.turnOf
      /\ g.unspoken = gw.unspoken /\ g.afterRequest = gw.afterRequest
      /\ \A d \in g.calls \ gw.calls :
           /\ d.r = r /\ d.turn = gw.turnOf[r] /\ d.barrier = stored + Len(acks) /\ ~d.asks
           /\ d.kind = "ask" => Ask(d.q) \in cs
  BY <1>3, StartedFacts DEF HeadCalls
<1>5. g.requested = gw.requested
  BY <1>3, StartedRequested DEF HeadCalls, GatewayType
<1> HIDE DEF g
<1>6. SameQuestions(gw, g)
  BY <1>4, <1>5 DEF SameQuestions
<1>7. ~mistaken => SpeechInv(toProvider, Tail(toGateway), provider, g, acks, conf, crossed)
  BY <1>1, <1>6, HandledSpeech
<1>8. /\ toGateway \in Seq(Events) /\ KnowsInv(toProvider, provider, sent)
  BY AskedInvFacts
<1>9. CASE deliver(g)
  <2>1. Consistent(Tail(toGateway), provider, g, sent, acks, stored, conf)
    BY <1>1, <1>4, StartedKeeps
  <2>2. LeftOf(Tail(toGateway)) /\ Tail(toGateway) \in Seq(Events)
    BY <1>1, <1>8, TailWas
  <2> QED BY <1>1, <1>7, <1>9, <2>1, <2>2, DeliverAsked
<1>10. CASE gw' = g /\ UNCHANGED <<toProvider, sent, crossed>>
  BY <1>1, <1>7, <1>8, <1>10 DEF AskedInv
<1> QED BY <1>2, <1>9, <1>10

\* jarvisResponseDone keeps the invariant.
LEMMA ResponseDoneAsked ==
  ASSUME Inv, AskedInv, jarvisResponseDone
  PROVE  AskedInv'
<1> DEFINE r == Head(toGateway).r
           cs == Head(toGateway).calls
           g == Started(gw, r, cs)
           h == [g EXCEPT !.responding = g.responding \ {r}]
<1>1. /\ toGateway # <<>> /\ Head(toGateway).kind = "done" /\ toGateway' = Tail(toGateway)
      /\ UNCHANGED <<provider, acks, stored, conf, mistaken, failures>>
  BY Zenon DEF jarvisResponseDone, Event1
<1>2. deliver(h)
  BY Zenon DEF jarvisResponseDone
<1>3. HeadCalls(r, cs)
  BY <1>1, HeadCallsFacts
<1>4. /\ GatewayType(g) /\ gw.calls \subseteq g.calls
      /\ g.turn = gw.turn /\ g.responding = gw.responding /\ g.turnOf = gw.turnOf
      /\ g.unspoken = gw.unspoken /\ g.afterRequest = gw.afterRequest
      /\ \A d \in g.calls \ gw.calls :
           /\ d.r = r /\ d.turn = gw.turnOf[r] /\ d.barrier = stored + Len(acks) /\ ~d.asks
           /\ d.kind = "ask" => Ask(d.q) \in cs
  BY <1>3, StartedFacts DEF HeadCalls
<1>5. g.requested = gw.requested
  BY <1>3, StartedRequested DEF HeadCalls, GatewayType
<1> HIDE DEF g
<1>6. /\ GatewayType(h) /\ h.turn = g.turn /\ h.responding = g.responding \ {r} /\ h.turnOf = g.turnOf
      /\ h.unspoken = g.unspoken /\ h.afterRequest = g.afterRequest /\ h.calls = g.calls
  BY <1>4, ForgetFacts
<1>7. h.requested = g.requested
  BY <1>4 DEF GatewayType, Gateways
<1> HIDE DEF h
<1>8. Consistent(Tail(toGateway), provider, h, sent, acks, stored, conf)
  BY <1>1, <1>4, <1>6, StartedKeeps
<1>9. SameQuestions(gw, h)
  BY <1>4, <1>5, <1>6, <1>7 DEF SameQuestions
<1>10. ~mistaken => SpeechInv(toProvider, Tail(toGateway), provider, h, acks, conf, crossed)
  BY <1>1, <1>9, HandledSpeech
<1>11. LeftOf(Tail(toGateway)) /\ Tail(toGateway) \in Seq(Events)
  BY <1>1, AskedInvFacts, TailWas
<1> QED BY <1>1, <1>2, <1>8, <1>10, <1>11, DeliverAsked

\* jarvisResult keeps the invariant.
LEMMA ResultAsked ==
  ASSUME Inv, AskedInv, jarvisResult
  PROVE  AskedInv'
<1>1. UNCHANGED <<toGateway, provider, acks, stored, conf, mistaken, failures>>
  BY Zenon DEF jarvisResult
<1>2. PICK c \in gw.calls : deliver([gw EXCEPT !.calls = (gw.calls \ {c}) \cup {[c EXCEPT !.at = "held"]}])
  BY Zenon DEF jarvisResult
<1> DEFINE d == HeldCall(c)
           h == [gw EXCEPT !.calls = (gw.calls \ {c}) \cup {d}]
<1>3. /\ toGateway \in Seq(Events) /\ gw \in Gateways /\ TurnsInv(provider, gw)
      /\ Consistent(toGateway, provider, gw, sent, acks, stored, conf)
  BY InvFacts
<1>4. c \in Runs
  BY <1>3 DEF Gateways
<1>5. /\ d \in Runs /\ d.kind = c.kind /\ d.q = c.q /\ d.r = c.r /\ d.turn = c.turn
      /\ d.barrier = c.barrier /\ d.asks = c.asks
  BY <1>4, HeldFacts
<1>6. d.asks => d.kind = "ask"
  BY <1>3, <1>5 DEF TurnsInv
<1>7. deliver(h)
  BY <1>2, Zenon DEF HeldCall
<1>8. h = [gw EXCEPT !.calls = (gw.calls \ {c}) \cup {d}]
  OBVIOUS
<1> HIDE DEF d, h
<1>9. Consistent(toGateway, provider, h, sent, acks, stored, conf)
  BY <1>3, <1>5, <1>6, <1>8, ReplaceKeeps
<1>10. SameQuestions(gw, h)
  BY <1>3, <1>8 DEF SameQuestions, Gateways
<1>11. ~mistaken => SpeechInv(toProvider, toGateway, provider, h, acks, conf, crossed)
  BY <1>10, AskedInvFacts, SameGateway
<1>12. LeftOf(toGateway) /\ toGateway' = toGateway
  BY <1>1 DEF LeftOf
<1> QED BY <1>1, <1>3, <1>7, <1>9, <1>11, <1>12, DeliverAsked

\* jarvisNotice keeps the invariant.
LEMMA NoticeAsked ==
  ASSUME Inv, AskedInv, NEW q \in Questions, jarvisNotice(q)
  PROVE  AskedInv'
<1> DEFINE h == added(gw, {q})
           qs == {q}
           items == <<Item(q)>>
<1>1. sent[q] = NoTurn /\ UNCHANGED <<toGateway, provider, acks, stored, conf, mistaken, failures>>
  BY Zenon DEF jarvisNotice
<1>2. SendAndRespond(h, items)
  BY Zenon DEF jarvisNotice
<1>3. /\ provider \in Providers /\ toGateway \in Seq(Events) /\ toProvider \in Seq(Messages)
      /\ KnowsInv(toProvider, provider, sent) /\ mistaken \in BOOLEAN
      /\ ~mistaken => SpeechInv(toProvider, toGateway, provider, gw, acks, conf, crossed)
  BY AskedInvFacts
<1>4. gw \in Gateways /\ SentInv(gw, sent, acks, conf)
  BY InvFacts DEF Consistent
<1>5. qs \in SUBSET Questions /\ h = added(gw, qs)
  OBVIOUS
<1>6. items \in Seq(Messages) /\ Len(items) = 1 /\ items[1].q = q /\ ~IsCreate(items[1])
  <2>1. Item(q) \in Messages /\ Item(q).q = q /\ ~IsCreate(Item(q))
    BY DEF Item, Messages, IsCreate
  <2> HIDE DEF Item
  <2> QED BY <2>1
<1>7. \A x : x \in qs <=> x = q
  OBVIOUS
<1> HIDE DEF h, items, qs
<1>8. h \in Gateways /\ Adds(gw, h, qs)
  BY <1>4, <1>5, AddedAdds
<1>9. Carries(items, qs)
  BY <1>6, <1>7 DEF Carries
<1>10. Unsent(qs, gw, sent)
  BY <1>1, <1>4, <1>7 DEF Unsent, SentInv, SentBy
<1>11. LeftOf(toGateway)
  BY DEF LeftOf
<1>12. /\ KnowsInv(toProvider', provider, sent')
       /\ SpeechInv(toProvider, toGateway, provider, gw, acks, conf, crossed)
          => SpeechInv(toProvider', toGateway, provider, gw', acks, conf, crossed')
  BY <1>2, <1>3, <1>4, <1>5, <1>6, <1>8, <1>9, <1>10, <1>11, SendSpeech
<1> QED BY <1>1, <1>3, <1>12 DEF AskedInv

-----------------------------------------------------------------------------
(* The goroutines.                                                           *)

\* The queue b has nothing new, and k2 only what was in the queue a.
Noted(a, k, b, k2) ==
  /\ \A i \in 1..Len(b) : \E j \in 1..Len(a) : b[i] = a[j]
  /\ \A q \in Questions : \/ k2[q].asked = k[q].asked
                          \/ \E j \in 1..Len(a) : a[j].q = q /\ k2[q].asked = a[j].turn

\* A question is noted as asked in the turn of an acknowledgement only.
LEMMA StoreSpeech ==
  ASSUME NEW M, NEW W, NEW p, NEW g, NEW h, SameQuestions(g, h), NEW a, NEW k, NEW x,
         NEW b, NEW k2, SpeechInv(M, W, p, g, a, k, x), Noted(a, k, b, k2)
  PROVE  SpeechInv(M, W, p, h, b, k2, x)
<1>1. SpeechInv(M, W, p, h, a, k, x)
  BY SameGateway
<1>2. ASSUME NEW q \in Questions \ x PROVE SpokenInv(q, b, k2, p)
  <2>1. SpokenInv(q, a, k, p)
    BY <1>1, <1>2 DEF SpeechInv
  <2>2. \A i \in 1..Len(b) : b[i].q = q => SpokenIn(q, b[i].turn, p)
    BY <2>1 DEF SpokenInv, Noted
  <2>3. k2[q].asked # NoTurn => SpokenIn(q, k2[q].asked, p)
    BY <2>1 DEF SpokenInv, Noted
  <2> QED BY <2>2, <2>3 DEF SpokenInv
<1> QED BY <1>1, <1>2 DEF SpeechInv

\* What a goroutine or a task may do to the store.
LEMMA StoreAsked ==
  ASSUME Inv, AskedInv, UNCHANGED <<toProvider, toGateway, provider, sent, crossed, mistaken>>,
         SameQuestions(gw, gw'), Noted(acks, conf, acks', conf')
  PROVE  AskedInv'
<1>1. KnowsInv(toProvider, provider, sent)
      /\ (~mistaken => SpeechInv(toProvider, toGateway, provider, gw, acks, conf, crossed))
      /\ mistaken \in BOOLEAN
  BY AskedInvFacts
<1>2. ~mistaken => SpeechInv(toProvider, toGateway, provider, gw', acks', conf', crossed)
  BY <1>1, StoreSpeech
<1> QED BY <1>1, <1>2 DEF AskedInv

\* sendAck keeps the invariant.
LEMMA SendAckAsked ==
  ASSUME Inv, AskedInv, sendAck
  PROVE  AskedInv'
<1>1. /\ acks # <<>> /\ acks' = Tail(acks)
      /\ UNCHANGED <<toProvider, toGateway, provider, gw, sent, crossed, mistaken>>
  BY Zenon DEF sendAck
<1>2. conf' = AskedAt(conf, Head(acks).q, Head(acks).turn) \/ conf' = conf
  BY Zenon DEF sendAck, MarkAsked, AskedAt
<1>3. acks \in Acks /\ conf \in Confirmations
  BY InvFacts DEF StoreType
<1>4. /\ Len(acks) \in Nat \ {0} /\ Head(acks) = acks[1]
      /\ Len(acks') = Len(acks) - 1 /\ \A i \in 1..(Len(acks) - 1) : acks'[i] = acks[i + 1]
  <2> DEFINE A == [q : Questions, turn : Nat]
  <2>1. acks \in Seq(A)
    BY <1>3 DEF Acks
  <2> HIDE DEF A
  <2> QED BY <1>1, <2>1, TailFacts
<1>5. 1 \in 1..Len(acks) /\ \A i \in 1..Len(acks') : i + 1 \in 1..Len(acks) /\ acks'[i] = acks[i + 1]
  BY <1>4
<1>6. \A x \in Questions : \/ conf'[x].asked = conf[x].asked
                           \/ \E j \in 1..Len(acks) : acks[j].q = x /\ conf'[x].asked = acks[j].turn
  <2>1. CASE conf' = AskedAt(conf, Head(acks).q, Head(acks).turn)
    <3> DEFINE q == Head(acks).q
               t == Head(acks).turn
    <3>1. q \in Questions /\ t \in Nat
      BY <1>3, <1>4, <1>5, AckFacts
    <3> HIDE DEF q, t
    <3>2. conf' = AskedAt(conf, q, t)
      BY <2>1 DEF q, t
    <3>3. /\ \A x \in Questions : x # q \/ conf[x].asked # NoTurn => conf'[x].asked = conf[x].asked
          /\ conf[q].asked = NoTurn => conf'[q].asked = t
      BY <1>3, <3>1, <3>2, AskedFacts, SMTT(30)
    <3>4. acks[1].q = q /\ acks[1].turn = t
      BY <1>4 DEF q, t
    <3> QED BY <1>5, <3>3, <3>4
  <2>2. CASE conf' = conf
    BY <2>2
  <2> QED BY <1>2, <2>1, <2>2
<1>7. SameQuestions(gw, gw')
  BY <1>1 DEF SameQuestions
<1>8. Noted(acks, conf, acks', conf')
  BY <1>5, <1>6 DEF Noted
<1> QED BY <1>1, <1>7, <1>8, StoreAsked

\* runCall keeps the invariant.
LEMMA RunCallAsked ==
  ASSUME Inv, AskedInv, runCall
  PROVE  AskedInv'
<1>1. UNCHANGED <<toProvider, toGateway, provider, acks, stored, sent, crossed, mistaken>>
  BY Zenon DEF runCall
<1>2. PICK c \in gw.calls : /\ \E S : gw' = [gw EXCEPT !.calls = S]
                            /\ \/ conf' = [conf EXCEPT ![c.q].state = "pending"]
                               \/ Settle(c.q, c.r, c.turn, c.kind = "confirm")
                               \/ conf' = conf
  BY Zenon DEF runCall
<1>3. gw \in Gateways /\ conf \in Confirmations
  BY InvFacts DEF StoreType
<1>4. c.q \in Questions /\ c.r \in Nat
  BY <1>3 DEF Gateways, Runs
<1>5. SameQuestions(gw, gw')
  <2>1. PICK S : gw' = [gw EXCEPT !.calls = S]
    BY <1>2
  <2> QED BY <1>3, <2>1 DEF SameQuestions, Gateways
<1>6. \A x \in Questions : conf'[x].asked = conf[x].asked
  <2>1. CASE conf' = [conf EXCEPT ![c.q].state = "pending"]
    <3>1. conf' = Marked(conf, c.q, "pending") /\ "pending" \in ConfStates
      BY <2>1, Zenon DEF Marked, ConfStates
    <3> QED BY <1>3, <1>4, <3>1, StateFacts
  <2>2. CASE Settle(c.q, c.r, c.turn, c.kind = "confirm")
    <3> DEFINE st == IF c.kind = "confirm" THEN "confirmed" ELSE "cancelled"
    <3>1. conf' = conf \/ conf' = Settled(conf, c.q, st, c.r)
      BY <2>2, Zenon DEF Settle, Settled
    <3>2. st \in ConfStates
      BY DEF ConfStates
    <3> HIDE DEF st
    <3> QED BY <1>3, <1>4, <3>1, <3>2, SettledFacts
  <2>3. CASE conf' = conf
    BY <2>3
  <2> QED BY <1>2, <2>1, <2>2, <2>3
<1>7. Noted(acks, conf, acks', conf')
  BY <1>1, <1>6 DEF Noted
<1> QED BY <1>1, <1>5, <1>7, StoreAsked

\* TaskAsks keeps the invariant.
LEMMA TaskAsksAsked ==
  ASSUME Inv, AskedInv, NEW q \in Questions, TaskAsks(q)
  PROVE  AskedInv'
<1>1. UNCHANGED <<toProvider, toGateway, provider, gw, acks, stored, sent, crossed, mistaken, failures>>
  BY Zenon DEF TaskAsks
<1>2. conf' = Marked(conf, q, "pending") /\ "pending" \in ConfStates
  BY Zenon DEF TaskAsks, Marked, ConfStates
<1>3. \A x \in Questions : conf'[x].asked = conf[x].asked
  BY <1>2, InvFacts, StateFacts DEF StoreType
<1>4. SameQuestions(gw, gw')
  BY <1>1 DEF SameQuestions
<1>5. Noted(acks, conf, acks', conf')
  BY <1>1, <1>3 DEF Noted
<1> QED BY <1>1, <1>4, <1>5, StoreAsked

-----------------------------------------------------------------------------
(* The turn stored for a question: the theorems.                             *)

\* Nothing has been said at the start.
LEMMA InitAsked == Init => AskedInv
<1> SUFFICES ASSUME Init PROVE AskedInv
  OBVIOUS
<1>1. /\ toProvider = <<>> /\ toGateway = <<>> /\ acks = <<>>
      /\ conf = [q \in Questions |-> [state |-> "none", asked |-> NoTurn, by |-> 0]]
  BY DEF Init
<1>2. provider.ctx = {} /\ provider.knows = [r \in Responses |-> {}]
  BY DEF Init
<1>3. gw.requested = FALSE /\ gw.unspoken.acks = {} /\ gw.afterRequest.acks = {}
  BY DEF Init, Nothing
<1>4. Len(toProvider) = 0 /\ Len(toGateway) = 0 /\ Len(acks) = 0
  BY <1>1
<1>5. KnowsInv(toProvider, provider, sent)
  BY <1>2, <1>4 DEF KnowsInv
<1>6. RequestInv(toProvider, toGateway, gw)
  BY <1>3, <1>4 DEF RequestInv
<1>7. \A q \in Questions : ToSpeakInv(q, toProvider, toGateway, provider, gw) /\ SpokenInv(q, acks, conf, provider)
  BY <1>1, <1>3, <1>4 DEF ToSpeakInv, SpokenInv
<1> QED BY <1>5, <1>6, <1>7 DEF AskedInv, SpeechInv

\* Every step keeps the invariant.
LEMMA NextAsked == Inv /\ AskedInv /\ [Next]_vars => AskedInv'
<1> SUFFICES ASSUME Inv, AskedInv, [Next]_vars PROVE AskedInv'
  OBVIOUS
<1>1. CASE UserSpeaks
  BY <1>1, UserSpeaksAsked
<1>2. CASE UserStops
  BY <1>2, UserStopsAsked
<1>3. CASE Receive
  BY <1>3, ReceiveAsked
<1>4. CASE ModelCalls
  BY <1>4, ModelCallsAsked
<1>5. CASE ResponseEnds
  BY <1>5, ResponseEndsAsked
<1>6. CASE StrayError
  BY <1>6, StrayErrorAsked
<1>7. CASE GatewayEvent
  BY <1>7, SpeechEventAsked, ResponseCreatedAsked, FunctionCallAsked, ResponseDoneAsked,
     ProviderErrorAsked DEF GatewayEvent
<1>8. CASE jarvisResult
  BY <1>8, ResultAsked
<1>9. CASE sendAck
  BY <1>9, SendAckAsked
<1>10. CASE runCall
  BY <1>10, RunCallAsked
<1>11. CASE \E q \in Questions : jarvisNotice(q) \/ TaskAsks(q)
  BY <1>11, NoticeAsked, TaskAsksAsked
<1>12. CASE UNCHANGED vars
  BY <1>12 DEF vars, AskedInv
<1> QED BY <1>1, <1>2, <1>3, <1>4, <1>5, <1>6, <1>7, <1>8, <1>9, <1>10, <1>11, <1>12, Zenon DEF Next

\* As long as the gateway has taken no event for the answer to a request that
\* was not one, its request is on the wire, there or back, until it is
\* answered, and the questions it counts for a response are those that the
\* response is the first to know (unspoken and afterRequest of jarvis.go).
THEOREM AskedInvHolds == Spec => []AskedInv
BY InitAsked, NextAsked, ConsentInvHolds, PTL DEF Spec

\* The turn that MarkCallAsked and MarkAsked store for a question is that of
\* the first response that knew it, unless the question crossed a response
\* that the provider started by itself or the gateway took some other event
\* for the answer to its request.
THEOREM AskedWhenSpokenAlways == Spec => []AskedWhenSpoken
<1>1. AskedInv => AskedWhenSpoken
  <2> SUFFICES ASSUME AskedInv, NEW q \in Questions, conf[q].asked # NoTurn, q \notin crossed, ~mistaken
               PROVE  \E r \in Responses : /\ q \in provider.knows[r] /\ provider.turnAt[r] = conf[q].asked
                                           /\ \A s \in 1..(r - 1) : q \notin provider.knows[s]
    BY DEF AskedWhenSpoken
  <2>1. SpokenInv(q, acks, conf, provider)
    BY DEF AskedInv, SpeechInv
  <2> QED BY <2>1 DEF SpokenInv, SpokenIn, Unknown
<1> QED BY <1>1, AskedInvHolds, PTL

=============================================================================
