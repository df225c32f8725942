---------------------------- MODULE AudioProofs ----------------------------
(***************************************************************************)
(* One voice session: what the client hears after it has been told that the *)
(* user speaks, and what the provider is told that the user has heard,      *)
(* proved for any number of responses, chunks, interruptions and taps and   *)
(* any size of the outbox and of the provider's buffer.                     *)
(***************************************************************************)
EXTENDS AudioSession, FiniteSetTheorems, SequenceTheorems, WellFoundedInduction, TLAPS

-----------------------------------------------------------------------------
(* The invariant.                                                            *)

Numbers == 0..MaxResponses

Goroutines == Loops \cup {"reader", "readLoop"}

Message == [kind : {"audio", "speech", "text", "none"}, response : Numbers]

ProviderEvent == [kind : {"created", "audio", "done", "speech", "none"}, response : Numbers]

Places == {"stopped", "select", "pop", "wait", "write", "mark", "drop", "truncate", "push",
           "reading", "putting"}

TypeInv ==
  /\ loop \in [Goroutines -> Places]
  /\ conn \in [open : BOOLEAN, events : Seq(ProviderEvent), held : ProviderEvent]
  /\ out \in Seq(Message)
  /\ delivered \in [Responses -> Nat] /\ heard \in [Responses -> Nat]
  /\ current \in [response : Numbers, item : Numbers]
  /\ interrupted \in SUBSET Numbers
  /\ passing \in Message /\ writing \in Message
  /\ cut \in [Interrupters -> [item : Numbers, dropped : Nat, told : Nat]]
  /\ provider \in [active : Numbers, created : Numbers]
  /\ quiet \in Numbers

\* Nothing runs before run has started it.
MainInv ==
  /\ main \in {"start", "connect"} => provider.active = NoResponse /\ At("readLoop", "stopped")
  /\ main \in {"start", "connect", "ready"} => \A l \in {"provider", "writer", "reader"} : At(l, "stopped")

\* What providerLoop and writerLoop have in their hands.
HandsInv ==
  /\ passing # Nothing => loop["provider"] \in {"drop", "truncate", "push"}
  /\ loop["provider"] \in {"drop", "truncate"} => passing.kind = "speech"
  /\ writing # Nothing => loop["writer"] \in {"write", "mark"}
  /\ loop["writer"] = "mark" => IsAudio(writing)
  /\ IsAudio(passing) => passing.response \in Responses
  /\ IsAudio(writing) => writing.response \in Responses
  /\ \A i \in DOMAIN out : IsAudio(out[i]) => out[i].response \in Responses

\* The events that providerLoop has still to take, in their order.
Ev == IF At("readLoop", "putting") THEN Append(conn.events, conn.held) ELSE conn.events

Alive == ~At("readLoop", "stopped")

\* The provider's responses come one after the other, and providerLoop knows
\* the one that the next audio belongs to.
EventsInv ==
  /\ \A i \in DOMAIN Ev : Ev[i].response <= provider.created
  /\ \A i \in DOMAIN Ev : Ev[i].kind \in {"audio", "created"} => Ev[i].response \in Responses
  /\ \A i, j \in DOMAIN Ev : i < j /\ Ev[j].kind = "created" => Ev[i].response < Ev[j].response
  /\ \A i, j \in DOMAIN Ev : i < j /\ Ev[i].kind = "done" /\ Ev[j].kind = "audio" => Ev[i].response < Ev[j].response
  /\ \A i, j \in DOMAIN Ev : i < j /\ Ev[i].kind = "created" /\ Ev[j].kind = "audio" => Ev[i].response <= Ev[j].response
  /\ \A i \in DOMAIN Ev : Ev[i].kind = "created"
       => Ev[i].response > current.response /\ Ev[i].response > current.item
  /\ \A i \in DOMAIN Ev : Ev[i].kind = "audio"
       => \/ Ev[i].response = current.response
          \/ \E k \in DOMAIN Ev : k < i /\ Ev[k].kind = "created" /\ Ev[k].response = Ev[i].response

\* The provider's response in progress, as providerLoop will see it.
ActiveInv ==
  /\ provider.active # NoResponse => provider.active = provider.created
  /\ current.response <= provider.created /\ current.item <= provider.created
  /\ Alive /\ provider.active # NoResponse =>
       /\ \A k \in DOMAIN Ev : Ev[k].kind = "done" => Ev[k].response < provider.active
       /\ \/ provider.active = current.response
          \/ \E k \in DOMAIN Ev : Ev[k].kind = "created" /\ Ev[k].response = provider.active

\* SpeechStarted messages that the client has got or will get.
Told ==
  {quiet} \cup {out[i].response : i \in {k \in DOMAIN out : out[k].kind = "speech"}}
          \cup (IF writing.kind = "speech" THEN {writing.response} ELSE {})
          \cup (IF passing.kind = "speech" THEN {passing.response} ELSE {})

\* Audio from before one of them is dropped by providerLoop.
ToldInv ==
  /\ \A q \in Told : q <= provider.created
  /\ \A i \in DOMAIN Ev : Ev[i].kind = "audio"
       => Ev[i].response \in interrupted \/ \A q \in Told : q < Ev[i].response
  /\ Alive /\ provider.active # NoResponse
       => provider.active \in interrupted \/ \A q \in Told : q < provider.active

\* Nor is any behind one of them.
QueueInv ==
  /\ \A i, j \in DOMAIN out : i < j /\ out[i].kind = "speech" /\ IsAudio(out[j]) => out[i].response < out[j].response
  /\ \A i \in DOMAIN out : IsAudio(out[i]) =>
       /\ quiet < out[i].response
       /\ writing.kind = "speech" => writing.response < out[i].response
       /\ ~(passing.kind = "speech" /\ loop["provider"] \in {"truncate", "push"})
  /\ IsAudio(writing) /\ loop["writer"] = "write" => quiet < writing.response
  /\ IsAudio(passing) => \A q \in Told : q < passing.response

\* The loop is between the mark and the end of an interruption of an item.
Cutting(w) == loop[w] \in {"drop", "truncate"} /\ cut[w].item # NoResponse

\* No more audio of that item gets past providerLoop.
CutInv ==
  \A w \in Interrupters : Cutting(w) =>
    /\ cut[w].item <= provider.created
    /\ \A i \in DOMAIN Ev : Ev[i].kind = "audio" /\ Ev[i].response = cut[w].item => cut[w].item \in interrupted
    /\ Alive /\ provider.active = cut[w].item => cut[w].item \in interrupted

\* Chunks of r that the client has or that the writer is about to write.
Sure(r) == heard[r] + (IF loop["writer"] = "write" /\ IsAudio(writing) /\ writing.response = r THEN 1 ELSE 0)

AudioOf(r, i) == IsAudio(out[i]) /\ out[i].response = r

HeardInv ==
  /\ \A r \in Responses : heard[r] = delivered[r] +
       (IF loop["writer"] = "mark" /\ writing.response = r THEN 1 ELSE 0)
  /\ \A w \in Interrupters : Cutting(w) /\ loop[w] = "truncate" =>
       LET r == cut[w].item
           late == IsAudio(passing) /\ passing.response = r
       IN /\ cut[w].told <= delivered[r]
          /\ w = "provider" => Sure(r) <= cut[w].told + 1
          /\ w = "reader" =>
               /\ Sure(r) <= cut[w].told + 2
               /\ late \/ (\E i \in DOMAIN out : AudioOf(r, i)) => Sure(r) <= cut[w].told + 1
               /\ late => \A i \in DOMAIN out : ~AudioOf(r, i)
               /\ \A i, j \in DOMAIN out : AudioOf(r, i) /\ AudioOf(r, j) => i = j

AudioInv == TypeInv /\ MainInv /\ HandsInv /\ EventsInv /\ ActiveInv /\ ToldInv /\ QueueInv /\ CutInv /\ HeardInv

-----------------------------------------------------------------------------
(* Lemmas about the model's operators.                                       *)

\* A set of naturals that is not empty has a least element.
LEMMA LeastNumber ==
  ASSUME NEW S, S \subseteq Nat, S # {}
  PROVE  \E x \in S : \A y \in S : x <= y
<1>1. PICK x \in S : \A y \in S : ~(<<y, x>> \in OpToRel(<, Nat))
  BY NatLessThanWellFounded, WFMin
<1>2. \A y \in S : <<y, x>> \in Nat \X Nat
  OBVIOUS
<1>3. \A y \in S : ~(y < x)
  BY <1>1, <1>2 DEF OpToRel
<1> QED BY <1>3

\* A finite set of positions has a k-th one.
LEMMA NthExists ==
  ASSUME NEW n \in Nat, NEW S \in SUBSET (1..n), NEW k \in 1..Cardinality(S)
  PROVE  \E i \in S : Cardinality({j \in S : j <= i}) = k
<1> DEFINE Upto(i) == {j \in S : j <= i}
<1>0. \A j \in S : j \in Nat /\ 1 <= j /\ j <= n
  OBVIOUS
<1>1. IsFiniteSet(S)
  <2>1. 1 \in Int /\ n \in Int
    OBVIOUS
  <2>2. IsFiniteSet(1..n)
    BY <2>1, FS_Interval, Zenon
  <2> QED BY <2>2, FS_Subset, Zenon
<1>2. \A i : IsFiniteSet(Upto(i)) /\ Cardinality(Upto(i)) \in Nat
  <2> SUFFICES ASSUME NEW i PROVE IsFiniteSet(Upto(i)) /\ Cardinality(Upto(i)) \in Nat
    OBVIOUS
  <2>1. Upto(i) \in SUBSET S
    OBVIOUS
  <2> HIDE DEF Upto
  <2>2. IsFiniteSet(Upto(i))
    BY <1>1, <2>1, FS_Subset
  <2> QED BY <2>2, FS_CardinalityType
<1> DEFINE T == {i \in 0..n : Cardinality(Upto(i)) >= k}
<1>3. T \subseteq Nat /\ T # {}
  <2>1. Upto(n) = S
    BY <1>0, Zenon
  <2>2. k \in Nat /\ Cardinality(S) >= k
    BY <1>1, FS_CardinalityType
  <2>3. n \in T
    BY <2>1, <2>2
  <2> QED BY <2>3
<1> HIDE DEF T
<1>4. PICK i \in T : \A y \in T : i <= y
  BY <1>3, LeastNumber
<1>5. i \in 0..n /\ Cardinality(Upto(i)) >= k /\ k \in Nat /\ k >= 1
  BY <1>4, <1>1, FS_CardinalityType DEF T
<1>6. i # 0
  <2>0. \A j \in S : ~(j <= 0)
    BY <1>0
  <2>1. Upto(0) = {}
    BY <2>0, Zenon
  <2>2. Cardinality(Upto(0)) = 0
    BY <2>1, FS_EmptySet
  <2> QED BY <1>5, <2>2
<1>7. i - 1 \in 0..n /\ ~(i <= i - 1)
  BY <1>5, <1>6
<1>8. Cardinality(Upto(i - 1)) < k
  <2>1. i - 1 \notin T
    BY <1>4, <1>7
  <2> HIDE DEF Upto
  <2>2. ~(Cardinality(Upto(i - 1)) >= k) /\ Cardinality(Upto(i - 1)) \in Nat
    BY <2>1, <1>7, <1>2 DEF T
  <2> QED BY <2>2, <1>5
<1>9. i \in S
  <2>1. SUFFICES ASSUME i \notin S PROVE FALSE
    OBVIOUS
  <2>0. \A j \in S : j <= i <=> j <= i - 1
    BY <2>1, <1>0, <1>5
  <2>2. Upto(i) = Upto(i - 1)
    BY <2>0, Zenon
  <2> HIDE DEF Upto
  <2> QED BY <2>2, <1>5, <1>8, <1>2
<1>10. Upto(i) = Upto(i - 1) \cup {i} /\ i \notin Upto(i - 1)
  <2>1. \A j \in S : j <= i <=> (j <= i - 1 \/ j = i)
    BY <1>0, <1>5
  <2>2. ~(i <= i - 1)
    BY <1>7
  <2> QED BY <2>1, <2>2, <1>9, Zenon
<1>11. Cardinality(Upto(i)) = Cardinality(Upto(i - 1)) + 1
  <2> HIDE DEF Upto
  <2> QED BY <1>10, <1>2, FS_AddElement
<1>12. Cardinality(Upto(i)) = k
  <2> HIDE DEF Upto
  <2> QED BY <1>11, <1>8, <1>5, <1>2
<1> QED BY <1>9, <1>12

\* dropAudio leaves messages of the outbox, and no audio.
LEMMA TextsOnly ==
  ASSUME NEW q \in Seq(Message)
  PROVE  /\ Texts(q) \in Seq(Message)
         /\ \A k \in DOMAIN Texts(q) : \E i \in DOMAIN q : Texts(q)[k] = q[i] /\ ~IsAudio(q[i])
<1> DEFINE kept == {i \in DOMAIN q : IsText(q[i])}
           nth(k) == CHOOSE i \in kept : Cardinality({j \in kept : j <= i}) = k
<1>1. DOMAIN q = 1..Len(q) /\ Len(q) \in Nat
  OBVIOUS
<1>2. kept \in SUBSET (1..Len(q)) /\ IsFiniteSet(kept)
  <2>1. 1 \in Int /\ Len(q) \in Int
    BY <1>1
  <2>2. IsFiniteSet(1..Len(q))
    BY <2>1, FS_Interval, Zenon
  <2>3. kept \in SUBSET (1..Len(q))
    BY <1>1
  <2> QED BY <2>2, <2>3, FS_Subset, Zenon
<1>3. Cardinality(kept) \in Nat
  BY <1>2, FS_CardinalityType
<1>4. \A k \in 1..Cardinality(kept) : nth(k) \in kept
  <2> SUFFICES ASSUME NEW k \in 1..Cardinality(kept) PROVE nth(k) \in kept
    OBVIOUS
  <2>1. \E i \in kept : Cardinality({j \in kept : j <= i}) = k
    <3> HIDE DEF kept
    <3> QED BY <1>1, <1>2, NthExists
  <2> QED BY <2>1
<1>5. Texts(q) = [k \in 1..Cardinality(kept) |-> q[nth(k)]]
  BY DEF Texts
<1>6. \A i \in kept : i \in DOMAIN q /\ ~IsAudio(q[i]) /\ q[i] \in Message
  BY <1>1 DEF IsText
<1> HIDE DEF kept, nth
<1>7. \A k \in 1..Cardinality(kept) : q[nth(k)] \in Message
  BY <1>4, <1>6
<1>8. Texts(q) \in Seq(Message)
  BY <1>3, <1>5, <1>7
<1>9. \A k \in DOMAIN Texts(q) : nth(k) \in DOMAIN q /\ Texts(q)[k] = q[nth(k)] /\ ~IsAudio(q[nth(k)])
  BY <1>4, <1>5, <1>6
<1> QED BY <1>8, <1>9

\* Where a loop goes, and that the others stay.
LEMMA GoEffect ==
  ASSUME TypeInv, NEW l \in Goroutines, NEW pc \in Places, Go(l, pc)
  PROVE  /\ loop' \in [Goroutines -> Places] /\ loop'[l] = pc
         /\ \A k \in Goroutines \ {l} : loop'[k] = loop[k]
BY DEF TypeInv, Go

\* The names of the goroutines.
LEMMA Names ==
  /\ {"provider", "writer", "reader", "readLoop"} = Goroutines
  /\ Interrupters = {"provider", "reader"} /\ Loops = {"provider", "writer"}
BY DEF Goroutines, Loops, Interrupters

\* The numbers of the messages about speech.
LEMMA ToldType ==
  ASSUME TypeInv
  PROVE  Told \subseteq Nat
<1>1. Numbers \subseteq Nat
  BY AudioAssumption DEF Numbers
<1>2. \A i \in DOMAIN out : out[i].response \in Numbers
  <2>1. out \in Seq(Message)
    BY DEF TypeInv
  <2>2. \A i \in DOMAIN out : out[i] \in Message
    BY <2>1
  <2> QED BY <2>2 DEF Message
<1>3. quiet \in Numbers /\ writing.response \in Numbers /\ passing.response \in Numbers
  BY DEF TypeInv, Message
<1>4. {out[i].response : i \in {k \in DOMAIN out : out[k].kind = "speech"}} \subseteq Numbers
  BY <1>2
<1> QED BY <1>1, <1>3, <1>4 DEF Told

\* The events on their way.
LEMMA EvType ==
  ASSUME TypeInv
  PROVE  Ev \in Seq(ProviderEvent)
<1>1. conn.events \in Seq(ProviderEvent) /\ conn.held \in ProviderEvent
  BY DEF TypeInv
<1>2. Append(conn.events, conn.held) \in Seq(ProviderEvent)
  BY <1>1
<1> QED BY <1>1, <1>2 DEF Ev

-----------------------------------------------------------------------------
(* What a step leaves alone.                                                 *)

\* A step that readLoop and the provider have no part in.
LEMMA EvSame ==
  ASSUME conn' = conn, loop'["readLoop"] = loop["readLoop"]
  PROVE  Ev' = Ev /\ (Alive' <=> Alive)
BY DEF Ev, Alive, At

\* The provider and what providerLoop knows of it.
LEMMA EventFrame ==
  ASSUME EventsInv, ActiveInv, Ev' = Ev, Alive' => Alive, UNCHANGED <<provider, current>>
  PROVE  EventsInv' /\ ActiveInv'
BY DEF EventsInv, ActiveInv

\* The messages about speech.
LEMMA ToldFrame ==
  ASSUME ToldInv, Ev' = Ev, Alive' => Alive, provider' = provider, Told' \subseteq Told,
         interrupted \subseteq interrupted'
  PROVE  ToldInv'
BY DEF ToldInv

\* The interruptions.
LEMMA CutFrame ==
  ASSUME CutInv, Ev' = Ev, Alive' => Alive, provider' = provider, interrupted \subseteq interrupted',
         \A w \in Interrupters : Cutting(w)' => Cutting(w) /\ cut'[w].item = cut[w].item
  PROVE  CutInv'
BY DEF CutInv

\* The outbox and the two hands.
LEMMA QueueFrame ==
  ASSUME HandsInv, QueueInv, UNCHANGED <<out, writing, quiet, passing>>,
         loop'["writer"] = loop["writer"], loop'["provider"] = loop["provider"]
  PROVE  HandsInv' /\ QueueInv' /\ Told' = Told
<1>1. Told' = Told
  BY DEF Told
<1> QED BY <1>1 DEF HandsInv, QueueInv

\* The counts.
LEMMA HeardFrame ==
  ASSUME HeardInv, UNCHANGED <<out, writing, passing, heard, delivered>>,
         loop'["writer"] = loop["writer"],
         \A w \in Interrupters : Cutting(w)' /\ loop'[w] = "truncate"
           => Cutting(w) /\ loop[w] = "truncate" /\ cut'[w] = cut[w]
  PROVE  HeardInv'
<1>1. \A r : Sure(r)' = Sure(r)
  BY DEF Sure
<1>2. \A r, i : AudioOf(r, i)' = AudioOf(r, i)
  BY DEF AudioOf
<1> QED BY <1>1, <1>2 DEF HeardInv

-----------------------------------------------------------------------------
(* run, readLoop and the ends of the loops.                                  *)

\* A step that only moves run, ends the context, the slot or the socket, or
\* wakes somebody.
LEMMA OuterKeeps ==
  ASSUME AudioInv, UNCHANGED <<loop, conn, out, delivered, current, interrupted, passing, writing, cut,
                               provider, heard, quiet>>,
         main' \in {"start", "connect"} => main \in {"start", "connect"},
         main' = "ready" => main \in {"start", "connect", "ready"}
  PROVE  AudioInv'
<1>1. Ev' = Ev /\ (Alive' <=> Alive)
  BY EvSame
<1>2. Told' = Told
  BY DEF Told
<1>3. TypeInv' /\ MainInv' /\ HandsInv'
  BY DEF AudioInv, TypeInv, MainInv, HandsInv, At
<1>4. EventsInv' /\ ActiveInv'
  BY <1>1, EventFrame DEF AudioInv
<1>5. ToldInv' /\ QueueInv'
  BY <1>1, <1>2 DEF AudioInv, ToldInv, QueueInv
<1>6. CutInv' /\ HeardInv'
  BY <1>1 DEF AudioInv, CutInv, HeardInv, Cutting, Sure, AudioOf
<1> QED BY <1>3, <1>4, <1>5, <1>6 DEF AudioInv

\* A loop with nothing in its hands goes to a place where it has nothing.
LEMMA LoopKeeps ==
  ASSUME AudioInv, NEW l \in {"provider", "writer", "reader"}, NEW pc \in {"stopped", "select", "pop", "wait"},
         loop' = [loop EXCEPT ![l] = pc],
         UNCHANGED <<conn, out, delivered, current, interrupted, passing, writing, cut, provider, heard, quiet>>,
         loop[l] \in {"stopped", "select", "pop", "wait"},
         main' = main,
         main \in {"start", "connect", "ready"} => pc = "stopped"
  PROVE  AudioInv'
<1>0. /\ TypeInv /\ MainInv /\ HandsInv /\ EventsInv /\ ActiveInv /\ ToldInv /\ QueueInv /\ CutInv /\ HeardInv
      /\ l \in Goroutines /\ pc \in Places /\ Go(l, pc)
  BY Names DEF AudioInv, Go, Places
<1>1. /\ loop' \in [Goroutines -> Places] /\ loop'[l] = pc
      /\ \A k \in Goroutines \ {l} : loop'[k] = loop[k]
  BY <1>0, GoEffect
<1>2. \A k \in {"provider", "writer", "reader", "readLoop"} :
        loop'[k] = loop[k] \/ {loop[k], loop'[k]} \subseteq {"stopped", "select", "pop", "wait"}
  BY <1>1, Names
<1>3. loop'["readLoop"] = loop["readLoop"]
  BY <1>1, Names
<1>4. Ev' = Ev /\ (Alive' <=> Alive)
  BY <1>3, EvSame
<1>5. TypeInv'
  BY <1>0, <1>1 DEF TypeInv
<1>6. MainInv'
  BY <1>0, <1>1, Names DEF MainInv, At
<1>7. HandsInv'
  BY <1>0, <1>2 DEF HandsInv
<1>8. Told' = Told
  BY DEF Told
<1>9. EventsInv' /\ ActiveInv'
  BY <1>0, <1>4, EventFrame
<1>10. ToldInv'
  BY <1>0, <1>4, <1>8, ToldFrame
<1>11. QueueInv'
  BY <1>0, <1>2, <1>8 DEF QueueInv
<1>12. \A w \in Interrupters : loop'[w] \in {"drop", "truncate"} => loop'[w] = loop[w]
  BY <1>2, Names
<1>13. CutInv'
  BY <1>0, <1>4, <1>12 DEF CutInv, Cutting
<1>14. HeardInv'
  <2>1. /\ loop'["writer"] = "write" <=> loop["writer"] = "write"
        /\ loop'["writer"] = "mark" <=> loop["writer"] = "mark"
    BY <1>2
  <2>2. \A r : Sure(r)' = Sure(r)
    BY <2>1 DEF Sure
  <2>3. \A w \in Interrupters : Cutting(w)' /\ loop'[w] = "truncate" => Cutting(w) /\ loop[w] = "truncate"
    BY <1>12 DEF Cutting
  <2> QED BY <1>0, <2>1, <2>2, <2>3 DEF HeardInv, AudioOf
<1> QED BY <1>5, <1>6, <1>7, <1>9, <1>10, <1>11, <1>13, <1>14 DEF AudioInv

\* readLoop starts with the connection.
LEMMA ConnectKeeps ==
  ASSUME AudioInv, Connect
  PROVE  AudioInv'
<1>0. TypeInv /\ MainInv /\ HandsInv /\ EventsInv /\ ActiveInv /\ ToldInv /\ QueueInv /\ CutInv /\ HeardInv
  BY DEF AudioInv
<1>1. /\ main = "connect" /\ main' = "ready" /\ Go("readLoop", "reading")
      /\ UNCHANGED <<out, delivered, current, interrupted, passing, writing, cut, provider, heard, quiet>>
      /\ conn' = [conn EXCEPT !.open = TRUE]
  BY DEF Connect, pipeline, world
<1>2. /\ loop' \in [Goroutines -> Places] /\ loop'["readLoop"] = "reading"
      /\ \A k \in Goroutines \ {"readLoop"} : loop'[k] = loop[k]
  BY <1>0, <1>1, GoEffect, Names DEF Places
<1>3. /\ loop'["provider"] = loop["provider"] /\ loop'["writer"] = loop["writer"]
      /\ loop'["reader"] = loop["reader"]
  BY <1>2, Names
<1>4. /\ conn' \in [open : BOOLEAN, events : Seq(ProviderEvent), held : ProviderEvent]
      /\ conn'.events = conn.events
  BY <1>0, <1>1 DEF TypeInv
<1>5. conn.events \in Seq(ProviderEvent) /\ conn.held \in ProviderEvent
  BY <1>0 DEF TypeInv
<1>6. /\ Ev' = conn.events /\ DOMAIN Ev' \subseteq DOMAIN Ev
      /\ \A i \in DOMAIN Ev' : Ev'[i] = Ev[i]
  BY <1>2, <1>4, <1>5 DEF Ev, At
<1>7. provider.active = NoResponse
  BY <1>0, <1>1 DEF MainInv
<1>8. TypeInv' /\ MainInv'
  BY <1>0, <1>1, <1>2, <1>3, <1>4 DEF TypeInv, MainInv, At
<1>9. HandsInv' /\ QueueInv' /\ Told' = Told
  BY <1>0, <1>1, <1>3, QueueFrame
<1>10. loop["provider"] = "stopped" /\ loop["reader"] = "stopped"
  BY <1>0, <1>1 DEF MainInv, At
<1>11. CutInv' /\ HeardInv'
  <2>1. \A w \in Interrupters : loop'[w] = "stopped"
    BY <1>3, <1>10, Names
  <2>2. CutInv'
    BY <2>1 DEF CutInv, Cutting
  <2>3. HeardInv'
    BY <1>0, <1>1, <1>3, <2>1, HeardFrame
  <2> QED BY <2>2, <2>3
<1>12. EventsInv'
  <2>1. \A i \in DOMAIN Ev : Ev[i].kind = "audio" => Ev[i].response = current.response
          \/ \E k \in DOMAIN Ev : k < i /\ Ev[k].kind = "created" /\ Ev[k].response = Ev[i].response
    BY <1>0 DEF EventsInv
  <2>2. \A i \in DOMAIN Ev', k \in DOMAIN Ev : k < i => k \in DOMAIN Ev'
    BY <1>5, <1>6 DEF Ev
  <2> QED BY <1>0, <1>1, <1>6, <2>1, <2>2 DEF EventsInv
<1>13. ActiveInv'
  BY <1>0, <1>1, <1>7 DEF ActiveInv
<1>14. ToldInv'
  BY <1>0, <1>1, <1>6, <1>7, <1>9 DEF ToldInv
<1> QED BY <1>8, <1>9, <1>11, <1>12, <1>13, <1>14 DEF AudioInv

\* The three loops of the session start.
LEMMA ReadyKeeps ==
  ASSUME AudioInv, Ready
  PROVE  AudioInv'
<1>0. TypeInv /\ MainInv /\ HandsInv /\ EventsInv /\ ActiveInv /\ ToldInv /\ QueueInv /\ CutInv /\ HeardInv
  BY DEF AudioInv
<1>1. /\ main = "ready" /\ main' = "running"
      /\ UNCHANGED <<conn, out, delivered, current, interrupted, passing, writing, cut, provider, heard, quiet>>
  BY DEF Ready, pipeline, world
<1>2. /\ loop["provider"] = "stopped" /\ loop["reader"] = "stopped" /\ loop["writer"] = "stopped"
      /\ DOMAIN loop = {"provider", "writer", "reader", "readLoop"}
  BY <1>0, <1>1, Names DEF MainInv, At, TypeInv
<1>3. loop' = [l \in DOMAIN loop |->
       CASE l = "readLoop" -> loop[l] [] l = "writer" -> "pop" [] OTHER -> "select"]
  BY DEF Ready
<1>4. /\ loop'["provider"] = "select" /\ loop'["reader"] = "select" /\ loop'["writer"] = "pop"
      /\ loop'["readLoop"] = loop["readLoop"]
  BY <1>2, <1>3
<1>5. loop' \in [Goroutines -> Places]
  <2>1. loop["readLoop"] \in Places
    BY <1>0, Names DEF TypeInv
  <2> QED BY <1>2, <1>3, <2>1, Names DEF Places
<1>6. Ev' = Ev /\ (Alive' <=> Alive)
  BY <1>1, <1>4, EvSame
<1>7. TypeInv' /\ MainInv'
  BY <1>0, <1>1, <1>5 DEF TypeInv, MainInv
<1>8. Told' = Told
  BY <1>1 DEF Told
<1>9. HandsInv' /\ QueueInv'
  BY <1>0, <1>1, <1>2, <1>4, <1>8 DEF HandsInv, QueueInv
<1>10. EventsInv' /\ ActiveInv'
  BY <1>0, <1>1, <1>6, EventFrame
<1>11. ToldInv'
  BY <1>0, <1>1, <1>6, <1>8, ToldFrame
<1>12. \A w \in Interrupters : loop'[w] = "select"
  BY <1>4, Names
<1>13. CutInv'
  BY <1>12 DEF CutInv, Cutting
<1>14. HeardInv'
  BY <1>0, <1>1, <1>2, <1>4, <1>12 DEF HeardInv, Cutting
<1> QED BY <1>7, <1>9, <1>10, <1>11, <1>13, <1>14 DEF AudioInv

\* readLoop puts the event that waited, or ends, perhaps with one in its hands.
LEMMA ReadKeeps ==
  ASSUME AudioInv, Put \/ ReadLoopEnds
  PROVE  AudioInv'
<1>0. TypeInv /\ MainInv /\ HandsInv /\ EventsInv /\ ActiveInv /\ ToldInv /\ QueueInv /\ CutInv /\ HeardInv
  BY DEF AudioInv
<1>1. PICK pc \in {"reading", "stopped"} : Go("readLoop", pc) /\ (pc = "reading" => Put)
  BY DEF Put, ReadLoopEnds
<1>2. /\ loop' \in [Goroutines -> Places] /\ loop'["readLoop"] = pc
      /\ loop'["provider"] = loop["provider"] /\ loop'["writer"] = loop["writer"]
      /\ loop'["reader"] = loop["reader"]
  <2>1. pc \in Places /\ "readLoop" \in Goroutines
    BY Names DEF Places
  <2> QED BY <2>1, <1>0, <1>1, GoEffect, Names
<1>3. /\ UNCHANGED <<main, out, delivered, current, interrupted, passing, writing, cut, provider, heard, quiet>>
      /\ loop["readLoop"] \in {"reading", "putting"}
  BY DEF Put, ReadLoopEnds, At, pipeline, world
<1>4. conn.events \in Seq(ProviderEvent) /\ conn.held \in ProviderEvent
  BY <1>0 DEF TypeInv
<1>5. /\ conn' \in [open : BOOLEAN, events : Seq(ProviderEvent), held : ProviderEvent]
      /\ \/ Ev' = Ev
         \/ pc = "stopped" /\ Ev' = conn.events /\ Ev = Append(conn.events, conn.held)
  <2>1. CASE Put
    <3>1. conn' = [conn EXCEPT !.events = Append(conn.events, conn.held), !.held = Nothing]
      BY <2>1 DEF Put
    <3>2. Append(conn.events, conn.held) \in Seq(ProviderEvent) /\ Nothing \in ProviderEvent
      BY <1>4, AudioAssumption DEF Nothing, ProviderEvent, Numbers, NoResponse
    <3>3. /\ conn' \in [open : BOOLEAN, events : Seq(ProviderEvent), held : ProviderEvent]
          /\ conn'.events = Append(conn.events, conn.held)
      BY <1>0, <3>1, <3>2 DEF TypeInv
    <3>4. loop["readLoop"] = "putting" /\ loop'["readLoop"] = "reading"
      BY <2>1, <1>2, <1>0, Names DEF Put, At, Go, TypeInv
    <3> QED BY <3>3, <3>4 DEF Ev, At
  <2>2. CASE ReadLoopEnds
    <3>1. conn' = conn /\ loop'["readLoop"] = "stopped"
      BY <2>2, <1>0, Names DEF ReadLoopEnds, Go, TypeInv
    <3> QED BY <3>1, <1>0, <1>2, <1>3 DEF Ev, At, TypeInv
  <2> QED BY <2>1, <2>2
<1>6. /\ DOMAIN Ev' \subseteq DOMAIN Ev /\ (\A i \in DOMAIN Ev' : Ev'[i] = Ev[i])
      /\ \A i \in DOMAIN Ev', k \in DOMAIN Ev : k < i => k \in DOMAIN Ev'
  <2>1. CASE Ev' = Ev
    BY <2>1
  <2>2. CASE Ev' = conn.events /\ Ev = Append(conn.events, conn.held)
    BY <1>4, <2>2
  <2> QED BY <1>5, <2>1, <2>2
<1>7. Alive' => Alive /\ Ev' = Ev
  BY <1>2, <1>3, <1>5 DEF Alive, At
<1>8. TypeInv' /\ MainInv'
  BY <1>0, <1>2, <1>3, <1>5 DEF TypeInv, MainInv, At
<1>9. HandsInv' /\ QueueInv' /\ Told' = Told
  BY <1>0, <1>2, <1>3, QueueFrame
<1>10. \A w \in Interrupters : loop'[w] = loop[w]
  BY <1>2, Names
<1>11. HeardInv'
  BY <1>0, <1>2, <1>3, <1>10, HeardFrame DEF Cutting
<1>12. CutInv'
  BY <1>0, <1>3, <1>6, <1>7, <1>10 DEF CutInv, Cutting
<1>13. EventsInv'
  <2>1. \A i \in DOMAIN Ev : Ev[i].kind = "audio" => Ev[i].response = current.response
          \/ \E k \in DOMAIN Ev : k < i /\ Ev[k].kind = "created" /\ Ev[k].response = Ev[i].response
    BY <1>0 DEF EventsInv
  <2> QED BY <1>0, <1>3, <1>6, <2>1 DEF EventsInv
<1>14. ActiveInv'
  BY <1>0, <1>3, <1>7 DEF ActiveInv
<1>15. ToldInv'
  BY <1>0, <1>3, <1>6, <1>7, <1>9 DEF ToldInv
<1> QED BY <1>8, <1>9, <1>11, <1>12, <1>13, <1>14, <1>15 DEF AudioInv

-----------------------------------------------------------------------------
(* The provider sends an event.                                              *)

\* The event is behind all others, in the channel or in readLoop's hands.
LEMMA EmitEffect ==
  ASSUME TypeInv, NEW e \in ProviderEvent, Emit(e)
  PROVE  /\ Alive /\ Alive' /\ Ev \in Seq(ProviderEvent) /\ Ev' = Append(Ev, e)
         /\ conn' \in [open : BOOLEAN, events : Seq(ProviderEvent), held : ProviderEvent]
         /\ loop' \in [Goroutines -> Places]
         /\ \A l \in {"provider", "writer", "reader"} : loop'[l] = loop[l]
         /\ UNCHANGED <<main, out, delivered, current, interrupted, passing, writing, cut, heard, quiet>>
<1>1. loop["readLoop"] = "reading" /\ Ev = conn.events /\ Alive
  BY DEF Emit, At, Ev, Alive
<1>2. conn.events \in Seq(ProviderEvent) /\ Append(conn.events, e) \in Seq(ProviderEvent)
  BY DEF TypeInv
<1>3. UNCHANGED <<main, out, delivered, current, interrupted, passing, writing, cut, heard, quiet>>
  BY DEF Emit, pipeline
<1>4. CASE Len(conn.events) < EventBuffer
  <2>1. conn' = [conn EXCEPT !.events = Append(conn.events, e)] /\ loop' = loop
    BY <1>4 DEF Emit
  <2>2. /\ conn' \in [open : BOOLEAN, events : Seq(ProviderEvent), held : ProviderEvent]
        /\ conn'.events = Append(conn.events, e)
    BY <1>2, <2>1 DEF TypeInv
  <2> QED BY <1>1, <1>2, <1>3, <2>1, <2>2 DEF Ev, Alive, At, TypeInv
<1>5. CASE ~(Len(conn.events) < EventBuffer)
  <2>1. conn' = [conn EXCEPT !.held = e] /\ Go("readLoop", "putting")
    BY <1>5 DEF Emit
  <2>2. /\ conn' \in [open : BOOLEAN, events : Seq(ProviderEvent), held : ProviderEvent]
        /\ conn'.events = conn.events /\ conn'.held = e
    BY <1>2, <2>1 DEF TypeInv
  <2>3. /\ loop' \in [Goroutines -> Places] /\ loop'["readLoop"] = "putting"
        /\ \A k \in Goroutines \ {"readLoop"} : loop'[k] = loop[k]
    BY <2>1, GoEffect, Names DEF Places
  <2>4. \A l \in {"provider", "writer", "reader"} : loop'[l] = loop[l]
    BY <2>3, Names
  <2> QED BY <1>1, <1>2, <1>3, <2>2, <2>3, <2>4 DEF Ev, Alive, At
<1> QED BY <1>4, <1>5

\* Any event that fits the provider's response in progress.
LEMMA EmitKeeps ==
  ASSUME AudioInv, NEW e \in ProviderEvent, Emit(e),
         provider' \in [active : Numbers, created : Numbers],
         e.response <= provider'.created,
         \/ /\ e.kind = "created" /\ provider.active = NoResponse /\ e.response = provider.created + 1
            /\ provider'.created = e.response /\ provider'.active = e.response
         \/ /\ e.kind = "audio" /\ e.response = provider.active /\ provider.active # NoResponse
            /\ provider' = provider
         \/ /\ e.kind = "done" /\ e.response = provider.active
            /\ provider'.active = NoResponse /\ provider'.created = provider.created
         \/ e.kind = "speech" /\ provider' = provider
  PROVE  AudioInv'
<1>0. TypeInv /\ MainInv /\ HandsInv /\ EventsInv /\ ActiveInv /\ ToldInv /\ QueueInv /\ CutInv /\ HeardInv
  BY DEF AudioInv
<1>1. /\ Alive /\ Alive' /\ Ev \in Seq(ProviderEvent) /\ Ev' = Append(Ev, e)
      /\ conn' \in [open : BOOLEAN, events : Seq(ProviderEvent), held : ProviderEvent]
      /\ loop' \in [Goroutines -> Places]
      /\ \A l \in {"provider", "writer", "reader"} : loop'[l] = loop[l]
      /\ UNCHANGED <<main, out, delivered, current, interrupted, passing, writing, cut, heard, quiet>>
  BY <1>0, EmitEffect
<1>2. PICK n \in Nat : n = Len(Ev)
  BY <1>1
<1>3. /\ DOMAIN Ev = 1..n /\ DOMAIN Ev' = 1..(n + 1) /\ Ev'[n + 1] = e
      /\ \A i \in 1..n : Ev'[i] = Ev[i] /\ Ev[i] \in ProviderEvent
  BY <1>1, <1>2
<1>4. /\ provider.active \in Nat /\ provider.created \in Nat /\ provider.created <= MaxResponses
      /\ provider'.active \in Nat /\ provider'.created \in Nat /\ provider'.created <= MaxResponses
      /\ e.response \in Nat /\ current.response \in Nat /\ current.item \in Nat /\ MaxResponses \in Nat
      /\ \A i \in 1..n : Ev[i].response \in Nat
  BY <1>0, <1>3, AudioAssumption DEF TypeInv, ProviderEvent, Numbers
<1>5. provider.created <= provider'.created
  BY <1>4
<1>6. loop["readLoop"] = "reading"
  BY DEF Emit, At
<1>7. MainInv'
  BY <1>0, <1>1, <1>6 DEF MainInv, At
<1>8. TypeInv'
  BY <1>0, <1>1 DEF TypeInv
<1>9. HandsInv' /\ QueueInv' /\ Told' = Told
  BY <1>0, <1>1, QueueFrame
<1>10. \A w \in Interrupters : loop'[w] = loop[w]
  BY <1>1, Names
<1>11. HeardInv'
  BY <1>0, <1>1, <1>10, HeardFrame DEF Cutting
<1>12. EventsInv'
  <2>1. \A i \in DOMAIN Ev' : Ev'[i].response <= provider'.created
    BY <1>0, <1>3, <1>4, <1>5 DEF EventsInv
  <2>2. \A i \in DOMAIN Ev' : Ev'[i].kind \in {"audio", "created"} => Ev'[i].response \in Responses
    BY <1>0, <1>3, <1>4 DEF EventsInv, Responses, NoResponse
  <2>3. \A i, j \in DOMAIN Ev' : i < j /\ Ev'[j].kind = "created" => Ev'[i].response < Ev'[j].response
    <3> SUFFICES ASSUME NEW i \in 1..(n + 1), NEW j \in 1..(n + 1), i < j, Ev'[j].kind = "created"
                 PROVE  Ev'[i].response < Ev'[j].response
      BY <1>3
    <3>1. i \in 1..n
      OBVIOUS
    <3>2. CASE j = n + 1
      BY <3>1, <3>2, <1>0, <1>3, <1>4, SMTT(30) DEF EventsInv
    <3>3. CASE j \in 1..n
      BY <3>1, <3>3, <1>0, <1>3 DEF EventsInv
    <3> QED BY <3>2, <3>3
  <2>4. \A i, j \in DOMAIN Ev' : i < j /\ Ev'[i].kind = "done" /\ Ev'[j].kind = "audio" => Ev'[i].response < Ev'[j].response
    <3> SUFFICES ASSUME NEW i \in 1..(n + 1), NEW j \in 1..(n + 1), i < j, Ev'[i].kind = "done", Ev'[j].kind = "audio"
                 PROVE  Ev'[i].response < Ev'[j].response
      BY <1>3
    <3>1. i \in 1..n
      OBVIOUS
    <3>2. CASE j = n + 1
      BY <3>1, <3>2, <1>0, <1>1, <1>3, <1>4 DEF ActiveInv
    <3>3. CASE j \in 1..n
      BY <3>1, <3>3, <1>0, <1>3 DEF EventsInv
    <3> QED BY <3>2, <3>3
  <2>5. \A i, j \in DOMAIN Ev' : i < j /\ Ev'[i].kind = "created" /\ Ev'[j].kind = "audio" => Ev'[i].response <= Ev'[j].response
    <3> SUFFICES ASSUME NEW i \in 1..(n + 1), NEW j \in 1..(n + 1), i < j, Ev'[i].kind = "created", Ev'[j].kind = "audio"
                 PROVE  Ev'[i].response <= Ev'[j].response
      BY <1>3
    <3>1. i \in 1..n
      OBVIOUS
    <3>2. CASE j = n + 1
      BY <3>1, <3>2, <1>0, <1>3, <1>4 DEF ActiveInv, EventsInv
    <3>3. CASE j \in 1..n
      BY <3>1, <3>3, <1>0, <1>3 DEF EventsInv
    <3> QED BY <3>2, <3>3
  <2>6. \A i \in DOMAIN Ev' : Ev'[i].kind = "created"
          => Ev'[i].response > current'.response /\ Ev'[i].response > current'.item
    BY <1>0, <1>1, <1>3, <1>4, SMTT(30) DEF EventsInv, ActiveInv
  <2>7. ASSUME NEW i \in DOMAIN Ev', Ev'[i].kind = "audio"
        PROVE  \/ Ev'[i].response = current'.response
               \/ \E k \in DOMAIN Ev' : k < i /\ Ev'[k].kind = "created" /\ Ev'[k].response = Ev'[i].response
    <3>1. CASE i = n + 1
      <4>1. \/ provider.active = current.response
            \/ \E k \in DOMAIN Ev : Ev[k].kind = "created" /\ Ev[k].response = provider.active
        BY <3>1, <2>7, <1>0, <1>1, <1>3 DEF ActiveInv
      <4>2. e.response = provider.active
        BY <3>1, <2>7, <1>3
      <4> QED BY <3>1, <4>1, <4>2, <1>1, <1>3
    <3>2. CASE i \in 1..n
      <4>1. \/ Ev[i].response = current.response
            \/ \E k \in DOMAIN Ev : k < i /\ Ev[k].kind = "created" /\ Ev[k].response = Ev[i].response
        BY <3>2, <2>7, <1>0, <1>3 DEF EventsInv
      <4> QED BY <3>2, <4>1, <1>1, <1>3
    <3> QED BY <3>1, <3>2, <1>3
  <2> QED BY <2>1, <2>2, <2>3, <2>4, <2>5, <2>6, <2>7 DEF EventsInv
<1>13. ActiveInv'
  <2>1. /\ provider'.active # NoResponse => provider'.active = provider'.created
        /\ current'.response <= provider'.created /\ current'.item <= provider'.created
    BY <1>0, <1>1, <1>4, <1>5 DEF ActiveInv
  <2>2. ASSUME provider'.active # NoResponse
        PROVE  \A k \in DOMAIN Ev' : Ev'[k].kind = "done" => Ev'[k].response < provider'.active
    <3>1. e.kind # "done"
      BY <2>2
    <3>2. \A k \in 1..n : Ev[k].kind = "done" => Ev[k].response < provider'.active
      <4>1. CASE e.kind = "created"
        <5>1. \A k \in 1..n : Ev[k].response <= provider.created
          BY <1>0, <1>3 DEF EventsInv
        <5> QED BY <4>1, <5>1, <1>4
      <4>2. CASE e.kind # "created"
        BY <2>2, <4>2, <1>0, <1>1, <1>3 DEF ActiveInv
      <4> QED BY <4>1, <4>2
    <3> QED BY <3>1, <3>2, <1>3
  <2>3. ASSUME provider'.active # NoResponse
        PROVE  \/ provider'.active = current'.response
               \/ \E k \in DOMAIN Ev' : Ev'[k].kind = "created" /\ Ev'[k].response = provider'.active
    <3>1. CASE e.kind = "created"
      <4>1. n + 1 \in DOMAIN Ev' /\ Ev'[n + 1].kind = "created" /\ Ev'[n + 1].response = provider'.active
        BY <3>1, <1>3
      <4> QED BY <4>1
    <3>2. CASE e.kind # "created"
      <4>1. provider'.active = provider.active
        BY <2>3, <3>2
      <4>2. \/ provider.active = current.response
            \/ \E k \in DOMAIN Ev : Ev[k].kind = "created" /\ Ev[k].response = provider.active
        BY <2>3, <4>1, <1>0, <1>1 DEF ActiveInv
      <4>3. DOMAIN Ev \subseteq DOMAIN Ev' /\ \A k \in DOMAIN Ev : Ev'[k] = Ev[k]
        BY <1>3
      <4> QED BY <4>1, <4>2, <4>3, <1>1
    <3> QED BY <3>1, <3>2
  <2> QED BY <2>1, <2>2, <2>3 DEF ActiveInv
<1>14. ToldInv'
  <2>0. Told \subseteq Nat
    BY <1>0, ToldType
  <2>1. \A q \in Told : q <= provider'.created
    <3>1. \A q \in Told : q \in Nat /\ q <= provider.created
      BY <1>0, <2>0 DEF ToldInv
    <3> QED BY <3>1, <1>4, <1>5
  <2>2. e.kind = "audio" => e.response \in interrupted \/ \A q \in Told : q < e.response
    BY <1>0, <1>1 DEF ToldInv
  <2>3. \A i \in DOMAIN Ev' : Ev'[i].kind = "audio"
          => Ev'[i].response \in interrupted \/ \A q \in Told : q < Ev'[i].response
    BY <1>0, <1>3, <2>2 DEF ToldInv
  <2>4. provider'.active # NoResponse => provider'.active \in interrupted \/ \A q \in Told : q < provider'.active
    <3>1. CASE e.kind = "created"
      BY <3>1, <1>0, <1>4, <2>0 DEF ToldInv
    <3>2. CASE e.kind # "created"
      BY <3>2, <1>0, <1>1 DEF ToldInv
    <3> QED BY <3>1, <3>2
  <2> QED BY <2>1, <2>3, <2>4, <1>1, <1>9 DEF ToldInv
<1>15. CutInv'
  <2> SUFFICES ASSUME NEW w \in Interrupters, Cutting(w)
               PROVE  /\ cut[w].item <= provider'.created
                      /\ \A i \in DOMAIN Ev' : Ev'[i].kind = "audio" /\ Ev'[i].response = cut[w].item
                           => cut[w].item \in interrupted
                      /\ provider'.active = cut[w].item => cut[w].item \in interrupted
    BY <1>1, <1>10 DEF CutInv, Cutting
  <2>1. cut[w].item \in Nat /\ cut[w].item # NoResponse
    BY <1>0 DEF TypeInv, Numbers, Cutting
  <2>2. /\ cut[w].item <= provider.created
        /\ \A i \in DOMAIN Ev : Ev[i].kind = "audio" /\ Ev[i].response = cut[w].item => cut[w].item \in interrupted
        /\ provider.active = cut[w].item => cut[w].item \in interrupted
    BY <1>0, <1>1 DEF CutInv
  <2>3. cut[w].item <= provider'.created
    BY <2>1, <2>2, <1>4, <1>5
  <2>4. \A i \in DOMAIN Ev' : Ev'[i].kind = "audio" /\ Ev'[i].response = cut[w].item => cut[w].item \in interrupted
    BY <2>2, <1>3
  <2>5. provider'.active = cut[w].item => cut[w].item \in interrupted
    BY <2>1, <2>2, <1>4
  <2> QED BY <2>3, <2>4, <2>5
<1> QED BY <1>7, <1>8, <1>9, <1>11, <1>12, <1>13, <1>14, <1>15 DEF AudioInv

-----------------------------------------------------------------------------
(* providerLoop takes an event.                                              *)

\* The first event leaves the channel.
LEMMA TakesEffect ==
  ASSUME TypeInv, NEW kind, Takes(kind), loop'["readLoop"] = loop["readLoop"]
  PROVE  /\ Ev \in Seq(ProviderEvent) /\ Ev # << >> /\ Ev' = Tail(Ev) /\ (Alive' <=> Alive)
         /\ Ev[1] = Head(conn.events) /\ Ev[1].kind = kind
         /\ conn' \in [open : BOOLEAN, events : Seq(ProviderEvent), held : ProviderEvent]
<1>1. /\ conn.events \in Seq(ProviderEvent) /\ conn.held \in ProviderEvent
      /\ conn.events # << >> /\ Head(conn.events).kind = kind
      /\ conn' = [conn EXCEPT !.events = Tail(conn.events)]
  BY DEF TypeInv, Takes
<1>2. Tail(conn.events) \in Seq(ProviderEvent) /\ Head(conn.events) = conn.events[1] /\ Len(conn.events) >= 1
  BY <1>1
<1>3. /\ conn' \in [open : BOOLEAN, events : Seq(ProviderEvent), held : ProviderEvent]
      /\ conn'.events = Tail(conn.events) /\ conn'.held = conn.held
  BY <1>1, <1>2 DEF TypeInv
<1>4. Ev \in Seq(ProviderEvent)
  BY EvType
<1>5. CASE loop["readLoop"] = "putting"
  <2>1. Ev = Append(conn.events, conn.held) /\ Ev' = Append(Tail(conn.events), conn.held)
    BY <1>3, <1>5 DEF Ev, At
  <2>2. Append(Tail(conn.events), conn.held) = Tail(Append(conn.events, conn.held))
    BY <1>1, <1>2
  <2>3. Ev # << >> /\ Ev[1] = conn.events[1]
    BY <1>1, <1>2, <2>1
  <2> QED BY <1>1, <1>2, <1>3, <1>4, <2>1, <2>2, <2>3 DEF Alive, At
<1>6. CASE loop["readLoop"] # "putting"
  <2>1. Ev = conn.events /\ Ev' = Tail(conn.events)
    BY <1>3, <1>6 DEF Ev, At
  <2> QED BY <1>1, <1>2, <1>3, <1>4, <2>1 DEF Alive, At
<1> QED BY <1>5, <1>6

\* What handleEvent makes of an event, for what it knows of the provider.
Notes(e) ==
  \/ /\ e.kind = "audio" /\ interrupted' = interrupted
     /\ current'.response = current.response /\ current'.item \in {current.item, e.response}
  \/ /\ e.kind = "speech" /\ current' = current
     /\ interrupted' = IF current.response = NoResponse THEN interrupted
                       ELSE interrupted \cup {current.response}
  \/ /\ e.kind = "created" /\ interrupted' = interrupted
     /\ current'.response = e.response /\ current'.item = current.item
  \/ /\ e.kind = "done" /\ interrupted' = interrupted \ {e.response}
     /\ current'.response \in {current.response, NoResponse} /\ current'.item = current.item
     /\ current'.response # current.response => current.response = e.response

\* The events behind it still fit.
LEMMA TakeEvents ==
  ASSUME TypeInv, EventsInv, ActiveInv,
         Ev # << >>, Ev' = Tail(Ev), Alive' <=> Alive, provider' = provider,
         NEW e, e = Ev[1], Notes(e)
  PROVE  EventsInv' /\ ActiveInv'
<1>0. Ev \in Seq(ProviderEvent)
  BY EvType
<1>1. PICK n \in Nat : n = Len(Ev) /\ n >= 1
  BY <1>0
<1>2. /\ DOMAIN Ev = 1..n /\ DOMAIN Ev' = 1..(n - 1) /\ \A i \in 1..(n - 1) : Ev'[i] = Ev[i + 1]
      /\ \A i \in 1..n : Ev[i] \in ProviderEvent
  BY <1>0, <1>1
<1>3. /\ \A i \in 1..n : Ev[i].response \in Nat
      /\ current.response \in Nat /\ current.item \in Nat /\ provider.created \in Nat /\ provider.active \in Nat
  BY <1>2 DEF TypeInv, ProviderEvent, Numbers
<1>4. 1 \in 1..n /\ e \in ProviderEvent /\ e.response \in Nat
  BY <1>1, <1>2, <1>3
<1>5. \A i \in 1..(n - 1) : i + 1 \in 1..n /\ 1 < i + 1
  BY <1>1
<1>6. e.kind = "audio" => e.response = current.response
  <2>1. ~\E k \in DOMAIN Ev : k < 1
    BY <1>2
  <2> QED BY <1>2, <1>4, <2>1 DEF EventsInv
<1>7. /\ \A i \in DOMAIN Ev' : Ev'[i].response <= provider'.created
      /\ \A i \in DOMAIN Ev' : Ev'[i].kind \in {"audio", "created"} => Ev'[i].response \in Responses
  BY <1>2, <1>5 DEF EventsInv
<1>8. /\ \A i, j \in DOMAIN Ev' : i < j /\ Ev'[j].kind = "created" => Ev'[i].response < Ev'[j].response
      /\ \A i, j \in DOMAIN Ev' : i < j /\ Ev'[i].kind = "done" /\ Ev'[j].kind = "audio" => Ev'[i].response < Ev'[j].response
      /\ \A i, j \in DOMAIN Ev' : i < j /\ Ev'[i].kind = "created" /\ Ev'[j].kind = "audio" => Ev'[i].response <= Ev'[j].response
  <2> SUFFICES ASSUME NEW i \in 1..(n - 1), NEW j \in 1..(n - 1), i < j
               PROVE  /\ Ev'[j].kind = "created" => Ev'[i].response < Ev'[j].response
                      /\ Ev'[i].kind = "done" /\ Ev'[j].kind = "audio" => Ev'[i].response < Ev'[j].response
                      /\ Ev'[i].kind = "created" /\ Ev'[j].kind = "audio" => Ev'[i].response <= Ev'[j].response
    BY <1>2
  <2>1. PICK a \in 1..n, b \in 1..n : a = i + 1 /\ b = j + 1 /\ a < b
    BY <1>5
  <2>2. Ev'[i] = Ev[a] /\ Ev'[j] = Ev[b]
    BY <1>2, <2>1
  <2> QED BY <1>2, <2>1, <2>2 DEF EventsInv
<1>9. ASSUME NEW i \in 1..(n - 1), Ev'[i].kind = "created"
      PROVE  Ev'[i].response > current'.response /\ Ev'[i].response > current'.item
  <2>1. PICK a \in 1..n : a = i + 1 /\ 1 < a /\ Ev'[i] = Ev[a]
    BY <1>2, <1>5
  <2>2. e.response < Ev[a].response
    BY <1>2, <1>4, <1>9, <2>1 DEF EventsInv
  <2>3. Ev[a].response > current.response /\ Ev[a].response > current.item
    BY <1>2, <1>9, <2>1 DEF EventsInv
  <2>4. current'.response \in {current.response, e.response, NoResponse} /\ current'.item \in {current.item, e.response}
    BY DEF Notes
  <2>5. Ev[a].response > NoResponse
    BY <2>3, <1>3 DEF NoResponse
  <2> QED BY <2>1, <2>2, <2>3, <2>4, <2>5, <1>3, <1>4
<1>10. ASSUME NEW i \in 1..(n - 1), Ev'[i].kind = "audio"
       PROVE  \/ Ev'[i].response = current'.response
              \/ \E k \in 1..(n - 1) : k < i /\ Ev'[k].kind = "created" /\ Ev'[k].response = Ev'[i].response
  <2>1. PICK a \in 1..n : a = i + 1 /\ 1 < a /\ Ev'[i] = Ev[a]
    BY <1>2, <1>5
  <2>2. \/ Ev[a].response = current.response
        \/ \E k \in 1..n : k < a /\ Ev[k].kind = "created" /\ Ev[k].response = Ev[a].response
    BY <1>2, <1>10, <2>1 DEF EventsInv
  <2>3. CASE Ev[a].response = current.response
    <3>1. e.kind = "created" => FALSE
      <4>1. e.kind = "created" => e.response > current.response
        BY <1>2, <1>4 DEF EventsInv
      <4>2. e.kind = "created" => e.response <= Ev[a].response
        BY <2>1, <1>2, <1>4, <1>10 DEF EventsInv
      <4> QED BY <2>3, <4>1, <4>2, <1>3, <1>4
    <3>2. e.kind = "done" => e.response < Ev[a].response
      BY <2>1, <1>2, <1>4, <1>10 DEF EventsInv
    <3>3. current'.response = current.response
      BY <3>1, <3>2, <2>3, <1>3, <1>4 DEF Notes
    <3> QED BY <2>1, <2>3, <3>3
  <2>4. ASSUME NEW k \in 1..n, k < a, Ev[k].kind = "created", Ev[k].response = Ev[a].response
        PROVE  \/ Ev'[i].response = current'.response
               \/ \E m \in 1..(n - 1) : m < i /\ Ev'[m].kind = "created" /\ Ev'[m].response = Ev'[i].response
    <3>1. CASE k = 1
      <4>1. e.kind = "created" /\ e.response = Ev[a].response
        BY <2>4, <3>1
      <4>2. current'.response = e.response
        BY <4>1 DEF Notes
      <4> QED BY <2>1, <4>1, <4>2
    <3>2. CASE k # 1
      <4>1. PICK m \in 1..(n - 1) : k = m + 1 /\ m < i
        BY <2>1, <2>4, <3>2
      <4>2. Ev'[m] = Ev[k]
        BY <1>2, <4>1
      <4> QED BY <2>1, <2>4, <4>1, <4>2
    <3> QED BY <3>1, <3>2
  <2> QED BY <2>2, <2>3, <2>4
<1>11. EventsInv'
  <2>1. \A i \in DOMAIN Ev' : Ev'[i].kind = "created"
          => Ev'[i].response > current'.response /\ Ev'[i].response > current'.item
    BY <1>2, <1>9
  <2>2. \A i \in DOMAIN Ev' : Ev'[i].kind = "audio"
          => \/ Ev'[i].response = current'.response
             \/ \E k \in DOMAIN Ev' : k < i /\ Ev'[k].kind = "created" /\ Ev'[k].response = Ev'[i].response
    <3>1. DOMAIN Ev' = 1..(n - 1)
      BY <1>2
    <3>2. SUFFICES ASSUME NEW i \in DOMAIN Ev', Ev'[i].kind = "audio", Ev'[i].response # current'.response
                   PROVE  \E k \in DOMAIN Ev' : k < i /\ Ev'[k].kind = "created" /\ Ev'[k].response = Ev'[i].response
      OBVIOUS
    <3>3. i \in 1..(n - 1)
      BY <3>1, <3>2
    <3>4. PICK k \in 1..(n - 1) : k < i /\ Ev'[k].kind = "created" /\ Ev'[k].response = Ev'[i].response
      BY <3>2, <3>3, <1>10
    <3>5. k \in DOMAIN Ev'
      BY <3>1, <3>4
    <3> QED BY <3>4, <3>5
  <2> QED BY <1>7, <1>8, <2>1, <2>2, Zenon DEF EventsInv
<1>12. ActiveInv'
  <2>1. e.response <= provider.created
    BY <1>2, <1>4 DEF EventsInv
  <2>2. current'.response <= provider.created /\ current'.item <= provider.created
    <3>1. current'.response \in {current.response, e.response, NoResponse} /\ current'.item \in {current.item, e.response}
      BY DEF Notes
    <3>2. NoResponse <= provider.created
      BY <1>3 DEF NoResponse
    <3> QED BY <2>1, <3>1, <3>2 DEF ActiveInv
  <2>3. ASSUME Alive, provider.active # NoResponse
        PROVE  /\ \A k \in 1..(n - 1) : Ev'[k].kind = "done" => Ev'[k].response < provider.active
               /\ \/ provider.active = current'.response
                  \/ \E k \in 1..(n - 1) : Ev'[k].kind = "created" /\ Ev'[k].response = provider.active
    <3>1. \A k \in 1..n : Ev[k].kind = "done" => Ev[k].response < provider.active
      BY <2>3, <1>2 DEF ActiveInv
    <3>2. \A k \in 1..(n - 1) : Ev'[k].kind = "done" => Ev'[k].response < provider.active
      BY <3>1, <1>2, <1>5
    <3>3. \/ provider.active = current.response
          \/ \E k \in 1..n : Ev[k].kind = "created" /\ Ev[k].response = provider.active
      BY <2>3, <1>2 DEF ActiveInv
    <3>4. CASE provider.active = current.response
      <4>1. e.kind = "created" => FALSE
        <5>1. provider.active = provider.created
          BY <2>3 DEF ActiveInv
        <5>2. e.kind = "created" => e.response > current.response
          BY <1>2, <1>4 DEF EventsInv
        <5> QED BY <3>4, <5>1, <5>2, <2>1, <1>3, <1>4
      <4>2. e.kind = "done" => e.response < provider.active
        BY <3>1, <1>4
      <4>3. current'.response = current.response
        BY <3>4, <4>1, <4>2, <1>3, <1>4 DEF Notes
      <4> QED BY <3>2, <3>4, <4>3
    <3>5. ASSUME NEW k \in 1..n, Ev[k].kind = "created", Ev[k].response = provider.active
          PROVE  \/ provider.active = current'.response
                 \/ \E m \in 1..(n - 1) : Ev'[m].kind = "created" /\ Ev'[m].response = provider.active
      <4>1. CASE k = 1
        BY <3>5, <4>1 DEF Notes
      <4>2. CASE k # 1
        <5>1. PICK m \in 1..(n - 1) : k = m + 1
          BY <4>2
        <5>2. Ev'[m] = Ev[k]
          BY <1>2, <5>1
        <5> QED BY <3>5, <5>1, <5>2
      <4> QED BY <4>1, <4>2
    <3> QED BY <3>2, <3>3, <3>4, <3>5
  <2>4. provider.active # NoResponse => provider.active = provider.created
    BY DEF ActiveInv
  <2> QED BY <1>2, <2>2, <2>3, <2>4 DEF ActiveInv
<1> QED BY <1>11, <1>12

\* Audio from before a SpeechStarted that is told now will be dropped.
LEMMA TakeTold ==
  ASSUME TypeInv, EventsInv, ActiveInv, ToldInv,
         Ev # << >>, Ev' = Tail(Ev), Alive' <=> Alive, provider' = provider,
         NEW e, e = Ev[1], Notes(e),
         Told' \subseteq Told \cup (IF e.kind = "speech" THEN {e.response} ELSE {})
  PROVE  ToldInv'
<1>0. Ev \in Seq(ProviderEvent)
  BY EvType
<1>1. PICK n \in Nat : n = Len(Ev) /\ n >= 1
  BY <1>0
<1>2. /\ DOMAIN Ev = 1..n /\ DOMAIN Ev' = 1..(n - 1) /\ \A i \in 1..(n - 1) : Ev'[i] = Ev[i + 1]
      /\ \A i \in 1..n : Ev[i] \in ProviderEvent
  BY <1>0, <1>1
<1>3. 1 \in 1..n /\ e.response <= provider.created /\ \A i \in 1..n : Ev[i].response \in Nat
  BY <1>1, <1>2 DEF EventsInv, ProviderEvent, Numbers
<1>4. \A q \in Told' : q <= provider.created
  BY <1>3 DEF ToldInv
<1>5. ASSUME NEW r \in Nat, r # NoResponse, r \in interrupted \/ \A q \in Told : q < r,
             e.kind = "done" => e.response < r,
             e.kind = "speech" => r = current.response \/ e.response < r
      PROVE  r \in interrupted' \/ \A q \in Told' : q < r
  <2>1. CASE e.kind = "done"
    <3>1. interrupted' = interrupted \ {e.response} /\ e.response # r /\ Told' \subseteq Told
      BY <1>5, <2>1, <1>2, <1>3 DEF Notes
    <3> QED BY <1>5, <3>1
  <2>2. CASE e.kind = "speech"
    <3>1. /\ Told' \subseteq Told \cup {e.response}
          /\ interrupted' = IF current.response = NoResponse THEN interrupted
                            ELSE interrupted \cup {current.response}
      BY <2>2 DEF Notes
    <3> QED BY <1>5, <2>2, <3>1
  <2>3. CASE e.kind \notin {"done", "speech"}
    <3>1. interrupted' = interrupted /\ Told' \subseteq Told
      BY <2>3 DEF Notes
    <3> QED BY <1>5, <3>1
  <2> QED BY <2>1, <2>2, <2>3
<1>6. ASSUME NEW i \in 1..(n - 1), Ev'[i].kind = "audio"
      PROVE  Ev'[i].response \in interrupted' \/ \A q \in Told' : q < Ev'[i].response
  <2>1. PICK a \in 1..n : a = i + 1 /\ 1 < a /\ Ev'[i] = Ev[a]
    BY <1>2
  <2>2. Ev[a].response \in Responses
    BY <1>2, <1>6, <2>1 DEF EventsInv
  <2>3. Ev[a].response \in Nat /\ Ev[a].response # NoResponse
    BY <2>2 DEF Responses, NoResponse
  <2>4. Ev[a].response \in interrupted \/ \A q \in Told : q < Ev[a].response
    BY <1>2, <1>6, <2>1 DEF ToldInv
  <2>5. e.kind = "done" => e.response < Ev[a].response
    BY <1>2, <1>3, <1>6, <2>1 DEF EventsInv
  <2>6. e.kind = "speech" => Ev[a].response = current.response \/ e.response < Ev[a].response
    <3>1. \/ Ev[a].response = current.response
          \/ \E k \in DOMAIN Ev : k < a /\ Ev[k].kind = "created" /\ Ev[k].response = Ev[a].response
      BY <1>2, <1>6, <2>1 DEF EventsInv
    <3>2. ASSUME NEW k \in DOMAIN Ev, e.kind = "speech", Ev[k].kind = "created", Ev[k].response = Ev[a].response
          PROVE  e.response < Ev[a].response
      <4>1. k # 1 /\ 1 < k
        BY <3>2, <1>2
      <4> QED BY <3>2, <4>1, <1>2, <1>3 DEF EventsInv
    <3> QED BY <3>1, <3>2
  <2> QED BY <2>1, <2>3, <2>4, <2>5, <2>6, <1>5
<1>7. ASSUME Alive, provider.active # NoResponse
      PROVE  provider.active \in interrupted' \/ \A q \in Told' : q < provider.active
  <2>1. provider.active \in Nat
    BY DEF TypeInv, Numbers
  <2>2. provider.active \in interrupted \/ \A q \in Told : q < provider.active
    BY <1>7 DEF ToldInv
  <2>3. e.kind = "done" => e.response < provider.active
    BY <1>7, <1>2, <1>3 DEF ActiveInv
  <2>4. e.kind = "speech" => provider.active = current.response \/ e.response < provider.active
    <3>1. \/ provider.active = current.response
          \/ \E k \in DOMAIN Ev : Ev[k].kind = "created" /\ Ev[k].response = provider.active
      BY <1>7 DEF ActiveInv
    <3>2. ASSUME NEW k \in DOMAIN Ev, e.kind = "speech", Ev[k].kind = "created", Ev[k].response = provider.active
          PROVE  e.response < provider.active
      <4>1. k # 1 /\ 1 < k
        BY <3>2, <1>2
      <4> QED BY <3>2, <4>1, <1>2, <1>3 DEF EventsInv
    <3> QED BY <3>1, <3>2
  <2> QED BY <1>7, <2>1, <2>2, <2>3, <2>4, <1>5
<1>8. \A i \in DOMAIN Ev' : Ev'[i].kind = "audio"
        => Ev'[i].response \in interrupted' \/ \A q \in Told' : q < Ev'[i].response
  <2>1. DOMAIN Ev' = 1..(n - 1)
    BY <1>2
  <2>2. SUFFICES ASSUME NEW i \in DOMAIN Ev', Ev'[i].kind = "audio"
                 PROVE  Ev'[i].response \in interrupted' \/ \A q \in Told' : q < Ev'[i].response
    OBVIOUS
  <2>3. i \in 1..(n - 1)
    BY <2>1, <2>2
  <2> QED BY <2>2, <2>3, <1>6
<1> QED BY <1>4, <1>7, <1>8 DEF ToldInv

\* The item that an interruption is about: if audio of it is still to come, it
\* is that of the response which the interruption marks.
LEMMA Marked ==
  ASSUME TypeInv, EventsInv, ActiveInv
  PROVE  /\ current.item <= provider.created
         /\ \A i \in DOMAIN Ev : Ev[i].kind = "audio" /\ Ev[i].response = current.item
              => current.item = current.response
         /\ Alive /\ provider.active # NoResponse /\ provider.active = current.item
              => current.item = current.response
<1>1. current.item \in Nat
  BY DEF TypeInv, Numbers
<1>2. \A k \in DOMAIN Ev : Ev[k].kind = "created" => Ev[k].response # current.item
  <2>1. \A k \in DOMAIN Ev : Ev[k].kind = "created" => Ev[k].response > current.item
    BY DEF EventsInv
  <2> QED BY <1>1, <2>1
<1>3. current.item <= provider.created
  BY DEF ActiveInv
<1>4. \A i \in DOMAIN Ev : Ev[i].kind = "audio" /\ Ev[i].response = current.item
              => current.item = current.response
  BY <1>2 DEF EventsInv
<1>5. Alive /\ provider.active # NoResponse /\ provider.active = current.item
              => current.item = current.response
  BY <1>2 DEF ActiveInv
<1> QED BY <1>3, <1>4, <1>5

\* The interruptions go on, or one starts with this event.
LEMMA TakeCut ==
  ASSUME TypeInv, EventsInv, ActiveInv, CutInv,
         Ev # << >>, Ev' = Tail(Ev), Alive' <=> Alive, provider' = provider,
         NEW e, e = Ev[1], Notes(e),
         \A w \in Interrupters : Cutting(w)' =>
           \/ Cutting(w) /\ cut'[w].item = cut[w].item
           \/ e.kind = "speech" /\ cut'[w].item = current.item /\ current.item # NoResponse
  PROVE  CutInv'
<1>0. Ev \in Seq(ProviderEvent)
  BY EvType
<1>1. PICK n \in Nat : n = Len(Ev) /\ n >= 1
  BY <1>0
<1>2. /\ DOMAIN Ev = 1..n /\ DOMAIN Ev' = 1..(n - 1) /\ \A i \in 1..(n - 1) : Ev'[i] = Ev[i + 1]
      /\ \A i \in 1..n : Ev[i] \in ProviderEvent
  BY <1>0, <1>1
<1>3. 1 \in 1..n /\ e.response \in Nat
  BY <1>1, <1>2 DEF ProviderEvent, Numbers
<1> SUFFICES ASSUME NEW w \in Interrupters, Cutting(w)'
             PROVE  /\ cut'[w].item <= provider.created
                    /\ \A i \in DOMAIN Ev' : Ev'[i].kind = "audio" /\ Ev'[i].response = cut'[w].item
                         => cut'[w].item \in interrupted'
                    /\ Alive /\ provider.active = cut'[w].item => cut'[w].item \in interrupted'
  BY DEF CutInv
<1>4. PICK r : r = cut'[w].item
  OBVIOUS
<1>5. \A i \in 1..(n - 1) : \E a \in 1..n : 1 < a /\ Ev'[i] = Ev[a]
  <2> SUFFICES ASSUME NEW i \in 1..(n - 1) PROVE \E a \in 1..n : 1 < a /\ Ev'[i] = Ev[a]
    OBVIOUS
  <2>1. i + 1 \in 1..n /\ 1 < i + 1 /\ Ev'[i] = Ev[i + 1]
    BY <1>2
  <2> QED BY <2>1
<1>6. \A i \in DOMAIN Ev' : \E a \in DOMAIN Ev : 1 < a /\ Ev'[i] = Ev[a]
  <2>1. DOMAIN Ev' = 1..(n - 1) /\ DOMAIN Ev = 1..n
    BY <1>2
  <2>2. SUFFICES ASSUME NEW i \in DOMAIN Ev' PROVE \E a \in DOMAIN Ev : 1 < a /\ Ev'[i] = Ev[a]
    OBVIOUS
  <2>3. i \in 1..(n - 1)
    BY <2>1
  <2>4. PICK a \in 1..n : 1 < a /\ Ev'[i] = Ev[a]
    BY <2>3, <1>5
  <2> QED BY <2>1, <2>4
<1>7. CASE Cutting(w) /\ r = cut[w].item
  <2>1. /\ r <= provider.created /\ r # NoResponse
        /\ \A i \in DOMAIN Ev : Ev[i].kind = "audio" /\ Ev[i].response = r => r \in interrupted
        /\ Alive /\ provider.active = r => r \in interrupted
    BY <1>7 DEF CutInv, Cutting
  <2>2. \A a \in DOMAIN Ev : 1 < a /\ Ev[a].kind = "audio" /\ Ev[a].response = r => r \in interrupted'
    <3> SUFFICES ASSUME NEW a \in DOMAIN Ev, 1 < a, Ev[a].kind = "audio", Ev[a].response = r
                 PROVE  r \in interrupted'
      OBVIOUS
    <3>1. e.kind = "done" => e.response < r
      BY <1>2, <1>3 DEF EventsInv
    <3>2. r \in Nat
      BY <1>2 DEF ProviderEvent, Numbers
    <3>3. e.kind = "done" => e.response # r
      BY <3>1, <3>2, <1>3
    <3> QED BY <2>1, <3>3 DEF Notes
  <2>3. Alive /\ provider.active = r => r \in interrupted'
    <3> SUFFICES ASSUME Alive, provider.active = r PROVE r \in interrupted'
      OBVIOUS
    <3>1. e.kind = "done" => e.response < r
      BY <1>2, <1>3, <2>1 DEF ActiveInv
    <3>2. r \in Nat
      BY DEF TypeInv, Numbers
    <3>3. e.kind = "done" => e.response # r
      BY <3>1, <3>2, <1>3
    <3> QED BY <2>1, <3>3 DEF Notes
  <2> QED BY <1>4, <1>6, <2>1, <2>2, <2>3
<1>8. CASE e.kind = "speech" /\ r = current.item /\ current.item # NoResponse
  <2>1. interrupted' = (IF current.response = NoResponse THEN interrupted
                        ELSE interrupted \cup {current.response})
    BY <1>8 DEF Notes
  <2>2. r = current.response => r \in interrupted'
    BY <1>8, <2>1
  <2> QED BY <1>4, <1>6, <1>8, <2>2, Marked
<1> QED BY <1>4, <1>7, <1>8

\* The events of the provider.
LEMMA ProviderKeeps ==
  ASSUME AudioInv, Creates \/ Speaks \/ Ends \/ HearsUser
  PROVE  AudioInv'
<1>0. TypeInv /\ ActiveInv
  BY DEF AudioInv
<1>1. /\ provider.active \in Numbers /\ provider.created \in Numbers /\ MaxResponses \in Nat
      /\ provider \in [active : Numbers, created : Numbers]
      /\ 0 \in Numbers
  BY <1>0, AudioAssumption DEF TypeInv, Numbers
<1>2. /\ provider.active \in Nat /\ provider.created \in Nat
      /\ provider.active <= provider.created
  BY <1>0, <1>1 DEF ActiveInv, Numbers, NoResponse
<1>3. CASE Creates
  <2>1. PICK r : r = provider.created + 1
    OBVIOUS
  <2>2. r \in Numbers
    BY <1>1, <1>2, <1>3, <2>1 DEF Creates, Numbers
  <2>3. provider' = [active |-> r, created |-> r]
    BY <1>3, <2>1 DEF Creates
  <2>4. Emit(Event("created", r))
    BY <1>3, <2>3 DEF Creates
  <2>5. PICK e : e = Event("created", r)
    OBVIOUS
  <2>6. e \in ProviderEvent /\ e.kind = "created" /\ e.response = r /\ Emit(e)
    BY <2>2, <2>4, <2>5 DEF Event, ProviderEvent
  <2>7. provider' \in [active : Numbers, created : Numbers] /\ e.response <= provider'.created
    BY <2>2, <2>3, <2>6 DEF Numbers
  <2>8. provider.active = NoResponse
    BY <1>3 DEF Creates
  <2> QED BY <2>1, <2>3, <2>6, <2>7, <2>8, EmitKeeps
<1>4. CASE Speaks
  <2>1. PICK e : e = Event("audio", provider.active)
    OBVIOUS
  <2>2. e \in ProviderEvent /\ e.kind = "audio" /\ e.response = provider.active /\ Emit(e)
    BY <1>1, <1>4, <2>1 DEF Event, ProviderEvent, Speaks
  <2>3. provider' = provider /\ provider.active # NoResponse
    BY <1>4 DEF Speaks
  <2> QED BY <1>1, <1>2, <2>2, <2>3, EmitKeeps
<1>5. CASE Ends
  <2>1. PICK e : e = Event("done", provider.active)
    OBVIOUS
  <2>2. e \in ProviderEvent /\ e.kind = "done" /\ e.response = provider.active /\ Emit(e)
    BY <1>1, <1>5, <2>1 DEF Event, ProviderEvent, Ends
  <2>3. provider' = [provider EXCEPT !.active = NoResponse]
    BY <1>5 DEF Ends
  <2>4. /\ provider' \in [active : Numbers, created : Numbers]
        /\ provider'.active = NoResponse /\ provider'.created = provider.created
    BY <1>1, <2>3 DEF NoResponse
  <2> QED BY <1>2, <2>2, <2>4, EmitKeeps
<1>6. CASE HearsUser
  <2>1. PICK e : e = Event("speech", provider.created)
    OBVIOUS
  <2>2. e \in ProviderEvent /\ e.kind = "speech" /\ e.response = provider.created /\ Emit(e)
    BY <1>1, <1>6, <2>1 DEF Event, ProviderEvent, HearsUser
  <2>3. provider' = provider /\ e.response <= provider'.created
    BY <1>2, <1>6, <2>2 DEF HearsUser
  <2> QED BY <1>1, <2>2, <2>3, EmitKeeps
<1> QED BY <1>3, <1>4, <1>5, <1>6

\* run from place to place, the end of the context, and the waits of the loops.
LEMMA QuietKeeps ==
  ASSUME AudioInv,
         \/ StartFails \/ Acquire \/ ConnectFails \/ ReadyFails \/ Wait \/ Final \/ Shutdown \/ Breaks
         \/ EventsEnd \/ Stops("provider") \/ Stops("writer") \/ Woken \/ ReaderEnds
  PROVE  AudioInv'
<1>1. CASE StartFails \/ Acquire \/ ConnectFails \/ ReadyFails \/ Wait \/ Final \/ Shutdown \/ Breaks
  <2>1. UNCHANGED <<loop, conn, out, delivered, current, interrupted, passing, writing, cut,
                    provider, heard, quiet>>
    BY <1>1 DEF StartFails, Acquire, ConnectFails, ReadyFails, Wait, Final, Shutdown, Breaks, pipeline, world
  <2>2. main' \in {"final", "close", "over", main} \/ (main = "start" /\ main' = "connect")
    BY <1>1 DEF StartFails, Acquire, ConnectFails, ReadyFails, Wait, Final, Shutdown, Breaks
  <2> QED BY <2>1, <2>2, OuterKeeps
<1>2. CASE EventsEnd \/ Stops("provider") \/ Stops("writer") \/ ReaderEnds
  <2>1. PICK l \in {"provider", "writer", "reader"} :
           loop' = [loop EXCEPT ![l] = "stopped"] /\ loop[l] \in {"select", "wait"}
    BY <1>2 DEF EventsEnd, Stops, ReaderEnds, Go, At
  <2>2. UNCHANGED <<main, conn, out, delivered, current, interrupted, passing, writing, cut, provider, heard, quiet>>
    BY <1>2 DEF EventsEnd, Stops, ReaderEnds, pipeline, world
  <2> QED BY <2>1, <2>2, LoopKeeps
<1>3. CASE Woken
  <2>1. /\ loop' = [loop EXCEPT !["writer"] = "pop"] /\ loop["writer"] = "wait"
        /\ UNCHANGED <<main, conn, out, delivered, current, interrupted, passing, writing, cut, provider, heard, quiet>>
    BY <1>3 DEF Woken, Go, At, world
  <2>2. main \notin {"start", "connect", "ready"}
    BY <2>1 DEF AudioInv, MainInv, At
  <2> QED BY <2>1, <2>2, LoopKeeps
<1> QED BY <1>1, <1>2, <1>3

\* The connection ends, its events stay where they are.
LEMMA CloseKeeps ==
  ASSUME AudioInv, Close
  PROVE  AudioInv'
<1>0. TypeInv /\ MainInv /\ HandsInv /\ EventsInv /\ ActiveInv /\ ToldInv /\ QueueInv /\ CutInv /\ HeardInv
  BY DEF AudioInv
<1>1. /\ main' = "final" /\ conn' = [conn EXCEPT !.open = FALSE]
      /\ UNCHANGED <<loop, out, delivered, current, interrupted, passing, writing, cut, provider, heard, quiet>>
  BY DEF Close, pipeline, world
<1>2. /\ conn' \in [open : BOOLEAN, events : Seq(ProviderEvent), held : ProviderEvent]
      /\ conn'.events = conn.events /\ conn'.held = conn.held
  BY <1>0, <1>1 DEF TypeInv
<1>3. Ev' = Ev /\ (Alive' <=> Alive)
  BY <1>1, <1>2 DEF Ev, Alive, At
<1>4. TypeInv' /\ MainInv'
  BY <1>0, <1>1, <1>2 DEF TypeInv, MainInv
<1>5. HandsInv' /\ QueueInv' /\ Told' = Told
  BY <1>0, <1>1, QueueFrame
<1>6. EventsInv' /\ ActiveInv'
  BY <1>0, <1>1, <1>3, EventFrame
<1>7. ToldInv'
  BY <1>0, <1>1, <1>3, <1>5, ToldFrame
<1>8. CutInv' /\ HeardInv'
  BY <1>0, <1>1, <1>3 DEF CutInv, HeardInv, Cutting, Sure, AudioOf
<1> QED BY <1>4, <1>5, <1>6, <1>7, <1>8 DEF AudioInv

-----------------------------------------------------------------------------
(* handleEvent.                                                              *)

\* providerLoop takes an event, notes what it says, and has perhaps a message
\* in its hands then.
LEMMA TakeKeeps ==
  ASSUME AudioInv, NEW kind, Takes(kind), NEW pc \in {"select", "drop", "push"},
         loop' = [loop EXCEPT !["provider"] = pc],
         UNCHANGED <<main, out, delivered, writing, provider, heard, quiet>>,
         current' \in [response : Numbers, item : Numbers], interrupted' \in SUBSET Numbers,
         cut' \in [Interrupters -> [item : Numbers, dropped : Nat, told : Nat]],
         passing' \in Message,
         NEW e, e = Head(conn.events), Notes(e),
         passing' # Nothing => pc \in {"drop", "push"},
         passing'.kind = "speech" <=> pc = "drop",
         pc = "drop" => kind = "speech" /\ passing'.response = e.response /\ cut'["provider"].item = current.item,
         IsAudio(passing') => kind = "audio" /\ passing'.response = e.response /\ e.response \notin interrupted,
         cut'["reader"] = cut["reader"]
  PROVE  AudioInv'
<1>0. TypeInv /\ MainInv /\ HandsInv /\ EventsInv /\ ActiveInv /\ ToldInv /\ QueueInv /\ CutInv /\ HeardInv
  BY DEF AudioInv
<1>1. /\ loop' \in [Goroutines -> Places] /\ loop'["provider"] = pc
      /\ loop'["writer"] = loop["writer"] /\ loop'["reader"] = loop["reader"] /\ loop'["readLoop"] = loop["readLoop"]
  BY <1>0, Names DEF TypeInv, Places
<1>2. /\ Ev \in Seq(ProviderEvent) /\ Ev # << >> /\ Ev' = Tail(Ev) /\ (Alive' <=> Alive)
      /\ Ev[1] = e /\ e.kind = kind
      /\ conn' \in [open : BOOLEAN, events : Seq(ProviderEvent), held : ProviderEvent]
  BY <1>0, <1>1, TakesEffect
<1>3. loop["provider"] = "select" /\ passing = Nothing
  BY <1>0 DEF Takes, At, HandsInv
<1>4. TypeInv'
  BY <1>0, <1>1, <1>2 DEF TypeInv
<1>5. MainInv'
  <2>1. main \notin {"start", "connect", "ready"}
    BY <1>0, <1>3 DEF MainInv, At
  <2> QED BY <2>1 DEF MainInv
<1>6. EventsInv' /\ ActiveInv'
  BY <1>0, <1>2, TakeEvents
<1>7. /\ Told' \subseteq Told \cup (IF e.kind = "speech" THEN {e.response} ELSE {})
      /\ passing'.kind # "speech" => Told' \subseteq Told
  <2>1. {quiet} \cup {out[i].response : i \in {k \in DOMAIN out : out[k].kind = "speech"}}
          \cup (IF writing.kind = "speech" THEN {writing.response} ELSE {}) \subseteq Told
    BY DEF Told
  <2>2. (IF passing'.kind = "speech" THEN {passing'.response} ELSE {})
          \subseteq (IF e.kind = "speech" THEN {e.response} ELSE {})
    BY <1>2
  <2>3. Told' = {quiet} \cup {out[i].response : i \in {k \in DOMAIN out : out[k].kind = "speech"}}
          \cup (IF writing.kind = "speech" THEN {writing.response} ELSE {})
          \cup (IF passing'.kind = "speech" THEN {passing'.response} ELSE {})
    BY DEF Told
  <2> QED BY <2>1, <2>2, <2>3
<1>8. ToldInv'
  BY <1>0, <1>2, <1>7, TakeTold
<1>9. CutInv'
  <2>1. \A w \in Interrupters : Cutting(w)' =>
           \/ Cutting(w) /\ cut'[w].item = cut[w].item
           \/ e.kind = "speech" /\ cut'[w].item = current.item /\ current.item # NoResponse
    <3>1. Cutting("reader")' => Cutting("reader") /\ cut'["reader"].item = cut["reader"].item
      BY <1>1 DEF Cutting
    <3>2. Cutting("provider")' => e.kind = "speech" /\ cut'["provider"].item = current.item /\ current.item # NoResponse
      BY <1>1, <1>2 DEF Cutting
    <3> QED BY <3>1, <3>2, Names
  <2> QED BY <1>0, <1>2, <2>1, TakeCut
<1>10. 1 \in DOMAIN Ev
  BY <1>2
<1>11. IsAudio(passing') => passing'.response \in Responses /\ \A q \in Told' : q < passing'.response
  <2> SUFFICES ASSUME IsAudio(passing')
               PROVE  passing'.response \in Responses /\ \A q \in Told' : q < passing'.response
    OBVIOUS
  <2>1. Ev[1].kind = "audio" /\ passing'.response = Ev[1].response /\ Ev[1].response \notin interrupted
        /\ passing'.kind = "audio"
    BY <1>2 DEF IsAudio
  <2>2. Ev[1].response \in Responses
    BY <1>0, <1>10, <2>1 DEF EventsInv
  <2>3. \A q \in Told : q < Ev[1].response
    BY <1>0, <1>10, <2>1 DEF ToldInv
  <2> QED BY <1>7, <2>1, <2>2, <2>3
<1>12. HandsInv'
  BY <1>0, <1>1, <1>11 DEF HandsInv
<1>13. QueueInv'
  BY <1>0, <1>1, <1>11 DEF QueueInv
<1>14. HeardInv'
  <2>1. \A r : Sure(r)' = Sure(r)
    BY <1>1 DEF Sure
  <2>2. \A r, i : AudioOf(r, i)' = AudioOf(r, i)
    BY DEF AudioOf
  <2>3. \A w \in Interrupters : Cutting(w)' /\ loop'[w] = "truncate"
          => w = "reader" /\ Cutting(w) /\ loop[w] = "truncate" /\ cut'[w] = cut[w]
    BY <1>1, Names DEF Cutting
  <2>4. Cutting("reader") /\ IsAudio(passing') => passing'.response # cut["reader"].item
    <3> SUFFICES ASSUME Cutting("reader"), IsAudio(passing'), passing'.response = cut["reader"].item
                 PROVE  FALSE
      OBVIOUS
    <3>1. Ev[1].kind = "audio" /\ cut["reader"].item = Ev[1].response /\ Ev[1].response \notin interrupted
      BY <1>2
    <3> QED BY <1>0, <1>10, <3>1, Names DEF CutInv
  <2>5. \A r \in Responses : heard'[r] = delivered'[r] +
          (IF loop'["writer"] = "mark" /\ writing'.response = r THEN 1 ELSE 0)
    BY <1>0, <1>1 DEF HeardInv
  <2> QED BY <1>0, <2>1, <2>2, <2>3, <2>4, <2>5 DEF HeardInv
<1> QED BY <1>4, <1>5, <1>6, <1>8, <1>9, <1>12, <1>13, <1>14 DEF AudioInv

\* handleEvent, event by event.
LEMMA HandleKeeps ==
  ASSUME AudioInv, AudioDelta \/ SpeechStarted \/ ResponseCreated \/ ResponseDone
  PROVE  AudioInv'
<1>0. TypeInv /\ HandsInv /\ EventsInv
  BY DEF AudioInv
<1>1. PICK e : e = Head(conn.events)
  OBVIOUS
<1>2. PICK kind \in {"audio", "speech", "created", "done"} : Takes(kind)
  BY DEF AudioDelta, SpeechStarted, ResponseCreated, ResponseDone
<1>3. /\ loop["provider"] = "select" /\ passing = Nothing
      /\ conn.events # << >> /\ conn.events \in Seq(ProviderEvent) /\ conn.held \in ProviderEvent
  BY <1>0, <1>2 DEF Takes, At, HandsInv, TypeInv
<1>4. e \in ProviderEvent /\ e.kind = kind /\ e.response \in Numbers
  <2>1. Head(conn.events) \in ProviderEvent
    BY <1>3
  <2>2. Head(conn.events).kind = kind
    BY <1>2 DEF Takes
  <2>3. e \in ProviderEvent => e.response \in Numbers
    BY DEF ProviderEvent
  <2> QED BY <1>1, <2>1, <2>2, <2>3
<1>5. Nothing \in Message /\ NoResponse \in Numbers /\ Text \in Message /\ Nothing.kind = "none" /\ Text.kind = "text"
  BY AudioAssumption DEF Nothing, Text, Message, Numbers, NoResponse
<1>6. loop = [loop EXCEPT !["provider"] = "select"]
  BY <1>0, <1>3, Names DEF TypeInv
<1>7. /\ current \in [response : Numbers, item : Numbers] /\ interrupted \in SUBSET Numbers
      /\ cut \in [Interrupters -> [item : Numbers, dropped : Nat, told : Nat]]
      /\ current.response \in Numbers /\ current.item \in Numbers
  BY <1>0 DEF TypeInv
<1>8. CASE AudioDelta
  <2>1. kind = "audio"
    BY <1>1, <1>4, <1>8 DEF AudioDelta, Takes
  <2>2. UNCHANGED <<main, out, delivered, interrupted, writing, cut, provider, heard, quiet>>
    BY <1>8 DEF AudioDelta, world
  <2>3. e.response = current.response /\ e.response # NoResponse
    <3>1. Ev[1] = e /\ Ev \in Seq(ProviderEvent) /\ Ev # << >>
      BY <1>0, <1>1, <1>3 DEF Ev
    <3>2. 1 \in DOMAIN Ev /\ ~\E k \in DOMAIN Ev : k < 1
      BY <3>1
    <3>3. e.response = current.response /\ e.response \in Responses
      BY <1>0, <1>4, <2>1, <3>1, <3>2 DEF EventsInv
    <3> QED BY <3>3 DEF Responses, NoResponse
  <2>4. CASE e.response \in interrupted
    <3>1. UNCHANGED <<loop, current, passing>>
      BY <1>1, <1>8, <2>4 DEF AudioDelta
    <3>2. Notes(e)
      BY <1>4, <2>1, <2>2, <3>1 DEF Notes
    <3> QED BY <1>1, <1>2, <1>3, <1>5, <1>6, <1>7, <2>2, <3>1, <3>2, TakeKeeps DEF IsAudio
  <2>5. CASE e.response \notin interrupted
    <3>1. /\ current' = [item |-> e.response, response |-> current.response]
          /\ passing' = Audio(e.response) /\ loop' = [loop EXCEPT !["provider"] = "push"]
      BY <1>1, <1>8, <2>3, <2>5 DEF AudioDelta, Go
    <3>2. /\ passing' \in Message /\ passing'.kind = "audio" /\ passing'.response = e.response
          /\ current' \in [response : Numbers, item : Numbers]
      BY <1>4, <1>7, <3>1 DEF Audio, Message
    <3>3. Notes(e)
      BY <1>4, <2>1, <2>2, <3>1 DEF Notes
    <3> QED BY <1>1, <1>2, <1>7, <2>1, <2>2, <2>5, <3>1, <3>2, <3>3, TakeKeeps
  <2> QED BY <2>4, <2>5
<1>9. CASE SpeechStarted
  <2>1. kind = "speech"
    BY <1>1, <1>4, <1>9 DEF SpeechStarted, Takes
  <2>2. /\ UNCHANGED <<main, out, delivered, current, writing, provider, heard, quiet>>
        /\ loop' = [loop EXCEPT !["provider"] = "drop"]
        /\ passing' = Speech(e.response)
        /\ interrupted' = IF current.response = NoResponse THEN interrupted
                          ELSE interrupted \cup {current.response}
        /\ cut' = [cut EXCEPT !["provider"] = [NoCut EXCEPT !.item = current.item]]
    BY <1>1, <1>9 DEF SpeechStarted, world, Mark, Go
  <2>3. PICK c : c = [NoCut EXCEPT !.item = current.item]
    OBVIOUS
  <2>4. c \in [item : Numbers, dropped : Nat, told : Nat] /\ c.item = current.item
    BY <1>7, <2>3 DEF NoCut
  <2>5. /\ cut' \in [Interrupters -> [item : Numbers, dropped : Nat, told : Nat]]
        /\ cut'["provider"].item = current.item /\ cut'["reader"] = cut["reader"]
    BY <1>7, <2>2, <2>3, <2>4, Names
  <2>6. passing' \in Message /\ passing'.kind = "speech" /\ passing'.response = e.response
    BY <1>4, <2>2 DEF Speech, Message
  <2>7. interrupted' \in SUBSET Numbers
    BY <1>7, <2>2
  <2>8. Notes(e)
    BY <1>4, <2>1, <2>2 DEF Notes
  <2> QED BY <1>1, <1>2, <1>7, <2>1, <2>2, <2>5, <2>6, <2>7, <2>8, TakeKeeps DEF IsAudio
<1>10. CASE ResponseCreated
  <2>1. kind = "created"
    BY <1>1, <1>4, <1>10 DEF ResponseCreated, Takes
  <2>2. /\ UNCHANGED <<main, loop, out, delivered, interrupted, passing, writing, cut, provider, heard, quiet>>
        /\ current' = [current EXCEPT !.response = e.response]
    BY <1>1, <1>10 DEF ResponseCreated, world
  <2>3. /\ current' \in [response : Numbers, item : Numbers]
        /\ current'.response = e.response /\ current'.item = current.item
    BY <1>4, <1>7, <2>2
  <2>4. Notes(e)
    BY <1>4, <2>1, <2>2, <2>3 DEF Notes
  <2> QED BY <1>1, <1>2, <1>3, <1>5, <1>6, <1>7, <2>2, <2>3, <2>4, TakeKeeps DEF IsAudio
<1>11. CASE ResponseDone
  <2>1. kind = "done"
    BY <1>1, <1>4, <1>11 DEF ResponseDone, Takes
  <2>2. /\ UNCHANGED <<main, out, delivered, writing, cut, provider, heard, quiet>>
        /\ loop' = [loop EXCEPT !["provider"] = "push"]
        /\ passing' = Text
        /\ interrupted' = interrupted \ {e.response}
    BY <1>1, <1>11 DEF ResponseDone, world, Go
  <2>3. PICK r : r = IF current.response = e.response THEN NoResponse ELSE current.response
    OBVIOUS
  <2>4. current' = [current EXCEPT !.response = r]
    BY <1>1, <1>11, <2>3 DEF ResponseDone
  <2>5. /\ current' \in [response : Numbers, item : Numbers]
        /\ current'.response = r /\ current'.item = current.item
    BY <1>5, <1>7, <2>3, <2>4
  <2>6. Notes(e)
    BY <1>4, <2>1, <2>2, <2>3, <2>5 DEF Notes
  <2> QED BY <1>1, <1>2, <1>5, <1>7, <2>2, <2>5, <2>6, TakeKeeps DEF IsAudio
<1> QED BY <1>8, <1>9, <1>10, <1>11

-----------------------------------------------------------------------------
(* interrupt and the outbox.                                                 *)

\* A step of the pipeline that has no part in the events and the marks.
LEMMA PipelineFrame ==
  ASSUME AudioInv, NEW l \in {"provider", "writer", "reader"}, NEW pc \in Places, Go(l, pc), ~At(l, "stopped"),
         UNCHANGED <<main, conn, current, interrupted, provider>>
  PROVE  /\ TypeInv /\ HandsInv /\ ToldInv /\ QueueInv /\ CutInv /\ HeardInv
         /\ loop' \in [Goroutines -> Places] /\ loop'[l] = pc
         /\ \A k \in {"provider", "writer", "reader"} \ {l} : loop'[k] = loop[k]
         /\ MainInv' /\ EventsInv' /\ ActiveInv'
         /\ Ev' = Ev /\ (Alive' <=> Alive)
<1>0. TypeInv /\ MainInv /\ HandsInv /\ EventsInv /\ ActiveInv /\ ToldInv /\ QueueInv /\ CutInv /\ HeardInv
  BY DEF AudioInv
<1>1. /\ loop' \in [Goroutines -> Places] /\ loop'[l] = pc
      /\ \A k \in Goroutines \ {l} : loop'[k] = loop[k]
  BY <1>0, GoEffect, Names
<1>2. loop'["readLoop"] = loop["readLoop"] /\ \A k \in {"provider", "writer", "reader"} \ {l} : loop'[k] = loop[k]
  BY <1>1, Names
<1>3. Ev' = Ev /\ (Alive' <=> Alive)
  BY <1>2, EvSame
<1>4. MainInv'
  BY <1>0 DEF MainInv
<1>5. EventsInv' /\ ActiveInv'
  BY <1>0, <1>3, EventFrame
<1> QED BY <1>0, <1>1, <1>2, <1>3, <1>4, <1>5

\* The client taps.
LEMMA TapKeeps ==
  ASSUME AudioInv, Tap
  PROVE  AudioInv'
<1>1. /\ loop["reader"] = "select" /\ Go("reader", "drop")
      /\ UNCHANGED <<main, conn, out, delivered, current, passing, writing, provider, heard, quiet>>
      /\ interrupted' = IF current.response = NoResponse THEN interrupted
                        ELSE interrupted \cup {current.response}
      /\ cut' = [cut EXCEPT !["reader"] = [NoCut EXCEPT !.item = current.item]]
  BY DEF Tap, At, Mark
<1>2. /\ TypeInv /\ MainInv /\ HandsInv /\ EventsInv /\ ActiveInv /\ ToldInv /\ QueueInv /\ CutInv /\ HeardInv
  BY DEF AudioInv
<1>3. /\ loop' \in [Goroutines -> Places] /\ loop'["reader"] = "drop"
      /\ loop'["provider"] = loop["provider"] /\ loop'["writer"] = loop["writer"]
      /\ loop'["readLoop"] = loop["readLoop"]
  BY <1>1, <1>2, GoEffect, Names DEF Places
<1>4. Ev' = Ev /\ (Alive' <=> Alive)
  BY <1>1, <1>3, EvSame
<1>5. MainInv'
  BY <1>1, <1>2 DEF MainInv, At
<1>6. EventsInv' /\ ActiveInv'
  BY <1>1, <1>2, <1>4, EventFrame
<1>7. PICK c : c = [NoCut EXCEPT !.item = current.item]
  OBVIOUS
<1>8. /\ cut \in [Interrupters -> [item : Numbers, dropped : Nat, told : Nat]]
      /\ current.item \in Numbers /\ current.response \in Numbers
  BY <1>2 DEF TypeInv
<1>9. c \in [item : Numbers, dropped : Nat, told : Nat] /\ c.item = current.item
  BY <1>7, <1>8 DEF NoCut
<1>10. /\ cut' \in [Interrupters -> [item : Numbers, dropped : Nat, told : Nat]]
       /\ cut'["reader"].item = current.item /\ cut'["provider"] = cut["provider"]
  BY <1>1, <1>7, <1>8, <1>9, Names
<1>11. interrupted' \in SUBSET Numbers /\ interrupted \subseteq interrupted'
  BY <1>1, <1>2, <1>8 DEF TypeInv
<1>12. TypeInv'
  BY <1>1, <1>2, <1>3, <1>10, <1>11 DEF TypeInv
<1>13. HandsInv' /\ QueueInv' /\ Told' = Told
  BY <1>1, <1>2, <1>3, QueueFrame
<1>14. ToldInv'
  BY <1>1, <1>2, <1>4, <1>11, <1>13, ToldFrame
<1>15. CutInv'
  <2>1. ASSUME Cutting("provider")'
        PROVE  /\ cut'["provider"].item <= provider'.created
               /\ \A i \in DOMAIN Ev' : Ev'[i].kind = "audio" /\ Ev'[i].response = cut'["provider"].item
                    => cut'["provider"].item \in interrupted'
               /\ Alive' /\ provider'.active = cut'["provider"].item => cut'["provider"].item \in interrupted'
    <3>1. Cutting("provider")
      BY <2>1, <1>3, <1>10 DEF Cutting
    <3> QED BY <3>1, <1>1, <1>2, <1>4, <1>10, <1>11, Names DEF CutInv
  <2>2. ASSUME Cutting("reader")'
        PROVE  /\ cut'["reader"].item <= provider'.created
               /\ \A i \in DOMAIN Ev' : Ev'[i].kind = "audio" /\ Ev'[i].response = cut'["reader"].item
                    => cut'["reader"].item \in interrupted'
               /\ Alive' /\ provider'.active = cut'["reader"].item => cut'["reader"].item \in interrupted'
    <3>1. current.item # NoResponse
      BY <2>2, <1>10 DEF Cutting
    <3>2. current.item = current.response => current.item \in interrupted'
      BY <3>1, <1>1
    <3> QED BY <3>1, <3>2, <1>1, <1>2, <1>4, <1>10, Marked
  <2> QED BY <2>1, <2>2, Names DEF CutInv
<1>16. HeardInv'
  <2>1. \A w \in Interrupters : Cutting(w)' /\ loop'[w] = "truncate"
          => Cutting(w) /\ loop[w] = "truncate" /\ cut'[w] = cut[w]
    BY <1>3, <1>10, Names DEF Cutting
  <2> QED BY <1>1, <1>2, <1>3, <2>1, HeardFrame
<1> QED BY <1>5, <1>6, <1>12, <1>13, <1>14, <1>15, <1>16 DEF AudioInv

\* The interruption ends.
LEMMA TruncateKeeps ==
  ASSUME AudioInv, NEW w \in Interrupters, Truncate(w)
  PROVE  AudioInv'
<1>1. PICK pc \in {"select", "push"} : Go(w, pc) /\ (w = "provider" => pc = "push")
  BY Names DEF Truncate
<1>2. /\ loop[w] = "truncate" /\ cut' = [cut EXCEPT ![w] = NoCut]
      /\ UNCHANGED <<main, conn, out, delivered, current, interrupted, passing, writing, provider, heard, quiet>>
  BY DEF Truncate, At, world
<1>3. w \in {"provider", "writer", "reader"} /\ pc \in Places /\ ~At(w, "stopped")
  BY <1>2, Names DEF Places, At
<1>4. /\ TypeInv /\ HandsInv /\ ToldInv /\ QueueInv /\ CutInv /\ HeardInv
      /\ loop' \in [Goroutines -> Places] /\ loop'[w] = pc
      /\ \A k \in {"provider", "writer", "reader"} \ {w} : loop'[k] = loop[k]
      /\ MainInv' /\ EventsInv' /\ ActiveInv'
      /\ Ev' = Ev /\ (Alive' <=> Alive)
  BY <1>1, <1>2, <1>3, PipelineFrame
<1>5. NoCut \in [item : Numbers, dropped : Nat, told : Nat]
  BY AudioAssumption DEF NoCut, NoResponse, Numbers
<1>6. /\ cut' \in [Interrupters -> [item : Numbers, dropped : Nat, told : Nat]]
      /\ \A v \in Interrupters : v # w => cut'[v] = cut[v]
  BY <1>2, <1>4, <1>5 DEF TypeInv
<1>7. TypeInv'
  BY <1>2, <1>4, <1>6 DEF TypeInv
<1>8. loop'["writer"] = loop["writer"]
  BY <1>4, Names
<1>9. (w = "provider" /\ loop["provider"] = "truncate" /\ loop'["provider"] = "push") \/ loop'["provider"] = loop["provider"]
  BY <1>1, <1>2, <1>4, Names
<1>10. Told' = Told
  BY <1>2 DEF Told
<1>11. HandsInv' /\ QueueInv'
  BY <1>2, <1>4, <1>8, <1>9, <1>10 DEF HandsInv, QueueInv
<1>12. ToldInv'
  BY <1>2, <1>4, <1>10, ToldFrame
<1>13. \A v \in Interrupters : loop'[v] \in {"drop", "truncate"} => v # w /\ loop'[v] = loop[v] /\ cut'[v] = cut[v]
  BY <1>1, <1>4, <1>6, Names
<1>14. CutInv'
  BY <1>2, <1>4, <1>13, CutFrame DEF Cutting
<1>15. HeardInv'
  BY <1>2, <1>4, <1>8, <1>13, HeardFrame DEF Cutting
<1> QED BY <1>4, <1>7, <1>11, <1>12, <1>14, <1>15 DEF AudioInv

\* What an outbox keeps that holds some of the messages of before, and no audio.
LEMMA DropKeeps ==
  ASSUME AudioInv, NEW w \in Interrupters, dropAudio(w)
  PROVE  AudioInv'
<1> DEFINE item == cut[w].item
<1>1. PICK n, t : /\ n = Cardinality({i \in DOMAIN out : IsAudio(out[i]) /\ out[i].response = item})
                  /\ t = IF item = NoResponse THEN 0 ELSE delivered[item]
  OBVIOUS
<1>2. /\ loop[w] = "drop" /\ Go(w, "truncate") /\ out' = Texts(out)
      /\ cut' = [cut EXCEPT ![w].dropped = n, ![w].told = t]
      /\ UNCHANGED <<main, conn, delivered, current, interrupted, passing, writing, provider, heard, quiet>>
  BY <1>1 DEF dropAudio, At, world
<1>3. w \in {"provider", "writer", "reader"} /\ "truncate" \in Places /\ ~At(w, "stopped")
  BY <1>2, Names DEF Places, At
<1>4. /\ TypeInv /\ HandsInv /\ ToldInv /\ QueueInv /\ CutInv /\ HeardInv
      /\ loop' \in [Goroutines -> Places] /\ loop'[w] = "truncate"
      /\ \A k \in {"provider", "writer", "reader"} \ {w} : loop'[k] = loop[k]
      /\ MainInv' /\ EventsInv' /\ ActiveInv'
      /\ Ev' = Ev /\ (Alive' <=> Alive)
  BY <1>2, <1>3, PipelineFrame
<1>5. /\ out \in Seq(Message) /\ item \in Numbers /\ delivered \in [Responses -> Nat]
      /\ heard \in [Responses -> Nat]
      /\ cut \in [Interrupters -> [item : Numbers, dropped : Nat, told : Nat]]
  BY <1>4 DEF TypeInv
<1>6. item # NoResponse => item \in Responses
  BY <1>5, AudioAssumption DEF Numbers, Responses, NoResponse
<1>7. n \in Nat
  <2>1. DOMAIN out = 1..Len(out) /\ 1 \in Int /\ Len(out) \in Int
    BY <1>5
  <2>2. IsFiniteSet(1..Len(out))
    BY <2>1, FS_Interval, Zenon
  <2>3. {i \in DOMAIN out : IsAudio(out[i]) /\ out[i].response = item} \in SUBSET (1..Len(out))
    BY <2>1
  <2>4. IsFiniteSet({i \in DOMAIN out : IsAudio(out[i]) /\ out[i].response = item})
    BY <2>2, <2>3, FS_Subset, Zenon
  <2> QED BY <1>1, <2>4, FS_CardinalityType, Zenon
<1>8. t \in Nat /\ (item # NoResponse => t = delivered[item])
  BY <1>1, <1>5, <1>6
<1>9. /\ cut' \in [Interrupters -> [item : Numbers, dropped : Nat, told : Nat]]
      /\ cut'[w].item = item /\ cut'[w].told = t
      /\ \A v \in Interrupters : v # w => cut'[v] = cut[v]
  <2>1. PICK c : c = [cut[w] EXCEPT !.dropped = n, !.told = t]
    OBVIOUS
  <2>2. c \in [item : Numbers, dropped : Nat, told : Nat] /\ c.item = item /\ c.told = t
    BY <1>5, <1>7, <1>8, <2>1
  <2>3. cut' = [cut EXCEPT ![w] = c]
    BY <1>2, <1>5, <2>1
  <2> QED BY <1>5, <2>2, <2>3
<1>10. /\ out' \in Seq(Message)
       /\ \A k \in DOMAIN out' : \E i \in DOMAIN out : out'[k] = out[i] /\ ~IsAudio(out[i])
  BY <1>2, <1>5, TextsOnly
<1>11. \A k \in DOMAIN out' : ~IsAudio(out'[k])
  BY <1>10
<1>12. TypeInv'
  BY <1>2, <1>4, <1>9, <1>10 DEF TypeInv
<1>13. loop'["writer"] = loop["writer"]
  BY <1>4, Names
<1>14. (w = "provider" /\ loop["provider"] = "drop" /\ loop'["provider"] = "truncate") \/ loop'["provider"] = loop["provider"]
  BY <1>2, <1>4, Names
<1>15. Told' \subseteq Told
  BY <1>2, <1>10 DEF Told
<1>16. HandsInv'
  BY <1>2, <1>4, <1>11, <1>13, <1>14 DEF HandsInv
<1>17. QueueInv'
  BY <1>2, <1>4, <1>11, <1>13, <1>15 DEF QueueInv
<1>18. ToldInv'
  BY <1>2, <1>4, <1>15, ToldFrame
<1>19. CutInv'
  <2>1. \A v \in Interrupters : Cutting(v)' => Cutting(v) /\ cut'[v].item = cut[v].item
    BY <1>2, <1>4, <1>9, Names DEF Cutting
  <2> QED BY <1>2, <1>4, <2>1, CutFrame
<1>20. HeardInv'
  <2>1. \A r : Sure(r)' = Sure(r)
    BY <1>2, <1>13 DEF Sure
  <2>2. \A r, i : i \in DOMAIN out' => ~AudioOf(r, i)'
    BY <1>11 DEF AudioOf
  <2>3. \A r \in Responses : heard'[r] = delivered'[r] +
          (IF loop'["writer"] = "mark" /\ writing'.response = r THEN 1 ELSE 0)
    BY <1>2, <1>4, <1>13 DEF HeardInv
  <2>4. \A r \in Responses : Sure(r) <= delivered[r] + 1 /\ Sure(r) \in Nat /\ delivered[r] \in Nat
    <3> SUFFICES ASSUME NEW r \in Responses PROVE Sure(r) <= delivered[r] + 1 /\ Sure(r) \in Nat /\ delivered[r] \in Nat
      OBVIOUS
    <3>1. heard[r] = delivered[r] + (IF loop["writer"] = "mark" /\ writing.response = r THEN 1 ELSE 0)
      BY <1>4 DEF HeardInv
    <3>2. heard[r] \in Nat /\ delivered[r] \in Nat
      BY <1>5
    <3> QED BY <3>1, <3>2 DEF Sure
  <2>5. ASSUME NEW r \in Responses, r = item, item # NoResponse
        PROVE  t <= delivered'[r] /\ Sure(r)' <= t + 1 /\ Sure(r)' <= t + 2
    BY <2>5, <1>2, <1>8, <2>1, <2>4
  <2>6. ASSUME NEW v \in Interrupters, v # w, Cutting(v)', loop'[v] = "truncate"
        PROVE  Cutting(v) /\ loop[v] = "truncate" /\ cut'[v] = cut[v]
    BY <2>6, <1>4, <1>9, Names DEF Cutting
  <2> SUFFICES ASSUME NEW v \in Interrupters, Cutting(v)', loop'[v] = "truncate", NEW r, r = cut'[v].item
               PROVE  /\ cut'[v].told <= delivered'[r]
                      /\ v = "provider" => Sure(r)' <= cut'[v].told + 1
                      /\ v = "reader" =>
                           /\ Sure(r)' <= cut'[v].told + 2
                           /\ IsAudio(passing') /\ passing'.response = r => Sure(r)' <= cut'[v].told + 1
    BY <2>2, <2>3 DEF HeardInv
  <2>7. CASE v = w
    <3>1. r = item /\ item # NoResponse /\ r \in Responses
      BY <2>7, <1>6, <1>9 DEF Cutting
    <3> QED BY <2>5, <2>7, <3>1, <1>9
  <2>8. CASE v # w
    <3>1. Cutting(v) /\ loop[v] = "truncate" /\ cut'[v] = cut[v]
      BY <2>6, <2>8
    <3> QED BY <3>1, <1>2, <1>4, <2>1 DEF HeardInv
  <2> QED BY <2>7, <2>8
<1> QED BY <1>4, <1>12, <1>16, <1>17, <1>18, <1>19, <1>20 DEF AudioInv

\* The message that providerLoop has goes to the end of the outbox, or the
\* outbox is full and the session ends.
LEMMA PushKeeps ==
  ASSUME AudioInv, Push
  PROVE  AudioInv'
<1>1. PICK pc \in {"select", "stopped"} : /\ Go("provider", pc)
                                          /\ out' = Append(out, passing) \/ out' = out
  BY DEF Push
<1>2. /\ loop["provider"] = "push" /\ passing' = Nothing
      /\ UNCHANGED <<main, conn, delivered, current, interrupted, writing, cut, provider, heard, quiet>>
  BY DEF Push, At, world
<1>3. pc \in Places /\ ~At("provider", "stopped")
  BY <1>2 DEF Places, At
<1>4. /\ TypeInv /\ HandsInv /\ ToldInv /\ QueueInv /\ CutInv /\ HeardInv
      /\ loop' \in [Goroutines -> Places] /\ loop'["provider"] = pc
      /\ loop'["writer"] = loop["writer"] /\ loop'["reader"] = loop["reader"]
      /\ MainInv' /\ EventsInv' /\ ActiveInv'
      /\ Ev' = Ev /\ (Alive' <=> Alive)
  BY <1>1, <1>2, <1>3, PipelineFrame
<1>5. Nothing \in Message /\ Nothing.kind = "none" /\ ~IsAudio(Nothing)
  BY AudioAssumption DEF Nothing, Message, Numbers, NoResponse, IsAudio
<1>6. out \in Seq(Message) /\ passing \in Message
  BY <1>4 DEF TypeInv
<1>7. PICK n \in Nat : n = Len(out)
  BY <1>6
<1>8. DOMAIN out = 1..n /\ out' \in Seq(Message)
  BY <1>1, <1>6, <1>7
<1>9. \A i \in DOMAIN out' : \/ i \in 1..n /\ out'[i] = out[i]
                             \/ i = n + 1 /\ out'[i] = passing
  BY <1>1, <1>6, <1>7
<1>10. TypeInv'
  BY <1>2, <1>4, <1>5, <1>8 DEF TypeInv
<1>11. \A i \in 1..n : out[i].kind = "speech" => out[i].response \in Told
  BY <1>8 DEF Told
<1>12. quiet \in Told /\ (writing.kind = "speech" => writing.response \in Told)
       /\ (passing.kind = "speech" => passing.response \in Told)
  BY DEF Told
<1>13. Told' \subseteq Told
  <2>1. \A i \in DOMAIN out' : out'[i].kind = "speech" => out'[i].response \in Told
    BY <1>9, <1>11, <1>12
  <2>2. Told' = {quiet} \cup {out'[i].response : i \in {k \in DOMAIN out' : out'[k].kind = "speech"}}
          \cup (IF writing.kind = "speech" THEN {writing.response} ELSE {})
    BY <1>2, <1>5 DEF Told
  <2>3. {out'[i].response : i \in {k \in DOMAIN out' : out'[k].kind = "speech"}} \subseteq Told
    BY <2>1
  <2> QED BY <2>2, <2>3, <1>12
<1>14. HandsInv'
  BY <1>2, <1>4, <1>5, <1>8, <1>9 DEF HandsInv
<1>15. QueueInv'
  <2>1. ASSUME NEW i \in DOMAIN out', NEW j \in DOMAIN out', i < j, out'[i].kind = "speech", IsAudio(out'[j])
        PROVE  out'[i].response < out'[j].response
    <3>1. i \in 1..n /\ out'[i] = out[i]
      <4>1. j \in 1..(n + 1)
        BY <1>9
      <4>2. i # n + 1
        BY <4>1, <2>1
      <4> QED BY <4>2, <1>9
    <3>2. CASE j \in 1..n /\ out'[j] = out[j]
      BY <3>1, <3>2, <2>1, <1>4, <1>8 DEF QueueInv
    <3>3. CASE j = n + 1 /\ out'[j] = passing
      BY <3>1, <3>3, <2>1, <1>4, <1>11 DEF QueueInv
    <3> QED BY <3>2, <3>3, <1>9
  <2>2. ASSUME NEW i \in DOMAIN out', IsAudio(out'[i])
        PROVE  quiet < out'[i].response /\ (writing.kind = "speech" => writing.response < out'[i].response)
    <3>1. CASE i \in 1..n /\ out'[i] = out[i]
      BY <3>1, <2>2, <1>4, <1>8 DEF QueueInv
    <3>2. CASE i = n + 1 /\ out'[i] = passing
      BY <3>2, <2>2, <1>4, <1>12 DEF QueueInv
    <3> QED BY <3>1, <3>2, <1>9
  <2>3. IsAudio(writing) /\ loop["writer"] = "write" => quiet < writing.response
    BY <1>4 DEF QueueInv
  <2> QED BY <2>1, <2>2, <2>3, <1>2, <1>4, <1>5 DEF QueueInv
<1>16. ToldInv'
  BY <1>2, <1>4, <1>13, ToldFrame
<1>17. \A v \in Interrupters : Cutting(v)' => v = "reader" /\ Cutting(v) /\ cut'[v] = cut[v] /\ loop'[v] = loop[v]
  BY <1>1, <1>2, <1>4, Names DEF Cutting
<1>18. CutInv'
  BY <1>2, <1>4, <1>17, CutFrame
<1>19. HeardInv'
  <2>1. \A r : Sure(r)' = Sure(r)
    BY <1>2, <1>4 DEF Sure
  <2>2. \A r \in Responses : heard'[r] = delivered'[r] +
          (IF loop'["writer"] = "mark" /\ writing'.response = r THEN 1 ELSE 0)
    BY <1>2, <1>4 DEF HeardInv
  <2>3. SUFFICES ASSUME Cutting("reader"), loop["reader"] = "truncate", NEW r, r = cut["reader"].item
                 PROVE  /\ cut["reader"].told <= delivered[r]
                        /\ Sure(r) <= cut["reader"].told + 2
                        /\ (\E i \in DOMAIN out' : AudioOf(r, i)') => Sure(r) <= cut["reader"].told + 1
                        /\ \A i, j \in DOMAIN out' : AudioOf(r, i)' /\ AudioOf(r, j)' => i = j
    BY <1>2, <1>5, <1>17, <2>1, <2>2 DEF HeardInv
  <2>4. /\ cut["reader"].told <= delivered[r]
        /\ Sure(r) <= cut["reader"].told + 2
        /\ (IsAudio(passing) /\ passing.response = r) \/ (\E i \in DOMAIN out : AudioOf(r, i)) => Sure(r) <= cut["reader"].told + 1
        /\ (IsAudio(passing) /\ passing.response = r) => \A i \in DOMAIN out : ~AudioOf(r, i)
        /\ \A i, j \in DOMAIN out : AudioOf(r, i) /\ AudioOf(r, j) => i = j
    BY <2>3, <1>4, Names DEF HeardInv
  <2>5. \A i \in DOMAIN out' : AudioOf(r, i)' =>
          (i \in DOMAIN out /\ AudioOf(r, i)) \/ (i = n + 1 /\ IsAudio(passing) /\ passing.response = r)
    BY <1>8, <1>9 DEF AudioOf
  <2> QED BY <2>4, <2>5
<1> QED BY <1>4, <1>10, <1>14, <1>15, <1>16, <1>18, <1>19 DEF AudioInv

\* The writer takes the oldest message, or waits.
LEMMA PopKeeps ==
  ASSUME AudioInv, Pop
  PROVE  AudioInv'
<1>1. CASE out = << >>
  <2>1. /\ loop' = [loop EXCEPT !["writer"] = "wait"] /\ loop["writer"] = "pop"
        /\ UNCHANGED <<main, conn, out, delivered, current, interrupted, passing, writing, cut, provider, heard, quiet>>
    BY <1>1 DEF Pop, Go, At, world
  <2>2. main \notin {"start", "connect", "ready"}
    BY <2>1 DEF AudioInv, MainInv, At
  <2> QED BY <2>1, <2>2, LoopKeeps
<1>2. CASE out # << >>
  <2>1. /\ loop["writer"] = "pop" /\ Go("writer", "write") /\ writing' = Head(out) /\ out' = Tail(out)
        /\ UNCHANGED <<main, conn, delivered, current, interrupted, passing, cut, provider, heard, quiet>>
    BY <1>2 DEF Pop, At, world
  <2>2. "write" \in Places /\ ~At("writer", "stopped")
    BY <2>1 DEF Places, At
  <2>3. /\ TypeInv /\ HandsInv /\ ToldInv /\ QueueInv /\ CutInv /\ HeardInv
        /\ loop' \in [Goroutines -> Places] /\ loop'["writer"] = "write"
        /\ loop'["provider"] = loop["provider"] /\ loop'["reader"] = loop["reader"]
        /\ MainInv' /\ EventsInv' /\ ActiveInv'
        /\ Ev' = Ev /\ (Alive' <=> Alive)
    BY <2>1, <2>2, PipelineFrame
  <2>4. out \in Seq(Message) /\ passing \in Message
    BY <2>3 DEF TypeInv
  <2>5. PICK n \in Nat : n = Len(out) /\ n >= 1
    BY <1>2, <2>4
  <2>6. /\ DOMAIN out = 1..n /\ out' \in Seq(Message) /\ DOMAIN out' = 1..(n - 1) /\ 1 \in DOMAIN out
        /\ writing' = out[1] /\ writing' \in Message
    BY <1>2, <2>1, <2>4, <2>5
  <2>7. \A i \in 1..(n - 1) : out'[i] = out[i + 1] /\ i + 1 \in 1..n /\ 1 < i + 1
    BY <2>1, <2>4, <2>5
  <2>8. ASSUME NEW i \in DOMAIN out' PROVE i + 1 \in DOMAIN out /\ 1 < i + 1 /\ out'[i] = out[i + 1]
    <3>1. i \in 1..(n - 1)
      BY <2>6
    <3> QED BY <3>1, <2>6, <2>7
  <2>9. writing = Nothing /\ ~IsAudio(writing) /\ writing.kind = "none"
    BY <2>1, <2>3 DEF HandsInv, Nothing, IsAudio
  <2>10. TypeInv'
    BY <2>1, <2>3, <2>6 DEF TypeInv
  <2>11. Told' \subseteq Told
    <3>1. \A i \in DOMAIN out : out[i].kind = "speech" => out[i].response \in Told
      BY DEF Told
    <3>2. \A i \in DOMAIN out' : out'[i].kind = "speech" => out'[i].response \in Told
      BY <3>1, <2>8
    <3>3. {out'[i].response : i \in {k \in DOMAIN out' : out'[k].kind = "speech"}} \subseteq Told
      BY <3>2
    <3>4. (IF writing'.kind = "speech" THEN {writing'.response} ELSE {}) \subseteq Told
      BY <3>1, <2>6
    <3>5. {quiet} \cup (IF passing.kind = "speech" THEN {passing.response} ELSE {}) \subseteq Told
      BY DEF Told
    <3>6. Told' = {quiet} \cup {out'[i].response : i \in {k \in DOMAIN out' : out'[k].kind = "speech"}}
                   \cup (IF writing'.kind = "speech" THEN {writing'.response} ELSE {})
                   \cup (IF passing.kind = "speech" THEN {passing.response} ELSE {})
      BY <2>1 DEF Told
    <3> QED BY <3>3, <3>4, <3>5, <3>6
  <2>12. HandsInv'
    BY <2>1, <2>3, <2>6, <2>8 DEF HandsInv
  <2>13. QueueInv'
    <3>1. ASSUME NEW i \in DOMAIN out', NEW j \in DOMAIN out', i < j, out'[i].kind = "speech", IsAudio(out'[j])
          PROVE  out'[i].response < out'[j].response
      <4>1. PICK a \in DOMAIN out, b \in DOMAIN out : a < b /\ out'[i] = out[a] /\ out'[j] = out[b]
        <5>1. i + 1 < j + 1
          BY <3>1, <2>6
        <5> QED BY <5>1, <2>8
      <4> QED BY <4>1, <3>1, <2>3 DEF QueueInv
    <3>2. ASSUME NEW i \in DOMAIN out', IsAudio(out'[i])
          PROVE  /\ quiet < out'[i].response
                 /\ writing'.kind = "speech" => writing'.response < out'[i].response
                 /\ ~(passing.kind = "speech" /\ loop["provider"] \in {"truncate", "push"})
      <4>1. PICK a \in DOMAIN out : 1 < a /\ out'[i] = out[a]
        BY <2>8
      <4> QED BY <4>1, <3>2, <2>3, <2>6 DEF QueueInv
    <3>3. IsAudio(writing') => quiet < writing'.response
      BY <2>3, <2>6 DEF QueueInv
    <3>4. IsAudio(passing) => \A q \in Told' : q < passing.response
      BY <2>3, <2>11 DEF QueueInv
    <3> QED BY <3>1, <3>2, <3>3, <3>4, <2>1, <2>3 DEF QueueInv
  <2>14. ToldInv'
    BY <2>1, <2>3, <2>11, ToldFrame
  <2>15. \A v \in Interrupters : loop'[v] = loop[v] /\ (Cutting(v)' <=> Cutting(v))
    BY <2>1, <2>3, Names DEF Cutting
  <2>16. CutInv'
    BY <2>1, <2>3, <2>15, CutFrame
  <2>17. HeardInv'
    <3>1. \A r : Sure(r)' = heard[r] + (IF IsAudio(out[1]) /\ out[1].response = r THEN 1 ELSE 0)
      BY <2>1, <2>3, <2>6 DEF Sure
    <3>2. \A r \in Responses : heard[r] \in Nat /\ Sure(r) = heard[r]
      BY <2>1, <2>3 DEF Sure, TypeInv
    <3>3. \A r \in Responses : heard'[r] = delivered'[r] +
            (IF loop'["writer"] = "mark" /\ writing'.response = r THEN 1 ELSE 0)
      BY <2>1, <2>3 DEF HeardInv
    <3>4. ASSUME NEW v \in Interrupters, Cutting(v), loop[v] = "truncate", NEW r, r = cut[v].item
          PROVE  /\ cut[v].told <= delivered[r]
                 /\ v = "provider" => Sure(r)' <= cut[v].told + 1
                 /\ v = "reader" =>
                      /\ Sure(r)' <= cut[v].told + 2
                      /\ (IsAudio(passing) /\ passing.response = r) \/ (\E i \in DOMAIN out' : AudioOf(r, i)')
                           => Sure(r)' <= cut[v].told + 1
                      /\ (IsAudio(passing) /\ passing.response = r) => \A i \in DOMAIN out' : ~AudioOf(r, i)'
                      /\ \A i, j \in DOMAIN out' : AudioOf(r, i)' /\ AudioOf(r, j)' => i = j
      <4>1. r \in Responses /\ cut[v].told \in Nat
        BY <3>4, <2>3, AudioAssumption, SMTT(30) DEF TypeInv, Cutting, Numbers, Responses, NoResponse
      <4>2. Sure(r) = heard[r] /\ heard[r] \in Nat
        BY <3>2, <4>1
      <4>3. cut[v].told <= delivered[r]
        BY <3>4, <2>3 DEF HeardInv
      <4>4. ASSUME v = "provider" PROVE Sure(r)' <= cut[v].told + 1
        <5>1. Sure(r) <= cut[v].told + 1
          BY <3>4, <4>4, <2>3 DEF HeardInv
        <5>2. passing.kind = "speech"
          BY <3>4, <4>4, <2>3 DEF HandsInv
        <5>3. ~IsAudio(out[1])
          BY <3>4, <4>4, <5>2, <2>3, <2>6 DEF QueueInv
        <5> QED BY <5>1, <5>3, <3>1, <4>2
      <4>5. ASSUME v = "reader"
            PROVE  /\ Sure(r)' <= cut[v].told + 2
                   /\ (IsAudio(passing) /\ passing.response = r) \/ (\E i \in DOMAIN out' : AudioOf(r, i)')
                        => Sure(r)' <= cut[v].told + 1
                   /\ (IsAudio(passing) /\ passing.response = r) => \A i \in DOMAIN out' : ~AudioOf(r, i)'
                   /\ \A i, j \in DOMAIN out' : AudioOf(r, i)' /\ AudioOf(r, j)' => i = j
        <5>1. /\ Sure(r) <= cut[v].told + 2
              /\ (IsAudio(passing) /\ passing.response = r) \/ (\E i \in DOMAIN out : AudioOf(r, i)) => Sure(r) <= cut[v].told + 1
              /\ (IsAudio(passing) /\ passing.response = r) => \A i \in DOMAIN out : ~AudioOf(r, i)
              /\ \A i, j \in DOMAIN out : AudioOf(r, i) /\ AudioOf(r, j) => i = j
          BY <3>4, <4>5, <2>3 DEF HeardInv
        <5>2. \A i \in DOMAIN out' : AudioOf(r, i)' => i + 1 \in DOMAIN out /\ AudioOf(r, i + 1) /\ i + 1 # 1
          <6> SUFFICES ASSUME NEW i \in DOMAIN out', AudioOf(r, i)'
                       PROVE  i + 1 \in DOMAIN out /\ AudioOf(r, i + 1) /\ i + 1 # 1
            OBVIOUS
          <6>1. i + 1 \in DOMAIN out /\ 1 < i + 1 /\ out'[i] = out[i + 1] /\ i \in 1..(n - 1)
            BY <2>6, <2>8
          <6>2. i + 1 # 1
            BY <6>1
          <6> QED BY <6>1, <6>2 DEF AudioOf
        <5>3. \A i, j \in DOMAIN out' : i + 1 = j + 1 => i = j
          BY <2>6
        <5>4. \A i, j \in DOMAIN out' : AudioOf(r, i)' /\ AudioOf(r, j)' => i = j
          BY <5>1, <5>2, <5>3
        <5>5. (IsAudio(passing) /\ passing.response = r) => \A i \in DOMAIN out' : ~AudioOf(r, i)'
          BY <5>1, <5>2
        <5>6. CASE AudioOf(r, 1)
          <6>1. \A i \in DOMAIN out' : ~AudioOf(r, i)'
            BY <5>1, <5>2, <5>6, <2>6
          <6>2. ~(IsAudio(passing) /\ passing.response = r) /\ Sure(r) <= cut[v].told + 1
            BY <5>1, <5>6, <2>6
          <6>3. Sure(r)' = heard[r] + 1
            BY <5>6, <3>1 DEF AudioOf
          <6> QED BY <5>4, <5>5, <6>1, <6>2, <6>3, <4>1, <4>2
        <5>7. CASE ~AudioOf(r, 1)
          <6>1. Sure(r)' = Sure(r)
            BY <5>7, <3>1, <4>2 DEF AudioOf
          <6>2. (IsAudio(passing) /\ passing.response = r) \/ (\E i \in DOMAIN out' : AudioOf(r, i)')
                   => Sure(r) <= cut[v].told + 1
            BY <5>1, <5>2
          <6> QED BY <5>1, <5>4, <5>5, <6>1, <6>2
        <5> QED BY <5>6, <5>7
      <4> QED BY <4>3, <4>4, <4>5
    <3> QED BY <3>3, <3>4, <2>1, <2>15 DEF HeardInv
  <2> QED BY <2>3, <2>10, <2>12, <2>13, <2>14, <2>16, <2>17 DEF AudioInv
<1> QED BY <1>1, <1>2

\* The writer writes, fails or counts: it lets go of its message, or keeps it
\* to count it.
LEMMA WriterKeeps ==
  ASSUME AudioInv, Write \/ WriteFails \/ markDelivered
  PROVE  AudioInv'
<1>1. PICK pc \in {"pop", "mark", "stopped"} : Go("writer", pc)
  BY DEF Write, WriteFails, markDelivered
<1>2. /\ loop["writer"] \in {"write", "mark"}
      /\ UNCHANGED <<main, conn, out, current, interrupted, passing, cut, provider>>
  BY DEF Write, WriteFails, markDelivered, At, world
<1>3. pc \in Places /\ ~At("writer", "stopped")
  BY <1>2 DEF Places, At
<1>4. /\ TypeInv /\ HandsInv /\ ToldInv /\ QueueInv /\ CutInv /\ HeardInv
      /\ loop' \in [Goroutines -> Places] /\ loop'["writer"] = pc
      /\ loop'["provider"] = loop["provider"] /\ loop'["reader"] = loop["reader"]
      /\ MainInv' /\ EventsInv' /\ ActiveInv'
      /\ Ev' = Ev /\ (Alive' <=> Alive)
  BY <1>1, <1>2, <1>3, PipelineFrame
<1>5. Nothing \in Message /\ Nothing.kind = "none" /\ ~IsAudio(Nothing)
  BY AudioAssumption DEF Nothing, Message, Numbers, NoResponse, IsAudio
<1>6. /\ writing \in Message /\ writing.response \in Numbers /\ quiet \in Numbers
      /\ heard \in [Responses -> Nat] /\ delivered \in [Responses -> Nat]
      /\ IsAudio(writing) => writing.response \in Responses
  BY <1>4 DEF TypeInv, Message, HandsInv
<1>7. PICK r0 : r0 = writing.response
  OBVIOUS
\* What becomes of the counts.
<1>8. \/ /\ loop["writer"] = "write" /\ pc = "mark" /\ IsAudio(writing) /\ UNCHANGED <<writing, quiet, delivered>>
         /\ heard' = [heard EXCEPT ![r0] = heard[r0] + 1]
      \/ /\ loop["writer"] = "write" /\ pc \in {"pop", "stopped"} /\ writing' = Nothing /\ UNCHANGED <<heard, delivered>>
         /\ quiet' = quiet \/ (writing.kind = "speech" /\ quiet' = r0)
      \/ /\ loop["writer"] = "mark" /\ pc = "pop" /\ IsAudio(writing) /\ writing' = Nothing /\ UNCHANGED <<heard, quiet>>
         /\ delivered' = [delivered EXCEPT ![r0] = delivered[r0] + 1]
  <2>0. /\ \A q \in Places : Go("writer", q) => loop'["writer"] = q
        /\ {"mark", "pop", "stopped"} \subseteq Places
    BY <1>4, Names DEF Go, TypeInv, Places
  <2>1. CASE Write /\ IsAudio(writing)
    <3>1. /\ loop["writer"] = "write" /\ Go("writer", "mark") /\ UNCHANGED <<writing, quiet, delivered>>
          /\ heard' = [heard EXCEPT ![r0] = heard[r0] + 1]
      BY <2>1, <1>7 DEF Write, At
    <3> QED BY <2>0, <2>1, <3>1, <1>4
  <2>2. CASE Write /\ ~IsAudio(writing)
    <3>1. /\ loop["writer"] = "write" /\ Go("writer", "pop") /\ writing' = Nothing /\ UNCHANGED <<heard, delivered>>
          /\ quiet' = quiet \/ (writing.kind = "speech" /\ quiet' = r0)
      BY <2>2, <1>7 DEF Write, At
    <3> QED BY <2>0, <2>2, <3>1, <1>4
  <2>3. CASE WriteFails
    <3>1. /\ loop["writer"] = "write" /\ Go("writer", "stopped") /\ writing' = Nothing /\ UNCHANGED <<heard, delivered, quiet>>
      BY <2>3 DEF WriteFails, At, world
    <3> QED BY <2>0, <2>3, <3>1, <1>4
  <2>4. CASE markDelivered
    <3>1. /\ loop["writer"] = "mark" /\ Go("writer", "pop") /\ writing' = Nothing /\ UNCHANGED <<heard, quiet>>
          /\ delivered' = [delivered EXCEPT ![r0] = delivered[r0] + 1]
      BY <2>4, <1>7 DEF markDelivered, At, world
    <3>2. IsAudio(writing)
      BY <3>1, <1>4 DEF HandsInv
    <3> QED BY <2>0, <2>4, <3>1, <3>2, <1>4
  <2> QED BY <2>1, <2>2, <2>3, <2>4
<1>9. /\ heard' \in [Responses -> Nat] /\ delivered' \in [Responses -> Nat] /\ quiet' \in Numbers
      /\ writing' \in Message /\ (writing' = writing \/ writing' = Nothing)
  <2>1. IsAudio(writing) => heard[r0] + 1 \in Nat /\ delivered[r0] + 1 \in Nat
    BY <1>6, <1>7
  <2> QED BY <1>5, <1>6, <1>7, <1>8, <2>1
<1>10. TypeInv'
  BY <1>2, <1>4, <1>9 DEF TypeInv
<1>11. Told' \subseteq Told
  <2>1. quiet' \in Told
    BY <1>7, <1>8 DEF Told
  <2>2. (IF writing'.kind = "speech" THEN {writing'.response} ELSE {}) \subseteq Told
    BY <1>5, <1>9 DEF Told
  <2>3. {out[i].response : i \in {k \in DOMAIN out : out[k].kind = "speech"}}
          \cup (IF passing.kind = "speech" THEN {passing.response} ELSE {}) \subseteq Told
    BY DEF Told
  <2>4. Told' = {quiet'} \cup {out[i].response : i \in {k \in DOMAIN out : out[k].kind = "speech"}}
          \cup (IF writing'.kind = "speech" THEN {writing'.response} ELSE {})
          \cup (IF passing.kind = "speech" THEN {passing.response} ELSE {})
    BY <1>2 DEF Told
  <2> QED BY <2>1, <2>2, <2>3, <2>4
<1>12. HandsInv'
  BY <1>2, <1>4, <1>5, <1>8 DEF HandsInv
<1>13. QueueInv'
  <2>1. \A i \in DOMAIN out : IsAudio(out[i]) => quiet' < out[i].response
    BY <1>4, <1>7, <1>8 DEF QueueInv
  <2>2. \A i \in DOMAIN out : IsAudio(out[i]) /\ writing'.kind = "speech" => writing'.response < out[i].response
    BY <1>4, <1>5, <1>9 DEF QueueInv
  <2>3. ~(IsAudio(writing') /\ loop'["writer"] = "write")
    BY <1>1, <1>4
  <2>4. IsAudio(passing) => \A q \in Told' : q < passing.response
    BY <1>4, <1>11 DEF QueueInv
  <2> QED BY <2>1, <2>2, <2>3, <2>4, <1>2, <1>4 DEF QueueInv
<1>14. ToldInv'
  BY <1>2, <1>4, <1>11, ToldFrame
<1>15. \A v \in Interrupters : loop'[v] = loop[v] /\ (Cutting(v)' <=> Cutting(v))
  BY <1>2, <1>4, Names DEF Cutting
<1>16. CutInv'
  BY <1>2, <1>4, <1>15, CutFrame
<1>17. HeardInv'
  <2>0. \A r \in Responses : heard[r] \in Nat /\ delivered[r] \in Nat
    BY <1>6
  <2>1. \A r \in Responses : heard[r] = delivered[r] +
          (IF loop["writer"] = "mark" /\ writing.response = r THEN 1 ELSE 0)
    BY <1>4 DEF HeardInv
  <2>2. ASSUME NEW r \in Responses
        PROVE  heard'[r] = delivered'[r] + (IF loop'["writer"] = "mark" /\ writing'.response = r THEN 1 ELSE 0)
    BY <2>0, <2>1, <1>4, <1>6, <1>7, <1>8
  <2>3. ASSUME NEW r \in Responses
        PROVE  /\ Sure(r) \in Nat /\ Sure(r)' \in Nat /\ Sure(r)' <= Sure(r)
               /\ delivered[r] \in Nat /\ delivered'[r] \in Nat /\ delivered[r] <= delivered'[r]
    <3>1. delivered[r] \in Nat /\ delivered'[r] \in Nat /\ delivered[r] <= delivered'[r]
      BY <2>0, <1>6, <1>7, <1>8
    <3>2. heard[r] \in Nat /\ heard'[r] \in Nat
      BY <1>6, <1>9
    <3>3. Sure(r)' = heard'[r]
      BY <3>2, <1>1, <1>4 DEF Sure
    <3>4. heard'[r] <= Sure(r)
      <4>1. CASE /\ loop["writer"] = "write" /\ IsAudio(writing)
                 /\ heard' = [heard EXCEPT ![r0] = heard[r0] + 1]
        <5>1. Sure(r) = heard[r] + (IF r = r0 THEN 1 ELSE 0)
          BY <4>1, <1>7 DEF Sure
        <5>2. heard'[r] = heard[r] + (IF r = r0 THEN 1 ELSE 0)
          BY <4>1, <3>2, <1>6
        <5> QED BY <3>2, <5>1, <5>2
      <4>2. CASE heard' = heard
        BY <3>2, <4>2 DEF Sure
      <4> QED BY <4>1, <4>2, <1>8
    <3>5. Sure(r) \in Nat
      BY <3>2 DEF Sure
    <3> QED BY <3>1, <3>2, <3>3, <3>4, <3>5
  <2>4. ASSUME NEW v \in Interrupters, Cutting(v), loop[v] = "truncate", NEW r, r = cut[v].item
        PROVE  /\ cut[v].told <= delivered'[r]
               /\ v = "provider" => Sure(r)' <= cut[v].told + 1
               /\ v = "reader" =>
                    /\ Sure(r)' <= cut[v].told + 2
                    /\ (IsAudio(passing) /\ passing.response = r) \/ (\E i \in DOMAIN out : AudioOf(r, i))
                         => Sure(r)' <= cut[v].told + 1
                    /\ (IsAudio(passing) /\ passing.response = r) => \A i \in DOMAIN out : ~AudioOf(r, i)
                    /\ \A i, j \in DOMAIN out : AudioOf(r, i) /\ AudioOf(r, j) => i = j
    <3>1. r \in Responses /\ cut[v].told \in Nat
      BY <2>4, <1>4, AudioAssumption, SMTT(30) DEF TypeInv, Cutting, Numbers, Responses, NoResponse
    <3>2. /\ cut[v].told <= delivered[r]
          /\ v = "provider" => Sure(r) <= cut[v].told + 1
          /\ v = "reader" =>
               /\ Sure(r) <= cut[v].told + 2
               /\ (IsAudio(passing) /\ passing.response = r) \/ (\E i \in DOMAIN out : AudioOf(r, i))
                    => Sure(r) <= cut[v].told + 1
               /\ (IsAudio(passing) /\ passing.response = r) => \A i \in DOMAIN out : ~AudioOf(r, i)
               /\ \A i, j \in DOMAIN out : AudioOf(r, i) /\ AudioOf(r, j) => i = j
      BY <2>4, <1>4 DEF HeardInv
    <3>3. PICK s, s1, d, d1 : s = Sure(r) /\ s1 = Sure(r)' /\ d = delivered[r] /\ d1 = delivered'[r]
      OBVIOUS
    <3>4. s \in Nat /\ s1 \in Nat /\ s1 <= s /\ d \in Nat /\ d1 \in Nat /\ d <= d1
      BY <2>3, <3>1, <3>3
    <3> QED BY <3>1, <3>2, <3>3, <3>4
  <2>5. \A r, i : AudioOf(r, i)' = AudioOf(r, i)
    BY <1>2 DEF AudioOf
  <2> QED BY <2>2, <2>4, <2>5, <1>2, <1>15 DEF HeardInv
<1> QED BY <1>4, <1>10, <1>12, <1>13, <1>14, <1>16, <1>17 DEF AudioInv

-----------------------------------------------------------------------------
(* The theorems.                                                             *)

\* A session starts with nothing on its way.
LEMMA AudioInit ==
  ASSUME Init
  PROVE  AudioInv
<1>1. Numbers \subseteq Nat /\ 0 \in Numbers /\ Responses \subseteq Nat
  BY AudioAssumption DEF Numbers, Responses
<1>2. Nothing \in Message /\ Nothing \in ProviderEvent /\ ~IsAudio(Nothing) /\ Nothing.kind = "none"
  BY <1>1 DEF Nothing, Message, ProviderEvent, NoResponse, IsAudio
<1>3. NoCut \in [item : Numbers, dropped : Nat, told : Nat]
  BY <1>1 DEF NoCut, NoResponse
<1>4. \A l \in {"provider", "writer", "reader", "readLoop"} : loop[l] = "stopped"
  BY Names DEF Init, Loops
<1>5. TypeInv
  <2>1. loop \in [Goroutines -> Places]
    BY DEF Init, Goroutines, Places
  <2>2. conn \in [open : BOOLEAN, events : Seq(ProviderEvent), held : ProviderEvent]
    BY <1>2 DEF Init
  <2>3. current \in [response : Numbers, item : Numbers] /\ provider \in [active : Numbers, created : Numbers]
    BY <1>1 DEF Init, NoResponse
  <2> QED BY <1>1, <1>2, <1>3, <2>1, <2>2, <2>3 DEF Init, TypeInv, NoResponse
<1>6. MainInv
  BY <1>4 DEF Init, MainInv, At
<1>7. HandsInv
  BY <1>2, <1>4 DEF Init, HandsInv
<1>8. Ev = << >> /\ DOMAIN Ev = {} /\ DOMAIN out = {}
  BY <1>4 DEF Init, Ev, At
<1>9. EventsInv
  BY <1>8 DEF EventsInv
<1>10. ActiveInv
  <2>1. provider.active = NoResponse /\ current.response <= provider.created /\ current.item <= provider.created
    BY DEF Init, NoResponse
  <2> QED BY <2>1 DEF ActiveInv
<1>11. Told = {0}
  <2>1. {out[i].response : i \in {k \in DOMAIN out : out[k].kind = "speech"}} = {}
    BY <1>8
  <2>2. quiet = 0 /\ writing.kind # "speech" /\ passing.kind # "speech"
    BY <1>2 DEF Init, NoResponse
  <2> QED BY <2>1, <2>2 DEF Told
<1>12. ToldInv
  <2>1. provider.active = NoResponse /\ provider.created = 0
    BY DEF Init
  <2> QED BY <1>8, <1>11, <2>1 DEF ToldInv
<1>13. QueueInv
  BY <1>2, <1>8 DEF Init, QueueInv
<1>14. CutInv
  BY <1>4, Names DEF CutInv, Cutting
<1>15. HeardInv
  BY <1>4, Names DEF Init, HeardInv, Cutting
<1> QED BY <1>5, <1>6, <1>7, <1>9, <1>10, <1>12, <1>13, <1>14, <1>15 DEF AudioInv

\* Every step of every goroutine, of the user and of the provider keeps the
\* invariant.
LEMMA AudioNext ==
  ASSUME AudioInv, [Next]_vars
  PROVE  AudioInv'
<1>1. CASE UNCHANGED vars
  BY <1>1, OuterKeeps DEF vars
<1>2. CASE Main
  BY <1>2, QuietKeeps, ConnectKeeps, ReadyKeeps, CloseKeeps DEF Main
<1>3. CASE ReadLoop
  BY <1>3, ReadKeeps DEF ReadLoop
<1>4. CASE ProviderLoop
  BY <1>4, HandleKeeps, DropKeeps, TruncateKeeps, PushKeeps, QuietKeeps, Names DEF ProviderLoop
<1>5. CASE WriterLoop
  BY <1>5, PopKeeps, WriterKeeps, QuietKeeps DEF WriterLoop
<1>6. CASE ReaderLoop
  BY <1>6, DropKeeps, TruncateKeeps, QuietKeeps, Names DEF ReaderLoop
<1>7. CASE Environment
  BY <1>7, ProviderKeeps, ReadKeeps, TapKeeps, QuietKeeps DEF Environment
<1> QED BY <1>1, <1>2, <1>3, <1>4, <1>5, <1>6, <1>7 DEF Next

\* The invariant of the audio session holds in every state.
THEOREM AudioInvHolds == Spec => []AudioInv
BY AudioInit, AudioNext, PTL DEF Spec

\* When interrupt tells the provider how much of an item the user has heard,
\* that much has reached the client, and at most the chunk in the writer's hands
\* more, or two after a tap, however many chunks and interruptions there are.
THEOREM TruncateTrueAlways == Spec => []TruncateTrue
<1>1. AudioInv => TruncateTrue
  <2> SUFFICES ASSUME AudioInv, NEW w \in Interrupters, Truncates(w)
               PROVE  /\ cut[w].told <= heard[cut[w].item]
                      /\ heard[cut[w].item] <= cut[w].told + (IF w = "reader" THEN 2 ELSE 1)
    BY DEF TruncateTrue
  <2>1. TypeInv /\ HeardInv
    BY DEF AudioInv
  <2>2. PICK r : r = cut[w].item
    OBVIOUS
  <2>3. Cutting(w) /\ loop[w] = "truncate"
    BY DEF Truncates, At, Cutting
  <2>4. r \in Responses /\ cut[w].told \in Nat
    BY <2>1, <2>2, <2>3, AudioAssumption, SMTT(30) DEF TypeInv, Cutting, Numbers, Responses, NoResponse
  <2>5. heard[r] \in Nat /\ delivered[r] \in Nat
    BY <2>1, <2>4 DEF TypeInv
  <2>6. heard[r] = delivered[r] + (IF loop["writer"] = "mark" /\ writing.response = r THEN 1 ELSE 0)
    BY <2>1, <2>4 DEF HeardInv
  <2>7. /\ cut[w].told <= delivered[r]
        /\ w = "provider" => Sure(r) <= cut[w].told + 1
        /\ w = "reader" => Sure(r) <= cut[w].told + 2
    BY <2>1, <2>2, <2>3 DEF HeardInv
  <2>8. heard[r] <= Sure(r) /\ Sure(r) \in Nat
    BY <2>5 DEF Sure
  <2> QED BY <2>2, <2>4, <2>5, <2>6, <2>7, <2>8, Names
<1> QED BY <1>1, AudioInvHolds, PTL

\* Once the client has got SpeechStarted, no audio of a response from before it
\* arrives, in any interleaving of the loops and of the user's taps.
THEOREM SilentOnceToldAlways == Spec => SilentOnceTold
<1>1. ASSUME AudioInv, [Next]_vars
      PROVE  [\A r \in Responses : heard'[r] # heard[r] => r > quiet]_vars
  <2> SUFFICES ASSUME NEW r \in Responses, heard'[r] # heard[r]
               PROVE  r > quiet
    OBVIOUS
  <2>1. Write
    <3>1. heard' # heard
      OBVIOUS
    <3> QED BY <3>1, <1>1
       DEF Next, Main, ReadLoop, ProviderLoop, WriterLoop, ReaderLoop, Environment, vars, world, pipeline,
           StartFails, Acquire, ConnectFails, Connect, ReadyFails, Ready, Wait, Close, Final, Shutdown,
           Emit, Creates, Speaks, Ends, HearsUser, Put, ReadLoopEnds, dropAudio, Truncate, AudioDelta,
           SpeechStarted, ResponseCreated, ResponseDone, Push, EventsEnd, Stops, Pop, Woken, WriteFails,
           markDelivered, Tap, ReaderEnds, Breaks
  <2>2. heard \in [Responses -> Nat] /\ QueueInv /\ writing.response \in Nat /\ quiet \in Nat
    BY <1>1, AudioAssumption DEF AudioInv, TypeInv, Message, Numbers
  <2>3. /\ loop["writer"] = "write" /\ IsAudio(writing)
        /\ heard' = [heard EXCEPT ![writing.response] = heard[writing.response] + 1]
    BY <2>1 DEF Write, At
  <2>4. r = writing.response
    BY <2>2, <2>3
  <2> QED BY <2>2, <2>3, <2>4 DEF QueueInv
<1> QED BY <1>1, AudioInvHolds, PTL DEF Spec, SilentOnceTold
=============================================================================
