---------------------------- MODULE AudioSession ----------------------------
(***************************************************************************)
(* One voice session of the gateway: the loops between the client's socket  *)
(* and the provider's, the outbox between them, interruptions by speech and *)
(* by a tap, and every way to end (voice-gateway: session.go, outbox.go,    *)
(* limiter.go, realtime.go).                                                *)
(*                                                                          *)
(* One action is one critical section, one channel operation or one write   *)
(* to a socket.  Audio is counted in chunks; a response has one audio item, *)
(* and responses are numbered in the order in which the provider creates    *)
(* them.  What the session ends with is left out; that it ends is not.      *)
(***************************************************************************)
EXTENDS Naturals, Sequences, FiniteSets

CONSTANTS
  Capacity,     \* outboxCapacity
  EventBuffer,  \* eventBuffer of the provider's connection
  MaxResponses, \* bound: responses of the provider
  MaxChunks,    \* bound: chunks of audio
  MaxSpeech,    \* bound: times the user starts to speak
  MaxTaps       \* bound: CancelResponse messages of the client

ASSUME AudioAssumption ==
  /\ {MaxResponses, MaxChunks, MaxSpeech, MaxTaps} \subseteq Nat
  /\ {Capacity, EventBuffer} \subseteq Nat \ {0}

VARIABLES
  main,      \* where run is
  ctx,       \* the context of the session, or of the gateway until it has one
  slot,      \* the session holds a slot of the limiter
  ws,        \* the client's socket is open
  loop,      \* loop -> where it is
  conn,      \* the provider's connection: open, events, held by readLoop
  out,       \* outbox.items
  notify,    \* outbox.notify
  delivered, \* response -> chunks of its item written to the client
  current,   \* currentResponse and the response of currentItem
  interrupted, \* the responses in s.interrupted
  passing,   \* the message that providerLoop is about to push
  writing,   \* the message that writerLoop has taken
  cut,       \* loop -> the interruption it is in
  provider,  \* external: the response in progress, and the last one
  heard,     \* client: response -> chunks of it received
  quiet,     \* client: the last response that SpeechStarted has ended
  left       \* what the user and the provider may still do

vars == <<main, ctx, slot, ws, loop, conn, out, notify, delivered, current,
          interrupted, passing, writing, cut, provider, heard, quiet, left>>

Responses == 1..MaxResponses
NoResponse == 0

\* The loops that run waits for.  upstreamLoop and watchdog have no state here:
\* they share nothing with the rest, and either end the session (Breaks) or see
\* that it has ended.
Loops == {"provider", "writer"}
Interrupters == {"provider", "reader"}

\* Messages to the client.
Audio(r) == [kind |-> "audio", response |-> r]
Speech(r) == [kind |-> "speech", response |-> r]
Text == [kind |-> "text", response |-> NoResponse]
Nothing == [kind |-> "none", response |-> NoResponse]

\* Events of the provider.
Event(kind, r) == [kind |-> kind, response |-> r]

NoCut == [item |-> NoResponse, dropped |-> 0, told |-> 0]

Init ==
  /\ main = "start" /\ ctx = "open" /\ slot = FALSE /\ ws = TRUE
  /\ loop = [l \in Loops \cup {"reader", "readLoop"} |-> "stopped"]
  /\ conn = [open |-> FALSE, events |-> <<>>, held |-> Nothing]
  /\ out = <<>> /\ notify = FALSE
  /\ delivered = [r \in Responses |-> 0]
  /\ current = [response |-> NoResponse, item |-> NoResponse]
  /\ interrupted = {}
  /\ passing = Nothing /\ writing = Nothing
  /\ cut = [w \in Interrupters |-> NoCut]
  /\ provider = [active |-> NoResponse, created |-> 0]
  /\ heard = [r \in Responses |-> 0]
  /\ quiet = NoResponse
  /\ left = [chunks |-> MaxChunks, speech |-> MaxSpeech, taps |-> MaxTaps]

pipeline == <<out, notify, delivered, current, interrupted, passing, writing, cut>>
world == <<provider, heard, quiet, left>>

At(l, pc) == loop[l] = pc
Go(l, pc) == loop' = [loop EXCEPT ![l] = pc]

\* finish: the first reason is kept, the context ends.
Finish == ctx' = "done"

-----------------------------------------------------------------------------
(* run: the slot, the provider's connection, the loops.                     *)

\* A bad StartSession, or no slot.
StartFails ==
  /\ main = "start"
  /\ main' = "final"
  /\ UNCHANGED <<ctx, slot, ws, loop, conn, pipeline, world>>

Acquire ==
  /\ main = "start"
  /\ slot' = TRUE /\ main' = "connect"
  /\ UNCHANGED <<ctx, ws, loop, conn, pipeline, world>>

\* No key, or the provider cannot be reached: the deferred release.
ConnectFails ==
  /\ main = "connect"
  /\ slot' = FALSE /\ main' = "final"
  /\ UNCHANGED <<ctx, ws, loop, conn, pipeline, world>>

Connect ==
  /\ main = "connect"
  /\ conn' = [conn EXCEPT !.open = TRUE]
  /\ Go("readLoop", "reading")
  /\ main' = "ready"
  /\ UNCHANGED <<ctx, slot, ws, pipeline, world>>

\* SessionReady does not reach the client.
ReadyFails ==
  /\ main = "ready"
  /\ main' = "close"
  /\ UNCHANGED <<ctx, slot, ws, loop, conn, pipeline, world>>

Ready ==
  /\ main = "ready"
  /\ loop' = [l \in DOMAIN loop |->
       CASE l = "readLoop" -> loop[l] [] l = "writer" -> "pop" [] OTHER -> "select"]
  /\ main' = "running"
  /\ UNCHANGED <<ctx, slot, ws, conn, pipeline, world>>

\* wg.Wait: all loops but the reader.
Wait ==
  /\ main = "running" /\ ctx = "done"
  /\ \A l \in Loops : At(l, "stopped")
  /\ main' = "close"
  /\ UNCHANGED <<ctx, slot, ws, loop, conn, pipeline, world>>

\* What run has deferred: the end of the connection, and of the slot.
Close ==
  /\ main = "close"
  /\ conn' = [conn EXCEPT !.open = FALSE]
  /\ slot' = FALSE /\ main' = "final"
  /\ UNCHANGED <<ctx, ws, loop, pipeline, world>>

\* The last message and the end of the client's socket.
Final ==
  /\ main = "final"
  /\ ws' = FALSE /\ main' = "over"
  /\ UNCHANGED <<ctx, slot, loop, conn, pipeline, world>>

\* The gateway ends its sessions.
Shutdown ==
  /\ ctx = "open" /\ main # "over"
  /\ ctx' = "done"
  /\ UNCHANGED <<main, slot, ws, loop, conn, pipeline, world>>

-----------------------------------------------------------------------------
(* The provider (external) and the readLoop of its connection.              *)

\* readLoop has read an event, which waits if the channel is full.
Emit(e) ==
  /\ conn.open /\ At("readLoop", "reading")
  /\ IF Len(conn.events) < EventBuffer
       THEN conn' = [conn EXCEPT !.events = Append(@, e)] /\ UNCHANGED loop
       ELSE conn' = [conn EXCEPT !.held = e] /\ Go("readLoop", "putting")
  /\ UNCHANGED <<main, ctx, slot, ws, pipeline, heard, quiet>>

Creates ==
  /\ provider.active = NoResponse /\ provider.created < MaxResponses
  /\ provider' = [active |-> provider.created + 1, created |-> provider.created + 1]
  /\ Emit(Event("created", provider'.active))
  /\ UNCHANGED left

Speaks ==
  /\ provider.active # NoResponse /\ left.chunks > 0
  /\ left' = [left EXCEPT !.chunks = @ - 1]
  /\ Emit(Event("audio", provider.active))
  /\ UNCHANGED provider

\* The response is complete, cancelled, or interrupted by speech.
Ends ==
  /\ provider.active # NoResponse
  /\ provider' = [provider EXCEPT !.active = NoResponse]
  /\ Emit(Event("done", provider.active))
  /\ UNCHANGED left

\* For the property, the event names the last response before it.
HearsUser ==
  /\ left.speech > 0
  /\ left' = [left EXCEPT !.speech = @ - 1]
  /\ Emit(Event("speech", provider.created))
  /\ UNCHANGED provider

Put ==
  /\ At("readLoop", "putting")
  /\ Len(conn.events) < EventBuffer
  /\ conn' = [conn EXCEPT !.events = Append(@, conn.held), !.held = Nothing]
  /\ Go("readLoop", "reading")
  /\ UNCHANGED <<main, ctx, slot, ws, pipeline, world>>

\* The provider closes the socket, or Close does, which also ends a put.
ReadLoopEnds ==
  /\ At("readLoop", "reading") \/ (At("readLoop", "putting") /\ ~conn.open)
  /\ Go("readLoop", "stopped")
  /\ UNCHANGED <<main, ctx, slot, ws, conn, pipeline, world>>

-----------------------------------------------------------------------------
(* interrupt, of providerLoop (speech) and of the reader (a tap).           *)

\* currentResponse is marked, under s.mu.
Mark(w) ==
  /\ cut' = [cut EXCEPT ![w] = [NoCut EXCEPT !.item = current.item]]
  /\ interrupted' = IF current.response = NoResponse THEN interrupted
                    ELSE interrupted \cup {current.response}

IsAudio(m) == m.kind = "audio"
IsText(m) == ~IsAudio(m)

\* The messages of q that are not audio, in their order.
Texts(q) ==
  LET kept == {i \in DOMAIN q : IsText(q[i])}
      nth(k) == CHOOSE i \in kept : Cardinality({j \in kept : j <= i}) = k
  IN [k \in 1..Cardinality(kept) |-> q[nth(k)]]

\* dropAudio: all queued audio goes, that of the item is counted.
dropAudio(w) ==
  LET item == cut[w].item IN
  /\ At(w, "drop")
  /\ out' = Texts(out)
  /\ cut' = [cut EXCEPT ![w].dropped =
               Cardinality({i \in DOMAIN out : IsAudio(out[i]) /\ out[i].response = item}),
                        ![w].told = IF item = NoResponse THEN 0 ELSE delivered[item]]
  /\ Go(w, "truncate")
  /\ UNCHANGED <<main, ctx, slot, ws, conn, notify, delivered, current, interrupted,
                 passing, writing, world>>

\* What interrupt tells the provider, if anything.
Truncates(w) == At(w, "truncate") /\ cut[w].item # NoResponse /\ cut[w].dropped > 0

\* CancelResponse of a tap and Truncate go to the provider, whose response ends
\* then, or another one does, or none.
Truncate(w) ==
  /\ At(w, "truncate")
  /\ cut' = [cut EXCEPT ![w] = NoCut]
  /\ Go(w, IF w = "reader" THEN "select" ELSE "push")
  /\ UNCHANGED <<main, ctx, slot, ws, conn, out, notify, delivered, current, interrupted,
                 passing, writing, world>>

-----------------------------------------------------------------------------
(* providerLoop: handleEvent.  Events that are only passed on (transcripts,   *)
(* the end of speech, errors) take room in the outbox like ResponseDone's.   *)

\* The next event, taken by providerLoop.
Takes(kind) ==
  /\ At("provider", "select")
  /\ conn.events # <<>> /\ Head(conn.events).kind = kind
  /\ conn' = [conn EXCEPT !.events = Tail(@)]

AudioDelta ==
  LET e == Head(conn.events) IN
  /\ Takes("audio")
  /\ IF e.response \in interrupted
       THEN UNCHANGED <<loop, current, passing>>
       ELSE /\ current' = [item |-> e.response,
                           response |-> IF current.response = NoResponse THEN e.response ELSE current.response]
            /\ passing' = Audio(e.response)
            /\ Go("provider", "push")
  /\ UNCHANGED <<main, ctx, slot, ws, out, notify, delivered, interrupted, writing, cut, world>>

\* Mutant: a response that the user talks over is not marked.
SpeechStartedUnmarked ==
  /\ Takes("speech")
  /\ cut' = [cut EXCEPT !["provider"] = [NoCut EXCEPT !.item = current.item]]
  /\ passing' = Speech(Head(conn.events).response)
  /\ Go("provider", "drop")
  /\ UNCHANGED <<main, ctx, slot, ws, out, notify, delivered, current, interrupted, writing, world>>

\* Barge-in: interrupt, and then the client is told.
SpeechStarted ==
  /\ Takes("speech")
  /\ Mark("provider")
  /\ passing' = Speech(Head(conn.events).response)
  /\ Go("provider", "drop")
  /\ UNCHANGED <<main, ctx, slot, ws, out, notify, delivered, current, writing, world>>

ResponseCreated ==
  /\ Takes("created")
  /\ current' = [current EXCEPT !.response = Head(conn.events).response]
  /\ UNCHANGED <<main, ctx, slot, ws, loop, out, notify, delivered, interrupted, passing,
                 writing, cut, world>>

ResponseDone ==
  LET r == Head(conn.events).response IN
  /\ Takes("done")
  /\ interrupted' = interrupted \ {r}
  /\ current' = [current EXCEPT !.response = IF @ = r THEN NoResponse ELSE @]
  /\ passing' = Text
  /\ Go("provider", "push")
  /\ UNCHANGED <<main, ctx, slot, ws, out, notify, delivered, writing, cut, world>>

\* Mutant: a message that finds the outbox empty wakes nobody.
PushQuietly ==
  /\ At("provider", "push")
  /\ passing' = Nothing
  /\ IF Len(out) >= Capacity
       THEN Finish /\ Go("provider", "stopped") /\ UNCHANGED <<out, notify>>
       ELSE out' = Append(out, passing) /\ notify' = (notify \/ out # <<>>) /\ Go("provider", "select") /\ UNCHANGED ctx
  /\ UNCHANGED <<main, slot, ws, conn, delivered, current, interrupted, writing, cut, world>>

\* outbox.push, which wakes the writer; a full outbox ends the session.
Push ==
  /\ At("provider", "push")
  /\ passing' = Nothing
  /\ IF Len(out) >= Capacity
       THEN Finish /\ Go("provider", "stopped") /\ UNCHANGED <<out, notify>>
       ELSE out' = Append(out, passing) /\ notify' = TRUE /\ Go("provider", "select") /\ UNCHANGED ctx
  /\ UNCHANGED <<main, slot, ws, conn, delivered, current, interrupted, writing, cut, world>>

\* The events have ended: providerFailed.
EventsEnd ==
  /\ At("provider", "select")
  /\ conn.events = <<>> /\ At("readLoop", "stopped")
  /\ Finish
  /\ Go("provider", "stopped")
  /\ UNCHANGED <<main, slot, ws, conn, pipeline, world>>

\* A loop that waits sees the end of the context.
Stops(l) ==
  /\ ctx = "done"
  /\ At(l, "select") \/ At(l, "wait")
  /\ Go(l, "stopped")
  /\ UNCHANGED <<main, ctx, slot, ws, conn, pipeline, world>>

-----------------------------------------------------------------------------
(* writerLoop.                                                              *)

\* outbox.pop: the oldest message, or a wait; it looks at the context only then.
Pop ==
  /\ At("writer", "pop")
  /\ IF out # <<>>
       THEN writing' = Head(out) /\ out' = Tail(out) /\ Go("writer", "write")
       ELSE UNCHANGED <<writing, out>> /\ Go("writer", "wait")
  /\ UNCHANGED <<main, ctx, slot, ws, conn, notify, delivered, current, interrupted, passing, cut, world>>

Woken ==
  /\ At("writer", "wait")
  /\ notify /\ notify' = FALSE
  /\ Go("writer", "pop")
  /\ UNCHANGED <<main, ctx, slot, ws, conn, out, delivered, current, interrupted, passing, writing, cut, world>>

\* The client has got the message.
Write ==
  /\ At("writer", "write")
  /\ IF IsAudio(writing)
       THEN /\ heard' = [heard EXCEPT ![writing.response] = @ + 1]
            /\ Go("writer", "mark")
            /\ UNCHANGED <<quiet, writing>>
       ELSE /\ quiet' = IF writing.kind = "speech" THEN writing.response ELSE quiet
            /\ Go("writer", "pop")
            /\ writing' = Nothing
            /\ UNCHANGED heard
  /\ UNCHANGED <<main, ctx, slot, ws, conn, out, notify, delivered, current, interrupted,
                 passing, cut, provider, left>>

\* The client has gone or does not read.
WriteFails ==
  /\ At("writer", "write")
  /\ writing' = Nothing
  /\ Finish
  /\ Go("writer", "stopped")
  /\ UNCHANGED <<main, slot, ws, conn, out, notify, delivered, current, interrupted, passing, cut, world>>

\* Mutant: counts the chunk twice.
markDeliveredAhead ==
  /\ At("writer", "mark")
  /\ delivered' = [delivered EXCEPT ![writing.response] = @ + 2]
  /\ writing' = Nothing
  /\ Go("writer", "pop")
  /\ UNCHANGED <<main, ctx, slot, ws, conn, out, notify, current, interrupted, passing, cut, world>>

markDelivered ==
  /\ At("writer", "mark")
  /\ delivered' = [delivered EXCEPT ![writing.response] = @ + 1]
  /\ writing' = Nothing
  /\ Go("writer", "pop")
  /\ UNCHANGED <<main, ctx, slot, ws, conn, out, notify, current, interrupted, passing, cut, world>>

-----------------------------------------------------------------------------
(* readerLoop, upstreamLoop and watchdog.                                   *)

\* The client taps: interrupt, with CancelResponse if there is a response.
Tap ==
  /\ At("reader", "select") /\ ws
  /\ left.taps > 0
  /\ left' = [left EXCEPT !.taps = @ - 1]
  /\ Mark("reader")
  /\ Go("reader", "drop")
  /\ UNCHANGED <<main, ctx, slot, ws, conn, out, notify, delivered, current, passing, writing,
                 provider, heard, quiet>>

\* EndSession, a bad message, too much audio, or the socket is closed.
ReaderEnds ==
  /\ At("reader", "select")
  /\ Finish
  /\ Go("reader", "stopped")
  /\ UNCHANGED <<main, slot, ws, conn, pipeline, world>>

\* upstreamLoop cannot send the microphone's audio, or the watchdog has seen no
\* audio for too long or the session too old.
Breaks ==
  /\ main = "running" /\ ctx = "open"
  /\ Finish
  /\ UNCHANGED <<main, slot, ws, loop, conn, pipeline, world>>

-----------------------------------------------------------------------------

Main ==
  \/ StartFails \/ Acquire \/ ConnectFails \/ Connect \/ ReadyFails \/ Ready
  \/ Wait \/ Close \/ Final

ReadLoop == Put \/ (ReadLoopEnds /\ ~conn.open)

ProviderLoop ==
  \/ AudioDelta \/ SpeechStarted \/ ResponseCreated \/ ResponseDone
  \/ dropAudio("provider") \/ Truncate("provider")
  \/ Push \/ EventsEnd \/ Stops("provider")

WriterLoop == Pop \/ Woken \/ Write \/ WriteFails \/ markDelivered \/ Stops("writer")

ReaderLoop ==
  \/ dropAudio("reader") \/ Truncate("reader")
  \/ (ReaderEnds /\ ~ws)

\* What the user, the phone and the provider do, and the clock.
Environment ==
  \/ Creates \/ Speaks \/ Ends \/ HearsUser \/ ReadLoopEnds
  \/ Tap \/ ReaderEnds
  \/ Breaks \/ Shutdown

Next ==
  \/ Main \/ ReadLoop \/ ProviderLoop \/ WriterLoop \/ ReaderLoop
  \/ Environment

Spec == Init /\ [][Next]_vars

\* Every goroutine goes on; a write to a socket ends or times out.  Nobody has
\* to speak, tap, hang up or send an event.
FairSpec ==
  /\ Spec
  /\ WF_vars(Main) /\ WF_vars(ReadLoop) /\ WF_vars(ProviderLoop) /\ WF_vars(WriterLoop)
  /\ WF_vars(ReaderLoop)

-----------------------------------------------------------------------------
(* Properties.                                                              *)

\* Once the client has got SpeechStarted, no audio of a response from before it
\* arrives, although providerLoop, writerLoop and a tap all work on the outbox
\* and audio of the interrupted response is still on its way.
SilentOnceTold ==
  [][\A r \in Responses : heard'[r] # heard[r] => r > quiet]_vars

\* When the provider is told how much of an item the user has heard, that much
\* has reached the client, and at most two chunks more: the one in writerLoop's
\* hands, and one that providerLoop had let pass before the tap.
TruncateTrue ==
  \A w \in Interrupters : Truncates(w) =>
    LET n == heard[cut[w].item] IN
    cut[w].told <= n /\ n <= cut[w].told + (IF w = "reader" THEN 2 ELSE 1)

\* The session is over: its slot is free and no goroutine is left.
Stopped ==
  main = "over" /\ ~slot /\ \A l \in DOMAIN loop : At(l, "stopped")

\* What is in the outbox is written or dropped, and a session that somebody has
\* ended gives back its slot and leaves no goroutine behind: no message is
\* missed by a sleeping writer, and no loop waits for one that has stopped.
FlowsAndStops ==
  (out # <<>> \/ ctx = "done") ~> (Stopped \/ (out = <<>> /\ ctx = "open"))
=============================================================================
