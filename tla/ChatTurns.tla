----------------------------- MODULE ChatTurns -----------------------------
(***************************************************************************)
(* Prompts, threads and turns: what a chat is bound to, the handlers of    *)
(* the messages that change it, and the pump that carries codex's events   *)
(* back to the chats.                                                      *)
(*                                                                         *)
(* #handleMessage starts a handler per message and waits for none, so the  *)
(* handlers of one chat run at once, each cut at the awaits on codex's     *)
(* answers.  A handler captures the binding when it starts and, in places, *)
(* writes it back after an answer.  An answer runs its continuation before *)
(* the events read after it reach the pump (one microtask against the      *)
(* pump's several), so that codex's doing and the continuation are one     *)
(* step here.  Refusals that change nothing (a denied project, the rate    *)
(* limit, a pending approval) are not steps.                               *)
(*                                                                         *)
(* Codex's turns, and the codex process, are the environment.              *)
(***************************************************************************)
EXTENDS Naturals, FiniteSets

CONSTANTS
  Chat, Project,
  MaxHandler,                   \* bound on the messages handled at a time
  MaxThread, MaxTurn, MaxGen,   \* bounds on threads, turns and codex processes
  MaxMessage,                   \* bound on the messages users send
  Patient,                      \* the chats where users wait for a reply before they go on
  NoThread, NoTurn, NoChat

Handler == 1..MaxHandler
Thread == 1..MaxThread
Turn == 1..MaxTurn
Gen == 1..MaxGen

ASSUME TurnsAssumption ==
  /\ MaxThread \in Nat /\ MaxTurn \in Nat /\ MaxGen \in Nat \ {0}
  /\ MaxHandler \in Nat /\ MaxMessage \in Nat
  /\ NoThread \notin Thread /\ NoTurn \notin Turn /\ NoChat \notin Chat
  /\ Patient \subseteq Chat
  /\ Project \cap {"none", "plain"} = {}

VARIABLES
  route,      \* SessionRouter's cache, and thread_bindings
  received,   \* the messages so far
  call,       \* per handler: where it waits and the route it captured
  up, gen,    \* the codex process
  bootGen,    \* the first codex process of this run of the daemon
  nThread,    \* threads codex has created, ever
  loaded,     \* threads the current codex process knows
  turn,       \* codex's turns
  ends,       \* per process: turns whose end the normalizer holds
  pump,       \* per process: #ensureRuntimeEventPump
  handling,   \* per process: the end the pump is publishing
  output,     \* TurnOutputManager.#outputs
  posts       \* history: how often the result of a turn was published

codexVars == <<up, gen, bootGen, nThread, loaded, turn>>
eventVars == <<ends, pump, handling>>
outVars   == <<output, posts>>
chatVars  == <<received, route, call, codexVars, eventVars, outVars>>

Context == {"none", "plain"} \cup Project
Route == [ctx: Context, thread: Thread \cup {NoThread}, turn: Turn \cup {NoTurn}]
Unbound == [ctx |-> "none", thread |-> NoThread, turn |-> NoTurn]
BoundTo(x, th) == [ctx |-> x, thread |-> th, turn |-> NoTurn]

Idle == [pc |-> "idle", chat |-> NoChat, route |-> Unbound, gen |-> 0]

\* Where handlers wait for codex: threads being made, turns being started, and
\* the rest.
ThreadPc == {"defaultThread", "freshThread", "retryThread", "newThread", "newBare",
             "placeThread", "placeBare", "cuThread"}
TurnPc   == {"turn", "firstTurn", "retryTurn", "newTurn", "cuTurn"}
OtherPc  == {"steer", "list", "resume", "interrupt"}

ChatTypeOK ==
  /\ route \in [Chat -> Route]
  /\ received \in 0..MaxMessage
  /\ call \in [Handler -> [pc: {"idle"} \cup ThreadPc \cup TurnPc \cup OtherPc,
                           chat: Chat \cup {NoChat}, route: Route, gen: 0..MaxGen]]
  /\ up \in BOOLEAN /\ gen \in Gen /\ bootGen \in Gen
  /\ nThread \in 0..MaxThread /\ loaded \in SUBSET (1..nThread)
  /\ turn \in [Turn -> [state: {"none", "begun", "running", "ended"},
                        thread: Thread \cup {NoThread}, chat: Chat \cup {NoChat}, gen: 0..MaxGen]]
  /\ ends \in [Gen -> SUBSET Turn]
  /\ pump \in [Gen -> {"off", "on", "dead"}]
  /\ handling \in [Gen -> Turn \cup {NoTurn}]
  /\ output \in [Turn -> {"none", "open", "closing", "published"}]
  /\ posts \in [Turn -> 0..2]

ChatInit ==
  /\ route = [c \in Chat |-> Unbound]
  /\ received = 0
  /\ call = [h \in Handler |-> Idle]
  /\ up = TRUE /\ gen = 1 /\ bootGen = 1
  /\ nThread = 0 /\ loaded = {}
  /\ turn = [t \in Turn |-> [state |-> "none", thread |-> NoThread, chat |-> NoChat, gen |-> 0]]
  /\ ends = [g \in Gen |-> {}]
  /\ pump = [g \in Gen |-> "off"]
  /\ handling = [g \in Gen |-> NoTurn]
  /\ output = [t \in Turn |-> "none"]
  /\ posts = [t \in Turn |-> 0]

-----------------------------------------------------------------------------
(* Helpers                                                                 *)

\* A message of chat c is received; handlers are alike, so it takes the first.
Free(h, c) ==
  /\ call[h].pc = "idle" /\ \A o \in Handler : o < h => call[o].pc # "idle"
  /\ received < MaxMessage /\ received' = received + 1
  /\ c \in Patient => \A o \in Handler : call[o].chat # c

Await(h, c, pc, r) ==
  call' = [call EXCEPT ![h] = [pc |-> pc, chat |-> c, route |-> r, gen |-> gen]]
Done(h) == call' = [call EXCEPT ![h] = Idle]
Then(h, pc, r) == call' = [call EXCEPT ![h].pc = pc, ![h].route = r]

\* The process the handler has asked is still there to answer.
Answers(h) == up /\ call[h].gen = gen

\* codex makes a thread.
NewThread ==
  /\ nThread < MaxThread
  /\ nThread' = nThread + 1 /\ loaded' = loaded \cup {nThread + 1}

\* codex accepts turn/start, on a thread it knows, whether or not one runs there.
Begins(t, th, c) ==
  /\ th \in loaded
  /\ turn[t].state = "none" /\ \A o \in Turn : o < t => turn[o].state # "none"
  /\ turn' = [turn EXCEPT ![t] = [state |-> "begun", thread |-> th, chat |-> c, gen |-> gen]]

\* SessionRouter.bindThread: the current binding with another thread, its active
\* turn included.
Rebound(c, th) == [route[c] EXCEPT !.thread = th]

\* (mutant) The wrong empty value is written.
Released_Null(c, th, t) ==
  IF route[c].thread = th /\ route[c].turn = t
    THEN [route EXCEPT ![c].turn = NoThread] ELSE route

\* (mutant) Chats without a project are not looked up.
Released_ProjectOnly(c, th, t) ==
  IF route[c].thread = th /\ route[c].turn = t /\ route[c].ctx \in Project
    THEN [route EXCEPT ![c].turn = NoTurn] ELSE route

\* #clearTerminalActiveTurn: only if the chat is still on that thread and turn.
Released(c, th, t) ==
  IF route[c].thread = th /\ route[c].turn = t
    THEN [route EXCEPT ![c].turn = NoTurn] ELSE route

\* Publish the result of t: its state is taken from the map before the awaits.
Publish(t) ==
  /\ output' = [output EXCEPT ![t] = "published"]
  /\ posts' = [posts EXCEPT ![t] = @ + 1]

\* (mutant) /new is not one of the commands held back.
MayMove_NewFree(c, cmd) == cmd # "new" => route[c].turn = NoTurn

\* (mutant) /fork is not one of the commands held back.
MayMove_ForkFree(c, cmd) == cmd # "fork" => route[c].turn = NoTurn

\* #controlPlaneBlockMessage, asked once, when the command arrives.
MayMove(c, cmd) == route[c].turn = NoTurn

-----------------------------------------------------------------------------
(* Prompts                                                                 *)

\* #routePrompt up to its first await.  The runtime's pump starts here and
\* nowhere else.
Prompt(h, c) ==
  LET r == route[c] IN
  /\ Free(h, c) /\ up
  /\ pump' = [pump EXCEPT ![gen] = IF @ = "off" THEN "on" ELSE @]
  /\ Await(h, c, IF r.ctx = "none" THEN "defaultThread"
                 ELSE IF r.thread = NoThread THEN "freshThread"
                 ELSE IF r.turn # NoTurn THEN "steer" ELSE "turn", r)
  /\ UNCHANGED <<route, codexVars, ends, handling, outVars>>

\* turnSteer: whatever codex says, nobody is told.
Steered(h) ==
  /\ call[h].pc = "steer"
  /\ Done(h)
  /\ UNCHANGED <<received, route, codexVars, eventVars, outVars>>

\* #startDefaultCodexThread: an unbound chat gets a thread and is bound to it.
DefaultThread(h) ==
  LET r == BoundTo("plain", nThread + 1) IN
  /\ call[h].pc = "defaultThread" /\ Answers(h)
  /\ NewThread
  /\ route' = [route EXCEPT ![call[h].chat] = r]
  /\ Then(h, "firstTurn", r)
  /\ UNCHANGED <<received, up, gen, bootGen, turn, eventVars, outVars>>

\* #startFreshCodexThread (and /cu): the thread is bound to whatever the chat is
\* bound to by now, and the handler goes on with that, active turn included; only
\* the retry of a refused turn does not look at it.
FreshThread(h) ==
  LET c == call[h].chat
      r == Rebound(c, nThread + 1)
      cu == call[h].pc = "cuThread"
  IN
  /\ call[h].pc \in {"freshThread", "retryThread", "cuThread"} /\ Answers(h)
  /\ route[c].ctx # "none"
  /\ NewThread
  /\ route' = [route EXCEPT ![c] = r]
  /\ Then(h, IF call[h].pc = "retryThread" THEN "retryTurn"
             ELSE IF r.turn # NoTurn THEN "steer"
             ELSE IF cu THEN "cuTurn" ELSE "firstTurn", r)
  /\ UNCHANGED <<received, up, gen, bootGen, turn, eventVars, outVars>>

\* #bindActiveTurn writes the captured route back, with the turn.
BindActiveTurn(r, t) == [r EXCEPT !.turn = t]

\* turnStart has answered.  The prompt and /new open the output of the turn;
\* /cu does not.
TurnStarted(h, t) ==
  LET c == call[h].chat
      r == call[h].route
  IN
  /\ call[h].pc \in TurnPc /\ Answers(h)
  /\ Begins(t, r.thread, c)
  /\ route' = [route EXCEPT ![c] = BindActiveTurn(r, t)]
  /\ output' = IF call[h].pc = "cuTurn" THEN output ELSE [output EXCEPT ![t] = "open"]
  /\ Done(h)
  /\ UNCHANGED <<received, up, gen, bootGen, nThread, loaded, eventVars, posts>>

\* turnStart was refused, or answered too late: then codex runs a turn that no
\* chat knows.  A prompt on a thread of old is tried once more, on a new one.
TurnRefused(h) ==
  LET c == call[h].chat IN
  /\ call[h].pc \in TurnPc
  /\ \/ UNCHANGED turn
     \/ Answers(h) /\ \E t \in Turn : Begins(t, call[h].route.thread, c)
  /\ IF call[h].pc = "turn" THEN Then(h, "retryThread", call[h].route) ELSE Done(h)
  /\ UNCHANGED <<received, route, up, gen, bootGen, nThread, loaded, eventVars, outVars>>

\* Any other request that fails, times out or loses its codex, or whose result
\* cannot be stored, ends the handler.  A thread codex may have made all the same is
\* left out: no chat is bound to it.
RequestFails(h) ==
  /\ call[h].pc \in ThreadPc \cup {"list", "resume", "interrupt"}
  /\ Done(h)
  /\ UNCHANGED <<received, route, codexVars, eventVars, outVars>>

-----------------------------------------------------------------------------
(* Commands                                                                *)

\* /new in a bound chat, with a task or without: the turn is started on the new
\* thread under the context that was captured.
New(h, c, task) ==
  /\ Free(h, c) /\ up /\ MayMove(c, "new")
  /\ route[c].ctx # "none"
  /\ Await(h, c, IF task THEN "newThread" ELSE "newBare", route[c])
  /\ UNCHANGED <<route, codexVars, eventVars, outVars>>

NewThreadBound(h) ==
  LET c == call[h].chat IN
  /\ call[h].pc \in {"newThread", "newBare"} /\ Answers(h)
  /\ route[c].ctx # "none"
  /\ NewThread
  /\ route' = [route EXCEPT ![c] = Rebound(c, nThread + 1)]
  /\ IF call[h].pc = "newThread"
       THEN Then(h, "newTurn", [call[h].route EXCEPT !.thread = nThread + 1]) ELSE Done(h)
  /\ UNCHANGED <<received, up, gen, bootGen, turn, eventVars, outVars>>

\* /new in a configured project, or in the default context of an unbound chat.
NewInPlace(h, c, x, task) ==
  /\ Free(h, c) /\ up /\ MayMove(c, "new")
  /\ x \in Project \/ (x = "plain" /\ route[c].ctx = "none")
  /\ Await(h, c, IF task THEN "placeThread" ELSE "placeBare", BoundTo(x, NoThread))
  /\ UNCHANGED <<route, codexVars, eventVars, outVars>>

\* /fork: the chat moves to the fork, in the project of its source.
Fork(h, c, x) ==
  /\ Free(h, c) /\ up /\ MayMove(c, "fork")
  /\ x \in Project /\ nThread > 0
  /\ Await(h, c, "placeBare", BoundTo(x, NoThread))
  /\ UNCHANGED <<route, codexVars, eventVars, outVars>>

\* The new thread of /new or /fork replaces the chat's binding as a whole.
PlaceBound(h) ==
  LET r == BoundTo(call[h].route.ctx, nThread + 1) IN
  /\ call[h].pc \in {"placeThread", "placeBare"} /\ Answers(h)
  /\ NewThread
  /\ route' = [route EXCEPT ![call[h].chat] = r]
  /\ IF call[h].pc = "placeThread" THEN Then(h, "newTurn", r) ELSE Done(h)
  /\ UNCHANGED <<received, up, gen, bootGen, turn, eventVars, outVars>>

\* /use binds the chat to a project, at once.
Use(h, c, p) ==
  /\ Free(h, c) /\ MayMove(c, "use")
  /\ route' = [route EXCEPT ![c] = BoundTo(p, NoThread)]
  /\ UNCHANGED <<call, codexVars, eventVars, outVars>>

\* /switch first asks codex for its threads.
Switch(h, c) ==
  /\ Free(h, c) /\ up /\ MayMove(c, "switch")
  /\ Await(h, c, "list", route[c])
  /\ UNCHANGED <<route, codexVars, eventVars, outVars>>

\* The thread selected is one codex lists, any chat's, or one the chat has had.  It
\* is resumed, unless it is taken from the chat's own records and is the current
\* one; either way the chat is bound to it as it stands, without a turn.
Listed(h) ==
  LET c == call[h].chat IN
  /\ call[h].pc = "list" /\ Answers(h)
  /\ \E th \in 1..nThread, x \in Context \ {"none"} :
       LET current == route[c].thread = th /\ (x = "plain" \/ route[c].ctx = x) IN
       \/ /\ current
          /\ route' = [route EXCEPT ![c] = BoundTo(x, th)]
          /\ Done(h)
       \/ /\ ~current \/ x = "plain"
          /\ Then(h, "resume", BoundTo(x, th))
          /\ UNCHANGED route
  /\ UNCHANGED <<received, codexVars, eventVars, outVars>>

Resumed(h) ==
  /\ call[h].pc = "resume" /\ Answers(h)
  /\ loaded' = loaded \cup {call[h].route.thread}
  /\ route' = [route EXCEPT ![call[h].chat] = call[h].route]
  /\ Done(h)
  /\ UNCHANGED <<received, up, gen, bootGen, nThread, turn, eventVars, outVars>>

\* /stop, for the turn the chat is bound to.
Stop(h, c) ==
  /\ Free(h, c) /\ up
  /\ route[c].thread # NoThread /\ route[c].turn # NoTurn
  /\ Await(h, c, "interrupt", route[c])
  /\ UNCHANGED <<route, codexVars, eventVars, outVars>>

\* TurnOutputManager finds the state of a turn once: whoever comes first deletes it.
TakesOutput(t) == output[t] = "open"

\* turnInterrupt has answered: the turn is released and its output closed; its
\* end comes through the events as well.
Interrupted(h) ==
  LET c == call[h].chat
      th == call[h].route.thread
      t == call[h].route.turn
  IN
  /\ call[h].pc = "interrupt" /\ Answers(h)
  /\ turn[t].thread = th /\ turn[t].gen = gen
  /\ turn' = [turn EXCEPT ![t].state = "ended"]
  /\ ends' = [ends EXCEPT ![gen] = IF turn[t].state = "ended" THEN @ ELSE @ \cup {t}]
  /\ route' = Released(c, th, t)
  /\ IF TakesOutput(t) THEN Publish(t) ELSE UNCHANGED outVars
  /\ Done(h)
  /\ UNCHANGED <<received, up, gen, bootGen, nThread, loaded, pump, handling>>

\* /cu: steer, or start a turn, on a bound chat, without the pump.
ComputerUse(h, c) ==
  LET r == route[c] IN
  /\ Free(h, c) /\ up /\ r.ctx # "none"
  /\ Await(h, c, IF r.thread = NoThread THEN "cuThread"
                 ELSE IF r.turn # NoTurn THEN "steer" ELSE "cuTurn", r)
  /\ UNCHANGED <<route, codexVars, eventVars, outVars>>

-----------------------------------------------------------------------------
(* Codex                                                                   *)

\* turn/started reaches the normalizer, which from now on owes the turn an end.
Heard(t) ==
  /\ up /\ turn[t].state = "begun" /\ turn[t].gen = gen
  /\ turn' = [turn EXCEPT ![t].state = "running"]
  /\ UNCHANGED <<received, route, call, up, gen, bootGen, nThread, loaded, eventVars, outVars>>

TurnEnds(t) ==
  /\ up /\ turn[t].state = "running" /\ turn[t].gen = gen
  /\ turn' = [turn EXCEPT ![t].state = "ended"]
  /\ ends' = [ends EXCEPT ![gen] = @ \cup {t}]
  /\ UNCHANGED <<received, route, call, up, gen, bootGen, nThread, loaded, pump, handling, outVars>>

Dead == [t \in Turn |-> IF turn[t].state \in {"begun", "running"}
                          THEN [turn[t] EXCEPT !.state = "ended"] ELSE turn[t]]

\* codex exits: endOfStream ends the turns the normalizer has seen start.
CodexLost ==
  /\ up /\ up' = FALSE
  /\ turn' = Dead
  /\ ends' = [ends EXCEPT ![gen] = @ \cup {t \in Turn : turn[t].state = "running"}]
  /\ loaded' = {}
  /\ UNCHANGED <<received, route, call, gen, bootGen, nThread, pump, handling, outVars>>

CodexRespawned ==
  /\ ~up /\ gen < MaxGen
  /\ up' = TRUE /\ gen' = gen + 1
  /\ UNCHANGED <<received, route, call, bootGen, nThread, loaded, turn, eventVars, outVars>>

\* (mutant) The active turns are left in the table.
ClearActiveTurns_Not == route

\* BindingRepository.clearActiveTurns, before anything is received.
ClearActiveTurns == [c \in Chat |-> [route[c] EXCEPT !.turn = NoTurn]]

\* The daemon ends, with its codex and all it has in memory, and starts again.
DaemonRestarts ==
  /\ gen < MaxGen
  /\ up' = TRUE /\ gen' = gen + 1 /\ bootGen' = gen + 1
  /\ turn' = Dead /\ loaded' = {}
  /\ route' = ClearActiveTurns
  /\ call' = [h \in Handler |-> Idle]
  /\ ends' = [g \in Gen |-> {}]
  /\ pump' = [g \in Gen |-> "off"]
  /\ handling' = [g \in Gen |-> NoTurn]
  /\ output' = [t \in Turn |-> IF output[t] = "published" THEN output[t] ELSE "none"]
  /\ UNCHANGED <<received, nThread, posts>>

-----------------------------------------------------------------------------
(* The pump                                                                *)

\* (mutant) The state of the turn stays in the map while its end is published.
Taken_Kept(t) == "open"

\* What becomes of the state of a turn whose end is being published.
Taken(t) == "closing"

\* The pump of g takes an end; one without an output is passed over, and releases
\* nothing.
PumpTakes(g, t) ==
  /\ pump[g] = "on" /\ handling[g] = NoTurn /\ t \in ends[g]
  /\ ends' = [ends EXCEPT ![g] = @ \ {t}]
  /\ IF TakesOutput(t)
       THEN /\ output' = [output EXCEPT ![t] = Taken(t)]
            /\ handling' = [handling EXCEPT ![g] = t]
       ELSE UNCHANGED <<output, handling>>
  /\ UNCHANGED <<received, route, call, codexVars, pump, posts>>

\* The result is in the chat, and the turn is released.  A write to SQLite that
\* throws there ends the pump for good.
PumpPublishes(g) ==
  LET t == handling[g] IN
  /\ t # NoTurn /\ pump[g] = "on"
  /\ Publish(t)
  /\ handling' = [handling EXCEPT ![g] = NoTurn]
  /\ \/ /\ route' = Released(turn[t].chat, turn[t].thread, t)
        /\ UNCHANGED pump
     \/ /\ Released(turn[t].chat, turn[t].thread, t) # route
        /\ pump' = [pump EXCEPT ![g] = "dead"]
        /\ UNCHANGED route
  /\ UNCHANGED <<received, call, codexVars, ends>>

-----------------------------------------------------------------------------
Receive(h, c) ==
  \/ Prompt(h, c)
  \/ \E task \in BOOLEAN :
       New(h, c, task) \/ \E x \in Project \cup {"plain"} : NewInPlace(h, c, x, task)
  \/ \E p \in Project : Fork(h, c, p) \/ Use(h, c, p)
  \/ Switch(h, c)
  \/ Stop(h, c)
  \/ ComputerUse(h, c)

Continue(h) ==
  \/ Steered(h)
  \/ DefaultThread(h)
  \/ FreshThread(h)
  \/ \E t \in Turn : TurnStarted(h, t)
  \/ TurnRefused(h)
  \/ RequestFails(h)
  \/ NewThreadBound(h)
  \/ PlaceBound(h)
  \/ Listed(h)
  \/ Resumed(h)
  \/ Interrupted(h)

CodexNext ==
  \/ \E t \in Turn : Heard(t) \/ TurnEnds(t)
  \/ CodexLost
  \/ CodexRespawned

PumpNext(g) == (\E t \in Turn : PumpTakes(g, t)) \/ PumpPublishes(g)

ChatNext ==
  \/ \E h \in Handler, c \in Chat : Receive(h, c)
  \/ \E h \in Handler : Continue(h)
  \/ CodexNext
  \/ \E g \in Gen : PumpNext(g)
  \/ DaemonRestarts

ChatSpec == ChatInit /\ [][ChatNext]_chatVars

\* A request is answered or times out, and the pump goes on; codex need not end a
\* turn, and nobody has to write.
ChatFairness ==
  /\ \A h \in Handler : WF_chatVars(Continue(h))
  /\ WF_chatVars(\E g \in Gen : PumpNext(g))

FairChatSpec == ChatSpec /\ ChatFairness
-----------------------------------------------------------------------------
(* Properties                                                              *)

\* A chat is bound to no turn but one its own message started, in this run of the
\* daemon: threads are shared between chats by /switch, and bindings outlive the
\* process, but what a chat steers and stops is its own.
BoundTurnIsOurs ==
  \A c \in Chat : route[c].turn # NoTurn =>
    LET t == turn[route[c].turn] IN t.chat = c /\ t.gen >= bootGen

\* If users wait for their replies, the active turn is on the bound thread, so that
\* it can be steered, stopped and released.
ActiveTurnIsOnItsThread ==
  \A c \in Patient : route[c].turn # NoTurn =>
    turn[route[c].turn].thread = route[c].thread

\* The result of a turn is published once, though the pump and /stop may both come
\* upon it while the other waits for the platform.
OnePublication == \A t \in Turn : posts[t] <= 1

\* "Cannot change cwd or thread while a Codex turn is active": if users wait for
\* their replies, a chat keeps its turn until the turn has ended.
TurnStaysBound ==
  \A c \in Patient : LET t == route[c].turn IN
    t # NoTurn /\ turn[t].state # "ended" => route'[c].turn = t \/ turn'[t].state = "ended"
RunningTurnStaysBound == [][TurnStaysBound]_chatVars

\* An end the pump can see is published, and releases its chat (for users who
\* wait), unless a write fails there or the daemon goes down.
Visible(t) == \E g \in Gen : pump[g] = "on" /\ t \in ends[g] /\ output[t] = "open"
Settled(t) == posts[t] = 1 /\ \A c \in Patient : route[c].turn # t
PublishedAtLast ==
  \A t \in Turn : Visible(t) ~> Settled(t) \/ (\E g \in Gen : g = turn[t].gen /\ pump[g] # "on")

\* A chat whose turn has ended is released in the end: "Send /stop first or wait
\* for it to finish."
EndedTurnIsReleased ==
  \A c \in Chat, t \in Turn :
    route[c].turn = t /\ turn[t].state = "ended" ~> route[c].turn # t
=============================================================================
