--------------------------- MODULE ChatTurnsProofs ---------------------------
(***************************************************************************)
(* Proofs about ChatTurns, for any chats, handlers, threads, turns and     *)
(* codex processes: type correctness, that a chat is bound to no turn but  *)
(* its own, and that a result is published once.  For chats whose users    *)
(* wait for a reply, also that the active turn is on the bound thread and  *)
(* stays until it has ended.                                               *)
(*                                                                         *)
(* The inductive invariant is a conjunction by the groups of variables, so *)
(* that a step that leaves a group alone keeps its conjunct at sight.      *)
(***************************************************************************)
EXTENDS ChatTurns, TLAPS

Pc == {"idle"} \cup ThreadPc \cup TurnPc \cup OtherPc
CallRecord == [pc: Pc, chat: Chat \cup {NoChat}, route: Route, gen: 0..MaxGen]
TurnRecord == [state: {"none", "begun", "running", "ended"},
               thread: Thread \cup {NoThread}, chat: Chat \cup {NoChat}, gen: 0..MaxGen]

\* What a handler that waits has captured, with n threads made so far.
CallGood(x, n) ==
  /\ x \in CallRecord
  /\ x.pc # "idle" => x.chat \in Chat
  /\ x.pc = "resume" => x.route.thread \in 1..n /\ x.route.turn = NoTurn
  /\ x.pc = "interrupt" => x.route.turn \in Turn

EnvInv ==
  /\ received \in 0..MaxMessage
  /\ up \in BOOLEAN /\ gen \in Gen /\ bootGen \in Gen /\ bootGen <= gen
  /\ nThread \in 0..MaxThread /\ loaded \in SUBSET (1..nThread)

CallInv ==
  /\ DOMAIN call = Handler /\ call = [h \in Handler |-> call[h]]
  /\ \A h \in Handler : CallGood(call[h], nThread)

\* A turn codex has not begun is nobody's and has no output.
TurnInv ==
  /\ turn \in [Turn -> TurnRecord]
  /\ \A t \in Turn : turn[t].state = "none" => turn[t].chat = NoChat /\ output[t] = "none"

EventInv ==
  /\ ends \in [Gen -> SUBSET Turn]
  /\ pump \in [Gen -> {"off", "on", "dead"}]

RouteInv == route \in [Chat -> Route] /\ BoundTurnIsOurs

\* A result is published by the one who took the output out of the map.
OutInv ==
  /\ handling \in [Gen -> Turn \cup {NoTurn}]
  /\ output \in [Turn -> {"none", "open", "closing", "published"}]
  /\ posts \in [Turn -> 0..2]
  /\ \A t \in Turn : posts[t] = 0 \/ (posts[t] = 1 /\ output[t] = "published")
  /\ \A g \in Gen : handling[g] # NoTurn => output[handling[g]] = "closing"
  /\ \A g, k \in Gen : handling[g] = handling[k] /\ handling[g] # NoTurn => g = k

ChatInv == EnvInv /\ CallInv /\ TurnInv /\ EventInv /\ RouteInv /\ OutInv

LEMMA IdleGood == \A n \in Nat : CallGood(Idle, n)
  BY TurnsAssumption DEF CallGood, CallRecord, Idle, Pc, Unbound, Route, Context, ThreadPc, TurnPc, OtherPc

LEMMA InvImpliesType == ChatInv => ChatTypeOK
<1> SUFFICES ASSUME ChatInv PROVE ChatTypeOK
  OBVIOUS
<1>1. call \in [Handler -> CallRecord]
  BY DEF ChatInv, CallInv, CallGood
<1> QED BY <1>1 DEF ChatInv, EnvInv, TurnInv, EventInv, RouteInv, OutInv, ChatTypeOK, CallRecord,
     TurnRecord, Pc

LEMMA ChatInvInit == ChatInit => ChatInv
<1> SUFFICES ASSUME ChatInit PROVE ChatInv
  OBVIOUS
<1>1. EnvInv
  BY TurnsAssumption DEF ChatInit, EnvInv, Gen
<1>2. CallInv
  BY <1>1, IdleGood DEF ChatInit, CallInv, EnvInv
<1>3. TurnInv
  BY TurnsAssumption DEF ChatInit, TurnInv, TurnRecord
<1>4. EventInv
  BY DEF ChatInit, EventInv
<1>5. RouteInv
  BY DEF ChatInit, RouteInv, BoundTurnIsOurs, Unbound, Route, Context
<1>6. OutInv
  BY DEF ChatInit, OutInv
<1> QED BY <1>1, <1>2, <1>3, <1>4, <1>5, <1>6 DEF ChatInv

-----------------------------------------------------------------------------
(* What keeps the conjuncts                                                *)

\* One handler moves, while threads may be made.
LEMMA CallStep ==
  ASSUME CallInv, nThread \in Nat, nThread' \in Nat, nThread <= nThread',
         NEW h \in Handler, NEW x, CallGood(x, nThread'), call' = [call EXCEPT ![h] = x]
  PROVE  CallInv'
<1>1. \A o \in Handler : call'[o] = IF o = h THEN x ELSE call[o]
  BY DEF CallInv
<1>2. \A o \in Handler : CallGood(call[o], nThread')
  BY DEF CallInv, CallGood
<1>3. \A o \in Handler : CallGood(call'[o], nThread')
  BY <1>1, <1>2
<1>4. DOMAIN call' = Handler /\ call' = [o \in Handler |-> call'[o]]
  BY DEF CallInv
<1> QED BY <1>3, <1>4 DEF CallInv

\* The handler waits for something else, with another route.
LEMMA ThenStep ==
  ASSUME CallInv, nThread \in Nat, nThread' \in Nat, nThread <= nThread',
         NEW h \in Handler, NEW pc \in Pc, NEW r \in Route, Then(h, pc, r),
         call[h].pc # "idle", pc # "interrupt",
         pc = "resume" => r.thread \in 1..nThread' /\ r.turn = NoTurn
  PROVE  CallInv'
<1> DEFINE x == [call[h] EXCEPT !.pc = pc, !.route = r]
<1>1. call' = [call EXCEPT ![h] = x]
  BY DEF Then, CallInv
<1>2. call[h] \in CallRecord /\ call[h].chat \in Chat
  BY DEF CallInv, CallGood
<1>3. x \in CallRecord /\ x.pc = pc /\ x.route = r /\ x.chat = call[h].chat
  BY <1>2 DEF CallRecord
<1>4. CallGood(x, nThread')
  BY <1>2, <1>3 DEF CallGood
<1> HIDE DEF x
<1> QED BY <1>1, <1>4, CallStep

LEMMA DoneStep ==
  ASSUME CallInv, nThread \in Nat, nThread' \in Nat, nThread <= nThread',
         NEW h \in Handler, Done(h)
  PROVE  CallInv'
  BY CallStep, IdleGood DEF Done

\* One chat is bound anew: to no turn, to the one it was bound to, or to a turn of its own.
LEMMA RouteStep ==
  ASSUME RouteInv, NEW c \in Chat, NEW r \in Route, route' = [route EXCEPT ![c] = r],
         bootGen' = bootGen,
         \A t \in Turn : turn[t].chat \in Chat =>
            turn'[t].chat = turn[t].chat /\ turn'[t].gen = turn[t].gen,
         \/ r.turn \in {NoTurn, route[c].turn}
         \/ turn'[r.turn].chat = c /\ turn'[r.turn].gen >= bootGen
  PROVE  RouteInv'
<1>1. route' \in [Chat -> Route]
  BY DEF RouteInv
<1>2. ASSUME NEW d \in Chat, route'[d].turn # NoTurn
      PROVE  turn'[route'[d].turn].chat = d /\ turn'[route'[d].turn].gen >= bootGen'
  <2>1. \A t \in Turn : turn[t].chat = d =>
          turn'[t].chat = turn[t].chat /\ turn'[t].gen = turn[t].gen
    OBVIOUS
  <2>2. route[d].turn # NoTurn => route[d].turn \in Turn /\ turn[route[d].turn].chat = d
                                  /\ turn[route[d].turn].gen >= bootGen
    BY DEF RouteInv, BoundTurnIsOurs, Route
  <2>3. CASE d = c
    BY <1>2, <2>1, <2>2, <2>3 DEF RouteInv
  <2>4. CASE d # c
    BY <1>2, <2>1, <2>2, <2>4 DEF RouteInv
  <2> QED BY <2>3, <2>4
<1> QED BY <1>1, <1>2 DEF RouteInv, BoundTurnIsOurs

\* No chat is bound anew, while turns go on.
LEMMA RouteKept ==
  ASSUME RouteInv, route' = route, bootGen' = bootGen,
         \A t \in Turn : turn[t].chat \in Chat =>
            turn'[t].chat = turn[t].chat /\ turn'[t].gen = turn[t].gen
  PROVE  RouteInv'
  BY DEF RouteInv, BoundTurnIsOurs, Route

\* codex begins a turn nobody had.
LEMMA BeginStep ==
  ASSUME ChatInv, NEW t \in Turn, NEW th, NEW c \in Chat, Begins(t, th, c)
  PROVE  /\ turn' \in [Turn -> TurnRecord]
         /\ turn'[t].chat = c /\ turn'[t].gen = gen /\ turn'[t].state = "begun"
         /\ turn[t].chat = NoChat /\ output[t] = "none" /\ posts[t] = 0
         /\ \A o \in Turn \ {t} : turn'[o] = turn[o]
<1>1. th \in Thread
  BY TurnsAssumption DEF Begins, ChatInv, EnvInv, Thread
<1>2. gen \in 0..MaxGen
  BY TurnsAssumption DEF ChatInv, EnvInv, Gen
<1>3. [state |-> "begun", thread |-> th, chat |-> c, gen |-> gen] \in TurnRecord
  BY <1>1, <1>2 DEF TurnRecord
<1>4. turn[t].chat = NoChat /\ output[t] = "none"
  BY DEF Begins, ChatInv, TurnInv
<1>5. posts[t] = 0
  BY <1>4 DEF ChatInv, OutInv
<1> QED BY <1>3, <1>4, <1>5 DEF Begins, ChatInv, TurnInv

-----------------------------------------------------------------------------
(* Messages are received                                                   *)

\* A message whose handler comes to wait for codex.
LEMMA AwaitStep ==
  ASSUME ChatInv, NEW h \in Handler, NEW c \in Chat, NEW pc \in Pc, NEW r \in Route,
         Free(h, c), Await(h, c, pc, r), pc # "resume", pc = "interrupt" => r.turn \in Turn,
         UNCHANGED <<route, codexVars, ends, handling, outVars>>, pump' \in [Gen -> {"off", "on", "dead"}]
  PROVE  ChatInv'
<1> USE DEF ChatInv, codexVars, outVars
<1>1. EnvInv'
  BY TurnsAssumption DEF EnvInv, Free
<1>2. CallInv'
  <2> DEFINE x == [pc |-> pc, chat |-> c, route |-> r, gen |-> gen]
  <2>1. gen \in 0..MaxGen /\ nThread \in Nat
    BY TurnsAssumption DEF EnvInv, Gen
  <2>2. CallGood(x, nThread')
    BY <2>1 DEF CallGood, CallRecord
  <2>3. call' = [call EXCEPT ![h] = x]
    BY DEF Await
  <2>4. CallInv /\ nThread' = nThread /\ nThread <= nThread'
    BY <2>1
  <2> HIDE DEF x, ChatInv, codexVars, outVars
  <2> QED BY <2>1, <2>2, <2>3, <2>4, CallStep
<1>3. TurnInv' /\ EventInv' /\ OutInv'
  BY DEF TurnInv, EventInv, OutInv
<1>4. RouteInv'
  BY DEF RouteInv, BoundTurnIsOurs
<1> QED BY <1>1, <1>2, <1>3, <1>4

LEMMA ReceiveKeepsInv ==
  ASSUME ChatInv, NEW h \in Handler, NEW c \in Chat, Receive(h, c)
  PROVE  ChatInv'
<1> DEFINE Others == UNCHANGED <<route, codexVars, eventVars, outVars>>
<1>0. route[c] \in Route /\ pump \in [Gen -> {"off", "on", "dead"}]
  BY DEF ChatInv, RouteInv, EventInv
<1>1. \A x \in Project \cup {"plain"} : BoundTo(x, NoThread) \in Route
  BY DEF BoundTo, Route, Context
<1>2. ASSUME Prompt(h, c) PROVE ChatInv'
  <2>1. PICK pc \in {"defaultThread", "freshThread", "steer", "turn"} : Await(h, c, pc, route[c])
    BY <1>2 DEF Prompt
  <2>2. pump' \in [Gen -> {"off", "on", "dead"}]
    BY <1>0, <1>2 DEF Prompt
  <2>3. Free(h, c) /\ UNCHANGED <<route, codexVars, ends, handling, outVars>>
    BY <1>2 DEF Prompt
  <2>4. pc \in Pc /\ pc # "resume" /\ pc # "interrupt"
    BY DEF Pc, ThreadPc, TurnPc, OtherPc
  <2> QED BY <1>0, <2>1, <2>2, <2>3, <2>4, AwaitStep
<1>3. ASSUME NEW task \in BOOLEAN, New(h, c, task) PROVE ChatInv'
  <2>1. PICK pc \in {"newThread", "newBare"} : Await(h, c, pc, route[c])
    BY <1>3 DEF New
  <2>2. Free(h, c) /\ Others
    BY <1>3 DEF New
  <2>3. pc \in Pc /\ pc # "resume" /\ pc # "interrupt"
    BY DEF Pc, ThreadPc
  <2> QED BY <1>0, <2>1, <2>2, <2>3, AwaitStep DEF eventVars
<1>4. ASSUME NEW task \in BOOLEAN, NEW x \in Project \cup {"plain"}, NewInPlace(h, c, x, task)
      PROVE  ChatInv'
  <2>1. PICK pc \in {"placeThread", "placeBare"} : Await(h, c, pc, BoundTo(x, NoThread))
    BY <1>4 DEF NewInPlace
  <2>2. Free(h, c) /\ Others
    BY <1>4 DEF NewInPlace
  <2>3. pc \in Pc /\ pc # "resume" /\ pc # "interrupt"
    BY DEF Pc, ThreadPc
  <2> QED BY <1>0, <1>1, <2>1, <2>2, <2>3, AwaitStep DEF eventVars
<1>5. ASSUME NEW p \in Project, Fork(h, c, p) PROVE ChatInv'
  <2>1. "placeBare" \in Pc
    BY DEF Pc, ThreadPc
  <2> QED BY <1>0, <1>1, <1>5, <2>1, AwaitStep DEF Fork, eventVars
<1>6. ASSUME NEW p \in Project, Use(h, c, p) PROVE ChatInv'
  <2>1. BoundTo(p, NoThread) \in Route /\ BoundTo(p, NoThread).turn = NoTurn
    BY DEF BoundTo, Route, Context
  <2>2. RouteInv'
    BY <1>6, <2>1, RouteStep DEF Use, ChatInv, codexVars
  <2>3. EnvInv'
    BY <1>6, TurnsAssumption DEF Use, Free, ChatInv, EnvInv, codexVars
  <2>4. CallInv' /\ TurnInv'
    BY <1>6 DEF Use, ChatInv, CallInv, TurnInv, codexVars, outVars
  <2>5. EventInv' /\ OutInv'
    BY <1>6 DEF Use, ChatInv, EventInv, OutInv, eventVars, outVars
  <2> QED BY <2>2, <2>3, <2>4, <2>5 DEF ChatInv
<1>7. ASSUME Switch(h, c) PROVE ChatInv'
  <2>1. "list" \in Pc
    BY DEF Pc, OtherPc
  <2> QED BY <1>0, <1>7, <2>1, AwaitStep DEF Switch, eventVars
<1>8. ASSUME Stop(h, c) PROVE ChatInv'
  <2>1. "interrupt" \in Pc /\ route[c].turn \in Turn
    BY <1>0, <1>8 DEF Pc, OtherPc, Stop, Route
  <2> QED BY <1>0, <1>8, <2>1, AwaitStep DEF Stop, eventVars
<1>9. ASSUME ComputerUse(h, c) PROVE ChatInv'
  <2>1. PICK pc \in {"cuThread", "steer", "cuTurn"} : Await(h, c, pc, route[c])
    BY <1>9 DEF ComputerUse
  <2>2. Free(h, c) /\ Others
    BY <1>9 DEF ComputerUse
  <2>3. pc \in Pc /\ pc # "resume" /\ pc # "interrupt"
    BY DEF Pc, ThreadPc, TurnPc, OtherPc
  <2> QED BY <1>0, <2>1, <2>2, <2>3, AwaitStep DEF eventVars
<1> QED BY <1>2, <1>3, <1>4, <1>5, <1>6, <1>7, <1>8, <1>9 DEF Receive

-----------------------------------------------------------------------------
(* Handlers go on                                                          *)

\* codex has made a thread, and the chat is bound to it; the handler is done or goes on
\* to a turn.
LEMMA ThreadStep ==
  ASSUME ChatInv, NEW h \in Handler, call[h].pc # "idle", NewThread,
         NEW r \in Route, r.turn \in {NoTurn, route[call[h].chat].turn},
         route' = [route EXCEPT ![call[h].chat] = r],
         NEW pc \in TurnPc \cup {"steer"}, NEW s \in Route, Then(h, pc, s) \/ Done(h),
         UNCHANGED <<received, up, gen, bootGen, turn, eventVars, outVars>>
  PROVE  ChatInv'
<1>1. call[h].chat \in Chat
  BY DEF ChatInv, CallInv, CallGood
<1>2. nThread \in Nat /\ nThread' \in 0..MaxThread /\ nThread' = nThread + 1
  BY TurnsAssumption DEF ChatInv, EnvInv, NewThread
<1>3. EnvInv'
  <2>1. loaded \in SUBSET (1..nThread) /\ loaded' = loaded \cup {nThread + 1}
    BY DEF ChatInv, EnvInv, NewThread
  <2>2. 1..nThread \subseteq 1..nThread' /\ nThread + 1 \in 1..nThread'
    BY <1>2
  <2>3. loaded' \in SUBSET (1..nThread')
    BY <2>1, <2>2
  <2> QED BY <1>2, <2>3 DEF ChatInv, EnvInv
<1>4. CallInv'
  <2>1. pc \in Pc /\ pc # "resume" /\ pc # "interrupt"
    BY DEF Pc, TurnPc, OtherPc
  <2>2. CASE Then(h, pc, s)
    BY <1>2, <2>1, <2>2, ThenStep DEF ChatInv
  <2>3. CASE Done(h)
    BY <1>2, <2>3, DoneStep DEF ChatInv
  <2> QED BY <2>2, <2>3
<1>5. RouteInv'
  BY <1>1, RouteStep DEF ChatInv
<1>6. TurnInv' /\ EventInv' /\ OutInv'
  BY DEF ChatInv, TurnInv, EventInv, OutInv, eventVars, outVars
<1> QED BY <1>3, <1>4, <1>5, <1>6 DEF ChatInv

LEMMA ThreadsKeepInv ==
  ASSUME ChatInv, NEW h \in Handler,
         DefaultThread(h) \/ FreshThread(h) \/ NewThreadBound(h) \/ PlaceBound(h)
  PROVE  ChatInv'
<1>1. call[h].pc # "idle"
  BY DEF DefaultThread, FreshThread, NewThreadBound, PlaceBound
<1>2. call[h].chat \in Chat /\ call[h].route \in Route /\ route[call[h].chat] \in Route
  BY <1>1 DEF ChatInv, CallInv, CallGood, CallRecord, RouteInv
<1>3. NewThread
  BY DEF DefaultThread, FreshThread, NewThreadBound, PlaceBound
<1>4. nThread + 1 \in Thread
  BY <1>3, TurnsAssumption DEF NewThread, ChatInv, EnvInv, Thread
<1>5. /\ BoundTo("plain", nThread + 1) \in Route
      /\ BoundTo(call[h].route.ctx, nThread + 1) \in Route
      /\ BoundTo("plain", nThread + 1).turn = NoTurn
      /\ BoundTo(call[h].route.ctx, nThread + 1).turn = NoTurn
  BY <1>2, <1>4 DEF BoundTo, Route, Context
<1>6. /\ Rebound(call[h].chat, nThread + 1) \in Route
      /\ Rebound(call[h].chat, nThread + 1).turn = route[call[h].chat].turn
      /\ [call[h].route EXCEPT !.thread = nThread + 1] \in Route
  BY <1>2, <1>4 DEF Rebound, Route
<1>7. CASE DefaultThread(h)
  <2>1. "firstTurn" \in TurnPc
    BY DEF TurnPc
  <2> QED BY <1>1, <1>3, <1>5, <1>7, <2>1, ThreadStep DEF DefaultThread
<1>8. CASE FreshThread(h)
  <2>1. PICK pc \in TurnPc \cup {"steer"} : Then(h, pc, Rebound(call[h].chat, nThread + 1))
    BY <1>8 DEF FreshThread, TurnPc
  <2>2. route' = [route EXCEPT ![call[h].chat] = Rebound(call[h].chat, nThread + 1)]
    BY <1>8 DEF FreshThread
  <2>3. UNCHANGED <<received, up, gen, bootGen, turn, eventVars, outVars>>
    BY <1>8 DEF FreshThread
  <2> QED BY <1>1, <1>3, <1>6, <2>1, <2>2, <2>3, ThreadStep
<1>9. CASE NewThreadBound(h)
  <2>1. "newTurn" \in TurnPc
    BY DEF TurnPc
  <2>2. Then(h, "newTurn", [call[h].route EXCEPT !.thread = nThread + 1]) \/ Done(h)
    BY <1>9 DEF NewThreadBound
  <2>3. route' = [route EXCEPT ![call[h].chat] = Rebound(call[h].chat, nThread + 1)]
    BY <1>9 DEF NewThreadBound
  <2>4. UNCHANGED <<received, up, gen, bootGen, turn, eventVars, outVars>>
    BY <1>9 DEF NewThreadBound
  <2> QED BY <1>1, <1>3, <1>6, <2>1, <2>2, <2>3, <2>4, ThreadStep
<1>10. CASE PlaceBound(h)
  <2>1. "newTurn" \in TurnPc
    BY DEF TurnPc
  <2>2. Then(h, "newTurn", BoundTo(call[h].route.ctx, nThread + 1)) \/ Done(h)
    BY <1>10 DEF PlaceBound
  <2>3. route' = [route EXCEPT ![call[h].chat] = BoundTo(call[h].route.ctx, nThread + 1)]
    BY <1>10 DEF PlaceBound
  <2>4. UNCHANGED <<received, up, gen, bootGen, turn, eventVars, outVars>>
    BY <1>10 DEF PlaceBound
  <2> QED BY <1>1, <1>3, <1>5, <2>1, <2>2, <2>3, <2>4, ThreadStep
<1> QED BY <1>7, <1>8, <1>9, <1>10

\* Turns begin, with a handler that knows them or without.
LEMMA TurnStartedKeepsInv ==
  ASSUME ChatInv, NEW h \in Handler, NEW t \in Turn, TurnStarted(h, t)
  PROVE  ChatInv'
<1> DEFINE c == call[h].chat
           r == BindActiveTurn(call[h].route, t)
<1>1. c \in Chat /\ call[h].route \in Route
  BY DEF TurnStarted, TurnPc, ChatInv, CallInv, CallGood, CallRecord
<1>2. r \in Route /\ r.turn = t
  BY <1>1 DEF BindActiveTurn, Route
<1>3. /\ turn' \in [Turn -> TurnRecord]
      /\ turn'[t].chat = c /\ turn'[t].gen = gen /\ turn'[t].state = "begun"
      /\ turn[t].chat = NoChat /\ output[t] = "none" /\ posts[t] = 0
      /\ \A o \in Turn \ {t} : turn'[o] = turn[o]
  BY <1>1, BeginStep DEF TurnStarted
<1>4. EnvInv'
  BY DEF TurnStarted, ChatInv, EnvInv
<1>5. CallInv'
  BY DoneStep DEF TurnStarted, ChatInv, EnvInv
<1>6. \A o \in Turn : output'[o] = output[o] \/ (o = t /\ output'[o] = "open")
  BY DEF TurnStarted, ChatInv, OutInv
<1>7. TurnInv'
  BY <1>3, <1>6 DEF ChatInv, TurnInv
<1>8. EventInv'
  BY DEF TurnStarted, ChatInv, EventInv, eventVars
<1>9. RouteInv'
  <2>1. \A o \in Turn : turn[o].chat \in Chat =>
          turn'[o].chat = turn[o].chat /\ turn'[o].gen = turn[o].gen
    BY <1>3, TurnsAssumption
  <2>2. route' = [route EXCEPT ![c] = r] /\ bootGen' = bootGen
    BY DEF TurnStarted
  <2>3. turn'[r.turn].chat = c /\ turn'[r.turn].gen >= bootGen
    BY <1>2, <1>3 DEF ChatInv, EnvInv, Gen
  <2> HIDE DEF c, r
  <2> QED BY <1>1, <1>2, <2>1, <2>2, <2>3, RouteStep DEF ChatInv
<1>10. OutInv'
  <2>1. output' \in [Turn -> {"none", "open", "closing", "published"}]
    BY DEF TurnStarted, ChatInv, OutInv
  <2>2. UNCHANGED <<handling, posts>>
    BY DEF TurnStarted, eventVars
  <2> QED BY <1>3, <1>6, <2>1, <2>2 DEF ChatInv, OutInv
<1> QED BY <1>4, <1>5, <1>7, <1>8, <1>9, <1>10 DEF ChatInv

LEMMA TurnRefusedKeepsInv ==
  ASSUME ChatInv, NEW h \in Handler, TurnRefused(h)
  PROVE  ChatInv'
<1>1. call[h].chat \in Chat /\ call[h].route \in Route /\ call[h].pc # "idle"
  BY DEF TurnRefused, TurnPc, ChatInv, CallInv, CallGood, CallRecord
<1>2. EnvInv'
  BY DEF TurnRefused, ChatInv, EnvInv
<1>3. CallInv'
  <2>1. "retryThread" \in Pc
    BY DEF Pc, ThreadPc
  <2>2. nThread \in Nat /\ nThread' = nThread
    BY DEF TurnRefused, ChatInv, EnvInv
  <2>3. CASE Then(h, "retryThread", call[h].route)
    BY <1>1, <2>1, <2>2, <2>3, ThenStep DEF ChatInv
  <2>4. CASE Done(h)
    BY <2>2, <2>4, DoneStep DEF ChatInv
  <2> QED BY <2>3, <2>4 DEF TurnRefused
<1>4. /\ turn' \in [Turn -> TurnRecord]
      /\ \A o \in Turn : turn'[o] = turn[o] \/ (turn[o].chat = NoChat /\ turn'[o].state = "begun")
  <2>1. CASE UNCHANGED turn
    BY <2>1 DEF ChatInv, TurnInv
  <2>2. ASSUME NEW t \in Turn, Begins(t, call[h].route.thread, call[h].chat)
        PROVE  /\ turn' \in [Turn -> TurnRecord]
               /\ \A o \in Turn : turn'[o] = turn[o] \/ (turn[o].chat = NoChat /\ turn'[o].state = "begun")
    BY <1>1, <2>2, BeginStep
  <2> QED BY <2>1, <2>2 DEF TurnRefused
<1>5. TurnInv'
  BY <1>4 DEF TurnRefused, ChatInv, TurnInv, outVars
<1>6. RouteInv'
  BY <1>4, TurnsAssumption, RouteKept DEF TurnRefused, ChatInv
<1>7. EventInv' /\ OutInv'
  BY DEF TurnRefused, ChatInv, EventInv, OutInv, eventVars, outVars
<1> QED BY <1>2, <1>3, <1>5, <1>6, <1>7 DEF ChatInv

LEMMA QuietKeepsInv ==
  ASSUME ChatInv, NEW h \in Handler, Steered(h) \/ RequestFails(h)
  PROVE  ChatInv'
<1>1. Done(h) /\ UNCHANGED <<received, route, codexVars, eventVars, outVars>>
  BY DEF Steered, RequestFails
<1>2. EnvInv' /\ TurnInv'
  BY <1>1 DEF ChatInv, EnvInv, TurnInv, codexVars, outVars
<1>3. EventInv' /\ OutInv'
  BY <1>1 DEF ChatInv, EventInv, OutInv, eventVars, outVars
<1>4. nThread \in Nat /\ nThread' = nThread
  BY <1>1, TurnsAssumption DEF ChatInv, EnvInv, codexVars
<1>5. CallInv'
  BY <1>1, <1>4, DoneStep DEF ChatInv
<1>6. RouteInv'
  BY <1>1 DEF ChatInv, RouteInv, BoundTurnIsOurs, codexVars
<1> QED BY <1>2, <1>3, <1>5, <1>6 DEF ChatInv

LEMMA ListedKeepsInv ==
  ASSUME ChatInv, NEW h \in Handler, Listed(h)
  PROVE  ChatInv'
<1> DEFINE c == call[h].chat
<1>1. call[h].pc # "idle" /\ c \in Chat
  BY DEF Listed, ChatInv, CallInv, CallGood
<1>2. UNCHANGED <<received, codexVars, eventVars, outVars>>
  BY DEF Listed
<1>3. nThread \in Nat /\ nThread' = nThread /\ nThread <= MaxThread
  BY <1>2, TurnsAssumption DEF ChatInv, EnvInv, codexVars
<1>4. PICK th \in 1..nThread, x \in Context \ {"none"} :
         \/ route' = [route EXCEPT ![c] = BoundTo(x, th)] /\ Done(h)
         \/ Then(h, "resume", BoundTo(x, th)) /\ UNCHANGED route
  BY DEF Listed
<1>5. BoundTo(x, th) \in Route /\ BoundTo(x, th).turn = NoTurn /\ BoundTo(x, th).thread = th
  BY <1>3, TurnsAssumption DEF BoundTo, Route, Context, Thread
<1>6. EnvInv' /\ TurnInv'
  BY <1>2 DEF ChatInv, EnvInv, TurnInv, codexVars, outVars
<1>7. EventInv' /\ OutInv'
  BY <1>2 DEF ChatInv, EventInv, OutInv, eventVars, outVars
<1>8. turn' = turn /\ bootGen' = bootGen
  BY <1>2 DEF codexVars
<1>9. CASE route' = [route EXCEPT ![c] = BoundTo(x, th)] /\ Done(h)
  <2>1. CallInv'
    BY <1>3, <1>9, DoneStep DEF ChatInv
  <2>2. RouteInv'
    BY <1>1, <1>5, <1>8, <1>9, RouteStep DEF ChatInv
  <2> QED BY <1>6, <1>7, <2>1, <2>2 DEF ChatInv
<1>10. CASE Then(h, "resume", BoundTo(x, th)) /\ UNCHANGED route
  <2>1. "resume" \in Pc
    BY DEF Pc, OtherPc
  <2>2. CallInv'
    BY <1>1, <1>3, <1>5, <1>10, <2>1, ThenStep DEF ChatInv
  <2>3. RouteInv'
    BY <1>8, <1>10, RouteKept DEF ChatInv
  <2> QED BY <1>6, <1>7, <2>2, <2>3 DEF ChatInv
<1> QED BY <1>4, <1>9, <1>10

LEMMA ResumedKeepsInv ==
  ASSUME ChatInv, NEW h \in Handler, Resumed(h)
  PROVE  ChatInv'
<1> DEFINE c == call[h].chat
           r == call[h].route
<1>1. c \in Chat /\ r \in Route /\ r.thread \in 1..nThread /\ r.turn = NoTurn
  BY DEF Resumed, ChatInv, CallInv, CallGood, CallRecord
<1>2. EnvInv'
  BY <1>1 DEF Resumed, ChatInv, EnvInv
<1>3. nThread \in Nat /\ nThread' = nThread
  BY TurnsAssumption DEF Resumed, ChatInv, EnvInv
<1>4. CallInv'
  BY <1>3, DoneStep DEF Resumed, ChatInv
<1>5. turn' = turn /\ bootGen' = bootGen /\ route' = [route EXCEPT ![c] = r]
  BY DEF Resumed
<1>6. RouteInv'
  BY <1>1, <1>5, RouteStep DEF ChatInv
<1>7. TurnInv' /\ EventInv' /\ OutInv'
  BY DEF Resumed, ChatInv, TurnInv, EventInv, OutInv, eventVars, outVars
<1> QED BY <1>2, <1>4, <1>6, <1>7 DEF ChatInv

-----------------------------------------------------------------------------
(* Turns end                                                               *)

\* A chat may be released from a turn, whoever's it was.
LEMMA ReleasedStep ==
  ASSUME RouteInv, NEW c, NEW th, NEW t, route' = Released(c, th, t), bootGen' = bootGen,
         \A o \in Turn : turn[o].chat \in Chat =>
            turn'[o].chat = turn[o].chat /\ turn'[o].gen = turn[o].gen
  PROVE  RouteInv'
<1>1. CASE c \in Chat /\ route' = [route EXCEPT ![c].turn = NoTurn]
  <2> DEFINE r == [route[c] EXCEPT !.turn = NoTurn]
  <2>1. r \in Route /\ r.turn = NoTurn
    BY <1>1 DEF RouteInv, Route
  <2>2. route' = [route EXCEPT ![c] = r]
    BY <1>1
  <2> HIDE DEF r
  <2> QED BY <1>1, <2>1, <2>2, RouteStep
<1>2. CASE c \notin Chat \/ route' = route
  <2>1. route' = route
    BY <1>2 DEF Released, RouteInv
  <2> QED BY <2>1, RouteKept
<1> QED BY <1>1, <1>2 DEF Released

\* An output that is open or being closed by the pump itself is published.
LEMMA PublishStep ==
  ASSUME OutInv, NEW t \in Turn, Publish(t), handling' \in [Gen -> Turn \cup {NoTurn}],
         output[t] \in {"open", "closing"},
         \A g \in Gen : handling'[g] # NoTurn => handling'[g] = handling[g] /\ handling[g] # t
  PROVE  OutInv'
<1>1. posts[t] = 0
  BY DEF OutInv
<1>2. /\ output' \in [Turn -> {"none", "open", "closing", "published"}]
      /\ posts' \in [Turn -> 0..2]
      /\ output'[t] = "published" /\ posts'[t] = 1
      /\ \A o \in Turn \ {t} : output'[o] = output[o] /\ posts'[o] = posts[o]
  BY <1>1 DEF OutInv, Publish
<1> QED BY <1>2 DEF OutInv

LEMMA InterruptedKeepsInv ==
  ASSUME ChatInv, NEW h \in Handler, Interrupted(h)
  PROVE  ChatInv'
<1> DEFINE c == call[h].chat
           th == call[h].route.thread
           t == call[h].route.turn
<1>1. c \in Chat /\ t \in Turn
  BY DEF Interrupted, ChatInv, CallInv, CallGood
<1>2. EnvInv'
  BY DEF Interrupted, ChatInv, EnvInv
<1>3. CallInv'
  <2>1. nThread \in Nat /\ nThread' = nThread
    BY TurnsAssumption DEF Interrupted, ChatInv, EnvInv
  <2> QED BY <2>1, DoneStep DEF Interrupted, ChatInv
<1>4. /\ turn' \in [Turn -> TurnRecord]
      /\ \A o \in Turn : turn'[o].chat = turn[o].chat /\ turn'[o].gen = turn[o].gen
      /\ \A o \in Turn : turn'[o].state = "none" => turn[o].state = "none" /\ o # t
  BY <1>1 DEF Interrupted, ChatInv, TurnInv, TurnRecord
<1>5. \A o \in Turn : output'[o] = output[o] \/ o = t
  BY DEF Interrupted, Publish, outVars, ChatInv, OutInv
<1>6. TurnInv'
  BY <1>4, <1>5 DEF ChatInv, TurnInv
<1>7. EventInv'
  BY <1>1 DEF Interrupted, ChatInv, EventInv
<1>8. RouteInv'
  <2>1. route' = Released(c, th, t) /\ bootGen' = bootGen
    BY DEF Interrupted
  <2> HIDE DEF c, th, t
  <2> QED BY <1>4, <2>1, ReleasedStep DEF ChatInv
<1>9. OutInv'
  <2>1. handling' = handling
    BY DEF Interrupted
  <2>2. CASE TakesOutput(t) /\ Publish(t)
    BY <1>1, <2>1, <2>2, PublishStep DEF TakesOutput, ChatInv, OutInv
  <2>3. CASE UNCHANGED outVars
    BY <2>1, <2>3 DEF outVars, ChatInv, OutInv
  <2> QED BY <2>2, <2>3 DEF Interrupted
<1> QED BY <1>2, <1>3, <1>6, <1>7, <1>8, <1>9 DEF ChatInv

\* The turns go on, and codex's ends are told to the normalizer.
LEMMA EndsStep ==
  ASSUME ChatInv, turn' \in [Turn -> TurnRecord], EnvInv', nThread' = nThread, bootGen' = bootGen,
         \A t \in Turn : turn'[t].chat = turn[t].chat /\ turn'[t].gen = turn[t].gen
                         /\ (turn'[t].state = "none" => turn[t].state = "none"),
         ends' \in [Gen -> SUBSET Turn], UNCHANGED <<route, call, pump, handling, outVars>>
  PROVE  ChatInv'
<1>1. CallInv'
  BY DEF ChatInv, CallInv
<1>2. TurnInv'
  BY DEF ChatInv, TurnInv, outVars
<1>3. RouteInv'
  BY RouteKept DEF ChatInv
<1>4. EventInv' /\ OutInv'
  BY DEF ChatInv, EventInv, OutInv, outVars
<1> QED BY <1>1, <1>2, <1>3, <1>4 DEF ChatInv

LEMMA DeadTurns ==
  ASSUME ChatInv
  PROVE  /\ Dead \in [Turn -> TurnRecord]
         /\ \A t \in Turn : Dead[t].chat = turn[t].chat /\ Dead[t].gen = turn[t].gen
                            /\ (Dead[t].state = "none" => turn[t].state = "none")
  BY DEF Dead, ChatInv, TurnInv, TurnRecord

LEMMA CodexKeepsInv ==
  ASSUME ChatInv, CodexNext
  PROVE  ChatInv'
<1>0. gen \in Gen /\ MaxGen \in Nat
  BY TurnsAssumption DEF ChatInv, EnvInv
<1>1. ASSUME NEW t \in Turn, Heard(t) PROVE ChatInv'
  <2>1. EnvInv'
    BY <1>1 DEF Heard, ChatInv, EnvInv
  <2>2. /\ turn' \in [Turn -> TurnRecord]
        /\ \A o \in Turn : turn'[o].chat = turn[o].chat /\ turn'[o].gen = turn[o].gen
                           /\ (turn'[o].state = "none" => turn[o].state = "none")
    BY <1>1 DEF Heard, ChatInv, TurnInv, TurnRecord
  <2>3. ends' \in [Gen -> SUBSET Turn]
    BY <1>1 DEF Heard, eventVars, ChatInv, EventInv
  <2> QED BY <1>1, <2>1, <2>2, <2>3, EndsStep DEF Heard, eventVars
<1>2. ASSUME NEW t \in Turn, TurnEnds(t) PROVE ChatInv'
  <2>1. EnvInv'
    BY <1>2 DEF TurnEnds, ChatInv, EnvInv
  <2>2. /\ turn' \in [Turn -> TurnRecord]
        /\ \A o \in Turn : turn'[o].chat = turn[o].chat /\ turn'[o].gen = turn[o].gen
                           /\ (turn'[o].state = "none" => turn[o].state = "none")
    BY <1>2 DEF TurnEnds, ChatInv, TurnInv, TurnRecord
  <2>3. ends' \in [Gen -> SUBSET Turn]
    BY <1>0, <1>2 DEF TurnEnds, ChatInv, EventInv
  <2> QED BY <1>2, <2>1, <2>2, <2>3, EndsStep DEF TurnEnds
<1>3. ASSUME CodexLost PROVE ChatInv'
  <2>1. EnvInv'
    BY <1>3 DEF CodexLost, ChatInv, EnvInv
  <2>2. ends' \in [Gen -> SUBSET Turn]
    BY <1>0, <1>3 DEF CodexLost, ChatInv, EventInv
  <2> QED BY <1>3, <2>1, <2>2, DeadTurns, EndsStep DEF CodexLost
<1>4. ASSUME CodexRespawned PROVE ChatInv'
  <2>1. EnvInv'
    BY <1>0, <1>4 DEF CodexRespawned, ChatInv, EnvInv, Gen
  <2>2. turn' = turn /\ turn \in [Turn -> TurnRecord]
    BY <1>4 DEF CodexRespawned, ChatInv, TurnInv
  <2>3. ends' \in [Gen -> SUBSET Turn]
    BY <1>4 DEF CodexRespawned, eventVars, ChatInv, EventInv
  <2> QED BY <1>4, <2>1, <2>2, <2>3, EndsStep DEF CodexRespawned, eventVars
<1> QED BY <1>1, <1>2, <1>3, <1>4 DEF CodexNext

-----------------------------------------------------------------------------
(* The pump, and the restart                                               *)

LEMMA PumpTakesKeepsInv ==
  ASSUME ChatInv, NEW g \in Gen, NEW t \in Turn, PumpTakes(g, t)
  PROVE  ChatInv'
<1>1. EnvInv' /\ CallInv' /\ RouteInv'
  BY DEF PumpTakes, ChatInv, EnvInv, CallInv, RouteInv, BoundTurnIsOurs, codexVars
<1>2. EventInv'
  BY DEF PumpTakes, ChatInv, EventInv
<1>3. CASE TakesOutput(t)
  <2>1. /\ output' = [output EXCEPT ![t] = "closing"]
        /\ handling' = [handling EXCEPT ![g] = t]
        /\ handling[g] = NoTurn /\ output[t] = "open" /\ turn' = turn /\ posts' = posts
    BY <1>3 DEF PumpTakes, Taken, TakesOutput, codexVars
  <2>2. TurnInv'
    BY <2>1 DEF ChatInv, TurnInv, OutInv
  <2>3. OutInv'
    BY <2>1 DEF ChatInv, OutInv
  <2> QED BY <1>1, <1>2, <2>2, <2>3 DEF ChatInv
<1>4. CASE ~TakesOutput(t)
  <2>1. UNCHANGED <<output, handling, turn, posts>>
    BY <1>4 DEF PumpTakes, codexVars
  <2>2. TurnInv' /\ OutInv'
    BY <2>1 DEF ChatInv, TurnInv, OutInv
  <2> QED BY <1>1, <1>2, <2>2 DEF ChatInv
<1> QED BY <1>3, <1>4

LEMMA PumpPublishesKeepsInv ==
  ASSUME ChatInv, NEW g \in Gen, PumpPublishes(g)
  PROVE  ChatInv'
<1> DEFINE t == handling[g]
<1>1. t \in Turn /\ output[t] = "closing"
  BY DEF PumpPublishes, ChatInv, OutInv
<1>2. EnvInv' /\ CallInv'
  BY DEF PumpPublishes, ChatInv, EnvInv, CallInv, codexVars
<1>3. EventInv'
  BY DEF PumpPublishes, ChatInv, EventInv
<1>4. turn' = turn /\ bootGen' = bootGen /\ Publish(t)
  BY DEF PumpPublishes, codexVars
<1>5. TurnInv'
  BY <1>1, <1>4 DEF ChatInv, TurnInv, Publish, OutInv
<1>6. RouteInv'
  <2>1. route' = Released(turn[t].chat, turn[t].thread, t) \/ route' = route
    BY DEF PumpPublishes
  <2> HIDE DEF t
  <2> QED BY <1>4, <2>1, ReleasedStep, RouteKept DEF ChatInv
<1>7. OutInv'
  <2>1. handling' = [handling EXCEPT ![g] = NoTurn]
    BY DEF PumpPublishes
  <2>2. handling' \in [Gen -> Turn \cup {NoTurn}]
    BY <2>1 DEF ChatInv, OutInv
  <2>3. \A k \in Gen : handling'[k] # NoTurn => handling'[k] = handling[k] /\ handling[k] # t
    BY <1>1, <2>1, TurnsAssumption DEF ChatInv, OutInv
  <2> HIDE DEF t
  <2> QED BY <1>1, <1>4, <2>2, <2>3, PublishStep DEF ChatInv
<1> QED BY <1>2, <1>3, <1>5, <1>6, <1>7 DEF ChatInv

LEMMA RestartKeepsInv ==
  ASSUME ChatInv, DaemonRestarts
  PROVE  ChatInv'
<1>1. EnvInv'
  BY TurnsAssumption DEF DaemonRestarts, ChatInv, EnvInv, Gen
<1>2. CallInv'
  BY <1>1, TurnsAssumption, IdleGood DEF DaemonRestarts, CallInv, EnvInv
<1>3. turn' = Dead
  BY DEF DaemonRestarts
<1>4. /\ output' \in [Turn -> {"none", "open", "closing", "published"}]
      /\ \A t \in Turn : output'[t] = IF output[t] = "published" THEN output[t] ELSE "none"
  BY DEF DaemonRestarts, ChatInv, OutInv
<1>5. TurnInv'
  BY <1>3, <1>4, DeadTurns DEF ChatInv, TurnInv
<1>6. EventInv'
  BY DEF DaemonRestarts, EventInv
<1>7. RouteInv'
  <2>1. \A c \in Chat : [route[c] EXCEPT !.turn = NoTurn] \in Route
    BY DEF ChatInv, RouteInv, Route
  <2>2. route' = [c \in Chat |-> [route[c] EXCEPT !.turn = NoTurn]]
    BY DEF DaemonRestarts, ClearActiveTurns
  <2>3. \A c \in Chat : route[c] \in Route
    BY DEF ChatInv, RouteInv
  <2>4. \A c \in Chat : route'[c].turn = NoTurn
    BY <2>2, <2>3 DEF Route
  <2> QED BY <2>1, <2>2, <2>4 DEF RouteInv, BoundTurnIsOurs
<1>8. OutInv'
  <2>1. handling' = [g \in Gen |-> NoTurn] /\ posts' = posts
    BY DEF DaemonRestarts
  <2> QED BY <1>4, <2>1 DEF ChatInv, OutInv
<1> QED BY <1>1, <1>2, <1>5, <1>6, <1>7, <1>8 DEF ChatInv

-----------------------------------------------------------------------------
(* The theorems                                                            *)

LEMMA ChatStepKeepsInv == ChatInv /\ [ChatNext]_chatVars => ChatInv'
<1> SUFFICES ASSUME ChatInv, [ChatNext]_chatVars PROVE ChatInv'
  OBVIOUS
<1>1. ASSUME NEW h \in Handler, NEW c \in Chat, Receive(h, c) PROVE ChatInv'
  BY <1>1, ReceiveKeepsInv
<1>2. ASSUME NEW h \in Handler, Continue(h) PROVE ChatInv'
  BY <1>2, QuietKeepsInv, ThreadsKeepInv, TurnStartedKeepsInv, TurnRefusedKeepsInv,
     ListedKeepsInv, ResumedKeepsInv, InterruptedKeepsInv DEF Continue
<1>3. ASSUME NEW g \in Gen, PumpNext(g) PROVE ChatInv'
  BY <1>3, PumpTakesKeepsInv, PumpPublishesKeepsInv DEF PumpNext
<1>4. ASSUME UNCHANGED chatVars PROVE ChatInv'
  <2>1. EnvInv' /\ CallInv' /\ TurnInv'
    BY <1>4 DEF chatVars, codexVars, outVars, ChatInv, EnvInv, CallInv, TurnInv
  <2>2. EventInv' /\ RouteInv' /\ OutInv'
    BY <1>4 DEF chatVars, codexVars, eventVars, outVars, ChatInv, EventInv, RouteInv,
       BoundTurnIsOurs, OutInv
  <2> QED BY <2>1, <2>2 DEF ChatInv
<1> QED BY <1>1, <1>2, <1>3, <1>4, CodexKeepsInv, RestartKeepsInv DEF ChatNext

\* The inductive invariant holds of every behaviour of the handlers, codex, the pump
\* and the daemon's restarts.
THEOREM ChatInvariance == ChatSpec => []ChatInv
<1>1. ChatInit => ChatInv
  BY ChatInvInit
<1>2. ChatInv /\ [ChatNext]_chatVars => ChatInv'
  BY ChatStepKeepsInv
<1> QED BY <1>1, <1>2, PTL DEF ChatSpec

\* What #routePrompt, the commands and the pump keep has its type.
THEOREM ChatTypeCorrect == ChatSpec => []ChatTypeOK
<1>1. ChatInv => ChatTypeOK
  BY InvImpliesType
<1> QED BY <1>1, ChatInvariance, PTL

\* A chat is bound to no turn but one that its own message started since the daemon
\* came up: #bindActiveTurn writes back only what its own handler captured, and
\* clearActiveTurns runs before anything is received.
THEOREM BoundTurnsAreOurs == ChatSpec => []BoundTurnIsOurs
<1>1. ChatInv => BoundTurnIsOurs
  BY DEF ChatInv, RouteInv
<1> QED BY <1>1, ChatInvariance, PTL

\* The pump and /stop never publish the result of a turn twice between them:
\* whoever deletes the state of the turn from #outputs publishes, the other passes.
THEOREM PublishedOnce == ChatSpec => []OnePublication
<1>1. ChatInv => OnePublication
  <2> SUFFICES ASSUME ChatInv, NEW t \in Turn PROVE posts[t] <= 1
    BY DEF OnePublication
  <2>1. posts[t] = 0 \/ posts[t] = 1
    BY DEF ChatInv, OutInv
  <2> QED BY <2>1
<1> QED BY <1>1, ChatInvariance, PTL
-----------------------------------------------------------------------------
(* Chats whose users wait for a reply                                      *)

\* Where a handler is about to move its chat or to start a turn there, and where it
\* holds a binding that it will write.
Moving == ThreadPc \cup TurnPc \cup {"list", "resume"}
Placed == {"newThread", "newBare", "placeThread", "placeBare", "resume"} \cup TurnPc

\* No two handlers work for a chat whose users wait.
AloneInv ==
  /\ \A h, o \in Handler : call[h].chat \in Patient /\ call[o].chat = call[h].chat => o = h
  /\ \A h \in Handler : call[h].pc = "idle" => call[h].chat = NoChat

\* While one is about to move the chat, no turn is active there: the handler's word on
\* the captured route still holds after the await.
MovingInv ==
  \A h \in Handler :
    /\ call[h].pc \in Placed => call[h].route.ctx # "none"
    /\ call[h].chat \in Patient /\ call[h].pc \in Moving => route[call[h].chat].turn = NoTurn

PlaceInv ==
  /\ ActiveTurnIsOnItsThread
  /\ \A c \in Patient : route[c].ctx = "none" => route[c].turn = NoTurn

\* A turn codex has begun is on a thread.
OnThread(x) == x.thread \in Thread \/ (x.state = "none" /\ x.gen = 0)

\* What the normalizer and the pump hold as ended has ended.
EndedInv ==
  /\ \A t \in Turn : OnThread(turn[t])
  /\ \A g \in Gen : \A t \in ends[g] : turn[t].state = "ended"
  /\ \A g \in Gen : handling[g] # NoTurn => turn[handling[g]].state = "ended"

PatientInv == AloneInv /\ MovingInv /\ PlaceInv /\ EndedInv

\* The active turn of a chat is one that codex has begun.
LEMMA ActiveTurnHasBegun ==
  ASSUME ChatInv, NEW c \in Chat, route[c].turn # NoTurn
  PROVE  /\ route[c].turn \in Turn /\ turn[route[c].turn].chat = c
         /\ turn[route[c].turn].state # "none"
<1>1. route[c].turn \in Turn /\ turn[route[c].turn].chat = c
  BY DEF ChatInv, RouteInv, BoundTurnIsOurs, Route
<1>2. c # NoChat
  BY TurnsAssumption
<1> QED BY <1>1, <1>2 DEF ChatInv, TurnInv

\* A handler that is alone on its chat moves it.
LEMMA HandlerMoves ==
  ASSUME ChatInv, PatientInv, NEW h \in Handler, NEW c \in Chat,
         c \in Patient => \A o \in Handler : call[o].chat = c => o = h,
         \A o \in Handler \ {h} : call'[o] = call[o],
         call'[h].chat \in {NoChat, c}, call'[h].pc = "idle" => call'[h].chat = NoChat,
         call'[h].pc \in Placed => call'[h].route.ctx # "none",
         \A d \in Chat \ {c} : route'[d] = route[d],
         c \in Patient /\ call'[h].chat = c /\ call'[h].pc \in Moving => route'[c].turn = NoTurn,
         c \in Patient /\ route'[c].turn # NoTurn =>
            route'[c].ctx # "none" /\ turn'[route'[c].turn].thread = route'[c].thread,
         \A t \in Turn : turn[t].chat \in Chat => turn'[t].thread = turn[t].thread
  PROVE  AloneInv' /\ MovingInv' /\ PlaceInv'
<1>3. NoChat \notin Patient /\ Patient \subseteq Chat
  BY TurnsAssumption
<1>4. AloneInv'
  BY <1>3 DEF PatientInv, AloneInv
<1>5. MovingInv'
  <2> SUFFICES ASSUME NEW o \in Handler
               PROVE  /\ call'[o].pc \in Placed => call'[o].route.ctx # "none"
                      /\ call'[o].chat \in Patient /\ call'[o].pc \in Moving
                           => route'[call'[o].chat].turn = NoTurn
    BY DEF MovingInv
  <2>1. CASE o = h
    BY <1>3, <2>1
  <2>2. CASE o # h
    <3>1. call'[o] = call[o]
      BY <2>2
    <3>2. call[o].chat \in Patient => call[o].chat \in Chat \ {c}
      BY <1>3, <2>2
    <3> QED BY <3>1, <3>2 DEF PatientInv, MovingInv
  <2> QED BY <2>1, <2>2
<1>6. PlaceInv'
  <2> SUFFICES ASSUME NEW d \in Patient, route'[d].turn # NoTurn
               PROVE  route'[d].ctx # "none" /\ turn'[route'[d].turn].thread = route'[d].thread
    BY DEF PlaceInv, ActiveTurnIsOnItsThread
  <2>1. CASE d = c
    BY <2>1
  <2>2. CASE d # c
    <3>1. d \in Chat /\ route'[d] = route[d]
      BY <1>3, <2>2
    <3>2. route[d].turn \in Turn /\ turn[route[d].turn].chat = d
      BY <3>1, ActiveTurnHasBegun
    <3>3. route[d].ctx # "none" /\ turn[route[d].turn].thread = route[d].thread
      BY <3>1 DEF PatientInv, PlaceInv, ActiveTurnIsOnItsThread
    <3>4. turn'[route[d].turn].thread = turn[route[d].turn].thread
      BY <3>1, <3>2
    <3> QED BY <3>1, <3>3, <3>4
  <2> QED BY <2>1, <2>2
<1> QED BY <1>4, <1>5, <1>6

\* Handlers are done, chats are released from their turns.
LEMMA ReleasesKeep ==
  ASSUME ChatInv, PatientInv,
         \A h \in Handler : call'[h] = call[h] \/ call'[h] = Idle,
         \A c \in Chat : route'[c] = route[c] \/ route'[c] = [route[c] EXCEPT !.turn = NoTurn],
         \A t \in Turn : turn[t].chat \in Chat => turn'[t].thread = turn[t].thread
  PROVE  AloneInv' /\ MovingInv' /\ PlaceInv'
<1>1. NoChat \notin Patient /\ Patient \subseteq Chat
  BY TurnsAssumption
<1>2. Idle.chat = NoChat /\ Idle.pc = "idle" /\ "idle" \notin Placed
  BY DEF Idle, Placed, TurnPc
<1>3. AloneInv'
  BY <1>1, <1>2 DEF PatientInv, AloneInv
<1>4. \A c \in Chat : route[c] \in Route
  BY DEF ChatInv, RouteInv
<1>5. \A c \in Chat : /\ route'[c].turn = NoTurn \/ route'[c].turn = route[c].turn
                      /\ route'[c].thread = route[c].thread /\ route'[c].ctx = route[c].ctx
  BY <1>4 DEF Route
<1>6. MovingInv'
  <2> SUFFICES ASSUME NEW o \in Handler, call'[o] = call[o]
               PROVE  /\ call'[o].pc \in Placed => call'[o].route.ctx # "none"
                      /\ call'[o].chat \in Patient /\ call'[o].pc \in Moving
                           => route'[call'[o].chat].turn = NoTurn
    BY <1>1, <1>2 DEF MovingInv
  <2> QED BY <1>1, <1>5 DEF PatientInv, MovingInv
<1>7. PlaceInv'
  <2> SUFFICES ASSUME NEW d \in Patient, route'[d].turn # NoTurn
               PROVE  route'[d].ctx # "none" /\ turn'[route'[d].turn].thread = route'[d].thread
    BY DEF PlaceInv, ActiveTurnIsOnItsThread
  <2>1. d \in Chat /\ route'[d].turn = route[d].turn
    BY <1>1, <1>5
  <2>2. route[d].turn \in Turn /\ turn[route[d].turn].chat = d
    BY <2>1, ActiveTurnHasBegun
  <2>3. route[d].ctx # "none" /\ turn[route[d].turn].thread = route[d].thread
    BY <2>1 DEF PatientInv, PlaceInv, ActiveTurnIsOnItsThread
  <2> QED BY <1>5, <2>1, <2>2, <2>3
<1> QED BY <1>3, <1>6, <1>7

\* A chat may be released.
LEMMA ReleasedShape ==
  ASSUME ChatInv, NEW c, NEW th, NEW t
  PROVE  \A d \in Chat : \/ Released(c, th, t)[d] = route[d]
                         \/ /\ Released(c, th, t)[d] = [route[d] EXCEPT !.turn = NoTurn]
                            /\ route[d].turn = t
  BY DEF Released, ChatInv, RouteInv

\* Turns go on to their end, and their ends to the pump.
LEMMA EndsKeep ==
  ASSUME ChatInv, PatientInv,
         \A t \in Turn : turn[t].state = "ended" => turn'[t].state = "ended",
         \A t \in Turn : OnThread(turn'[t]),
         \A g \in Gen : \A t \in ends'[g] : t \in ends[g] \/ turn'[t].state = "ended",
         \A g \in Gen : handling'[g] \in {NoTurn, handling[g]} \/ handling'[g] \in ends[g]
  PROVE  EndedInv'
<1>1. \A g \in Gen : ends[g] \subseteq Turn /\ handling[g] \in Turn \cup {NoTurn}
  BY DEF ChatInv, EventInv, OutInv
<1> QED BY <1>1 DEF PatientInv, EndedInv

LEMMA PatientInvInit == ChatInit => PatientInv
<1> SUFFICES ASSUME ChatInit PROVE PatientInv
  OBVIOUS
<1>1. NoChat \notin Patient /\ Patient \subseteq Chat
  BY TurnsAssumption
<1>2. AloneInv /\ MovingInv
  BY <1>1 DEF ChatInit, AloneInv, MovingInv, Idle, Placed, TurnPc
<1>3. PlaceInv
  BY <1>1 DEF ChatInit, PlaceInv, ActiveTurnIsOnItsThread, Unbound
<1>4. EndedInv
  BY DEF ChatInit, EndedInv, OnThread
<1> QED BY <1>2, <1>3, <1>4 DEF PatientInv

\* The turns, their ends and the pump's stay as they are.
LEMMA EndedKept ==
  ASSUME ChatInv, PatientInv, UNCHANGED <<turn, ends, handling>>
  PROVE  EndedInv'
<1>1. \A t \in Turn : OnThread(turn[t])
  BY DEF PatientInv, EndedInv
<1> QED BY <1>1, EndsKeep

\* A message whose handler comes to wait for codex.
LEMMA AwaitKeepsPatience ==
  ASSUME ChatInv, PatientInv, NEW h \in Handler, NEW c \in Chat, NEW pc \in Pc, NEW r,
         Free(h, c), Await(h, c, pc, r), pc # "idle",
         UNCHANGED <<route, codexVars, ends, handling, outVars>>,
         pc \in Placed => r.ctx # "none",
         c \in Patient /\ pc \in Moving => route[c].turn = NoTurn
  PROVE  PatientInv'
<1>1. /\ call'[h].pc = pc /\ call'[h].chat = c /\ call'[h].route = r
      /\ \A o \in Handler \ {h} : call'[o] = call[o]
  BY DEF Await, ChatInv, CallInv
<1>2. turn' = turn /\ route' = route
  BY DEF codexVars
<1>3. c \in Patient => \A o \in Handler : call[o].chat = c => o = h
  BY DEF Free
<1>4. c \in Patient /\ route'[c].turn # NoTurn =>
        route'[c].ctx # "none" /\ turn'[route'[c].turn].thread = route'[c].thread
  BY <1>2 DEF PatientInv, PlaceInv, ActiveTurnIsOnItsThread
<1>5. /\ call'[h].chat \in {NoChat, c} /\ (call'[h].pc = "idle" => call'[h].chat = NoChat)
      /\ call'[h].pc \in Placed => call'[h].route.ctx # "none"
      /\ c \in Patient /\ call'[h].chat = c /\ call'[h].pc \in Moving => route'[c].turn = NoTurn
  BY <1>1, <1>2
<1>6. /\ \A t \in Turn : turn[t].chat \in Chat => turn'[t].thread = turn[t].thread
      /\ \A d \in Chat \ {c} : route'[d] = route[d]
  BY <1>2
<1>7. AloneInv' /\ MovingInv' /\ PlaceInv'
  BY <1>1, <1>3, <1>4, <1>5, <1>6, HandlerMoves
<1>8. EndedInv'
  BY EndedKept DEF codexVars
<1> QED BY <1>7, <1>8 DEF PatientInv

LEMMA ReceiveKeepsPatience ==
  ASSUME ChatInv, PatientInv, NEW h \in Handler, NEW c \in Chat, Receive(h, c)
  PROVE  PatientInv'
<1> DEFINE Others == UNCHANGED <<route, codexVars, eventVars, outVars>>
<1>0. ASSUME c \in Patient
      PROVE  /\ route[c].ctx = "none" => route[c].turn = NoTurn
             /\ route[c].thread = NoThread => route[c].turn = NoTurn
  <2>1. ASSUME route[c].turn # NoTurn PROVE route[c].thread # NoThread
    <3>1. turn[route[c].turn].thread \in Thread
      BY <2>1, ActiveTurnHasBegun DEF PatientInv, EndedInv, OnThread
    <3>2. turn[route[c].turn].thread = route[c].thread
      BY <1>0, <2>1 DEF PatientInv, PlaceInv, ActiveTurnIsOnItsThread
    <3> QED BY <3>1, <3>2, TurnsAssumption
  <2> QED BY <1>0, <2>1 DEF PatientInv, PlaceInv
<1>1. \A x \in Project \cup {"plain"} : BoundTo(x, NoThread).ctx # "none"
  BY TurnsAssumption DEF BoundTo
<1>2. ASSUME Prompt(h, c) PROVE PatientInv'
  <2>1. PICK pc \in {"defaultThread", "freshThread", "steer", "turn"} :
           /\ Await(h, c, pc, route[c])
           /\ pc = "defaultThread" => route[c].ctx = "none"
           /\ pc = "freshThread" => route[c].thread = NoThread
           /\ pc = "turn" => route[c].turn = NoTurn /\ route[c].ctx # "none"
    BY <1>2 DEF Prompt
  <2>2. Free(h, c) /\ UNCHANGED <<route, codexVars, ends, handling, outVars>>
    BY <1>2 DEF Prompt
  <2>3. pc \in Pc /\ pc # "idle" /\ (pc \in Placed => pc = "turn") /\ (pc \in Moving => pc # "steer")
    BY DEF Pc, ThreadPc, TurnPc, OtherPc, Placed, Moving
  <2> QED BY <1>0, <2>1, <2>2, <2>3, AwaitKeepsPatience
<1>3. ASSUME NEW task \in BOOLEAN, New(h, c, task) PROVE PatientInv'
  <2>1. PICK pc \in {"newThread", "newBare"} : Await(h, c, pc, route[c])
    BY <1>3 DEF New
  <2>2. Free(h, c) /\ Others /\ route[c].turn = NoTurn /\ route[c].ctx # "none"
    BY <1>3 DEF New, MayMove
  <2>3. pc \in Pc /\ pc # "idle"
    BY DEF Pc, ThreadPc
  <2> QED BY <2>1, <2>2, <2>3, AwaitKeepsPatience DEF eventVars
<1>4. ASSUME NEW task \in BOOLEAN, NEW x \in Project \cup {"plain"}, NewInPlace(h, c, x, task)
      PROVE  PatientInv'
  <2>1. PICK pc \in {"placeThread", "placeBare"} : Await(h, c, pc, BoundTo(x, NoThread))
    BY <1>4 DEF NewInPlace
  <2>2. Free(h, c) /\ Others /\ route[c].turn = NoTurn
    BY <1>4 DEF NewInPlace, MayMove
  <2>3. pc \in Pc /\ pc # "idle"
    BY DEF Pc, ThreadPc
  <2> QED BY <1>1, <2>1, <2>2, <2>3, AwaitKeepsPatience DEF eventVars
<1>5. ASSUME NEW p \in Project, Fork(h, c, p) PROVE PatientInv'
  <2>1. "placeBare" \in Pc
    BY DEF Pc, ThreadPc
  <2>2. Free(h, c) /\ Others /\ route[c].turn = NoTurn /\ Await(h, c, "placeBare", BoundTo(p, NoThread))
    BY <1>5 DEF Fork, MayMove
  <2> QED BY <1>1, <2>1, <2>2, AwaitKeepsPatience DEF eventVars
<1>6. ASSUME NEW p \in Project, Use(h, c, p) PROVE PatientInv'
  <2>1. BoundTo(p, NoThread).turn = NoTurn
    BY DEF BoundTo
  <2>2. /\ Free(h, c) /\ call' = call /\ route' = [route EXCEPT ![c] = BoundTo(p, NoThread)]
        /\ turn' = turn
    BY <1>6 DEF Use, codexVars
  <2>4. call[h].pc = "idle" /\ call[h].chat = NoChat /\ "idle" \notin Placed
    BY <2>2 DEF Free, PatientInv, AloneInv, Placed, TurnPc
  <2>5. NoChat # c /\ (c \in Patient => \A o \in Handler : call[o].chat = c => o = h)
    BY <2>2, TurnsAssumption DEF Free
  <2>6. /\ \A t \in Turn : turn[t].chat \in Chat => turn'[t].thread = turn[t].thread
        /\ \A o \in Handler : call'[o] = call[o]
        /\ \A d \in Chat \ {c} : route'[d] = route[d]
        /\ route'[c].turn = NoTurn
    BY <2>1, <2>2 DEF ChatInv, RouteInv
  <2>7. AloneInv' /\ MovingInv' /\ PlaceInv'
    BY <2>4, <2>5, <2>6, HandlerMoves
  <2>8. EndedInv'
    BY <1>6, EndedKept DEF Use, codexVars, eventVars
  <2> QED BY <2>7, <2>8 DEF PatientInv
<1>7. ASSUME Switch(h, c) PROVE PatientInv'
  <2>1. "list" \in Pc /\ "list" \notin Placed
    BY DEF Pc, OtherPc, Placed, TurnPc
  <2>2. Free(h, c) /\ Others /\ route[c].turn = NoTurn /\ Await(h, c, "list", route[c])
    BY <1>7 DEF Switch, MayMove
  <2> QED BY <2>1, <2>2, AwaitKeepsPatience DEF eventVars
<1>8. ASSUME Stop(h, c) PROVE PatientInv'
  <2>1. "interrupt" \in Pc /\ "interrupt" \notin Placed /\ "interrupt" \notin Moving
    BY DEF Pc, OtherPc, Placed, Moving, ThreadPc, TurnPc
  <2>2. Free(h, c) /\ Others /\ Await(h, c, "interrupt", route[c])
    BY <1>8 DEF Stop
  <2> QED BY <2>1, <2>2, AwaitKeepsPatience DEF eventVars
<1>9. ASSUME ComputerUse(h, c) PROVE PatientInv'
  <2>1. PICK pc \in {"cuThread", "steer", "cuTurn"} :
           /\ Await(h, c, pc, route[c])
           /\ pc = "cuThread" => route[c].thread = NoThread
           /\ pc = "cuTurn" => route[c].turn = NoTurn
    BY <1>9 DEF ComputerUse
  <2>2. Free(h, c) /\ Others /\ route[c].ctx # "none"
    BY <1>9 DEF ComputerUse
  <2>3. pc \in Pc /\ pc # "idle" /\ (pc \in Moving => pc # "steer")
    BY DEF Pc, ThreadPc, TurnPc, OtherPc, Moving
  <2> QED BY <1>0, <2>1, <2>2, <2>3, AwaitKeepsPatience DEF eventVars
<1> QED BY <1>2, <1>3, <1>4, <1>5, <1>6, <1>7, <1>8, <1>9 DEF Receive

\* The chat of a waiting handler is bound anew; the handler is done or goes on.
LEMMA MoveKeepsPatience ==
  ASSUME ChatInv, PatientInv, NEW h \in Handler, call[h].pc # "idle",
         NEW r, route' = [route EXCEPT ![call[h].chat] = r],
         NEW pc \in Pc, NEW s, Then(h, pc, s) \/ Done(h), pc # "idle",
         pc \in Placed => s.ctx # "none",
         call[h].chat \in Patient => r.turn = NoTurn,
         turn' = turn, ends' = ends, handling' = handling
  PROVE  PatientInv'
<1> DEFINE c == call[h].chat
           y == [call[h] EXCEPT !.pc = pc, !.route = s]
<1>1. c \in Chat /\ call[h] \in CallRecord
  BY DEF ChatInv, CallInv, CallGood
<1>2. c \in Patient => \A o \in Handler : call[o].chat = c => o = h
  BY DEF PatientInv, AloneInv
<1>3. PICK x : /\ call' = [call EXCEPT ![h] = x]
               /\ x.chat \in {NoChat, c} /\ (x.pc = "idle" => x.chat = NoChat)
               /\ x.pc \in Placed => x.route.ctx # "none"
  <2>1. CASE Done(h)
    <3>1. Idle.chat = NoChat /\ Idle.pc = "idle" /\ "idle" \notin Placed
      BY DEF Idle, Placed, TurnPc
    <3> QED BY <2>1, <3>1 DEF Done
  <2>2. CASE Then(h, pc, s)
    <3>1. y.pc = pc /\ y.route = s /\ y.chat = c
      BY <1>1 DEF CallRecord
    <3>2. call' = [call EXCEPT ![h] = y]
      BY <2>2 DEF Then, ChatInv, CallInv
    <3> HIDE DEF y
    <3> QED BY <3>1, <3>2
  <2> QED BY <2>1, <2>2
<1>4. AloneInv' /\ MovingInv' /\ PlaceInv'
  <2>1. call'[h] = x /\ \A o \in Handler \ {h} : call'[o] = call[o]
    BY <1>3 DEF ChatInv, CallInv
  <2>2. route'[c] = r /\ \A d \in Chat \ {c} : route'[d] = route[d]
    BY <1>1 DEF ChatInv, RouteInv
  <2>3. /\ call'[h].chat \in {NoChat, c} /\ (call'[h].pc = "idle" => call'[h].chat = NoChat)
        /\ call'[h].pc \in Placed => call'[h].route.ctx # "none"
    BY <1>3, <2>1
  <2>4. /\ c \in Patient => route'[c].turn = NoTurn
        /\ \A t \in Turn : turn[t].chat \in Chat => turn'[t].thread = turn[t].thread
    BY <2>2
  <2> HIDE DEF c, y
  <2> QED BY <1>1, <1>2, <2>1, <2>2, <2>3, <2>4, HandlerMoves
<1> QED BY <1>4, EndedKept DEF PatientInv

LEMMA ThreadsKeepPatience ==
  ASSUME ChatInv, PatientInv, NEW h \in Handler,
         DefaultThread(h) \/ FreshThread(h) \/ NewThreadBound(h) \/ PlaceBound(h)
  PROVE  PatientInv'
<1>1. call[h].pc # "idle" /\ call[h].pc \in ThreadPc
  BY DEF DefaultThread, FreshThread, NewThreadBound, PlaceBound, ThreadPc
<1>2. call[h].chat \in Chat /\ call[h].route \in Route /\ route[call[h].chat] \in Route
  BY <1>1 DEF ChatInv, CallInv, CallGood, CallRecord, RouteInv
<1>3. call[h].chat \in Patient => route[call[h].chat].turn = NoTurn
  BY <1>1 DEF PatientInv, MovingInv, Moving
<1>4. UNCHANGED <<turn, ends, handling>>
  BY DEF DefaultThread, FreshThread, NewThreadBound, PlaceBound, eventVars
<1>5. /\ Rebound(call[h].chat, nThread + 1).turn = route[call[h].chat].turn
      /\ Rebound(call[h].chat, nThread + 1).ctx = route[call[h].chat].ctx
      /\ [call[h].route EXCEPT !.thread = nThread + 1].ctx = call[h].route.ctx
  BY <1>2 DEF Rebound, Route
<1>6. TurnPc \cup {"steer"} \subseteq Pc \ {"idle"} /\ "steer" \notin Placed /\ "newTurn" \in TurnPc
      /\ "firstTurn" \in TurnPc
  BY DEF Pc, TurnPc, OtherPc, Placed
<1>7. \A x : BoundTo(x, nThread + 1).turn = NoTurn /\ BoundTo(x, nThread + 1).ctx = x
  BY DEF BoundTo
<1>8. CASE DefaultThread(h)
  BY <1>1, <1>4, <1>6, <1>7, <1>8, MoveKeepsPatience DEF DefaultThread
<1>9. CASE FreshThread(h)
  <2>1. PICK pc \in TurnPc \cup {"steer"} : Then(h, pc, Rebound(call[h].chat, nThread + 1))
    BY <1>9 DEF FreshThread, TurnPc
  <2>2. route' = [route EXCEPT ![call[h].chat] = Rebound(call[h].chat, nThread + 1)]
        /\ route[call[h].chat].ctx # "none"
    BY <1>9 DEF FreshThread
  <2> QED BY <1>1, <1>3, <1>4, <1>5, <1>6, <2>1, <2>2, MoveKeepsPatience
<1>10. CASE NewThreadBound(h)
  <2>1. Then(h, "newTurn", [call[h].route EXCEPT !.thread = nThread + 1]) \/ Done(h)
    BY <1>10 DEF NewThreadBound
  <2>2. route' = [route EXCEPT ![call[h].chat] = Rebound(call[h].chat, nThread + 1)]
    BY <1>10 DEF NewThreadBound
  <2>3. call[h].route.ctx # "none"
    BY <1>10 DEF NewThreadBound, PatientInv, MovingInv, Placed
  <2> QED BY <1>1, <1>3, <1>4, <1>5, <1>6, <2>1, <2>2, <2>3, MoveKeepsPatience
<1>11. CASE PlaceBound(h)
  <2>1. Then(h, "newTurn", BoundTo(call[h].route.ctx, nThread + 1)) \/ Done(h)
    BY <1>11 DEF PlaceBound
  <2>2. route' = [route EXCEPT ![call[h].chat] = BoundTo(call[h].route.ctx, nThread + 1)]
    BY <1>11 DEF PlaceBound
  <2>3. call[h].route.ctx # "none"
    BY <1>11 DEF PlaceBound, PatientInv, MovingInv, Placed
  <2> QED BY <1>1, <1>4, <1>6, <1>7, <2>1, <2>2, <2>3, MoveKeepsPatience
<1> QED BY <1>8, <1>9, <1>10, <1>11

\* codex begins a turn for a handler, on a thread it knows.
LEMMA BegunTurn ==
  ASSUME ChatInv, PatientInv, NEW t \in Turn, NEW th, NEW c \in Chat, Begins(t, th, c)
  PROVE  /\ turn'[t].thread = th
         /\ \A o \in Turn : turn[o].chat \in Chat => turn'[o].thread = turn[o].thread
         /\ \A o \in Turn : turn[o].state = "ended" => turn'[o].state = "ended"
         /\ \A o \in Turn : OnThread(turn'[o])
<1>1. th \in Thread
  BY TurnsAssumption DEF Begins, ChatInv, EnvInv, Thread
<1>2. turn[t].chat = NoChat /\ turn[t].state = "none" /\ NoChat \notin Chat
  BY TurnsAssumption DEF Begins, ChatInv, TurnInv
<1>3. turn'[t].thread = th /\ \A o \in Turn \ {t} : turn'[o] = turn[o]
  BY DEF Begins, ChatInv, TurnInv
<1>4. OnThread(turn'[t])
  BY <1>1, <1>3 DEF OnThread
<1> QED BY <1>2, <1>3, <1>4 DEF PatientInv, EndedInv

LEMMA TurnStartedKeepsPatience ==
  ASSUME ChatInv, PatientInv, NEW h \in Handler, NEW t \in Turn, TurnStarted(h, t)
  PROVE  PatientInv'
<1> DEFINE c == call[h].chat
           r == BindActiveTurn(call[h].route, t)
<1>1. c \in Chat /\ call[h].route \in Route /\ call[h].route.ctx # "none"
  BY DEF TurnStarted, TurnPc, ChatInv, CallInv, CallGood, CallRecord, PatientInv, MovingInv, Placed
<1>2. r.turn = t /\ r.thread = call[h].route.thread /\ r.ctx # "none"
  BY <1>1 DEF BindActiveTurn, Route
<1>3. /\ turn'[t].thread = r.thread
      /\ \A o \in Turn : turn[o].chat \in Chat => turn'[o].thread = turn[o].thread
      /\ \A o \in Turn : turn[o].state = "ended" => turn'[o].state = "ended"
      /\ \A o \in Turn : OnThread(turn'[o])
  BY <1>1, <1>2, BegunTurn DEF TurnStarted
<1>4. route' = [route EXCEPT ![c] = r] /\ call' = [call EXCEPT ![h] = Idle]
  BY DEF TurnStarted, Done
<1>5. ends' = ends /\ handling' = handling
  BY DEF TurnStarted, eventVars
<1>6. Idle.chat = NoChat /\ Idle.pc = "idle" /\ "idle" \notin Placed /\ NoChat # c
  BY <1>1, TurnsAssumption DEF Idle, Placed, TurnPc
<1>7. c \in Patient => \A o \in Handler : call[o].chat = c => o = h
  BY DEF PatientInv, AloneInv
<1>8. AloneInv' /\ MovingInv' /\ PlaceInv'
  <2>1. call'[h] = Idle /\ \A o \in Handler \ {h} : call'[o] = call[o]
    BY <1>4 DEF ChatInv, CallInv
  <2>2. route'[c] = r /\ \A d \in Chat \ {c} : route'[d] = route[d]
    BY <1>1, <1>4 DEF ChatInv, RouteInv
  <2>3. /\ call'[h].chat \in {NoChat, c} /\ (call'[h].pc = "idle" => call'[h].chat = NoChat)
        /\ call'[h].pc \notin Placed /\ call'[h].chat # c
    BY <1>6, <2>1
  <2>4. route'[c].ctx # "none" /\ turn'[route'[c].turn].thread = route'[c].thread
    BY <1>2, <1>3, <2>2
  <2> HIDE DEF c, r
  <2> QED BY <1>1, <1>3, <1>7, <2>1, <2>2, <2>3, <2>4, HandlerMoves
<1>9. EndedInv'
  BY <1>3, <1>5, EndsKeep
<1> QED BY <1>8, <1>9 DEF PatientInv

LEMMA TurnRefusedKeepsPatience ==
  ASSUME ChatInv, PatientInv, NEW h \in Handler, TurnRefused(h)
  PROVE  PatientInv'
<1> DEFINE c == call[h].chat
           y == [call[h] EXCEPT !.pc = "retryThread", !.route = call[h].route]
<1>1. c \in Chat /\ call[h] \in CallRecord /\ call[h].pc \in TurnPc
  BY DEF TurnRefused, TurnPc, ChatInv, CallInv, CallGood
<1>2. /\ \A o \in Turn : turn[o].chat \in Chat => turn'[o].thread = turn[o].thread
      /\ \A o \in Turn : turn[o].state = "ended" => turn'[o].state = "ended"
      /\ \A o \in Turn : OnThread(turn'[o])
  <2>1. CASE UNCHANGED turn
    BY <2>1 DEF PatientInv, EndedInv
  <2>2. ASSUME NEW t \in Turn, Begins(t, call[h].route.thread, c)
        PROVE  /\ \A o \in Turn : turn[o].chat \in Chat => turn'[o].thread = turn[o].thread
               /\ \A o \in Turn : turn[o].state = "ended" => turn'[o].state = "ended"
               /\ \A o \in Turn : OnThread(turn'[o])
    BY <1>1, <2>2, BegunTurn
  <2> QED BY <2>1, <2>2 DEF TurnRefused
<1>3. route' = route /\ ends' = ends /\ handling' = handling
  BY DEF TurnRefused, eventVars
<1>4. EndedInv'
  BY <1>2, <1>3, EndsKeep
<1>5. CASE Then(h, "retryThread", call[h].route)
  <2>1. y.pc = "retryThread" /\ y.chat = c /\ "retryThread" \notin Placed
    BY <1>1 DEF CallRecord, Placed, TurnPc
  <2>2. call' = [call EXCEPT ![h] = y]
    BY <1>5 DEF Then, ChatInv, CallInv
  <2>4. c \in Patient => route[c].turn = NoTurn
    BY <1>1 DEF PatientInv, MovingInv, Moving
  <2>5. c \in Patient => \A o \in Handler : call[o].chat = c => o = h
    BY DEF PatientInv, AloneInv
  <2>6. call'[h] = y /\ \A o \in Handler \ {h} : call'[o] = call[o]
    BY <2>2 DEF ChatInv, CallInv
  <2>7. /\ call'[h].chat \in {NoChat, c} /\ (call'[h].pc = "idle" => call'[h].chat = NoChat)
        /\ call'[h].pc \notin Placed
    BY <2>1, <2>6
  <2>8. c \in Patient => route'[c].turn = NoTurn
    BY <1>3, <2>4
  <2>9. \A d \in Chat \ {c} : route'[d] = route[d]
    BY <1>3
  <2> HIDE DEF c, y
  <2>10. AloneInv' /\ MovingInv' /\ PlaceInv'
    BY <1>1, <1>2, <2>5, <2>6, <2>7, <2>8, <2>9, HandlerMoves
  <2> QED BY <1>4, <2>10 DEF PatientInv
<1>6. CASE Done(h)
  <2>1. \A o \in Handler : call'[o] = call[o] \/ call'[o] = Idle
    BY <1>6 DEF Done, ChatInv, CallInv
  <2> QED BY <1>2, <1>3, <1>4, <2>1, ReleasesKeep DEF PatientInv
<1> QED BY <1>5, <1>6 DEF TurnRefused

LEMMA QuietKeepsPatience ==
  ASSUME ChatInv, PatientInv, NEW h \in Handler, Steered(h) \/ RequestFails(h)
  PROVE  PatientInv'
<1>1. Done(h) /\ UNCHANGED <<received, route, codexVars, eventVars, outVars>>
  BY DEF Steered, RequestFails
<1>2. \A o \in Handler : call'[o] = call[o] \/ call'[o] = Idle
  BY <1>1 DEF Done, ChatInv, CallInv
<1>3. AloneInv' /\ MovingInv' /\ PlaceInv'
  BY <1>1, <1>2, ReleasesKeep DEF codexVars
<1>4. EndedInv'
  BY <1>1, EndedKept DEF codexVars, eventVars
<1> QED BY <1>3, <1>4 DEF PatientInv

LEMMA SwitchesKeepPatience ==
  ASSUME ChatInv, PatientInv, NEW h \in Handler, Listed(h) \/ Resumed(h)
  PROVE  PatientInv'
<1> DEFINE c == call[h].chat
<1>1. call[h].pc \in {"list", "resume"}
  BY DEF Listed, Resumed
<1>2. c \in Chat /\ (c \in Patient => route[c].turn = NoTurn)
  BY <1>1 DEF ChatInv, CallInv, CallGood, PatientInv, MovingInv, Moving
<1>3. UNCHANGED <<turn, ends, handling>>
  BY DEF Listed, Resumed, codexVars, eventVars
<1>4. "resume" \in Pc
  BY DEF Pc, OtherPc
<1>5. CASE Listed(h)
  <2>1. PICK th \in 1..nThread, x \in Context \ {"none"} :
           \/ route' = [route EXCEPT ![c] = BoundTo(x, th)] /\ Done(h)
           \/ Then(h, "resume", BoundTo(x, th)) /\ UNCHANGED route
    BY <1>5 DEF Listed
  <2>2. BoundTo(x, th).turn = NoTurn /\ BoundTo(x, th).ctx # "none"
    BY <2>1 DEF BoundTo
  <2>3. route = [route EXCEPT ![c] = route[c]]
    BY DEF ChatInv, RouteInv
  <2>4. CASE route' = [route EXCEPT ![c] = BoundTo(x, th)] /\ Done(h)
    BY <1>1, <1>3, <1>4, <2>2, <2>4, MoveKeepsPatience
  <2>5. CASE Then(h, "resume", BoundTo(x, th)) /\ UNCHANGED route
    <3>1. route' = [route EXCEPT ![c] = route[c]]
      BY <2>3, <2>5
    <3> QED BY <1>1, <1>2, <1>3, <1>4, <2>2, <2>5, <3>1, MoveKeepsPatience
  <2> QED BY <2>1, <2>4, <2>5
<1>6. CASE Resumed(h)
  <2>1. call[h].route.turn = NoTurn /\ call[h].route.ctx # "none"
    BY <1>6 DEF Resumed, ChatInv, CallInv, CallGood, PatientInv, MovingInv, Placed
  <2>2. route' = [route EXCEPT ![c] = call[h].route] /\ Done(h)
    BY <1>6 DEF Resumed
  <2> QED BY <1>1, <1>3, <1>4, <2>1, <2>2, MoveKeepsPatience
<1> QED BY <1>5, <1>6

LEMMA InterruptedKeepsPatience ==
  ASSUME ChatInv, PatientInv, NEW h \in Handler, Interrupted(h)
  PROVE  PatientInv'
<1> DEFINE c == call[h].chat
           th == call[h].route.thread
           t == call[h].route.turn
<1>1. t \in Turn
  BY DEF Interrupted, ChatInv, CallInv, CallGood
<1>2. \A o \in Handler : call'[o] = call[o] \/ call'[o] = Idle
  BY DEF Interrupted, Done, ChatInv, CallInv
<1>3. route' = Released(c, th, t)
  BY DEF Interrupted
<1>4. /\ \A o \in Turn : turn'[o].thread = turn[o].thread
      /\ \A o \in Turn : turn'[o].state = IF o = t THEN "ended" ELSE turn[o].state
  BY <1>1 DEF Interrupted, ChatInv, TurnInv, TurnRecord
<1>5. \A o \in Turn : OnThread(turn'[o])
  <2>1. turn[t].gen # 0
    BY TurnsAssumption DEF Interrupted, ChatInv, EnvInv, Gen
  <2>2. turn'[t].thread \in Thread /\ \A o \in Turn \ {t} : turn'[o] = turn[o]
    BY <1>1, <1>4, <2>1 DEF Interrupted, ChatInv, TurnInv, PatientInv, EndedInv, OnThread
  <2>3. \A o \in Turn \ {t} : OnThread(turn'[o])
    BY <2>2 DEF PatientInv, EndedInv
  <2> QED BY <2>2, <2>3 DEF OnThread
<1>6. AloneInv' /\ MovingInv' /\ PlaceInv'
  <2>1. \A d \in Chat : route'[d] = route[d] \/ route'[d] = [route[d] EXCEPT !.turn = NoTurn]
    BY <1>3, ReleasedShape
  <2> QED BY <1>2, <1>4, <2>1, ReleasesKeep
<1>7. handling' = handling /\ \A g \in Gen : \A o \in ends'[g] : o \in ends[g] \/ o = t
  BY DEF Interrupted, ChatInv, EventInv
<1>8. EndedInv'
  BY <1>1, <1>4, <1>5, <1>7, EndsKeep
<1> QED BY <1>6, <1>8 DEF PatientInv

\* Handlers and bindings are as they were, except that a restart drops them.
LEMMA CodexKeepsPatience ==
  ASSUME ChatInv, PatientInv, CodexNext
  PROVE  PatientInv'
<1>1. call' = call /\ route' = route /\ handling' = handling
  BY DEF CodexNext, Heard, TurnEnds, CodexLost, CodexRespawned, eventVars
<1>2. /\ \A t \in Turn : turn'[t].thread = turn[t].thread /\ turn'[t].gen = turn[t].gen
                         /\ (turn'[t].state = "none" <=> turn[t].state = "none")
                         /\ (turn[t].state = "ended" => turn'[t].state = "ended")
      /\ \A g \in Gen : \A t \in ends'[g] : t \in ends[g] \/ turn'[t].state = "ended"
  <2>1. turn \in [Turn -> TurnRecord] /\ ends \in [Gen -> SUBSET Turn]
    BY DEF ChatInv, TurnInv, EventInv
  <2>2. CASE \E t \in Turn : Heard(t)
    BY <2>1, <2>2 DEF Heard, TurnRecord, eventVars
  <2>3. CASE \E t \in Turn : TurnEnds(t)
    BY <2>1, <2>3 DEF TurnEnds, TurnRecord
  <2>4. CASE CodexLost
    BY <2>1, <2>4 DEF CodexLost, Dead, TurnRecord
  <2>5. CASE CodexRespawned
    BY <2>1, <2>5 DEF CodexRespawned, eventVars
  <2> QED BY <2>2, <2>3, <2>4, <2>5 DEF CodexNext
<1>3. \A t \in Turn : OnThread(turn'[t])
  BY <1>2 DEF PatientInv, EndedInv, OnThread
<1>4. AloneInv' /\ MovingInv' /\ PlaceInv'
  BY <1>1, <1>2, ReleasesKeep
<1>5. EndedInv'
  BY <1>1, <1>2, <1>3, EndsKeep
<1> QED BY <1>4, <1>5 DEF PatientInv

LEMMA PumpKeepsPatience ==
  ASSUME ChatInv, PatientInv, NEW g \in Gen, PumpNext(g)
  PROVE  PatientInv'
<1>1. call' = call /\ turn' = turn
  BY DEF PumpNext, PumpTakes, PumpPublishes, codexVars
<1>2. \A d \in Chat : route'[d] = route[d] \/ route'[d] = [route[d] EXCEPT !.turn = NoTurn]
  <2>1. CASE PumpPublishes(g)
    BY <2>1, ReleasedShape DEF PumpPublishes
  <2>2. CASE \E t \in Turn : PumpTakes(g, t)
    BY <2>2 DEF PumpTakes
  <2> QED BY <2>1, <2>2 DEF PumpNext
<1>3. /\ \A k \in Gen : \A t \in ends'[k] : t \in ends[k]
      /\ \A k \in Gen : handling'[k] \in {NoTurn, handling[k]} \/ handling'[k] \in ends[k]
  BY DEF PumpNext, PumpTakes, PumpPublishes, ChatInv, EventInv, OutInv
<1>4. AloneInv' /\ MovingInv' /\ PlaceInv'
  BY <1>1, <1>2, ReleasesKeep
<1>5. \A t \in Turn : OnThread(turn'[t])
  BY <1>1 DEF PatientInv, EndedInv
<1>6. EndedInv'
  BY <1>1, <1>3, <1>5, EndsKeep
<1> QED BY <1>4, <1>6 DEF PatientInv

LEMMA RestartKeepsPatience ==
  ASSUME ChatInv, PatientInv, DaemonRestarts
  PROVE  PatientInv'
<1>1. /\ \A h \in Handler : call'[h] = Idle
      /\ \A c \in Chat : route'[c] = [route[c] EXCEPT !.turn = NoTurn]
  BY DEF DaemonRestarts, ClearActiveTurns
<1>2. \A t \in Turn : turn'[t].thread = turn[t].thread /\ turn'[t].gen = turn[t].gen
                      /\ (turn'[t].state = "none" <=> turn[t].state = "none")
                      /\ (turn[t].state = "ended" => turn'[t].state = "ended")
  BY DEF DaemonRestarts, Dead, ChatInv, TurnInv, TurnRecord
<1>3. \A g \in Gen : ends'[g] = {} /\ handling'[g] = NoTurn
  BY DEF DaemonRestarts
<1>4. \A t \in Turn : OnThread(turn'[t])
  BY <1>2 DEF PatientInv, EndedInv, OnThread
<1>5. AloneInv' /\ MovingInv' /\ PlaceInv'
  BY <1>1, <1>2, ReleasesKeep
<1>6. EndedInv'
  BY <1>2, <1>3, <1>4, EndsKeep
<1> QED BY <1>5, <1>6 DEF PatientInv

LEMMA ChatStepKeepsPatience == ChatInv /\ PatientInv /\ [ChatNext]_chatVars => PatientInv'
<1> SUFFICES ASSUME ChatInv, PatientInv, [ChatNext]_chatVars PROVE PatientInv'
  OBVIOUS
<1>1. ASSUME NEW h \in Handler, NEW c \in Chat, Receive(h, c) PROVE PatientInv'
  BY <1>1, ReceiveKeepsPatience
<1>2. ASSUME NEW h \in Handler, Continue(h) PROVE PatientInv'
  BY <1>2, QuietKeepsPatience, ThreadsKeepPatience, TurnStartedKeepsPatience,
     TurnRefusedKeepsPatience, SwitchesKeepPatience, InterruptedKeepsPatience DEF Continue
<1>3. ASSUME NEW g \in Gen, PumpNext(g) PROVE PatientInv'
  BY <1>3, PumpKeepsPatience
<1>4. ASSUME UNCHANGED chatVars PROVE PatientInv'
  <2>1. AloneInv' /\ MovingInv' /\ PlaceInv'
    BY <1>4, ReleasesKeep DEF chatVars, codexVars
  <2>2. EndedInv'
    BY <1>4, EndedKept DEF chatVars, codexVars, eventVars
  <2> QED BY <2>1, <2>2 DEF PatientInv
<1> QED BY <1>1, <1>2, <1>3, <1>4, CodexKeepsPatience, RestartKeepsPatience DEF ChatNext

LEMMA OthersStayBound ==
  ASSUME ChatInv, NEW c, NEW th, NEW t, route' = Released(c, th, t) \/ route' = route,
         NEW d \in Chat, route[d].turn # t
  PROVE  route'[d].turn = route[d].turn
  BY DEF Released, ChatInv, RouteInv

\* A chat whose users wait loses its turn only when the turn has ended.
LEMMA StepKeepsTurn == ChatInv /\ PatientInv /\ [ChatNext]_chatVars => TurnStaysBound
<1> SUFFICES ASSUME ChatInv, PatientInv, [ChatNext]_chatVars, NEW c \in Patient,
                    route[c].turn # NoTurn, turn[route[c].turn].state # "ended"
             PROVE  route'[c].turn = route[c].turn \/ turn'[route[c].turn].state = "ended"
  BY DEF TurnStaysBound
<1> DEFINE t == route[c].turn
           Stays == route'[c].turn = t \/ turn'[t].state = "ended"
<1>1. c \in Chat /\ t \in Turn /\ turn[t].chat = c /\ turn[t].state # "none"
  BY ActiveTurnHasBegun, TurnsAssumption
<1>2. ASSUME NEW h \in Handler, NEW d \in Chat, Receive(h, d) PROVE Stays
  <2>1. route' = route \/ \E p \in Project : Use(h, d, p)
    BY <1>2 DEF Receive, Prompt, New, NewInPlace, Fork, Switch, Stop, ComputerUse
  <2>2. ASSUME NEW p \in Project, Use(h, d, p) PROVE d # c /\ route'[c] = route[c]
    BY <1>1, <2>2 DEF Use, MayMove, ChatInv, RouteInv
  <2> QED BY <2>1, <2>2
<1>3. ASSUME NEW h \in Handler, Continue(h) PROVE Stays
  <2>1. CASE call[h].chat = c
    <3>1. call[h].pc \notin Moving
      BY <2>1 DEF PatientInv, MovingInv
    <3>2. Steered(h) \/ RequestFails(h) \/ Interrupted(h)
      BY <1>3, <3>1 DEF Continue, DefaultThread, FreshThread, TurnStarted, TurnRefused,
         NewThreadBound, PlaceBound, Listed, Resumed, Moving, ThreadPc
    <3>3. CASE Steered(h) \/ RequestFails(h)
      BY <3>3 DEF Steered, RequestFails
    <3>4. CASE Interrupted(h)
      <4>1. route' = Released(call[h].chat, call[h].route.thread, call[h].route.turn)
        BY <3>4 DEF Interrupted
      <4>2. call[h].route.turn = t => turn'[t].state = "ended"
        BY <1>1, <3>4 DEF Interrupted, ChatInv, TurnInv, TurnRecord
      <4>3. CASE call[h].route.turn # t
        BY <1>1, <4>1, <4>3, OthersStayBound
      <4> QED BY <4>2, <4>3
    <3> QED BY <3>2, <3>3, <3>4
  <2>2. CASE call[h].chat # c
    <3>1. CASE Interrupted(h)
      BY <1>1, <2>2, <3>1 DEF Interrupted, Released, ChatInv, RouteInv
    <3>2. CASE ~Interrupted(h)
      BY <1>1, <1>3, <2>2, <3>2 DEF Continue, Steered, RequestFails, DefaultThread, FreshThread,
         TurnStarted, TurnRefused, NewThreadBound, PlaceBound, Listed, Resumed, ChatInv, RouteInv
    <3> QED BY <3>1, <3>2
  <2> QED BY <2>1, <2>2
<1>4. ASSUME CodexNext PROVE Stays
  BY <1>4 DEF CodexNext, Heard, TurnEnds, CodexLost, CodexRespawned
<1>5. ASSUME NEW g \in Gen, PumpNext(g) PROVE Stays
  <2>1. CASE PumpPublishes(g)
    <3>1. turn[handling[g]].state = "ended"
      BY <2>1 DEF PumpPublishes, PatientInv, EndedInv
    <3>2. \/ route' = Released(turn[handling[g]].chat, turn[handling[g]].thread, handling[g])
          \/ route' = route
      BY <2>1 DEF PumpPublishes
    <3>3. handling[g] # t
      BY <3>1
    <3> QED BY <1>1, <3>2, <3>3, OthersStayBound
  <2>2. CASE \E u \in Turn : PumpTakes(g, u)
    BY <2>2 DEF PumpTakes
  <2> QED BY <1>5, <2>1, <2>2 DEF PumpNext
<1>6. ASSUME DaemonRestarts PROVE Stays
  BY <1>1, <1>6 DEF DaemonRestarts, Dead, ChatInv, TurnInv, TurnRecord
<1>7. ASSUME UNCHANGED chatVars PROVE Stays
  BY <1>7 DEF chatVars
<1> QED BY <1>2, <1>3, <1>4, <1>5, <1>6, <1>7 DEF ChatNext

\* With users who wait for replies, handlers never overtake each other: what one has
\* captured of its chat still holds after its awaits, but for a release of the turn.
THEOREM PatientInvariance == ChatSpec => []PatientInv
<1>1. ChatInit => PatientInv
  BY PatientInvInit
<1>2. ChatInv /\ PatientInv /\ [ChatNext]_chatVars => PatientInv'
  BY ChatStepKeepsPatience
<1> QED BY <1>1, <1>2, ChatInvariance, PTL DEF ChatSpec

\* The active turn of such a chat is on the thread the chat is bound to, so that
\* /stop, steering and the pump's #clearTerminalActiveTurn find it.
THEOREM TurnsAreOnTheirThreads == ChatSpec => []ActiveTurnIsOnItsThread
<1>1. PatientInv => ActiveTurnIsOnItsThread
  BY DEF PatientInv, PlaceInv
<1> QED BY <1>1, PatientInvariance, PTL

\* No command, no answer to an earlier one and no end of another turn takes a running
\* turn away from such a chat.
THEOREM RunningTurnsStay == ChatSpec => RunningTurnStaysBound
<1>1. ChatInv /\ PatientInv /\ [ChatNext]_chatVars => TurnStaysBound
  BY StepKeepsTurn
<1>2. ChatInv /\ PatientInv /\ [ChatNext]_chatVars => [TurnStaysBound]_chatVars
  BY <1>1
<1> QED BY <1>2, ChatInvariance, PatientInvariance, PTL DEF ChatSpec, RunningTurnStaysBound
=============================================================================
