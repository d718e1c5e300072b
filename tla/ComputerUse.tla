---------------------------- MODULE ComputerUse -----------------------------
(***************************************************************************)
(* Computer use: /cu opens a session for one turn of a thread, and the     *)
(* gate lets codex's tool calls through to the machine only under it.      *)
(*                                                                         *)
(* A session is kept per thread, for a limited time.  Nothing clears it    *)
(* when its turn ends; the next /cu on the thread replaces it, even one of *)
(* another user that only steers the running turn.  The answer to          *)
(* turn/start or turn/steer opens the session, so that a call of codex     *)
(* that comes before it finds none.                                        *)
(***************************************************************************)
EXTENDS Naturals

CONSTANTS
  User, Strand,         \* users; codex threads
  MaxUseTurn, MaxClock, \* bounds on turns and on time
  SessionTtl            \* DEFAULT_SESSION_TTL_MS
CONSTANT Nobody

UseTurn == 1..MaxUseTurn

ASSUME UseAssumption ==
  /\ MaxUseTurn \in Nat /\ MaxClock \in Nat /\ SessionTtl \in Nat
  /\ Nobody \notin User \cup Strand

VARIABLES
  clock,
  onThread,   \* the thread of a turn codex has started
  runningOn,  \* the turn that runs on a thread, or 0
  asking,     \* per user: the /cu that waits for codex, as [thread, turn]
  sent,       \* history: whose /cu went into a turn, and when it was let in
  session,    \* ComputerUseSessionRegistry.#sessionsByThread
  acting      \* calls the provider works on

useVars == <<clock, onThread, runningOn, asking, sent, session, acting>>

Time == 0..MaxClock
Session == [user: User, turn: UseTurn, expiresAt: Nat]
NoSession == [user |-> Nobody, turn |-> 0, expiresAt |-> 0]
Waiting == [strand: Strand, turn: UseTurn]
NotWaiting == [strand |-> Nobody, turn |-> 0]
Act == [user: User, turn: UseTurn, at: Time]

UseTypeOK ==
  /\ clock \in Time
  /\ onThread \in [UseTurn -> Strand \cup {Nobody}]
  /\ runningOn \in [Strand -> UseTurn \cup {0}]
  /\ asking \in [User -> Waiting \cup {NotWaiting}]
  /\ sent \subseteq [user: User, turn: UseTurn, at: Time]
  /\ session \in [Strand -> Session \cup {NoSession}]
  /\ acting \subseteq Act

UseInit ==
  /\ clock = 0
  /\ onThread = [t \in UseTurn |-> Nobody]
  /\ runningOn = [s \in Strand |-> 0]
  /\ asking = [u \in User |-> NotWaiting]
  /\ sent = {}
  /\ session = [s \in Strand |-> NoSession]
  /\ acting = {}

-----------------------------------------------------------------------------
\* codex starts its next turn on an idle thread.
Starts(t, s) ==
  /\ runningOn[s] = 0
  /\ onThread[t] = Nobody /\ \A o \in UseTurn : o < t => onThread[o] # Nobody
  /\ onThread' = [onThread EXCEPT ![t] = s]
  /\ runningOn' = [runningOn EXCEPT ![s] = t]

\* A prompt without /cu.
PlainTurn(t, s) ==
  /\ Starts(t, s)
  /\ UNCHANGED <<clock, asking, sent, session, acting>>

\* /cu with a task the policy lets pass: the turn that runs is steered, or one started.
Cu(u, s, t) ==
  /\ asking[u] = NotWaiting
  /\ IF runningOn[s] = t THEN UNCHANGED <<onThread, runningOn>> ELSE Starts(t, s)
  /\ asking' = [asking EXCEPT ![u] = [strand |-> s, turn |-> t]]
  /\ UNCHANGED <<clock, sent, session, acting>>

\* codex's answer: the session of the thread is this one now.
SessionOpens(u) ==
  LET w == asking[u]
  IN  /\ w # NotWaiting
      /\ session' = [session EXCEPT ![w.strand] =
           [user |-> u, turn |-> w.turn, expiresAt |-> clock + SessionTtl]]
      /\ sent' = sent \cup {[user |-> u, turn |-> w.turn, at |-> clock]}
      /\ asking' = [asking EXCEPT ![u] = NotWaiting]
      /\ UNCHANGED <<clock, onThread, runningOn, acting>>

CuFails(u) ==
  /\ asking[u] # NotWaiting
  /\ asking' = [asking EXCEPT ![u] = NotWaiting]
  /\ UNCHANGED <<clock, onThread, runningOn, sent, session, acting>>

Expired(s) == clock >= session[s].expiresAt

\* (mutant) Any turn of the thread may use its session.
MatchToolCall_AnyTurn(t) ==
  session[onThread[t]] # NoSession /\ ~Expired(onThread[t])

\* matchToolCall.
MatchToolCall(t) ==
  /\ session[onThread[t]] # NoSession /\ ~Expired(onThread[t])
  /\ session[onThread[t]].turn = t

\* handleToolCall: a tool that is listed, and a task that, with the arguments of the
\* call, needs no approval. Everything else is answered with a failure.
ToolCall(t, listed, plain) ==
  LET s == onThread[t]
      act == [user |-> session[s].user, turn |-> t, at |-> clock]
  IN  /\ s # Nobody /\ runningOn[s] = t
      /\ session' = IF Expired(s) THEN [session EXCEPT ![s] = NoSession] ELSE session
      /\ IF MatchToolCall(t) /\ listed /\ plain
           THEN acting' = acting \cup {act}
           ELSE UNCHANGED acting
      /\ UNCHANGED <<clock, onThread, runningOn, asking, sent>>

\* The provider is done, or has thrown; its answer goes back to codex.
ProviderAnswers(a) ==
  /\ a \in acting /\ acting' = acting \ {a}
  /\ UNCHANGED <<clock, onThread, runningOn, asking, sent, session>>

UseTurnEnds(s) ==
  /\ runningOn[s] # 0
  /\ runningOn' = [runningOn EXCEPT ![s] = 0]
  /\ UNCHANGED <<clock, onThread, asking, sent, session, acting>>

ClockTicks ==
  /\ clock < MaxClock /\ clock' = clock + 1
  /\ UNCHANGED <<onThread, runningOn, asking, sent, session, acting>>

-----------------------------------------------------------------------------
UseNext ==
  \/ \E t \in UseTurn, s \in Strand : PlainTurn(t, s) \/ \E u \in User : Cu(u, s, t)
  \/ \E u \in User : SessionOpens(u) \/ CuFails(u)
  \/ \E t \in UseTurn, listed, plain \in BOOLEAN : ToolCall(t, listed, plain)
  \/ \E a \in Act : ProviderAnswers(a)
  \/ \E s \in Strand : UseTurnEnds(s)
  \/ ClockTicks

UseSpec == UseInit /\ [][UseNext]_useVars
-----------------------------------------------------------------------------
\* What codex does on the machine it does in a turn into which a user sent /cu, it is
\* put down to that user, and it begins before the session of that /cu is over: an old
\* session left on the thread lets nothing through.
EveryUseWasAskedFor ==
  \A a \in acting :
    \E q \in sent : q.user = a.user /\ q.turn = a.turn /\ q.at <= a.at /\ a.at < q.at + SessionTtl
=============================================================================
