--------------------------- MODULE ServicesProofs ---------------------------
(***************************************************************************)
(* Proofs about the services around the broker: for any number of calls an *)
(* answer reaches the call that asked; for any platforms and messages a    *)
(* redelivery is handled once, and nothing is handed to a daemon whose     *)
(* storage is closed; for any users and turns codex uses the machine only  *)
(* where a user has sent /cu.  At the end, side by side with the streams   *)
(* and the threads, every service keeps its state well formed.             *)
(***************************************************************************)
EXTENDS MCServices, SupervisorProofs, StreamProofs, ThreadsProofs

-----------------------------------------------------------------------------
(* Requests to codex                                                       *)

\* An id is given once, to one call, and counts up with the calls.
IdsAreFresh ==
  /\ \A c \in Call : outcome[c] = "none" => nextId <= c /\ idOf[c] = 0
  /\ \A c \in Call : idOf[c] < nextId
  /\ \A c, d \in Call : idOf[c] = idOf[d] /\ idOf[c] # 0 => c = d

\* What is under way under an id belongs to the call it was given to.
IdsLeadBack ==
  /\ \A i \in Id : awaited[i] # 0 => idOf[awaited[i]] = i /\ outcome[awaited[i]] = "waiting"
  /\ \A q \in asked : idOf[q.call] = q.id
  /\ \A m \in inbox : m.id # 0 => idOf[m.call] = m.id

RequestInv == RequestTypeOK /\ IdsAreFresh /\ IdsLeadBack /\ AnswerIsItsOwn

LEMMA RequestInvInit == RequestInit => RequestInv
<1> SUFFICES ASSUME RequestInit PROVE RequestInv
  OBVIOUS
<1>1. RequestTypeOK
  <2>1. nextId \in 1..MaxCall + 1
    BY CallAssumption DEF RequestInit
  <2> QED BY <2>1 DEF RequestInit, RequestTypeOK
<1>2. IdsAreFresh
  BY CallAssumption DEF RequestInit, IdsAreFresh, Call
<1>3. IdsLeadBack /\ AnswerIsItsOwn
  BY DEF RequestInit, IdsLeadBack, AnswerIsItsOwn
<1> QED BY <1>1, <1>2, <1>3 DEF RequestInv

\* The call that is made next takes an id no call has had.
LEMMA CallKeepsInv ==
  ASSUME RequestInv, NEW c \in Call, NEW written \in BOOLEAN, RequestCall(c, written)
  PROVE  RequestInv'
<1>1. nextId \in Id /\ nextId <= c /\ nextId + 1 \in 1..MaxCall + 1 /\ outcome[c] = "none"
  BY CallAssumption DEF RequestInv, IdsAreFresh, RequestTypeOK, RequestCall, Call, Id
<1>2. awaited[nextId] = 0
  BY <1>1 DEF RequestInv, IdsAreFresh, IdsLeadBack, RequestTypeOK, Call, Id
<1>3. RequestTypeOK'
  <2>1. [id |-> nextId, call |-> c] \in Request
    BY <1>1 DEF Request
  <2>2. nextId' \in 1..MaxCall + 1 /\ idOf' \in [Call -> Id \cup {0}]
    BY <1>1 DEF RequestInv, RequestTypeOK, RequestCall, FreshId
  <2>3. awaited' \in [Id -> Call \cup {0}] /\ asked' \subseteq Request
    BY <1>1, <2>1 DEF RequestInv, RequestTypeOK, RequestCall, FreshId
  <2>4. outcome' \in [Call -> {"none", "waiting"} \cup Outcomes]
    BY DEF RequestInv, RequestTypeOK, RequestCall, FreshId, Outcomes
  <2> QED BY <2>2, <2>3, <2>4 DEF RequestInv, RequestTypeOK, RequestCall
<1>4. \A d \in Call : outcome[d] = "none" /\ d # c => nextId + 1 <= d
  BY <1>1, CallAssumption DEF RequestInv, RequestTypeOK, RequestCall, Call, Outcomes
<1>5. IdsAreFresh'
  <2>1. \A d \in Call : idOf'[d] = IF d = c THEN nextId ELSE idOf[d]
    BY DEF RequestInv, RequestTypeOK, RequestCall, FreshId
  <2>2. \A d \in Call : outcome'[d] = "none" => outcome[d] = "none" /\ d # c
    BY DEF RequestInv, RequestTypeOK, RequestCall, FreshId
  <2>3. nextId' = nextId + 1
    BY DEF RequestCall
  <2>4. \A d \in Call : idOf[d] < nextId /\ idOf[d] \in Id \cup {0}
    BY DEF RequestInv, IdsAreFresh, RequestTypeOK
  <2>5. \A d \in Call : outcome'[d] = "none" => nextId' <= d /\ idOf'[d] = 0
    BY <1>4, <2>1, <2>2, <2>3 DEF RequestInv, IdsAreFresh
  <2>6. \A d \in Call : idOf'[d] < nextId'
    BY <1>1, <2>1, <2>3, <2>4 DEF Id
  <2>7. \A d, e \in Call : idOf'[d] = idOf'[e] /\ idOf'[d] # 0 => d = e
    BY <1>1, <2>1, <2>4 DEF RequestInv, IdsAreFresh, Id
  <2> QED BY <2>5, <2>6, <2>7 DEF IdsAreFresh
<1>6. IdsLeadBack'
  <2>1. \A d \in Call : idOf'[d] = IF d = c THEN nextId ELSE idOf[d]
    BY DEF RequestInv, RequestTypeOK, RequestCall, FreshId
  <2>2. idOf[c] = 0
    BY <1>1 DEF RequestInv, IdsAreFresh
  <2>3. \A i \in Id : awaited'[i] # 0 => idOf'[awaited'[i]] = i /\ outcome'[awaited'[i]] = "waiting"
    <3> SUFFICES ASSUME NEW i \in Id, awaited'[i] # 0
                 PROVE  idOf'[awaited'[i]] = i /\ outcome'[awaited'[i]] = "waiting"
      OBVIOUS
    <3>1. CASE written /\ i = nextId
      BY <3>1, <1>1, <2>1 DEF RequestInv, RequestTypeOK, RequestCall, FreshId
    <3>2. CASE ~(written /\ i = nextId)
      <4>1. awaited'[i] = awaited[i]
        BY <3>2 DEF RequestInv, RequestTypeOK, RequestCall, FreshId
      <4>2. awaited[i] \in Call /\ idOf[awaited[i]] = i /\ outcome[awaited[i]] = "waiting"
        BY <4>1 DEF RequestInv, RequestTypeOK, IdsLeadBack
      <4>3. awaited[i] # c
        BY <4>2, <1>1
      <4> QED BY <4>1, <4>2, <4>3, <2>1 DEF RequestInv, RequestTypeOK, RequestCall, FreshId
    <3> QED BY <3>1, <3>2
  <2>4. \A q \in asked' : idOf'[q.call] = q.id
    BY <1>1, <2>1, <2>2 DEF RequestInv, IdsLeadBack, RequestTypeOK, RequestCall, FreshId, Id, Request
  <2>5. \A m \in inbox' : m.id # 0 => idOf'[m.call] = m.id
    BY <1>1, <2>1, <2>2 DEF RequestInv, IdsLeadBack, RequestTypeOK, RequestCall, Id, Message
  <2> QED BY <2>3, <2>4, <2>5 DEF IdsLeadBack
<1>7. AnswerIsItsOwn'
  BY <1>1 DEF RequestInv, AnswerIsItsOwn, RequestTypeOK, RequestCall, FreshId
<1> QED BY <1>3, <1>5, <1>6, <1>7 DEF RequestInv

\* A call that ends without an answer, by its timer.
LEMMA TimerKeepsInv ==
  ASSUME RequestInv, NEW i \in Id, RequestTimer(i)
  PROVE  RequestInv'
<1>1. awaited[i] \in Call /\ outcome[awaited[i]] = "waiting" /\ idOf[awaited[i]] = i
  BY DEF RequestInv, RequestTypeOK, IdsLeadBack, RequestTimer
<1>2. RequestTypeOK'
  BY <1>1 DEF RequestInv, RequestTypeOK, RequestTimer, Settle, Outcomes
<1>3. IdsAreFresh'
  BY <1>1 DEF RequestInv, IdsAreFresh, RequestTypeOK, RequestTimer, Settle
<1>4. IdsLeadBack'
  BY <1>1 DEF RequestInv, IdsLeadBack, RequestTypeOK, RequestTimer, Settle
<1>5. AnswerIsItsOwn'
  BY <1>1 DEF RequestInv, AnswerIsItsOwn, RequestTypeOK, RequestTimer, Settle
<1> QED BY <1>2, <1>3, <1>4, <1>5 DEF RequestInv

\* An answer: the id leads to the call whose answer it is.
LEMMA CompletionKeepsInv ==
  ASSUME RequestInv, NEW m \in Message, CompletePending(m)
  PROVE  RequestInv'
<1>0. inbox' \subseteq inbox /\ UNCHANGED <<link, running, nextId, idOf, asked>>
  BY DEF CompletePending
<1>1. CASE m.id # 0 /\ awaited[m.id] # 0
  <2>1. m \in inbox /\ m.id \in Id /\ m.call \in Call
    BY <1>1 DEF CompletePending, Message
  <2>2. awaited[m.id] \in Call /\ outcome[awaited[m.id]] = "waiting" /\ idOf[awaited[m.id]] = m.id
    BY <1>1, <2>1 DEF RequestInv, RequestTypeOK, IdsLeadBack
  <2>3. awaited[m.id] = m.call
    BY <1>1, <2>1, <2>2 DEF RequestInv, IdsLeadBack, IdsAreFresh
  <2>4. PICK how \in {"result", "error"} : outcome' = [outcome EXCEPT ![m.call] = how]
    BY <1>1, <2>3 DEF CompletePending, Settle
  <2>5. awaited' = [awaited EXCEPT ![m.id] = 0] /\ answer' = [answer EXCEPT ![m.call] = m.call]
    BY <1>1, <2>3 DEF CompletePending, Settle
  <2>6. RequestTypeOK'
    BY <1>0, <2>1, <2>4, <2>5 DEF RequestInv, RequestTypeOK, Outcomes
  <2>7. IdsAreFresh'
    BY <1>0, <2>1, <2>2, <2>3, <2>4 DEF RequestInv, IdsAreFresh, RequestTypeOK
  <2>8. IdsLeadBack'
    BY <1>0, <2>1, <2>2, <2>3, <2>4, <2>5 DEF RequestInv, IdsLeadBack, RequestTypeOK
  <2>9. AnswerIsItsOwn'
    BY <2>1, <2>4, <2>5 DEF RequestInv, AnswerIsItsOwn, RequestTypeOK
  <2> QED BY <2>6, <2>7, <2>8, <2>9 DEF RequestInv
<1>2. CASE ~(m.id # 0 /\ awaited[m.id] # 0)
  <2>1. UNCHANGED <<awaited, outcome, answer>>
    BY <1>2 DEF CompletePending
  <2> QED BY <1>0, <2>1 DEF RequestInv, RequestTypeOK, IdsAreFresh, IdsLeadBack, AnswerIsItsOwn
<1> QED BY <1>1, <1>2

\* The connection ends: every call that waits does, and none has an answer.
LEMMA ClosingKeepsInv ==
  ASSUME RequestInv, RejectAll, link' \in {"new", "open", "closed"}, running' \in BOOLEAN,
         UNCHANGED <<nextId, idOf, answer, asked, inbox>>
  PROVE  RequestInv'
<1>1. \A c \in Call : outcome'[c] = outcome[c] \/ (outcome[c] = "waiting" /\ outcome'[c] = "closed")
  <2> SUFFICES ASSUME NEW c \in Call, outcome'[c] # outcome[c]
               PROVE  outcome[c] = "waiting" /\ outcome'[c] = "closed"
    OBVIOUS
  <2>1. outcome'[c] = "closed" /\ \E i \in Id : awaited[i] = c
    BY DEF RejectAll
  <2>2. c # 0
    BY CallAssumption DEF Call
  <2> QED BY <2>1, <2>2 DEF RequestInv, IdsLeadBack
<1>2. RequestTypeOK'
  <2>1. outcome' \in [Call -> {"none", "waiting"} \cup Outcomes]
    BY <1>1 DEF RejectAll, RequestInv, RequestTypeOK, Outcomes
  <2> QED BY <2>1 DEF RejectAll, RequestInv, RequestTypeOK
<1>3. IdsAreFresh'
  BY <1>1 DEF RequestInv, IdsAreFresh
<1>4. IdsLeadBack'
  BY DEF RejectAll, RequestInv, IdsLeadBack, RequestTypeOK
<1>5. AnswerIsItsOwn'
  BY <1>1 DEF RequestInv, AnswerIsItsOwn
<1> QED BY <1>2, <1>3, <1>4, <1>5 DEF RequestInv

\* What codex sends carries the id of the call it answers, or none.
LEMMA CodexKeepsInv ==
  ASSUME RequestInv, NEW q \in Request, CodexAnswers(q)
  PROVE  RequestInv'
<1>1. q \in asked /\ q.id \in Id /\ q.call \in Call /\ idOf[q.call] = q.id
  BY DEF CodexAnswers, Request, RequestInv, IdsLeadBack
<1>2. PICK m \in Message : /\ inbox' = inbox \cup {m}
                           /\ m.call = q.call /\ m.id \in {q.id, 0}
  <2>1. PICK ok \in BOOLEAN, i \in {q.id, 0} :
          inbox' = inbox \cup {[id |-> i, call |-> q.call, ok |-> ok]}
    BY DEF CodexAnswers
  <2> DEFINE m == [id |-> i, call |-> q.call, ok |-> ok]
  <2>2. m \in Message
    BY <1>1, <2>1 DEF Message
  <2>3. inbox' = inbox \cup {m} /\ m.call = q.call /\ m.id \in {q.id, 0}
    BY <2>1
  <2> HIDE DEF m
  <2> QED BY <2>2, <2>3
<1>3. UNCHANGED <<link, running, nextId, awaited, idOf, outcome, answer>> /\ asked' \subseteq asked
  BY DEF CodexAnswers
<1>4. RequestTypeOK' /\ IdsAreFresh' /\ AnswerIsItsOwn'
  BY <1>2, <1>3 DEF RequestInv, RequestTypeOK, IdsAreFresh, AnswerIsItsOwn
<1>5. IdsLeadBack'
  BY <1>1, <1>2, <1>3 DEF RequestInv, IdsLeadBack
<1> QED BY <1>4, <1>5 DEF RequestInv

LEMMA RequestStepKeepsInv == RequestInv /\ [RequestNext]_requestVars => RequestInv'
<1> SUFFICES ASSUME RequestInv, [RequestNext]_requestVars PROVE RequestInv'
  OBVIOUS
<1> USE DEF RequestInv
<1>1. CASE StartClient \/ CodexGone \/ UNCHANGED requestVars
  <2>1. UNCHANGED <<nextId, awaited, idOf, outcome, answer, asked, inbox>>
    BY <1>1 DEF StartClient, CodexGone, requestVars
  <2>2. link' \in {"new", "open", "closed"} /\ running' \in BOOLEAN
    BY <1>1 DEF StartClient, CodexGone, requestVars, RequestTypeOK
  <2>3. RequestTypeOK'
    BY <2>1, <2>2 DEF RequestTypeOK
  <2> QED BY <2>1, <2>3 DEF IdsAreFresh, IdsLeadBack, AnswerIsItsOwn
<1>2. ASSUME NEW c \in Call, NEW written \in BOOLEAN, RequestCall(c, written) PROVE RequestInv'
  BY <1>2, CallKeepsInv
<1>3. ASSUME NEW c \in Call, RequestRefused(c) PROVE RequestInv'
  <2>1. \A d \in Call : outcome'[d] = IF d = c THEN "closed" ELSE outcome[d]
    BY <1>3 DEF RequestRefused, RequestTypeOK
  <2>2. RequestTypeOK'
    BY <1>3 DEF RequestRefused, RequestTypeOK, Outcomes
  <2>3. IdsAreFresh' /\ AnswerIsItsOwn'
    BY <1>3, <2>1 DEF RequestRefused, RequestTypeOK, IdsAreFresh, AnswerIsItsOwn
  <2>4. IdsLeadBack'
    BY <1>3, <2>1 DEF RequestRefused, RequestTypeOK, IdsLeadBack
  <2> QED BY <2>2, <2>3, <2>4
<1>4. ASSUME NEW i \in Id, RequestTimer(i) PROVE RequestInv'
  BY <1>4, TimerKeepsInv
<1>5. ASSUME NEW m \in Message, CompletePending(m) PROVE RequestInv'
  BY <1>5, CompletionKeepsInv
<1>6. CASE HandleClose \/ StopRequests
  BY <1>6, ClosingKeepsInv DEF HandleClose, StopRequests, RequestTypeOK
<1>7. ASSUME NEW q \in Request, CodexAnswers(q) PROVE RequestInv'
  BY <1>7, CodexKeepsInv
<1> QED BY <1>1, <1>2, <1>3, <1>4, <1>5, <1>6, <1>7 DEF RequestNext

\* The inductive invariant holds in every behaviour of the client.
THEOREM RequestInvariance == RequestSpec => []RequestInv
  BY RequestInvInit, RequestStepKeepsInv, PTL DEF RequestSpec

\* A caller of request() is given the answer to its own request, for any number of
\* calls, whatever codex's order, and whichever calls have timed out.
THEOREM AnswersFindTheirCalls == RequestSpec => []AnswerIsItsOwn
<1>1. RequestInv => AnswerIsItsOwn
  BY DEF RequestInv
<1> QED BY <1>1, RequestInvariance, PTL

-----------------------------------------------------------------------------
(* Messages of the platforms                                               *)

\* The handlers are gone from where the storage is closed on.
DeafWhenClosed == daemon \in {"closed", "failed"} => subscribed = FALSE

LEMMA DeafnessIsKept ==
  ASSUME DeafWhenClosed, [AdapterNext]_adapterVars
  PROVE  DeafWhenClosed'
<1>1. CASE UNCHANGED adapterVars
  BY <1>1 DEF DeafWhenClosed, adapterVars
<1>2. CASE DaemonStart \/ DaemonStarted \/ PollingFails
  BY <1>2 DEF DeafWhenClosed, DaemonStart, DaemonStarted, PollingFails
<1>3. ASSUME NEW p \in Platform, Connects(p) \/ ConnectFails(p) PROVE DeafWhenClosed'
  BY <1>3 DEF DeafWhenClosed, Connects, ConnectFails, Unsubscribed
<1>4. CASE PauseInbound \/ AdaptersStop \/ StorageCloses
  BY <1>4 DEF DeafWhenClosed, PauseInbound, AdaptersStop, StorageCloses, Unsubscribed
<1>5. ASSUME NEW p \in Platform, NEW k \in Key, Arrives(p, k) PROVE DeafWhenClosed'
  BY <1>5 DEF DeafWhenClosed, Arrives
<1>6. ASSUME NEW d \in Delivery, Fetched(d) \/ Unreadable(d) PROVE DeafWhenClosed'
  BY <1>6 DEF DeafWhenClosed, Fetched, Unreadable
<1> QED BY <1>1, <1>2, <1>3, <1>4, <1>5, <1>6 DEF AdapterNext

LEMMA DeafMeansSilent ==
  ASSUME DeafWhenClosed, [AdapterNext]_adapterVars
  PROVE  StorageIsOpen
<1> SUFFICES ASSUME daemon \in {"closed", "failed"} PROVE UNCHANGED handled
  BY DEF StorageIsOpen
<1>1. subscribed = FALSE
  BY DEF DeafWhenClosed
<1>2. CASE UNCHANGED adapterVars
  BY <1>2 DEF adapterVars
<1>3. CASE DaemonStart \/ DaemonStarted \/ PollingFails \/ PauseInbound \/ AdaptersStop \/ StorageCloses
  BY <1>3 DEF DaemonStart, DaemonStarted, PollingFails, PauseInbound, AdaptersStop,
              StorageCloses, inboundVars
<1>4. ASSUME NEW p \in Platform, Connects(p) \/ ConnectFails(p) PROVE UNCHANGED handled
  BY <1>4 DEF Connects, ConnectFails, inboundVars
<1>5. ASSUME NEW p \in Platform, NEW k \in Key, Arrives(p, k) PROVE UNCHANGED handled
  BY <1>5 DEF Arrives
<1>6. ASSUME NEW d \in Delivery, Fetched(d) \/ Unreadable(d) PROVE UNCHANGED handled
  BY <1>1, <1>6 DEF Fetched, Unreadable, HandedOn
<1> QED BY <1>2, <1>3, <1>4, <1>5, <1>6 DEF AdapterNext

\* However connections, failures, stops and fetched attachments overlap, a message is
\* handed to the daemon's handlers only while the storage they use is open.
THEOREM StorageIsOpenForHandlers == AdapterSpec => HandlersFindStorage
<1>1. AdapterInit => DeafWhenClosed
  BY DEF AdapterInit, DeafWhenClosed
<1> QED BY <1>1, DeafnessIsKept, DeafMeansSilent, PTL DEF AdapterSpec, HandlersFindStorage

-----------------------------------------------------------------------------
(* Messages that are delivered again                                       *)

\* Before its start the daemon has been handed nothing and the adapter remembers nothing.
QuietBeforeStart ==
  daemon = "down" => /\ ~subscribed /\ started = {} /\ starting = {} /\ transit = {}
                     /\ seen = <<>> /\ handled = [p \in Platform |-> <<>>]

SeenAreDistinct == \A i, j \in DOMAIN seen : seen[i] = seen[j] => i = j

\* While the daemon listens, what the adapter remembers is the latest of what it has
\* handed on, and short of MaxSeen it is all of it.
SeenAreTheLatest ==
  \A p \in Remembering \cap Platform : subscribed =>
    /\ Len(seen) <= Len(handled[p])
    /\ Len(seen) = Len(handled[p]) \/ Len(seen) = MaxSeen
    /\ \A i \in 1..Len(seen) : handled[p][Len(handled[p]) - Len(seen) + i] = seen[i]

AdapterInv ==
  /\ AdapterTypeOK /\ QuietBeforeStart /\ SeenAreDistinct /\ SeenAreTheLatest
  /\ RedeliveryIsHandledOnce

\* What is remembered when one more is: short of the limit all, else all but the oldest.
LEMMA RememberShape ==
  ASSUME AdapterTypeOK, NEW k \in Key, SeenAreDistinct, ~Known(k)
  PROVE  /\ Remember(k) \in Seq(Key) /\ Len(Remember(k)) <= MaxSeen
         /\ \A i, j \in DOMAIN Remember(k) : Remember(k)[i] = Remember(k)[j] => i = j
         /\ \/ /\ Len(seen) < MaxSeen /\ Remember(k) = Append(seen, k)
            \/ /\ Len(seen) = MaxSeen /\ Len(Remember(k)) = MaxSeen
               /\ \A i \in 1..MaxSeen : Remember(k)[i] = Append(seen, k)[i + 1]
<1> DEFINE q == Append(seen, k)
<1>1. /\ seen \in Seq(Key) /\ Len(seen) \in Nat /\ Len(seen) <= MaxSeen /\ MaxSeen \in Nat \ {0}
  BY AdapterAssumption DEF AdapterTypeOK
<1>2. /\ q \in Seq(Key) /\ Len(q) = Len(seen) + 1 /\ q # <<>>
      /\ \A i \in 1..Len(seen) : q[i] = seen[i]
      /\ q[Len(seen) + 1] = k
  BY <1>1, AppendProperties
<1>3. \A i, j \in 1..Len(q) : q[i] = q[j] => i = j
  BY <1>1, <1>2 DEF SeenAreDistinct, Known
<1> HIDE DEF q
<1>4. CASE Len(q) > MaxSeen
  <2>1. /\ Remember(k) = Tail(q)
    BY <1>4 DEF Remember, q
  <2>2. /\ Tail(q) \in Seq(Key) /\ Len(Tail(q)) = Len(q) - 1
        /\ \A i \in 1..Len(Tail(q)) : Tail(q)[i] = q[i + 1]
    BY <1>2, HeadTailProperties
  <2>3. Len(q) - 1 = MaxSeen /\ Len(seen) = MaxSeen
    BY <1>1, <1>2, <1>4
  <2>4. \A i, j \in 1..MaxSeen : Tail(q)[i] = Tail(q)[j] => i = j
    BY <1>1, <1>2, <1>3, <2>2, <2>3
  <2>5. DOMAIN Tail(q) = 1..MaxSeen
    BY <2>2, <2>3
  <2> QED BY <1>1, <2>1, <2>2, <2>3, <2>4, <2>5 DEF q
<1>5. CASE ~(Len(q) > MaxSeen)
  <2>1. Remember(k) = q
    BY <1>5 DEF Remember, q
  <2>2. Len(seen) < MaxSeen /\ DOMAIN q = 1..Len(q)
    BY <1>1, <1>2, <1>5
  <2> QED BY <1>1, <1>2, <1>3, <1>5, <2>1, <2>2 DEF q
<1> QED BY <1>4, <1>5

LEMMA AdapterInvInit == AdapterInit => AdapterInv
<1> SUFFICES ASSUME AdapterInit PROVE AdapterInv
  OBVIOUS
<1> USE DEF AdapterInit
<1>1. AdapterTypeOK
  <2>1. seen \in Seq(Key) /\ Len(seen) = 0
    OBVIOUS
  <2>2. handled \in [Platform -> Seq(Key)] /\ configured \subseteq Platform
    OBVIOUS
  <2>3. deliveries \in 0..MaxDelivery /\ Len(seen) <= MaxSeen /\ transit \subseteq Delivery
    BY <2>1, AdapterAssumption
  <2> QED BY <2>1, <2>2, <2>3 DEF AdapterTypeOK
<1>2. QuietBeforeStart /\ SeenAreDistinct
  BY DEF QuietBeforeStart, SeenAreDistinct
<1>3. SeenAreTheLatest /\ RedeliveryIsHandledOnce
  BY DEF SeenAreTheLatest, RedeliveryIsHandledOnce
<1> QED BY <1>1, <1>2, <1>3 DEF AdapterInv

\* The steps of the daemon and of the connections hand nothing on.
LEMMA ConnectionsKeepInv ==
  ASSUME AdapterInv, AdapterTypeOK', UNCHANGED <<seen, handled>>,
         daemon' = "down" => UNCHANGED <<daemon, subscribed, started, starting, transit>>,
         subscribed' => subscribed \/ daemon = "down"
  PROVE  AdapterInv'
<1> USE DEF AdapterInv
<1>1. QuietBeforeStart' /\ SeenAreDistinct' /\ RedeliveryIsHandledOnce'
  BY DEF QuietBeforeStart, SeenAreDistinct, RedeliveryIsHandledOnce
<1>2. SeenAreTheLatest'
  BY DEF SeenAreTheLatest, QuietBeforeStart, AdapterTypeOK
<1> QED BY <1>1, <1>2

LEMMA AdapterConnectionTypes ==
  ASSUME AdapterTypeOK,
         \/ DaemonStart \/ DaemonStarted \/ PollingFails
         \/ PauseInbound \/ AdaptersStop \/ StorageCloses
         \/ \E p \in Platform : Connects(p) \/ ConnectFails(p)
  PROVE  AdapterTypeOK'
<1> USE DEF AdapterTypeOK, inboundVars
<1>1. CASE DaemonStart
  BY <1>1 DEF DaemonStart
<1>2. CASE DaemonStarted \/ PollingFails
  BY <1>2, AdapterAssumption DEF DaemonStarted, PollingFails
<1>3. CASE PauseInbound \/ AdaptersStop \/ StorageCloses
  BY <1>3 DEF PauseInbound, AdaptersStop, StorageCloses, Unsubscribed
<1>4. ASSUME NEW p \in Platform, Connects(p) \/ ConnectFails(p) PROVE AdapterTypeOK'
  BY <1>4 DEF Connects, ConnectFails, Unsubscribed
<1> QED BY <1>1, <1>2, <1>3, <1>4

LEMMA ArrivesKeepsInv ==
  ASSUME AdapterInv, NEW p \in Platform, NEW k \in Key, Arrives(p, k)
  PROVE  AdapterInv'
<1>1. deliveries + 1 \in 1..MaxDelivery /\ deliveries' = deliveries + 1
  BY AdapterAssumption DEF Arrives, AdapterInv, AdapterTypeOK
<1>2. transit' \subseteq Delivery
  BY <1>1 DEF Arrives, AdapterInv, AdapterTypeOK, Delivery
<1>3. AdapterTypeOK'
  BY <1>1, <1>2 DEF Arrives, AdapterInv, AdapterTypeOK
<1>4. daemon = "down" => transit' = transit
  BY DEF Arrives, AcceptInbound, AdapterInv, QuietBeforeStart
<1> QED BY <1>3, <1>4, ConnectionsKeepInv DEF Arrives

\* A message that is handed on was none of the last MaxSeen.
LEMMA FetchedKeepsInv ==
  ASSUME AdapterInv, NEW d \in Delivery, Fetched(d)
  PROVE  AdapterInv'
<1> DEFINE p == d.from
           k == d.key
<1>1. p \in Platform /\ k \in Key /\ daemon # "down" /\ daemon' # "down" /\ subscribed' = subscribed
  BY DEF Fetched, Delivery, AdapterInv, QuietBeforeStart
<1>2. /\ transit' \subseteq Delivery
      /\ UNCHANGED <<configured, daemon, subscribed, starting, started, paused, deliveries>>
  BY DEF Fetched, AdapterInv, AdapterTypeOK
<1>3. CASE p \in Remembering /\ Known(k)
  <2>1. UNCHANGED <<seen, handled>>
    BY <1>3 DEF Fetched
  <2>2. AdapterTypeOK'
    BY <1>2, <2>1 DEF AdapterInv, AdapterTypeOK
  <2> QED BY <1>1, <2>1, <2>2, ConnectionsKeepInv
<1>4. CASE p \in Remembering /\ ~Known(k)
  <2>1. seen' = Remember(k) /\ HandedOn(d)
    BY <1>4 DEF Fetched
  <2>2. /\ seen' \in Seq(Key) /\ Len(seen') <= MaxSeen
        /\ SeenAreDistinct'
        /\ \/ Len(seen) < MaxSeen /\ seen' = Append(seen, k)
           \/ /\ Len(seen) = MaxSeen /\ Len(seen') = MaxSeen
              /\ \A i \in 1..MaxSeen : seen'[i] = Append(seen, k)[i + 1]
    BY <1>1, <1>4, <2>1, RememberShape DEF AdapterInv, SeenAreDistinct
  <2>3. QuietBeforeStart'
    BY <1>1 DEF QuietBeforeStart
  <2>4. CASE ~subscribed
    <3>1. handled' = handled
      BY <2>1, <2>4 DEF HandedOn
    <3>2. AdapterTypeOK'
      BY <1>2, <2>2, <3>1 DEF AdapterInv, AdapterTypeOK
    <3> QED BY <1>1, <2>2, <2>3, <2>4, <3>1, <3>2
            DEF AdapterInv, SeenAreTheLatest, RedeliveryIsHandledOnce
  <2>5. CASE subscribed
    <3> DEFINE h == handled[p]
               a == Len(h) - Len(seen)
    <3>1. handled' = [handled EXCEPT ![p] = Append(h, k)]
      BY <2>1, <2>5 DEF HandedOn
    <3>2. h \in Seq(Key) /\ seen \in Seq(Key) /\ Len(h) \in Nat /\ Len(seen) \in Nat
      BY <1>1 DEF AdapterInv, AdapterTypeOK
    <3>3. handled'[p] = Append(h, k) /\ handled' \in [Platform -> Seq(Key)]
      BY <1>1, <3>1, <3>2 DEF AdapterInv, AdapterTypeOK
    <3>4. /\ Len(Append(h, k)) = Len(h) + 1 /\ Append(h, k)[Len(h) + 1] = k
          /\ \A i \in 1..Len(h) : Append(h, k)[i] = h[i]
      BY <1>1, <3>2, AppendProperties
    <3>5. /\ Len(Append(seen, k)) = Len(seen) + 1 /\ Append(seen, k)[Len(seen) + 1] = k
          /\ \A i \in 1..Len(seen) : Append(seen, k)[i] = seen[i]
      BY <1>1, <3>2, AppendProperties
    <3>6. /\ Len(seen) <= Len(h)
          /\ Len(seen) = Len(h) \/ Len(seen) = MaxSeen
          /\ \A i \in 1..Len(seen) : h[a + i] = seen[i]
      BY <1>1, <1>4, <2>5 DEF AdapterInv, SeenAreTheLatest
    <3>7. \A q \in Remembering \cap Platform : q = p
      BY <1>1, <1>4 DEF Remembering
    <3>8. a \in Nat /\ Len(h) = a + Len(seen)
      BY <3>2, <3>6
    <3>9. AdapterTypeOK'
      BY <1>2, <2>2, <3>3 DEF AdapterInv, AdapterTypeOK
    <3> HIDE DEF h, a
    <3>10. SeenAreTheLatest'
      <4>1. CASE Len(seen) < MaxSeen /\ seen' = Append(seen, k)
        <5>1. Len(seen) = Len(h) /\ Len(seen') = Len(handled'[p])
          BY <3>2, <3>3, <3>4, <3>5, <3>6, <4>1
        <5>2. a = 0
          BY <3>2, <3>8, <5>1
        <5>3. \A i \in 1..Len(seen') : handled'[p][i] = seen'[i]
          BY <3>2, <3>3, <3>4, <3>5, <3>6, <4>1, <5>1, <5>2
        <5>4. Len(seen') \in Nat /\ Len(handled'[p]) \in Nat
          BY <3>2, <3>5, <4>1, <5>1
        <5>5. \A i \in 1..Len(seen') : handled'[p][Len(handled'[p]) - Len(seen') + i] = seen'[i]
          <6> SUFFICES ASSUME NEW i \in 1..Len(seen')
                       PROVE  handled'[p][Len(handled'[p]) - Len(seen') + i] = seen'[i]
            OBVIOUS
          <6>1. Len(handled'[p]) - Len(seen') + i = i
            BY <5>1, <5>4
          <6> QED BY <5>3, <6>1
        <5>6. Len(seen') <= Len(handled'[p])
          BY <5>1, <5>4
        <5> HIDE DEF p
        <5> QED BY <3>7, <5>1, <5>5, <5>6 DEF SeenAreTheLatest
      <4>2. CASE /\ Len(seen) = MaxSeen /\ Len(seen') = MaxSeen
                 /\ \A i \in 1..MaxSeen : seen'[i] = Append(seen, k)[i + 1]
        <5>1. Len(handled'[p]) = a + MaxSeen + 1 /\ MaxSeen \in Nat
          BY <3>2, <3>3, <3>4, <3>8, <4>2
        <5>2. \A i \in 1..MaxSeen : handled'[p][a + 1 + i] = seen'[i]
          <6> SUFFICES ASSUME NEW i \in 1..MaxSeen PROVE handled'[p][a + 1 + i] = seen'[i]
            OBVIOUS
          <6>1. CASE i = MaxSeen
            BY <3>2, <3>3, <3>4, <3>5, <3>8, <4>2, <5>1, <6>1
          <6>2. CASE i < MaxSeen
            <7>1. i + 1 \in 1..Len(seen) /\ a + (i + 1) \in 1..Len(h)
              BY <3>2, <3>8, <4>2, <5>1, <6>2
            <7>2. seen'[i] = seen[i + 1] /\ h[a + (i + 1)] = seen[i + 1]
              BY <3>5, <3>6, <4>2, <7>1
            <7>3. handled'[p][a + (i + 1)] = h[a + (i + 1)] /\ a + (i + 1) = a + 1 + i
              BY <3>3, <3>4, <3>8, <7>1
            <7> QED BY <7>2, <7>3
          <6> QED BY <5>1, <6>1, <6>2
        <5>3. \A i \in 1..MaxSeen : Len(handled'[p]) - Len(seen') + i = a + 1 + i
          BY <3>8, <4>2, <5>1
        <5>4. Len(seen') <= Len(handled'[p])
          BY <3>8, <4>2, <5>1
        <5> QED BY <3>7, <4>2, <5>2, <5>3, <5>4 DEF SeenAreTheLatest
      <4> QED BY <2>2, <4>1, <4>2
    <3>11. RedeliveryIsHandledOnce'
      <4> SUFFICES ASSUME NEW q \in Remembering \cap Platform
                   PROVE  \A i, j \in DOMAIN handled'[q] : i < j /\ handled'[q][i] = handled'[q][j] =>
                            Cardinality({handled'[q][m] : m \in i + 1..j - 1}) >= MaxSeen
        BY DEF RedeliveryIsHandledOnce
      <4> DEFINE g == handled'[q]
      <4>0. g = handled'[p] /\ DOMAIN g = 1..Len(h) + 1
        BY <1>1, <3>2, <3>3, <3>4, <3>7
      <4> SUFFICES ASSUME NEW i \in DOMAIN g, NEW j \in DOMAIN g, i < j, g[i] = g[j]
                   PROVE  Cardinality({g[m] : m \in i + 1..j - 1}) >= MaxSeen
        OBVIOUS
      <4> HIDE DEF g
      <4>1. {g[m] : m \in i + 1..j - 1} = {h[m] : m \in i + 1..j - 1}
        <5>1. \A m \in i + 1..j - 1 : m \in 1..Len(h) /\ g[m] = h[m]
          BY <3>2, <3>3, <3>4, <4>0
        <5> QED BY <5>1
      <4>2. CASE j <= Len(h)
        <5>1. i \in DOMAIN h /\ j \in DOMAIN h /\ h[i] = h[j]
          BY <3>2, <3>3, <3>4, <4>0, <4>2
        <5> QED BY <1>1, <1>4, <4>1, <5>1 DEF AdapterInv, RedeliveryIsHandledOnce, h
      <4>3. CASE j = Len(h) + 1
        <5>1. i \in 1..Len(h) /\ h[i] = k
          BY <3>2, <3>3, <3>4, <4>0, <4>3
        <5>2. i <= a
          <6> SUFFICES ASSUME i > a PROVE FALSE
            BY <3>8, <5>1
          <6>1. i - a \in 1..Len(seen) /\ a + (i - a) = i
            BY <3>2, <3>8, <5>1
          <6>2. seen[i - a] = k
            BY <3>6, <5>1, <6>1
          <6> QED BY <1>4, <3>2, <6>1, <6>2 DEF Known
        <5>3. Len(seen) = MaxSeen
          BY <3>2, <3>6, <3>8, <5>1, <5>2
        <5>4. Cardinality(Stretch(h, i + 1, Len(h))) >= Len(seen)
          <6>1. \A m, n \in DOMAIN seen : seen[m] = seen[n] => m = n
            BY DEF AdapterInv, SeenAreDistinct
          <6>2. i \in 1..a
            BY <3>8, <5>1, <5>2
          <6> QED BY <3>2, <3>6, <3>8, <6>1, <6>2, DistinctStretch
        <5>5. j - 1 = Len(h)
          BY <3>2, <4>3
        <5> QED BY <4>1, <5>3, <5>4, <5>5 DEF Stretch
      <4> QED BY <3>2, <4>0, <4>2, <4>3
    <3> QED BY <2>2, <2>3, <3>9, <3>10, <3>11 DEF AdapterInv
  <2> QED BY <2>4, <2>5
<1>5. CASE p \notin Remembering
  <2>1. seen' = seen /\ HandedOn(d)
    BY <1>5 DEF Fetched
  <2>2. \A q \in Remembering \cap Platform : handled'[q] = handled[q]
    BY <1>1, <1>5, <2>1 DEF HandedOn, AdapterInv, AdapterTypeOK
  <2>3. handled' \in [Platform -> Seq(Key)]
    BY <1>1, <2>1 DEF HandedOn, AdapterInv, AdapterTypeOK
  <2>4. AdapterTypeOK'
    BY <1>2, <2>1, <2>3 DEF AdapterInv, AdapterTypeOK
  <2> QED BY <1>1, <2>1, <2>2, <2>4
          DEF AdapterInv, QuietBeforeStart, SeenAreDistinct, SeenAreTheLatest,
              RedeliveryIsHandledOnce
<1> QED BY <1>3, <1>4, <1>5

LEMMA AdapterStepKeepsInv == AdapterInv /\ [AdapterNext]_adapterVars => AdapterInv'
<1> SUFFICES ASSUME AdapterInv, [AdapterNext]_adapterVars PROVE AdapterInv'
  OBVIOUS
<1>1. CASE UNCHANGED adapterVars
  BY <1>1 DEF AdapterInv, AdapterTypeOK, QuietBeforeStart, SeenAreDistinct, SeenAreTheLatest,
              RedeliveryIsHandledOnce, adapterVars
<1>2. CASE DaemonStart \/ DaemonStarted \/ PollingFails
  <2>1. AdapterTypeOK'
    BY <1>2, AdapterConnectionTypes DEF AdapterInv
  <2> QED BY <1>2, <2>1, ConnectionsKeepInv
          DEF DaemonStart, DaemonStarted, PollingFails, inboundVars, AdapterInv, QuietBeforeStart
<1>3. CASE PauseInbound \/ AdaptersStop \/ StorageCloses
  <2>1. AdapterTypeOK'
    BY <1>3, AdapterConnectionTypes DEF AdapterInv
  <2> QED BY <1>3, <2>1, ConnectionsKeepInv
          DEF PauseInbound, AdaptersStop, StorageCloses, Unsubscribed, inboundVars
<1>4. ASSUME NEW p \in Platform, Connects(p) \/ ConnectFails(p) PROVE AdapterInv'
  <2>1. AdapterTypeOK'
    BY <1>4, AdapterConnectionTypes DEF AdapterInv
  <2>2. daemon # "down"
    BY <1>4 DEF Connects, ConnectFails, AdapterInv, QuietBeforeStart
  <2> QED BY <1>4, <2>1, <2>2, ConnectionsKeepInv
          DEF Connects, ConnectFails, Unsubscribed, inboundVars
<1>5. ASSUME NEW p \in Platform, NEW k \in Key, Arrives(p, k) PROVE AdapterInv'
  BY <1>5, ArrivesKeepsInv
<1>6. ASSUME NEW d \in Delivery, Fetched(d) PROVE AdapterInv'
  BY <1>6, FetchedKeepsInv
<1>7. ASSUME NEW d \in Delivery, Unreadable(d) PROVE AdapterInv'
  <2>1. AdapterTypeOK'
    BY <1>7 DEF Unreadable, AdapterInv, AdapterTypeOK
  <2>2. daemon # "down"
    BY <1>7 DEF Unreadable, AdapterInv, QuietBeforeStart
  <2> QED BY <1>7, <2>1, <2>2, ConnectionsKeepInv DEF Unreadable
<1> QED BY <1>1, <1>2, <1>3, <1>4, <1>5, <1>6, <1>7 DEF AdapterNext

\* A message that DingTalk delivers again, while its attachments are still being fetched
\* or long after, is handled again only after MaxSeen others, for every MaxSeen.
THEOREM RedeliveriesAreDropped == AdapterSpec => []RedeliveryIsHandledOnce
<1>1. AdapterInv => RedeliveryIsHandledOnce
  BY DEF AdapterInv
<1> QED BY <1>1, AdapterInvInit, AdapterStepKeepsInv, PTL DEF AdapterSpec

-----------------------------------------------------------------------------
(* Computer use                                                            *)

\* A session was opened by the answer to its user's /cu.
SessionsAreSent ==
  \A s \in Strand : session[s] # NoSession =>
    \E q \in sent : /\ q.user = session[s].user /\ q.turn = session[s].turn
                    /\ session[s].expiresAt = q.at + SessionTtl

SentBeforeNow == \A q \in sent : q.at <= clock

UseInv == UseTypeOK /\ SessionsAreSent /\ SentBeforeNow /\ EveryUseWasAskedFor

LEMMA UseInvInit == UseInit => UseInv
<1> SUFFICES ASSUME UseInit PROVE UseInv
  OBVIOUS
<1>1. UseTypeOK
  BY UseAssumption DEF UseInit, UseTypeOK, Time, Act
<1>2. SessionsAreSent /\ SentBeforeNow /\ EveryUseWasAskedFor
  BY DEF UseInit, SessionsAreSent, SentBeforeNow, EveryUseWasAskedFor
<1> QED BY <1>1, <1>2 DEF UseInv

\* The steps that touch neither sessions nor calls.
LEMMA TurnsKeepInv ==
  ASSUME UseInv, UseTypeOK', UNCHANGED <<sent, session>>, acting' \subseteq acting, clock' >= clock
  PROVE  UseInv'
<1>1. clock \in Nat /\ clock' \in Nat /\ \A q \in sent : q.at \in Nat
  BY UseAssumption DEF UseInv, UseTypeOK, Time
<1>2. SentBeforeNow'
  BY <1>1 DEF UseInv, SentBeforeNow
<1>3. SessionsAreSent' /\ EveryUseWasAskedFor'
  BY DEF UseInv, SessionsAreSent, EveryUseWasAskedFor
<1> QED BY <1>2, <1>3 DEF UseInv

LEMMA StartsTypes ==
  ASSUME UseTypeOK, NEW t \in UseTurn, NEW s \in Strand, Starts(t, s)
  PROVE  /\ onThread' \in [UseTurn -> Strand \cup {Nobody}]
         /\ runningOn' \in [Strand -> UseTurn \cup {0}]
BY DEF UseTypeOK, Starts

LEMMA OpeningKeepsInv ==
  ASSUME UseInv, NEW u \in User, SessionOpens(u)
  PROVE  UseInv'
<1> DEFINE w == asking[u]
           q == [user |-> u, turn |-> w.turn, at |-> clock]
           n == [user |-> u, turn |-> w.turn, expiresAt |-> clock + SessionTtl]
<1>1. w \in Waiting
  BY DEF UseInv, UseTypeOK, SessionOpens
<1>2. w.strand \in Strand /\ w.turn \in UseTurn /\ clock \in Time /\ clock \in Nat
  BY <1>1, UseAssumption DEF Waiting, UseInv, UseTypeOK, Time
<1>3. q \in [user: User, turn: UseTurn, at: Time] /\ n \in Session
  BY <1>2, UseAssumption DEF Session
<1>4. session' = [session EXCEPT ![w.strand] = n] /\ sent' = sent \cup {q}
  BY DEF SessionOpens
<1>5. UseTypeOK'
  <2>1. asking' \in [User -> Waiting \cup {NotWaiting}]
    BY DEF SessionOpens, UseInv, UseTypeOK
  <2>2. session' \in [Strand -> Session \cup {NoSession}]
    BY <1>3, <1>4 DEF UseInv, UseTypeOK
  <2> QED BY <1>3, <1>4, <2>1, <2>2 DEF SessionOpens, UseInv, UseTypeOK
<1>6. SessionsAreSent'
  <2> SUFFICES ASSUME NEW s \in Strand, session'[s] # NoSession
               PROVE  \E o \in sent' : /\ o.user = session'[s].user /\ o.turn = session'[s].turn
                                       /\ session'[s].expiresAt = o.at + SessionTtl
    BY DEF SessionsAreSent
  <2>1. CASE s = w.strand
    <3>1. session'[s] = n
      BY <1>4, <2>1 DEF UseInv, UseTypeOK
    <3>2. q \in sent' /\ q.user = n.user /\ q.turn = n.turn /\ n.expiresAt = q.at + SessionTtl
      BY <1>4
    <3> QED BY <3>1, <3>2
  <2>2. CASE s # w.strand
    <3>1. session'[s] = session[s]
      BY <1>4, <2>2 DEF UseInv, UseTypeOK
    <3> QED BY <1>4, <3>1 DEF UseInv, SessionsAreSent
  <2> QED BY <2>1, <2>2
<1>7. SentBeforeNow'
  BY <1>2, <1>4 DEF SessionOpens, UseInv, SentBeforeNow
<1>8. EveryUseWasAskedFor'
  BY <1>4 DEF SessionOpens, UseInv, EveryUseWasAskedFor
<1> QED BY <1>5, <1>6, <1>7, <1>8 DEF UseInv

\* The gate lets a call through under a session that is the turn's and not over.
LEMMA GateKeepsInv ==
  ASSUME UseInv, NEW t \in UseTurn, NEW known \in BOOLEAN, NEW plain \in BOOLEAN,
         ToolCall(t, known, plain)
  PROVE  UseInv'
<1> DEFINE s == onThread[t]
           act == [user |-> session[s].user, turn |-> t, at |-> clock]
<1>1. s \in Strand
  BY DEF ToolCall, UseInv, UseTypeOK
<1>2. \A o \in Strand : session'[o] = session[o] \/ session'[o] = NoSession
  BY <1>1 DEF ToolCall, UseInv, UseTypeOK
<1>3. sent' = sent /\ clock' = clock
  BY DEF ToolCall
<1>4. SessionsAreSent' /\ SentBeforeNow'
  BY <1>2, <1>3 DEF UseInv, SessionsAreSent, SentBeforeNow
<1>5. session' \in [Strand -> Session \cup {NoSession}]
  BY <1>1 DEF ToolCall, UseInv, UseTypeOK
<1>6. CASE ~(MatchToolCall(t) /\ known /\ plain)
  <2>1. acting' = acting
    BY <1>6 DEF ToolCall
  <2>2. UseTypeOK'
    BY <2>1, <1>5 DEF ToolCall, UseInv, UseTypeOK
  <2> QED BY <2>1, <2>2, <1>3, <1>4 DEF UseInv, EveryUseWasAskedFor
<1>7. CASE MatchToolCall(t)
  <2>1. /\ session[s] # NoSession /\ session[s].turn = t
        /\ ~(clock >= session[s].expiresAt)
    BY <1>7 DEF MatchToolCall, Expired
  <2>2. session[s] \in Session /\ clock \in Time /\ clock \in Nat
    BY <1>1, <2>1, UseAssumption DEF UseInv, UseTypeOK, Time
  <2>3. act \in Act
    BY <2>2 DEF Act, Session
  <2>4. acting' \subseteq acting \cup {act}
    BY DEF ToolCall
  <2>5. UseTypeOK'
    BY <1>5, <2>3, <2>4 DEF ToolCall, UseInv, UseTypeOK
  <2>6. PICK q \in sent : /\ q.user = session[s].user /\ q.turn = session[s].turn
                          /\ session[s].expiresAt = q.at + SessionTtl
    BY <1>1, <2>1 DEF UseInv, SessionsAreSent
  <2>7. q.at <= clock /\ q.at \in Nat
    BY UseAssumption DEF UseInv, SentBeforeNow, UseTypeOK, Time
  <2>8. clock < q.at + SessionTtl
    BY <2>1, <2>2, <2>6, <2>7, UseAssumption
  <2>9. EveryUseWasAskedFor'
    <3> SUFFICES ASSUME NEW a \in acting'
                 PROVE  \E o \in sent' : o.user = a.user /\ o.turn = a.turn /\ o.at <= a.at
                                         /\ a.at < o.at + SessionTtl
      BY DEF EveryUseWasAskedFor
    <3>1. CASE a \in acting
      BY <1>3, <3>1 DEF UseInv, EveryUseWasAskedFor
    <3>2. CASE a = act
      BY <1>3, <2>1, <2>6, <2>7, <2>8, <3>2
    <3> QED BY <2>4, <3>1, <3>2
  <2> QED BY <1>4, <2>5, <2>9 DEF UseInv
<1> QED BY <1>6, <1>7

LEMMA UseStepKeepsInv == UseInv /\ [UseNext]_useVars => UseInv'
<1> SUFFICES ASSUME UseInv, [UseNext]_useVars PROVE UseInv'
  OBVIOUS
<1>0. clock \in Nat
  BY UseAssumption DEF UseInv, UseTypeOK, Time
<1>1. CASE UNCHANGED useVars
  BY <1>1 DEF UseInv, UseTypeOK, SessionsAreSent, SentBeforeNow, EveryUseWasAskedFor, useVars
<1>2. ASSUME NEW t \in UseTurn, NEW s \in Strand, PlainTurn(t, s) PROVE UseInv'
  <2>1. UseTypeOK'
    BY <1>2, StartsTypes DEF PlainTurn, UseInv, UseTypeOK
  <2> QED BY <1>0, <1>2, <2>1, TurnsKeepInv DEF PlainTurn
<1>3. ASSUME NEW t \in UseTurn, NEW s \in Strand, NEW u \in User, Cu(u, s, t) PROVE UseInv'
  <2>1. /\ onThread' \in [UseTurn -> Strand \cup {Nobody}]
        /\ runningOn' \in [Strand -> UseTurn \cup {0}]
    BY <1>3, StartsTypes DEF Cu, UseInv, UseTypeOK
  <2>2. asking' \in [User -> Waiting \cup {NotWaiting}]
    BY <1>3 DEF Cu, UseInv, UseTypeOK, Waiting
  <2>3. UseTypeOK'
    BY <1>3, <2>1, <2>2 DEF Cu, UseInv, UseTypeOK
  <2> QED BY <1>0, <1>3, <2>3, TurnsKeepInv DEF Cu
<1>4. ASSUME NEW u \in User, SessionOpens(u) PROVE UseInv'
  BY <1>4, OpeningKeepsInv
<1>5. ASSUME NEW u \in User, CuFails(u) PROVE UseInv'
  <2>1. UseTypeOK'
    BY <1>5 DEF CuFails, UseInv, UseTypeOK
  <2> QED BY <1>0, <1>5, <2>1, TurnsKeepInv DEF CuFails
<1>6. ASSUME NEW t \in UseTurn, NEW known \in BOOLEAN, NEW plain \in BOOLEAN,
             ToolCall(t, known, plain)
      PROVE  UseInv'
  BY <1>6, GateKeepsInv
<1>7. ASSUME NEW a \in Act, ProviderAnswers(a) PROVE UseInv'
  <2>1. UseTypeOK'
    BY <1>7 DEF ProviderAnswers, UseInv, UseTypeOK
  <2> QED BY <1>0, <1>7, <2>1, TurnsKeepInv DEF ProviderAnswers
<1>8. ASSUME NEW s \in Strand, UseTurnEnds(s) PROVE UseInv'
  <2>1. UseTypeOK'
    BY <1>8 DEF UseTurnEnds, UseInv, UseTypeOK
  <2> QED BY <1>0, <1>8, <2>1, TurnsKeepInv DEF UseTurnEnds
<1>9. CASE ClockTicks
  <2>1. clock' \in Time /\ clock' >= clock
    BY <1>0, <1>9, UseAssumption DEF ClockTicks, Time
  <2>2. UseTypeOK'
    BY <1>9, <2>1 DEF ClockTicks, UseInv, UseTypeOK
  <2> QED BY <1>9, <2>1, <2>2, TurnsKeepInv DEF ClockTicks
<1> QED BY <1>1, <1>2, <1>3, <1>4, <1>5, <1>6, <1>7, <1>8, <1>9 DEF UseNext

\* What codex does on the machine, it does in a turn into which a user has sent /cu, in
\* that user's name and before his session is over, for any number of users, threads
\* and turns.
THEOREM UsesAreAskedFor == UseSpec => []EveryUseWasAskedFor
<1>1. UseInv => EveryUseWasAskedFor
  BY DEF UseInv
<1> QED BY <1>1, UseInvInit, UseStepKeepsInv, PTL DEF UseSpec

-----------------------------------------------------------------------------
(* All of them side by side                                                *)

ServicesInv ==
  /\ IndInv /\ NormInv /\ OutputInv /\ RequestInv
  /\ AdapterInv /\ CatalogInv /\ UseInv /\ SelectorInv

LEMMA ServicesInvInit == ServicesInit => ServicesInv
BY InitInv, NormInvInit, OutputInvInit, RequestInvInit, AdapterInvInit, CatalogInvInit,
   UseInvInit, SelectorInvInit DEF ServicesInit, ServicesInv

\* A step of one of them is a step or a stutter of each.
LEMMA PartsStep ==
  ASSUME [ServicesNext]_servicesVars
  PROVE  /\ [Next]_vars /\ [NormNext]_normVars /\ [OutputNext]_outputVars /\ [RequestNext]_requestVars
         /\ [AdapterNext]_adapterVars /\ [CatalogNext]_catalogVars /\ [UseNext]_useVars
         /\ [SelectorNext]_selectorVars
BY DEF ServicesNext, servicesVars

LEMMA ServicesStepKeepsInv == ServicesInv /\ [ServicesNext]_servicesVars => ServicesInv'
<1> SUFFICES ASSUME ServicesInv, [ServicesNext]_servicesVars PROVE ServicesInv'
  OBVIOUS
<1>1. /\ [Next]_vars /\ [NormNext]_normVars /\ [OutputNext]_outputVars /\ [RequestNext]_requestVars
      /\ [AdapterNext]_adapterVars /\ [CatalogNext]_catalogVars /\ [UseNext]_useVars
      /\ [SelectorNext]_selectorVars
  BY PartsStep
<1>2. IndInv' /\ NormInv' /\ OutputInv' /\ RequestInv'
  BY <1>1, NextInv, NormStepKeepsInv, OutputStepKeepsInv, RequestStepKeepsInv DEF ServicesInv
<1>3. AdapterInv' /\ CatalogInv' /\ UseInv' /\ SelectorInv'
  BY <1>1, AdapterStepKeepsInv, CatalogStepKeepsInv, UseStepKeepsInv, SelectorStepKeepsInv
     DEF ServicesInv
<1> QED BY <1>2, <1>3 DEF ServicesInv

\* The services keep their invariants side by side, whichever of them moves.
THEOREM ServicesInvariance == ServicesSpec => []ServicesInv
  BY ServicesInvInit, ServicesStepKeepsInv, PTL DEF ServicesSpec

\* Every variable of every service keeps its type, for any number of calls, messages,
\* chats, threads, users and turns.
THEOREM ServicesTypeCorrect == ServicesSpec => []ServicesTypeOK
<1>1. ServicesInv => ServicesTypeOK
  BY NormTypes DEF ServicesInv, ServicesTypeOK, OutputInv, RequestInv, AdapterInv, CatalogInv,
                   UseInv, SelectorInv
<1> QED BY <1>1, ServicesInvariance, PTL
=============================================================================
