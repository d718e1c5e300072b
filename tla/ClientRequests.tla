--------------------------- MODULE ClientRequests ---------------------------
(***************************************************************************)
(* AppServerClient, the outgoing half: requests to codex, each with an id  *)
(* and a timer, and the messages that come back.  A client serves one      *)
(* connection and is never started again.                                  *)
(*                                                                         *)
(* A call of request() ends with codex's answer, by its timer, with the    *)
(* connection, or at once when the message cannot be sent.  Codex answers  *)
(* in any order, late, with an error, or never; an answer is known by its  *)
(* id alone.                                                               *)
(***************************************************************************)
EXTENDS Naturals

CONSTANT MaxCall            \* bound on the calls of request()

Call == 1..MaxCall

ASSUME CallAssumption == MaxCall \in Nat

VARIABLES
  link,       \* the client: before start, subscribed to its transport, or closed
  running,    \* the codex process reads and writes
  nextId,     \* nextId
  awaited,    \* pending: the call that waits under an id, or 0
  idOf,       \* history: the id a call was given
  outcome,    \* what a call ended with
  answer,     \* history: the call whose answer it was given
  asked,      \* requests codex has not answered, as [id, call]
  inbox       \* messages of codex the client has not read

requestVars == <<link, running, nextId, awaited, idOf, outcome, answer, asked, inbox>>

Id == 1..MaxCall
Request == [id: Id, call: Call]
Message == [id: Id \cup {0}, call: Call, ok: BOOLEAN]    \* id 0: null
Outcomes == {"result", "error", "timeout", "closed", "unsent"}

RequestTypeOK ==
  /\ link \in {"new", "open", "closed"} /\ running \in BOOLEAN
  /\ nextId \in 1..MaxCall + 1
  /\ awaited \in [Id -> Call \cup {0}]
  /\ idOf \in [Call -> Id \cup {0}]
  /\ outcome \in [Call -> {"none", "waiting"} \cup Outcomes]
  /\ answer \in [Call -> Call \cup {0}]
  /\ asked \subseteq Request /\ inbox \subseteq Message

RequestInit ==
  /\ link = "new" /\ running = FALSE
  /\ nextId = 1
  /\ awaited = [i \in Id |-> 0]
  /\ idOf = [c \in Call |-> 0]
  /\ outcome = [c \in Call |-> "none"]
  /\ answer = [c \in Call |-> 0]
  /\ asked = {} /\ inbox = {}

-----------------------------------------------------------------------------
(* The client                                                              *)

\* start: the process is spawned and the client subscribes to what it says.
StartClient ==
  /\ link = "new"
  /\ link' = "open" /\ running' = TRUE
  /\ UNCHANGED <<nextId, awaited, idOf, outcome, answer, asked, inbox>>

\* (mutant) The lowest id nobody waits under is used again.
FreshId_Reused ==
  CHOOSE i \in Id : awaited[i] = 0 /\ \A j \in Id : j < i => awaited[j] # 0

\* Ids count up, so that no two requests of a connection share one.
FreshId == nextId

\* request, sent or not: send throws when the transport is stopped, and what is
\* written to a process that is gone is lost.
RequestCall(c, sent) ==
  /\ outcome[c] = "none" /\ \A o \in Call : o < c => outcome[o] # "none"
  /\ link = "open"
  /\ ~sent => ~running
  /\ nextId' = nextId + 1
  /\ idOf' = [idOf EXCEPT ![c] = FreshId]
  /\ IF sent
       THEN /\ awaited' = [awaited EXCEPT ![FreshId] = c]
            /\ outcome' = [outcome EXCEPT ![c] = "waiting"]
            /\ asked' = IF running THEN asked \cup {[id |-> FreshId, call |-> c]} ELSE asked
       ELSE /\ outcome' = [outcome EXCEPT ![c] = "unsent"]
            /\ UNCHANGED <<awaited, asked>>
  /\ UNCHANGED <<link, running, answer, inbox>>

\* A closed client refuses.
RequestRefused(c) ==
  /\ outcome[c] = "none" /\ link = "closed"
  /\ outcome' = [outcome EXCEPT ![c] = "closed"]
  /\ UNCHANGED <<link, running, nextId, awaited, idOf, answer, asked, inbox>>

Settle(i, how) ==
  /\ outcome' = [outcome EXCEPT ![awaited[i]] = how]
  /\ awaited' = [awaited EXCEPT ![i] = 0]

RequestTimer(i) ==
  /\ awaited[i] # 0
  /\ Settle(i, "timeout")
  /\ UNCHANGED <<link, running, nextId, idOf, answer, asked, inbox>>

\* completePending: an answer under no id, or under one nobody waits for any more, is
\* dropped.
CompletePending(m) ==
  /\ link = "open" /\ m \in inbox
  /\ inbox' = inbox \ {m}
  /\ IF m.id # 0 /\ awaited[m.id] # 0
       THEN /\ Settle(m.id, IF m.ok THEN "result" ELSE "error")
            /\ answer' = [answer EXCEPT ![awaited[m.id]] = m.call]
       ELSE UNCHANGED <<awaited, outcome, answer>>
  /\ UNCHANGED <<link, running, nextId, idOf, asked>>

\* rejectAllPending.
RejectAll ==
  /\ outcome' = [c \in Call |-> IF \E i \in Id : awaited[i] = c THEN "closed" ELSE outcome[c]]
  /\ awaited' = [i \in Id |-> 0]

\* The close event of the process, once it is gone and all it wrote has been read.
HandleClose ==
  /\ link = "open" /\ ~running /\ inbox = {}
  /\ link' = "closed"
  /\ RejectAll
  /\ UNCHANGED <<running, nextId, idOf, answer, asked, inbox>>

\* stop: nothing is read from now on; the process is told to end.
StopRequests ==
  /\ link = "open"
  /\ link' = "closed" /\ running' = FALSE
  /\ RejectAll
  /\ UNCHANGED <<nextId, idOf, answer, asked, inbox>>

-----------------------------------------------------------------------------
(* Codex                                                                   *)

\* Codex answers a request, whether or not anybody waits; an error may come without
\* its id.
CodexAnswers(q) ==
  /\ running /\ q \in asked
  /\ asked' = asked \ {q}
  /\ \E ok \in BOOLEAN, i \in {q.id, 0} :
       /\ i = 0 => ~ok
       /\ inbox' = inbox \cup {[id |-> i, call |-> q.call, ok |-> ok]}
  /\ UNCHANGED <<link, running, nextId, awaited, idOf, outcome, answer>>

CodexGone ==
  /\ running /\ running' = FALSE
  /\ UNCHANGED <<link, nextId, awaited, idOf, outcome, answer, asked, inbox>>

-----------------------------------------------------------------------------
RequestNext ==
  \/ StartClient
  \/ \E c \in Call : (\E sent \in BOOLEAN : RequestCall(c, sent)) \/ RequestRefused(c)
  \/ \E i \in Id : RequestTimer(i)
  \/ \E m \in Message : CompletePending(m)
  \/ HandleClose
  \/ StopRequests
  \/ \E q \in Request : CodexAnswers(q)
  \/ CodexGone

RequestSpec == RequestInit /\ [][RequestNext]_requestVars
-----------------------------------------------------------------------------
(* Properties                                                              *)

\* A caller is given the answer to its own request, though answers come in any order
\* and after others have timed out.
AnswerIsItsOwn ==
  \A c \in Call :
    /\ outcome[c] \in {"result", "error"} => answer[c] = c
    /\ outcome[c] \notin {"result", "error"} => answer[c] = 0
=============================================================================
