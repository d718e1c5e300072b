-------------------------- MODULE RequestContract --------------------------
(***************************************************************************)
(* What the bridge promises codex about the server requests it receives,   *)
(* whatever happens inside: a request is answered at most once or dropped  *)
(* with its connection, and an answer that grants something is given only  *)
(* after a user consented to exactly that answer for that very request.    *)
(***************************************************************************)
CONSTANTS Requests,  \* server requests, one per message codex sends
          Answers,   \* what the wire can carry back
          Granting   \* those of them that let codex proceed

VARIABLES stage,     \* where each request is
          reply,     \* the answers sent, oldest first
          consent    \* the answers users agreed to, per request

cvars == <<stage, reply, consent>>

Stages == {"idle", "waiting", "answered", "dropped"}

CInit ==
  /\ stage = [r \in Requests |-> "idle"]
  /\ reply = [r \in Requests |-> << >>]
  /\ consent = [r \in Requests |-> {}]

\* A request arrives and is waited for.
Receive(r) ==
  /\ stage[r] = "idle"
  /\ stage' = [stage EXCEPT ![r] = "waiting"]
  /\ UNCHANGED <<reply, consent>>

\* A user agrees to the answer a for a request that was made.
Consent(r, a) ==
  /\ stage[r] # "idle"
  /\ consent' = [consent EXCEPT ![r] = @ \cup {a}]
  /\ UNCHANGED <<stage, reply>>

\* The answer goes out; a granting one needs consent.
Reply(r, a) ==
  /\ stage[r] = "waiting"
  /\ a \in Granting => a \in consent[r]
  /\ stage' = [stage EXCEPT ![r] = "answered"]
  /\ reply' = [reply EXCEPT ![r] = << a >>]
  /\ UNCHANGED consent

\* The connection is gone: nothing can be said any more.
Drop(r) ==
  /\ stage[r] = "waiting"
  /\ stage' = [stage EXCEPT ![r] = "dropped"]
  /\ UNCHANGED <<reply, consent>>

CNext ==
  \E r \in Requests :
    \/ Receive(r)
    \/ Drop(r)
    \/ \E a \in Answers : Consent(r, a) \/ Reply(r, a)

CSpec == CInit /\ [][CNext]_cvars
=============================================================================
