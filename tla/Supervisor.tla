----------------------------- MODULE Supervisor -----------------------------
(***************************************************************************)
(* The supervisor of the codex subprocess: it spawns one generation        *)
(* (process, transport, client, runtime) after the other, replaces a       *)
(* generation whose process has exited after a back-off, gives up for good *)
(* when a generation cannot be brought up, and ends the last one on stop.  *)
(*                                                                         *)
(* An action is what runs between two macrotasks.  The exceptions are the  *)
(* two awaits a process can outlast: the handshake of a new generation and *)
(* the stop of a client, which waits for the exit or, after the grace      *)
(* period, kills.  When the close of the connection rejects the initialize *)
(* request, the cleanup of the generation follows in microtasks, before    *)
(* any timer or I/O: see Settling.                                         *)
(***************************************************************************)
EXTENDS Naturals, FiniteSets

CONSTANTS
  MaxGen,                  \* bound: generations spawned in a behaviour
  MaxConsecutiveFailures   \* MAX_CONSECUTIVE_FAILURES

ASSUME BoundAssumption == MaxGen \in Nat \ {0}
ASSUME ThresholdAssumption == MaxConsecutiveFailures \in Nat /\ MaxConsecutiveFailures > 2

Generation == 1..MaxGen
None == 0

VARIABLES
  proc,      \* the subprocess of each generation; "gone": its close event was emitted
  stopped,   \* generations whose transport was told to stop (stdin is closed)
  client,    \* the AppServerClient of each generation
  spawn,     \* how far #spawnFresh came with each generation
  gen,       \* the latest generation
  current,   \* #currentClient and #currentTransport
  runtime,   \* #currentRuntime
  sub,       \* the generation #currentCloseUnsub detaches
  closing,   \* #closing
  failures,  \* #consecutiveFailures
  halted,    \* #halted
  timer,     \* #pendingRespawnTimer is set
  stopping,  \* Daemon.stop: not called, about to call stop(), awaiting it, done
  fatal,     \* emitFatal was called
  lost,      \* generations for which the broker was told of the loss
  ended      \* generations whose event stream was ended with synthetic failures

vars == <<proc, stopped, client, spawn, gen, current, runtime, sub, closing,
          failures, halted, timer, stopping, fatal, lost, ended>>

\* What the process and its transport and client go through, and the
\* supervisor's own fields in the groups its methods change.
linkVars == <<proc, stopped, client, spawn>>
refVars == <<gen, current, runtime, sub>>
closeVars == <<closing, failures, timer>>
toldVars == <<lost, ended>>

TypeOK ==
  /\ proc \in [Generation -> {"none", "running", "exited", "gone"}]
  /\ stopped \in SUBSET Generation
  /\ client \in [Generation -> {"none", "open", "closed"}]
  /\ spawn \in [Generation -> {"none", "handshake", "cleanup", "up", "failed"}]
  /\ gen \in Generation \cup {None}
  /\ current \in Generation \cup {None}
  /\ runtime \in Generation \cup {None}
  /\ sub \in Generation \cup {None}
  /\ closing \in BOOLEAN
  /\ failures \in Nat
  /\ halted \in BOOLEAN
  /\ timer \in BOOLEAN
  /\ stopping \in {"no", "draining", "waiting", "done"}
  /\ fatal \in BOOLEAN
  /\ lost \in SUBSET Generation
  /\ ended \in SUBSET Generation

Init ==
  /\ proc = [g \in Generation |-> "none"]
  /\ stopped = {}
  /\ client = [g \in Generation |-> "none"]
  /\ spawn = [g \in Generation |-> "none"]
  /\ gen = None /\ current = None /\ runtime = None /\ sub = None
  /\ closing = FALSE /\ failures = 0 /\ timer = FALSE
  /\ halted = FALSE /\ stopping = "no" /\ fatal = FALSE
  /\ lost = {} /\ ended = {}

-----------------------------------------------------------------------------
(* #spawnFresh *)

\* A rejected initialize request is about to unwind #spawnFresh.
Settling == \E g \in Generation : spawn[g] = "handshake" /\ client[g] = "closed"

\* (mutant) The detach comes after the subscription.
Subscribe_DetachLast(g) == sub' = None

\* The last generation is detached before the new transport is subscribed.
Subscribe(g) == sub' = g

\* The synchronous part: detach and subscribe, create the client, reattach the
\* broker, start the process.
SpawnFresh ==
  \E g \in Generation :
    /\ g = gen + 1
    /\ gen' = g
    /\ current' = g
    /\ Subscribe(g)
    /\ client' = [client EXCEPT ![g] = "open"]
    /\ proc' = [proc EXCEPT ![g] = "running"]
    /\ spawn' = [spawn EXCEPT ![g] = "handshake"]
    /\ UNCHANGED <<stopped, runtime, halted, fatal>>

\* The same, with a factory or the start of the process throwing: there is
\* no process to wait for, so the cleanup is over before anything else runs.
SpawnThrows(report) ==
  \E g \in Generation :
    /\ g = gen + 1
    /\ gen' = g
    /\ client' = [client EXCEPT ![g] = "closed"]
    /\ spawn' = [spawn EXCEPT ![g] = "failed"]
    /\ halted' = TRUE
    /\ current' = None /\ runtime' = None /\ sub' = None
    /\ fatal' = (fatal \/ report)
    /\ UNCHANGED <<proc, stopped>>

\* start(): a failure is thrown to the caller.
Start ==
  /\ ~Settling
  /\ ~halted
  /\ current = None
  /\ SpawnFresh \/ SpawnThrows(FALSE)
  /\ UNCHANGED <<closeVars, stopping, toldVars>>

\* (mutant) The runtime of the first generation is kept.
UseRuntime_First(g) == runtime' = IF runtime = None THEN g ELSE runtime

\* Step 7 and the reset that follows it.
UseRuntime(g) == runtime' = g

\* (mutant) The counter runs on over generations that came up.
ResetClose_CountKept == closing' = FALSE /\ failures' = failures

ResetClose == closing' = FALSE /\ failures' = 0

\* The initialize response arrives: the generation is up.
HandshakeCompletes(g) ==
  /\ spawn[g] = "handshake" /\ client[g] = "open"
  /\ spawn' = [spawn EXCEPT ![g] = "up"]
  /\ UseRuntime(g)
  /\ ResetClose
  /\ UNCHANGED <<proc, stopped, client, gen, current, sub, halted, timer, stopping, fatal, toldVars>>

\* (mutant) The supervisor stays open for another start().
GiveUp_Open == halted' = halted /\ sub' = None

\* The cleanup begins: no close event is listened to any more.
GiveUp == halted' = TRUE /\ sub' = None

\* (mutant) The client is closed without stopping its transport.
StopClient_CloseOnly(g) == client' = [client EXCEPT ![g] = "closed"] /\ stopped' = stopped

\* AppServerClient.stop on an open client: the transport closes stdin.
StopClient(g) == client' = [client EXCEPT ![g] = "closed"] /\ stopped' = stopped \cup {g}

\* (mutant) A failed handshake is retried after the back-off.
HandshakeFails_Retry(g) ==
  /\ spawn[g] = "handshake" /\ client[g] = "open"
  /\ spawn' = [spawn EXCEPT ![g] = "cleanup"]
  /\ sub' = None /\ StopClient(g) /\ timer' = TRUE
  /\ UNCHANGED <<proc, gen, current, runtime, closing, failures, halted, stopping, fatal, toldVars>>

\* codex answers with an error or not in time: #cleanupFailedGeneration stops
\* the client and awaits the exit of the process.
HandshakeFails(g) ==
  /\ spawn[g] = "handshake" /\ client[g] = "open"
  /\ spawn' = [spawn EXCEPT ![g] = "cleanup"]
  /\ GiveUp
  /\ StopClient(g)
  /\ UNCHANGED <<proc, gen, current, runtime, closeVars, stopping, fatal, toldVars>>

\* (mutant) The runtime of the generation before stays in use.
Clear_RuntimeKept(g) ==
  /\ spawn' = [spawn EXCEPT ![g] = "failed"]
  /\ timer' = FALSE
  /\ current' = None /\ runtime' = runtime
  /\ fatal' = (fatal \/ g > 1)

\* The end of the cleanup, and the report of the recovery's catch arm.
Clear(g) ==
  /\ spawn' = [spawn EXCEPT ![g] = "failed"]
  /\ timer' = FALSE
  /\ current' = None /\ runtime' = None
  /\ fatal' = (fatal \/ g > 1)

\* The client was closed under the handshake: its stop() returns at once.
HandshakeRejected(g) ==
  /\ spawn[g] = "handshake" /\ client[g] = "closed"
  /\ GiveUp
  /\ Clear(g)
  /\ UNCHANGED <<proc, stopped, client, gen, closing, failures, stopping, toldVars>>

\* (mutant) Nothing is killed after the grace period.
KilledOrExited_NoKill(g) == UNCHANGED proc

\* StdioTransport.stop returns: the process has exited, or is killed once the
\* grace period is over.
KilledOrExited(g) ==
  proc' = [proc EXCEPT ![g] = IF @ = "running" THEN "exited" ELSE @]

CleanupEnds(g) ==
  /\ ~Settling
  /\ spawn[g] = "cleanup"
  /\ KilledOrExited(g)
  /\ Clear(g)
  /\ UNCHANGED <<stopped, client, gen, sub, closing, failures, halted, stopping, toldVars>>

-----------------------------------------------------------------------------
(* The loss of a process *)

\* The process exits by itself, or because its stdin was closed.
Exit(g) ==
  /\ ~Settling
  /\ proc[g] = "running"
  /\ proc' = [proc EXCEPT ![g] = "exited"]
  /\ UNCHANGED <<stopped, client, spawn, refVars, closeVars, halted, stopping, fatal, toldVars>>

\* #onTransportClose
OnTransportClose(g) ==
  IF sub # g \/ halted \/ closing
  THEN UNCHANGED <<closeVars, halted, fatal, toldVars>>
  ELSE /\ closing' = TRUE
       /\ lost' = lost \cup {gen}
       /\ ended' = ended \cup ({runtime} \ {None})
       /\ failures' = failures + 1
       /\ IF failures + 1 >= MaxConsecutiveFailures
          THEN halted' = TRUE /\ fatal' = TRUE /\ UNCHANGED timer
          ELSE timer' = TRUE /\ UNCHANGED <<halted, fatal>>

\* The close event: the supervisor subscribed first, then the client, whose
\* handleClose rejects what is pending.
CloseDelivered(g) ==
  /\ ~Settling
  /\ proc[g] = "exited"
  /\ proc' = [proc EXCEPT ![g] = "gone"]
  /\ client' = [client EXCEPT ![g] = "closed"]
  /\ OnTransportClose(g)
  /\ UNCHANGED <<stopped, spawn, refVars, stopping>>

\* The back-off is over.
TimerFires ==
  /\ ~Settling
  /\ timer
  /\ timer' = FALSE
  /\ IF halted
     THEN UNCHANGED <<linkVars, refVars, closing, halted, fatal>>
     ELSE closing' = FALSE /\ (SpawnFresh \/ SpawnThrows(TRUE))
  /\ UNCHANGED <<failures, stopping, toldVars>>

-----------------------------------------------------------------------------
(* stop(), called once by the daemon and only after start() has resolved. *)

\* Daemon.stop fails what is pending and gives the event loop a turn before it
\* stops the supervisor, which goes on as before until then.
DaemonStops ==
  /\ ~Settling
  /\ stopping = "no"
  /\ spawn[1] = "up"
  /\ stopping' = "draining"
  /\ lost' = lost \cup {gen}
  /\ UNCHANGED <<linkVars, refVars, closeVars, halted, fatal, ended>>

\* stop() itself; a daemon whose own start fails calls it at once.
Stop ==
  /\ ~Settling
  /\ stopping \in {"no", "draining"}
  /\ spawn[1] = "up"
  /\ halted' = TRUE
  /\ timer' = FALSE
  /\ sub' = None
  /\ IF current # None /\ client[current] = "open"
     THEN StopClient(current) /\ stopping' = "waiting"
     ELSE stopping' = "done" /\ UNCHANGED <<client, stopped>>
  /\ UNCHANGED <<proc, spawn, gen, current, runtime, closing, failures, fatal, toldVars>>

\* The await of the client's stop() returns; the client is that of the latest
\* generation, since stop() lets no other be spawned.
StopEnds ==
  /\ ~Settling
  /\ stopping = "waiting"
  /\ stopping' = "done"
  /\ KilledOrExited(gen)
  /\ UNCHANGED <<stopped, client, spawn, refVars, closeVars, halted, fatal, toldVars>>

-----------------------------------------------------------------------------

GenNext(g) ==
  \/ HandshakeCompletes(g) \/ HandshakeFails(g) \/ HandshakeRejected(g)
  \/ CleanupEnds(g) \/ Exit(g) \/ CloseDelivered(g)

Next ==
  \/ Start \/ TimerFires \/ DaemonStops \/ Stop \/ StopEnds
  \/ \E g \in Generation : GenNext(g)

Spec == Init /\ [][Next]_vars

\* Timers and promise continuations run, the close of an exited process is
\* emitted, and a handshake ends one way or the other (it has a timeout).
\* Nothing is assumed of when codex exits or of whether stop() is called.
Fairness ==
  /\ WF_vars(TimerFires)
  /\ WF_vars(StopEnds)
  /\ WF_vars(stopping = "draining" /\ Stop)
  /\ \A g \in Generation :
       /\ WF_vars(HandshakeCompletes(g) \/ HandshakeFails(g))
       /\ WF_vars(HandshakeRejected(g))
       /\ WF_vars(CleanupEnds(g))
       /\ WF_vars(CloseDelivered(g))

FairSpec == Spec /\ Fairness

-----------------------------------------------------------------------------
(* Properties *)

\* At most the latest generation has a running process: codex is never run
\* twice at once, whatever exits, fails or is stopped (#spawnFresh and
\* #onTransportClose).
OneCodex == \A g \in Generation : proc[g] = "running" => g = gen

\* Once the supervisor has halted, a process that still runs was told to end:
\* halting leaves no codex behind (stop, #cleanupFailedGeneration).
NoOrphan == \A g \in Generation : halted /\ proc[g] = "running" => g \in stopped

\* The loss of a generation that was up reaches both the broker, for its
\* pending approvals, and the event stream, for its turns in flight; only a
\* stop of the whole supervisor is excused (#onTransportClose).
LossIsTold ==
  \A g \in Generation :
    spawn[g] = "up" /\ proc[g] = "gone" => g \in lost \cap ended \/ stopping # "no"

\* The daemon reads currentRuntime() for every prompt: the runtime is on a
\* connection that is open, unless its successor is on the way or the
\* supervisor has halted.
RuntimeServes ==
  runtime # None /\ client[runtime] = "closed" => timer \/ spawn[gen] = "handshake" \/ halted

\* A supervisor that gave up by itself has nothing left to run or to hand out,
\* and said so unless start() threw (#cleanupFailedGeneration, the catch arm
\* of the recovery).
GivingUpIsClean ==
  halted /\ stopping \in {"no", "draining"} /\ (\A g \in Generation : spawn[g] # "cleanup") =>
    /\ current = None /\ runtime = None /\ ~timer
    /\ \A g \in Generation : proc[g] # "running"
    /\ gen > 1 => fatal

\* A halt is final: no generation is spawned after it (the guards of start
\* and of the recovery timer).
HaltIsFinal == [][halted => halted' /\ gen' = gen]_vars

\* A generation that is up and exits is followed by another that comes up, or
\* the supervisor halts (#onTransportClose with its timer).
Recovers ==
  \A g \in Generation \ {MaxGen} :
    spawn[g] = "up" /\ proc[g] = "exited" ~> halted \/ \E h \in Generation : h > g /\ spawn[h] = "up"

\* A call of stop() ends codex, by force if need be (StdioTransport.stop).
StopEndsCodex == stopping # "no" ~> \A g \in Generation : proc[g] # "running"

\* What the shutdown sequence of the daemon counts on before it closes the
\* storage: when stop() resolves, codex has exited (stop).
StoppedMeansExited == stopping = "done" => \A g \in Generation : proc[g] # "running"

-----------------------------------------------------------------------------
(* The inductive invariant *)

\* Generations to come are untouched, and earlier ones are over.
OrderInv ==
  \A g \in Generation :
    /\ g > gen => proc[g] = "none" /\ client[g] = "none" /\ spawn[g] = "none"
    /\ g < gen => proc[g] = "gone" /\ client[g] = "closed" /\ spawn[g] = "up"

\* The fields that point to a generation.
RefInv ==
  /\ current \in {None, gen} /\ sub \in {None, gen} /\ runtime <= gen
  /\ gen = None => ~halted /\ ~closing /\ ~timer /\ failures = 0 /\ stopping = "no"

\* The latest generation, while the supervisor works.
WorkingInv ==
  gen # None /\ ~halted =>
    /\ current = gen /\ sub = gen
    /\ spawn[gen] \in {"handshake", "up"}
    /\ spawn[gen] = "up" => runtime = gen
    /\ client[gen] = IF proc[gen] = "gone" THEN "closed" ELSE "open"
    /\ closing = timer
    /\ timer = (proc[gen] = "gone")
    /\ proc[gen] # "none"

\* The latest generation, once the supervisor has halted.
HaltedInv ==
  gen # None /\ halted =>
    /\ ~timer /\ sub = None
    /\ proc[gen] = "running" => gen \in stopped
    /\ client[gen] = "closed" /\ spawn[gen] # "none"
    /\ spawn[gen] \in {"handshake", "up"} => stopping \in {"waiting", "done"}
    /\ spawn[gen] = "cleanup" => current = gen
    /\ spawn[gen] = "failed" =>
         /\ current = None /\ runtime = None
         /\ gen > 1 => fatal
         /\ proc[gen] = "running" => stopping \in {"waiting", "done"}

\* The counter never gets near its threshold: a generation that does not come
\* up halts the supervisor, one that does resets the counter.
CountInv ==
  /\ failures <= 2
  /\ gen # None /\ ~halted =>
       /\ spawn[gen] = "up" => failures = IF timer THEN 1 ELSE 0
       /\ spawn[gen] = "handshake" => failures <= IF timer THEN 2 ELSE 1

StopInv ==
  /\ stopping \in {"waiting", "done"} => halted
  /\ stopping = "waiting" => gen # None

IndInv ==
  /\ TypeOK /\ OrderInv /\ RefInv /\ WorkingInv /\ HaltedInv /\ CountInv /\ StopInv
  /\ LossIsTold
=============================================================================
