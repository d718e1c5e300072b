--------------------------- MODULE SupervisorProofs ---------------------------
(***************************************************************************)
(* The supervisor's safety properties, for any number of generations and   *)
(* any threshold above two.                                                *)
(***************************************************************************)
EXTENDS Supervisor, TLAPS

USE DEF Generation, None

\* The inductive invariant holds at first.
LEMMA InitInv == Init => IndInv
<1> SUFFICES ASSUME Init PROVE IndInv
  OBVIOUS
<1> USE BoundAssumption DEF Init
<1>1. TypeOK BY DEF TypeOK
<1>2. OrderInv BY DEF OrderInv
<1>3. RefInv /\ WorkingInv /\ HaltedInv BY DEF RefInv, WorkingInv, HaltedInv
<1>4. CountInv /\ StopInv BY DEF CountInv, StopInv
<1>5. LossIsTold BY DEF LossIsTold
<1> QED BY <1>1, <1>2, <1>3, <1>4, <1>5 DEF IndInv

\* The synchronous part of #spawnFresh, from a state without a live generation.
LEMMA SpawnInv ==
  ASSUME IndInv, ~Settling, ~halted, closing' = FALSE, timer' = FALSE,
         failures' = failures, stopping' = stopping, lost' = lost, ended' = ended,
         gen = None \/ timer,
         NEW report \in BOOLEAN, gen # None => report,
         SpawnFresh \/ SpawnThrows(report)
  PROVE  IndInv'
<1> USE BoundAssumption
<1> SUFFICES ASSUME NEW g \in Generation, g = gen + 1, gen' = g,
                    SpawnFresh \/ SpawnThrows(report)
             PROVE  IndInv'
  BY DEF SpawnFresh, SpawnThrows
<1>0. /\ gen # None => proc[gen] = "gone" /\ client[gen] = "closed" /\ spawn[gen] = "up" /\ failures = 1
      /\ gen = None => failures = 0
  <2>1. CASE gen = None
    BY <2>1 DEF IndInv, RefInv
  <2>2. CASE gen # None
    <3>1. gen \in Generation /\ timer
      BY <2>2 DEF IndInv, TypeOK
    <3>2. proc[gen] = "gone" /\ spawn[gen] \in {"handshake", "up"} /\ client[gen] # "open"
      BY <2>2, <3>1 DEF IndInv, WorkingInv
    <3>3. client[gen] = "closed"
      BY <2>2, <3>2 DEF IndInv, WorkingInv
    <3>4. spawn[gen] = "up"
      BY <3>1, <3>2, <3>3 DEF Settling
    <3>5. QED
      <4>1. failures = IF timer THEN 1 ELSE 0
        BY <2>2, <3>4 DEF IndInv, CountInv
      <4>2. QED
        BY <2>2, <3>1, <3>2, <3>3, <3>4, <4>1
  <2>3. QED
    BY <2>1, <2>2
<1>1. CASE SpawnFresh
  <2> USE <1>1 DEF SpawnFresh, Subscribe
  <2>1. TypeOK' BY DEF IndInv, TypeOK
  <2>2. OrderInv' BY <1>0 DEF IndInv, TypeOK, OrderInv
  <2>3. RefInv' BY DEF IndInv, TypeOK, RefInv
  <2>4. WorkingInv' BY DEF IndInv, TypeOK, WorkingInv
  <2>5. HaltedInv' BY DEF IndInv, TypeOK, HaltedInv
  <2>6. CountInv'
    BY <1>0 DEF IndInv, TypeOK, CountInv
  <2>7. StopInv' BY DEF IndInv, TypeOK, StopInv
  <2>8. LossIsTold' BY DEF IndInv, TypeOK, LossIsTold
  <2> QED BY <2>1, <2>2, <2>3, <2>4, <2>5, <2>6, <2>7, <2>8 DEF IndInv
<1>2. CASE SpawnThrows(report)
  <2> USE <1>2 DEF SpawnThrows
  <2>1. TypeOK' BY DEF IndInv, TypeOK
  <2>2. OrderInv' BY <1>0 DEF IndInv, TypeOK, OrderInv
  <2>3. RefInv' BY DEF IndInv, TypeOK, RefInv
  <2>4. WorkingInv' BY DEF IndInv, TypeOK, WorkingInv
  <2>5. HaltedInv' BY DEF IndInv, TypeOK, HaltedInv, OrderInv, RefInv
  <2>6. CountInv' BY <1>0 DEF IndInv, TypeOK, CountInv
  <2>7. StopInv' BY DEF IndInv, TypeOK, StopInv
  <2>8. LossIsTold' BY DEF IndInv, TypeOK, LossIsTold
  <2> QED BY <2>1, <2>2, <2>3, <2>4, <2>5, <2>6, <2>7, <2>8 DEF IndInv
<1> QED BY <1>1, <1>2

\* The handshake ends well: the counter is back at zero.
LEMMA CompletesInv ==
  ASSUME IndInv, NEW g \in Generation, HandshakeCompletes(g)
  PROVE  IndInv'
<1> USE BoundAssumption DEF HandshakeCompletes, UseRuntime, ResetClose, toldVars
<1>0. g = gen /\ ~halted /\ ~timer
  <2>1. g = gen
    BY DEF IndInv, TypeOK, OrderInv
  <2>2. ~halted
    BY <2>1 DEF IndInv, HaltedInv
  <2>3. proc[gen] # "gone" /\ timer = (proc[gen] = "gone")
    BY <2>1, <2>2 DEF IndInv, WorkingInv
  <2>4. QED
    BY <2>1, <2>2, <2>3
<1>1. TypeOK' BY DEF IndInv, TypeOK
<1>2. OrderInv' BY DEF IndInv, TypeOK, OrderInv, RefInv, HaltedInv, WorkingInv
<1>3. RefInv' BY DEF IndInv, TypeOK, RefInv, OrderInv
<1>4. WorkingInv' BY <1>0 DEF IndInv, TypeOK, WorkingInv, OrderInv, RefInv
<1>5. HaltedInv' BY <1>0 DEF IndInv, TypeOK, HaltedInv, OrderInv, RefInv, WorkingInv, StopInv
<1>6. CountInv' BY <1>0 DEF IndInv, TypeOK, CountInv, WorkingInv, OrderInv, RefInv
<1>7. StopInv' BY DEF IndInv, TypeOK, StopInv, OrderInv, RefInv, HaltedInv, WorkingInv
<1>8. LossIsTold' BY DEF IndInv, TypeOK, LossIsTold, OrderInv, WorkingInv, HaltedInv, StopInv, CountInv
<1> QED BY <1>1, <1>2, <1>3, <1>4, <1>5, <1>6, <1>7, <1>8 DEF IndInv

\* The handshake fails: the supervisor halts and the process is told to end.
LEMMA FailsInv ==
  ASSUME IndInv, NEW g \in Generation, HandshakeFails(g)
  PROVE  IndInv'
<1> USE BoundAssumption DEF HandshakeFails, GiveUp, StopClient, toldVars, closeVars
<1>1. TypeOK' BY DEF IndInv, TypeOK
<1>2. OrderInv' BY DEF IndInv, TypeOK, OrderInv, RefInv, HaltedInv, WorkingInv
<1>3. RefInv' BY DEF IndInv, TypeOK, RefInv, OrderInv
<1>4. WorkingInv' BY DEF IndInv, TypeOK, WorkingInv, OrderInv, RefInv
<1>5. HaltedInv' BY DEF IndInv, TypeOK, HaltedInv, OrderInv, RefInv, WorkingInv, StopInv
<1>6. CountInv' BY DEF IndInv, TypeOK, CountInv, WorkingInv, OrderInv, RefInv
<1>7. StopInv' BY DEF IndInv, TypeOK, StopInv, OrderInv, RefInv, HaltedInv, WorkingInv
<1>8. LossIsTold' BY DEF IndInv, TypeOK, LossIsTold, OrderInv, WorkingInv, HaltedInv, StopInv, CountInv
<1> QED BY <1>1, <1>2, <1>3, <1>4, <1>5, <1>6, <1>7, <1>8 DEF IndInv

\* The handshake is rejected by the close of its client.
LEMMA RejectedInv ==
  ASSUME IndInv, NEW g \in Generation, HandshakeRejected(g)
  PROVE  IndInv'
<1> USE BoundAssumption DEF HandshakeRejected, GiveUp, Clear, toldVars
<1>1. TypeOK' BY DEF IndInv, TypeOK
<1>2. OrderInv' BY DEF IndInv, TypeOK, OrderInv, RefInv, HaltedInv, WorkingInv
<1>3. RefInv' BY DEF IndInv, TypeOK, RefInv, OrderInv
<1>4. WorkingInv' BY DEF IndInv, TypeOK, WorkingInv, OrderInv, RefInv
<1>5. HaltedInv' BY DEF IndInv, TypeOK, HaltedInv, OrderInv, RefInv, WorkingInv, StopInv
<1>6. CountInv' BY DEF IndInv, TypeOK, CountInv, WorkingInv, OrderInv, RefInv
<1>7. StopInv' BY DEF IndInv, TypeOK, StopInv, OrderInv, RefInv, HaltedInv, WorkingInv
<1>8. LossIsTold' BY DEF IndInv, TypeOK, LossIsTold, OrderInv, WorkingInv, HaltedInv, StopInv, CountInv
<1> QED BY <1>1, <1>2, <1>3, <1>4, <1>5, <1>6, <1>7, <1>8 DEF IndInv

\* The cleanup of a failed generation ends.
LEMMA CleanupInv ==
  ASSUME IndInv, NEW g \in Generation, CleanupEnds(g)
  PROVE  IndInv'
<1> USE BoundAssumption DEF CleanupEnds, KilledOrExited, Clear, toldVars
<1>0. g = gen /\ halted
  <2>1. g = gen
    BY DEF IndInv, TypeOK, OrderInv
  <2>2. QED
    BY <2>1 DEF IndInv, WorkingInv
<1>1. TypeOK' BY DEF IndInv, TypeOK
<1>2. OrderInv' BY DEF IndInv, TypeOK, OrderInv, RefInv, HaltedInv, WorkingInv
<1>3. RefInv' BY DEF IndInv, TypeOK, RefInv, OrderInv
<1>4. WorkingInv' BY <1>0 DEF IndInv, TypeOK, WorkingInv, OrderInv, RefInv
<1>5. HaltedInv' BY <1>0 DEF IndInv, TypeOK, HaltedInv, OrderInv, RefInv, WorkingInv, StopInv
<1>6. CountInv' BY DEF IndInv, TypeOK, CountInv, WorkingInv, OrderInv, RefInv
<1>7. StopInv' BY DEF IndInv, TypeOK, StopInv, OrderInv, RefInv, HaltedInv, WorkingInv
<1>8. LossIsTold' BY DEF IndInv, TypeOK, LossIsTold, OrderInv, WorkingInv, HaltedInv, StopInv, CountInv
<1> QED BY <1>1, <1>2, <1>3, <1>4, <1>5, <1>6, <1>7, <1>8 DEF IndInv

\* A process exits.
LEMMA ExitInv ==
  ASSUME IndInv, NEW g \in Generation, Exit(g)
  PROVE  IndInv'
<1> USE BoundAssumption DEF Exit, refVars, closeVars, toldVars
<1>1. TypeOK' BY DEF IndInv, TypeOK
<1>2. OrderInv' BY DEF IndInv, TypeOK, OrderInv, RefInv, HaltedInv, WorkingInv
<1>3. RefInv' BY DEF IndInv, TypeOK, RefInv, OrderInv
<1>4. WorkingInv' BY DEF IndInv, TypeOK, WorkingInv, OrderInv, RefInv
<1>5. HaltedInv' BY DEF IndInv, TypeOK, HaltedInv, OrderInv, RefInv, WorkingInv, StopInv
<1>6. CountInv' BY DEF IndInv, TypeOK, CountInv, WorkingInv, OrderInv, RefInv
<1>7. StopInv' BY DEF IndInv, TypeOK, StopInv, OrderInv, RefInv, HaltedInv, WorkingInv
<1>8. LossIsTold' BY DEF IndInv, TypeOK, LossIsTold, OrderInv, WorkingInv, HaltedInv, StopInv, CountInv
<1> QED BY <1>1, <1>2, <1>3, <1>4, <1>5, <1>6, <1>7, <1>8 DEF IndInv

\* The close event: the counter stays below the threshold.
LEMMA CloseInv ==
  ASSUME IndInv, NEW g \in Generation, CloseDelivered(g)
  PROVE  IndInv'
<1> USE BoundAssumption DEF CloseDelivered, OnTransportClose, refVars, closeVars, toldVars
<1>0. /\ g = gen
      /\ \/ UNCHANGED <<closeVars, halted, fatal, toldVars>> /\ halted
         \/ /\ ~halted /\ timer' = TRUE /\ closing' = TRUE /\ UNCHANGED <<halted, fatal>>
            /\ failures <= 1 /\ failures' = failures + 1
            /\ spawn[gen] = "up" => failures = 0 /\ runtime = gen
            /\ lost' = lost \cup {gen} /\ ended' = ended \cup ({runtime} \ {None})
  <2>1. g = gen
    BY DEF IndInv, TypeOK, OrderInv
  <2>2. CASE sub # g \/ halted \/ closing
    <3>1. ASSUME ~halted PROVE FALSE
      <4>1. gen # None /\ proc[gen] = "exited"
        BY <2>1
      <4>2. sub = gen /\ closing = timer /\ (timer = (proc[gen] = "gone"))
        BY <3>1, <4>1 DEF IndInv, WorkingInv
      <4>3. QED
        BY <2>1, <2>2, <3>1, <4>1, <4>2
    <3>2. QED
      BY <2>1, <2>2, <3>1
  <2>3. CASE ~(sub # g \/ halted \/ closing)
    <3>1. failures <= 1 /\ (spawn[gen] = "up" => failures = 0 /\ runtime = gen)
      BY <2>1, <2>3 DEF IndInv, WorkingInv, CountInv
    <3>2. failures \in Nat /\ ~(failures + 1 >= MaxConsecutiveFailures)
      BY <3>1, ThresholdAssumption DEF IndInv, TypeOK
    <3>3. QED
      BY <2>1, <2>3, <3>1, <3>2 DEF IndInv, TypeOK
  <2>4. QED
    BY <2>2, <2>3
<1> HIDE DEF OnTransportClose
<1>1. CASE UNCHANGED <<closeVars, halted, fatal, toldVars>> /\ halted
  <2>1. TypeOK' BY <1>0, <1>1 DEF IndInv, TypeOK
  <2>2. OrderInv' BY <1>0, <1>1 DEF IndInv, TypeOK, OrderInv, RefInv, HaltedInv, WorkingInv
  <2>3. RefInv' BY <1>0, <1>1 DEF IndInv, TypeOK, RefInv, OrderInv
  <2>4. WorkingInv' BY <1>0, <1>1 DEF IndInv, TypeOK, WorkingInv, OrderInv, RefInv
  <2>5. HaltedInv' BY <1>0, <1>1 DEF IndInv, TypeOK, HaltedInv, OrderInv, RefInv, WorkingInv, StopInv
  <2>6. CountInv' BY <1>0, <1>1 DEF IndInv, TypeOK, CountInv, WorkingInv, OrderInv, RefInv
  <2>7. StopInv' BY <1>0, <1>1 DEF IndInv, TypeOK, StopInv, OrderInv, RefInv, HaltedInv, WorkingInv
  <2>8. LossIsTold' BY <1>0, <1>1 DEF IndInv, TypeOK, LossIsTold, OrderInv, WorkingInv, HaltedInv, StopInv, CountInv
  <2> QED BY <2>1, <2>2, <2>3, <2>4, <2>5, <2>6, <2>7, <2>8 DEF IndInv
<1>2. CASE /\ ~halted /\ timer' = TRUE /\ closing' = TRUE /\ UNCHANGED <<halted, fatal>>
           /\ failures <= 1 /\ failures' = failures + 1
           /\ spawn[gen] = "up" => failures = 0 /\ runtime = gen
           /\ lost' = lost \cup {gen} /\ ended' = ended \cup ({runtime} \ {None})
  <2>1. TypeOK' BY <1>0, <1>2 DEF IndInv, TypeOK
  <2>2. OrderInv' BY <1>0, <1>2 DEF IndInv, TypeOK, OrderInv, RefInv, HaltedInv, WorkingInv
  <2>3. RefInv' BY <1>0, <1>2 DEF IndInv, TypeOK, RefInv, OrderInv
  <2>4. WorkingInv' BY <1>0, <1>2 DEF IndInv, TypeOK, WorkingInv, OrderInv, RefInv
  <2>5. HaltedInv' BY <1>0, <1>2 DEF IndInv, TypeOK, HaltedInv, OrderInv, RefInv, WorkingInv, StopInv
  <2>6. CountInv' BY <1>0, <1>2 DEF IndInv, TypeOK, CountInv, WorkingInv, OrderInv, RefInv
  <2>7. StopInv' BY <1>0, <1>2 DEF IndInv, TypeOK, StopInv, OrderInv, RefInv, HaltedInv, WorkingInv
  <2>8. LossIsTold' BY <1>0, <1>2 DEF IndInv, TypeOK, LossIsTold, OrderInv, WorkingInv, HaltedInv, StopInv, CountInv
  <2> QED BY <2>1, <2>2, <2>3, <2>4, <2>5, <2>6, <2>7, <2>8 DEF IndInv
<1> QED BY <1>0, <1>1, <1>2

\* The daemon begins to stop.
LEMMA DaemonStopsInv ==
  ASSUME IndInv, DaemonStops
  PROVE  IndInv'
<1> USE BoundAssumption DEF DaemonStops, linkVars, refVars, closeVars
<1>0. gen \in Generation
  BY DEF IndInv, TypeOK, OrderInv
<1>1. TypeOK' BY <1>0 DEF IndInv, TypeOK
<1>2. OrderInv' BY DEF IndInv, TypeOK, OrderInv, RefInv, HaltedInv, WorkingInv
<1>3. RefInv' BY DEF IndInv, TypeOK, RefInv, OrderInv
<1>4. WorkingInv' BY DEF IndInv, TypeOK, WorkingInv, OrderInv, RefInv
<1>5. HaltedInv' BY DEF IndInv, TypeOK, HaltedInv, OrderInv, RefInv, WorkingInv, StopInv
<1>6. CountInv' BY DEF IndInv, TypeOK, CountInv, WorkingInv, OrderInv, RefInv
<1>7. StopInv' BY DEF IndInv, TypeOK, StopInv, OrderInv, RefInv, HaltedInv, WorkingInv
<1>8. LossIsTold' BY <1>0 DEF IndInv, TypeOK, LossIsTold, OrderInv, WorkingInv, HaltedInv, StopInv, CountInv
<1> QED BY <1>1, <1>2, <1>3, <1>4, <1>5, <1>6, <1>7, <1>8 DEF IndInv

\* stop() is called.
LEMMA StopLemma ==
  ASSUME IndInv, Stop
  PROVE  IndInv'
<1> USE BoundAssumption DEF Stop, StopClient, toldVars
<1>0. gen \in Generation
  BY DEF IndInv, TypeOK, OrderInv
<1>1. TypeOK'
  <2>1. CASE current # None /\ client[current] = "open"
    <3>1. current \in Generation
      BY <2>1 DEF IndInv, TypeOK
    <3>2. client' = [client EXCEPT ![current] = "closed"] /\ stopped' = stopped \cup {current}
      BY <2>1
    <3>3. client' \in [Generation -> {"none", "open", "closed"}] /\ stopped' \in SUBSET Generation
      BY <3>1, <3>2 DEF IndInv, TypeOK
    <3>4. QED
      BY <2>1, <3>3 DEF IndInv, TypeOK
  <2>2. CASE ~(current # None /\ client[current] = "open")
    BY <2>2 DEF IndInv, TypeOK
  <2>3. QED
    BY <2>1, <2>2
<1>2. OrderInv' BY DEF IndInv, TypeOK, OrderInv, RefInv, HaltedInv, WorkingInv
<1>3. RefInv' BY DEF IndInv, TypeOK, RefInv, OrderInv
<1>4. WorkingInv' BY DEF IndInv, TypeOK, WorkingInv, OrderInv, RefInv
<1>5. HaltedInv' BY DEF IndInv, TypeOK, HaltedInv, OrderInv, RefInv, WorkingInv, StopInv
<1>6. CountInv' BY DEF IndInv, TypeOK, CountInv, WorkingInv, OrderInv, RefInv
<1>7. StopInv' BY DEF IndInv, TypeOK, StopInv, OrderInv, RefInv, HaltedInv, WorkingInv
<1>8. LossIsTold' BY DEF IndInv, TypeOK, LossIsTold, OrderInv, WorkingInv, HaltedInv, StopInv, CountInv
<1> QED BY <1>1, <1>2, <1>3, <1>4, <1>5, <1>6, <1>7, <1>8 DEF IndInv

\* The await of stop() returns.
LEMMA StopEndsInv ==
  ASSUME IndInv, StopEnds
  PROVE  IndInv'
<1> USE BoundAssumption DEF StopEnds, KilledOrExited, refVars, closeVars, toldVars
<1>1. TypeOK' BY DEF IndInv, TypeOK
<1>2. OrderInv' BY DEF IndInv, TypeOK, OrderInv, RefInv, HaltedInv, WorkingInv
<1>3. RefInv' BY DEF IndInv, TypeOK, RefInv, OrderInv
<1>4. WorkingInv' BY DEF IndInv, TypeOK, WorkingInv, OrderInv, RefInv
<1>5. HaltedInv' BY DEF IndInv, TypeOK, HaltedInv, OrderInv, RefInv, WorkingInv, StopInv
<1>6. CountInv' BY DEF IndInv, TypeOK, CountInv, WorkingInv, OrderInv, RefInv
<1>7. StopInv' BY DEF IndInv, TypeOK, StopInv, OrderInv, RefInv, HaltedInv, WorkingInv
<1>8. LossIsTold' BY DEF IndInv, TypeOK, LossIsTold, OrderInv, WorkingInv, HaltedInv, StopInv, CountInv
<1> QED BY <1>1, <1>2, <1>3, <1>4, <1>5, <1>6, <1>7, <1>8 DEF IndInv

\* Every step preserves the inductive invariant.
LEMMA NextInv == IndInv /\ [Next]_vars => IndInv'
<1> SUFFICES ASSUME IndInv, [Next]_vars PROVE IndInv'
  OBVIOUS
<1>1. CASE Start
  <2>1. gen = None
    BY <1>1 DEF Start, IndInv, WorkingInv
  <2>2. \E report \in BOOLEAN : SpawnFresh \/ SpawnThrows(report)
    BY <1>1 DEF Start
  <2>3. ~timer /\ ~closing
    BY <2>1 DEF IndInv, RefInv
  <2>4. timer' = FALSE /\ closing' = FALSE
    BY <1>1, <2>3 DEF Start, closeVars, IndInv, TypeOK
  <2>5. QED
    BY <1>1, <2>1, <2>2, <2>4, SpawnInv DEF Start, closeVars, toldVars
<1>2. CASE TimerFires
  <2>1. ~halted
    BY <1>2 DEF TimerFires, IndInv, HaltedInv, RefInv
  <2>2. QED
    BY <1>2, <2>1, SpawnInv DEF TimerFires, toldVars
<1>3. CASE DaemonStops \/ Stop \/ StopEnds
  BY <1>3, DaemonStopsInv, StopLemma, StopEndsInv
<1>4. ASSUME NEW g \in Generation, GenNext(g) PROVE IndInv'
  BY <1>4, CompletesInv, FailsInv, RejectedInv, CleanupInv, ExitInv, CloseInv DEF GenNext
<1>5. CASE UNCHANGED vars
  BY <1>5 DEF vars, IndInv, TypeOK, OrderInv, RefInv, WorkingInv, HaltedInv, CountInv, StopInv, LossIsTold
<1>6. QED
  BY <1>1, <1>2, <1>3, <1>4, <1>5 DEF Next

\* The inductive invariant, for any number of generations and any threshold.
THEOREM SupervisorInvariance == Spec => []IndInv
  BY InitInv, NextInv, PTL DEF Spec

\* codex is never run twice at once.
THEOREM OneAtATime == Spec => []OneCodex
<1>1. IndInv => OneCodex
  BY DEF IndInv, TypeOK, OrderInv, OneCodex
<1>2. QED
  BY <1>1, SupervisorInvariance, PTL

\* A halted supervisor has told every process that runs to end.
THEOREM NothingOrphaned == Spec => []NoOrphan
<1>1. IndInv => NoOrphan
  BY DEF IndInv, TypeOK, OrderInv, HaltedInv, NoOrphan
<1>2. QED
  BY <1>1, SupervisorInvariance, PTL

\* A lost generation is told to the broker and to the event stream.
THEOREM LossesAreTold == Spec => []LossIsTold
<1>1. IndInv => LossIsTold
  BY DEF IndInv
<1>2. QED
  BY <1>1, SupervisorInvariance, PTL

\* The runtime handed out is on an open connection, or about to be replaced.
THEOREM RuntimeIsServing == Spec => []RuntimeServes
<1>1. IndInv => RuntimeServes
  <2>1. ASSUME IndInv, runtime # None, client[runtime] = "closed", ~halted, ~timer
        PROVE  spawn[gen] = "handshake"
    <3>1. gen # None
      BY <2>1 DEF IndInv, TypeOK, RefInv
    <3>2. CASE spawn[gen] = "up"
      BY <2>1, <3>1, <3>2 DEF IndInv, WorkingInv
    <3>3. QED
      BY <2>1, <3>1, <3>2 DEF IndInv, WorkingInv
  <2>2. QED
    BY <2>1 DEF RuntimeServes
<1>2. QED
  BY <1>1, SupervisorInvariance, PTL

\* Nothing is left of a supervisor that gave up by itself.
THEOREM GivesUpCleanly == Spec => []GivingUpIsClean
<1>1. IndInv => GivingUpIsClean
  <2> SUFFICES ASSUME IndInv, halted, stopping \in {"no", "draining"},
                      \A g \in Generation : spawn[g] # "cleanup"
               PROVE  /\ current = None /\ runtime = None /\ ~timer
                      /\ \A g \in Generation : proc[g] # "running"
                      /\ gen > 1 => fatal
    BY DEF GivingUpIsClean
  <2>1. gen \in Generation
    BY DEF IndInv, TypeOK, RefInv
  <2>2. spawn[gen] = "failed"
    BY <2>1 DEF IndInv, TypeOK, OrderInv, HaltedInv
  <2>3. /\ current = None /\ runtime = None /\ ~timer
        /\ proc[gen] # "running"
        /\ gen > 1 => fatal
    BY <2>1, <2>2 DEF IndInv, HaltedInv
  <2>4. \A g \in Generation : proc[g] # "running"
    BY <2>1, <2>3 DEF IndInv, TypeOK, OrderInv
  <2>5. QED
    BY <2>3, <2>4
<1>2. QED
  BY <1>1, SupervisorInvariance, PTL

\* The counter never reaches the threshold: the cascade halt and the longer
\* back-offs of #onTransportClose cannot happen.
THEOREM NoCascade == Spec => [](failures < MaxConsecutiveFailures)
<1>1. IndInv => failures < MaxConsecutiveFailures
  BY ThresholdAssumption DEF IndInv, TypeOK, CountInv
<1>2. QED
  BY <1>1, SupervisorInvariance, PTL

\* No generation is spawned after a halt.
THEOREM HaltsForGood == Spec => HaltIsFinal
<1>1. IndInv /\ [Next]_vars => [halted => halted' /\ gen' = gen]_vars
  <2> SUFFICES ASSUME IndInv, Next, halted PROVE halted' /\ gen' = gen
    OBVIOUS
  <2>1. CASE Start \/ TimerFires \/ DaemonStops \/ Stop \/ StopEnds
    BY <2>1 DEF Start, TimerFires, DaemonStops, Stop, StopEnds, refVars
  <2>2. ASSUME NEW g \in Generation, GenNext(g) PROVE halted' /\ gen' = gen
    BY <2>2 DEF GenNext, HandshakeCompletes, HandshakeFails, HandshakeRejected, GiveUp,
                CleanupEnds, Exit, CloseDelivered, OnTransportClose, refVars
  <2>3. QED
    BY <2>1, <2>2 DEF Next
<1>2. QED
  BY <1>1, SupervisorInvariance, PTL DEF Spec, HaltIsFinal
=============================================================================
