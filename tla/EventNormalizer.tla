--------------------------- MODULE EventNormalizer ---------------------------
(***************************************************************************)
(* The event stream of one codex connection: notifications become events   *)
(* in one FIFO queue with two limits, which a consumer reads through a      *)
(* shared iterator.  At the soft limit the oldest delta gives way to an     *)
(* overflow marker in its place; at the hard limit the oldest events of any *)
(* class give way to one marker at the head.  When the connection is lost,  *)
(* every turn in flight is ended by a synthetic failure.                    *)
(*                                                                         *)
(* All methods are synchronous: a call is one action.  An event carries its *)
(* number in the order of arrival, a marker the count it reports.           *)
(***************************************************************************)
EXTENDS Naturals, FiniteSets, Sequences, SequencesExt

CONSTANTS
  Turn,          \* turns, that is pairs of threadId and turnId
  NoTurn,        \* no turn concerned
  DeltaSoftCap,  \* deltaSoftCap
  TotalHardCap,  \* totalHardCap
  MaxEvents,     \* bound: notifications received
  MaxWaiters     \* bound: calls of next() parked at once

ASSUME TurnAssumption == NoTurn \notin Turn
ASSUME CapAssumption == DeltaSoftCap \in Nat \ {0} /\ TotalHardCap \in Nat \ {0}
ASSUME NormBoundAssumption == MaxEvents \in Nat /\ MaxWaiters \in Nat \ {0}

\* What the normalizer tells apart of the notifications: the delta methods,
\* the two turn methods, and all others.  "turn_lost" is the synthetic
\* turn_failed with cause transport_lost.
EventType == {"delta", "note", "turn_started", "turn_terminal", "turn_lost",
              "overflow_delta", "overflow_lifecycle"}
Marker == {"overflow_delta", "overflow_lifecycle"}

Event(type, turn, n) == [type |-> type, turn |-> turn, n |-> n]

VARIABLES
  buf,        \* the queue and its counters
  waiting,    \* #waiters: parked calls of next()
  cancelled,  \* #cancelled
  endOfStream,  \* #endOfStream
  accepted,   \* every event that was enqueued, oldest first
  delivered   \* every event handed to a consumer, oldest first

normVars == <<buf, waiting, cancelled, endOfStream, accepted, delivered>>

\* queue; deltas: #deltaCount; lostDeltas, lostAny: the two dropped counts;
\* pending: #pendingTurns, in the order of insertion.
Buffer ==
  [queue : Seq([type : EventType, turn : Turn \cup {NoTurn}, n : Nat]),
   deltas : Nat, lostDeltas : Nat, lostAny : Nat, pending : Seq(Turn)]

NormTypeOK ==
  /\ DOMAIN buf = {"queue", "deltas", "lostDeltas", "lostAny", "pending"}
  /\ \A i \in DOMAIN buf.queue : buf.queue[i].type \in EventType
  /\ buf.deltas \in Nat /\ buf.lostDeltas \in Nat /\ buf.lostAny \in Nat
  /\ ToSet(buf.pending) \subseteq Turn
  /\ waiting \in 0..MaxWaiters
  /\ cancelled \in BOOLEAN /\ endOfStream \in BOOLEAN

NormInit ==
  /\ buf = [queue |-> << >>, deltas |-> 0, lostDeltas |-> 0, lostAny |-> 0, pending |-> << >>]
  /\ waiting = 0
  /\ cancelled = FALSE /\ endOfStream = FALSE
  /\ accepted = << >> /\ delivered = << >>

-----------------------------------------------------------------------------
(* #enqueue, in its order: track, drop a delta, push, enforce the hard limit *)

IsDelta(e) == e.type = "delta"
IsReal(e) == e.type \notin Marker
DeltasIn(q) == Cardinality({i \in DOMAIN q : IsDelta(q[i])})

\* (mutant) A terminal event does not take its turn off the list.
TrackTurnState_StartOnly(b, e) ==
  [b EXCEPT !.pending =
     IF e.type = "turn_started" /\ e.turn \notin ToSet(@) THEN Append(@, e.turn) ELSE @]

TrackTurnState(b, e) ==
  [b EXCEPT !.pending =
     CASE e.type = "turn_started" /\ e.turn \notin ToSet(@) -> Append(@, e.turn)
       [] e.type \in {"turn_terminal", "turn_lost"} -> RemoveFirst(@, e.turn)
       [] OTHER -> @]

\* (mutant) The marker goes to the tail.
WalkAndDrop_Tail(b, e) ==
  IF ~(IsDelta(e) /\ b.deltas >= DeltaSoftCap) THEN b
  ELSE LET i == SelectInSeq(b.queue, IsDelta) IN
       IF i = 0 THEN b
       ELSE [b EXCEPT !.queue = Append(RemoveAt(@, i), Event("overflow_delta", NoTurn, b.lostDeltas + 1)),
                      !.lostDeltas = @ + 1, !.deltas = @ - 1]

\* At the soft limit the oldest delta is replaced by a marker.
WalkAndDrop(b, e) ==
  IF ~(IsDelta(e) /\ b.deltas >= DeltaSoftCap) THEN b
  ELSE LET i == SelectInSeq(b.queue, IsDelta) IN
       IF i = 0 THEN b
       ELSE [b EXCEPT !.queue = ReplaceAt(@, i, Event("overflow_delta", NoTurn, b.lostDeltas + 1)),
                      !.lostDeltas = @ + 1, !.deltas = @ - 1]

\* (mutant) The pushed delta is not counted.
Push_Uncounted(b, e) == [b EXCEPT !.queue = Append(@, e)]

Push(b, e) ==
  [b EXCEPT !.queue = Append(@, e), !.deltas = IF IsDelta(e) THEN @ + 1 ELSE @]

\* (mutant) Dropped markers are counted as lost events.
HardCap_MarkersCounted(b) ==
  LET excess == Len(b.queue) - TotalHardCap
      out == SubSeq(b.queue, 1, excess)
      rest == SubSeq(b.queue, excess + 1, Len(b.queue))
      marker == Event("overflow_lifecycle", NoTurn, b.lostAny + excess)
  IN IF excess <= 0 THEN b
     ELSE [b EXCEPT !.queue = <<marker>> \o rest,
                    !.deltas = @ - DeltasIn(out),
                    !.lostAny = @ + excess]

\* (mutant) A delta dropped at the hard limit stays in the count.
HardCap_DeltasKept(b) ==
  LET excess == Len(b.queue) - TotalHardCap
      rest == SubSeq(b.queue, excess + 1, Len(b.queue))
  IN IF excess <= 0 THEN b
     ELSE [b EXCEPT !.queue = <<Event("overflow_lifecycle", NoTurn, b.lostAny + excess)>> \o rest,
                    !.lostAny = @ + excess]

\* At the hard limit the oldest entries go, and one marker reports those of
\* them that were not markers themselves.
HardCap(b) ==
  LET excess == Len(b.queue) - TotalHardCap
      out == SubSeq(b.queue, 1, excess)
      rest == SubSeq(b.queue, excess + 1, Len(b.queue))
      lost == Cardinality({i \in DOMAIN out : IsReal(out[i])})
      marker == Event("overflow_lifecycle", NoTurn, b.lostAny + lost)
  IN IF excess <= 0 THEN b
     ELSE [b EXCEPT !.queue = IF lost > 0 THEN <<marker>> \o rest ELSE rest,
                    !.deltas = @ - DeltasIn(out),
                    !.lostAny = @ + lost]

Enqueue(b, e) == HardCap(Push(WalkAndDrop(TrackTurnState(b, e), e), e))

EnqueueAll(b, events) ==
  LET after[k \in 0..Len(events)] == IF k = 0 THEN b ELSE Enqueue(after[k - 1], events[k])
  IN  after[Len(events)]

\* (mutant) endOfStream does not answer the parked calls.
AnsweredDone_None(b, left, last) == 0

\* endOfStream answers all parked calls if nothing is left to read.
AnsweredDone(b, left, last) == IF last /\ b.queue = << >> THEN left ELSE 0

\* #drain: parked calls are answered from the queue; "last" when the stream ends.
Drain(b, last) ==
  LET m == IF Len(b.queue) < waiting THEN Len(b.queue) ELSE waiting
      out == SubSeq(b.queue, 1, m)
      rest == [b EXCEPT !.queue = SubSeq(@, m + 1, Len(@)), !.deltas = @ - DeltasIn(out)]
  IN /\ delivered' = delivered \o out
     /\ buf' = rest
     /\ waiting' = waiting - m - AnsweredDone(rest, waiting - m, last)

-----------------------------------------------------------------------------
(* Calls *)

Ended == cancelled \/ endOfStream

Arrived(t, type) == \E i \in DOMAIN accepted : accepted[i].type = type /\ accepted[i].turn = t

\* What codex may send: a turn starts once and ends once.
Notification ==
  LET n == Len(accepted) + 1 IN
  {Event("delta", NoTurn, n), Event("note", NoTurn, n)}
  \cup {Event("turn_started", t, n) : t \in {u \in Turn : ~Arrived(u, "turn_started")}}
  \cup {Event("turn_terminal", t, n) :
          t \in {u \in Turn : Arrived(u, "turn_started") /\ ~Arrived(u, "turn_terminal")}}

\* #onNotification; once the stream has ended or is cancelled it is ignored.
OnNotification(e) ==
  /\ ~Ended /\ Len(accepted) < MaxEvents
  /\ accepted' = Append(accepted, e)
  /\ Drain(Enqueue(buf, e), FALSE)
  /\ UNCHANGED <<cancelled, endOfStream>>

\* The synthetic failure of every turn in flight.
LostTurns ==
  [i \in DOMAIN buf.pending |-> Event("turn_lost", buf.pending[i], Len(accepted) + i)]

\* endWithTransportLostSynthetic, with endWithSynthetic and endOfStream.
EndWithTransportLostSynthetic ==
  /\ ~Ended
  /\ endOfStream' = TRUE
  /\ accepted' = accepted \o LostTurns
  /\ Drain(EnqueueAll(buf, LostTurns), TRUE)
  /\ UNCHANGED cancelled

\* next(): the head of the queue, done when the stream has ended, else parked.
TakeHead ==
  /\ buf.queue # << >>
  /\ delivered' = Append(delivered, Head(buf.queue))
  /\ buf' = [buf EXCEPT !.queue = Tail(@),
                        !.deltas = IF IsDelta(Head(buf.queue)) THEN @ - 1 ELSE @]
  /\ UNCHANGED waiting

Park ==
  /\ buf.queue = << >> /\ ~Ended /\ waiting < MaxWaiters
  /\ waiting' = waiting + 1
  /\ UNCHANGED <<buf, delivered>>

NextCall ==
  /\ TakeHead \/ Park
  /\ UNCHANGED <<cancelled, endOfStream, accepted>>

\* return(): #cancelConsumer drops the buffer and answers all parked calls.
Return ==
  /\ ~cancelled
  /\ cancelled' = TRUE
  /\ buf' = [buf EXCEPT !.queue = << >>, !.deltas = 0]
  /\ waiting' = 0
  /\ UNCHANGED <<endOfStream, accepted, delivered>>

NormNext ==
  \/ \E e \in Notification : OnNotification(e)
  \/ EndWithTransportLostSynthetic \/ NextCall \/ Return

NormSpec == NormInit /\ [][NormNext]_normVars

-----------------------------------------------------------------------------
(* Properties *)

\* What the consumer has seen and will see if nothing else arrives.
Stream == delivered \o buf.queue

\* No call of next() stays parked beside a buffered event or past the end of
\* the stream: #drain, endOfStream and #cancelConsumer wake every call that
\* can be answered.
NobodyWaitsInVain == waiting > 0 => buf.queue = << >> /\ ~Ended

\* #deltaCount is the number of deltas in the queue through every way in which
\* a delta leaves it (replaced, dropped at the hard limit, read, cancelled),
\* and both limits hold, the hard one up to the marker at the head.
LimitsHold ==
  /\ buf.deltas = DeltasIn(buf.queue)
  /\ buf.deltas <= DeltaSoftCap
  /\ Len(buf.queue) <= TotalHardCap + 1

\* The order of arrival survives any overflow, and as long as the hard limit
\* took nothing each entry stands where its event arrived, a marker with the
\* running count in the place of each dropped delta.
OrderIsKept ==
  /\ \A i, j \in DOMAIN Stream :
       i < j /\ IsReal(Stream[i]) /\ IsReal(Stream[j]) => Stream[i].n < Stream[j].n
  /\ (~cancelled /\ buf.lostAny = 0 /\ Len(Stream) = Len(accepted)) =>
       \A i \in DOMAIN accepted :
         \/ Stream[i] = accepted[i]
         \/ /\ Stream[i].type = "overflow_delta" /\ IsDelta(accepted[i])
            /\ Stream[i].n = Cardinality({j \in DOMAIN Stream : j <= i /\ Stream[j].type = "overflow_delta"})

\* The two counts together tell how many events the consumer did not get:
\* each lost event is counted once, and a dropped marker is not counted.
LossIsCountedOnce ==
  ~cancelled =>
    Cardinality({i \in DOMAIN Stream : IsReal(Stream[i])}) + buf.lostDeltas + buf.lostAny
      = Len(accepted)

\* When the stream has ended, every turn the consumer saw start has exactly one
\* end in the stream, from codex or synthetic, unless the hard limit struck.
TurnsAreClosed ==
  (endOfStream /\ ~cancelled /\ buf.lostAny = 0) =>
    \A t \in Turn :
      Cardinality({i \in DOMAIN Stream : Stream[i].turn = t
                                         /\ Stream[i].type \in {"turn_terminal", "turn_lost"}})
        = IF Arrived(t, "turn_started") THEN 1 ELSE 0

\* event-normalizer.ts:57-60 has the hard limit replace what it drops by a
\* synthetic event: a consumer is told of every loss at the hard limit.
HardCapLossIsReported ==
  (buf.lostAny > 0 /\ ~cancelled) =>
    \E i \in DOMAIN Stream : Stream[i].type = "overflow_lifecycle" /\ Stream[i].n = buf.lostAny
=============================================================================
