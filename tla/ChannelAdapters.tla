-------------------------- MODULE ChannelAdapters --------------------------
(***************************************************************************)
(* What comes in from the messengers while the daemon starts, runs and     *)
(* stops: the adapters of the configured platforms, their connections, and *)
(* the messages between the platform and the daemon's handler.             *)
(*                                                                         *)
(* An adapter looks whether it takes messages when one arrives; it then    *)
(* waits for the acknowledgement and for attachments to be fetched, and    *)
(* hands the message to whoever is subscribed by then.  Platforms deliver  *)
(* again what they think was not received, and Slack reports a mention in  *)
(* a channel under two events.                                             *)
(***************************************************************************)
EXTENDS Naturals, Sequences, FiniteSets

CONSTANTS
  Platform,                 \* of "telegram", "slack", "lark", "dingtalk"
  Key,                      \* messages, by what the platform identifies them with
  MaxSeen,                  \* MAX_SEEN_ROBOT_KEYS
  MaxConfigured,            \* bound on the platforms configured at once
  MaxDelivery               \* bound on deliveries by the platforms

Pausing == {"telegram"}     \* adapters with a pauseInbound method
Remembering == {"dingtalk"} \* adapters that drop what they have handled

ASSUME AdapterAssumption ==
  /\ Platform \subseteq {"telegram", "slack", "lark", "dingtalk"}
  /\ MaxSeen \in Nat \ {0} /\ MaxConfigured \in Nat /\ MaxDelivery \in Nat

VARIABLES
  configured,   \* the platforms of the configuration
  daemon,       \* Daemon.start and Daemon.stop
  subscribed,   \* the daemon's handlers are registered with the adapters
  starting,     \* adapters that wait for their connection
  started,      \* #started
  paused,       \* #inboundPaused
  deliveries,   \* messages the platforms have delivered so far
  transit,      \* messages an adapter has taken and not handed on
  seen,         \* #seenRobotKeyQueue, oldest first
  handled       \* history: per platform, the messages handed to the daemon

adapterVars == <<configured, daemon, subscribed, starting, started, paused, deliveries,
                 transit, seen, handled>>

Delivery == [from: Platform, key: Key, no: 1..MaxDelivery]

AdapterTypeOK ==
  /\ configured \subseteq Platform
  /\ daemon \in {"down", "starting", "up", "pausing", "draining", "stopping", "closed", "failed"}
  /\ subscribed \in BOOLEAN
  /\ starting \subseteq configured /\ started \subseteq configured /\ paused \subseteq Platform
  /\ deliveries \in 0..MaxDelivery
  /\ transit \subseteq Delivery
  /\ seen \in Seq(Key) /\ Len(seen) <= MaxSeen
  /\ handled \in [Platform -> Seq(Key)]

AdapterInit ==
  /\ configured \in {s \in SUBSET Platform : Cardinality(s) \in 1..MaxConfigured}
  /\ daemon = "down" /\ subscribed = FALSE
  /\ starting = {} /\ started = {} /\ paused = Platform
  /\ deliveries = 0 /\ transit = {} /\ seen = <<>>
  /\ handled = [p \in Platform |-> <<>>]

inboundVars == <<deliveries, transit, seen, handled>>
-----------------------------------------------------------------------------
(* Starting                                                                *)

\* Daemon.start subscribes and starts all adapters at once.  Telegram's is started as
\* soon as its polling is; the others wait for their connection.
DaemonStart ==
  /\ daemon = "down" /\ daemon' = "starting"
  /\ subscribed' = TRUE
  /\ starting' = configured \ {"telegram"}
  /\ started' = configured \cap {"telegram"} /\ paused' = paused \ started'
  /\ UNCHANGED <<configured, inboundVars>>

\* An adapter's start completes, also after the daemon has given up on it.
Connects(p) ==
  /\ p \in starting
  /\ starting' = starting \ {p}
  /\ started' = started \cup {p} /\ paused' = paused \ {p}
  /\ UNCHANGED <<configured, daemon, subscribed, inboundVars>>

\* Telegram's polling ends with an error, at once or later.
PollingFails ==
  /\ "telegram" \in started /\ daemon \in {"starting", "up"}
  /\ started' = started \ {"telegram"} /\ paused' = paused \cup {"telegram"}
  /\ IF daemon = "starting"
       THEN daemon' = "failed" /\ subscribed' = FALSE
       ELSE UNCHANGED <<daemon, subscribed>>
  /\ UNCHANGED <<configured, starting, inboundVars>>

DaemonStarted ==
  /\ daemon = "starting" /\ starting = {} /\ daemon' = "up"
  /\ UNCHANGED <<configured, subscribed, starting, started, paused, inboundVars>>

\* (mutant) The storage is closed with the handlers still subscribed.
Unsubscribed_Late == TRUE

\* #unsubscribeAll, before the storage is closed.
Unsubscribed == FALSE

\* One connection fails: #cleanupPartialStart unsubscribes, stops what has started by
\* now and closes the storage.
ConnectFails(p) ==
  /\ p \in starting
  /\ starting' = starting \ {p}
  /\ IF daemon = "starting"
       THEN /\ daemon' = "failed" /\ subscribed' = Unsubscribed
            /\ paused' = paused \cup started /\ started' = {}
       ELSE UNCHANGED <<daemon, subscribed, started, paused>>
  /\ UNCHANGED <<configured, inboundVars>>

-----------------------------------------------------------------------------
(* Stopping                                                                *)

\* MultiPlatformDaemonAdapter.pauseInbound: adapters without the method go on.
PauseInbound ==
  /\ daemon = "up" /\ daemon' = "draining"
  /\ paused' = paused \cup (configured \cap Pausing)
  /\ UNCHANGED <<configured, subscribed, starting, started, inboundVars>>

\* After the drain and the supervisor's stop, the adapters stop.
AdaptersStop ==
  /\ daemon = "draining" /\ daemon' = "stopping"
  /\ paused' = paused \cup started /\ started' = {}
  /\ UNCHANGED <<configured, subscribed, starting, inboundVars>>

\* Their connections are closed: the daemon unsubscribes and closes the storage.
StorageCloses ==
  /\ daemon = "stopping" /\ daemon' = "closed"
  /\ subscribed' = Unsubscribed
  /\ UNCHANGED <<configured, starting, started, paused, inboundVars>>

-----------------------------------------------------------------------------
(* Messages                                                                *)

\* #acceptInbound.
AcceptInbound(p) == p \in started /\ p \notin paused

\* The platform delivers a message, for the first time or again.
Arrives(p, k) ==
  /\ deliveries < MaxDelivery /\ deliveries' = deliveries + 1
  /\ p \in configured
  /\ transit' = IF AcceptInbound(p)
                  THEN transit \cup {[from |-> p, key |-> k, no |-> deliveries + 1]} ELSE transit
  /\ UNCHANGED <<configured, daemon, subscribed, starting, started, paused, seen, handled>>

\* (mutant) The queue forgets a key one message too early.
Remember_Short(k) ==
  LET q == Append(seen, k) IN IF Len(q) >= MaxSeen THEN Tail(q) ELSE q

\* #rememberRobotKey: the oldest key is forgotten for a new one.
Remember(k) ==
  LET q == Append(seen, k) IN IF Len(q) > MaxSeen THEN Tail(q) ELSE q

Known(k) == \E i \in DOMAIN seen : seen[i] = k

HandedOn(d) ==
  handled' = IF subscribed THEN [handled EXCEPT ![d.from] = Append(@, d.key)] ELSE handled

\* The attachments are there.  DingTalk's adapter now drops what it has handled.
Fetched(d) ==
  /\ d \in transit /\ transit' = transit \ {d}
  /\ IF d.from \in Remembering
       THEN /\ seen' = IF Known(d.key) THEN seen ELSE Remember(d.key)
            /\ IF Known(d.key) THEN UNCHANGED handled ELSE HandedOn(d)
       ELSE HandedOn(d) /\ UNCHANGED seen
  /\ UNCHANGED <<configured, daemon, subscribed, starting, started, paused, deliveries>>

\* A payload that cannot be read is dropped, after the acknowledgement.
Unreadable(d) ==
  /\ d \in transit /\ transit' = transit \ {d}
  /\ UNCHANGED <<configured, daemon, subscribed, starting, started, paused, deliveries,
                 seen, handled>>

-----------------------------------------------------------------------------
AdapterNext ==
  \/ DaemonStart \/ DaemonStarted \/ PollingFails
  \/ \E p \in Platform : Connects(p) \/ ConnectFails(p)
  \/ PauseInbound \/ AdaptersStop \/ StorageCloses
  \/ \E p \in Platform, k \in Key : Arrives(p, k)
  \/ \E d \in Delivery : Fetched(d) \/ Unreadable(d)

AdapterSpec == AdapterInit /\ [][AdapterNext]_adapterVars
-----------------------------------------------------------------------------
(* Properties                                                              *)

\* A message that DingTalk delivers again is handled again only after MaxSeen others
\* were, however the deliveries overlap while attachments are fetched.
RedeliveryIsHandledOnce ==
  \A p \in Remembering \cap Platform : \A i, j \in DOMAIN handled[p] :
    i < j /\ handled[p][i] = handled[p][j] =>
      Cardinality({handled[p][m] : m \in i + 1..j - 1}) >= MaxSeen

\* No message is handed to the daemon once its storage is closed, though adapters may
\* be waiting for attachments then, or come up afterwards.
StorageIsOpen == daemon \in {"closed", "failed"} => UNCHANGED handled
HandlersFindStorage == [][StorageIsOpen]_adapterVars
=============================================================================
