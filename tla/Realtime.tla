------------------------------ MODULE Realtime ------------------------------
(***************************************************************************)
(* Live call events end to end: a call changes, Postgres notifies whoever  *)
(* listens, the source passes it to the gateway, the gateway to sockets.   *)
(* NOTIFY is not persisted: what is sent while nobody listens is gone.  The *)
(* source therefore proves delivery with probes it sends through a second  *)
(* connection and must hear on the first.                                  *)
(*                                                                         *)
(* The timers' lengths and the backoff are left out: a timer is armed, and *)
(* fires later.  A rebuilt client has a new generation, and what is left   *)
(* of the old one are probes that are "orphan".                            *)
(***************************************************************************)
EXTENDS RealtimeGateway, Sequences

CONSTANTS
  Probe,    \* bound: probes under way at once
  MaxWire   \* bound: a call does not change while as many notices are on their way

VARIABLES
  client,        \* the listening client: "waiting" to be built, "listening", "up"
  link,          \* its connection: "down", "live", or "deaf" (up, and delivers nothing)
  everListened,
  misses,        \* probeFailures: 0, 1, or 2 for more
  timer,         \* the probe timer is armed
  probe,         \* each probe: "free", "sent", "orphan"
  wire,          \* what the live link has still to deliver
  proven         \* history: the last probe of this client was heard

sourceVars == <<client, link, everListened, misses, timer, probe, wire, proven>>
vars == <<gatewayVars, sourceVars>>

ASSUME ProbeAssumption == NoUser \notin Probe /\ MaxWire \in Nat

Notice == [probe : Probe \cup {NoUser}, parties : SUBSET User]
ProbeNotice(p) == [probe |-> p, parties |-> {}]
CallNotice(parties) == [probe |-> NoUser, parties |-> parties]

Init ==
  /\ GatewayInit
  /\ client = "waiting" /\ link = "down"
  /\ everListened = FALSE /\ misses = 0 /\ timer = FALSE
  /\ probe = [p \in Probe |-> "free"]
  /\ wire = <<>> /\ proven = FALSE

------------------------------------------------------------------------------
(* The listening client                                                     *)

\* Whom the calls among the lost notifications concern.
Lost == UNION {wire[i].parties : i \in DOMAIN wire}

Recycle(missed) ==
  /\ client' = "waiting" /\ link' = "down" /\ timer' = FALSE
  /\ probe' = [p \in Probe |-> IF probe[p] = "free" \/ p = missed THEN "free" ELSE "orphan"]
  /\ wire' = <<>> /\ proven' = FALSE
  /\ OnHealth(FALSE)
  /\ UNCHANGED everListened

Connects ==
  /\ client = "waiting" /\ serving # "stopped"
  /\ client' = "listening"
  /\ UNCHANGED <<gatewayVars, link, everListened, misses, timer, probe, wire, proven>>

ListenFails ==
  /\ client = "listening"
  /\ Recycle(NoUser)
  /\ UNCHANGED misses

\* LISTEN took effect, for the first time or again.  A transaction-mode pooler
\* accepts it and never delivers.
NeverAway == FALSE
WasAway == everListened
OnListening ==
  /\ \/ client = "listening"
     \/ client = "up" /\ link = "down"
  /\ client' = "up" /\ link' \in {"live", "deaf"}
  /\ IF WasAway THEN \E slow \in SUBSET Conn : Broadcast(slow) ELSE UNCHANGED gatewayVars
  /\ everListened' = TRUE /\ timer' = TRUE
  /\ UNCHANGED <<misses, probe, wire, proven>>

\* The connection breaks, and the driver will listen again; or it stays open
\* and delivers no more, as when the driver swallows a failed re-listen.
LinkBreaks(now) ==
  /\ client = "up" /\ link # now /\ now \in {"down", "deaf"}
  /\ link' = now
  /\ wire' = <<>>
  /\ behind' = behind \cup Audience(Lost)
  /\ UNCHANGED <<ws, user, verifying, lapsed, byUser, older, healthy, serving>>
  /\ UNCHANGED <<client, everListened, misses, timer, probe, proven>>

------------------------------------------------------------------------------
(* Probes                                                                   *)

OnTheWire(p) == \E i \in DOMAIN wire : wire[i] = ProbeNotice(p)
SendsProbe(p) ==
  /\ timer /\ probe[p] = "free" /\ ~OnTheWire(p)
  /\ timer' = FALSE
  /\ probe' = [probe EXCEPT ![p] = "sent"]
  /\ wire' = IF link = "live" THEN Append(wire, ProbeNotice(p)) ELSE wire
  /\ UNCHANGED <<gatewayVars, client, link, everListened, misses, proven>>

Received(p) == wire # <<>> /\ Head(wire) = ProbeNotice(p) /\ wire' = Tail(wire)

HearsProbe(p) ==
  /\ Received(p)
  /\ IF probe[p] = "sent"
     THEN /\ misses' = 0 /\ timer' = TRUE /\ proven' = TRUE
          /\ probe' = [probe EXCEPT ![p] = "free"]
          /\ OnHealth(TRUE)
     ELSE UNCHANGED <<gatewayVars, misses, timer, probe, proven>>
  /\ UNCHANGED <<client, link, everListened>>

\* One miss is retried, the second rebuilds the client; a rebuild does not reset
\* the count.
ExactlySecond == misses = 1
SecondMiss == misses > 0
HealthUntilSecond == healthy /\ misses = 0
HealthAfterMiss == FALSE
MissesProbe(p) ==
  /\ probe[p] = "sent"
  /\ misses' = IF misses = 0 THEN 1 ELSE 2
  /\ IF SecondMiss
     THEN Recycle(p)
     ELSE /\ OnHealth(HealthAfterMiss)
          /\ timer' = TRUE /\ proven' = FALSE
          /\ probe' = [probe EXCEPT ![p] = "free"]
          /\ UNCHANGED <<client, link, everListened, wire>>

\* What a discarded client was waiting for comes to nothing.
ForgetsProbe(p) ==
  /\ probe[p] = "orphan"
  /\ probe' = [probe EXCEPT ![p] = "free"]
  /\ UNCHANGED <<gatewayVars, client, link, everListened, misses, timer, wire, proven>>

------------------------------------------------------------------------------
(* Calls                                                                    *)

\* A call of these two changed and the database notified.
CallChanges(parties) ==
  /\ IF link = "live"
     THEN /\ Len(wire) < MaxWire /\ wire' = Append(wire, CallNotice(parties))
          /\ UNCHANGED behind
     ELSE behind' = behind \cup Audience(parties) /\ UNCHANGED wire
  /\ UNCHANGED <<ws, user, verifying, lapsed, byUser, older, healthy, serving>>
  /\ UNCHANGED <<client, link, everListened, misses, timer, probe, proven>>

OnCallChanged(parties) ==
  /\ wire # <<>> /\ Head(wire) = CallNotice(parties)
  /\ wire' = Tail(wire)
  /\ \E slow \in SUBSET Conn : Route(parties, slow)
  /\ UNCHANGED <<client, link, everListened, misses, timer, probe, proven>>

\* stop(), the last of destroy(): silently unhealthy, and no timer is left.
Stops ==
  /\ serving = "draining"
  /\ serving' = "stopped" /\ healthy' = FALSE
  /\ client' = "waiting" /\ link' = "down" /\ timer' = FALSE /\ wire' = <<>>
  /\ probe' = [p \in Probe |-> IF probe[p] = "free" THEN "free" ELSE "orphan"]
  /\ proven' = FALSE
  /\ UNCHANGED <<conns, everListened, misses>>

Break == \E now \in {"down", "deaf"} : LinkBreaks(now)
\* The parties of a call who are in User: both, or one.
Parties == {{u, v} : u, v \in User}

Next ==
  \/ GatewayNext /\ UNCHANGED sourceVars
  \/ Connects \/ ListenFails \/ OnListening \/ Break \/ Stops
  \/ \E p \in Probe : SendsProbe(p) \/ HearsProbe(p) \/ MissesProbe(p) \/ ForgetsProbe(p)
  \/ \E parties \in Parties : CallChanges(parties) \/ OnCallChanged(parties)

Spec == Init /\ [][Next]_vars

\* Timers fire, awaited queries answer, a closing socket's close event comes
\* (the server destroys it after a while).  Nothing is said of failures,
\* peers, calls, or a shutdown.
Fairness ==
  /\ WF_vars(Connects)
  /\ WF_vars(OnListening \/ ListenFails)
  /\ WF_vars(Tick({}) /\ UNCHANGED sourceVars)
  /\ \A p \in Probe :
       /\ WF_vars(SendsProbe(p)) /\ WF_vars(HearsProbe(p))
       /\ WF_vars(MissesProbe(p)) /\ WF_vars(ForgetsProbe(p))
  /\ \A parties \in Parties : WF_vars(OnCallChanged(parties))
  /\ \A c \in Conn : WF_vars(ws[c] = "closing" /\ OnClose(c) /\ UNCHANGED sourceVars)

FairSpec == Spec /\ Fairness

------------------------------------------------------------------------------
(* Properties                                                               *)

RealtimeTypeOK ==
  /\ ws \in [Conn -> {"none", "open", "closing"}]
  /\ user \in [Conn -> User \cup {NoUser}]
  /\ verifying \in [Conn -> User \cup {NoUser}]
  /\ lapsed \subseteq Conn /\ behind \subseteq {c \in Registered : IsOpen(c)}
  /\ byUser \in [User -> SUBSET Conn]
  /\ older \subseteq Conn \X Conn
  /\ healthy \in BOOLEAN
  /\ serving \in {"yes", "draining", "stopped"}
  /\ client \in {"waiting", "listening", "up"}
  /\ link \in {"down", "live", "deaf"}
  /\ everListened \in BOOLEAN /\ timer \in BOOLEAN /\ proven \in BOOLEAN
  /\ misses \in 0..2
  /\ probe \in [Probe -> {"free", "sent", "orphan"}]
  /\ wire \in Seq(Notice)

\* "healthy is true only after a probe has actually round-tripped": the last one,
\* on the client there is now.  A LISTEN that was accepted is not enough, and one
\* miss is enough to lose it.
HealthyIsProven == healthy => client = "up" /\ proven

\* "If the source stops being able to promise that, every socket is closed":
\* while it is unhealthy no socket is open, not one still verifying its token,
\* and none opens after a shutdown began.
NoOpenSocketUnproven == ~healthy \/ serving # "yes" => \A c \in Conn : ~IsOpen(c)

\* The registry knows the sockets that exist, under their own user, and every
\* open one can be reached by closing all of them: nothing leaks when a socket
\* closes, or is evicted, while its token is being verified.
RegistryExact ==
  /\ \A u \in User, c \in Conn : c \in byUser[u] => ws[c] # "none" /\ user[c] = u
  /\ \A c \in Conn : IsOpen(c) => c \in AllConns

\* One account holds a bounded number of sockets open, however its sockets
\* authenticate, close and are evicted.
PerUserBound ==
  \A u \in User : Cardinality({c \in Conn : IsOpen(c) /\ user[c] = u}) <= MaxPerUser

\* "A socket that looks connected but is deaf is worse than no socket": one
\* that missed a change is told to read again, or closed.
NoSilentGap == \A c \in Conn : c \in behind ~> c \notin behind

\* A socket does not outlive its credential for ever, also when its peer is
\* silent or its user evicts it.
LapsedCloses == \A c \in Conn : c \in lapsed /\ IsOpen(c) ~> ~IsOpen(c)

\* What the outside does to the listener.
Fault ==
  \/ Break \/ ListenFails
  \/ OnListening /\ link' = "deaf"
  \/ \E p \in Probe : OnTheWire(p) /\ MissesProbe(p)

\* Unless the outside goes on failing, or the process stops, the source becomes
\* healthy and stays so: it is never left without a timer or a probe.
Recovers == []<><<Fault>>_vars \/ <>(serving # "yes") \/ <>[]healthy
==============================================================================
