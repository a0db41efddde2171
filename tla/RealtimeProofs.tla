--------------------------- MODULE RealtimeProofs ---------------------------
(***************************************************************************)
(* What holds of Realtime for every set of sockets, users and probes.      *)
(***************************************************************************)
EXTENDS Realtime, FiniteSetTheorems, TLAPS

GatewayTypeOK ==
  /\ ws \in [Conn -> {"none", "open", "closing"}]
  /\ user \in [Conn -> User \cup {NoUser}]
  /\ verifying \in [Conn -> User \cup {NoUser}]
  /\ lapsed \subseteq Conn
  /\ behind \subseteq {c \in Registered : IsOpen(c)}
  /\ byUser \in [User -> SUBSET Conn]
  /\ older \subseteq Conn \X Conn
  /\ healthy \in BOOLEAN
  /\ serving \in {"yes", "draining", "stopped"}

SourceTypeOK ==
  /\ client \in {"waiting", "listening", "up"}
  /\ link \in {"down", "live", "deaf"}
  /\ everListened \in BOOLEAN /\ timer \in BOOLEAN /\ proven \in BOOLEAN
  /\ misses \in 0..2
  /\ probe \in [Probe -> {"free", "sent", "orphan"}]
  /\ wire \in Seq(Notice)

\* A socket that is gone, or whose token is being verified, is nobody's yet.
NotYetAnyones ==
  \A c \in Conn : ws[c] = "none" \/ verifying[c] # NoUser => user[c] = NoUser

\* Without this PerUserBound would not survive an eviction: closing sockets
\* leave the registry before they close.
RegistryBound == \A u \in User : Cardinality(byUser[u]) <= MaxPerUser

GatewayInv ==
  /\ GatewayTypeOK /\ RegistryExact /\ NotYetAnyones /\ NoOpenSocketUnproven
  /\ RegistryBound

\* Probes and their timer belong to a client that is up: only such a client can
\* become healthy.
ProbesOfUp ==
  /\ timer => client = "up"
  /\ \A p \in Probe : probe[p] = "sent" => client = "up"

SourceInv == SourceTypeOK /\ ProbesOfUp /\ HealthyIsProven

IInv == GatewayInv /\ SourceInv

------------------------------------------------------------------------------
(* Initially                                                                *)

LEMMA InitInv == Init => IInv
<1> SUFFICES ASSUME Init PROVE IInv
  OBVIOUS
<1>1. GatewayTypeOK
  BY DEF Init, GatewayInit, GatewayTypeOK, Registered
<1>2. RegistryExact /\ NotYetAnyones /\ NoOpenSocketUnproven
  BY DEF Init, GatewayInit, RegistryExact, NotYetAnyones, NoOpenSocketUnproven, IsOpen
<1>3. RegistryBound
  BY FS_EmptySet, GatewayAssumption DEF Init, GatewayInit, RegistryBound
<1>4. SourceTypeOK
  <2>1. everListened \in BOOLEAN /\ timer \in BOOLEAN /\ proven \in BOOLEAN
    BY Zenon DEF Init
  <2>2. wire \in Seq(Notice)
    BY DEF Init
  <2>3. probe \in [Probe -> {"free", "sent", "orphan"}]
    BY DEF Init
  <2> QED BY <2>1, <2>2, <2>3 DEF Init, SourceTypeOK
<1>5. ProbesOfUp
  <2>1. ~timer /\ \A p \in Probe : probe[p] # "sent"
    BY DEF Init
  <2> QED BY <2>1 DEF ProbesOfUp
<1>6. HealthyIsProven
  BY DEF Init, GatewayInit, HealthyIsProven
<1> QED BY <1>1, <1>2, <1>3, <1>4, <1>5, <1>6 DEF IInv, GatewayInv, SourceInv

------------------------------------------------------------------------------
(* Closing sockets                                                          *)

\* An open socket somebody was authenticated on is in that user's registry.
LEMMA OpenIsRegistered ==
  ASSUME GatewayTypeOK, RegistryExact, NEW c \in Conn, IsOpen(c), user[c] # NoUser
  PROVE  user[c] \in User /\ c \in byUser[user[c]]
BY DEF GatewayTypeOK, RegistryExact, AllConns, Pending, Registered

\* Shutting sockets, and forgetting what they missed, disturbs nothing else.
LEMMA ShutKeeps ==
  ASSUME GatewayInv, NEW S, Shut(S), NEW keep, behind' = behind \ keep,
         S \cap behind \subseteq keep,
         UNCHANGED <<user, lapsed, byUser, older, healthy, serving>>,
         verifying' \in [Conn -> User \cup {NoUser}],
         \A c \in Conn : verifying'[c] \in {verifying[c], NoUser}
  PROVE  GatewayInv'
<1>1. /\ ws' \in [Conn -> {"none", "open", "closing"}]
      /\ \A c \in Conn : ws'[c] = "none" <=> ws[c] = "none"
      /\ \A c \in Conn : ws'[c] = "open" <=> ws[c] = "open" /\ c \notin S
  BY DEF Shut, IsOpen, GatewayInv, GatewayTypeOK
<1>2. GatewayTypeOK'
  BY <1>1 DEF GatewayInv, GatewayTypeOK, Registered, IsOpen
<1>3. RegistryExact'
  BY <1>1 DEF GatewayInv, RegistryExact, AllConns, Pending, Registered, IsOpen
<1>4. NotYetAnyones'
  BY <1>1 DEF GatewayInv, NotYetAnyones
<1>5. NoOpenSocketUnproven'
  BY <1>1 DEF GatewayInv, NoOpenSocketUnproven, IsOpen
<1>6. RegistryBound'
  BY DEF GatewayInv, RegistryBound
<1> QED BY <1>2, <1>3, <1>4, <1>5, <1>6 DEF GatewayInv

LEMMA RouteKeeps ==
  ASSUME GatewayInv, NEW parties, NEW slow, Route(parties, slow)
  PROVE  GatewayInv'
BY ShutKeeps DEF Route, Send, GatewayInv, GatewayTypeOK

LEMMA BroadcastKeeps ==
  ASSUME GatewayInv, NEW slow, Broadcast(slow)
  PROVE  GatewayInv'
<1>1. behind \subseteq Audience(User)
  BY DEF GatewayInv, GatewayTypeOK, Audience, Registered
<1> QED BY <1>1, ShutKeeps DEF Broadcast, Send, GatewayInv, GatewayTypeOK

\* Closing everyone leaves no socket open: the registry is exact.
LEMMA CloseAllCloses ==
  ASSUME GatewayInv, CloseAll
  PROVE  \A c \in Conn : ws'[c] # "open"
BY DEF GatewayInv, GatewayTypeOK, RegistryExact, CloseAll, Shut, IsOpen

LEMMA HealthKeeps ==
  ASSUME GatewayInv, NEW now \in BOOLEAN, OnHealth(now)
  PROVE  GatewayInv'
<1>1. CASE healthy /\ ~now
  <2>1. /\ CloseAll /\ healthy' = now
        /\ UNCHANGED <<user, verifying, lapsed, byUser, older, serving>>
    BY <1>1 DEF OnHealth
  <2>2. \A c \in Conn : ws'[c] # "open"
    BY <2>1, CloseAllCloses
  <2>3. /\ ws' \in [Conn -> {"none", "open", "closing"}]
        /\ \A c \in Conn : ws'[c] = "none" <=> ws[c] = "none"
    BY <2>1 DEF CloseAll, Shut, IsOpen, GatewayInv, GatewayTypeOK
  <2>4. behind' = {}
    BY <2>1 DEF CloseAll, GatewayInv, GatewayTypeOK, AllConns
  <2>5. GatewayTypeOK'
    BY <2>1, <2>3, <2>4 DEF GatewayInv, GatewayTypeOK
  <2>6. RegistryExact' /\ NotYetAnyones' /\ NoOpenSocketUnproven' /\ RegistryBound'
    BY <2>1, <2>2, <2>3 DEF GatewayInv, RegistryExact, NotYetAnyones, NoOpenSocketUnproven,
       RegistryBound, IsOpen
  <2> QED BY <2>5, <2>6 DEF GatewayInv
<1>2. CASE ~(healthy /\ ~now)
  <2>1. /\ healthy' = now
        /\ UNCHANGED <<conns, serving>>
    BY <1>2 DEF OnHealth, conns
  <2>2. GatewayTypeOK' /\ RegistryExact' /\ NotYetAnyones' /\ RegistryBound'
    BY <2>1 DEF conns, GatewayInv, GatewayTypeOK, RegistryExact, NotYetAnyones, RegistryBound,
       AllConns, Pending, Registered, IsOpen
  <2>3. NoOpenSocketUnproven'
    BY <1>2, <2>1 DEF conns, GatewayInv, NoOpenSocketUnproven, IsOpen
  <2> QED BY <2>2, <2>3 DEF GatewayInv
<1> QED BY <1>1, <1>2

\* Only what open sockets missed is recorded.
LEMMA BehindKeeps ==
  ASSUME GatewayInv, NEW parties \in SUBSET User,
         behind' = behind \cup Audience(parties) \/ UNCHANGED behind,
         UNCHANGED <<ws, user, verifying, lapsed, byUser, older, healthy, serving>>
  PROVE  GatewayInv'
<1>1. Audience(parties) \subseteq {c \in Registered : IsOpen(c)}
  BY DEF Audience, Registered
<1>2. GatewayTypeOK'
  BY <1>1 DEF GatewayInv, GatewayTypeOK, Registered, IsOpen
<1> QED BY <1>2 DEF GatewayInv, RegistryExact, NotYetAnyones, NoOpenSocketUnproven,
        RegistryBound, AllConns, Pending, Registered, IsOpen

LEMMA GatewayStutters == GatewayInv /\ UNCHANGED gatewayVars => GatewayInv'
BY DEF gatewayVars, conns, GatewayInv, GatewayTypeOK, RegistryExact, NotYetAnyones,
   NoOpenSocketUnproven, RegistryBound, AllConns, Pending, Registered, IsOpen

------------------------------------------------------------------------------
(* The handlers of the gateway                                              *)

LEMMA UpgradeKeeps ==
  ASSUME GatewayInv, NEW c \in Conn, OnUpgrade(c)
  PROVE  GatewayInv'
<1>0. /\ healthy /\ serving = "yes" /\ verifying[c] = NoUser
      /\ UNCHANGED <<user, lapsed, verifying, byUser, older, behind, healthy, serving>>
  BY Zenon DEF OnUpgrade
<1>1. /\ ws' \in [Conn -> {"none", "open", "closing"}]
      /\ ws'[c] = "open" /\ \A d \in Conn \ {c} : ws'[d] = ws[d]
      /\ user[c] = NoUser
  <2>1. ws[c] = "none" /\ ws' = [ws EXCEPT ![c] = "open"]
    BY Zenon DEF OnUpgrade
  <2> QED BY <2>1 DEF GatewayInv, GatewayTypeOK, NotYetAnyones
<1>2. GatewayTypeOK'
  BY <1>0, <1>1 DEF GatewayInv, GatewayTypeOK, Registered, IsOpen
<1>3. RegistryExact'
  BY <1>0, <1>1 DEF GatewayInv, RegistryExact, AllConns, Pending, Registered, IsOpen
<1>4. NotYetAnyones'
  BY <1>0, <1>1 DEF GatewayInv, NotYetAnyones
<1>5. NoOpenSocketUnproven' /\ RegistryBound'
  BY <1>0, <1>1 DEF GatewayInv, NoOpenSocketUnproven, RegistryBound
<1> QED BY <1>2, <1>3, <1>4, <1>5 DEF GatewayInv

LEMMA AuthFrameKeeps ==
  ASSUME GatewayInv, NEW c \in Conn, NEW u \in User, OnAuthFrame(c, u)
  PROVE  GatewayInv'
<1>1. /\ user[c] = NoUser
      /\ verifying' \in [Conn -> User \cup {NoUser}]
      /\ \A d \in Conn \ {c} : verifying'[d] = verifying[d]
      /\ UNCHANGED <<ws, user, lapsed, byUser, older, behind, healthy, serving>>
  BY DEF OnAuthFrame, Pending, GatewayInv, GatewayTypeOK
<1>2. NotYetAnyones'
  BY <1>1 DEF GatewayInv, NotYetAnyones
<1> QED BY <1>1, <1>2 DEF GatewayInv, GatewayTypeOK, RegistryExact, NoOpenSocketUnproven,
        RegistryBound, AllConns, Pending, Registered, IsOpen

LEMMA BadFrameKeeps ==
  ASSUME GatewayInv, NEW c \in Conn, OnBadFrame(c)
  PROVE  GatewayInv'
BY ShutKeeps DEF OnBadFrame, GatewayInv, GatewayTypeOK

LEMMA RefusalKeeps ==
  ASSUME GatewayInv, NEW c \in Conn, RefusesToken(c)
  PROVE  GatewayInv'
<1>1. /\ verifying' \in [Conn -> User \cup {NoUser}]
      /\ \A d \in Conn : verifying'[d] \in {verifying[d], NoUser}
  BY DEF RefusesToken, GatewayInv, GatewayTypeOK
<1> QED BY <1>1, ShutKeeps DEF RefusesToken

\* An eviction makes room for the newcomer, who has no socket there yet.
LEMMA RoomInRegistry ==
  ASSUME GatewayInv, NEW c \in Conn, NEW u \in User, c \notin byUser[u],
         NEW out \in Evictable(u)
  PROVE  Cardinality((byUser[u] \ out) \cup {c}) <= MaxPerUser
<1>1. byUser[u] \subseteq Conn /\ IsFiniteSet(byUser[u])
  BY GatewayAssumption, FS_Subset DEF GatewayInv, GatewayTypeOK
<1>2. Cardinality(byUser[u]) \in Nat /\ Cardinality(byUser[u]) <= MaxPerUser
  BY <1>1, FS_CardinalityType DEF GatewayInv, RegistryBound
<1>3. CASE Cardinality(byUser[u]) < MaxPerUser
  <2>1. (byUser[u] \ out) \cup {c} = byUser[u] \cup {c}
    BY <1>3 DEF Evictable
  <2>2. Cardinality(byUser[u] \cup {c}) = Cardinality(byUser[u]) + 1
    BY <1>1, FS_AddElement
  <2> QED BY <1>2, <1>3, <2>1, <2>2, GatewayAssumption
<1>4. CASE ~(Cardinality(byUser[u]) < MaxPerUser)
  <2>1. PICK o \in byUser[u] : out = {o}
    BY <1>4 DEF Evictable, Oldest
  <2>2. /\ IsFiniteSet(byUser[u] \ {o})
        /\ Cardinality(byUser[u] \ {o}) = Cardinality(byUser[u]) - 1
    BY <1>1, FS_RemoveElement
  <2>3. Cardinality((byUser[u] \ {o}) \cup {c}) = Cardinality(byUser[u] \ {o}) + 1
    BY <2>2, FS_AddElement
  <2> QED BY <1>2, <2>1, <2>2, <2>3, GatewayAssumption
<1> QED BY <1>3, <1>4

LEMMA VerifiedKeeps ==
  ASSUME GatewayInv, NEW c \in Conn, Verified(c)
  PROVE  GatewayInv'
<1> DEFINE u == verifying[c]
<1>1. /\ u \in User
      /\ verifying' = [verifying EXCEPT ![c] = NoUser]
      /\ UNCHANGED <<lapsed, healthy, serving>>
  BY DEF Verified, GatewayInv, GatewayTypeOK
<1>2. /\ verifying' \in [Conn -> User \cup {NoUser}]
      /\ verifying'[c] = NoUser
      /\ \A d \in Conn \ {c} : verifying'[d] = verifying[d]
  BY <1>1 DEF GatewayInv, GatewayTypeOK
<1>3. CASE Gone(c) \/ ~healthy
  <2>1. Shut({c}) /\ UNCHANGED <<user, byUser, older, behind>>
    BY <1>3 DEF Verified
  <2>2. c \notin behind
    BY <1>3 DEF GatewayInv, GatewayTypeOK, NoOpenSocketUnproven, Gone, IsOpen
  <2>3. behind' = behind \ {c}
    BY <2>1, <2>2
  <2> QED BY <1>1, <1>2, <2>1, <2>3, ShutKeeps
<1>4. CASE ~(Gone(c) \/ ~healthy)
  <2>1. PICK out \in Evictable(u) : Registers(c, u, out)
    BY <1>4 DEF Verified
  <2>2. user[c] = NoUser /\ ws[c] # "none"
    BY <1>1, <1>4, GatewayAssumption DEF Gone, GatewayInv, NotYetAnyones
  <2>3. \A v \in User : c \notin byUser[v]
    BY <2>2, GatewayAssumption DEF GatewayInv, RegistryExact
  <2>4. out \subseteq byUser[u]
    BY <2>1 DEF Evictable, Oldest
  <2>5. /\ user' \in [Conn -> User \cup {NoUser}] /\ user'[c] = u
        /\ \A d \in Conn \ {c} : user'[d] = user[d]
    BY <1>1, <2>1 DEF Registers, GatewayInv, GatewayTypeOK
  <2>6. /\ byUser' \in [User -> SUBSET Conn]
        /\ byUser'[u] = (byUser[u] \ out) \cup {c}
        /\ \A v \in User \ {u} : byUser'[v] = byUser[v]
    BY <1>1, <2>1 DEF Registers, GatewayInv, GatewayTypeOK
  <2>7. /\ ws' \in [Conn -> {"none", "open", "closing"}]
        /\ \A d \in Conn : ws'[d] = "none" <=> ws[d] = "none"
        /\ \A d \in Conn : ws'[d] = "open" <=> ws[d] = "open" /\ d \notin out
    BY <2>1 DEF Registers, Shut, IsOpen, GatewayInv, GatewayTypeOK
  <2>8. behind' = behind \ out /\ older' \subseteq Conn \X Conn
    BY <1>1, <2>1 DEF Registers, GatewayInv, GatewayTypeOK
  <2>9. behind' \subseteq {d \in Registered : IsOpen(d)}'
    BY <1>1, <2>6, <2>7, <2>8 DEF GatewayInv, GatewayTypeOK, Registered, IsOpen
  <2>10. GatewayTypeOK'
    BY <1>1, <1>2, <2>5, <2>6, <2>7, <2>8, <2>9 DEF GatewayInv, GatewayTypeOK
  <2>11. ASSUME NEW v \in User, NEW d \in Conn, d \in byUser'[v]
         PROVE  ws'[d] # "none" /\ user'[d] = v
    BY <2>2, <2>3, <2>5, <2>6, <2>7, <2>11 DEF GatewayInv, RegistryExact
  <2>12. ASSUME NEW d \in Conn, ws'[d] = "open"
         PROVE  d \in AllConns'
    <3>1. CASE d = c
      BY <1>1, <2>6, <3>1 DEF AllConns, Registered
    <3>2. CASE d # c /\ user[d] = NoUser
      BY <2>5, <2>12, <3>2 DEF AllConns, Pending
    <3>3. CASE d # c /\ user[d] # NoUser
      <4>1. user[d] \in User /\ d \in byUser[user[d]] /\ d \notin out
        BY <2>7, <2>12, <3>3, OpenIsRegistered DEF GatewayInv, IsOpen
      <4>2. d \in byUser'[user[d]]
        BY <2>6, <4>1
      <4> QED BY <4>1, <4>2 DEF AllConns, Registered
    <3> QED BY <3>1, <3>2, <3>3
  <2>13. RegistryExact'
    BY <2>11, <2>12 DEF RegistryExact, IsOpen
  <2>14. NotYetAnyones'
    BY <1>2, <2>2, <2>5, <2>7 DEF GatewayInv, NotYetAnyones
  <2>15. NoOpenSocketUnproven'
    BY <1>1, <2>7 DEF GatewayInv, NoOpenSocketUnproven, IsOpen
  <2>16. Cardinality(byUser'[u]) <= MaxPerUser
    BY <1>1, <2>1, <2>3, <2>6, RoomInRegistry
  <2>17. RegistryBound'
    BY <2>6, <2>16 DEF GatewayInv, RegistryBound
  <2> QED BY <2>10, <2>13, <2>14, <2>15, <2>17 DEF GatewayInv
<1> QED BY <1>3, <1>4

LEMMA LapseKeeps ==
  ASSUME GatewayInv, NEW c \in Conn, TokenLapses(c)
  PROVE  GatewayInv'
BY DEF TokenLapses, GatewayInv, GatewayTypeOK, RegistryExact, NotYetAnyones,
   NoOpenSocketUnproven, RegistryBound, AllConns, Pending, Registered, IsOpen

LEMMA TickKeeps ==
  ASSUME GatewayInv, NEW silent \in SUBSET Conn, Tick(silent)
  PROVE  GatewayInv'
BY ShutKeeps DEF Tick, GatewayInv, GatewayTypeOK

LEMMA CloseKeeps ==
  ASSUME GatewayInv, NEW c \in Conn, OnClose(c)
  PROVE  GatewayInv'
<1>1. /\ ws' \in [Conn -> {"none", "open", "closing"}] /\ ws'[c] = "none"
      /\ \A d \in Conn \ {c} : ws'[d] = ws[d]
      /\ user' \in [Conn -> User \cup {NoUser}] /\ user'[c] = NoUser
      /\ \A d \in Conn \ {c} : user'[d] = user[d]
      /\ behind' = behind \ {c} /\ older' \subseteq older /\ lapsed' \subseteq lapsed
      /\ UNCHANGED <<verifying, healthy, serving>>
  BY DEF OnClose, GatewayInv, GatewayTypeOK
<1>2. /\ byUser' \in [User -> SUBSET Conn]
      /\ \A v \in User : byUser'[v] = byUser[v] \ {c}
  <2>1. CASE user[c] = NoUser
    BY <2>1, GatewayAssumption DEF OnClose, GatewayInv, GatewayTypeOK, RegistryExact
  <2>2. CASE user[c] # NoUser
    BY <2>2 DEF OnClose, Unregistered, GatewayInv, GatewayTypeOK
  <2> QED BY <2>1, <2>2
<1>3. GatewayTypeOK'
  BY <1>1, <1>2 DEF GatewayInv, GatewayTypeOK, Registered, IsOpen
<1>4. RegistryExact'
  BY <1>1, <1>2 DEF GatewayInv, RegistryExact, AllConns, Pending, Registered, IsOpen
<1>5. NotYetAnyones' /\ NoOpenSocketUnproven'
  BY <1>1 DEF GatewayInv, NotYetAnyones, NoOpenSocketUnproven, IsOpen
<1>6. ASSUME NEW v \in User PROVE Cardinality(byUser'[v]) <= MaxPerUser
  <2>1. byUser[v] \subseteq Conn /\ IsFiniteSet(byUser[v])
    BY GatewayAssumption, FS_Subset DEF GatewayInv, GatewayTypeOK
  <2>2. /\ IsFiniteSet(byUser'[v]) /\ Cardinality(byUser'[v]) <= Cardinality(byUser[v])
    BY <1>2, <2>1, FS_Subset
  <2> QED BY <2>1, <2>2, FS_CardinalityType, GatewayAssumption DEF GatewayInv, RegistryBound
<1>7. RegistryBound'
  BY <1>6 DEF RegistryBound
<1> QED BY <1>3, <1>4, <1>5, <1>7 DEF GatewayInv

LEMMA DrainKeeps ==
  ASSUME GatewayInv, Drain
  PROVE  GatewayInv'
<1>1. /\ CloseAll /\ serving' = "draining"
      /\ UNCHANGED <<user, verifying, lapsed, byUser, older, healthy>>
  BY DEF Drain
<1>2. \A c \in Conn : ws'[c] # "open"
  BY <1>1, CloseAllCloses
<1>3. /\ ws' \in [Conn -> {"none", "open", "closing"}]
      /\ \A c \in Conn : ws'[c] = "none" <=> ws[c] = "none"
  BY <1>1 DEF CloseAll, Shut, IsOpen, GatewayInv, GatewayTypeOK
<1>4. behind' = {}
  BY <1>1 DEF CloseAll, GatewayInv, GatewayTypeOK, AllConns
<1>5. GatewayTypeOK'
  BY <1>1, <1>3, <1>4 DEF GatewayInv, GatewayTypeOK
<1>6. RegistryExact' /\ NotYetAnyones' /\ NoOpenSocketUnproven' /\ RegistryBound'
  BY <1>1, <1>2, <1>3 DEF GatewayInv, RegistryExact, NotYetAnyones, NoOpenSocketUnproven,
     RegistryBound, IsOpen
<1> QED BY <1>5, <1>6 DEF GatewayInv

LEMMA GatewayStep == GatewayInv /\ GatewayNext => GatewayInv'
BY UpgradeKeeps, AuthFrameKeeps, BadFrameKeeps, RefusalKeeps, VerifiedKeeps, LapseKeeps,
   TickKeeps, CloseKeeps, DrainKeeps DEF GatewayNext, AuthTimesOut

------------------------------------------------------------------------------
(* The gateway under the steps of the source                                *)

LEMMA LostAreUsers == SourceTypeOK => Lost \subseteq User
<1> SUFFICES ASSUME SourceTypeOK, NEW i \in DOMAIN wire PROVE wire[i].parties \subseteq User
  BY DEF Lost
<1>1. wire[i] \in Notice
  BY DEF SourceTypeOK
<1> QED BY <1>1 DEF Notice

LEMMA RecycleKeeps ==
  ASSUME GatewayInv, NEW missed, Recycle(missed)
  PROVE  GatewayInv'
BY HealthKeeps DEF Recycle

LEMMA ListeningKeeps ==
  ASSUME GatewayInv, OnListening
  PROVE  GatewayInv'
BY BroadcastKeeps, GatewayStutters DEF OnListening

LEMMA BreakKeeps ==
  ASSUME GatewayInv, SourceTypeOK, NEW now, LinkBreaks(now)
  PROVE  GatewayInv'
BY BehindKeeps, LostAreUsers DEF LinkBreaks

LEMMA HearingKeeps ==
  ASSUME GatewayInv, NEW p \in Probe, HearsProbe(p)
  PROVE  GatewayInv'
BY HealthKeeps, GatewayStutters DEF HearsProbe

LEMMA MissKeeps ==
  ASSUME GatewayInv, NEW p \in Probe, MissesProbe(p)
  PROVE  GatewayInv'
BY HealthKeeps, RecycleKeeps DEF MissesProbe, HealthAfterMiss

LEMMA ChangeKeeps ==
  ASSUME GatewayInv, NEW parties \in SUBSET User, CallChanges(parties)
  PROVE  GatewayInv'
BY BehindKeeps DEF CallChanges

LEMMA DeliveryKeeps ==
  ASSUME GatewayInv, NEW parties \in SUBSET User, OnCallChanged(parties)
  PROVE  GatewayInv'
BY RouteKeeps DEF OnCallChanged

LEMMA StopKeeps ==
  ASSUME GatewayInv, Stops
  PROVE  GatewayInv'
<1>1. \A c \in Conn : ~IsOpen(c)
  BY DEF Stops, GatewayInv, NoOpenSocketUnproven
<1>2. serving' = "stopped" /\ healthy' \in BOOLEAN /\ UNCHANGED conns
  BY Zenon DEF Stops
<1> QED BY <1>1, <1>2 DEF conns, GatewayInv, GatewayTypeOK, RegistryExact, NotYetAnyones,
        NoOpenSocketUnproven, RegistryBound, AllConns, Pending, Registered, IsOpen

------------------------------------------------------------------------------
(* The source                                                               *)

\* The gateway reads the health, and never writes it.
LEMMA GatewayLeavesHealth == GatewayNext => UNCHANGED healthy
BY Zenon DEF GatewayNext, Drain, Tick, OnUpgrade, OnBadFrame, AuthTimesOut, RefusesToken,
   Verified, TokenLapses, OnClose, OnAuthFrame

LEMMA SourceStutters == SourceInv /\ UNCHANGED <<sourceVars, healthy>> => SourceInv'
<1> SUFFICES ASSUME SourceInv, UNCHANGED <<sourceVars, healthy>> PROVE SourceInv'
  OBVIOUS
<1>1. SourceTypeOK'
  BY DEF sourceVars, SourceInv, SourceTypeOK
<1>2. ProbesOfUp' /\ HealthyIsProven'
  BY Zenon DEF sourceVars, SourceInv, ProbesOfUp, HealthyIsProven
<1> QED BY <1>1, <1>2 DEF SourceInv

\* What a step leaves behind that makes nobody healthy and touches no probe.
LEMMA QuietStep ==
  ASSUME SourceInv, UNCHANGED <<healthy, timer, proven, probe, misses>>,
         client' = client \/ (client = "waiting" /\ client' = "listening"),
         link' \in {"down", "live", "deaf"}, everListened' \in BOOLEAN, wire' \in Seq(Notice)
  PROVE  SourceInv'
BY DEF SourceInv, SourceTypeOK, ProbesOfUp, HealthyIsProven

LEMMA RecycleSound ==
  ASSUME SourceTypeOK, NEW missed, Recycle(missed), misses' \in 0..2
  PROVE  SourceInv'
<1>1. /\ client' = "waiting" /\ link' = "down" /\ wire' = <<>>
      /\ ~timer' /\ timer' \in BOOLEAN /\ ~proven' /\ proven' \in BOOLEAN
      /\ ~healthy' /\ everListened' \in BOOLEAN
  BY Zenon DEF Recycle, OnHealth, SourceTypeOK
<1>2. probe' \in [Probe -> {"free", "orphan"}]
  BY DEF Recycle
<1>3. SourceTypeOK'
  BY <1>1, <1>2 DEF SourceTypeOK
<1>4. ProbesOfUp' /\ HealthyIsProven'
  BY <1>1, <1>2 DEF ProbesOfUp, HealthyIsProven
<1> QED BY <1>3, <1>4 DEF SourceInv

LEMMA ConnectsSound == SourceInv /\ Connects => SourceInv'
BY QuietStep DEF Connects, gatewayVars, SourceInv, SourceTypeOK

LEMMA ListeningSound == SourceInv /\ OnListening => SourceInv'
<1> SUFFICES ASSUME SourceInv, OnListening PROVE SourceInv'
  OBVIOUS
<1>1. /\ client' = "up" /\ link' \in {"live", "deaf"} /\ everListened' \in BOOLEAN
      /\ timer' \in BOOLEAN
      /\ UNCHANGED <<misses, probe, wire, proven>>
  BY Zenon DEF OnListening
<1>2. UNCHANGED healthy
  BY Zenon DEF OnListening, Broadcast, gatewayVars
<1>3. SourceTypeOK'
  BY <1>1 DEF SourceInv, SourceTypeOK
<1>4. ProbesOfUp' /\ HealthyIsProven'
  BY <1>1, <1>2, Zenon DEF SourceInv, ProbesOfUp, HealthyIsProven
<1> QED BY <1>3, <1>4 DEF SourceInv

LEMMA BreakSound ==
  ASSUME SourceInv, NEW now, LinkBreaks(now)
  PROVE  SourceInv'
<1>1. /\ link' \in {"down", "deaf"} /\ wire' = <<>>
      /\ UNCHANGED <<healthy, client, everListened, misses, timer, probe, proven>>
  BY Zenon DEF LinkBreaks
<1>2. link' \in {"down", "live", "deaf"} /\ everListened' \in BOOLEAN /\ wire' \in Seq(Notice)
  BY <1>1 DEF SourceInv, SourceTypeOK
<1> QED BY <1>1, <1>2, QuietStep, Zenon

LEMMA SendSound ==
  ASSUME SourceInv, NEW p \in Probe, SendsProbe(p)
  PROVE  SourceInv'
<1>1. /\ timer /\ ~timer' /\ timer' \in BOOLEAN
      /\ UNCHANGED <<healthy, client, link, everListened, misses, proven>>
  BY Zenon DEF SendsProbe, gatewayVars
<1>2. client = "up"
  BY <1>1, Zenon DEF SourceInv, ProbesOfUp
<1>3. probe' \in [Probe -> {"free", "sent", "orphan"}]
  BY DEF SendsProbe, SourceInv, SourceTypeOK
<1>4. ProbeNotice(p) \in Notice
  BY DEF ProbeNotice, Notice
<1>5. wire' \in Seq(Notice)
  BY <1>4 DEF SendsProbe, SourceInv, SourceTypeOK
<1>6. SourceTypeOK'
  BY <1>1, <1>3, <1>5 DEF SourceInv, SourceTypeOK
<1>7. ProbesOfUp' /\ HealthyIsProven'
  BY <1>1, <1>2, Zenon DEF SourceInv, ProbesOfUp, HealthyIsProven
<1> QED BY <1>6, <1>7 DEF SourceInv

LEMMA HearingSound ==
  ASSUME SourceInv, NEW p \in Probe, HearsProbe(p)
  PROVE  SourceInv'
<1>1. wire' \in Seq(Notice) /\ UNCHANGED <<client, link, everListened>>
  BY DEF HearsProbe, Received, SourceInv, SourceTypeOK
<1>2. CASE probe[p] = "sent"
  <2>1. /\ misses' = 0 /\ timer' \in BOOLEAN /\ proven' \in BOOLEAN /\ proven'
        /\ probe' = [probe EXCEPT ![p] = "free"]
    BY <1>2, Zenon DEF HearsProbe
  <2>2. client = "up"
    BY <1>2, Zenon DEF SourceInv, ProbesOfUp
  <2>3. probe' \in [Probe -> {"free", "sent", "orphan"}]
    BY <2>1 DEF SourceInv, SourceTypeOK
  <2>4. SourceTypeOK'
    BY <1>1, <2>1, <2>3 DEF SourceInv, SourceTypeOK
  <2>5. ProbesOfUp' /\ HealthyIsProven'
    BY <1>1, <2>1, <2>2, Zenon DEF ProbesOfUp, HealthyIsProven
  <2> QED BY <2>4, <2>5 DEF SourceInv
<1>3. CASE probe[p] # "sent"
  <2>1. UNCHANGED <<healthy, misses, timer, probe, proven>>
    BY <1>3, Zenon DEF HearsProbe, gatewayVars
  <2>2. link' \in {"down", "live", "deaf"} /\ everListened' \in BOOLEAN
    BY <1>1 DEF SourceInv, SourceTypeOK
  <2> QED BY <1>1, <2>1, <2>2, QuietStep, Zenon
<1> QED BY <1>2, <1>3

LEMMA MissSound ==
  ASSUME SourceInv, NEW p \in Probe, MissesProbe(p)
  PROVE  SourceInv'
<1>1. probe[p] = "sent" /\ misses' \in 0..2
  BY DEF MissesProbe
<1>2. CASE SecondMiss
  <2>1. Recycle(p)
    BY <1>2 DEF MissesProbe
  <2> QED BY <1>1, <2>1, RecycleSound DEF SourceInv
<1>3. CASE ~SecondMiss
  <2>1. /\ ~healthy' /\ timer' \in BOOLEAN /\ proven' \in BOOLEAN
        /\ UNCHANGED <<client, link, everListened, wire>>
    BY <1>3, Zenon DEF MissesProbe, OnHealth, HealthAfterMiss
  <2>2. client = "up"
    BY <1>1, Zenon DEF SourceInv, ProbesOfUp
  <2>3. probe' \in [Probe -> {"free", "sent", "orphan"}]
    BY <1>3 DEF MissesProbe, SourceInv, SourceTypeOK
  <2>4. SourceTypeOK'
    BY <1>1, <2>1, <2>3 DEF SourceInv, SourceTypeOK
  <2>5. ProbesOfUp' /\ HealthyIsProven'
    BY <2>1, <2>2, Zenon DEF ProbesOfUp, HealthyIsProven
  <2> QED BY <2>4, <2>5 DEF SourceInv
<1> QED BY <1>2, <1>3

LEMMA ForgetSound ==
  ASSUME SourceInv, NEW p \in Probe, ForgetsProbe(p)
  PROVE  SourceInv'
<1>1. UNCHANGED <<healthy, client, link, everListened, misses, timer, wire, proven>>
  BY Zenon DEF ForgetsProbe, gatewayVars
<1>2. /\ probe' \in [Probe -> {"free", "sent", "orphan"}]
      /\ \A q \in Probe : probe'[q] = "sent" => probe[q] = "sent"
  BY DEF ForgetsProbe, SourceInv, SourceTypeOK
<1>3. SourceTypeOK'
  BY <1>1, <1>2 DEF SourceInv, SourceTypeOK
<1>4. ProbesOfUp' /\ HealthyIsProven'
  BY <1>1, <1>2, Zenon DEF SourceInv, ProbesOfUp, HealthyIsProven
<1> QED BY <1>3, <1>4 DEF SourceInv

LEMMA ChangeSound ==
  ASSUME SourceInv, NEW parties \in SUBSET User, CallChanges(parties)
  PROVE  SourceInv'
<1>1. CallNotice(parties) \in Notice
  BY DEF CallNotice, Notice
<1>2. wire' \in Seq(Notice)
  BY <1>1 DEF CallChanges, SourceInv, SourceTypeOK
<1>3. UNCHANGED <<healthy, client, link, everListened, misses, timer, probe, proven>>
  BY Zenon DEF CallChanges
<1>4. link' \in {"down", "live", "deaf"} /\ everListened' \in BOOLEAN
  BY <1>3 DEF SourceInv, SourceTypeOK
<1> QED BY <1>2, <1>3, <1>4, QuietStep, Zenon

LEMMA DeliverySound ==
  ASSUME SourceInv, NEW parties, OnCallChanged(parties)
  PROVE  SourceInv'
<1>1. wire' \in Seq(Notice)
  BY DEF OnCallChanged, SourceInv, SourceTypeOK
<1>2. UNCHANGED <<healthy, client, link, everListened, misses, timer, probe, proven>>
  BY Zenon DEF OnCallChanged, Route
<1>3. link' \in {"down", "live", "deaf"} /\ everListened' \in BOOLEAN
  BY <1>2 DEF SourceInv, SourceTypeOK
<1> QED BY <1>1, <1>2, <1>3, QuietStep, Zenon

LEMMA StopSound ==
  ASSUME SourceInv, Stops
  PROVE  SourceInv'
<1>1. /\ client' = "waiting" /\ link' = "down" /\ wire' = <<>>
      /\ ~timer' /\ timer' \in BOOLEAN /\ ~proven' /\ proven' \in BOOLEAN
      /\ ~healthy' /\ UNCHANGED <<everListened, misses>>
  BY Zenon DEF Stops
<1>2. probe' \in [Probe -> {"free", "orphan"}]
  BY DEF Stops
<1>3. SourceTypeOK'
  BY <1>1, <1>2 DEF SourceInv, SourceTypeOK
<1>4. ProbesOfUp' /\ HealthyIsProven'
  BY <1>1, <1>2 DEF ProbesOfUp, HealthyIsProven
<1> QED BY <1>3, <1>4 DEF SourceInv

------------------------------------------------------------------------------
(* The theorems                                                             *)

LEMMA NextKeeps == IInv /\ [Next]_vars => IInv'
<1> SUFFICES ASSUME IInv, [Next]_vars PROVE IInv'
  OBVIOUS
<1>0. GatewayInv /\ SourceInv /\ SourceTypeOK
  BY DEF IInv, SourceInv
<1>1. CASE GatewayNext /\ UNCHANGED sourceVars
  <2>1. GatewayInv'
    BY <1>0, <1>1, GatewayStep
  <2>2. SourceInv'
    BY <1>0, <1>1, GatewayLeavesHealth, SourceStutters
  <2> QED BY <2>1, <2>2 DEF IInv
<1>2. CASE Connects
  BY <1>0, <1>2, ConnectsSound, GatewayStutters DEF IInv, Connects
<1>3. CASE ListenFails
  <2>1. Recycle(NoUser) /\ misses' \in 0..2
    BY <1>0, <1>3 DEF ListenFails, SourceTypeOK
  <2> QED BY <1>0, <2>1, RecycleKeeps, RecycleSound DEF IInv
<1>4. CASE OnListening
  BY <1>0, <1>4, ListeningKeeps, ListeningSound DEF IInv
<1>5. CASE Break
  BY <1>0, <1>5, BreakKeeps, BreakSound DEF IInv, Break
<1>6. CASE Stops
  BY <1>0, <1>6, StopKeeps, StopSound DEF IInv
<1>7. ASSUME NEW p \in Probe, SendsProbe(p) PROVE IInv'
  BY <1>0, <1>7, GatewayStutters, SendSound DEF IInv, SendsProbe
<1>8. ASSUME NEW p \in Probe, HearsProbe(p) PROVE IInv'
  BY <1>0, <1>8, HearingKeeps, HearingSound DEF IInv
<1>9. ASSUME NEW p \in Probe, MissesProbe(p) PROVE IInv'
  BY <1>0, <1>9, MissKeeps, MissSound DEF IInv
<1>10. ASSUME NEW p \in Probe, ForgetsProbe(p) PROVE IInv'
  BY <1>0, <1>10, GatewayStutters, ForgetSound DEF IInv, ForgetsProbe
<1>11. ASSUME NEW parties \in Parties, CallChanges(parties) PROVE IInv'
  BY <1>0, <1>11, ChangeKeeps, ChangeSound DEF IInv, Parties
<1>12. ASSUME NEW parties \in Parties, OnCallChanged(parties) PROVE IInv'
  BY <1>0, <1>12, DeliveryKeeps, DeliverySound DEF IInv, Parties
<1>13. CASE UNCHANGED vars
  BY <1>0, <1>13, GatewayStutters, SourceStutters DEF IInv, vars, gatewayVars
<1> QED BY <1>1, <1>2, <1>3, <1>4, <1>5, <1>6, <1>7, <1>8, <1>9, <1>10, <1>11, <1>12, <1>13
        DEF Next

\* For every set of sockets, users and probes: the state of Realtime keeps its
\* type; in particular only open, registered sockets can be behind.
THEOREM RealtimeTypeCorrect == Spec => []RealtimeTypeOK
<1>1. IInv => RealtimeTypeOK
  BY DEF IInv, GatewayInv, SourceInv, GatewayTypeOK, SourceTypeOK, RealtimeTypeOK
<1> QED BY InitInv, NextKeeps, <1>1, PTL DEF Spec

\* "healthy is true only after a probe has actually round-tripped": in every
\* interleaving of probes, rebuilds and broken links.
THEOREM AlwaysHealthyIsProven == Spec => []HealthyIsProven
<1>1. IInv => HealthyIsProven
  BY DEF IInv, SourceInv
<1> QED BY InitInv, NextKeeps, <1>1, PTL DEF Spec

\* No socket is open while the source cannot promise delivery, nor once a
\* shutdown began.
THEOREM NeverOpenUnproven == Spec => []NoOpenSocketUnproven
<1>1. IInv => NoOpenSocketUnproven
  BY DEF IInv, GatewayInv
<1> QED BY InitInv, NextKeeps, <1>1, PTL DEF Spec

\* The registry holds existing sockets under their own user, and closing all of
\* it reaches every open one.
THEOREM RegistryAlwaysExact == Spec => []RegistryExact
<1>1. IInv => RegistryExact
  BY DEF IInv, GatewayInv
<1> QED BY InitInv, NextKeeps, <1>1, PTL DEF Spec

\* No user holds more sockets open than allowed: they are all in the registry,
\* which never holds more.
THEOREM AlwaysPerUserBound == Spec => []PerUserBound
<1>1. IInv => PerUserBound
  <2> SUFFICES ASSUME IInv, NEW u \in User
               PROVE  Cardinality({c \in Conn : IsOpen(c) /\ user[c] = u}) <= MaxPerUser
    BY DEF PerUserBound
  <2> DEFINE S == {c \in Conn : IsOpen(c) /\ user[c] = u}
  <2>1. S \subseteq byUser[u]
    BY OpenIsRegistered, GatewayAssumption DEF IInv, GatewayInv
  <2>2. IsFiniteSet(byUser[u])
    BY GatewayAssumption, FS_Subset DEF IInv, GatewayInv, GatewayTypeOK
  <2>3. IsFiniteSet(S) /\ Cardinality(S) <= Cardinality(byUser[u])
    BY <2>1, <2>2, FS_Subset
  <2>4. Cardinality(byUser[u]) <= MaxPerUser
    BY DEF IInv, GatewayInv, RegistryBound
  <2> QED BY <2>2, <2>3, <2>4, FS_CardinalityType, GatewayAssumption
<1> QED BY InitInv, NextKeeps, <1>1, PTL DEF Spec
=============================================================================
