-------------------------- MODULE RealtimeGateway --------------------------
(***************************************************************************)
(* The socket server: who is connected, as whom, and who is told.  Its     *)
(* event source is the business of Realtime, which extends this module and *)
(* calls Route, Broadcast and OnHealth; a step here is one handler, up to  *)
(* its next await.                                                         *)
(*                                                                         *)
(* A socket is "open" until close() or terminate() is called on it, then   *)
(* "closing" until its close event: only that event tells the gateway that *)
(* it is gone, and a closing socket still receives messages.  Frames, close *)
(* codes and counters are left out.                                        *)
(***************************************************************************)
EXTENDS Naturals, FiniteSets

CONSTANTS
  Conn,        \* sockets, one at a time in each
  User,
  NoUser,
  MaxPerUser,  \* the sockets one user may hold open
  MaxPending   \* the sockets that may be waiting to authenticate

ASSUME GatewayAssumption ==
  /\ NoUser \notin User
  /\ IsFiniteSet(Conn)
  /\ MaxPerUser \in Nat \ {0}
  /\ MaxPending \in Nat

VARIABLES
  ws,         \* readyState: "none" (before the upgrade, or closed), "open", "closing"
  user,       \* conn.userId
  verifying,  \* whose token is being verified, NoUser if none
  lapsed,     \* the sockets whose token has expired
  byUser,     \* the registry events are routed by
  older,      \* pairs of sockets: the first was registered before the second
  healthy,    \* the event source's, which the gateway follows at once
  serving,    \* "yes", "draining", "stopped"
  behind      \* history: open sockets of a user with a change they were not told of

conns == <<ws, user, verifying, lapsed, byUser, older, behind>>
gatewayVars == <<conns, healthy, serving>>

Pending == {c \in Conn : ws[c] # "none" /\ user[c] = NoUser}
Registered == UNION {byUser[u] : u \in User}
RegisteredOnly == Registered
AllConns == Pending \cup Registered
IsOpen(c) == ws[c] = "open"
Audience(parties) == {c \in UNION {byUser[u] : u \in parties} : IsOpen(c)}

GatewayInit ==
  /\ ws = [c \in Conn |-> "none"]
  /\ user = [c \in Conn |-> NoUser]
  /\ verifying = [c \in Conn |-> NoUser]
  /\ lapsed = {} /\ older = {} /\ behind = {}
  /\ byUser = [u \in User |-> {}]
  /\ healthy = FALSE
  /\ serving = "yes"

------------------------------------------------------------------------------
(* What the handlers share                                                  *)

\* close() and terminate(): a socket already closing stays as it is.
Shut(S) == ws' = [c \in Conn |-> IF c \in S /\ IsOpen(c) THEN "closing" ELSE ws[c]]

Unregistered(c) == [u \in User |-> byUser[u] \ {c}]

\* Frames to the open sockets among S; the slow ones, whose buffers are full,
\* are terminated instead.
Send(S, slow) == slow \subseteq {c \in S : IsOpen(c)} /\ Shut(slow)

\* Everyone named on the call is told: both parties, and nobody else.
Route(parties, slow) ==
  /\ Send(Audience(parties), slow)
  /\ behind' = behind \ slow
  /\ UNCHANGED <<user, verifying, lapsed, byUser, older, healthy, serving>>

\* A resync frame to every registered socket: it reads everything again.
Broadcast(slow) ==
  /\ Send(Registered, slow)
  /\ behind' = behind \ Audience(User)
  /\ UNCHANGED <<user, verifying, lapsed, byUser, older, healthy, serving>>

CloseAll == Shut(AllConns) /\ behind' = behind \ AllConns

\* Called whenever the source's health may have changed.
OnHealth(now) ==
  /\ healthy' = now
  /\ IF healthy /\ ~now THEN CloseAll ELSE UNCHANGED <<ws, behind>>
  /\ UNCHANGED <<user, verifying, lapsed, byUser, older, serving>>

------------------------------------------------------------------------------
(* The handshake                                                            *)

OnUpgrade(c) ==
  /\ serving = "yes" /\ healthy /\ Cardinality(Pending) < MaxPending
  /\ ws[c] = "none" /\ verifying[c] = NoUser
  /\ ws' = [ws EXCEPT ![c] = "open"]
  /\ UNCHANGED <<user, lapsed, verifying, byUser, older, behind, healthy, serving>>

\* An auth frame; one more while authenticated or verifying is ignored.
OnAuthFrame(c, u) ==
  /\ c \in Pending /\ verifying[c] = NoUser
  /\ verifying' = [verifying EXCEPT ![c] = u]
  /\ UNCHANGED <<ws, user, lapsed, byUser, older, behind, healthy, serving>>

\* Binary, not JSON, no token, or anything but auth before it; and the timer
\* for a peer that says nothing, which only success or the close event stops.
OnBadFrame(c) ==
  /\ IsOpen(c)
  /\ Shut({c})
  /\ behind' = behind \ {c}
  /\ UNCHANGED <<user, verifying, lapsed, byUser, older, healthy, serving>>

AuthTimesOut(c) == c \in Pending /\ OnBadFrame(c)

RefusesToken(c) ==
  /\ verifying[c] # NoUser
  /\ verifying' = [verifying EXCEPT ![c] = NoUser]
  /\ Shut({c})
  /\ behind' = behind \ {c}
  /\ UNCHANGED <<user, lapsed, byUser, older, healthy, serving>>

\* Whom a full user gives up: the socket registered first.
Oldest(u) == {c \in byUser[u] : \A x \in byUser[u] : <<x, c>> \notin older}
EvictableBeyond(u) ==
  IF Cardinality(byUser[u]) <= MaxPerUser THEN {{}} ELSE {{c} : c \in Oldest(u)}
Evictable(u) ==
  IF Cardinality(byUser[u]) < MaxPerUser THEN {{}} ELSE {{c} : c \in Oldest(u)}

NeverGone(c) == FALSE
Gone(c) == ws[c] = "none"

Registers(c, u, out) ==
  /\ Shut(out)
  /\ behind' = behind \ out
  /\ user' = [user EXCEPT ![c] = u]
  /\ byUser' = [byUser EXCEPT ![u] = (@ \ out) \cup {c}]
  /\ older' = older \cup (byUser[u] \X {c})

\* After the await: the socket may have closed, or the source failed.  One
\* that is closing, but has not closed, is registered like any other.
Verified(c) ==
  LET u == verifying[c] IN
  /\ u # NoUser
  /\ verifying' = [verifying EXCEPT ![c] = NoUser]
  /\ IF Gone(c) \/ ~healthy
     THEN Shut({c}) /\ UNCHANGED <<user, byUser, older, behind>>
     ELSE \E out \in Evictable(u) : Registers(c, u, out)
  /\ UNCHANGED <<lapsed, healthy, serving>>

------------------------------------------------------------------------------
(* Living and dying                                                         *)

TokenLapses(c) ==
  /\ c \in Registered \ lapsed
  /\ lapsed' = lapsed \cup {c}
  /\ UNCHANGED <<ws, user, verifying, byUser, older, behind, healthy, serving>>

\* Once per ping interval: lapsed tokens are closed, peers not heard of for too
\* long are terminated, the others pinged.
SilentOnly(silent) == silent
Expelled(silent) == lapsed \cup silent
Tick(silent) ==
  /\ serving = "yes"
  /\ silent \subseteq Registered \ lapsed
  /\ Shut(Registered \cap Expelled(silent))
  /\ behind' = behind \ Expelled(silent)
  /\ UNCHANGED <<user, verifying, lapsed, byUser, older, healthy, serving>>

\* The close event: a handshake's end, a terminated socket, or the peer's.
OnClose(c) ==
  /\ ws[c] # "none"
  /\ ws' = [ws EXCEPT ![c] = "none"]
  /\ user' = [user EXCEPT ![c] = NoUser]
  /\ lapsed' = lapsed \ {c}
  /\ byUser' = IF user[c] = NoUser THEN byUser ELSE Unregistered(c)
  /\ older' = {p \in older : c \notin {p[1], p[2]}}
  /\ behind' = behind \ {c}
  /\ UNCHANGED <<verifying, healthy, serving>>

\* destroy(): no more upgrades or ticks, everyone is sent away, and the source
\* is stopped only when they have gone or two seconds have passed.
Drain ==
  /\ serving = "yes"
  /\ serving' = "draining"
  /\ CloseAll
  /\ UNCHANGED <<user, verifying, lapsed, byUser, older, healthy>>

GatewayNext ==
  \/ Drain
  \/ \E silent \in SUBSET Conn : Tick(silent)
  \/ \E c \in Conn :
       \/ OnUpgrade(c) \/ OnBadFrame(c) \/ AuthTimesOut(c) \/ RefusesToken(c)
       \/ Verified(c) \/ TokenLapses(c) \/ OnClose(c)
       \/ \E u \in User : OnAuthFrame(c, u)
==============================================================================
