------------------------------- MODULE TlsProxy -------------------------------
(***************************************************************************)
(* startTlsProxy (tls_proxy.ts): the server a recorder connects to, its    *)
(* connections to the camera, the circuit breaker, and stop().  What flows *)
(* over an open connection is RtspAuth's subject, one instance for each.   *)
(*                                                                         *)
(* The two sockets of a connection are torn down together.  A connection   *)
(* is dying from destroy() until its close events, when Node's server no   *)
(* longer counts it.  Its name can then be used again.                     *)
(***************************************************************************)
EXTENDS Naturals, Sequences, FiniteSets

CONSTANTS
  Conns,         \* connections that can exist at once
  MAX_BURST,     \* _MAX_BURST
  BURST_WINDOW,  \* _BURST_WINDOW, in ticks
  MaxTime,       \* bound on the clock
  MaxFails       \* bound on failures in a row

ASSUME BurstAssumption ==
  /\ MAX_BURST \in Nat \ {0} /\ BURST_WINDOW \in Nat
  /\ MaxTime \in Nat /\ MaxFails \in Nat

VARIABLES
  now,            \* Date.now()
  server,         \* the state of the server socket
  conn,           \* the state of each connection
  activeSockets,  \* activeSockets, by connection
  failCount,      \* failCount
  firstFailAt,    \* firstFailAt
  stop,           \* the promise of stop()
  fails,          \* history: when the failures since the last success came
  tripped         \* history: the breaker has closed the server

breakerVars == <<failCount, firstFailAt, fails, tripped>>
vars == <<now, server, conn, activeSockets, breakerVars, stop>>

ServerStates == {"starting", "rejected", "listening", "closing"}
ConnStates   == {"none", "connecting", "open", "dying"}
StopStates   == {"uncalled", "waiting", "done"}

Alive(c) == conn[c] \in {"connecting", "open"}

Init ==
  /\ now = 0 /\ server = "starting"
  /\ conn = [c \in Conns |-> "none"]
  /\ activeSockets = {}
  /\ failCount = 0 /\ firstFailAt = 0 /\ fails = <<>> /\ tripped = FALSE
  /\ stop = "uncalled"

\* server.listen: its callback resolves the promise, an error rejects it.
Listen ==
  /\ server = "starting"
  /\ server' \in {"listening", "rejected"}
  /\ UNCHANGED <<now, conn, activeSockets, breakerVars, stop>>

\* The createServer callback: both sockets are tracked from the start.
ClientConnects(c) ==
  /\ server = "listening" /\ conn[c] = "none"
  /\ conn' = [conn EXCEPT ![c] = "connecting"]
  /\ activeSockets' = activeSockets \cup {c}
  /\ UNCHANGED <<now, server, breakerVars, stop>>

\* Mutated: the breaker is not reset.
SecureConnectNoReset(c) ==
  /\ conn[c] = "connecting"
  /\ conn' = [conn EXCEPT ![c] = "open"]
  /\ fails' = <<>>
  /\ UNCHANGED <<now, server, activeSockets, failCount, firstFailAt, tripped, stop>>

\* remoteSocket.on("secureConnect"): data flows, the breaker is reset.
SecureConnect(c) ==
  /\ conn[c] = "connecting"
  /\ conn' = [conn EXCEPT ![c] = "open"]
  /\ failCount' = 0 /\ firstFailAt' = 0 /\ fails' = <<>>
  /\ UNCHANGED <<now, server, activeSockets, tripped, stop>>

\* teardown(): both sockets are destroyed and forgotten.
Teardown(c) == conn' = [conn EXCEPT ![c] = "dying"]

\* Mutated: the sockets stay in activeSockets.
EitherEndsTracked(c) ==
  /\ Alive(c)
  /\ Teardown(c)
  /\ UNCHANGED <<now, server, activeSockets, breakerVars, stop>>

\* An "end" or "close" of either socket, or an error of the client's.
EitherEnds(c) ==
  /\ Alive(c)
  /\ Teardown(c)
  /\ activeSockets' = activeSockets \ {c}
  /\ UNCHANGED <<now, server, breakerVars, stop>>

\* remoteSocket.on("error"), before or after the connection was made: it is
\* counted and torn down, and the last of a burst closes the server.
RemoteError(c) ==
  LET first == IF failCount = 0 THEN now ELSE firstFailAt
      burst == failCount + 1 >= MAX_BURST /\ now - first <= BURST_WINDOW
  IN  /\ Alive(c) /\ failCount < MaxFails
      /\ failCount' = failCount + 1
      /\ firstFailAt' = first
      /\ fails' = Append(fails, now)
      /\ Teardown(c)
      /\ IF burst
         THEN /\ server' = "closing"
              /\ activeSockets' = {}
              /\ tripped' = TRUE
         ELSE /\ activeSockets' = activeSockets \ {c}
              /\ UNCHANGED <<server, tripped>>
      /\ UNCHANGED <<now, stop>>

\* The "close" events of sockets destroyed before; teardown() does nothing more.
SocketsClosed(c) ==
  /\ conn[c] = "dying"
  /\ conn' = [conn EXCEPT ![c] = "none"]
  /\ UNCHANGED <<now, server, activeSockets, breakerVars, stop>>

\* Mutated: the server is closed and the connections are left alone.
StopServer ==
  /\ server \in {"listening", "closing"} /\ stop = "uncalled"
  /\ server' = "closing"
  /\ stop' = "waiting"
  /\ UNCHANGED <<now, conn, activeSockets, breakerVars>>

\* stop(), which the adapter calls once: it destroys the sockets it knows.
Stop ==
  /\ server \in {"listening", "closing"} /\ stop = "uncalled"
  /\ conn' = [c \in Conns |-> IF c \in activeSockets THEN "dying" ELSE conn[c]]
  /\ activeSockets' = {}
  /\ server' = "closing"
  /\ stop' = "waiting"
  /\ UNCHANGED <<now, breakerVars>>

\* server.close calls back once no connection is left.
StopReturns ==
  /\ stop = "waiting"
  /\ \A c \in Conns : conn[c] = "none"
  /\ stop' = "done"
  /\ UNCHANGED <<now, server, conn, activeSockets, breakerVars>>

Tick ==
  /\ now < MaxTime
  /\ now' = now + 1
  /\ UNCHANGED <<server, conn, activeSockets, breakerVars, stop>>

Connection(c) ==
  ClientConnects(c) \/ SecureConnect(c) \/ EitherEnds(c) \/ RemoteError(c)
    \/ SocketsClosed(c)

Next == Listen \/ (\E c \in Conns : Connection(c)) \/ Stop \/ StopReturns \/ Tick

Spec == Init /\ [][Next]_vars

\* Node delivers the close events of destroyed sockets and of a drained server.
Fairness == WF_vars(StopReturns) /\ \A c \in Conns : WF_vars(SocketsClosed(c))

FairSpec == Spec /\ Fairness

(***************************************************************************)
(* Properties.                                                             *)
(***************************************************************************)
\* Types, and the counters of the breaker count what they say.
TypeOK ==
  /\ now \in 0 .. MaxTime
  /\ server \in ServerStates /\ stop \in StopStates
  /\ conn \in [Conns -> ConnStates]
  /\ activeSockets \subseteq Conns
  /\ failCount \in 0 .. MaxFails /\ firstFailAt \in 0 .. now
  /\ fails \in Seq(0 .. now) /\ Len(fails) = failCount /\ tripped \in BOOLEAN

\* stop() can reach what it must destroy, and nothing else is kept: as long as
\* the breaker has not cleared it, activeSockets holds the connections that are
\* alive, however they came up, failed and ended (lines 117-158, 269-275).
TracksTheAlive ==
  /\ \A c \in activeSockets : Alive(c)
  /\ \A c \in Conns : Alive(c) => c \in activeSockets \/ tripped

\* The breaker closes the server only on MAX_BURST failures, with no success
\* in between, that all fell into one window (the header, lines 13-15).
LastBurst == {i \in DOMAIN fails' : i + MAX_BURST > Len(fails')}
OnlyBurstsTrip ==
  [][~tripped /\ tripped' =>
       /\ Cardinality(LastBurst) = MAX_BURST
       /\ \A i \in LastBurst : now - fails'[i] <= BURST_WINDOW]_vars

\* stop() returns, whatever clients and camera do with their sockets, unless
\* the breaker has made it forget connections that are still open: upsertSession
\* and _teardownStream await it.
StopEnds == (stop = "waiting" /\ ~tripped) ~> (stop = "done")
================================================================================
