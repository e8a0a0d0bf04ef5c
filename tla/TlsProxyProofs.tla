---------------------------- MODULE TlsProxyProofs ----------------------------
(***************************************************************************)
(* Theorems about TlsProxy, for every set of connections, every burst      *)
(* threshold and window, and every bound on time and failures.             *)
(***************************************************************************)
EXTENDS TlsProxy, FiniteSetTheorems, TLAPS

-------------------------------------------------------------------------------
(* Types *)

LEMMA TypeInit == Init => TypeOK
<1> SUFFICES ASSUME Init PROVE TypeOK
  OBVIOUS
<1>1. /\ now \in 0 .. MaxTime /\ failCount \in 0 .. MaxFails
      /\ firstFailAt \in 0 .. now
  BY BurstAssumption DEF Init
<1>2. fails \in Seq(0 .. now) /\ Len(fails) = failCount
  BY DEF Init
<1>3. /\ server \in ServerStates /\ stop \in StopStates /\ tripped \in BOOLEAN
      /\ conn \in [Conns -> ConnStates] /\ activeSockets \subseteq Conns
  BY DEF Init, ServerStates, StopStates, ConnStates
<1> QED
  BY <1>1, <1>2, <1>3 DEF TypeOK

\* A history of the past is one of a later present.
LEMMA PastStaysPast ==
  ASSUME NEW n \in Nat, NEW s \in Seq(0 .. n)
  PROVE  s \in Seq(0 .. n + 1)
<1>1. \A i \in 1 .. Len(s) : s[i] \in 0 .. n + 1
  OBVIOUS
<1> QED
  BY <1>1

LEMMA RemoteErrorTyped ==
  ASSUME TypeOK, NEW c \in Conns, RemoteError(c)
  PROVE  TypeOK'
<1>1. /\ failCount' \in 0 .. MaxFails
      /\ firstFailAt' \in 0 .. now' /\ now' \in 0 .. MaxTime
  BY BurstAssumption DEF TypeOK, RemoteError
<1>2. fails' \in Seq(0 .. now') /\ Len(fails') = failCount'
  BY BurstAssumption DEF TypeOK, RemoteError
<1>3. conn' \in [Conns -> ConnStates] /\ activeSockets' \subseteq Conns
  BY DEF TypeOK, RemoteError, Teardown, ConnStates
<1>4. server' \in ServerStates /\ tripped' \in BOOLEAN /\ stop' \in StopStates
  BY DEF TypeOK, RemoteError, ServerStates
<1> QED
  BY <1>1, <1>2, <1>3, <1>4 DEF TypeOK

LEMMA TypeStep == TypeOK /\ [Next]_vars => TypeOK'
<1> SUFFICES ASSUME TypeOK, [Next]_vars PROVE TypeOK'
  OBVIOUS
<1>1. CASE Listen
  BY <1>1 DEF TypeOK, Listen, ServerStates, breakerVars
<1>2. ASSUME NEW c \in Conns, ClientConnects(c) \/ EitherEnds(c) \/ SocketsClosed(c)
      PROVE  TypeOK'
  BY <1>2 DEF TypeOK, ClientConnects, EitherEnds, SocketsClosed, Teardown, ConnStates,
              breakerVars
<1>3. ASSUME NEW c \in Conns, SecureConnect(c) PROVE TypeOK'
  BY <1>3, BurstAssumption DEF TypeOK, SecureConnect, ConnStates
<1>4. ASSUME NEW c \in Conns, RemoteError(c) PROVE TypeOK'
  BY <1>4, RemoteErrorTyped
<1>5. CASE Stop
  BY <1>5 DEF TypeOK, Stop, ServerStates, ConnStates, StopStates, breakerVars
<1>6. CASE StopReturns
  BY <1>6 DEF TypeOK, StopReturns, StopStates, breakerVars
<1>7. CASE Tick
  <2>1. now' \in 0 .. MaxTime /\ firstFailAt' \in 0 .. now'
    BY <1>7, BurstAssumption DEF TypeOK, Tick, breakerVars
  <2>2. fails' \in Seq(0 .. now')
    BY <1>7, PastStaysPast, BurstAssumption DEF TypeOK, Tick, breakerVars
  <2> QED
    BY <1>7, <2>1, <2>2 DEF TypeOK, Tick, breakerVars
<1>8. CASE UNCHANGED vars
  BY <1>8 DEF TypeOK, vars, breakerVars
<1> QED
  BY <1>1, <1>2, <1>3, <1>4, <1>5, <1>6, <1>7, <1>8 DEF Next, Connection

\* Every reachable state is well typed; the failures counted are those that came.
THEOREM TypeCorrect == Spec => []TypeOK
  BY TypeInit, TypeStep, PTL DEF Spec

-------------------------------------------------------------------------------
(* The sockets *)

LEMMA TracksStep == TypeOK /\ TracksTheAlive /\ [Next]_vars => TracksTheAlive'
<1> SUFFICES ASSUME TypeOK, TracksTheAlive, [Next]_vars PROVE TracksTheAlive'
  OBVIOUS
<1>1. CASE UNCHANGED <<conn, activeSockets, tripped>>
  BY <1>1 DEF TracksTheAlive, Alive
<1>2. ASSUME NEW c \in Conns, ClientConnects(c) PROVE TracksTheAlive'
  BY <1>2 DEF TypeOK, TracksTheAlive, Alive, ClientConnects, breakerVars
<1>3. ASSUME NEW c \in Conns, SecureConnect(c) PROVE TracksTheAlive'
  BY <1>3 DEF TypeOK, TracksTheAlive, Alive, SecureConnect
<1>4. ASSUME NEW c \in Conns, EitherEnds(c) PROVE TracksTheAlive'
  BY <1>4 DEF TypeOK, TracksTheAlive, Alive, EitherEnds, Teardown, breakerVars
<1>5. ASSUME NEW c \in Conns, RemoteError(c) PROVE TracksTheAlive'
  <2>1. CASE tripped' = TRUE /\ activeSockets' = {}
    BY <2>1 DEF TracksTheAlive
  <2>2. CASE tripped' = tripped /\ activeSockets' = activeSockets \ {c}
    BY <1>5, <2>2 DEF TypeOK, TracksTheAlive, Alive, RemoteError, Teardown
  <2> QED
    BY <1>5, <2>1, <2>2 DEF RemoteError
<1>6. ASSUME NEW c \in Conns, SocketsClosed(c) PROVE TracksTheAlive'
  BY <1>6 DEF TypeOK, TracksTheAlive, Alive, SocketsClosed, breakerVars
<1>7. CASE Stop
  BY <1>7 DEF TypeOK, TracksTheAlive, Alive, Stop, breakerVars
<1>8. CASE Listen \/ StopReturns \/ Tick \/ UNCHANGED vars
  BY <1>1, <1>8 DEF Listen, StopReturns, Tick, vars, breakerVars
<1> QED
  BY <1>2, <1>3, <1>4, <1>5, <1>6, <1>7, <1>8 DEF Next, Connection

\* However connections come up, fail and end, stop() knows the ones to destroy,
\* unless the breaker has forgotten them.
THEOREM TracksAlive == Spec => []TracksTheAlive
<1>1. Init => TracksTheAlive
  BY DEF Init, TracksTheAlive, Alive
<1> QED
  BY <1>1, TypeCorrect, TracksStep, PTL DEF Spec

-------------------------------------------------------------------------------
(* The breaker *)

\* The window the breaker looks at begins no later than any failure counted.
SinceFirst == failCount > 0 => \A i \in 1 .. Len(fails) : fails[i] >= firstFailAt

\* What a failure that is counted does to the history.
LEMMA FailureCounted ==
  ASSUME TypeOK, SinceFirst, NEW c \in Conns, RemoteError(c)
  PROVE  /\ Len(fails') = failCount + 1
         /\ \A i \in 1 .. Len(fails') : fails'[i] \in Nat /\ fails'[i] >= firstFailAt'
<1> DEFINE first == IF failCount = 0 THEN now ELSE firstFailAt
<1>1. /\ fails' = Append(fails, now) /\ firstFailAt' = first
      /\ fails \in Seq(0 .. now) /\ Len(fails) = failCount
      /\ now \in Nat /\ firstFailAt \in 0 .. now /\ failCount \in Nat
  BY BurstAssumption DEF TypeOK, RemoteError
<1>2. Len(fails') = failCount + 1
  BY <1>1
<1>3. ASSUME NEW i \in 1 .. Len(fails')
      PROVE  fails'[i] \in Nat /\ fails'[i] >= first
  <2>1. CASE i = failCount + 1
    <3>1. fails'[i] = now
      BY <1>1, <2>1
    <3> QED
      BY <1>1, <3>1
  <2>2. CASE i \in 1 .. failCount
    <3>1. fails'[i] = fails[i] /\ fails[i] \in 0 .. now
      BY <1>1, <2>2
    <3>2. failCount > 0 /\ fails[i] >= firstFailAt
      BY <1>1, <2>2 DEF SinceFirst
    <3> QED
      BY <1>1, <3>1, <3>2
  <2> QED
    BY <1>1, <1>2, <2>1, <2>2
<1> QED
  BY <1>1, <1>2, <1>3

LEMMA SinceFirstStep == TypeOK /\ SinceFirst /\ [Next]_vars => SinceFirst'
<1> SUFFICES ASSUME TypeOK, SinceFirst, [Next]_vars PROVE SinceFirst'
  OBVIOUS
<1>1. CASE UNCHANGED <<failCount, firstFailAt, fails>>
  BY <1>1 DEF SinceFirst
<1>2. ASSUME NEW c \in Conns, SecureConnect(c) PROVE SinceFirst'
  BY <1>2 DEF SinceFirst, SecureConnect
<1>3. ASSUME NEW c \in Conns, RemoteError(c) PROVE SinceFirst'
  BY <1>3, FailureCounted DEF SinceFirst
<1>4. ASSUME NEW c \in Conns, ClientConnects(c) \/ EitherEnds(c) \/ SocketsClosed(c)
      PROVE  SinceFirst'
  BY <1>1, <1>4 DEF ClientConnects, EitherEnds, SocketsClosed, breakerVars
<1>5. CASE Listen \/ Stop \/ StopReturns \/ Tick \/ UNCHANGED vars
  BY <1>1, <1>5 DEF Listen, Stop, StopReturns, Tick, vars, breakerVars
<1> QED
  BY <1>2, <1>3, <1>4, <1>5 DEF Next, Connection

LEMMA LaterIsCloser ==
  ASSUME NEW n \in Nat, NEW w \in Nat, NEW x \in Nat, NEW y \in Nat,
         y >= x, n - x <= w
  PROVE  n - y <= w
  OBVIOUS

\* Only a failure trips the breaker, and then the last MAX_BURST failures are
\* not older than the window.
LEMMA BurstStep ==
  ASSUME TypeOK, SinceFirst, [Next]_vars, ~tripped, tripped'
  PROVE  /\ Cardinality(LastBurst) = MAX_BURST
         /\ \A i \in LastBurst : now - fails'[i] <= BURST_WINDOW
<1>1. PICK c \in Conns : RemoteError(c)
  BY DEF Next, Connection, Listen, ClientConnects, SecureConnect, EitherEnds,
         SocketsClosed, Stop, StopReturns, Tick, vars, breakerVars
<1>2. /\ failCount + 1 >= MAX_BURST /\ now - firstFailAt' <= BURST_WINDOW
      /\ now \in Nat /\ firstFailAt' \in Nat /\ failCount \in Nat
      /\ MAX_BURST \in Nat \ {0} /\ BURST_WINDOW \in Nat
  <2> DEFINE first == IF failCount = 0 THEN now ELSE firstFailAt
  <2>1. firstFailAt' = first
    BY <1>1 DEF RemoteError
  <2>2. failCount + 1 >= MAX_BURST /\ now - first <= BURST_WINDOW
    <3>1. ~(failCount + 1 >= MAX_BURST /\ now - first <= BURST_WINDOW)
            => tripped' = tripped
      BY <1>1 DEF RemoteError
    <3> QED
      BY <3>1
  <2>3. /\ now \in Nat /\ first \in Nat /\ failCount \in Nat
        /\ MAX_BURST \in Nat \ {0} /\ BURST_WINDOW \in Nat
    BY BurstAssumption DEF TypeOK
  <2> QED
    BY <2>1, <2>2, <2>3
<1>3. /\ Len(fails') = failCount + 1
      /\ \A i \in 1 .. Len(fails') : fails'[i] \in Nat /\ fails'[i] >= firstFailAt'
  BY <1>1, FailureCounted
<1>4. fails' \in Seq(Nat)
  BY <1>1, BurstAssumption DEF RemoteError, TypeOK
<1>5. LastBurst = failCount + 2 - MAX_BURST .. failCount + 1
  BY <1>2, <1>3, <1>4 DEF LastBurst
<1>6. Cardinality(LastBurst) = MAX_BURST
  <2>1. /\ failCount + 2 - MAX_BURST \in Int /\ failCount + 1 \in Int
        /\ failCount + 2 - MAX_BURST <= failCount + 1
        /\ (failCount + 1) - (failCount + 2 - MAX_BURST) + 1 = MAX_BURST
    BY <1>2
  <2> QED
    BY <1>5, <2>1, FS_Interval
<1>7. ASSUME NEW i \in LastBurst PROVE now - fails'[i] <= BURST_WINDOW
  <2>1. i \in 1 .. Len(fails')
    BY <1>4 DEF LastBurst
  <2>2. fails'[i] \in Nat /\ fails'[i] >= firstFailAt'
    BY <1>3, <2>1
  <2> QED
    BY <1>2, <2>2, LaterIsCloser
<1> QED
  BY <1>6, <1>7

\* The breaker closes the server only on MAX_BURST failures without a success
\* in between that fell into one window.
THEOREM OnlyBurstsCloseTheServer == Spec => OnlyBurstsTrip
<1>1. Init => SinceFirst
  BY DEF Init, SinceFirst
<1>2. TypeOK /\ SinceFirst /\ [Next]_vars =>
        [~tripped /\ tripped' =>
           /\ Cardinality(LastBurst) = MAX_BURST
           /\ \A i \in LastBurst : now - fails'[i] <= BURST_WINDOW]_vars
  BY BurstStep
<1> QED
  BY <1>1, <1>2, TypeCorrect, SinceFirstStep, PTL DEF Spec, OnlyBurstsTrip
===============================================================================
