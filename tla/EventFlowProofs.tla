---------------------------- MODULE EventFlowProofs ----------------------------
(***************************************************************************)
(* Theorems about EventFlow, for every number of handlers, events and      *)
(* failing requests.                                                       *)
(***************************************************************************)
EXTENDS EventFlow, TLAPS

--------------------------------------------------------------------------------
(* Types *)

LEMMA IdleTyped == Idle \in HandlerRec
  BY BoundsAssumption DEF Idle, HandlerRec

LEMMA GotoTyped ==
  ASSUME TypeOK, NEW h \in Handlers,
         NEW pc \in {"idle", "asked", "answered", "dated", "typed", "active"},
         Goto(h, pc)
  PROVE  handler' \in [Handlers -> HandlerRec]
  BY DEF TypeOK, Goto, HandlerRec

LEMMA EndsTyped ==
  ASSUME TypeOK, NEW h \in Handlers, Ends(h)
  PROVE  handler' \in [Handlers -> HandlerRec]
  BY IdleTyped DEF TypeOK, Ends

LEMMA TypeInit == Init => TypeOK
<1> SUFFICES ASSUME Init PROVE TypeOK
  OBVIOUS
<1>1. /\ newest \in 0..MaxEvents /\ lastSeen \in 0..MaxEvents
      /\ faults \in 0..MaxFaults
  BY BoundsAssumption DEF Init
<1>2. /\ starting \in Registering /\ fcmActive \in Statuses
      /\ pushes \subseteq Events \X Kinds
  BY DEF Init, Registering
<1>3. handler \in [Handlers -> HandlerRec] /\ reported \in [Events -> 0..2]
  BY IdleTyped DEF Init
<1>4. /\ socket \in BOOLEAN /\ stale \in BOOLEAN /\ eventPollTimer \in BOOLEAN
      /\ motionActive \in BOOLEAN /\ motionTimer \in BOOLEAN /\ leftOver \in BOOLEAN
      /\ outrun \in BOOLEAN
  BY DEF Init
<1> QED
  BY <1>1, <1>2, <1>3, <1>4 DEF TypeOK

\* The steps of the listener change nothing of the handlers.
LEMMA ListenerTyped ==
  ASSUME TypeOK, ListenerStep
  PROVE  TypeOK'
<1>1. CASE Registered
  BY <1>1 DEF TypeOK, Registered, Registering, seenVars, motionVars
<1>2. CASE RegisteredWithCbs
  BY <1>2 DEF TypeOK, RegisteredWithCbs, Registering, Statuses, seenVars, motionVars
<1>3. CASE Connected
  BY <1>3 DEF TypeOK, Connected, Statuses, seenVars, motionVars
<1>4. CASE ModeFails
  <2>2. starting' \in Registering \cup {Falling}
    BY <1>4 DEF ModeFails, Registering
  <2>3. fcmActive' \in Statuses
    BY <1>4 DEF TypeOK, ModeFails, Statuses
  <2>4. stale' \in BOOLEAN
    BY <1>4 DEF ModeFails
  <2> QED
    BY <1>4, <2>2, <2>3, <2>4 DEF TypeOK, ModeFails, seenVars, motionVars
<1>5. CASE SocketCloses
  BY <1>5 DEF TypeOK, SocketCloses, Statuses, seenVars, motionVars
<1>6. CASE FallBack
  BY <1>6 DEF TypeOK, FallBack, seenVars, motionVars
<1> QED
  BY <1>1, <1>2, <1>3, <1>4, <1>5, <1>6 DEF ListenerStep

LEMMA EventTyped ==
  ASSUME TypeOK, EventHappens
  PROVE  TypeOK'
<1>1. newest' \in Events
  BY BoundsAssumption DEF TypeOK, EventHappens, Events
<1>2. pushes' \subseteq Events \X Kinds
  BY <1>1 DEF TypeOK, EventHappens, Kinds
<1> QED
  BY <1>1, <1>2 DEF TypeOK, EventHappens, Events, listenerVars, seenVars, motionVars

\* A handler begins, or waits for Bosch.
LEMMA BeginsTyped ==
  ASSUME TypeOK, Push \/ PollTick \/ SyntheticMotion
  PROVE  TypeOK'
<1>1. handler' \in [Handlers -> HandlerRec]
  BY GotoTyped DEF Push, PollTick, SyntheticMotion, Free
<1> QED
  BY <1>1 DEF TypeOK, Push, PollTick, SyntheticMotion, listenerVars, seenVars, motionVars

LEMMA SeeTyped ==
  ASSUME TypeOK, NEW h \in Handlers, See(h)
  PROVE  TypeOK'
<1> DEFINE ev == handler[h].ev
<1>1. ev \in 0..MaxEvents
  BY DEF TypeOK, HandlerRec
<1>2. handler' \in [Handlers -> HandlerRec]
  BY GotoTyped, EndsTyped DEF See
<1>3. CASE UNCHANGED seenVars
  BY <1>2, <1>3 DEF TypeOK, See, listenerVars, seenVars, motionVars
<1>4. CASE ~Known(ev)
  <2>1. lastSeen' = ev /\ outrun' \in BOOLEAN
    BY <1>4 DEF See, TypeOK
  <2>2. reported' \in [Events -> 0..2]
    BY <1>4 DEF See, TypeOK
  <2> QED
    BY <1>1, <1>2, <2>1, <2>2 DEF TypeOK, See, listenerVars, motionVars
<1> QED
  BY <1>3, <1>4 DEF See

LEMMA HandlerTyped ==
  ASSUME TypeOK, NEW h \in Handlers, HandlerStep(h) \/ FetchFails(h)
  PROVE  TypeOK'
<1>1. CASE Served(h)
  <2>1. [pc |-> "answered", ev |-> newest] \in HandlerRec
    BY DEF TypeOK, HandlerRec
  <2> QED
    BY <1>1, <2>1 DEF TypeOK, Served, listenerVars, seenVars, motionVars
<1>2. CASE See(h)
  BY <1>2, SeeTyped
<1>3. CASE WriteType(h)
  BY <1>3, GotoTyped DEF TypeOK, WriteType, listenerVars, seenVars, motionVars
<1>4. CASE WriteActive(h)
  BY <1>4, GotoTyped DEF TypeOK, WriteActive, listenerVars, seenVars
<1>5. CASE Arm(h)
  BY <1>5, EndsTyped DEF TypeOK, Arm, listenerVars, seenVars
<1>6. CASE FetchFails(h)
  BY <1>6, EndsTyped, BoundsAssumption
     DEF TypeOK, FetchFails, listenerVars, seenVars, motionVars
<1> QED
  BY <1>1, <1>2, <1>3, <1>4, <1>5, <1>6 DEF HandlerStep

LEMMA TypeStep == TypeOK /\ [Next]_vars => TypeOK'
<1> SUFFICES ASSUME TypeOK, [Next]_vars PROVE TypeOK'
  OBVIOUS
<1>1. CASE MotionTimerFires
  BY <1>1 DEF TypeOK, MotionTimerFires, listenerVars, seenVars
<1>2. CASE UNCHANGED vars
  BY <1>2 DEF TypeOK, vars, listenerVars, seenVars, motionVars
<1> QED
  BY <1>1, <1>2, ListenerTyped, EventTyped, BeginsTyped, HandlerTyped DEF Next

\* Every reachable state is well typed.
THEOREM TypeCorrect == Spec => []TypeOK
  BY TypeInit, TypeStep, PTL DEF Spec

--------------------------------------------------------------------------------
(* The status *)

\* Between the status "polling" and the timer nobody says that pushes arrive.
StatusInv == StatusIsTrue /\ (starting = Falling => fcmActive # "healthy")

LEMMA StatusStep == TypeOK /\ StatusInv /\ [Next]_vars => StatusInv'
<1> SUFFICES ASSUME TypeOK, StatusInv, [Next]_vars PROVE StatusInv'
  OBVIOUS
<1> USE DEF StatusInv
<1>1. Over \notin Registering /\ Falling \notin Registering /\ Falling # Over
  BY DEF Over, Falling, Registering
<1>2. CASE Registered \/ RegisteredWithCbs
  BY <1>1, <1>2 DEF StatusIsTrue, Registered, RegisteredWithCbs, Over, Falling
<1>3. CASE Connected
  BY <1>1, <1>3 DEF StatusIsTrue, Connected
<1>4. CASE ModeFails
  BY <1>4 DEF StatusIsTrue, ModeFails, Falling, Over
<1>9. CASE FallBack
  BY <1>1, <1>9 DEF StatusIsTrue, FallBack
<1>5. CASE SocketCloses
  BY <1>5 DEF StatusIsTrue, SocketCloses
<1>6. CASE UNCHANGED listenerVars
  BY <1>6 DEF StatusIsTrue, listenerVars
<1>7. Next /\ ~ListenerStep => UNCHANGED listenerVars
  BY DEF Next, HandlerStep, EventHappens, Push, PollTick, SyntheticMotion, Served,
         See, WriteType, WriteActive, Arm, FetchFails, MotionTimerFires
<1>8. UNCHANGED vars => UNCHANGED listenerVars
  BY DEF vars
<1> QED
  BY <1>2, <1>3, <1>4, <1>5, <1>6, <1>7, <1>8, <1>9 DEF ListenerStep

\* Whatever fails at registration and however late a socket closes, the status
\* says "healthy" only while pushes arrive and "polling" only while it polls.
THEOREM StatusTrue == Spec => []StatusIsTrue
<1>1. Init => StatusInv
  BY DEF Init, StatusInv, StatusIsTrue, Over, Falling
<1>2. StatusInv => StatusIsTrue
  BY DEF StatusInv
<1> QED
  BY <1>1, <1>2, TypeCorrect, StatusStep, PTL DEF Spec

--------------------------------------------------------------------------------
(* The motion timer *)

\* Only Arm takes a handler out of "active", and it arms the timer.
LEMMA ActiveStays ==
  ASSUME TypeOK, [Next]_vars,
         NEW g \in Handlers, handler[g].pc = "active", handler'[g].pc # "active"
  PROVE  motionTimer' = TRUE
<1>1. handler' # handler
  OBVIOUS
<1>2. PICK h \in Handlers : \/ Push \/ PollTick \/ SyntheticMotion
                            \/ HandlerStep(h) \/ FetchFails(h)
  BY <1>1 DEF Next, vars, ListenerStep, Registered, RegisteredWithCbs, Connected,
              ModeFails, FallBack, SocketCloses, EventHappens, MotionTimerFires
<1>3. CASE Push \/ PollTick \/ SyntheticMotion
  BY <1>3 DEF TypeOK, HandlerRec, Push, PollTick, SyntheticMotion, Free, Goto, Idle
<1>4. CASE Served(h) \/ See(h) \/ WriteType(h) \/ WriteActive(h) \/ FetchFails(h)
  BY <1>4 DEF TypeOK, HandlerRec, Served, See, WriteType, WriteActive, FetchFails,
              Fetching, Goto, Ends
<1>5. CASE Arm(h)
  BY <1>5 DEF Arm
<1> QED
  BY <1>2, <1>3, <1>4, <1>5 DEF HandlerStep

LEMMA TimedStep == TypeOK /\ ActiveIsTimed /\ [Next]_vars => ActiveIsTimed'
<1> SUFFICES ASSUME TypeOK, ActiveIsTimed, [Next]_vars PROVE ActiveIsTimed'
  OBVIOUS
<1>1. CASE \E h \in Handlers : WriteActive(h)
  <2>1. PICK h \in Handlers : WriteActive(h)
    BY <1>1
  <2>2. handler'[h].pc = "active"
    BY <2>1 DEF WriteActive, Goto, TypeOK, HandlerRec
  <2> QED
    BY <2>2 DEF ActiveIsTimed
<1>2. CASE MotionTimerFires
  BY <1>2 DEF ActiveIsTimed, MotionTimerFires
<1>3. CASE /\ motionActive' = motionActive /\ leftOver' = leftOver
           /\ motionTimer' = motionTimer \/ motionTimer' = TRUE
  BY <1>3, ActiveStays DEF ActiveIsTimed
<1>4. CASE UNCHANGED motionVars
  BY <1>3, <1>4 DEF motionVars
<1>5. CASE \E h \in Handlers : Arm(h)
  BY <1>3, <1>5 DEF Arm
<1>6. CASE ListenerStep
  BY <1>4, <1>6 DEF ListenerStep, Registered, RegisteredWithCbs, Connected,
                    ModeFails, FallBack, SocketCloses
<1>7. CASE EventHappens \/ Push \/ PollTick \/ SyntheticMotion
  BY <1>4, <1>7 DEF EventHappens, Push, PollTick, SyntheticMotion
<1>8. CASE \E h \in Handlers : Served(h) \/ See(h) \/ WriteType(h) \/ FetchFails(h)
  BY <1>4, <1>8 DEF Served, See, WriteType, FetchFails
<1>9. CASE UNCHANGED vars
  BY <1>4, <1>9 DEF vars, motionVars
<1> QED
  BY <1>1, <1>2, <1>5, <1>6, <1>7, <1>8, <1>9 DEF Next, HandlerStep

\* However many handlers overlap, motion_active that this run has switched on
\* has its timer armed or is about to have it.
THEOREM MotionTimed == Spec => []ActiveIsTimed
<1>1. Init => ActiveIsTimed
  BY DEF Init, ActiveIsTimed
<1> QED
  BY <1>1, TypeCorrect, TimedStep, PTL DEF Spec

--------------------------------------------------------------------------------
(* Reported once *)

\* Until an older event is reported after a newer one, nothing beyond lastSeen
\* has been reported.
SeenInv ==
  \/ outrun
  \/ \A e \in Events : reported[e] <= 1 /\ (reported[e] > 0 => e <= lastSeen)

LEMMA SeenStep == TypeOK /\ SeenInv /\ [Next]_vars => SeenInv'
<1> SUFFICES ASSUME TypeOK, SeenInv, [Next]_vars PROVE SeenInv'
  OBVIOUS
<1>1. CASE UNCHANGED seenVars
  BY <1>1 DEF SeenInv, seenVars
<1>2. CASE \E h \in Handlers : See(h)
  <2>1. PICK h \in Handlers : See(h)
    BY <1>2
  <2> DEFINE ev == handler[h].ev
  <2>2. ev \in 0..MaxEvents /\ lastSeen \in 0..MaxEvents /\ MaxEvents \in Nat
    BY BoundsAssumption DEF TypeOK, HandlerRec
  <2>3. CASE Known(ev)
    BY <1>1, <2>1, <2>3 DEF See
  <2>4. CASE ~Known(ev) /\ (outrun \/ ev < lastSeen)
    BY <2>1, <2>4 DEF See, SeenInv
  <2>5. CASE ~Known(ev) /\ ~outrun /\ ~(ev < lastSeen)
    <3>1. ev \in Events /\ ev > lastSeen /\ lastSeen' = ev
      BY <2>1, <2>2, <2>5 DEF See, Known, Events
    <3>2. \A e \in Events : reported[e] \in 0..2
      BY DEF TypeOK
    <3>3. reported[ev] = 0
      BY <2>2, <2>5, <3>1, <3>2 DEF SeenInv
    <3>4. reported' = [reported EXCEPT ![ev] = 1]
      BY <2>1, <2>5, <3>3 DEF See
    <3>5. ASSUME NEW e \in Events
          PROVE  reported'[e] <= 1 /\ (reported'[e] > 0 => e <= lastSeen')
      <4>1. CASE e = ev
        BY <2>2, <3>1, <3>4, <4>1 DEF TypeOK
      <4>2. CASE e # ev
        <5>1. reported'[e] = reported[e]
          BY <3>4, <4>2 DEF TypeOK
        <5> QED
          BY <2>2, <2>5, <3>1, <5>1 DEF SeenInv, Events
      <4> QED
        BY <4>1, <4>2
    <3> QED
      BY <3>5 DEF SeenInv
  <2> QED
    BY <2>3, <2>4, <2>5
<1>3. CASE ListenerStep
  BY <1>1, <1>3 DEF ListenerStep, Registered, RegisteredWithCbs, Connected,
                    ModeFails, FallBack, SocketCloses
<1>4. CASE EventHappens \/ Push \/ PollTick \/ SyntheticMotion \/ MotionTimerFires
  BY <1>1, <1>4 DEF EventHappens, Push, PollTick, SyntheticMotion, MotionTimerFires
<1>5. CASE \E h \in Handlers :
             Served(h) \/ WriteType(h) \/ WriteActive(h) \/ Arm(h) \/ FetchFails(h)
  BY <1>1, <1>5 DEF Served, WriteType, WriteActive, Arm, FetchFails
<1>6. CASE UNCHANGED vars
  BY <1>1, <1>6 DEF vars
<1> QED
  BY <1>2, <1>3, <1>4, <1>5, <1>6 DEF Next, HandlerStep

\* No event is reported twice by fetches, whatever overlaps, as long as no older
\* event is reported after a newer one.
THEOREM OnceReported == Spec => []ReportedOnce
<1>1. Init => SeenInv
  BY DEF Init, SeenInv
<1>2. SeenInv => ReportedOnce
  BY DEF SeenInv, ReportedOnce
<1> QED
  BY <1>1, <1>2, TypeCorrect, SeenStep, PTL DEF Spec
================================================================================
