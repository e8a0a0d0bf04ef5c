------------------------------ MODULE EventFlow ------------------------------
(***************************************************************************)
(* How an event of one camera gets from Bosch into the data points, from   *)
(* the start of the push listener (onReady, Step 5) on:                    *)
(*                                                                         *)
(*   fcm.ts    registration in iOS, then Android mode; the push socket     *)
(*   main.ts   the polling fallback, fetchAndProcessEvents, onFcmEvent,    *)
(*             triggerSyntheticMotion, motion_active and its timer         *)
(*                                                                         *)
(* A handler under way is an element of Handlers; pc is the await it is    *)
(* suspended at.  Events are numbered in the order in which they happen.   *)
(* The fetch loop treats one camera after the other, so one camera's       *)
(* iteration is modelled.                                                  *)
(***************************************************************************)
EXTENDS Naturals

CONSTANTS
  Handlers,           \* event handlers under way at once
  MaxEvents,          \* bound on the events that happen
  MaxFaults           \* bound on failing event requests

ASSUME BoundsAssumption    == MaxEvents \in Nat /\ MaxFaults \in Nat

VARIABLES
  newest,          \* the newest event at Bosch, 0 for none
  pushes,          \* <<event, kind>> of the pushes on their way
  starting,        \* FcmListener.start(): <<mode, step>>, Falling or Over
  socket,          \* the push socket is connected
  stale,           \* a client that failed to connect may yet close
  fcmActive,       \* info.fcm_active
  eventPollTimer,  \* _eventPollTimer
  handler,         \* the handlers of events
  lastSeen,        \* _lastSeenEventId
  motionActive,    \* motion_active
  motionTimer,     \* _motionActiveTimers
  reported,        \* history: how often a fetch has reported each event
  outrun,          \* history: a fetch has reported an older event
  leftOver,        \* history: motion_active is TRUE since before the start
  faults           \* event requests that have failed

listenerVars  == <<starting, socket, stale, fcmActive, eventPollTimer>>
seenVars      == <<lastSeen, reported, outrun>>
motionVars    == <<motionActive, motionTimer, leftOver>>
vars == <<newest, pushes, listenerVars, handler, seenVars, motionVars, faults>>

Events == 1..MaxEvents
Registering == {"ios", "android"} \X {"fcm", "cbs", "connect"}
Falling == <<"start", "fallback">>   \* await of the status "polling"
Over == <<"start", "over">>

\* "error", which onReady keeps for an "error" event of the listener and for an
\* FcmCbsRegistrationError of start(), is unreachable: the listener emits no such
\* event, and _tryStart catches every error of a mode.
Statuses == {"stub", "stopped", "healthy", "polling", "disconnected"}

\* Every push wakes the adapter up, a typed one carries the event itself.
Kinds == {"wake", "typed"}

\* ev is the event of the answer, once it is served.
HandlerRec ==
  [pc : {"idle", "asked", "answered", "dated", "typed", "active"},
   ev : 0..MaxEvents]
Idle == [pc |-> "idle", ev |-> 0]

Init ==
  /\ newest \in 0..1 /\ newest <= MaxEvents /\ pushes = {}
  /\ starting = <<"ios", "fcm">> /\ socket = FALSE /\ stale = FALSE
  /\ fcmActive \in Statuses /\ eventPollTimer = FALSE
  /\ handler = [h \in Handlers |-> Idle]
  /\ lastSeen = 0 /\ reported = [e \in Events |-> 0] /\ outrun = FALSE
  /\ motionActive \in BOOLEAN /\ motionTimer = FALSE /\ leftOver = motionActive
  /\ faults = 0

-----------------------------------------------------------------------------
(***************************************************************************)
(* FcmListener.start() and the handlers of its events.                     *)
(***************************************************************************)
Registered ==   \* Google knows the device
  /\ starting \in {"ios", "android"} \X {"fcm"}
  /\ starting' = <<starting[1], "cbs">>
  /\ UNCHANGED <<newest, pushes, socket, stale, fcmActive, eventPollTimer,
                 handler, seenVars, motionVars, faults>>

RegisteredWithCbs ==   \* "registered" is emitted before the socket is up
  /\ starting \in {"ios", "android"} \X {"cbs"}
  /\ starting' = <<starting[1], "connect">>
  /\ fcmActive' = "healthy"
  /\ UNCHANGED <<newest, pushes, socket, stale, eventPollTimer, handler,
                 seenVars, motionVars, faults>>

Connected ==
  /\ starting \in {"ios", "android"} \X {"connect"}
  /\ starting' = Over /\ socket' = TRUE /\ fcmActive' = "healthy"
  /\ UNCHANGED <<newest, pushes, stale, eventPollTimer, handler,
                 seenVars, motionVars, faults>>

\* Any step of a mode fails: Android follows iOS, and after Android the status
\* "polling" is written.  A client that did not connect keeps its close handler.
ModeFailsForgotten ==   \* mutated: the error connect() returns is not thrown
  /\ starting \in Registering
  /\ stale' = (stale \/ starting[2] = "connect")
  /\ \/ starting[2] = "connect" /\ starting' = Over /\ fcmActive' = "healthy"
     \/ starting[2] # "connect" /\ starting[1] = "ios"
        /\ starting' = <<"android", "fcm">> /\ UNCHANGED fcmActive
     \/ starting[2] # "connect" /\ starting[1] = "android"
        /\ starting' = Falling /\ fcmActive' = "polling"
  /\ UNCHANGED <<newest, pushes, socket, eventPollTimer, handler, seenVars,
                 motionVars, faults>>
ModeFailsUnsaid ==   \* mutated: a status info.fcm_active does not have
  /\ starting \in Registering
  /\ stale' = (stale \/ starting[2] = "connect")
  /\ \/ starting[1] = "ios" /\ starting' = <<"android", "fcm">>
        /\ UNCHANGED fcmActive
     \/ starting[1] = "android" /\ starting' = Falling
        /\ fcmActive' = "fallback"
  /\ UNCHANGED <<newest, pushes, socket, eventPollTimer, handler, seenVars,
                 motionVars, faults>>
ModeFails ==
  /\ starting \in Registering
  /\ stale' = (stale \/ starting[2] = "connect")
  /\ \/ starting[1] = "ios" /\ starting' = <<"android", "fcm">>
        /\ UNCHANGED fcmActive
     \/ starting[1] = "android" /\ starting' = Falling
        /\ fcmActive' = "polling"
  /\ UNCHANGED <<newest, pushes, socket, eventPollTimer, handler, seenVars,
                 motionVars, faults>>

FallBack ==   \* _startEventPolling, once the status is written
  /\ starting = Falling
  /\ starting' = Over /\ eventPollTimer' = TRUE
  /\ UNCHANGED <<newest, pushes, socket, stale, fcmActive, handler, seenVars,
                 motionVars, faults>>

\* MTalk closes the connection; nothing calls start() again.
SocketCloses ==
  /\ \/ socket /\ socket' = FALSE /\ pushes' = {} /\ UNCHANGED stale
     \/ stale /\ stale' = FALSE /\ UNCHANGED <<socket, pushes>>
  /\ fcmActive' = "disconnected"
  /\ UNCHANGED <<newest, starting, eventPollTimer, handler, seenVars,
                 motionVars, faults>>

EventHappens ==
  /\ newest < MaxEvents
  /\ newest' = newest + 1
  /\ \/ socket /\ \E kinds \in {{"wake"}, Kinds} :
          pushes' = pushes \cup ({newest'} \X kinds)
     \/ ~socket /\ UNCHANGED pushes
  /\ UNCHANGED <<listenerVars, handler, seenVars, motionVars, faults>>

-----------------------------------------------------------------------------
(***************************************************************************)
(* fetchAndProcessEvents, onFcmEvent and triggerSyntheticMotion, and the   *)
(* effects they share.                                                     *)
(***************************************************************************)
Goto(h, pc) == handler' = [handler EXCEPT ![h].pc = pc]
Ends(h)     == handler' = [handler EXCEPT ![h] = Idle]
Free        == {h \in Handlers : handler[h] = Idle}
Fetching    == {h \in Handlers : handler[h].pc \in {"asked", "answered"}}

\* _onPush emits "push" and, if the push is typed, its event; onFcmEvent
\* begins with the write of last_motion_at.
PushCoalesced ==   \* mutated: no second fetch while one is under way
  \E p \in pushes, h \in Free :
    /\ pushes' = pushes \ {p}
    /\ \/ p[2] = "typed" /\ Goto(h, "dated")
       \/ p[2] = "wake" /\ Fetching # {} /\ UNCHANGED handler
       \/ p[2] = "wake" /\ Fetching = {} /\ Goto(h, "asked")
    /\ UNCHANGED <<newest, listenerVars, seenVars, motionVars, faults>>
Push ==
  \E p \in pushes, h \in Free :
    /\ pushes' = pushes \ {p}
    /\ Goto(h, IF p[2] = "wake" THEN "asked" ELSE "dated")
    /\ UNCHANGED <<newest, listenerVars, seenVars, motionVars, faults>>

PollTick ==
  /\ eventPollTimer
  /\ \E h \in Free : Goto(h, "asked")
  /\ UNCHANGED <<newest, pushes, listenerVars, seenVars, motionVars, faults>>

SyntheticMotion ==
  /\ \E h \in Free : Goto(h, "dated")
  /\ UNCHANGED <<newest, pushes, listenerVars, seenVars, motionVars, faults>>

Served(h) ==   \* Bosch
  /\ handler[h].pc = "asked"
  /\ handler' = [handler EXCEPT ![h] = [pc |-> "answered", ev |-> newest]]
  /\ UNCHANGED <<newest, pushes, listenerVars, seenVars, motionVars, faults>>

FetchFails(h) ==
  /\ h \in Fetching /\ faults < MaxFaults
  /\ Ends(h) /\ faults' = faults + 1
  /\ UNCHANGED <<newest, pushes, listenerVars, seenVars, motionVars>>

Known(ev) == ev = 0 \/ ev = lastSeen

\* reported counts once and more often.  The comparison, the note that the event
\* was seen and the write of last_motion_at are one step.
SeeForgotten(h) ==   \* mutated: the event is not noted as seen
  /\ handler[h].pc = "answered"
  /\ LET ev == handler[h].ev IN
     \/ /\ Known(ev) /\ Ends(h)
        /\ UNCHANGED seenVars
     \/ /\ ~Known(ev)
        /\ Goto(h, "dated")
        /\ reported' = [reported EXCEPT ![ev] = IF @ = 0 THEN 1 ELSE 2]
        /\ outrun' = (outrun \/ ev < lastSeen)
        /\ UNCHANGED lastSeen
  /\ UNCHANGED <<newest, pushes, listenerVars, motionVars, faults>>
SeeOnlyFirst(h) ==   \* mutated: one event is reported, then no other
  /\ handler[h].pc = "answered"
  /\ LET ev == handler[h].ev IN
     \/ /\ (Known(ev) \/ lastSeen # 0) /\ Ends(h)
        /\ UNCHANGED seenVars
     \/ /\ ~Known(ev) /\ lastSeen = 0
        /\ Goto(h, "dated") /\ lastSeen' = ev
        /\ reported' = [reported EXCEPT ![ev] = IF @ = 0 THEN 1 ELSE 2]
        /\ UNCHANGED outrun
  /\ UNCHANGED <<newest, pushes, listenerVars, motionVars, faults>>
See(h) ==
  /\ handler[h].pc = "answered"
  /\ LET ev == handler[h].ev IN
     \/ /\ Known(ev) /\ Ends(h)
        /\ UNCHANGED seenVars
     \/ /\ ~Known(ev)
        /\ Goto(h, "dated") /\ lastSeen' = ev
        /\ reported' = [reported EXCEPT ![ev] = IF @ = 0 THEN 1 ELSE 2]
        /\ outrun' = (outrun \/ ev < lastSeen)
  /\ UNCHANGED <<newest, pushes, listenerVars, motionVars, faults>>

WriteType(h) ==   \* last_motion_event_type
  /\ handler[h].pc = "dated" /\ Goto(h, "typed")
  /\ UNCHANGED <<newest, pushes, listenerVars, seenVars, motionVars, faults>>

WriteActive(h) ==
  /\ handler[h].pc = "typed" /\ Goto(h, "active")
  /\ motionActive' = TRUE /\ leftOver' = FALSE
  /\ UNCHANGED <<newest, pushes, listenerVars, seenVars, motionTimer, faults>>

\* The timer is replaced; the snapshot that follows is StreamSession's.
ArmToggles(h) ==   \* mutated: the old timer is cleared, and that is all
  /\ handler[h].pc = "active" /\ Ends(h)
  /\ motionTimer' = ~motionTimer
  /\ UNCHANGED <<newest, pushes, listenerVars, seenVars, motionActive, leftOver,
                 faults>>
Arm(h) ==
  /\ handler[h].pc = "active" /\ Ends(h)
  /\ motionTimer' = TRUE
  /\ UNCHANGED <<newest, pushes, listenerVars, seenVars, motionActive, leftOver,
                 faults>>

MotionTimerFires ==
  /\ motionTimer /\ motionTimer' = FALSE
  /\ motionActive' = FALSE /\ leftOver' = FALSE
  /\ UNCHANGED <<newest, pushes, listenerVars, handler, seenVars, faults>>

-----------------------------------------------------------------------------
ListenerStep ==
  \/ Registered \/ RegisteredWithCbs \/ Connected \/ ModeFails \/ FallBack
  \/ SocketCloses
HandlerStep(h) ==
  Served(h) \/ See(h) \/ WriteType(h) \/ WriteActive(h) \/ Arm(h)

Next ==
  \/ ListenerStep \/ EventHappens \/ Push \/ PollTick \/ SyntheticMotion
  \/ \E h \in Handlers : HandlerStep(h) \/ FetchFails(h)
  \/ MotionTimerFires

Spec == Init /\ [][Next]_vars

\* Handlers resume, and pushes and ticks, which find no handler free in the
\* model only, are not put off for ever.  Bosch may stay silent.
Fairness ==
  /\ \A h \in Handlers : WF_vars(HandlerStep(h))
  /\ SF_vars(Push) /\ SF_vars(PollTick)
FairSpec == Spec /\ Fairness

-----------------------------------------------------------------------------
(***************************************************************************)
(* Properties.                                                             *)
(***************************************************************************)
\* Every variable has its type.
TypeOK ==
  /\ newest \in 0..MaxEvents /\ pushes \subseteq Events \X Kinds
  /\ starting \in Registering \cup {Falling, Over}
  /\ socket \in BOOLEAN /\ stale \in BOOLEAN /\ eventPollTimer \in BOOLEAN
  /\ fcmActive \in Statuses
  /\ handler \in [Handlers -> HandlerRec]
  /\ lastSeen \in 0..MaxEvents /\ reported \in [Events -> 0..2]
  /\ {motionActive, motionTimer, leftOver, outrun} \subseteq BOOLEAN
  /\ faults \in 0..MaxFaults

\* However the answers to overlapping fetches interleave, an event is
\* reported by them at most once, unless the answer with an older event
\* was handled after that with a newer one (main.ts 2629-2633).
ReportedOnce == outrun \/ \A e \in Events : reported[e] <= 1

\* motion_active never stays on unattended: its timer is armed, or a handler
\* is about to arm it, whatever overlaps with whatever (main.ts 2246-2267).
\* What a previous run of the adapter left on is excepted.
ActiveIsTimed ==
  motionActive =>
    motionTimer \/ leftOver \/ \E h \in Handlers : handler[h].pc = "active"

\* Once the listener's start is over, what info.fcm_active says is so: pushes
\* arrive, or the polling fallback runs (main.ts 1861-1936, fcm.ts 372-527).
StatusIsTrue ==
  starting = Over =>
    /\ fcmActive = "healthy" => socket
    /\ fcmActive = "polling" => eventPollTimer

\* While the adapter polls, the newest event is reported sooner or later,
\* also when requests fail (main.ts 2606-2677, 2982-2998).
PollingReports ==
  \A e \in Events :
    newest = e /\ eventPollTimer ~> newest # e \/ reported[e] > 0

\* A push that arrives gets its event, or a newer one, reported unless an
\* event request fails: nothing asks again then (main.ts 1857-1859).  A socket
\* that closes takes the pushes on their way with it, and is excepted too.
PushReports ==
  \A e \in Events :
    (\E p \in pushes : p[1] = e)
      ~> (\E f \in Events : f >= e /\ reported[f] > 0) \/ faults > 0 \/ ~socket

\* The adapter goes on receiving events without the push socket: it "continues
\* polling" (main.ts 1910-1912).
NeverDeaf == starting = Over => socket \/ eventPollTimer
=============================================================================
