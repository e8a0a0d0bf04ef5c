----------------------------- MODULE StreamSession -----------------------------
(***************************************************************************)
(* The life of one camera's LOCAL live session in the adapter: opening it  *)
(* (ensureLiveSession, upsertSession), serving it (TLS proxy, stream_url), *)
(* renewing it (SessionWatchdog), and giving it back (_teardownStream, the *)
(* snapshot idle timer, handleStreamQualityChange).                        *)
(*                                                                         *)
(* Every map of main.ts involved is keyed by camera id and no handler      *)
(* touches another camera's entry, so one camera is modelled and a map     *)
(* entry is a variable.  Node runs one callback at a time: a step of the   *)
(* model is the code between two awaits, and several handlers, the tasks,  *)
(* are under way at once.  Time is abstracted: a timer that is armed may   *)
(* fire at any later moment, and a cached session may outlive              *)
(* SESSION_TTL_MS at any moment.                                           *)
(*                                                                         *)
(* A session is named by a value of Sessions.  A proxy is named by the     *)
(* session whose Digest credentials it was started with, and a watchdog by *)
(* the session it was created for: both are created at most once per       *)
(* session.                                                                *)
(***************************************************************************)
EXTENDS Naturals, FiniteSets

CONSTANTS
  Tasks,     \* handlers that can be under way at once
  Sessions,  \* names for sessions; when all are in use PUT is refused (quota)
  Remotes,   \* LAN addresses the camera can have
  Kinds,     \* the stimuli of this instance, a subset of AllKinds
  Faults,    \* what can go wrong in this instance, a subset of AllFaults
  None       \* no session, no proxy, no watchdog, no address

AllKinds  == {"snapshot", "liveOn", "liveOff", "quality", "idle", "renew",
              "restored"}   \* the adapter may start with the livestream on
AllFaults == {"openFails", "answerLost", "bindFails", "deleteLost", "breaker"}
Qualities == {"high", "low"}

ASSUME NoneIsNew      == None \notin Sessions /\ None \notin Remotes
ASSUME KindsAssumption  == Kinds \subseteq AllKinds
ASSUME FaultsAssumption == Faults \subseteq AllFaults

VARIABLES
  livestreamEnabled,  \* _livestreamEnabled
  streamQuality,      \* _streamQuality
  liveSession,        \* _liveSessions
  liveHq,             \* the quality liveSession was opened with
  fresh,              \* liveSession is younger than SESSION_TTL_MS
  cloudSession,       \* the session Bosch and the camera hold open
  adrift,             \* the answer that named it, or a DELETE for it, was lost
  tlsProxy,           \* _tlsProxies
  sessionRemote,      \* _sessionRemote
  listening,          \* proxies whose server socket is open
  lingering,          \* proxies whose breaker tripped with connections open
  streamUrl,          \* the proxy whose address stream_url shows
  watchdog,           \* _sessionWatchdogs
  wdRunning,          \* watchdogs with _running set
  wdTimer,            \* watchdogs with _timer armed
  idleTimer,          \* _snapshotIdleTimers has an entry
  task                \* the handlers under way

flagVars    == <<livestreamEnabled, streamQuality>>
cloudVars   == <<cloudSession, adrift>>
sessionVars == <<liveSession, liveHq, fresh, cloudVars>>
proxyVars   == <<tlsProxy, sessionRemote, listening, lingering>>
wdVars      == <<watchdog, wdRunning, wdTimer>>
vars == <<flagVars, sessionVars, proxyVars, streamUrl, wdVars, idleTimer, task>>

(***************************************************************************)
(* A handler under way: what it is (kind), the await it is suspended at    *)
(* (pc), and the local variables that live across awaits: the session it   *)
(* works for, the remote address of that session, the quality it asked     *)
(* for, the proxy it is about to publish or whose stop() it awaits, the    *)
(* value of livestreamOn it captured, and the watchdog it renews.          *)
(***************************************************************************)
PCs == {"idle",
        "opening",   \* await openLiveSession, the PUT not yet served
        "opened",    \* await openLiveSession, the answer on its way
        "swapping",  \* await existingProxy.stop, the camera has moved
        "starting",  \* await startTlsProxy
        "publish",   \* await setObjectNotExistsAsync before stream_url
        "arm",       \* await upsertSession
        "ready",     \* await ensureLiveSession
        "fetching",  \* await fetchSnapshot
        "stopping",  \* teardown: await proxy.stop
        "closing",   \* await closeLiveSession, the DELETE not yet served
        "closed"}    \* await closeLiveSession, the answer on its way

TaskRec == [kind : AllKinds \cup {"none"}, pc : PCs,
            sess : Sessions \cup {None}, remote : Remotes \cup {None},
            hq : Qualities, px : Sessions \cup {None}, live : BOOLEAN,
            wd : Sessions \cup {None}]

NoTask == [kind |-> "none", pc |-> "idle", sess |-> None, remote |-> None,
           hq |-> "high", px |-> None, live |-> FALSE, wd |-> None]

Idle(t)   == task[t] = NoTask
Quiescent == \A t \in Tasks : Idle(t)

\* Session names nothing refers to any more: PUT /connection hands one out.
InUse == {liveSession, cloudSession, tlsProxy, streamUrl, watchdog}
           \cup listening \cup lingering \cup wdRunning
           \cup UNION {{task[t].sess, task[t].px, task[t].wd} : t \in Tasks}
Unused == Sessions \ InUse

Init ==
  /\ livestreamEnabled \in {FALSE, "restored" \in Kinds}   \* as persisted
  /\ streamQuality \in Qualities       \* likewise
  /\ liveSession = None /\ liveHq = "high" /\ fresh = FALSE
  /\ cloudSession = None /\ adrift = FALSE
  /\ tlsProxy = None /\ sessionRemote = None /\ listening = {} /\ lingering = {}
  /\ streamUrl = None
  /\ watchdog = None /\ wdRunning = {} /\ wdTimer = {}
  /\ idleTimer = FALSE
  /\ task = [t \in Tasks |-> NoTask]

Goto(t, rec) == task' = [task EXCEPT ![t] = rec]
Return(t)    == Goto(t, NoTask)

(***************************************************************************)
(* ensureLiveSession                                                       *)
(***************************************************************************)

\* The task that enters ensureLiveSession: the cached session while it is
\* young enough, a PUT with the quality preferred now otherwise.
EnteringHigh(k) ==   \* mutated: always asks for high quality
  IF liveSession # None /\ fresh
    THEN [NoTask EXCEPT !.kind = k, !.pc = "ready", !.sess = liveSession]
    ELSE [NoTask EXCEPT !.kind = k, !.pc = "opening"]
Entering(k) ==
  IF liveSession # None /\ fresh
    THEN [NoTask EXCEPT !.kind = k, !.pc = "ready", !.sess = liveSession]
    ELSE [NoTask EXCEPT !.kind = k, !.pc = "opening", !.hq = streamQuality]

\* proxy.stop(), where the map holds one: its server socket is closed.  The
\* promise is kept once no connection is open: at the next tick, stop() having
\* destroyed them, unless the breaker had tripped and forgotten its sockets.
StopProxyNot == UNCHANGED listening   \* mutated: only the map entry goes
StopProxy == listening' = listening \ {tlsProxy}
StopReturns(t) == task[t].px \notin lingering

\* upsertSession can keep the proxy it has: same camera address.
HotReuse(r) == tlsProxy # None /\ sessionRemote = r

\* Bosch serves PUT /connection: a session with new credentials, in place of
\* the one that was open.
CloudOpens(t) ==
  /\ task[t].pc = "opening"
  /\ \E s \in Unused, r \in Remotes :
       /\ cloudSession' = s /\ adrift' = FALSE
       /\ Goto(t, [task[t] EXCEPT !.pc = "opened", !.sess = s, !.remote = r])
  /\ UNCHANGED <<flagVars, liveSession, liveHq, fresh, proxyVars, streamUrl,
                 wdVars, idleTimer>>

\* openLiveSession resolves: the session is cached (by ensureLiveSession or
\* onRenew) and upsertSession runs up to its first await.
SessionOpened(t) ==
  /\ task[t].pc = "opened"
  /\ liveSession' = task[t].sess /\ liveHq' = task[t].hq /\ fresh' = TRUE
  /\ \/ /\ HotReuse(task[t].remote)
        /\ Goto(t, [task[t] EXCEPT !.pc = "publish", !.px = tlsProxy,
                                   !.remote = None])
        /\ UNCHANGED listening
     \/ /\ tlsProxy # None /\ ~HotReuse(task[t].remote)
        /\ Goto(t, [task[t] EXCEPT !.pc = "swapping", !.px = tlsProxy])
        /\ StopProxy
     \/ /\ tlsProxy = None
        /\ Goto(t, [task[t] EXCEPT !.pc = "starting"])
        /\ UNCHANGED listening
  /\ UNCHANGED <<flagVars, cloudVars, tlsProxy, sessionRemote, lingering,
                 streamUrl, wdVars, idleTimer>>

\* The old proxy is closed; its entry is dropped and a new one is started.
ProxySwapped(t) ==
  /\ task[t].pc = "swapping" /\ StopReturns(t)
  /\ tlsProxy' = None
  /\ Goto(t, [task[t] EXCEPT !.pc = "starting", !.px = None])
  /\ UNCHANGED <<flagVars, sessionVars, sessionRemote, listening, lingering,
                 streamUrl, wdVars, idleTimer>>

ProxyStarted(t) ==
  /\ task[t].pc = "starting"
  /\ listening' = listening \cup {task[t].sess}
  /\ tlsProxy' = task[t].sess
  /\ sessionRemote' = task[t].remote
  /\ Goto(t, [task[t] EXCEPT !.pc = "publish", !.px = task[t].sess,
                             !.remote = None])
  /\ UNCHANGED <<flagVars, sessionVars, lingering, streamUrl, wdVars, idleTimer>>

\* No port can be bound: upsertSession logs it and returns normally.
ProxyStartFails(t) ==
  /\ "bindFails" \in Faults
  /\ task[t].pc = "starting"
  /\ Goto(t, [task[t] EXCEPT !.pc = "arm", !.remote = None])
  /\ UNCHANGED <<flagVars, sessionVars, proxyVars, streamUrl, wdVars, idleTimer>>

PublishUrlOnce(t) ==   \* mutated: a stream_url that is set is kept
  /\ task[t].pc = "publish"
  /\ streamUrl' = IF streamUrl = None THEN task[t].px ELSE streamUrl
  /\ Goto(t, [task[t] EXCEPT !.pc = "arm", !.px = None])
  /\ UNCHANGED <<flagVars, sessionVars, proxyVars, wdVars, idleTimer>>
PublishUrl(t) ==
  /\ task[t].pc = "publish"
  /\ streamUrl' = task[t].px
  /\ Goto(t, [task[t] EXCEPT !.pc = "arm", !.px = None])
  /\ UNCHANGED <<flagVars, sessionVars, proxyVars, wdVars, idleTimer>>

\* upsertSession has returned to ensureLiveSession: a watchdog is created
\* unless one is registered.
ArmWatchdogAlways(t) ==   \* mutated: no test whether one is registered
  /\ task[t].pc = "arm" /\ task[t].kind # "renew"
  /\ watchdog' = task[t].sess
  /\ wdRunning' = wdRunning \cup {task[t].sess}
  /\ wdTimer' = wdTimer \cup {task[t].sess}
  /\ Goto(t, [task[t] EXCEPT !.pc = "ready"])
  /\ UNCHANGED <<flagVars, sessionVars, proxyVars, streamUrl, idleTimer>>
ArmWatchdog(t) ==
  /\ task[t].pc = "arm" /\ task[t].kind # "renew"
  /\ IF watchdog = None
       THEN /\ watchdog' = task[t].sess
            /\ wdRunning' = wdRunning \cup {task[t].sess}
            /\ wdTimer' = wdTimer \cup {task[t].sess}
       ELSE UNCHANGED wdVars
  /\ Goto(t, [task[t] EXCEPT !.pc = "ready"])
  /\ UNCHANGED <<flagVars, sessionVars, proxyVars, streamUrl, idleTimer>>

\* openLiveSession rejects: offline, 401, no token; the session quota (444),
\* which "no name unused" stands for; or the answer lost after the PUT was served.
Rejected(t) ==
  \/ task[t].pc = "opening" /\ ("openFails" \in Faults \/ Unused = {})
  \/ task[t].pc = "opened" /\ "answerLost" \in Faults

\* A session whose answer is lost is open at Bosch and known to nobody.
LosesAnswer(t) ==
  /\ adrift' = (adrift \/ (task[t].pc = "opened" /\ cloudSession = task[t].sess))
  /\ UNCHANGED <<liveSession, liveHq, fresh, cloudSession>>

\* The handler gives up; what it has changed so far stays.
OpenFails(t) ==
  /\ Rejected(t) /\ task[t].kind # "renew"
  /\ LosesAnswer(t)
  /\ Return(t)
  /\ UNCHANGED <<flagVars, proxyVars, streamUrl, wdVars, idleTimer>>

(***************************************************************************)
(* SessionWatchdog                                                         *)
(***************************************************************************)

\* watchdog.stop() and the deletion of its entry, where one is registered.
StopWatchdogKeepEntry ==   \* mutated: the entry is not deleted
  /\ wdRunning' = wdRunning \ {watchdog}
  /\ wdTimer' = wdTimer \ {watchdog}
  /\ UNCHANGED watchdog
StopWatchdog ==
  /\ watchdog' = None
  /\ wdRunning' = wdRunning \ {watchdog}
  /\ wdTimer' = wdTimer \ {watchdog}

\* The timer of a running watchdog fires: _renew up to its first await.
RenewFires(t) ==
  /\ "renew" \in Kinds /\ Idle(t)
  /\ \E w \in wdTimer :
       /\ w \in wdRunning
       /\ wdTimer' = wdTimer \ {w}
       /\ Goto(t, [NoTask EXCEPT !.kind = "renew", !.pc = "opening",
                                 !.hq = streamQuality, !.wd = w])
  /\ UNCHANGED <<flagVars, sessionVars, proxyVars, streamUrl, watchdog,
                 wdRunning, idleTimer>>

\* _renew after a refused PUT: it stops itself, then onError drops whatever
\* proxy and whatever watchdog the maps hold by now.
RenewFailsKeepEntry(t) ==   \* mutated: onError leaves the watchdog's entry
  /\ Rejected(t) /\ task[t].kind = "renew"
  /\ wdRunning' = wdRunning \ {task[t].wd}
  /\ wdTimer' = wdTimer \ {task[t].wd}
  /\ StopProxy
  /\ tlsProxy' = None
  /\ streamUrl' = None
  /\ LosesAnswer(t)
  /\ Return(t)
  /\ UNCHANGED <<flagVars, sessionRemote, lingering, watchdog, idleTimer>>
RenewFails(t) ==
  /\ Rejected(t) /\ task[t].kind = "renew"
  /\ wdRunning' = wdRunning \ {task[t].wd}
  /\ wdTimer' = wdTimer \ {task[t].wd}
  /\ watchdog' = None
  /\ StopProxy
  /\ tlsProxy' = None
  /\ streamUrl' = None
  /\ LosesAnswer(t)
  /\ Return(t)
  /\ UNCHANGED <<flagVars, sessionRemote, lingering, idleTimer>>

\* _renew after onRenew: _arm, which does nothing once the watchdog stopped.
RenewDoneAlways(t) ==   \* mutated: _arm without its test of _running
  /\ task[t].pc = "arm" /\ task[t].kind = "renew"
  /\ wdTimer' = wdTimer \cup {task[t].wd}
  /\ Return(t)
  /\ UNCHANGED <<flagVars, sessionVars, proxyVars, streamUrl, watchdog,
                 wdRunning, idleTimer>>
RenewDone(t) ==
  /\ task[t].pc = "arm" /\ task[t].kind = "renew"
  /\ wdTimer' = wdTimer \cup ({task[t].wd} \cap wdRunning)
  /\ Return(t)
  /\ UNCHANGED <<flagVars, sessionVars, proxyVars, streamUrl, watchdog,
                 wdRunning, idleTimer>>

(***************************************************************************)
(* _teardownStream                                                         *)
(***************************************************************************)

\* Bosch serves DELETE /connection, which names the camera and not the
\* session.
CloudCloses(t) ==
  /\ task[t].pc = "closing"
  /\ cloudSession' = None /\ adrift' = FALSE
  /\ Goto(t, [task[t] EXCEPT !.pc = "closed"])
  /\ UNCHANGED <<flagVars, liveSession, liveHq, fresh, proxyVars, streamUrl,
                 wdVars, idleTimer>>

\* The DELETE never reaches Bosch, and closeLiveSession swallows the error.
DeleteLost(t) ==
  /\ "deleteLost" \in Faults
  /\ task[t].pc = "closing"
  /\ adrift' = (cloudSession # None)
  /\ Goto(t, [task[t] EXCEPT !.pc = "closed"])
  /\ UNCHANGED <<flagVars, liveSession, liveHq, fresh, cloudSession, proxyVars,
                 streamUrl, wdVars, idleTimer>>

\* Forget the cached session and empty stream_url: the end of the teardown.
FinishTeardown(t) ==
  /\ liveSession' = None /\ fresh' = FALSE
  /\ streamUrl' = None
  /\ Return(t)

\* From the deletion of the proxy's entries to the next await.
CloseSessionLocally(t, k) ==   \* mutated: no DELETE is sent
  /\ tlsProxy' = None /\ sessionRemote' = None
  /\ FinishTeardown(t)
  /\ UNCHANGED <<liveHq, cloudVars>>
CloseSession(t, k) ==
  /\ tlsProxy' = None /\ sessionRemote' = None
  /\ \/ /\ liveSession # None
        /\ Goto(t, [NoTask EXCEPT !.kind = k, !.pc = "closing"])
        /\ UNCHANGED <<sessionVars, streamUrl>>
     \/ /\ liveSession = None
        /\ FinishTeardown(t)
        /\ UNCHANGED <<liveHq, cloudVars>>

\* _cancelSnapshotIdleTeardown
CancelIdleNot == UNCHANGED idleTimer   \* mutated: the timer stays armed
CancelIdle == idleTimer' = FALSE

\* From the call of _teardownStream to its first await.
BeginTeardown(t, k) ==
  /\ CancelIdle
  /\ StopWatchdog
  /\ StopProxy /\ UNCHANGED lingering
  /\ \/ /\ tlsProxy # None
        /\ Goto(t, [NoTask EXCEPT !.kind = k, !.pc = "stopping", !.px = tlsProxy])
        /\ UNCHANGED <<sessionVars, tlsProxy, sessionRemote, streamUrl>>
     \/ /\ tlsProxy = None
        /\ CloseSession(t, k)

ProxyStopped(t) ==
  /\ task[t].pc = "stopping" /\ StopReturns(t)
  /\ CloseSession(t, task[t].kind)
  /\ UNCHANGED <<flagVars, listening, lingering, wdVars, idleTimer>>

SessionClosed(t) ==
  /\ task[t].pc = "closed" /\ task[t].kind # "quality"
  /\ FinishTeardown(t)
  /\ UNCHANGED <<flagVars, liveHq, cloudVars, proxyVars, wdVars, idleTimer>>

(***************************************************************************)
(* The handlers that use them                                              *)
(***************************************************************************)

\* handleSnapshotTrigger: a button, a motion event, a light or privacy
\* change, the adapter's start.
SnapshotTrigger(t) ==
  /\ "snapshot" \in Kinds /\ Idle(t)
  /\ Goto(t, Entering("snapshot"))
  /\ UNCHANGED <<flagVars, sessionVars, proxyVars, streamUrl, wdVars, idleTimer>>

SnapshotFetching(t) ==
  /\ task[t].pc = "ready" /\ task[t].kind = "snapshot"
  /\ Goto(t, [task[t] EXCEPT !.pc = "fetching", !.live = livestreamEnabled])
  /\ UNCHANGED <<flagVars, sessionVars, proxyVars, streamUrl, wdVars, idleTimer>>

\* The finally block, whether the picture was fetched or not.
SnapshotDoneOnSuccess(t) ==   \* mutated: not in a finally block
  /\ task[t].pc = "fetching"
  /\ idleTimer' \in {idleTimer, idleTimer \/ ~task[t].live}
  /\ Return(t)
  /\ UNCHANGED <<flagVars, sessionVars, proxyVars, streamUrl, wdVars>>
SnapshotDone(t) ==
  /\ task[t].pc = "fetching"
  /\ idleTimer' = (idleTimer \/ ~task[t].live)
  /\ Return(t)
  /\ UNCHANGED <<flagVars, sessionVars, proxyVars, streamUrl, wdVars>>

\* The idle timer fires: its entry is deleted, then the teardown runs.
IdleFires(t) ==
  /\ "idle" \in Kinds /\ Idle(t)
  /\ idleTimer
  /\ BeginTeardown(t, "idle")
  /\ UNCHANGED flagVars

\* The user writes livestream_enabled = true (handleLivestreamToggle).  With
\* the flag already set the handler returns at once.
LivestreamOn(t) ==
  /\ "liveOn" \in Kinds /\ Idle(t)
  /\ ~livestreamEnabled
  /\ livestreamEnabled' = TRUE
  /\ CancelIdle
  /\ Goto(t, Entering("liveOn"))
  /\ UNCHANGED <<streamQuality, sessionVars, proxyVars, streamUrl, wdVars>>

LivestreamStarted(t) ==
  /\ task[t].pc = "ready" /\ task[t].kind = "liveOn"
  /\ Return(t)
  /\ UNCHANGED <<flagVars, sessionVars, proxyVars, streamUrl, wdVars, idleTimer>>

\* The user writes livestream_enabled = false.
LivestreamOff(t) ==
  /\ "liveOff" \in Kinds /\ Idle(t)
  /\ livestreamEnabled
  /\ livestreamEnabled' = FALSE
  /\ BeginTeardown(t, "liveOff")
  /\ UNCHANGED streamQuality

\* Anything but "low" counts as "high".
NormalisedNot(q) == q   \* mutated: what the user wrote is kept
Normalised(q) == IF q = "low" THEN "low" ELSE "high"

\* handleStreamQualityChange up to its first await; without a session to
\* close it runs to its end.
QualityChange(t) ==
  /\ "quality" \in Kinds /\ Idle(t)
  /\ \E q \in Qualities \cup {"other"} :
       /\ streamQuality # Normalised(q)
       /\ streamQuality' = Normalised(q)
  /\ \/ /\ liveSession # None
        /\ Goto(t, [NoTask EXCEPT !.kind = "quality", !.pc = "closing"])
        /\ UNCHANGED wdVars
     \/ /\ liveSession = None
        /\ StopWatchdog
        /\ UNCHANGED task
  /\ UNCHANGED <<livestreamEnabled, sessionVars, proxyVars, streamUrl,
                 idleTimer>>

QualityClosed(t) ==
  /\ task[t].pc = "closed" /\ task[t].kind = "quality"
  /\ liveSession' = None /\ fresh' = FALSE
  /\ StopWatchdog
  /\ Return(t)
  /\ UNCHANGED <<flagVars, liveHq, cloudVars, proxyVars, streamUrl, idleTimer>>

(***************************************************************************)
(* What happens around the handlers                                        *)
(***************************************************************************)

\* The circuit breaker of startTlsProxy closes the server socket; nobody is
\* told.  Connections that are still open go on, and no stop() can destroy them.
BreakerOpens ==
  /\ "breaker" \in Faults
  /\ \E p \in listening :
       /\ listening' = listening \ {p}
       /\ lingering' \in {lingering, lingering \cup {p}}
  /\ UNCHANGED <<flagVars, sessionVars, tlsProxy, sessionRemote, streamUrl,
                 wdVars, idleTimer, task>>

\* SESSION_TTL_MS have passed since liveSession was opened.
SessionAges ==
  /\ fresh
  /\ fresh' = FALSE
  /\ UNCHANGED <<flagVars, liveSession, liveHq, cloudVars, proxyVars,
                 streamUrl, wdVars, idleTimer, task>>

\* The last of those connections is closed by the player or the camera.
ConnectionsEnd ==
  /\ \E p \in lingering : lingering' = lingering \ {p}
  /\ UNCHANGED <<flagVars, sessionVars, tlsProxy, sessionRemote, listening,
                 streamUrl, wdVars, idleTimer, task>>

\* Bosch or the camera ends the session: a reboot, a close on the cloud's side,
\* or maxSessionDuration has passed without a renewal.  Nobody is told.
SessionEnds ==
  /\ cloudSession # None
  /\ cloudSession' = None /\ adrift' = FALSE
  /\ UNCHANGED <<flagVars, liveSession, liveHq, fresh, proxyVars, streamUrl,
                 wdVars, idleTimer, task>>

--------------------------------------------------------------------------------

\* A handler under way takes its next step.
Progress(t) ==
  \/ CloudOpens(t) \/ SessionOpened(t) \/ OpenFails(t)
  \/ ProxySwapped(t) \/ ProxyStarted(t) \/ ProxyStartFails(t)
  \/ PublishUrl(t) \/ ArmWatchdog(t)
  \/ RenewFails(t) \/ RenewDone(t)
  \/ ProxyStopped(t) \/ CloudCloses(t) \/ DeleteLost(t) \/ SessionClosed(t)
  \/ SnapshotFetching(t) \/ SnapshotDone(t)
  \/ LivestreamStarted(t) \/ QualityClosed(t)

\* A timer of the adapter fires.
Timer(t) == IdleFires(t) \/ RenewFires(t)

\* A user, an automation or a motion event asks for something.
Request(t) ==
  \/ SnapshotTrigger(t) \/ LivestreamOn(t) \/ LivestreamOff(t) \/ QualityChange(t)

Next == \/ \E t \in Tasks : Progress(t) \/ Timer(t) \/ Request(t)
        \/ BreakerOpens \/ ConnectionsEnd
        \/ SessionAges \/ SessionEnds

Spec == Init /\ [][Next]_vars

\* A handler under way goes on, and a timer that is due again and again fires
\* in the end; no request, fault or passing of the TTL is owed, nor the end of
\* the connections that a stop() behind a tripped breaker waits for.
Fairness == \A t \in Tasks :
              /\ WF_vars(Progress(t))
              /\ SF_vars(IdleFires(t))

LiveSpec == Spec /\ Fairness

--------------------------------------------------------------------------------

(***************************************************************************)
(* Properties                                                              *)
(***************************************************************************)

\* Every variable has its type; in particular _streamQuality only ever holds
\* a quality PUT /connection can be asked for (handleStreamQualityChange).
TypeOK ==
  /\ livestreamEnabled \in BOOLEAN
  /\ streamQuality \in Qualities
  /\ liveSession \in Sessions \cup {None} /\ liveHq \in Qualities
  /\ fresh \in BOOLEAN
  /\ cloudSession \in Sessions \cup {None} /\ adrift \in BOOLEAN
  /\ tlsProxy \in Sessions \cup {None}
  /\ sessionRemote \in Remotes \cup {None}
  /\ listening \subseteq Sessions /\ lingering \subseteq Sessions
  /\ streamUrl \in Sessions \cup {None}
  /\ watchdog \in Sessions \cup {None}
  /\ wdRunning \subseteq Sessions /\ wdTimer \subseteq Sessions
  /\ idleTimer \in BOOLEAN
  /\ task \in [Tasks -> TaskRec]

Renewing(t, w) == task[t].kind = "renew" /\ task[t].wd = w

\* A registered watchdog is running and has its next renewal ahead of it: its
\* timer is armed or its renewal is under way.  ensureLiveSession arms a
\* watchdog only when none is registered, so a dead entry would end every
\* later stream of this camera at the session's expiry.
RegisteredWatchdogAlive ==
  watchdog # None =>
    /\ watchdog \in wdRunning
    /\ watchdog \in wdTimer \/ \E t \in Tasks : Renewing(t, watchdog)

\* A stopped watchdog has no timer, and a watchdog has at most one renewal
\* ahead of it, however its renewal, a stop and the registration of another
\* watchdog interleave (_arm checks _running).
WatchdogSingleFlight ==
  /\ wdTimer \subseteq wdRunning
  /\ \A t, u \in Tasks : \A w \in Sessions :
       Renewing(t, w) => /\ w \notin wdTimer
                         /\ Renewing(u, w) => t = u

(***************************************************************************)
(* The inductive invariant behind the two.  A session just opened belongs  *)
(* to one task until that task has passed ArmWatchdog: no other task, no   *)
(* watchdog and no renewal carries its name.                               *)
(***************************************************************************)
Serving == {"opened", "swapping", "starting", "publish", "arm"}

TaskOK ==
  \A t \in Tasks :
    /\ task[t].pc \in Serving => task[t].sess \in Sessions
    /\ task[t].kind = "renew" => /\ task[t].pc \in Serving \cup {"opening"}
                                /\ task[t].wd \in Sessions

OwnSession ==
  \A t \in Tasks : task[t].pc \in Serving =>
    /\ task[t].sess \notin wdRunning
    /\ \A u \in Tasks :
         /\ ~Renewing(u, task[t].sess)
         /\ u # t /\ task[u].pc \in Serving => task[u].sess # task[t].sess

WatchdogInv == /\ TypeOK /\ TaskOK /\ OwnSession
               /\ RegisteredWatchdogAlive /\ WatchdogSingleFlight

\* The adapter holds something of this camera that costs quota or runs on.
Held == \/ liveSession # None \/ tlsProxy # None \/ streamUrl # None
        \/ watchdog # None \/ wdRunning # {}

\* With the livestream off and no handler under way, whatever a snapshot left
\* open has its idle timer pending (the comment at _livestreamEnabled).
OffMeansTimerPending ==
  Quiescent /\ ~livestreamEnabled /\ Held => idleTimer

\* No TLS proxy listens that _tlsProxies does not hold: nothing could ever
\* stop it.
NoOrphanProxy == Quiescent => listening \subseteq {tlsProxy}

\* No watchdog runs that _sessionWatchdogs does not hold.
NoOrphanWatchdog == Quiescent => wdRunning \subseteq {watchdog}

\* The cached session was opened with the quality preferred now: the next
\* ensureLiveSession may return it (the comment at _streamQuality).
SessionHonoursQuality ==
  Quiescent /\ liveSession # None => liveHq = streamQuality

\* Bosch holds no session open that the adapter has forgotten: what is open is
\* the cached session, which the next teardown or quality change deletes, unless
\* the request that named or should have ended it was lost.  It may be open no
\* more: Bosch and the camera end sessions too, and the cache does not learn it.
NoForgottenSession ==
  Quiescent /\ cloudSession # None /\ ~adrift => cloudSession = liveSession

\* stream_url names the proxy _tlsProxies holds, and none is named after the
\* proxy was stopped.
UrlNamesMappedProxy ==
  Quiescent /\ streamUrl # None => streamUrl = tlsProxy

\* What a watchdog renews is a stream: while the livestream is on and its
\* watchdog is registered, a session is cached and stream_url names the proxy
\* in the map, whatever snapshots, renewals, quality changes and refused PUTs
\* went before (ensureLiveSession arms, onError and the quality change disarm).
WatchedMeansStreaming ==
  Quiescent /\ livestreamEnabled /\ watchdog # None =>
    liveSession # None /\ tlsProxy # None /\ streamUrl = tlsProxy

\* While the livestream is on no idle timer is pending: a snapshot taken just
\* before may not tear the stream down (handleLivestreamToggle).
LiveMeansNoIdleTimer == Quiescent /\ livestreamEnabled => ~idleTimer

\* Once the livestream is off and no request is running or made any more, the
\* session, its proxy and its watchdog are given back in the end, lost DELETEs
\* and refused PUTs or not.  Excepted is a handler that awaits the stop() of a
\* proxy whose breaker tripped with connections open: it waits as long as they
\* last (server.close in tls_proxy.ts, awaited by _teardownStream).
Released == ~Held /\ ~idleTimer
NoRequests == \A t \in Tasks : task[t].kind \in {"none", "idle", "renew"}
NobodyWaits ==
  \A t \in Tasks : task[t].pc \in {"swapping", "stopping"} => StopReturns(t)
EventuallyReleased ==
  <>[](~livestreamEnabled /\ NoRequests /\ NobodyWaits) => <>[]Released
================================================================================
