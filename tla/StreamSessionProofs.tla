-------------------------- MODULE StreamSessionProofs --------------------------
(***************************************************************************)
(* Theorems about StreamSession, for every number of overlapping handlers, *)
(* every set of sessions and addresses, and every choice of faults.        *)
(***************************************************************************)
EXTENDS StreamSession, TLAPS

--------------------------------------------------------------------------------
(* Types *)

LEMMA NoTaskTyped == NoTask \in TaskRec
  BY DEF NoTask, TaskRec, PCs, AllKinds, Qualities

\* The two ways a step changes task keep its type.
LEMMA GotoTyped ==
  ASSUME TypeOK, NEW t \in Tasks, NEW rec \in TaskRec, Goto(t, rec)
  PROVE  task' \in [Tasks -> TaskRec]
  BY DEF TypeOK, Goto

LEMMA ReturnTyped ==
  ASSUME TypeOK, NEW t \in Tasks, Return(t)
  PROVE  task' \in [Tasks -> TaskRec]
  BY NoTaskTyped, GotoTyped DEF Return

LEMMA EnteringTyped ==
  ASSUME TypeOK, NEW k \in AllKinds
  PROVE  Entering(k) \in TaskRec
<1>1. ASSUME NEW r \in TaskRec
      PROVE  /\ [r EXCEPT !.kind = k, !.pc = "ready", !.sess = liveSession] \in TaskRec
             /\ [r EXCEPT !.kind = k, !.pc = "opening", !.hq = streamQuality] \in TaskRec
  BY DEF TaskRec, PCs, TypeOK
<1> QED
  BY <1>1, NoTaskTyped DEF Entering

\* A task that begins something else than ensureLiveSession.
LEMMA BeginTyped ==
  ASSUME NEW k \in AllKinds \cup {"none"}, NEW p \in PCs
  PROVE  /\ [NoTask EXCEPT !.kind = k, !.pc = p] \in TaskRec
         /\ \A x \in Sessions \cup {None} :
              [NoTask EXCEPT !.kind = k, !.pc = p, !.px = x] \in TaskRec
<1>1. ASSUME NEW r \in TaskRec
      PROVE  /\ [r EXCEPT !.kind = k, !.pc = p] \in TaskRec
             /\ \A x \in Sessions \cup {None} :
                  [r EXCEPT !.kind = k, !.pc = p, !.px = x] \in TaskRec
  BY DEF TaskRec
<1> QED
  BY <1>1, NoTaskTyped

LEMMA InitTyped == Init => TypeOK
<1> SUFFICES ASSUME Init PROVE TypeOK
  OBVIOUS
<1>1. task \in [Tasks -> TaskRec]
  BY NoTaskTyped DEF Init
<1>2. livestreamEnabled \in BOOLEAN
  <2>1. ("restored" \in Kinds) \in BOOLEAN
    OBVIOUS
  <2> QED
    BY <2>1 DEF Init
<1> QED
  BY <1>1, <1>2 DEF Init, TypeOK, Qualities

\* The shared parts of the teardown.
LEMMA CloseSessionTyped ==
  ASSUME TypeOK, NEW t \in Tasks, NEW k \in AllKinds \cup {"none"},
         CloseSession(t, k)
  PROVE  /\ task' \in [Tasks -> TaskRec]
         /\ liveSession' \in Sessions \cup {None} /\ liveHq' \in Qualities
         /\ fresh' \in BOOLEAN /\ cloudSession' \in Sessions \cup {None}
         /\ adrift' \in BOOLEAN
         /\ tlsProxy' \in Sessions \cup {None}
         /\ sessionRemote' \in Remotes \cup {None}
         /\ streamUrl' \in Sessions \cup {None}
<1>1. task' \in [Tasks -> TaskRec]
  <2>1. [NoTask EXCEPT !.kind = k, !.pc = "closing"] \in TaskRec
    BY BeginTyped DEF PCs
  <2> QED
    BY <2>1, GotoTyped, ReturnTyped DEF CloseSession, FinishTeardown
<1> QED
  BY <1>1 DEF CloseSession, FinishTeardown, TypeOK, sessionVars, cloudVars

LEMMA StopWatchdogTyped ==
  ASSUME TypeOK, StopWatchdog
  PROVE  /\ watchdog' \in Sessions \cup {None}
         /\ wdRunning' \subseteq Sessions /\ wdTimer' \subseteq Sessions
  BY DEF TypeOK, StopWatchdog

LEMMA BeginTeardownTyped ==
  ASSUME TypeOK, NEW t \in Tasks, NEW k \in AllKinds, BeginTeardown(t, k),
         livestreamEnabled' \in BOOLEAN,
         UNCHANGED streamQuality
  PROVE  TypeOK'
<1>1. /\ watchdog' \in Sessions \cup {None}
      /\ wdRunning' \subseteq Sessions /\ wdTimer' \subseteq Sessions
  BY StopWatchdogTyped DEF BeginTeardown
<1>2. /\ listening' \subseteq Sessions /\ idleTimer' \in BOOLEAN
      /\ lingering' \subseteq Sessions
  BY DEF BeginTeardown, StopProxy, CancelIdle, TypeOK
<1>3. CASE CloseSession(t, k)
  BY <1>1, <1>2, <1>3, CloseSessionTyped DEF TypeOK
<1>4. CASE Goto(t, [NoTask EXCEPT !.kind = k, !.pc = "stopping", !.px = tlsProxy])
           /\ UNCHANGED <<sessionVars, tlsProxy, sessionRemote, streamUrl>>
  <2>1. task' \in [Tasks -> TaskRec]
    <3>1. [NoTask EXCEPT !.kind = k, !.pc = "stopping", !.px = tlsProxy] \in TaskRec
      BY BeginTyped DEF PCs, TypeOK
    <3> QED
      BY <3>1, <1>4, GotoTyped
  <2> QED
    BY <2>1, <1>1, <1>2, <1>4 DEF TypeOK, sessionVars, cloudVars
<1> QED
  BY <1>3, <1>4 DEF BeginTeardown

\* A handler under way takes a step.
LEMMA ProgressTyped ==
  ASSUME TypeOK, TaskOK, NEW t \in Tasks, Progress(t)
  PROVE  TypeOK'
<1> USE DEF flagVars, sessionVars, cloudVars, proxyVars, wdVars
<1>0. task[t] \in TaskRec
  BY DEF TypeOK
<1>a. task[t].pc \in Serving => task[t].sess \in Sessions
  BY DEF TaskOK
<1>1. CASE CloudOpens(t)
  <2>1. PICK s \in Unused, r \in Remotes :
          /\ cloudSession' = s
          /\ Goto(t, [task[t] EXCEPT !.pc = "opened", !.sess = s, !.remote = r])
    BY <1>1 DEF CloudOpens
  <2>2. [task[t] EXCEPT !.pc = "opened", !.sess = s, !.remote = r] \in TaskRec
    BY <1>0 DEF TaskRec, PCs, Unused
  <2>3. task' \in [Tasks -> TaskRec]
    BY <2>1, <2>2, GotoTyped
  <2> QED
    BY <1>1, <2>1, <2>3 DEF TypeOK, CloudOpens, Unused
<1>2. CASE SessionOpened(t)
  <2>1. /\ [task[t] EXCEPT !.pc = "publish", !.px = tlsProxy, !.remote = None] \in TaskRec
        /\ [task[t] EXCEPT !.pc = "swapping", !.px = tlsProxy] \in TaskRec
        /\ [task[t] EXCEPT !.pc = "starting"] \in TaskRec
    BY <1>0 DEF TaskRec, PCs, TypeOK
  <2>2. task' \in [Tasks -> TaskRec]
    BY <1>2, <2>1, GotoTyped DEF SessionOpened
  <2>3. listening' \subseteq Sessions
    BY <1>2 DEF SessionOpened, StopProxy, TypeOK
  <2>4. liveSession' \in Sessions \cup {None} /\ liveHq' \in Qualities
    BY <1>0, <1>2 DEF SessionOpened, TaskRec
  <2> QED
    BY <1>2, <2>2, <2>3, <2>4 DEF TypeOK, SessionOpened
<1>3. CASE OpenFails(t)
  <2>1. adrift' \in BOOLEAN
    BY <1>3 DEF OpenFails, LosesAnswer, TypeOK
  <2> QED
    BY <1>3, <2>1, ReturnTyped DEF OpenFails, LosesAnswer, TypeOK
<1>4. CASE ProxySwapped(t)
  <2>1. [task[t] EXCEPT !.pc = "starting", !.px = None] \in TaskRec
    BY <1>0 DEF TaskRec, PCs
  <2> QED
    BY <1>4, <2>1, GotoTyped DEF ProxySwapped, TypeOK
<1>5. CASE ProxyStarted(t)
  <2>1. [task[t] EXCEPT !.pc = "publish", !.px = task[t].sess, !.remote = None] \in TaskRec
    BY <1>0 DEF TaskRec, PCs
  <2>2. task[t].sess \in Sessions
    BY <1>5, <1>a DEF ProxyStarted, Serving
  <2>3. task[t].remote \in Remotes \cup {None}
    BY <1>0 DEF TaskRec
  <2>4. task' \in [Tasks -> TaskRec]
    BY <1>5, <2>1, GotoTyped DEF ProxyStarted
  <2> QED
    BY <1>5, <2>2, <2>3, <2>4 DEF ProxyStarted, TypeOK
<1>6. CASE ProxyStartFails(t)
  <2>1. [task[t] EXCEPT !.pc = "arm", !.remote = None] \in TaskRec
    BY <1>0 DEF TaskRec, PCs
  <2> QED
    BY <1>6, <2>1, GotoTyped DEF ProxyStartFails, TypeOK
<1>7. CASE PublishUrl(t)
  <2>1. /\ [task[t] EXCEPT !.pc = "arm", !.px = None] \in TaskRec
        /\ task[t].px \in Sessions \cup {None}
    BY <1>0 DEF TaskRec, PCs
  <2> QED
    BY <1>7, <2>1, GotoTyped DEF PublishUrl, TypeOK
<1>8. CASE ArmWatchdog(t)
  <2>1. [task[t] EXCEPT !.pc = "ready"] \in TaskRec
    BY <1>0 DEF TaskRec, PCs
  <2>2. task[t].sess \in Sessions
    BY <1>8, <1>a DEF ArmWatchdog, Serving
  <2>3. task' \in [Tasks -> TaskRec]
    BY <1>8, <2>1, GotoTyped DEF ArmWatchdog
  <2> QED
    BY <1>8, <2>2, <2>3 DEF ArmWatchdog, TypeOK
<1>9. CASE RenewFails(t)
  <2>1. task' \in [Tasks -> TaskRec]
    BY <1>9, ReturnTyped DEF RenewFails
  <2>2. adrift' \in BOOLEAN
    BY <1>9 DEF RenewFails, LosesAnswer, TypeOK
  <2> QED
    BY <1>9, <2>1, <2>2 DEF RenewFails, LosesAnswer, StopProxy, TypeOK
<1>10. CASE RenewDone(t)
  BY <1>10, ReturnTyped DEF RenewDone, TypeOK
<1>11. CASE ProxyStopped(t)
  <2>1. task[t].kind \in AllKinds \cup {"none"}
    BY <1>0 DEF TaskRec
  <2>2. CloseSession(t, task[t].kind)
    BY <1>11 DEF ProxyStopped
  <2> HIDE DEF sessionVars, cloudVars
  <2> QED
    BY <1>11, <2>1, <2>2, CloseSessionTyped DEF ProxyStopped, TypeOK
<1>12. CASE CloudCloses(t)
  <2>1. [task[t] EXCEPT !.pc = "closed"] \in TaskRec
    BY <1>0 DEF TaskRec, PCs
  <2> QED
    BY <1>12, <2>1, GotoTyped DEF CloudCloses, TypeOK
<1>13. CASE DeleteLost(t)
  <2>1. [task[t] EXCEPT !.pc = "closed"] \in TaskRec
    BY <1>0 DEF TaskRec, PCs
  <2> QED
    BY <1>13, <2>1, GotoTyped DEF DeleteLost, TypeOK
<1>14. CASE SessionClosed(t)
  <2>1. task' \in [Tasks -> TaskRec]
    BY <1>14, ReturnTyped DEF SessionClosed, FinishTeardown
  <2> QED
    BY <1>14, <2>1 DEF SessionClosed, FinishTeardown, TypeOK
<1>15. CASE SnapshotFetching(t)
  <2>1. [task[t] EXCEPT !.pc = "fetching", !.live = livestreamEnabled] \in TaskRec
    BY <1>0 DEF TaskRec, PCs, TypeOK
  <2> QED
    BY <1>15, <2>1, GotoTyped DEF SnapshotFetching, TypeOK
<1>16. CASE SnapshotDone(t)
  <2>1. idleTimer' \in BOOLEAN
    BY <1>16 DEF SnapshotDone
  <2> QED
    BY <1>16, <2>1, ReturnTyped DEF SnapshotDone, TypeOK
<1>17. CASE LivestreamStarted(t)
  BY <1>17, ReturnTyped DEF LivestreamStarted, TypeOK
<1>18. CASE QualityClosed(t)
  BY <1>18, ReturnTyped, StopWatchdogTyped DEF QualityClosed, TypeOK
<1> QED
  BY <1>1, <1>2, <1>3, <1>4, <1>5, <1>6, <1>7, <1>8, <1>9, <1>10, <1>11,
     <1>12, <1>13, <1>14, <1>15, <1>16, <1>17, <1>18 DEF Progress

\* A timer fires.
LEMMA TimerTyped ==
  ASSUME TypeOK, NEW t \in Tasks, Timer(t)
  PROVE  TypeOK'
<1>1. CASE IdleFires(t)
  BY <1>1, BeginTeardownTyped DEF IdleFires, AllKinds, flagVars, TypeOK
<1>2. CASE RenewFires(t)
  <2>1. PICK w \in wdTimer :
          /\ wdTimer' = wdTimer \ {w}
          /\ Goto(t, [NoTask EXCEPT !.kind = "renew", !.pc = "opening",
                                    !.hq = streamQuality, !.wd = w])
    BY <1>2 DEF RenewFires
  <2>2. ASSUME NEW r \in TaskRec
        PROVE  [r EXCEPT !.kind = "renew", !.pc = "opening",
                         !.hq = streamQuality, !.wd = w] \in TaskRec
    BY DEF TaskRec, PCs, AllKinds, TypeOK
  <2>3. task' \in [Tasks -> TaskRec]
    BY <2>1, <2>2, NoTaskTyped, GotoTyped
  <2> QED
    BY <1>2, <2>1, <2>3
       DEF RenewFires, TypeOK, flagVars, sessionVars, cloudVars, proxyVars
<1> QED
  BY <1>1, <1>2 DEF Timer

\* Somebody asks for something.
LEMMA RequestTyped ==
  ASSUME TypeOK, NEW t \in Tasks, Request(t)
  PROVE  TypeOK'
<1> USE DEF flagVars, sessionVars, cloudVars, proxyVars, wdVars
<1>1. CASE SnapshotTrigger(t)
  <2>1. task' \in [Tasks -> TaskRec]
    BY <1>1, EnteringTyped, GotoTyped DEF SnapshotTrigger, AllKinds
  <2> QED
    BY <1>1, <2>1 DEF SnapshotTrigger, TypeOK
<1>2. CASE LivestreamOn(t)
  <2>1. task' \in [Tasks -> TaskRec]
    BY <1>2, EnteringTyped, GotoTyped DEF LivestreamOn, AllKinds, TypeOK
  <2> QED
    BY <1>2, <2>1 DEF LivestreamOn, CancelIdle, TypeOK
<1>3. CASE LivestreamOff(t)
  BY <1>3, BeginTeardownTyped DEF LivestreamOff, AllKinds
<1>4. CASE QualityChange(t)
  <2>1. streamQuality' \in Qualities
    BY <1>4 DEF QualityChange, Normalised, Qualities
  <2>2. [NoTask EXCEPT !.kind = "quality", !.pc = "closing"] \in TaskRec
    BY BeginTyped DEF AllKinds, PCs
  <2>3. task' \in [Tasks -> TaskRec]
    BY <1>4, <2>2, GotoTyped DEF QualityChange, TypeOK
  <2>4. /\ watchdog' \in Sessions \cup {None}
        /\ wdRunning' \subseteq Sessions /\ wdTimer' \subseteq Sessions
    BY <1>4, StopWatchdogTyped DEF QualityChange, TypeOK
  <2> QED
    BY <1>4, <2>1, <2>3, <2>4 DEF QualityChange, TypeOK
<1> QED
  BY <1>1, <1>2, <1>3, <1>4 DEF Request

LEMMA NextTyped == TypeOK /\ TaskOK /\ [Next]_vars => TypeOK'
<1> SUFFICES ASSUME TypeOK, TaskOK, [Next]_vars PROVE TypeOK'
  OBVIOUS
<1> USE DEF flagVars, sessionVars, cloudVars, proxyVars, wdVars
<1>1. CASE BreakerOpens
  BY <1>1 DEF BreakerOpens, TypeOK
<1>2. CASE SessionAges \/ SessionEnds
  BY <1>2 DEF SessionAges, SessionEnds, TypeOK
<1>3. CASE ConnectionsEnd
  BY <1>3 DEF ConnectionsEnd, TypeOK
<1>4. CASE UNCHANGED vars
  BY <1>4 DEF vars, TypeOK
<1> QED
  BY <1>1, <1>2, <1>3, <1>4, ProgressTyped, TimerTyped, RequestTyped DEF Next

--------------------------------------------------------------------------------
(***************************************************************************)
(* Watchdogs.  Most steps move one task and leave the watchdogs alone or   *)
(* stop the registered one; three lemmas cover them by what they do to the *)
(* fields the invariant reads, and five actions are left to look at.       *)
(***************************************************************************)

\* What the invariant says besides types.
Watchdogs == TaskOK /\ OwnSession /\ RegisteredWatchdogAlive /\ WatchdogSingleFlight

LEMMA Moved ==
  ASSUME TypeOK, NEW t \in Tasks, NEW rec, Goto(t, rec)
  PROVE  task'[t] = rec /\ \A u \in Tasks : u # t => task'[u] = task[u]
  BY DEF TypeOK, Goto

\* A task goes on with what it is doing and no watchdog changes.
LEMMA GoesOn ==
  ASSUME WatchdogInv, NEW t \in Tasks, UNCHANGED wdVars,
         \A u \in Tasks : u # t => task'[u] = task[u],
         task'[t].kind = task[t].kind, task'[t].sess = task[t].sess,
         task'[t].wd = task[t].wd,
         task'[t].pc \in Serving => task[t].pc \in Serving,
         task[t].kind = "renew" => task'[t].pc \in Serving
  PROVE  Watchdogs'
<1> USE DEF WatchdogInv, wdVars
<1>1. \A u \in Tasks : /\ task'[u].kind = task[u].kind /\ task'[u].sess = task[u].sess
                       /\ task'[u].wd = task[u].wd
                       /\ task'[u].pc \in Serving => task[u].pc \in Serving
  OBVIOUS
<1>2. \A u \in Tasks, w \in Sessions : Renewing(u, w)' <=> Renewing(u, w)
  BY <1>1 DEF Renewing
<1>3. TaskOK'
  BY <1>1 DEF TaskOK
<1>4. OwnSession'
  BY <1>1 DEF OwnSession, Renewing
<1>5. RegisteredWatchdogAlive' /\ WatchdogSingleFlight'
  BY <1>2 DEF RegisteredWatchdogAlive, WatchdogSingleFlight, TypeOK
<1> QED
  BY <1>3, <1>4, <1>5 DEF Watchdogs

\* A task that is no renewal ends or begins something that serves no session
\* yet, and the registered watchdog is stopped or left alone.
LEMMA BeginsOrEnds ==
  ASSUME WatchdogInv, NEW t \in Tasks, UNCHANGED wdVars \/ StopWatchdog,
         \A u \in Tasks : u # t => task'[u] = task[u],
         task[t].kind # "renew", task'[t].kind # "renew",
         task'[t].pc \notin Serving
  PROVE  Watchdogs'
<1> USE DEF WatchdogInv, wdVars
<1>1. \A u \in Tasks : \A w : Renewing(u, w)' <=> Renewing(u, w)
  BY DEF Renewing
<1>2. \A u \in Tasks : task'[u].pc \in Serving => task'[u] = task[u]
  OBVIOUS
<1>3. wdRunning' \subseteq wdRunning /\ wdTimer' \subseteq wdTimer
  BY DEF StopWatchdog
<1>4. TaskOK'
  BY DEF TaskOK
<1>5. OwnSession'
  BY <1>1, <1>2, <1>3 DEF OwnSession
<1>6. RegisteredWatchdogAlive'
  BY <1>1 DEF RegisteredWatchdogAlive, StopWatchdog
<1>7. WatchdogSingleFlight'
  <2>1. wdTimer' \subseteq wdRunning'
    BY DEF StopWatchdog, WatchdogSingleFlight
  <2> QED
    BY <1>1, <1>3, <2>1 DEF WatchdogSingleFlight
<1> QED
  BY <1>4, <1>5, <1>6, <1>7 DEF Watchdogs

\* Nothing the invariant reads changes.
LEMMA LeavesAlone ==
  ASSUME WatchdogInv, UNCHANGED wdVars, UNCHANGED task
  PROVE  Watchdogs'
  BY DEF WatchdogInv, Watchdogs, wdVars, TaskOK, OwnSession, Renewing,
         RegisteredWatchdogAlive, WatchdogSingleFlight

\* A PUT is served: nothing else carries the name of the new session.
LEMMA CloudOpensWatchdogs ==
  ASSUME WatchdogInv, NEW t \in Tasks, CloudOpens(t)
  PROVE  Watchdogs'
<1> USE DEF WatchdogInv, wdVars
<1>1. PICK s \in Unused, r \in Remotes :
        Goto(t, [task[t] EXCEPT !.pc = "opened", !.sess = s, !.remote = r])
  BY DEF CloudOpens
<1>2. task[t] \in TaskRec
  BY DEF TypeOK
<1>3. /\ task'[t] = [task[t] EXCEPT !.pc = "opened", !.sess = s, !.remote = r]
      /\ \A u \in Tasks : u # t => task'[u] = task[u]
  BY <1>1, Moved
<1>4. /\ task'[t].pc = "opened" /\ task'[t].sess = s
      /\ task'[t].kind = task[t].kind /\ task'[t].wd = task[t].wd
  BY <1>2, <1>3 DEF TaskRec
<1>5. UNCHANGED <<watchdog, wdRunning, wdTimer>>
  BY DEF CloudOpens
<1>6. s \in Sessions /\ s \notin wdRunning
      /\ \A u \in Tasks : task[u].sess # s /\ task[u].wd # s
  BY DEF Unused, InUse
<1>7. \A u \in Tasks : \A w : Renewing(u, w)' <=> Renewing(u, w)
  BY <1>3, <1>4 DEF Renewing
<1>8. TaskOK'
  BY <1>3, <1>4, <1>6 DEF TaskOK, Serving
<1>9. OwnSession'
  <2>1. ASSUME NEW v \in Tasks, task'[v].pc \in Serving
        PROVE  task'[v].sess \notin wdRunning'
    BY <2>1, <1>3, <1>4, <1>5, <1>6 DEF OwnSession
  <2>2. ASSUME NEW v \in Tasks, task'[v].pc \in Serving, NEW u \in Tasks
        PROVE  ~(task'[u].kind = "renew" /\ task'[u].wd = task'[v].sess)
    <3>1. task'[u].kind = task[u].kind /\ task'[u].wd = task[u].wd
      BY <1>3, <1>4
    <3>2. CASE v = t
      BY <3>1, <3>2, <1>4, <1>6
    <3>3. CASE v # t
      BY <3>1, <3>3, <2>2, <1>3 DEF OwnSession, Renewing
    <3> QED
      BY <3>2, <3>3
  <2>3. ASSUME NEW v \in Tasks, task'[v].pc \in Serving,
               NEW u \in Tasks, u # v, task'[u].pc \in Serving
        PROVE  task'[u].sess # task'[v].sess
    <3>1. CASE v = t
      BY <3>1, <2>3, <1>3, <1>4, <1>6
    <3>2. CASE u = t
      BY <3>2, <2>3, <1>3, <1>4, <1>6
    <3>3. CASE v # t /\ u # t
      BY <3>3, <2>3, <1>3 DEF OwnSession
    <3> QED
      BY <3>1, <3>2, <3>3
  <2> QED
    BY <2>1, <2>2, <2>3 DEF OwnSession, Renewing
<1>10. RegisteredWatchdogAlive' /\ WatchdogSingleFlight'
  BY <1>5, <1>7 DEF RegisteredWatchdogAlive, WatchdogSingleFlight
<1> QED
  BY <1>8, <1>9, <1>10 DEF Watchdogs

\* A watchdog is created: it carries a name that was the task's alone.
LEMMA ArmWatchdogWatchdogs ==
  ASSUME WatchdogInv, NEW t \in Tasks, ArmWatchdog(t)
  PROVE  Watchdogs'
<1> USE DEF WatchdogInv, wdVars
<1>1. task[t] \in TaskRec /\ task[t].pc = "arm" /\ task[t].kind # "renew"
  BY DEF TypeOK, ArmWatchdog
<1>2. /\ task'[t] = [task[t] EXCEPT !.pc = "ready"]
      /\ \A u \in Tasks : u # t => task'[u] = task[u]
  BY Moved DEF ArmWatchdog
<1>3. task'[t].pc = "ready" /\ task'[t].kind = task[t].kind
  BY <1>1, <1>2 DEF TaskRec
<1>4. CASE watchdog # None
  <2>1. UNCHANGED wdVars
    BY <1>4 DEF ArmWatchdog
  <2> QED
    BY <2>1, <1>1, <1>2, <1>3, BeginsOrEnds DEF Serving
<1>5. CASE watchdog = None
  <2> DEFINE s == task[t].sess
  <2>1. /\ watchdog' = s
        /\ wdRunning' = wdRunning \cup {s} /\ wdTimer' = wdTimer \cup {s}
    BY <1>5 DEF ArmWatchdog
  <2>2. /\ s \in Sessions /\ s \notin wdRunning
        /\ \A u \in Tasks : ~Renewing(u, s)
        /\ \A u \in Tasks : u # t /\ task[u].pc \in Serving => task[u].sess # s
    BY <1>1 DEF TaskOK, OwnSession, Serving
  <2>3. \A u \in Tasks : \A w : Renewing(u, w)' <=> Renewing(u, w)
    BY <1>1, <1>2, <1>3 DEF Renewing
  <2>4. \A u \in Tasks : task'[u].pc \in Serving => u # t /\ task'[u] = task[u]
    BY <1>2, <1>3 DEF Serving
  <2>5. TaskOK'
    BY <1>1, <1>2, <1>3, <2>4 DEF TaskOK
  <2>6. OwnSession'
    BY <2>1, <2>2, <2>3, <2>4 DEF OwnSession
  <2>7. RegisteredWatchdogAlive'
    BY <2>1 DEF RegisteredWatchdogAlive
  <2>8. WatchdogSingleFlight'
    BY <2>1, <2>2, <2>3 DEF WatchdogSingleFlight
  <2> QED
    BY <2>5, <2>6, <2>7, <2>8 DEF Watchdogs
<1> QED
  BY <1>4, <1>5

\* A renewal begins: it takes over from the timer.
LEMMA RenewFiresWatchdogs ==
  ASSUME WatchdogInv, NEW t \in Tasks, RenewFires(t)
  PROVE  Watchdogs'
<1> USE DEF WatchdogInv, wdVars
<1>1. PICK w \in wdTimer :
        /\ w \in wdRunning /\ wdTimer' = wdTimer \ {w}
        /\ Goto(t, [NoTask EXCEPT !.kind = "renew", !.pc = "opening",
                                  !.hq = streamQuality, !.wd = w])
  BY DEF RenewFires
<1>2. /\ task'[t].kind = "renew" /\ task'[t].pc = "opening" /\ task'[t].wd = w
      /\ \A u \in Tasks : u # t => task'[u] = task[u]
  <2>1. task'[t] = [NoTask EXCEPT !.kind = "renew", !.pc = "opening",
                                  !.hq = streamQuality, !.wd = w]
    BY <1>1, Moved
  <2> QED
    BY <2>1, <1>1, Moved DEF NoTask
<1>3. UNCHANGED <<watchdog, wdRunning>>
  BY DEF RenewFires
<1>4. task[t].kind # "renew" /\ w \in Sessions /\ \A u \in Tasks : ~Renewing(u, w)
  BY <1>1 DEF RenewFires, Idle, NoTask, TypeOK, WatchdogSingleFlight
<1>5. \A u \in Tasks, x \in Sessions :
        Renewing(u, x)' <=> (Renewing(u, x) \/ (u = t /\ x = w))
  BY <1>2, <1>4 DEF Renewing
<1>6. \A u \in Tasks : task'[u].pc \in Serving => u # t /\ task'[u] = task[u]
  BY <1>2 DEF Serving
<1>7. TaskOK'
  BY <1>2, <1>4 DEF TaskOK, Serving
<1>8. OwnSession'
  BY <1>1, <1>2, <1>3, <1>5, <1>6 DEF OwnSession, Renewing
<1>9. RegisteredWatchdogAlive'
  BY <1>1, <1>3, <1>5 DEF RegisteredWatchdogAlive, TypeOK
<1>10. WatchdogSingleFlight'
  <2>1. wdTimer' \subseteq wdRunning'
    BY <1>1, <1>3 DEF WatchdogSingleFlight
  <2> QED
    BY <2>1, <1>1, <1>4, <1>5 DEF WatchdogSingleFlight
<1> QED
  BY <1>7, <1>8, <1>9, <1>10 DEF Watchdogs

\* A renewal ends, refused or done.
LEMMA RenewFailsWatchdogs ==
  ASSUME WatchdogInv, NEW t \in Tasks, RenewFails(t)
  PROVE  Watchdogs'
<1> USE DEF WatchdogInv
<1>1. /\ watchdog' = None /\ wdRunning' = wdRunning \ {task[t].wd}
      /\ wdTimer' = wdTimer \ {task[t].wd}
  BY DEF RenewFails
<1>2. task'[t] = NoTask /\ \A u \in Tasks : u # t => task'[u] = task[u]
  BY Moved DEF RenewFails, Return
<1>3. task'[t].kind # "renew" /\ task'[t].pc \notin Serving
  BY <1>2 DEF NoTask, Serving
<1>4. \A u \in Tasks : \A w : Renewing(u, w)' => Renewing(u, w)
  BY <1>2, <1>3 DEF Renewing
<1>5. \A u \in Tasks : task'[u].pc \in Serving => task'[u] = task[u]
  BY <1>2, <1>3
<1>6. TaskOK'
  BY <1>2, <1>3 DEF TaskOK
<1>7. OwnSession'
  BY <1>1, <1>4, <1>5 DEF OwnSession
<1>8. RegisteredWatchdogAlive'
  BY <1>1 DEF RegisteredWatchdogAlive
<1>9. WatchdogSingleFlight'
  BY <1>1, <1>4 DEF WatchdogSingleFlight
<1> QED
  BY <1>6, <1>7, <1>8, <1>9 DEF Watchdogs

LEMMA RenewDoneWatchdogs ==
  ASSUME WatchdogInv, NEW t \in Tasks, RenewDone(t)
  PROVE  Watchdogs'
<1> USE DEF WatchdogInv
<1>0. PICK d \in Sessions : d = task[t].wd
  BY DEF TaskOK, RenewDone
<1>1. /\ wdTimer' = wdTimer \cup ({d} \cap wdRunning)
      /\ UNCHANGED <<watchdog, wdRunning>>
      /\ Renewing(t, d)
  BY <1>0 DEF RenewDone, Renewing
<1>2. task'[t] = NoTask /\ \A u \in Tasks : u # t => task'[u] = task[u]
  BY Moved DEF RenewDone, Return
<1>3. task'[t].kind # "renew" /\ task'[t].pc \notin Serving
  BY <1>2 DEF NoTask, Serving
<1>4. \A u \in Tasks : \A w : Renewing(u, w)' <=> Renewing(u, w) /\ u # t
  BY <1>2, <1>3 DEF Renewing
<1>5. \A u \in Tasks : task'[u].pc \in Serving => task'[u] = task[u]
  BY <1>2, <1>3
<1>7. \A u \in Tasks : ~Renewing(u, d)'
  <2>1. ASSUME NEW u \in Tasks, u # t PROVE ~Renewing(u, d)
    BY <2>1, <1>1 DEF WatchdogSingleFlight
  <2> QED
    BY <2>1, <1>4
<1>8. TaskOK'
  BY <1>2, <1>3 DEF TaskOK
<1>9. OwnSession'
  BY <1>1, <1>4, <1>5 DEF OwnSession
<1>10. RegisteredWatchdogAlive'
  BY <1>1, <1>4 DEF RegisteredWatchdogAlive, Renewing
<1>11. WatchdogSingleFlight'
  <2>1. wdTimer' \subseteq wdRunning'
    BY <1>1 DEF WatchdogSingleFlight
  <2> QED
    BY <2>1, <1>1, <1>4, <1>7 DEF WatchdogSingleFlight
<1> QED
  BY <1>8, <1>9, <1>10, <1>11 DEF Watchdogs

LEMMA ProgressWatchdogs ==
  ASSUME WatchdogInv, NEW t \in Tasks, Progress(t)
  PROVE  Watchdogs'
<1>0. /\ TypeOK /\ TaskOK /\ task[t] \in TaskRec
      /\ task[t].kind = "renew" => task[t].pc \in Serving \cup {"opening"}
  BY DEF WatchdogInv, TypeOK, TaskOK
\* the steps of upsertSession
<1>1. ASSUME UNCHANGED wdVars, task[t].pc \in Serving,
             NEW rec, Goto(t, rec),
             rec.kind = task[t].kind, rec.sess = task[t].sess, rec.wd = task[t].wd,
             rec.pc \in Serving
      PROVE  Watchdogs'
  BY <1>0, <1>1, Moved, GoesOn
<1>2. CASE SessionOpened(t)
  <2>1. \A x, y : LET r == [task[t] EXCEPT !.pc = "publish", !.px = x, !.remote = y]
                  IN  /\ r.kind = task[t].kind /\ r.sess = task[t].sess
                      /\ r.wd = task[t].wd /\ r.pc \in Serving
    BY <1>0 DEF TaskRec, Serving
  <2>2. /\ \A x : LET r == [task[t] EXCEPT !.pc = "swapping", !.px = x]
                  IN  /\ r.kind = task[t].kind /\ r.sess = task[t].sess
                      /\ r.wd = task[t].wd /\ r.pc \in Serving
        /\ LET r == [task[t] EXCEPT !.pc = "starting"]
           IN  /\ r.kind = task[t].kind /\ r.sess = task[t].sess
               /\ r.wd = task[t].wd /\ r.pc \in Serving
    BY <1>0 DEF TaskRec, Serving
  <2>3. task[t].pc \in Serving /\ UNCHANGED wdVars
    BY <1>2 DEF SessionOpened, Serving
  <2>4. CASE Goto(t, [task[t] EXCEPT !.pc = "publish", !.px = tlsProxy, !.remote = None])
    BY <2>1, <2>3, <2>4, <1>1
  <2>5. CASE Goto(t, [task[t] EXCEPT !.pc = "swapping", !.px = tlsProxy])
    BY <2>2, <2>3, <2>5, <1>1
  <2>6. CASE Goto(t, [task[t] EXCEPT !.pc = "starting"])
    BY <2>2, <2>3, <2>6, <1>1
  <2> QED
    BY <1>2, <2>4, <2>5, <2>6 DEF SessionOpened
<1>3. CASE ProxySwapped(t)
  <2> DEFINE r == [task[t] EXCEPT !.pc = "starting", !.px = None]
  <2>1. /\ r.kind = task[t].kind /\ r.sess = task[t].sess
        /\ r.wd = task[t].wd /\ r.pc \in Serving
    BY <1>0 DEF TaskRec, Serving
  <2>2. task[t].pc \in Serving /\ UNCHANGED wdVars /\ Goto(t, r)
    BY <1>3 DEF ProxySwapped, Serving
  <2> HIDE DEF r
  <2> QED
    BY <2>1, <2>2, <1>1
<1>4. CASE ProxyStarted(t)
  <2> DEFINE r == [task[t] EXCEPT !.pc = "publish", !.px = task[t].sess, !.remote = None]
  <2>1. /\ r.kind = task[t].kind /\ r.sess = task[t].sess
        /\ r.wd = task[t].wd /\ r.pc \in Serving
    BY <1>0 DEF TaskRec, Serving
  <2>2. task[t].pc \in Serving /\ UNCHANGED wdVars /\ Goto(t, r)
    BY <1>4 DEF ProxyStarted, Serving
  <2> HIDE DEF r
  <2> QED
    BY <2>1, <2>2, <1>1
<1>5. CASE ProxyStartFails(t)
  <2> DEFINE r == [task[t] EXCEPT !.pc = "arm", !.remote = None]
  <2>1. /\ r.kind = task[t].kind /\ r.sess = task[t].sess
        /\ r.wd = task[t].wd /\ r.pc \in Serving
    BY <1>0 DEF TaskRec, Serving
  <2>2. task[t].pc \in Serving /\ UNCHANGED wdVars /\ Goto(t, r)
    BY <1>5 DEF ProxyStartFails, Serving
  <2> HIDE DEF r
  <2> QED
    BY <2>1, <2>2, <1>1
<1>6. CASE PublishUrl(t)
  <2> DEFINE r == [task[t] EXCEPT !.pc = "arm", !.px = None]
  <2>1. /\ r.kind = task[t].kind /\ r.sess = task[t].sess
        /\ r.wd = task[t].wd /\ r.pc \in Serving
    BY <1>0 DEF TaskRec, Serving
  <2>2. task[t].pc \in Serving /\ UNCHANGED wdVars /\ Goto(t, r)
    BY <1>6 DEF PublishUrl, Serving
  <2> HIDE DEF r
  <2> QED
    BY <2>1, <2>2, <1>1
\* the steps that end a handler, and those of the teardown
<1>7. ASSUME UNCHANGED wdVars \/ StopWatchdog, task[t].kind # "renew",
             NEW rec, Goto(t, rec), rec.kind # "renew", rec.pc \notin Serving
      PROVE  Watchdogs'
  BY <1>0, <1>7, Moved, BeginsOrEnds
<1>8. NoTask.kind # "renew" /\ NoTask.pc \notin Serving
  BY DEF NoTask, Serving
<1>9. ASSUME task[t].pc \in {"stopping", "closing", "closed", "fetching"}
      PROVE  task[t].kind # "renew"
  BY <1>9, <1>0 DEF Serving
<1>10. \A p \in {"closed", "fetching"} :
         /\ [task[t] EXCEPT !.pc = p].kind = task[t].kind
         /\ [task[t] EXCEPT !.pc = p].pc \notin Serving
  BY <1>0 DEF TaskRec, Serving
<1>11. CASE OpenFails(t)
  BY <1>11, <1>7, <1>8 DEF OpenFails, Return
<1>12. CASE ProxyStopped(t)
  <2>1. /\ [NoTask EXCEPT !.kind = task[t].kind, !.pc = "closing"].kind = task[t].kind
        /\ [NoTask EXCEPT !.kind = task[t].kind, !.pc = "closing"].pc \notin Serving
    BY DEF NoTask, Serving
  <2>2. task[t].kind # "renew" /\ UNCHANGED wdVars
    BY <1>12, <1>9 DEF ProxyStopped
  <2>3. CASE Goto(t, [NoTask EXCEPT !.kind = task[t].kind, !.pc = "closing"])
    BY <2>1, <2>2, <2>3, <1>7
  <2>4. CASE Goto(t, NoTask)
    BY <2>2, <2>4, <1>7, <1>8
  <2> QED
    BY <1>12, <2>3, <2>4 DEF ProxyStopped, CloseSession, FinishTeardown, Return
<1>13. CASE CloudCloses(t) \/ DeleteLost(t)
  <2>1. /\ task[t].kind # "renew" /\ UNCHANGED wdVars
        /\ Goto(t, [task[t] EXCEPT !.pc = "closed"])
    BY <1>13, <1>9 DEF CloudCloses, DeleteLost
  <2> QED
    BY <2>1, <1>7, <1>10
<1>14. CASE SessionClosed(t)
  BY <1>14, <1>7, <1>8, <1>9 DEF SessionClosed, FinishTeardown, Return
<1>15. CASE SnapshotFetching(t)
  <2> DEFINE r == [task[t] EXCEPT !.pc = "fetching", !.live = livestreamEnabled]
  <2>1. r.kind = task[t].kind /\ r.pc \notin Serving
    BY <1>0 DEF TaskRec, Serving
  <2>2. task[t].kind # "renew" /\ UNCHANGED wdVars /\ Goto(t, r)
    BY <1>15 DEF SnapshotFetching
  <2> HIDE DEF r
  <2> QED
    BY <2>1, <2>2, <1>7
<1>16. CASE SnapshotDone(t)
  BY <1>16, <1>7, <1>8, <1>9 DEF SnapshotDone, Return
<1>17. CASE LivestreamStarted(t)
  BY <1>17, <1>7, <1>8 DEF LivestreamStarted, Return
<1>18. CASE QualityClosed(t)
  BY <1>18, <1>7, <1>8, <1>9 DEF QualityClosed, Return
<1> QED
  BY <1>2, <1>3, <1>4, <1>5, <1>6, <1>11, <1>12, <1>13, <1>14, <1>15, <1>16,
     <1>17, <1>18, CloudOpensWatchdogs, ArmWatchdogWatchdogs,
     RenewFailsWatchdogs, RenewDoneWatchdogs DEF Progress

\* A timer fires, or somebody asks for something.
LEMMA BeginsWatchdogs ==
  ASSUME WatchdogInv, NEW t \in Tasks, Timer(t) \/ Request(t)
  PROVE  Watchdogs'
<1>0. TypeOK
  BY DEF WatchdogInv
<1>1. ASSUME UNCHANGED wdVars \/ StopWatchdog, Idle(t),
             NEW rec, Goto(t, rec), rec.kind # "renew", rec.pc \notin Serving
      PROVE  Watchdogs'
  BY <1>0, <1>1, Moved, BeginsOrEnds DEF Idle, NoTask
<1>2. ASSUME NEW k, k # "renew", NEW p, p \notin Serving
      PROVE  /\ [NoTask EXCEPT !.kind = k, !.pc = p].kind # "renew"
             /\ [NoTask EXCEPT !.kind = k, !.pc = p].pc \notin Serving
             /\ \A x : LET r == [NoTask EXCEPT !.kind = k, !.pc = p, !.px = x]
                       IN  r.kind # "renew" /\ r.pc \notin Serving
  BY <1>2 DEF NoTask
<1>3. NoTask.kind # "renew" /\ NoTask.pc \notin Serving
  BY DEF NoTask, Serving
<1>4. ASSUME NEW k, k # "renew"
      PROVE  Entering(k).kind # "renew" /\ Entering(k).pc \notin Serving
  BY <1>4 DEF Entering, NoTask, Serving
<1>5. ASSUME NEW k, k # "renew", Idle(t), BeginTeardown(t, k)
      PROVE  Watchdogs'
  <2>1. CASE \/ Goto(t, [NoTask EXCEPT !.kind = k, !.pc = "stopping", !.px = tlsProxy])
             \/ Goto(t, [NoTask EXCEPT !.kind = k, !.pc = "closing"])
    <3>1. "stopping" \notin Serving /\ "closing" \notin Serving
      BY DEF Serving
    <3>2. CASE Goto(t, [NoTask EXCEPT !.kind = k, !.pc = "stopping", !.px = tlsProxy])
      BY <3>1, <3>2, <1>1, <1>2, <1>5 DEF BeginTeardown
    <3>3. CASE Goto(t, [NoTask EXCEPT !.kind = k, !.pc = "closing"])
      BY <3>1, <3>3, <1>1, <1>2, <1>5 DEF BeginTeardown
    <3> QED
      BY <2>1, <3>2, <3>3
  <2>2. CASE Goto(t, NoTask)
    BY <2>2, <1>1, <1>3, <1>5 DEF BeginTeardown
  <2> QED
    BY <1>5, <2>1, <2>2 DEF BeginTeardown, CloseSession, FinishTeardown, Return
<1>6. CASE IdleFires(t)
  BY <1>6, <1>5 DEF IdleFires
<1>7. CASE SnapshotTrigger(t)
  BY <1>7, <1>1, <1>4 DEF SnapshotTrigger
<1>8. CASE LivestreamOn(t)
  <2>1. CASE UNCHANGED task
    BY <1>8, <2>1, LeavesAlone DEF LivestreamOn
  <2>2. CASE Goto(t, Entering("liveOn"))
    BY <1>8, <2>2, <1>1, <1>4 DEF LivestreamOn
  <2> QED
    BY <1>8, <2>1, <2>2 DEF LivestreamOn
<1>9. CASE LivestreamOff(t)
  <2>1. CASE livestreamEnabled
    BY <1>9, <2>1, <1>5 DEF LivestreamOff
  <2>2. CASE ~livestreamEnabled
    BY <1>9, <2>2, LeavesAlone DEF LivestreamOff
  <2> QED
    BY <2>1, <2>2
<1>10. CASE QualityChange(t)
  <2>1. CASE Goto(t, [NoTask EXCEPT !.kind = "quality", !.pc = "closing"])
             /\ UNCHANGED wdVars
    <3>1. "closing" \notin Serving
      BY DEF Serving
    <3> QED
      BY <1>10, <2>1, <3>1, <1>1, <1>2 DEF QualityChange
  <2>2. CASE StopWatchdog /\ UNCHANGED task
    <3>1. task'[t] = task[t] /\ task[t] = NoTask
      BY <1>10, <2>2 DEF QualityChange, Idle
    <3> QED
      BY <2>2, <3>1, <1>3, BeginsOrEnds
  <2> QED
    BY <1>10, <2>1, <2>2 DEF QualityChange
<1> QED
  BY <1>6, <1>7, <1>8, <1>9, <1>10, RenewFiresWatchdogs DEF Timer, Request

LEMMA NextWatchdogs == WatchdogInv /\ [Next]_vars => WatchdogInv'
<1> SUFFICES ASSUME WatchdogInv, [Next]_vars PROVE WatchdogInv'
  OBVIOUS
<1>1. TypeOK'
  BY NextTyped DEF WatchdogInv
<1>2. ASSUME \/ BreakerOpens \/ ConnectionsEnd \/ SessionAges \/ SessionEnds
             \/ UNCHANGED vars
      PROVE  Watchdogs'
  BY <1>2, LeavesAlone DEF BreakerOpens, ConnectionsEnd, SessionAges, SessionEnds, vars
<1>3. Watchdogs'
  BY <1>2, ProgressWatchdogs, BeginsWatchdogs DEF Next
<1> QED
  BY <1>1, <1>3 DEF WatchdogInv, Watchdogs

LEMMA InitWatchdogs == Init => WatchdogInv
<1> SUFFICES ASSUME Init PROVE WatchdogInv
  OBVIOUS
<1>1. \A t \in Tasks : task[t] = NoTask
  BY DEF Init
<1>2. \A t \in Tasks : task[t].kind # "renew" /\ task[t].pc \notin Serving
  BY <1>1 DEF NoTask, Serving
<1>3. TaskOK /\ OwnSession
  BY <1>2 DEF TaskOK, OwnSession
<1>4. RegisteredWatchdogAlive /\ WatchdogSingleFlight
  BY <1>2 DEF Init, RegisteredWatchdogAlive, WatchdogSingleFlight, Renewing
<1> QED
  BY <1>3, <1>4, InitTyped DEF WatchdogInv

--------------------------------------------------------------------------------
(* The theorems *)

\* WatchdogInv is an invariant: typing, the ownership of a session by the task
\* that opened it, and the two properties of the watchdogs.
THEOREM WatchdogInvariant == Spec => []WatchdogInv
  BY InitWatchdogs, NextWatchdogs, PTL DEF Spec

\* Every variable keeps its type (the maps and flags of main.ts).
THEOREM TypeCorrect == Spec => []TypeOK
<1>1. WatchdogInv => TypeOK
  BY DEF WatchdogInv
<1> QED
  BY <1>1, WatchdogInvariant, PTL

\* A registered watchdog always has its next renewal ahead of it, however many
\* snapshots, toggles, quality changes and renewals overlap.
THEOREM RegisteredAlive == Spec => []RegisteredWatchdogAlive
<1>1. WatchdogInv => RegisteredWatchdogAlive
  BY DEF WatchdogInv
<1> QED
  BY <1>1, WatchdogInvariant, PTL

\* A watchdog never has two renewals ahead of it, and a stopped one never has
\* its timer armed again.
THEOREM SingleFlight == Spec => []WatchdogSingleFlight
<1>1. WatchdogInv => WatchdogSingleFlight
  BY DEF WatchdogInv
<1> QED
  BY <1>1, WatchdogInvariant, PTL
================================================================================
