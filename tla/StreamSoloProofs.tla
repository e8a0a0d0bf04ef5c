---------------------------- MODULE StreamSoloProofs ----------------------------
(***************************************************************************)
(* Theorems about StreamSession when its handlers do not overlap, and      *)
(* about snapshots that do: what they leave behind when none is under way. *)
(***************************************************************************)
EXTENDS StreamSessionProofs

--------------------------------------------------------------------------------
(***************************************************************************)
(* What the steps do to the fields the invariants below read: kind and pc  *)
(* of the handler, what it remembers, and the entries of the maps.         *)
(***************************************************************************)

\* How a step changes the handler that takes it.
Ends(t) == task'[t].kind = "none" /\ task'[t].pc = "idle" /\ ~task'[t].live

Begins(t, k, p) ==
  task[t].pc = "idle" /\ task'[t].kind = k /\ task'[t].pc = p /\ ~task'[t].live

Advances(t, p, q) ==
  /\ task[t].pc = p /\ task'[t].pc = q
  /\ task'[t].kind = task[t].kind /\ task'[t].wd = task[t].wd
  /\ task'[t].hq = task[t].hq

KeepsSession(t) ==
  task'[t].sess = task[t].sess /\ task'[t].live = task[t].live

KeepsFlags    == UNCHANGED <<livestreamEnabled, streamQuality>>
KeepsCache    == UNCHANGED <<liveSession, liveHq>>
KeepsProxy    == UNCHANGED <<tlsProxy, listening>>
KeepsWatchdog == UNCHANGED <<watchdog, wdRunning>>

Opens(t) ==
  /\ Advances(t, "opening", "opened") /\ cloudSession' = task'[t].sess
  /\ task'[t].sess \in Sessions /\ task'[t].live = task[t].live
  /\ KeepsFlags /\ KeepsCache /\ KeepsProxy /\ KeepsWatchdog
  /\ UNCHANGED <<streamUrl, idleTimer>>

Caches(t) ==
  /\ liveSession' = task[t].sess /\ liveHq' = task[t].hq /\ KeepsSession(t)
  /\ \/ /\ Advances(t, "opened", "publish") /\ KeepsProxy
        /\ tlsProxy # None /\ task'[t].px = tlsProxy
     \/ /\ Advances(t, "opened", "swapping") /\ tlsProxy # None
        /\ listening' = listening \ {tlsProxy} /\ UNCHANGED tlsProxy
     \/ /\ Advances(t, "opened", "starting") /\ tlsProxy = None /\ KeepsProxy
  /\ KeepsFlags /\ KeepsWatchdog /\ UNCHANGED <<cloudVars, streamUrl, idleTimer>>

Swaps(t) ==
  /\ Advances(t, "swapping", "starting") /\ tlsProxy' = None /\ KeepsSession(t)
  /\ KeepsFlags /\ KeepsCache /\ KeepsWatchdog
  /\ UNCHANGED <<cloudVars, streamUrl, idleTimer, listening>>

Starts(t) ==
  /\ Advances(t, "starting", "publish") /\ KeepsSession(t)
  /\ tlsProxy' = task[t].sess /\ listening' = listening \cup {task[t].sess}
  /\ task'[t].px = task[t].sess
  /\ KeepsFlags /\ KeepsCache /\ KeepsWatchdog
  /\ UNCHANGED <<cloudVars, streamUrl, idleTimer>>

FailsToStart(t) ==
  /\ "bindFails" \in Faults
  /\ Advances(t, "starting", "arm") /\ KeepsSession(t)
  /\ KeepsFlags /\ KeepsCache /\ KeepsProxy /\ KeepsWatchdog
  /\ UNCHANGED <<cloudVars, streamUrl, idleTimer>>

Publishes(t) ==
  /\ Advances(t, "publish", "arm") /\ KeepsSession(t)
  /\ streamUrl' = task[t].px
  /\ KeepsFlags /\ KeepsCache /\ KeepsProxy /\ KeepsWatchdog
  /\ UNCHANGED <<cloudVars, idleTimer>>

Arms(t) ==
  /\ Advances(t, "arm", "ready") /\ KeepsSession(t) /\ task[t].kind # "renew"
  /\ \/ /\ watchdog = None /\ watchdog' = task[t].sess
        /\ wdRunning' = wdRunning \cup {task[t].sess}
     \/ watchdog # None /\ KeepsWatchdog
  /\ KeepsFlags /\ KeepsCache /\ KeepsProxy
  /\ UNCHANGED <<cloudVars, streamUrl, idleTimer>>

GivesUp(t) ==
  /\ task[t].pc \in {"opening", "opened"} /\ Ends(t)
  /\ task[t].pc = "opened" => "answerLost" \in Faults
  /\ KeepsFlags /\ KeepsCache /\ UNCHANGED <<cloudSession, idleTimer>>
  /\ adrift' = (adrift \/ (task[t].pc = "opened" /\ cloudSession = task[t].sess))
  /\ \/ /\ task[t].kind # "renew"
        /\ KeepsProxy /\ KeepsWatchdog /\ UNCHANGED streamUrl
     \/ /\ task[t].kind = "renew"
        /\ watchdog' = None /\ wdRunning' = wdRunning \ {task[t].wd}
        /\ listening' = listening \ {tlsProxy} /\ tlsProxy' = None /\ streamUrl' = None

\* Ends without a trace: a renewal, a livestream that has started.
Returns(t) ==
  /\ \/ task[t].pc = "arm" /\ task[t].kind = "renew"
     \/ task[t].pc = "ready" /\ task[t].kind = "liveOn"
  /\ Ends(t)
  /\ KeepsFlags /\ KeepsCache /\ KeepsProxy /\ KeepsWatchdog
  /\ UNCHANGED <<cloudVars, streamUrl, idleTimer>>

Fetches(t) ==
  /\ Advances(t, "ready", "fetching") /\ task[t].kind = "snapshot"
  /\ task'[t].live = livestreamEnabled
  /\ KeepsFlags /\ KeepsCache /\ KeepsProxy /\ KeepsWatchdog
  /\ UNCHANGED <<cloudVars, streamUrl, idleTimer>>

Fetched(t) ==
  /\ task[t].pc = "fetching" /\ Ends(t)
  /\ task[t].live => idleTimer' = idleTimer
  /\ ~task[t].live => idleTimer' = TRUE
  /\ KeepsFlags /\ KeepsCache /\ KeepsProxy /\ KeepsWatchdog
  /\ UNCHANGED <<cloudVars, streamUrl>>

Deletes(t) ==
  /\ Advances(t, "closing", "closed") /\ KeepsSession(t)
  /\ cloudSession' = None \/ adrift'
  /\ KeepsFlags /\ KeepsCache /\ KeepsProxy /\ KeepsWatchdog
  /\ UNCHANGED <<streamUrl, idleTimer>>

\* CloseSession(t, k).
Closes(t, k) ==
  /\ tlsProxy' = None /\ UNCHANGED <<cloudVars, liveHq>>
  /\ \/ /\ liveSession # None
        /\ task'[t].kind = k /\ task'[t].pc = "closing" /\ ~task'[t].live
        /\ UNCHANGED <<liveSession, streamUrl>>
     \/ /\ liveSession = None
        /\ Ends(t) /\ liveSession' = None /\ streamUrl' = None

Stopped(t) ==
  /\ task[t].pc = "stopping" /\ Closes(t, task[t].kind)
  /\ KeepsFlags /\ KeepsWatchdog /\ UNCHANGED <<listening, idleTimer>>

TornDown(t) ==
  /\ task[t].pc = "closed" /\ task[t].kind # "quality" /\ Ends(t)
  /\ liveSession' = None /\ streamUrl' = None
  /\ KeepsFlags /\ KeepsProxy /\ KeepsWatchdog /\ UNCHANGED <<cloudVars, liveHq, idleTimer>>

Requalified(t) ==
  /\ task[t].pc = "closed" /\ task[t].kind = "quality" /\ Ends(t)
  /\ liveSession' = None
  /\ watchdog' = None /\ wdRunning' = wdRunning \ {watchdog}
  /\ KeepsFlags /\ KeepsProxy /\ UNCHANGED <<cloudVars, liveHq, streamUrl, idleTimer>>

Enters(t, k) ==
  \/ Begins(t, k, "ready")
  \/ Begins(t, k, "opening") /\ task'[t].hq = streamQuality

BeginsSnapshot(t) ==
  /\ "snapshot" \in Kinds /\ Enters(t, "snapshot")
  /\ KeepsFlags /\ KeepsCache /\ KeepsProxy /\ KeepsWatchdog
  /\ UNCHANGED <<cloudVars, streamUrl, idleTimer>>

BeginsLive(t) ==
  /\ "liveOn" \in Kinds /\ Enters(t, "liveOn")
  /\ livestreamEnabled' = TRUE /\ idleTimer' = FALSE
  /\ UNCHANGED streamQuality /\ KeepsCache /\ KeepsProxy /\ KeepsWatchdog
  /\ UNCHANGED <<cloudVars, streamUrl>>

BeginsRenewal(t) ==
  /\ "renew" \in Kinds /\ Begins(t, "renew", "opening") /\ task'[t].hq = streamQuality
  /\ task'[t].wd \in wdRunning
  /\ KeepsFlags /\ KeepsCache /\ KeepsProxy /\ KeepsWatchdog
  /\ UNCHANGED <<cloudVars, streamUrl, idleTimer>>

BeginsTeardown(t) ==
  /\ \E k \in {"idle", "liveOff"} :
       /\ k \in Kinds
       /\ k = "idle" => idleTimer /\ UNCHANGED livestreamEnabled
       /\ k = "liveOff" => livestreamEnabled' = FALSE
       /\ \/ /\ tlsProxy # None /\ Begins(t, k, "stopping")
             /\ KeepsCache /\ UNCHANGED <<cloudVars, tlsProxy, streamUrl>>
          \/ tlsProxy = None /\ task[t].pc = "idle" /\ Closes(t, k)
  /\ idleTimer' = FALSE
  /\ watchdog' = None /\ wdRunning' = wdRunning \ {watchdog}
  /\ listening' = listening \ {tlsProxy}
  /\ UNCHANGED streamQuality

ChangesQuality(t) ==
  /\ "quality" \in Kinds
  /\ \/ liveSession # None /\ Begins(t, "quality", "closing") /\ KeepsWatchdog
     \/ /\ liveSession = None /\ task[t].pc = "idle" /\ UNCHANGED task
        /\ watchdog' = None /\ wdRunning' = wdRunning \ {watchdog}
  /\ UNCHANGED livestreamEnabled /\ KeepsCache /\ KeepsProxy
  /\ UNCHANGED <<cloudVars, streamUrl, idleTimer>>

\* What happens around the handlers.
Around ==
  /\ UNCHANGED task /\ listening' \subseteq listening
  /\ KeepsFlags /\ KeepsCache /\ KeepsWatchdog
  /\ UNCHANGED <<tlsProxy, streamUrl, idleTimer>>
  /\ \/ UNCHANGED cloudVars
     \/ cloudSession' = None

Steps(t) ==
  \/ Opens(t) \/ Caches(t) \/ Swaps(t) \/ Starts(t) \/ FailsToStart(t) \/ Publishes(t)
  \/ Arms(t) \/ GivesUp(t) \/ Returns(t) \/ Fetches(t) \/ Fetched(t) \/ Deletes(t)
  \/ Stopped(t) \/ TornDown(t) \/ Requalified(t) \/ BeginsSnapshot(t)
  \/ BeginsLive(t) \/ BeginsRenewal(t) \/ BeginsTeardown(t) \/ ChangesQuality(t)

LEMMA IdleIs ==
  ASSUME NEW t \in Tasks, Idle(t)
  PROVE  task[t].pc = "idle" /\ task[t].kind = "none" /\ ~task[t].live
  BY DEF Idle, NoTask

\* The handler a step leaves behind.
LEMMA Left ==
  ASSUME TypeOK, NEW t \in Tasks
  PROVE  /\ Return(t) => Ends(t)
         /\ \A k \in AllKinds \cup {"none"}, p \in PCs :
              \/ Goto(t, [NoTask EXCEPT !.kind = k, !.pc = p])
              \/ \E x : Goto(t, [NoTask EXCEPT !.kind = k, !.pc = p, !.px = x])
              => task'[t].kind = k /\ task'[t].pc = p /\ ~task'[t].live
<1>1. Return(t) => Ends(t)
  <2>1. ASSUME Return(t) PROVE task'[t] = NoTask
    BY <2>1, Moved DEF Return
  <2> QED
    BY <2>1 DEF Ends, NoTask
<1>2. ASSUME NEW k \in AllKinds \cup {"none"}, NEW p \in PCs,
             \/ Goto(t, [NoTask EXCEPT !.kind = k, !.pc = p])
             \/ \E x : Goto(t, [NoTask EXCEPT !.kind = k, !.pc = p, !.px = x])
      PROVE  task'[t].kind = k /\ task'[t].pc = p /\ ~task'[t].live
  <2>1. \/ task'[t] = [NoTask EXCEPT !.kind = k, !.pc = p]
        \/ \E x : task'[t] = [NoTask EXCEPT !.kind = k, !.pc = p, !.px = x]
    BY <1>2, Moved
  <2> QED
    BY <2>1 DEF NoTask
<1> QED
  BY <1>1, <1>2

LEMMA Others ==
  ASSUME TypeOK, NEW t \in Tasks, Progress(t) \/ Timer(t) \/ Request(t)
  PROVE  \A u \in Tasks : u # t => task'[u] = task[u]
<1>1. \A rec : Goto(t, rec) => \A u \in Tasks : u # t => task'[u] = task[u]
  BY Moved
<1>2. Return(t) => \A u \in Tasks : u # t => task'[u] = task[u]
  BY <1>1 DEF Return
<1>3. ASSUME NEW k, CloseSession(t, k) \/ BeginTeardown(t, k)
      PROVE  \A u \in Tasks : u # t => task'[u] = task[u]
  BY <1>1, <1>2, <1>3 DEF CloseSession, BeginTeardown, FinishTeardown
<1>4. CASE Progress(t)
  BY <1>1, <1>2, <1>3, <1>4
     DEF Progress, CloudOpens, SessionOpened, OpenFails, ProxySwapped, ProxyStarted,
         ProxyStartFails, PublishUrl, ArmWatchdog, RenewFails, RenewDone, ProxyStopped,
         CloudCloses, DeleteLost, SessionClosed, SnapshotFetching, SnapshotDone,
         LivestreamStarted, QualityClosed, FinishTeardown
<1>5. CASE Timer(t)
  BY <1>1, <1>3, <1>5 DEF Timer, IdleFires, RenewFires
<1>6. CASE Request(t)
  BY <1>1, <1>3, <1>6
     DEF Request, SnapshotTrigger, LivestreamOn, LivestreamOff, QualityChange
<1> QED
  BY <1>4, <1>5, <1>6

LEMMA ProgressSteps ==
  ASSUME TypeOK, NEW t \in Tasks, Progress(t)
  PROVE  Steps(t)
<1> USE DEF flagVars, sessionVars, cloudVars, proxyVars, wdVars, KeepsFlags, KeepsCache,
            KeepsProxy, KeepsWatchdog
<1>0. task[t] \in TaskRec
  BY DEF TypeOK
<1>r. Return(t) => Ends(t)
  BY Left
<1>m. \A rec : Goto(t, rec) => task'[t] = rec
  BY Moved
<1>1. CASE CloudOpens(t)
  <2>1. PICK s \in Unused, r \in Remotes :
          /\ cloudSession' = s
          /\ task'[t] = [task[t] EXCEPT !.pc = "opened", !.sess = s, !.remote = r]
    BY <1>1, <1>m DEF CloudOpens
  <2>2. /\ task'[t].pc = "opened" /\ task'[t].sess = s /\ task'[t].kind = task[t].kind
        /\ task'[t].wd = task[t].wd /\ task'[t].hq = task[t].hq
        /\ task'[t].live = task[t].live
    BY <1>0, <2>1 DEF TaskRec
  <2>3. s \in Sessions
    BY DEF Unused
  <2> QED
    BY <1>1, <2>1, <2>2, <2>3 DEF CloudOpens, Opens, Advances, Steps
<1>2. CASE SessionOpened(t)
  <2>u. /\ task[t].pc = "opened" /\ liveSession' = task[t].sess /\ liveHq' = task[t].hq
        /\ KeepsFlags /\ KeepsWatchdog /\ UNCHANGED <<cloudVars, streamUrl, idleTimer>>
        /\ UNCHANGED tlsProxy
    BY <1>2 DEF SessionOpened
  <2>1. CASE task'[t] = [task[t] EXCEPT !.pc = "publish", !.px = tlsProxy, !.remote = None]
             /\ tlsProxy # None /\ UNCHANGED listening
    <3>1. /\ task'[t].pc = "publish" /\ task'[t].px = tlsProxy
          /\ task'[t].sess = task[t].sess /\ task'[t].kind = task[t].kind
          /\ task'[t].wd = task[t].wd /\ task'[t].hq = task[t].hq
          /\ task'[t].live = task[t].live
      BY <1>0, <2>1 DEF TaskRec
    <3> QED
      BY <2>1, <2>u, <3>1 DEF Caches, Advances, KeepsSession, Steps
  <2>2. CASE task'[t] = [task[t] EXCEPT !.pc = "swapping", !.px = tlsProxy]
             /\ tlsProxy # None /\ listening' = listening \ {tlsProxy}
    <3>1. /\ task'[t].pc = "swapping"
          /\ task'[t].sess = task[t].sess /\ task'[t].kind = task[t].kind
          /\ task'[t].wd = task[t].wd /\ task'[t].hq = task[t].hq
          /\ task'[t].live = task[t].live
      BY <1>0, <2>2 DEF TaskRec
    <3> QED
      BY <2>2, <2>u, <3>1 DEF Caches, Advances, KeepsSession, Steps
  <2>3. CASE task'[t] = [task[t] EXCEPT !.pc = "starting"]
             /\ tlsProxy = None /\ UNCHANGED listening
    <3>1. /\ task'[t].pc = "starting"
          /\ task'[t].sess = task[t].sess /\ task'[t].kind = task[t].kind
          /\ task'[t].wd = task[t].wd /\ task'[t].hq = task[t].hq
          /\ task'[t].live = task[t].live
      BY <1>0, <2>3 DEF TaskRec
    <3> QED
      BY <2>3, <2>u, <3>1 DEF Caches, Advances, KeepsSession, Steps
  <2> QED
    BY <1>2, <1>m, <2>1, <2>2, <2>3 DEF SessionOpened, HotReuse, StopProxy
<1>3. CASE OpenFails(t)
  <2>1. /\ task[t].pc \in {"opening", "opened"}
        /\ task[t].pc = "opened" => "answerLost" \in Faults
    BY <1>3 DEF OpenFails, Rejected
  <2> QED
    BY <1>3, <1>r, <2>1 DEF OpenFails, LosesAnswer, GivesUp, Steps
<1>4. CASE ProxySwapped(t)
  <2>1. task'[t] = [task[t] EXCEPT !.pc = "starting", !.px = None]
    BY <1>4, <1>m DEF ProxySwapped
  <2>2. /\ task'[t].pc = "starting"
        /\ task'[t].sess = task[t].sess /\ task'[t].kind = task[t].kind
        /\ task'[t].wd = task[t].wd /\ task'[t].hq = task[t].hq
        /\ task'[t].live = task[t].live
    BY <1>0, <2>1 DEF TaskRec
  <2> QED
    BY <1>4, <2>2 DEF ProxySwapped, Swaps, Advances, KeepsSession, Steps
<1>5. CASE ProxyStarted(t)
  <2>1. task'[t] = [task[t] EXCEPT !.pc = "publish", !.px = task[t].sess, !.remote = None]
    BY <1>5, <1>m DEF ProxyStarted
  <2>2. /\ task'[t].pc = "publish" /\ task'[t].px = task[t].sess
        /\ task'[t].sess = task[t].sess /\ task'[t].kind = task[t].kind
        /\ task'[t].wd = task[t].wd /\ task'[t].hq = task[t].hq
        /\ task'[t].live = task[t].live
    BY <1>0, <2>1 DEF TaskRec
  <2> QED
    BY <1>5, <2>2 DEF ProxyStarted, Starts, Advances, KeepsSession, Steps
<1>6. CASE ProxyStartFails(t)
  <2>1. task'[t] = [task[t] EXCEPT !.pc = "arm", !.remote = None]
    BY <1>6, <1>m DEF ProxyStartFails
  <2>2. /\ task'[t].pc = "arm"
        /\ task'[t].sess = task[t].sess /\ task'[t].kind = task[t].kind
        /\ task'[t].wd = task[t].wd /\ task'[t].hq = task[t].hq
        /\ task'[t].live = task[t].live
    BY <1>0, <2>1 DEF TaskRec
  <2> QED
    BY <1>6, <2>2 DEF ProxyStartFails, FailsToStart, Advances, KeepsSession, Steps
<1>7. CASE PublishUrl(t)
  <2>1. task'[t] = [task[t] EXCEPT !.pc = "arm", !.px = None]
    BY <1>7, <1>m DEF PublishUrl
  <2>2. /\ task'[t].pc = "arm"
        /\ task'[t].sess = task[t].sess /\ task'[t].kind = task[t].kind
        /\ task'[t].wd = task[t].wd /\ task'[t].hq = task[t].hq
        /\ task'[t].live = task[t].live
    BY <1>0, <2>1 DEF TaskRec
  <2> QED
    BY <1>7, <2>2 DEF PublishUrl, Publishes, Advances, KeepsSession, Steps
<1>8. CASE ArmWatchdog(t)
  <2>1. task'[t] = [task[t] EXCEPT !.pc = "ready"]
    BY <1>8, <1>m DEF ArmWatchdog
  <2>2. /\ task'[t].pc = "ready"
        /\ task'[t].sess = task[t].sess /\ task'[t].kind = task[t].kind
        /\ task'[t].wd = task[t].wd /\ task'[t].hq = task[t].hq
        /\ task'[t].live = task[t].live
    BY <1>0, <2>1 DEF TaskRec
  <2> QED
    BY <1>8, <2>2 DEF ArmWatchdog, Arms, Advances, KeepsSession, Steps
<1>9. CASE RenewFails(t)
  <2>1. /\ task[t].pc \in {"opening", "opened"}
        /\ task[t].pc = "opened" => "answerLost" \in Faults
    BY <1>9 DEF RenewFails, Rejected
  <2> QED
    BY <1>9, <1>r, <2>1 DEF RenewFails, LosesAnswer, StopProxy, GivesUp, Steps
<1>10. CASE RenewDone(t)
  BY <1>10, <1>r DEF RenewDone, Returns, Steps
<1>11. CASE ProxyStopped(t)
  <2>1. task[t].kind \in AllKinds \cup {"none"} /\ "closing" \in PCs
    BY <1>0 DEF TaskRec, PCs
  <2>2. CloseSession(t, task[t].kind)
    BY <1>11 DEF ProxyStopped
  <2>3. Closes(t, task[t].kind)
    <3>1. CASE liveSession # None
      <4>1. /\ Goto(t, [NoTask EXCEPT !.kind = task[t].kind, !.pc = "closing"])
            /\ tlsProxy' = None
            /\ UNCHANGED <<liveSession, liveHq, cloudVars, streamUrl>>
        BY <2>2, <3>1 DEF CloseSession
      <4> QED
        BY <2>1, <3>1, <4>1, Left DEF Closes
    <3>2. CASE liveSession = None
      BY <2>2, <3>2, <1>r DEF CloseSession, FinishTeardown, Closes
    <3> QED
      BY <3>1, <3>2
  <2> QED
    BY <1>11, <2>3 DEF ProxyStopped, Stopped, Steps
<1>12. CASE CloudCloses(t)
  <2>1. task'[t] = [task[t] EXCEPT !.pc = "closed"]
    BY <1>12, <1>m DEF CloudCloses
  <2>2. /\ task'[t].pc = "closed"
        /\ task'[t].sess = task[t].sess /\ task'[t].kind = task[t].kind
        /\ task'[t].wd = task[t].wd /\ task'[t].hq = task[t].hq
        /\ task'[t].live = task[t].live
    BY <1>0, <2>1 DEF TaskRec
  <2> QED
    BY <1>12, <2>2 DEF CloudCloses, Deletes, Advances, KeepsSession, Steps
<1>13. CASE DeleteLost(t)
  <2>1. task'[t] = [task[t] EXCEPT !.pc = "closed"]
    BY <1>13, <1>m DEF DeleteLost
  <2>2. /\ task'[t].pc = "closed"
        /\ task'[t].sess = task[t].sess /\ task'[t].kind = task[t].kind
        /\ task'[t].wd = task[t].wd /\ task'[t].hq = task[t].hq
        /\ task'[t].live = task[t].live
    BY <1>0, <2>1 DEF TaskRec
  <2> QED
    BY <1>13, <2>2 DEF DeleteLost, Deletes, Advances, KeepsSession, Steps
<1>14. CASE SessionClosed(t)
  BY <1>14, <1>r DEF SessionClosed, FinishTeardown, TornDown, Steps
<1>15. CASE SnapshotFetching(t)
  <2>1. task'[t] = [task[t] EXCEPT !.pc = "fetching", !.live = livestreamEnabled]
    BY <1>15, <1>m DEF SnapshotFetching
  <2>2. /\ task'[t].pc = "fetching"
        /\ task'[t].live = livestreamEnabled /\ task'[t].kind = task[t].kind
        /\ task'[t].wd = task[t].wd /\ task'[t].hq = task[t].hq
    BY <1>0, <2>1 DEF TaskRec
  <2> QED
    BY <1>15, <2>2 DEF SnapshotFetching, Fetches, Advances, Steps
<1>16. CASE SnapshotDone(t)
  <2>1. task[t].live \in BOOLEAN /\ idleTimer \in BOOLEAN
    BY <1>0 DEF TaskRec, TypeOK
  <2>2. /\ task[t].live => idleTimer' = idleTimer
        /\ ~task[t].live => idleTimer' = TRUE
    BY <1>16, <2>1 DEF SnapshotDone
  <2> QED
    BY <1>16, <1>r, <2>2 DEF SnapshotDone, Fetched, Steps
<1>17. CASE LivestreamStarted(t)
  BY <1>17, <1>r DEF LivestreamStarted, Returns, Steps
<1>18. CASE QualityClosed(t)
  BY <1>18, <1>r DEF QualityClosed, StopWatchdog, Requalified, Steps
<1> QED
  BY <1>1, <1>2, <1>3, <1>4, <1>5, <1>6, <1>7, <1>8, <1>9, <1>10, <1>11,
     <1>12, <1>13, <1>14, <1>15, <1>16, <1>17, <1>18 DEF Progress

LEMMA EnteringEnters ==
  ASSUME TypeOK, NEW t \in Tasks, NEW k \in AllKinds, Idle(t), Goto(t, Entering(k))
  PROVE  Enters(t, k)
<1>0. task[t].pc = "idle"
  BY IdleIs
<1>1. task'[t] = Entering(k)
  BY Moved
<1>2. CASE Entering(k) = [NoTask EXCEPT !.kind = k, !.pc = "ready", !.sess = liveSession]
  <2>1. task'[t].kind = k /\ task'[t].pc = "ready" /\ ~task'[t].live
    BY <1>1, <1>2 DEF NoTask
  <2> QED
    BY <1>0, <2>1 DEF Enters, Begins
<1>3. CASE Entering(k) = [NoTask EXCEPT !.kind = k, !.pc = "opening", !.hq = streamQuality]
  <2>1. /\ task'[t].kind = k /\ task'[t].pc = "opening" /\ ~task'[t].live
        /\ task'[t].hq = streamQuality
    BY <1>1, <1>3 DEF NoTask
  <2> QED
    BY <1>0, <2>1 DEF Enters, Begins
<1> QED
  BY <1>2, <1>3 DEF Entering

LEMMA TeardownBegins ==
  ASSUME TypeOK, NEW t \in Tasks, NEW k \in {"idle", "liveOff"}, Idle(t),
         BeginTeardown(t, k)
  PROVE  /\ \/ /\ tlsProxy # None /\ Begins(t, k, "stopping")
               /\ KeepsCache /\ UNCHANGED <<cloudVars, tlsProxy, streamUrl>>
            \/ tlsProxy = None /\ task[t].pc = "idle" /\ Closes(t, k)
         /\ idleTimer' = FALSE
         /\ watchdog' = None /\ wdRunning' = wdRunning \ {watchdog}
         /\ listening' = listening \ {tlsProxy}
<1> USE DEF KeepsCache, sessionVars, cloudVars
<1>0. task[t].pc = "idle" /\ k \in AllKinds \cup {"none"} /\ {"stopping", "closing"} \subseteq PCs
  BY IdleIs DEF AllKinds, PCs
<1>r. Return(t) => Ends(t)
  BY Left
<1>1. /\ idleTimer' = FALSE
      /\ watchdog' = None /\ wdRunning' = wdRunning \ {watchdog}
      /\ listening' = listening \ {tlsProxy}
  BY DEF BeginTeardown, CancelIdle, StopWatchdog, StopProxy
<1>2. CASE tlsProxy # None
  <2>1. /\ Goto(t, [NoTask EXCEPT !.kind = k, !.pc = "stopping", !.px = tlsProxy])
        /\ UNCHANGED <<liveSession, liveHq, cloudVars, tlsProxy, streamUrl>>
    BY <1>2 DEF BeginTeardown
  <2>2. Begins(t, k, "stopping")
    BY <1>0, <2>1, Left DEF Begins
  <2> QED
    BY <1>1, <1>2, <2>1, <2>2
<1>3. CASE tlsProxy = None
  <2>1. CloseSession(t, k)
    BY <1>3 DEF BeginTeardown
  <2>2. Closes(t, k)
    <3>1. CASE liveSession # None
      <4>1. /\ Goto(t, [NoTask EXCEPT !.kind = k, !.pc = "closing"])
            /\ tlsProxy' = None
            /\ UNCHANGED <<liveSession, liveHq, cloudVars, streamUrl>>
        BY <2>1, <3>1 DEF CloseSession
      <4> QED
        BY <1>0, <3>1, <4>1, Left DEF Closes
    <3>2. CASE liveSession = None
      BY <2>1, <3>2, <1>r DEF CloseSession, FinishTeardown, Closes
    <3> QED
      BY <3>1, <3>2
  <2> QED
    BY <1>0, <1>1, <1>3, <2>2
<1> QED
  BY <1>2, <1>3

LEMMA BeginSteps ==
  ASSUME TypeOK, NEW t \in Tasks, Timer(t) \/ Request(t)
  PROVE  Steps(t)
<1> USE DEF flagVars, sessionVars, cloudVars, proxyVars, wdVars, KeepsFlags, KeepsCache,
            KeepsProxy, KeepsWatchdog
<1>1. CASE IdleFires(t)
  <2>1. Idle(t) /\ BeginTeardown(t, "idle")
    BY <1>1 DEF IdleFires
  <2>2. "idle" \in Kinds /\ idleTimer /\ UNCHANGED <<livestreamEnabled, streamQuality>>
    BY <1>1 DEF IdleFires
  <2>3. BeginsTeardown(t)
    BY <2>1, <2>2, TeardownBegins DEF BeginsTeardown
  <2> QED
    BY <2>3 DEF Steps
<1>2. CASE RenewFires(t)
  <2>1. PICK w \in wdTimer :
          /\ w \in wdRunning
          /\ Goto(t, [NoTask EXCEPT !.kind = "renew", !.pc = "opening",
                                    !.hq = streamQuality, !.wd = w])
    BY <1>2 DEF RenewFires
  <2>2. task'[t] = [NoTask EXCEPT !.kind = "renew", !.pc = "opening",
                                  !.hq = streamQuality, !.wd = w]
    BY <2>1, Moved
  <2>3. /\ task'[t].kind = "renew" /\ task'[t].pc = "opening" /\ ~task'[t].live
        /\ task'[t].hq = streamQuality /\ task'[t].wd = w
    BY <2>2 DEF NoTask
  <2>4. task[t].pc = "idle" /\ "renew" \in Kinds
    BY <1>2, IdleIs DEF RenewFires
  <2> QED
    BY <1>2, <2>1, <2>3, <2>4 DEF RenewFires, BeginsRenewal, Begins, Steps
<1>3. CASE SnapshotTrigger(t)
  <2>1. Enters(t, "snapshot")
    BY <1>3, EnteringEnters DEF SnapshotTrigger, AllKinds
  <2> QED
    BY <1>3, <2>1 DEF SnapshotTrigger, BeginsSnapshot, Steps
<1>4. CASE LivestreamOn(t)
  <2>1. Enters(t, "liveOn")
    BY <1>4, EnteringEnters DEF LivestreamOn, AllKinds
  <2> QED
    BY <1>4, <2>1 DEF LivestreamOn, CancelIdle, BeginsLive, Steps
<1>5. CASE LivestreamOff(t)
  <2>1. Idle(t) /\ BeginTeardown(t, "liveOff")
    BY <1>5 DEF LivestreamOff
  <2>2. "liveOff" \in Kinds /\ livestreamEnabled' = FALSE /\ UNCHANGED streamQuality
    BY <1>5 DEF LivestreamOff
  <2>3. BeginsTeardown(t)
    BY <2>1, <2>2, TeardownBegins DEF BeginsTeardown
  <2> QED
    BY <2>3 DEF Steps
<1>6. CASE QualityChange(t)
  <2>1. CASE liveSession # None
    <3>1. Goto(t, [NoTask EXCEPT !.kind = "quality", !.pc = "closing"]) /\ UNCHANGED wdVars
      BY <1>6, <2>1 DEF QualityChange
    <3>2. task[t].pc = "idle" /\ "quality" \in AllKinds \cup {"none"} /\ "closing" \in PCs
      BY <1>6, IdleIs DEF QualityChange, AllKinds, PCs
    <3>3. Begins(t, "quality", "closing")
      BY <3>1, <3>2, Left DEF Begins
    <3> QED
      BY <1>6, <2>1, <3>1, <3>3 DEF QualityChange, ChangesQuality, Steps
  <2>2. CASE liveSession = None
    BY <1>6, <2>2, IdleIs DEF QualityChange, StopWatchdog, ChangesQuality, Steps
  <2> QED
    BY <2>1, <2>2
<1> QED
  BY <1>1, <1>2, <1>3, <1>4, <1>5, <1>6 DEF Timer, Request

LEMMA NextSteps ==
  ASSUME TypeOK, [Next]_vars
  PROVE  \/ \E t \in Tasks : Steps(t) /\ \A u \in Tasks : u # t => task'[u] = task[u]
         \/ Around
<1> USE DEF flagVars, sessionVars, cloudVars, proxyVars, wdVars, KeepsFlags, KeepsCache,
            KeepsProxy, KeepsWatchdog
<1>1. CASE \/ BreakerOpens \/ ConnectionsEnd \/ SessionAges \/ SessionEnds
         \/ UNCHANGED vars
  BY <1>1 DEF BreakerOpens, ConnectionsEnd, SessionAges, SessionEnds, vars, Around
<1>2. ASSUME NEW t \in Tasks, Progress(t) \/ Timer(t) \/ Request(t)
      PROVE  Steps(t) /\ \A u \in Tasks : u # t => task'[u] = task[u]
  BY <1>2, ProgressSteps, BeginSteps, Others
<1> QED
  BY <1>1, <1>2 DEF Next

--------------------------------------------------------------------------------
(***************************************************************************)
(* Snapshots that overlap, with the idle teardown: every handler is a      *)
(* snapshot that will arm the idle timer, or a teardown.                   *)
(***************************************************************************)
WillArm(t) ==
  /\ task[t].kind = "snapshot"
  /\ task[t].pc \in {"swapping", "starting", "publish", "arm", "ready", "fetching"}

Pending == idleTimer \/ \E t \in Tasks : WillArm(t)

SnapshotsOnly ==
  /\ ~livestreamEnabled
  /\ \A t \in Tasks :
       /\ task[t].kind \in {"none", "snapshot", "idle"}
       /\ task[t].kind = "idle" => task[t].pc \in {"stopping", "closing", "closed"}
       /\ task[t].kind = "snapshot" =>
            task[t].pc \in Serving \cup {"opening", "ready", "fetching"}
       /\ task[t].kind = "none" => task[t].pc = "idle"
       /\ ~task[t].live

\* What is held has a timer pending, a snapshot that will arm it, or a teardown
\* that is about to give it back.
GivenBack ==
  /\ wdRunning \subseteq {watchdog}
  /\ watchdog # None => Pending
  /\ tlsProxy # None => Pending \/ \E t \in Tasks : task[t].pc = "stopping"
  /\ liveSession # None \/ streamUrl # None =>
       Pending \/ \E t \in Tasks : task[t].kind = "idle"

LEMMA SnapshotsOnlyStep ==
  ASSUME Kinds \subseteq {"snapshot", "idle"}, SnapshotsOnly, NEW t \in Tasks, Steps(t),
         \A u \in Tasks : u # t => task'[u] = task[u]
  PROVE  SnapshotsOnly'
<1> USE DEF SnapshotsOnly, Serving, Advances, Ends, Begins, KeepsFlags, KeepsSession
<1>1. CASE Opens(t) \/ Caches(t) \/ Swaps(t) \/ Starts(t) \/ FailsToStart(t)
  BY <1>1 DEF Opens, Caches, Swaps, Starts, FailsToStart
<1>2. CASE Publishes(t) \/ Arms(t) \/ GivesUp(t) \/ Returns(t)
  BY <1>2 DEF Publishes, Arms, GivesUp, Returns
<1>3. CASE Fetches(t) \/ Fetched(t) \/ Deletes(t)
  BY <1>3 DEF Fetches, Fetched, Deletes
<1>4. CASE Stopped(t) \/ TornDown(t) \/ Requalified(t)
  BY <1>4 DEF Stopped, Closes, TornDown, Requalified
<1>5. CASE BeginsSnapshot(t) \/ BeginsLive(t) \/ BeginsRenewal(t) \/ ChangesQuality(t)
  BY <1>5 DEF BeginsSnapshot, BeginsLive, BeginsRenewal, ChangesQuality, Enters
<1>6. CASE BeginsTeardown(t)
  BY <1>6 DEF BeginsTeardown, Closes
<1> QED
  BY <1>1, <1>2, <1>3, <1>4, <1>5, <1>6 DEF Steps

LEMMA GivenBackStep ==
  ASSUME Kinds \subseteq {"snapshot", "idle"}, WatchdogInv, SnapshotsOnly, GivenBack,
         NEW t \in Tasks, Steps(t), \A u \in Tasks : u # t => task'[u] = task[u]
  PROVE  GivenBack'
<1> USE DEF SnapshotsOnly, GivenBack, Pending, WillArm, Advances, Ends, Begins,
            KeepsFlags, KeepsSession, KeepsCache, KeepsProxy, KeepsWatchdog
<1>0. /\ wdRunning \subseteq Sessions /\ None \notin Sessions
      /\ task[t].pc \in Serving => task[t].sess \in Sessions
  BY NoneIsNew DEF WatchdogInv, TypeOK, TaskOK
<1>1. CASE Opens(t)
  BY <1>1 DEF Opens
<1>2. CASE Caches(t)
  BY <1>2 DEF Caches, Serving
<1>3. CASE Swaps(t) \/ Starts(t) \/ FailsToStart(t) \/ Publishes(t)
  BY <1>3 DEF Swaps, Starts, FailsToStart, Publishes
<1>4. CASE Arms(t)
  BY <1>0, <1>4 DEF Arms
<1>5. CASE GivesUp(t)
  BY <1>5 DEF GivesUp
<1>6. CASE Returns(t) \/ Fetches(t)
  BY <1>6 DEF Returns, Fetches
<1>7. CASE Fetched(t)
  BY <1>7 DEF Fetched
<1>8. CASE Deletes(t)
  BY <1>8 DEF Deletes
<1>9. CASE Stopped(t)
  BY <1>9 DEF Stopped, Closes
<1>10. CASE TornDown(t)
  BY <1>10 DEF TornDown
<1>11. CASE Requalified(t)
  BY <1>11 DEF Requalified
<1>12. CASE BeginsSnapshot(t) \/ BeginsLive(t) \/ BeginsRenewal(t) \/ ChangesQuality(t)
  BY <1>12 DEF BeginsSnapshot, BeginsLive, BeginsRenewal, ChangesQuality, Enters
<1>13. CASE BeginsTeardown(t)
  BY <1>13 DEF BeginsTeardown, Closes
<1> QED
  BY <1>1, <1>2, <1>3, <1>4, <1>5, <1>6, <1>7, <1>8, <1>9, <1>10, <1>11, <1>12,
     <1>13 DEF Steps

\* SnapshotsOnly and GivenBack are inductive together, given WatchdogInv.
SnapshotInv == SnapshotsOnly /\ GivenBack

LEMMA SnapshotInvariant ==
  ASSUME Kinds \subseteq {"snapshot", "idle"}
  PROVE  Spec => []SnapshotInv
<1>1. Init => SnapshotInv
  <2> SUFFICES ASSUME Init PROVE SnapshotInv
    OBVIOUS
  <2>1. "restored" \notin Kinds
    OBVIOUS
  <2>2. ~livestreamEnabled
    BY <2>1 DEF Init
  <2>3. \A t \in Tasks : task[t] = NoTask
    BY DEF Init
  <2>4. \A t \in Tasks : task[t].kind = "none" /\ task[t].pc = "idle" /\ ~task[t].live
    BY <2>3 DEF NoTask
  <2>5. SnapshotsOnly
    BY <2>2, <2>4 DEF SnapshotsOnly
  <2>6. GivenBack
    BY DEF Init, GivenBack
  <2> QED
    BY <2>5, <2>6 DEF SnapshotInv
<1>2. WatchdogInv /\ SnapshotInv /\ [Next]_vars => SnapshotInv'
  <2> SUFFICES ASSUME WatchdogInv, SnapshotInv, [Next]_vars PROVE SnapshotInv'
    OBVIOUS
  <2>1. ASSUME NEW t \in Tasks, Steps(t), \A u \in Tasks : u # t => task'[u] = task[u]
        PROVE  SnapshotInv'
    BY <2>1, SnapshotsOnlyStep, GivenBackStep DEF SnapshotInv
  <2>2. CASE Around
    BY <2>2 DEF Around, KeepsFlags, KeepsCache, KeepsWatchdog, SnapshotInv, SnapshotsOnly,
                GivenBack, Pending, WillArm
  <2> QED
    BY <2>1, <2>2, NextSteps DEF WatchdogInv
<1> QED
  BY <1>1, <1>2, WatchdogInvariant, PTL DEF Spec

\* Whatever snapshots leave open has its idle timer pending once none is under
\* way, however they and the idle teardowns overlap and whatever fails (the
\* comment at _livestreamEnabled).
THEOREM SnapshotsAreTimed ==
  ASSUME Kinds \subseteq {"snapshot", "idle"}
  PROVE  Spec => []OffMeansTimerPending
<1>1. WatchdogInv /\ SnapshotInv => OffMeansTimerPending
  <2> SUFFICES ASSUME WatchdogInv, SnapshotInv, Quiescent, Held PROVE idleTimer
    BY DEF OffMeansTimerPending
  <2>1. \A t \in Tasks : task[t].pc = "idle" /\ task[t].kind = "none"
    BY IdleIs DEF Quiescent
  <2>2. \A t \in Tasks : ~WillArm(t) /\ task[t].pc # "stopping" /\ task[t].kind # "idle"
    BY <2>1 DEF WillArm
  <2>3. watchdog # None \/ tlsProxy # None \/ liveSession # None \/ streamUrl # None =>
          idleTimer
    BY <2>2 DEF SnapshotInv, GivenBack, Pending
  <2>4. wdRunning # {} => watchdog # None
    BY NoneIsNew DEF SnapshotInv, GivenBack, WatchdogInv, TypeOK
  <2> QED
    BY <2>3, <2>4 DEF Held
<1> QED
  BY <1>1, SnapshotInvariant, WatchdogInvariant, PTL

\* Overlapping snapshots and idle teardowns leave no watchdog running that the
\* map does not hold.
THEOREM SnapshotsLeaveNoWatchdog ==
  ASSUME Kinds \subseteq {"snapshot", "idle"}
  PROVE  Spec => []NoOrphanWatchdog
<1>1. SnapshotInv => NoOrphanWatchdog
  BY DEF SnapshotInv, GivenBack, NoOrphanWatchdog
<1> QED
  BY <1>1, SnapshotInvariant, PTL

--------------------------------------------------------------------------------
(***************************************************************************)
(* Handlers that do not overlap: h is the only one.  Each conjunct says    *)
(* what holds at each await of it, so that it holds when h is done.        *)
(***************************************************************************)
GivesBack == {"idle", "liveOff"}

\* Which handler can be at which await.
Shape(h) ==
  /\ task[h].pc = "idle" => task[h].kind = "none"
  /\ task[h].pc \in Serving \cup {"opening"} =>
       task[h].kind \in {"snapshot", "liveOn", "renew"}
  /\ task[h].pc = "ready" => task[h].kind \in {"snapshot", "liveOn"}
  /\ task[h].pc = "fetching" => task[h].kind = "snapshot"
  /\ task[h].pc = "stopping" => task[h].kind \in GivesBack
  /\ task[h].pc \in {"closing", "closed"} => task[h].kind \in GivesBack \cup {"quality"}

\* No teardown runs while the livestream is on, and no idle timer is armed.
Flag(h) ==
  /\ task[h].kind = "liveOn" => livestreamEnabled
  /\ task[h].kind \in GivesBack => ~livestreamEnabled
  /\ task[h].pc = "fetching" => (task[h].live <=> livestreamEnabled)
  /\ livestreamEnabled => ~idleTimer

Proxies(h) ==
  /\ listening \subseteq {tlsProxy}
  /\ task[h].pc \in {"swapping", "stopping"} => listening = {}
  /\ task[h].pc = "starting" => tlsProxy = None
  /\ task[h].pc \in {"closing", "closed"} /\ task[h].kind \in GivesBack => tlsProxy = None

OneWatchdog(h) ==
  /\ wdRunning \subseteq {watchdog}
  /\ task[h].kind = "renew" => task[h].wd = watchdog
  /\ task[h].kind \in GivesBack => watchdog = None

Quality(h) ==
  /\ liveSession # None /\ task[h].kind # "quality" => liveHq = streamQuality
  /\ task[h].pc \in {"opening", "opened"} => task[h].hq = streamQuality

Timed(h) ==
  ~livestreamEnabled /\ Held => idleTimer \/ task[h].kind \in GivesBack \/ WillArm(h)

SoloInv(h) ==
  Shape(h) /\ Flag(h) /\ Proxies(h) /\ OneWatchdog(h) /\ Quality(h) /\ Timed(h)

LEMMA ShapeStep ==
  ASSUME NEW h \in Tasks, WatchdogInv, SoloInv(h), Steps(h)
  PROVE  Shape(h)'
<1> USE DEF SoloInv, Shape, GivesBack, Serving, Advances, Ends, Begins
<1>1. CASE Opens(h) \/ Caches(h) \/ Swaps(h) \/ Starts(h) \/ FailsToStart(h)
  BY <1>1 DEF Opens, Caches, Swaps, Starts, FailsToStart
<1>2. CASE Publishes(h) \/ Arms(h) \/ GivesUp(h) \/ Returns(h)
  BY <1>2 DEF Publishes, Arms, GivesUp, Returns
<1>3. CASE Fetches(h) \/ Fetched(h) \/ Deletes(h)
  BY <1>3 DEF Fetches, Fetched, Deletes
<1>4. CASE Stopped(h) \/ TornDown(h) \/ Requalified(h)
  BY <1>4 DEF Stopped, Closes, TornDown, Requalified
<1>5. CASE BeginsSnapshot(h) \/ BeginsLive(h) \/ BeginsRenewal(h) \/ ChangesQuality(h)
  BY <1>5 DEF BeginsSnapshot, BeginsLive, BeginsRenewal, ChangesQuality, Enters
<1>6. CASE BeginsTeardown(h)
  BY <1>6 DEF BeginsTeardown, Closes
<1> QED
  BY <1>1, <1>2, <1>3, <1>4, <1>5, <1>6 DEF Steps

LEMMA FlagStep ==
  ASSUME NEW h \in Tasks, WatchdogInv, SoloInv(h), Steps(h)
  PROVE  Flag(h)'
<1> USE DEF SoloInv, Shape, Flag, GivesBack, Serving, Advances, Ends, Begins, KeepsFlags,
            KeepsSession
<1>0. livestreamEnabled \in BOOLEAN /\ idleTimer \in BOOLEAN
  BY DEF WatchdogInv, TypeOK
<1>1. CASE Opens(h) \/ Caches(h) \/ Swaps(h) \/ Starts(h) \/ FailsToStart(h)
  BY <1>1 DEF Opens, Caches, Swaps, Starts, FailsToStart
<1>2. CASE Publishes(h) \/ Arms(h) \/ GivesUp(h) \/ Returns(h)
  BY <1>2 DEF Publishes, Arms, GivesUp, Returns
<1>3. CASE Fetches(h) \/ Fetched(h) \/ Deletes(h)
  BY <1>0, <1>3 DEF Fetches, Fetched, Deletes
<1>4. CASE Stopped(h) \/ TornDown(h) \/ Requalified(h)
  BY <1>4 DEF Stopped, Closes, TornDown, Requalified
<1>5. CASE BeginsSnapshot(h) \/ BeginsLive(h) \/ BeginsRenewal(h) \/ ChangesQuality(h)
  BY <1>5 DEF BeginsSnapshot, BeginsLive, BeginsRenewal, ChangesQuality, Enters
<1>6. CASE BeginsTeardown(h)
  BY <1>6 DEF BeginsTeardown, Closes
<1> QED
  BY <1>1, <1>2, <1>3, <1>4, <1>5, <1>6 DEF Steps

LEMMA ProxiesStep ==
  ASSUME NEW h \in Tasks, WatchdogInv, SoloInv(h), Steps(h)
  PROVE  Proxies(h)'
<1> USE DEF SoloInv, Shape, Proxies, GivesBack, Serving, Advances, Ends, Begins, KeepsProxy
<1>0. listening \subseteq Sessions /\ None \notin Sessions
  BY NoneIsNew DEF WatchdogInv, TypeOK
<1>1. CASE Opens(h) \/ Caches(h) \/ Swaps(h) \/ Starts(h) \/ FailsToStart(h)
  BY <1>0, <1>1 DEF Opens, Caches, Swaps, Starts, FailsToStart
<1>2. CASE Publishes(h) \/ Arms(h) \/ GivesUp(h) \/ Returns(h)
  BY <1>2 DEF Publishes, Arms, GivesUp, Returns
<1>3. CASE Fetches(h) \/ Fetched(h) \/ Deletes(h)
  BY <1>3 DEF Fetches, Fetched, Deletes
<1>4. CASE Stopped(h) \/ TornDown(h) \/ Requalified(h)
  BY <1>4 DEF Stopped, Closes, TornDown, Requalified
<1>5. CASE BeginsSnapshot(h) \/ BeginsLive(h) \/ BeginsRenewal(h) \/ ChangesQuality(h)
  BY <1>5 DEF BeginsSnapshot, BeginsLive, BeginsRenewal, ChangesQuality, Enters
<1>6. CASE BeginsTeardown(h)
  BY <1>6 DEF BeginsTeardown, Closes
<1> QED
  BY <1>1, <1>2, <1>3, <1>4, <1>5, <1>6 DEF Steps

LEMMA OneWatchdogStep ==
  ASSUME NEW h \in Tasks, WatchdogInv, SoloInv(h), Steps(h)
  PROVE  OneWatchdog(h)'
<1> USE DEF SoloInv, Shape, OneWatchdog, GivesBack, Serving, Advances, Ends, Begins,
            KeepsWatchdog
<1>0. wdRunning \subseteq Sessions /\ None \notin Sessions
  BY NoneIsNew DEF WatchdogInv, TypeOK
<1>1. CASE Opens(h) \/ Caches(h) \/ Swaps(h) \/ Starts(h) \/ FailsToStart(h)
  BY <1>1 DEF Opens, Caches, Swaps, Starts, FailsToStart
<1>2. CASE Publishes(h) \/ Arms(h) \/ Returns(h)
  BY <1>0, <1>2 DEF Publishes, Arms, Returns
<1>3. CASE GivesUp(h)
  BY <1>0, <1>3 DEF GivesUp
<1>4. CASE Fetches(h) \/ Fetched(h) \/ Deletes(h)
  BY <1>4 DEF Fetches, Fetched, Deletes
<1>5. CASE Stopped(h)
  BY <1>0, <1>5 DEF Stopped, Closes
<1>6. CASE TornDown(h) \/ Requalified(h)
  BY <1>0, <1>6 DEF TornDown, Requalified
<1>7. CASE BeginsSnapshot(h) \/ BeginsLive(h) \/ BeginsRenewal(h)
  BY <1>0, <1>7 DEF BeginsSnapshot, BeginsLive, BeginsRenewal, Enters
<1>8. CASE BeginsTeardown(h)
  BY <1>0, <1>8 DEF BeginsTeardown, Closes
<1>9. CASE ChangesQuality(h)
  BY <1>0, <1>9 DEF ChangesQuality
<1> QED
  BY <1>1, <1>2, <1>3, <1>4, <1>5, <1>6, <1>7, <1>8, <1>9 DEF Steps

LEMMA QualityStep ==
  ASSUME NEW h \in Tasks, WatchdogInv, SoloInv(h), Steps(h)
  PROVE  Quality(h)'
<1> USE DEF SoloInv, Shape, Quality, GivesBack, Serving, Advances, Ends, Begins, KeepsFlags,
            KeepsCache
<1>1. CASE Opens(h) \/ Caches(h) \/ Swaps(h) \/ Starts(h) \/ FailsToStart(h)
  BY <1>1 DEF Opens, Caches, Swaps, Starts, FailsToStart
<1>2. CASE Publishes(h) \/ Arms(h) \/ GivesUp(h) \/ Returns(h)
  BY <1>2 DEF Publishes, Arms, GivesUp, Returns
<1>3. CASE Fetches(h) \/ Fetched(h) \/ Deletes(h)
  BY <1>3 DEF Fetches, Fetched, Deletes
<1>4. CASE Stopped(h) \/ TornDown(h) \/ Requalified(h)
  BY <1>4 DEF Stopped, Closes, TornDown, Requalified
<1>5. CASE BeginsSnapshot(h) \/ BeginsLive(h) \/ BeginsRenewal(h)
  BY <1>5 DEF BeginsSnapshot, BeginsLive, BeginsRenewal, Enters
<1>6. CASE BeginsTeardown(h)
  BY <1>6 DEF BeginsTeardown, Closes
<1>7. CASE ChangesQuality(h)
  BY <1>7 DEF ChangesQuality
<1> QED
  BY <1>1, <1>2, <1>3, <1>4, <1>5, <1>6, <1>7 DEF Steps

LEMMA TimedStep ==
  ASSUME NEW h \in Tasks, WatchdogInv, SoloInv(h), Steps(h)
  PROVE  Timed(h)'
<1> USE DEF SoloInv, Shape, Flag, Proxies, OneWatchdog, Timed, Held, WillArm, GivesBack,
            Serving, Advances, Ends, Begins, KeepsFlags, KeepsCache, KeepsProxy,
            KeepsWatchdog, KeepsSession
<1>0. /\ livestreamEnabled \in BOOLEAN /\ idleTimer \in BOOLEAN
      /\ wdRunning \subseteq Sessions /\ None \notin Sessions
      /\ task[h].kind = "renew" => task[h].wd \in Sessions
  BY NoneIsNew DEF WatchdogInv, TypeOK, TaskOK
<1>1. CASE Opens(h)
  BY <1>1 DEF Opens
<1>2. CASE Caches(h)
  <2>1. task[h].kind = "renew" => Held
    BY <1>0
  <2> QED
    BY <1>2, <2>1 DEF Caches
<1>3. CASE Swaps(h) \/ FailsToStart(h)
  BY <1>3 DEF Swaps, FailsToStart
<1>4. CASE Starts(h) \/ Publishes(h)
  <2>1. task[h].kind = "renew" => Held
    BY <1>0
  <2> QED
    BY <1>4, <2>1 DEF Starts, Publishes
<1>5. CASE Arms(h)
  BY <1>5 DEF Arms
<1>6. CASE GivesUp(h)
  BY <1>6 DEF GivesUp
<1>7. CASE Returns(h) \/ Fetches(h)
  BY <1>7 DEF Returns, Fetches
<1>8. CASE Fetched(h) \/ Deletes(h)
  BY <1>0, <1>8 DEF Fetched, Deletes
<1>9. CASE Stopped(h)
  <2>1. watchdog = None /\ wdRunning = {}
    BY <1>0, <1>9 DEF Stopped
  <2> QED
    BY <1>9, <2>1 DEF Stopped, Closes
<1>10. CASE TornDown(h)
  <2>1. watchdog = None /\ wdRunning = {} /\ tlsProxy = None
    BY <1>0, <1>10 DEF TornDown
  <2> QED
    BY <1>10, <2>1 DEF TornDown
<1>11. CASE Requalified(h)
  BY <1>11 DEF Requalified
<1>12. CASE BeginsSnapshot(h) \/ BeginsLive(h) \/ BeginsRenewal(h)
  BY <1>12 DEF BeginsSnapshot, BeginsLive, BeginsRenewal, Enters
<1>13. CASE BeginsTeardown(h)
  <2>1. watchdog' = None /\ wdRunning' = {}
    BY <1>0, <1>13 DEF BeginsTeardown
  <2> QED
    BY <1>13, <2>1 DEF BeginsTeardown, Closes
<1>14. CASE ChangesQuality(h)
  BY <1>14 DEF ChangesQuality
<1> QED
  BY <1>1, <1>2, <1>3, <1>4, <1>5, <1>6, <1>7, <1>8, <1>9, <1>10, <1>11, <1>12,
     <1>13, <1>14 DEF Steps

LEMMA SoloInvariant ==
  ASSUME NEW h, Tasks = {h}
  PROVE  Spec => [](WatchdogInv /\ SoloInv(h))
<1>0. h \in Tasks
  OBVIOUS
<1>1. Init => SoloInv(h)
  <2> SUFFICES ASSUME Init PROVE SoloInv(h)
    OBVIOUS
  <2>1. task[h].kind = "none" /\ task[h].pc = "idle"
    BY <1>0 DEF Init, NoTask
  <2> QED
    BY <2>1 DEF Init, SoloInv, Shape, Flag, Proxies, OneWatchdog, Quality, Timed, Held,
                Serving, GivesBack
<1>2. WatchdogInv /\ SoloInv(h) /\ [Next]_vars => SoloInv(h)'
  <2> SUFFICES ASSUME WatchdogInv, SoloInv(h), [Next]_vars PROVE SoloInv(h)'
    OBVIOUS
  <2>1. CASE Steps(h)
    BY <1>0, <2>1, ShapeStep, FlagStep, ProxiesStep, OneWatchdogStep, QualityStep, TimedStep
       DEF SoloInv
  <2>2. CASE Around
    BY <2>2 DEF Around, KeepsFlags, KeepsCache, KeepsWatchdog, SoloInv, Shape, Flag, Proxies,
                OneWatchdog, Quality, Timed, Held, WillArm
  <2> QED
    BY <2>1, <2>2, NextSteps DEF WatchdogInv
<1> QED
  BY <1>1, <1>2, WatchdogInvariant, PTL DEF Spec

\* Whatever fails, handlers that do not overlap leave no proxy listening that
\* _tlsProxies does not hold.
THEOREM SoloLeavesNoProxy ==
  ASSUME NEW h, Tasks = {h}
  PROVE  Spec => []NoOrphanProxy
<1>1. SoloInv(h) => NoOrphanProxy
  BY DEF SoloInv, Proxies, NoOrphanProxy
<1> QED
  BY <1>1, SoloInvariant, PTL

\* They leave no watchdog running that _sessionWatchdogs does not hold.
THEOREM SoloLeavesNoWatchdog ==
  ASSUME NEW h, Tasks = {h}
  PROVE  Spec => []NoOrphanWatchdog
<1>1. SoloInv(h) => NoOrphanWatchdog
  BY DEF SoloInv, OneWatchdog, NoOrphanWatchdog
<1> QED
  BY <1>1, SoloInvariant, PTL

\* The session they cache was opened with the quality preferred now.
THEOREM SoloHonoursQuality ==
  ASSUME NEW h, Tasks = {h}
  PROVE  Spec => []SessionHonoursQuality
<1>1. SoloInv(h) => SessionHonoursQuality
  <2> SUFFICES ASSUME SoloInv(h), Quiescent, liveSession # None
               PROVE  liveHq = streamQuality
    BY DEF SessionHonoursQuality
  <2>1. task[h].kind = "none"
    BY IdleIs DEF Quiescent
  <2> QED
    BY <2>1 DEF SoloInv, Quality
<1> QED
  BY <1>1, SoloInvariant, PTL

\* What they leave open with the livestream off has its idle timer pending.
THEOREM SoloIsTimed ==
  ASSUME NEW h, Tasks = {h}
  PROVE  Spec => []OffMeansTimerPending
<1>1. SoloInv(h) => OffMeansTimerPending
  <2> SUFFICES ASSUME SoloInv(h), Quiescent, ~livestreamEnabled, Held
               PROVE  idleTimer
    BY DEF OffMeansTimerPending
  <2>1. task[h].kind = "none"
    BY IdleIs DEF Quiescent
  <2> QED
    BY <2>1 DEF SoloInv, Timed, GivesBack, WillArm
<1> QED
  BY <1>1, SoloInvariant, PTL

\* No idle timer they armed is pending while the livestream is on.
THEOREM SoloLiveIsNotTimed ==
  ASSUME NEW h, Tasks = {h}
  PROVE  Spec => []LiveMeansNoIdleTimer
<1>1. SoloInv(h) => LiveMeansNoIdleTimer
  BY DEF SoloInv, Flag, LiveMeansNoIdleTimer
<1> QED
  BY <1>1, SoloInvariant, PTL

--------------------------------------------------------------------------------
(***************************************************************************)
(* Whatever is lost and whatever Bosch and the camera end by themselves,   *)
(* the adapter forgets no session it was told of: at each await of h, a    *)
(* session that is open and not adrift is the one h was just answered with *)
(* or the cached one.                                                      *)
(***************************************************************************)
Known(h) ==
  cloudSession # None /\ ~adrift =>
    /\ task[h].pc \notin {"opened", "closed"} => cloudSession = liveSession
    /\ task[h].pc = "opened" => cloudSession = task[h].sess
    /\ task[h].pc # "closed"

LEMMA KnownStep ==
  ASSUME NEW h \in Tasks, SoloInv(h), Known(h), Steps(h)
  PROVE  Known(h)'
<1> USE DEF Known, Advances, Ends, Begins, KeepsCache, KeepsSession, cloudVars
<1>1. CASE Opens(h) \/ Caches(h) \/ Swaps(h) \/ Starts(h) \/ FailsToStart(h)
  BY <1>1 DEF Opens, Caches, Swaps, Starts, FailsToStart
<1>2. CASE Publishes(h) \/ Arms(h) \/ Returns(h)
  BY <1>2 DEF Publishes, Arms, Returns
<1>3. CASE GivesUp(h)
  BY <1>3 DEF GivesUp
<1>4. CASE Fetches(h) \/ Fetched(h) \/ Deletes(h)
  BY <1>4 DEF Fetches, Fetched, Deletes
<1>5. CASE Stopped(h) \/ TornDown(h) \/ Requalified(h)
  BY <1>5 DEF Stopped, Closes, TornDown, Requalified
<1>6. CASE BeginsSnapshot(h) \/ BeginsLive(h) \/ BeginsRenewal(h)
  BY <1>6 DEF BeginsSnapshot, BeginsLive, BeginsRenewal, Enters
<1>7. CASE BeginsTeardown(h)
  BY <1>7 DEF BeginsTeardown, Closes
<1>8. CASE ChangesQuality(h)
  BY <1>8 DEF ChangesQuality
<1> QED
  BY <1>1, <1>2, <1>3, <1>4, <1>5, <1>6, <1>7, <1>8 DEF Steps

\* Handlers that do not overlap leave no session open at Bosch that the adapter
\* has forgotten, unless the request that named or should have ended it was
\* lost; every fault is allowed, and sessions may end by themselves.
THEOREM SoloForgetsNothing ==
  ASSUME NEW h, Tasks = {h}
  PROVE  Spec => []NoForgottenSession
<1>0. h \in Tasks
  OBVIOUS
<1>1. Init => Known(h)
  BY <1>0 DEF Init, NoTask, Known
<1>2. WatchdogInv /\ SoloInv(h) /\ Known(h) /\ [Next]_vars => Known(h)'
  <2> SUFFICES ASSUME WatchdogInv, SoloInv(h), Known(h), [Next]_vars PROVE Known(h)'
    OBVIOUS
  <2>1. CASE Steps(h)
    BY <1>0, <2>1, KnownStep
  <2>2. CASE Around
    BY <2>2 DEF Around, KeepsCache, Known, cloudVars
  <2> QED
    BY <2>1, <2>2, NextSteps DEF WatchdogInv
<1>3. Known(h) => NoForgottenSession
  <2> SUFFICES ASSUME Known(h), Quiescent, cloudSession # None, ~adrift
               PROVE  cloudSession = liveSession
    BY DEF NoForgottenSession
  <2>1. task[h].pc = "idle"
    BY <1>0, IdleIs DEF Quiescent
  <2> QED
    BY <2>1 DEF Known
<1> QED
  BY <1>1, <1>2, <1>3, SoloInvariant, PTL DEF Spec

--------------------------------------------------------------------------------
(***************************************************************************)
(* Where a proxy can always be started, stream_url follows it.             *)
(***************************************************************************)
Streaming == liveSession # None /\ tlsProxy # None /\ streamUrl = tlsProxy

\* Between the start of a proxy and its publication stream_url is behind; a
\* teardown empties it last.
Shown(h) ==
  /\ task[h].pc \in {"swapping", "starting", "publish", "arm"} => liveSession # None
  /\ task[h].pc = "publish" => task[h].px = tlsProxy /\ tlsProxy # None
  /\ task[h].pc = "arm" => Streaming
  /\ task[h].pc \notin {"starting", "publish"} /\ streamUrl # None =>
       \/ streamUrl = tlsProxy
       \/ task[h].pc \in {"closing", "closed"} /\ task[h].kind \in GivesBack
  /\ task[h].pc \notin {"starting", "publish"} /\ watchdog # None => Streaming

LEMMA ShownStep ==
  ASSUME "bindFails" \notin Faults,
         NEW h \in Tasks, WatchdogInv, SoloInv(h), Shown(h), Steps(h)
  PROVE  Shown(h)'
<1> USE DEF SoloInv, Shape, Proxies, OneWatchdog, Shown, Streaming, GivesBack, Serving,
            Advances, Ends, Begins, KeepsCache, KeepsProxy, KeepsWatchdog, KeepsSession
<1>0. /\ None \notin Sessions
      /\ task[h].pc \in Serving => task[h].sess \in Sessions
  BY NoneIsNew DEF WatchdogInv, TaskOK
<1>1. CASE Opens(h)
  BY <1>1 DEF Opens
<1>2. CASE Caches(h)
  BY <1>0, <1>2 DEF Caches
<1>3. CASE Swaps(h) \/ FailsToStart(h)
  BY <1>3 DEF Swaps, FailsToStart
<1>4. CASE Starts(h)
  BY <1>0, <1>4 DEF Starts
<1>5. CASE Publishes(h)
  BY <1>5 DEF Publishes
<1>6. CASE Arms(h)
  BY <1>6 DEF Arms
<1>7. CASE GivesUp(h)
  BY <1>7 DEF GivesUp
<1>8. CASE Returns(h) \/ Fetches(h)
  BY <1>8 DEF Returns, Fetches
<1>9. CASE Fetched(h) \/ Deletes(h)
  BY <1>9 DEF Fetched, Deletes
<1>10. CASE Stopped(h)
  BY <1>10 DEF Stopped, Closes
<1>11. CASE TornDown(h) \/ Requalified(h)
  BY <1>11 DEF TornDown, Requalified
<1>12. CASE BeginsSnapshot(h) \/ BeginsLive(h) \/ BeginsRenewal(h)
  BY <1>12 DEF BeginsSnapshot, BeginsLive, BeginsRenewal, Enters
<1>13. CASE BeginsTeardown(h)
  BY <1>13 DEF BeginsTeardown, Closes
<1>14. CASE ChangesQuality(h)
  BY <1>14 DEF ChangesQuality
<1> QED
  BY <1>1, <1>2, <1>3, <1>4, <1>5, <1>6, <1>7, <1>8, <1>9, <1>10, <1>11, <1>12,
     <1>13, <1>14 DEF Steps

LEMMA ShownInvariant ==
  ASSUME NEW h, Tasks = {h}, "bindFails" \notin Faults
  PROVE  Spec => []Shown(h)
<1>0. h \in Tasks
  OBVIOUS
<1>1. Init => Shown(h)
  BY <1>0 DEF Init, NoTask, Shown
<1>2. WatchdogInv /\ SoloInv(h) /\ Shown(h) /\ [Next]_vars => Shown(h)'
  <2> SUFFICES ASSUME WatchdogInv, SoloInv(h), Shown(h), [Next]_vars PROVE Shown(h)'
    OBVIOUS
  <2>1. CASE Steps(h)
    BY <1>0, <2>1, ShownStep
  <2>2. CASE Around
    BY <2>2 DEF Around, KeepsCache, KeepsWatchdog, Shown, Streaming
  <2> QED
    BY <2>1, <2>2, NextSteps DEF WatchdogInv
<1> QED
  BY <1>1, <1>2, SoloInvariant, PTL DEF Spec

\* stream_url names the proxy in the map or nothing.
THEOREM SoloUrlNamesProxy ==
  ASSUME NEW h, Tasks = {h}, "bindFails" \notin Faults
  PROVE  Spec => []UrlNamesMappedProxy
<1>1. Shown(h) => UrlNamesMappedProxy
  <2> SUFFICES ASSUME Shown(h), Quiescent, streamUrl # None PROVE streamUrl = tlsProxy
    BY DEF UrlNamesMappedProxy
  <2>1. task[h].pc = "idle"
    BY IdleIs DEF Quiescent
  <2> QED
    BY <2>1 DEF Shown
<1> QED
  BY <1>1, ShownInvariant, PTL

\* While a watchdog is registered there is a stream for it to renew.
THEOREM SoloWatchdogHasStream ==
  ASSUME NEW h, Tasks = {h}, "bindFails" \notin Faults
  PROVE  Spec => []WatchedMeansStreaming
<1>1. Shown(h) => WatchedMeansStreaming
  <2> SUFFICES ASSUME Shown(h), Quiescent, watchdog # None PROVE Streaming
    BY DEF WatchedMeansStreaming, Streaming
  <2>1. task[h].pc = "idle"
    BY IdleIs DEF Quiescent
  <2> QED
    BY <2>1 DEF Shown
<1> QED
  BY <1>1, ShownInvariant, PTL

================================================================================
