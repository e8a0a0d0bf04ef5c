------------------------------ MODULE StateSync ------------------------------
(***************************************************************************)
(* The switches of one camera: the user's writes to its data points        *)
(* (onStateChange and the handlers of privacy, siren and lights), and the  *)
(* poll that mirrors what the Bosch app changed back into the data points  *)
(* (_pollCameraStateOnce, upsertState).                                    *)
(*                                                                         *)
(* Nothing orders these handlers: each one suspends at its reads and       *)
(* requests, and a request takes effect at Bosch some time before its      *)
(* answer is handled.  Between them they share the data points, the cache  *)
(* of upserted values and the cache of the lights' full state.             *)
(*                                                                         *)
(* The top and bottom LEDs, always written together, are one light here,   *)
(* "wall".  A colour is in the adapter's own spelling; "" is white balance.*)
(***************************************************************************)
EXTENDS Naturals, FiniteSets

CONSTANTS
  Commands,    \* user commands that can be under way at once
  Polls,       \* polls that can be under way at once
  Colors,      \* the LED colours, "" (white) among them
  MaxLevel,    \* the brightest a light can be
  Starts,      \* what Bosch may hold, and the data points show, at the start
  UserPoints,  \* bound: the data points the user writes
  AppFields,   \* bound: what the app changes
  MaxWrites,   \* bound: how often the user writes a data point
  MaxChanges,  \* bound: how often the app changes something
  MaxFaults,   \* bound: how many requests fail
  None         \* nothing cached

ASSUME LevelsAssumption == MaxLevel \in Nat \ {0}
ASSUME BoundsAssumption ==
  MaxWrites \in Nat /\ MaxChanges \in Nat /\ MaxFaults \in Nat
ASSUME ColorsAssumption == "" \in Colors

VARIABLES
  cam,       \* the camera's generation
  cloud,     \* what Bosch holds for the camera
  dp,        \* the data points: value, and whether it is acknowledged
  cache,     \* _stateCache: the value last upserted
  lighting,  \* _lightingCache
  command,   \* onStateChange handlers under way
  poll,      \* _pollCameraStateOnce ticks under way
  writer,    \* history: who wrote a data point last
  frontSeen, \* history: a poll has seen the front light on
  budget     \* what is left of the bounds

vars == <<cam, cloud, dp, cache, lighting, command, poll, writer, frontSeen,
          budget>>

Levels   == 0..MaxLevel
Lights   == {"light", "front", "wall"}          \* on/off
Wallwash == {"brightness", "color"}             \* written as a full body
Points   == {"privacy", "siren"} \cup Lights \cup Wallwash

Fields      == {"privacy", "siren", "front", "wall", "color"}
CloudRec    == [privacy : BOOLEAN, siren : BOOLEAN, front : Levels,
                wall : Levels, color : Colors]
LightingRec == [front : Levels, wall : Levels, color : Colors]

ASSUME FieldsAssumption == AppFields \subseteq Fields
ASSUME StartsAssumption == Starts \subseteq CloudRec

\* DEFAULT_LIGHTING_STATE
DefaultLightingOn ==     \* mutated: the seed has the spotlight on
  [front |-> MaxLevel, wall |-> 0, color |-> ""]
DefaultLighting   == [front |-> 0, wall |-> 0, color |-> ""]

\* What the user may write to a data point; brightness may be out of range.
UserValues(x) == CASE x = "brightness" -> 0..(MaxLevel + 1)
                   [] x = "color"      -> Colors
                   [] OTHER            -> BOOLEAN

ASSUME NoneIsNoValue ==
  /\ \A x \in Points : None \notin UserValues(x)
  /\ None \notin LightingRec

\* The siren and the LED points exist on second-generation cameras only.
Writable == IF cam = 2 THEN Points ELSE {"privacy"} \cup Lights

\* What the data points ought to show of this state of the camera.
Shown(s) == [privacy |-> s.privacy, siren |-> s.siren, front |-> s.front > 0,
             wall |-> s.wall > 0, brightness |-> s.wall, color |-> s.color,
             light |-> s.front > 0 /\ s.wall > 0]
LightsOf(s) == [front |-> s.front, wall |-> s.wall, color |-> s.color]
Other(x)    == IF x = "front" THEN "wall" ELSE "front"

\* The part of r that the assignment p has, from p.
Over(p, r) == [f \in DOMAIN r |-> IF f \in DOMAIN p THEN p[f] ELSE r[f]]

Idle     == [pc |-> "idle", what |-> "privacy", val |-> FALSE, other |-> FALSE,
             waiting |-> {}, body |-> None, accepted |-> 0, lost |-> FALSE,
             alone |-> FALSE, synced |-> FALSE]
IdlePoll == [pc |-> "idle", privacy |-> FALSE, lights |-> None,
             read |-> None, quiet |-> FALSE]

CommandPCs == {"idle", "start", "send", "put", "front", "wall", "light"}
PollPCs    == {"idle", "cameras", "privacy", "mirrorPrivacy",
               "lighting", "lights", "mirrorLights"}

\* What the data points show when the adapter starts: they outlive it, so an
\* earlier run may have left any state of the camera in them; on the first start
\* they have their defaults, those of a dark camera.
Dark == [privacy |-> FALSE, siren |-> FALSE, front |-> 0, wall |-> 0, color |-> ""]
Left(s) == [x \in Points |-> [val |-> Shown(s)[x], ack |-> TRUE]]

\* A start of the adapter: the caches are empty, the app may have changed
\* anything while it was down.
Init ==
  /\ cam \in {1, 2}
  /\ cloud \in Starts
  /\ \E s \in Starts \cup {Dark} : dp = Left(s)
  /\ cache = [x \in Points |-> None]
  /\ lighting = None
  /\ command = [c \in Commands |-> Idle]
  /\ poll = [p \in Polls |-> IdlePoll]
  /\ writer = [x \in Points |-> "nobody"]
  /\ frontSeen = FALSE
  /\ budget = [writes |-> MaxWrites, changes |-> MaxChanges,
               faults |-> MaxFaults]

Busy(c)  == command[c].pc # "idle"
Spend(b) == budget[b] > 0 /\ budget' = [budget EXCEPT ![b] = @ - 1]

\* Commands and polls that can no longer say that nothing else happened.
Disturbed     == [c \in Commands |-> [command[c] EXCEPT !.alone = FALSE,
                                                        !.synced = FALSE]]
DisturbedPoll == [p \in Polls |-> [poll[p] EXCEPT !.quiet = FALSE]]

\* Data point x is written, by w.
SetState(x, v, ack, w) ==
  /\ dp' = [dp EXCEPT ![x] = [val |-> v, ack |-> ack]]
  /\ writer' = [writer EXCEPT ![x] = w]

(***************************************************************************)
(* The world outside                                                       *)
(***************************************************************************)

\* Someone writes a data point unacknowledged; onStateChange is called.
UserWrites(c, x, v) ==
  /\ ~Busy(c) /\ x \in Writable \cap UserPoints /\ v \in UserValues(x)
  /\ Spend("writes")
  /\ SetState(x, v, FALSE, "user")
  /\ command' = [Disturbed EXCEPT ![c] =
       [Idle EXCEPT !.pc = "start", !.what = x, !.val = v,
          !.alone  = /\ \A d \in Commands : ~Busy(d)
                     /\ \A p \in Polls : poll[p].pc = "idle",
          !.synced = /\ x \in {"front", "wall"} =>
                          dp[Other(x)].val = Shown(cloud)[Other(x)]
                     /\ x \in Wallwash => lighting = LightsOf(cloud)]]
  /\ poll' = DisturbedPoll
  /\ UNCHANGED <<cam, cloud, cache, lighting, frontSeen>>

\* The Bosch app changes something, or the siren's own timeout ends it.
AppChanges ==
  /\ Spend("changes")
  /\ \/ \E f \in {"privacy", "siren"} \cap AppFields : cloud' = [cloud EXCEPT ![f] = ~@]
     \/ \E f \in {"front", "wall"} \cap AppFields, l \in Levels :
          cloud' = [cloud EXCEPT ![f] = l]
     \/ \E k \in Colors : "color" \in AppFields /\ cloud' = [cloud EXCEPT !.color = k]
  /\ command' = Disturbed /\ poll' = DisturbedPoll
  /\ UNCHANGED <<cam, dp, cache, lighting, writer, frontSeen>>

(***************************************************************************)
(* A user command (onStateChange)                                          *)
(***************************************************************************)
CommandVars == <<cam, frontSeen>>

\* handleFrontLightToggle and handleWallwasherToggle keep the other light
\* as its data point has it.
OtherAsSelf(x) == dp[x].val = TRUE       \* mutated: its own data point is read
OtherIsOn(x)   == dp[Other(x)].val = TRUE

ReadOther(c) ==
  /\ command[c].pc = "start" /\ command[c].what \in {"front", "wall"}
  /\ command' = [command EXCEPT ![c].pc = "send",
       ![c].other = OtherIsOn(command[c].what)]
  /\ UNCHANGED <<CommandVars, cloud, dp, cache, lighting, poll, writer, budget>>

ReadyToSend(c) ==
  \/ command[c].pc = "start" /\ command[c].what \notin {"front", "wall"}
  \/ command[c].pc = "send"

FrontOn(s) == IF s.what = "wall" THEN s.other ELSE s.val
WallOn(s)  == IF s.what = "front" THEN s.other ELSE s.val

Unclamped(v) == v        \* mutated
LevelOf(on) == IF on THEN MaxLevel ELSE 0
Clamp(v)    == IF v > MaxLevel THEN MaxLevel ELSE v

\* buildWallwasherUpdate on the cached lights
Body(s) ==
  LET current == IF lighting = None THEN DefaultLighting ELSE lighting
  IN IF s.what = "brightness" THEN [current EXCEPT !.wall = Clamp(s.val)]
                              ELSE [current EXCEPT !.color = s.val]

\* The requests a command makes, each an assignment to what Bosch holds.
Requests(s) ==
  CASE s.what \in {"privacy", "siren"} -> {[f \in {s.what} |-> s.val]}
    [] s.what \in Wallwash -> {Body(s)}
    [] s.what \in Lights /\ cam = 2 ->
         {[f \in {"front"} |-> LevelOf(FrontOn(s))],
          [f \in {"wall"}  |-> LevelOf(WallOn(s))]}
    [] OTHER ->
         {[f \in {"front", "wall"} |->
             LevelOf(IF f = "front" THEN FrontOn(s) ELSE WallOn(s))]}

Send(c) ==
  /\ ReadyToSend(c)
  /\ command' = [command EXCEPT ![c].pc = "put",
       ![c].waiting = Requests(command[c]),
       ![c].body = IF command[c].what \in Wallwash THEN Body(command[c])
                                                   ELSE None]
  /\ UNCHANGED <<CommandVars, cloud, dp, cache, lighting, poll, writer, budget>>

\* There is no access token: the handler throws.
NoToken(c) ==
  /\ ReadyToSend(c)
  /\ Spend("faults")
  /\ command' = [command EXCEPT ![c] = Idle]
  /\ UNCHANGED <<CommandVars, cloud, dp, cache, lighting, poll, writer>>

\* Bosch carries a request out.
Accept(c, q) ==
  /\ q \in command[c].waiting
  /\ cloud' = Over(q, cloud)
  /\ command' = [command EXCEPT ![c].waiting = @ \ {q}, ![c].accepted = @ + 1]
  /\ UNCHANGED <<CommandVars, dp, cache, lighting, poll, writer, budget>>

\* Bosch answers with another status.
Refuse(c, q) ==
  /\ q \in command[c].waiting
  /\ Spend("faults")
  /\ command' = [command EXCEPT ![c].waiting = @ \ {q}]
  /\ UNCHANGED <<CommandVars, cloud, dp, cache, lighting, poll, writer>>

\* The connection fails: the request was carried out, or it was not.
Lose(c, q) ==
  /\ q \in command[c].waiting
  /\ Spend("faults")
  /\ cloud' \in {cloud, Over(q, cloud)}
  /\ command' = [command EXCEPT ![c].waiting = @ \ {q}, ![c].lost = TRUE]
  /\ UNCHANGED <<CommandVars, dp, cache, lighting, poll, writer>>

Answered(c)        == command[c].pc = "put" /\ command[c].waiting = {}
\* A request of two that was refused is forgiven, one that threw is not.
SucceededAnyway(c) == Answered(c) /\ ~command[c].lost   \* mutated: status ignored
Succeeded(c)       == Answered(c) /\ ~command[c].lost /\ command[c].accepted > 0
FailedOnStatus(c)  == Answered(c) /\ command[c].accepted = 0   \* mutated
Failed(c)          ==
  Answered(c) /\ (command[c].lost \/ command[c].accepted = 0)

\* The handler has thrown; the data point stays unacknowledged.  A command one
\* of whose two requests threw counts as under way until the other one is
\* answered, too: that one can still take effect.
Fail(c) ==
  /\ Failed(c)
  /\ command' = [command EXCEPT ![c] = Idle]
  /\ UNCHANGED <<CommandVars, cloud, dp, cache, lighting, poll, writer, budget>>

\* _applyLightingState writes its three data points one after the other.
SetLight(c, x, v) ==
  /\ SetState(x, v, TRUE, "command")
  /\ command' = [command EXCEPT ![c].pc = x]
  /\ UNCHANGED <<CommandVars, cloud, cache, lighting, poll, budget>>

SetFront(c) ==
  /\ Succeeded(c) /\ command[c].what \in Lights
  /\ SetLight(c, "front", FrontOn(command[c]))
SetWall(c) ==
  /\ command[c].pc = "front" /\ SetLight(c, "wall", WallOn(command[c]))
SetCombinedEither(c) ==   \* mutated: on when either light is
  /\ command[c].pc = "wall"
  /\ SetLight(c, "light", FrontOn(command[c]) \/ WallOn(command[c]))
SetCombined(c) ==
  /\ command[c].pc = "wall"
  /\ SetLight(c, "light", FrontOn(command[c]) /\ WallOn(command[c]))

\* The generic acknowledgement, with the value the user asked for.
Ack(c) ==
  /\ \/ command[c].pc = "light"
     \/ Succeeded(c) /\ command[c].what \notin Lights
  /\ SetState(command[c].what, command[c].val, TRUE, "command")
  /\ lighting' = IF command[c].what \in Wallwash THEN command[c].body
                                                ELSE lighting
  /\ command' = [command EXCEPT ![c] = Idle]
  /\ UNCHANGED <<CommandVars, cloud, cache, poll, budget>>

CommandStep(c) ==
  \/ ReadOther(c) \/ Send(c) \/ NoToken(c) \/ Fail(c)
  \/ SetFront(c) \/ SetWall(c) \/ SetCombined(c) \/ Ack(c)
  \/ \E q \in command[c].waiting : Accept(c, q) \/ Refuse(c, q) \/ Lose(c, q)

(***************************************************************************)
(* The state poll                                                          *)
(***************************************************************************)
PollVars == <<cam, cloud, command, budget>>

\* The interval fires, whether or not the previous tick is done.
Tick(p) ==
  /\ poll[p].pc = "idle"
  /\ poll' = [poll EXCEPT ![p] = [IdlePoll EXCEPT !.pc = "cameras",
       !.quiet = /\ \A c \in Commands : ~Busy(c)
                 /\ \A o \in Polls : poll[o].pc = "idle"]]
  /\ command' = Disturbed
  /\ UNCHANGED <<cam, cloud, dp, cache, lighting, writer, frontSeen, budget>>

\* Bosch answers fetchCameras.
CamerasAnswered(p) ==
  /\ poll[p].pc = "cameras"
  /\ poll' = [poll EXCEPT ![p].pc = "privacy", ![p].privacy = cloud.privacy]
  /\ UNCHANGED <<PollVars, dp, cache, lighting, writer, frontSeen>>

Read(xs) == [x \in xs |-> dp[x].val]

ReadPrivacy(p) ==
  /\ poll[p].pc = "privacy"
  /\ poll' = [poll EXCEPT ![p].pc = "mirrorPrivacy",
                          ![p].read = Read({"privacy"})]
  /\ UNCHANGED <<PollVars, dp, cache, lighting, writer, frontSeen>>

\* upsertState of these values: a value already in the cache is not written.
Upsert(wanted) ==
  LET fresh == {x \in DOMAIN wanted : cache[x] # wanted[x]}
  IN /\ cache' = Over(wanted, cache)
     /\ dp' = [x \in Points |->
                 IF x \in fresh THEN [val |-> wanted[x], ack |-> TRUE] ELSE dp[x]]
     /\ writer' = [x \in Points |-> IF x \in fresh THEN "poll" ELSE writer[x]]

\* Those of these values that the data points did not have when read.
Differing(p, values) ==
  [x \in {y \in DOMAIN values : poll[p].read[y] # values[y]} |-> values[x]]

MirrorPrivacy(p) ==
  /\ poll[p].pc = "mirrorPrivacy"
  /\ Upsert(Differing(p, [x \in {"privacy"} |-> poll[p].privacy]))
  /\ poll' = [poll EXCEPT ![p] =
       IF cam = 2 THEN [IdlePoll EXCEPT !.pc = "lighting", !.quiet = poll[p].quiet]
                  ELSE IdlePoll]
  /\ UNCHANGED <<PollVars, lighting, frontSeen>>

\* Bosch answers fetchLightingState.
LightingAnswered(p) ==
  /\ poll[p].pc = "lighting"
  /\ poll' = [poll EXCEPT ![p].pc = "lights",
                          ![p].lights = LightsOf(cloud)]
  /\ frontSeen' = (frontSeen \/ cloud.front > 0)
  /\ UNCHANGED <<PollVars, dp, cache, lighting, writer>>

\* The data points derived from the lights' full state.
DerivedOnce(l) == [brightness |-> l.wall, color |-> l.color]   \* mutated
DerivedByWall(l) ==                                            \* mutated
  [front |-> l.wall > 0, wall |-> l.wall > 0,
   brightness |-> l.wall, color |-> l.color]
Derived(l)     == [front |-> l.front > 0, wall |-> l.wall > 0,
                   brightness |-> l.wall, color |-> l.color]

ReadLights(p) ==
  /\ poll[p].pc = "lights"
  /\ lighting' = poll[p].lights
  /\ poll' = [poll EXCEPT ![p].pc = "mirrorLights",
                          ![p].read = Read(DOMAIN Derived(poll[p].lights))]
  /\ UNCHANGED <<PollVars, dp, cache, writer, frontSeen>>

MirrorLights(p) ==
  /\ poll[p].pc = "mirrorLights"
  /\ Upsert(Differing(p, Derived(poll[p].lights)))
  /\ poll' = [poll EXCEPT ![p] = IdlePoll]
  /\ UNCHANGED <<PollVars, lighting, frontSeen>>

\* A request of the poll fails, or there is no token at the tick; the next
\* tick starts again.
PollFails(p) ==
  /\ poll[p].pc \in {"cameras", "lighting"}
  /\ Spend("faults")
  /\ poll' = [poll EXCEPT ![p] = IdlePoll]
  /\ UNCHANGED <<cam, cloud, command, dp, cache, lighting, writer, frontSeen>>

PollStep(p) ==
  \/ Tick(p) \/ CamerasAnswered(p) \/ ReadPrivacy(p) \/ MirrorPrivacy(p)
  \/ LightingAnswered(p) \/ ReadLights(p) \/ MirrorLights(p) \/ PollFails(p)

Next ==
  \/ \E c \in Commands, x \in Points : \E v \in UserValues(x) : UserWrites(c, x, v)
  \/ AppChanges
  \/ \E c \in Commands : CommandStep(c)
  \/ \E p \in Polls : PollStep(p)

Spec == Init /\ [][Next]_vars

\* Handlers are run to their end, requests are answered (bounded many of them
\* with a failure), and the interval keeps firing.  Users need do nothing.
FairSpec == /\ Spec
            /\ \A c \in Commands : WF_vars(CommandStep(c))
            /\ \A p \in Polls : WF_vars(PollStep(p))

(***************************************************************************)
(* Properties                                                              *)
(***************************************************************************)

FieldValues(f) == CASE f = "color"             -> Colors
                    [] f \in {"front", "wall"} -> Levels
                    [] OTHER                   -> BOOLEAN

CommandRec(s) ==
  /\ DOMAIN s = DOMAIN Idle
  /\ s.pc \in CommandPCs /\ s.what \in Points /\ s.val \in UserValues(s.what)
  /\ s.other \in BOOLEAN /\ s.accepted \in Nat /\ s.lost \in BOOLEAN
  /\ s.alone \in BOOLEAN /\ s.synced \in BOOLEAN
  /\ s.body = None \/ s.body \in LightingRec
  /\ s.pc = "put" /\ s.what \in Wallwash => s.body # None
  /\ s.pc \in Lights => s.what \in Lights
  /\ s.waiting # {} => s.pc = "put"
  /\ \A q \in s.waiting : \A f \in DOMAIN q \cap Fields : q[f] \in FieldValues(f)
PollRec(s) ==
  /\ DOMAIN s = DOMAIN IdlePoll
  /\ s.pc \in PollPCs /\ s.privacy \in BOOLEAN /\ s.quiet \in BOOLEAN
  /\ s.lights = None \/ s.lights \in LightingRec
  /\ s.pc \in {"lights", "mirrorLights"} => s.lights # None

\* Every variable has its type: requests assign levels the camera has, caches
\* hold values of their data point, an update that is answered has a body.
TypeOK ==
  /\ cam \in {1, 2}
  /\ DOMAIN cloud = Fields /\ \A f \in Fields : cloud[f] \in FieldValues(f)
  /\ DOMAIN dp = Points /\ DOMAIN cache = Points
  /\ \A x \in Points : /\ dp[x].val \in UserValues(x) /\ dp[x].ack \in BOOLEAN
                        /\ (cache[x] = None \/ cache[x] \in UserValues(x))
  /\ writer \in [Points -> {"nobody", "user", "command", "poll"}]
  /\ lighting = None \/ lighting \in LightingRec
  /\ DOMAIN command = Commands /\ \A c \in Commands : CommandRec(command[c])
  /\ DOMAIN poll = Polls /\ \A p \in Polls : PollRec(poll[p])
  /\ frontSeen \in BOOLEAN

\* What a poll of this camera mirrors.
Mirrored == IF cam = 2 THEN {"privacy", "front", "wall"} \cup Wallwash
                       ELSE {"privacy"}

\* Poll p ends, having asked everything it asks.
Completes(p) ==
  /\ poll[p].pc = IF cam = 2 THEN "mirrorLights" ELSE "mirrorPrivacy"
  /\ poll'[p].pc = "idle"

\* The poll (line 1953: "mirror app-side state changes ... into ioBroker
\* DPs"): when a poll ends during which nobody changed anything, every data
\* point that it mirrors shows what Bosch holds.
PollMirrors ==
  [][\A p \in Polls : Completes(p) /\ poll[p].quiet =>
       \A x \in Mirrored : dp'[x].val = Shown(cloud)[x]]_vars

\* The same of the data points that no user command has written since the
\* poll wrote them: app-side changes reach these, whatever was cached.
PollMirrorsItsOwn ==
  [][\A p \in Polls : Completes(p) /\ poll[p].quiet =>
       \A x \in Mirrored : \/ dp'[x].val = Shown(cloud)[x]
                            \/ writer[x] \in {"user", "command"}]_vars

\* When a command ends that ran alone and had every request accepted, the data
\* points it acknowledges agree with the camera (line 2847: "so that
\* light_enabled and the two new datapoints stay in sync").
InRange(s) == s.what = "brightness" => s.val <= MaxLevel
Written(s) == IF s.what \in Lights THEN Lights ELSE {s.what}
SoloCommandAgrees ==
  [][\A c \in Commands :
       LET s == command[c]
       IN (/\ Busy(c) /\ command'[c].pc = "idle" /\ s.alone /\ InRange(s)
           /\ s.accepted = IF s.what \in Lights /\ cam = 2 THEN 2 ELSE 1)
          => \A x \in Written(s) : dp'[x] = [val |-> Shown(cloud)[x], ack |-> TRUE]]_vars

\* A command for one light leaves the other as it is (doc of
\* handleFrontLightToggle, "keep wallwasher untouched", and of
\* buildWallwasherUpdate, "the front spotlight stays untouched"), if it ran
\* alone and what the adapter knew of the other light was true.  A switch
\* leaves it on or off, not at its level: it sends full brightness.
OtherLightUntouched ==
  [][\A c \in Commands :
       LET s == command[c]
       IN s.alone /\ s.synced /\ command'[c].accepted > s.accepted =>
            /\ s.what = "front" => (cloud'.wall > 0) = (cloud.wall > 0)
            /\ s.what = "wall" => (cloud'.front > 0) = (cloud.front > 0)
            /\ s.what \in Wallwash => cloud'.front = cloud.front]_vars

\* A wallwasher update turns the spotlight on only if a poll has seen it on
\* (line 2346: "so the front spotlight isn't accidentally re-enabled").
OnlySeenFrontReturns ==
  [][\A c \in Commands :
       /\ command[c].what \in Wallwash /\ command'[c].accepted > command[c].accepted
       /\ cloud'.front > cloud.front
       => frontSeen]_vars

\* A command none of whose requests was accepted leaves its data point
\* unacknowledged (line 2205: "visible as pending failed").
FailureIsVisible ==
  [][\A c \in Commands :
       Busy(c) /\ command'[c].pc = "idle" /\ command[c].accepted = 0
         => dp' = dp]_vars

\* Every command comes to an end, whatever fails.
CommandsEnd == \A c \in Commands : Busy(c) ~> ~Busy(c)

\* Once users leave the camera alone, every mirrored data point that the poll
\* wrote last comes to show what Bosch holds, for good.
MirrorSettles ==
  <>[](\A x \in Mirrored : \/ dp[x].val = Shown(cloud)[x]
                           \/ writer[x] \in {"user", "command"})

=============================================================================
