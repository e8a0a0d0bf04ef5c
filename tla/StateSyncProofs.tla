-------------------------- MODULE StateSyncProofs --------------------------
(***************************************************************************)
(* Proofs about StateSync, for every set of commands and polls, every      *)
(* palette, brightness range and bound: the variables keep their types; a  *)
(* poll that nothing disturbs brings what the app changed to every data    *)
(* point that no command has written over; a command that ends without an  *)
(* accepted request changes no data point, one that ran alone with every   *)
(* request accepted leaves its data points as the camera is, and one for   *)
(* one light leaves the other as it was.                                   *)
(***************************************************************************)
EXTENDS StateSync, FiniteSetTheorems, TLAPS

\* The values a data point and a field can have, kind by kind.
LEMMA Kinds ==
  /\ UserValues("brightness") = 0..(MaxLevel + 1)
  /\ UserValues("color") = Colors
  /\ \A x : x # "brightness" /\ x # "color" => UserValues(x) = BOOLEAN
BY DEF UserValues

LEMMA InitTypes == Init => TypeOK
<1> SUFFICES ASSUME Init PROVE TypeOK
  OBVIOUS
<1>1. /\ cam \in {1, 2}
      /\ DOMAIN cloud = Fields /\ \A f \in Fields : cloud[f] \in FieldValues(f)
  BY StartsAssumption DEF Init, CloudRec, Fields, FieldValues
<1>2. /\ DOMAIN dp = Points /\ DOMAIN cache = Points
      /\ \A x \in Points : /\ dp[x].val \in UserValues(x) /\ dp[x].ack \in BOOLEAN
                           /\ (cache[x] = None \/ cache[x] \in UserValues(x))
      /\ writer \in [Points -> {"nobody", "user", "command", "poll"}]
  <2>1. /\ DOMAIN dp = Points /\ DOMAIN cache = Points
        /\ \A x \in Points : cache[x] = None
        /\ writer \in [Points -> {"nobody", "user", "command", "poll"}]
    BY DEF Init, Left
  <2>2. ASSUME NEW x \in Points PROVE dp[x].val \in UserValues(x) /\ dp[x].ack \in BOOLEAN
    <3>1. PICK r \in CloudRec : dp = Left(r)
      <4>1. Dark \in CloudRec
        <5>1. 0 \in Levels
          BY LevelsAssumption DEF Levels
        <5> QED
          BY <5>1, ColorsAssumption DEF Dark, CloudRec
      <4> QED
        BY <4>1, StartsAssumption DEF Init
    <3>2. dp[x].val = Shown(r)[x] /\ dp[x].ack = TRUE
      BY <2>2, <3>1 DEF Left
    <3>3. CASE x = "brightness"
      <4>1. Shown(r)[x] = r.wall
        BY <3>3 DEF Shown
      <4>2. r.wall \in 0..(MaxLevel + 1)
        BY LevelsAssumption DEF CloudRec, Levels
      <4> QED
        BY <3>2, <3>3, <4>1, <4>2, Kinds, Zenon
    <3>4. CASE x = "color"
      <4>1. Shown(r)[x] = r.color /\ r.color \in Colors
        BY <3>4 DEF Shown, CloudRec
      <4> QED
        BY <3>2, <3>4, <4>1 DEF UserValues
    <3>5. CASE x # "brightness" /\ x # "color"
      <4>1. Shown(r)[x] \in BOOLEAN
        <5>1. r.privacy \in BOOLEAN /\ r.siren \in BOOLEAN
          BY DEF CloudRec
        <5>2. CASE x = "privacy" \/ x = "siren"
          BY <5>1, <5>2 DEF Shown
        <5>3. CASE x \in Lights
          <6>1. (r.front > 0) \in BOOLEAN /\ (r.front > 0 /\ r.wall > 0) \in BOOLEAN
            OBVIOUS
          <6>2. CASE x = "front"
            <7>1. Shown(r)[x] = (r.front > 0)
              BY <6>2 DEF Shown
            <7> QED
              BY <7>1, <6>1
          <6>3. CASE x = "wall"
            <7>1. Shown(r)[x] = (r.wall > 0)
              BY <6>3 DEF Shown
            <7> QED
              BY <7>1
          <6>4. CASE x = "light"
            <7>1. Shown(r)[x] = (r.front > 0 /\ r.wall > 0)
              BY <6>4 DEF Shown
            <7> QED
              BY <7>1, <6>1
          <6> QED
            BY <5>3, <6>2, <6>3, <6>4 DEF Lights
        <5> QED
          BY <2>2, <3>5, <5>2, <5>3 DEF Points, Wallwash
      <4> QED
        BY <3>2, <3>5, <4>1 DEF UserValues
    <3> QED
      BY <3>3, <3>4, <3>5
  <2> QED
    BY <2>1, <2>2
<1>3. DOMAIN command = Commands /\ \A c \in Commands : CommandRec(command[c])
  BY DEF Init, Idle, CommandRec, CommandPCs, Points, Lights, Wallwash, UserValues
<1>4. DOMAIN poll = Polls /\ \A p \in Polls : PollRec(poll[p])
  BY DEF Init, IdlePoll, PollRec, PollPCs
<1> QED
  BY <1>1, <1>2, <1>3, <1>4 DEF TypeOK, Init

\* A handler's record is idle, or gets one or two of its fields replaced.
LEMMA IdleTypes == CommandRec(Idle) /\ PollRec(IdlePoll)
BY DEF Idle, CommandRec, CommandPCs, Points, Lights, Wallwash, UserValues,
       IdlePoll, PollRec, PollPCs

\* Typed variables, command by command and poll by poll.
LEMMA CommandUpdate ==
  ASSUME TypeOK, NEW c \in Commands, NEW s, CommandRec(s),
         command' = [command EXCEPT ![c] = s]
  PROVE  DOMAIN command' = Commands /\ \A d \in Commands : CommandRec(command'[d])
BY DEF TypeOK

LEMMA PollUpdate ==
  ASSUME TypeOK, NEW p \in Polls, NEW s, PollRec(s),
         poll' = [poll EXCEPT ![p] = s]
  PROVE  DOMAIN poll' = Polls /\ \A o \in Polls : PollRec(poll'[o])
BY DEF TypeOK

LEMMA DisturbedTypes ==
  ASSUME TypeOK
  PROVE  /\ DOMAIN Disturbed = Commands /\ \A d \in Commands : CommandRec(Disturbed[d])
         /\ DOMAIN DisturbedPoll = Polls /\ \A o \in Polls : PollRec(DisturbedPoll[o])
<1>1. ASSUME NEW d \in Commands PROVE CommandRec(Disturbed[d])
  BY <1>1 DEF TypeOK, Disturbed, CommandRec, Idle
<1>2. ASSUME NEW o \in Polls PROVE PollRec(DisturbedPoll[o])
  BY <1>2 DEF TypeOK, DisturbedPoll, PollRec, IdlePoll
<1> QED
  BY <1>1, <1>2 DEF Disturbed, DisturbedPoll

\* A write of a data point with a value of its kind.
LEMMA SetStateTypes ==
  ASSUME TypeOK, NEW x \in Points, NEW v \in UserValues(x), NEW a \in BOOLEAN,
         NEW w \in {"user", "command"}, SetState(x, v, a, w)
  PROVE  /\ DOMAIN dp' = Points
         /\ \A y \in Points : dp'[y].val \in UserValues(y) /\ dp'[y].ack \in BOOLEAN
         /\ writer' \in [Points -> {"nobody", "user", "command", "poll"}]
BY DEF TypeOK, SetState

LEMMA UpsertTypes ==
  ASSUME TypeOK, NEW wanted, Upsert(wanted),
         \A x \in DOMAIN wanted \cap Points : wanted[x] \in UserValues(x)
  PROVE  /\ DOMAIN dp' = Points /\ DOMAIN cache' = Points
         /\ \A x \in Points : /\ dp'[x].val \in UserValues(x) /\ dp'[x].ack \in BOOLEAN
                              /\ (cache'[x] = None \/ cache'[x] \in UserValues(x))
         /\ writer' \in [Points -> {"nobody", "user", "command", "poll"}]
<1>1. DOMAIN cache' = Points
      /\ \A x \in Points : cache'[x] = None \/ cache'[x] \in UserValues(x)
  BY DEF TypeOK, Upsert, Over
<1>2. DOMAIN dp' = Points
      /\ \A x \in Points : dp'[x].val \in UserValues(x) /\ dp'[x].ack \in BOOLEAN
  BY DEF TypeOK, Upsert
<1>3. writer' \in [Points -> {"nobody", "user", "command", "poll"}]
  BY DEF TypeOK, Upsert
<1> QED
  BY <1>1, <1>2, <1>3

\* The lights' full state, in each of its shapes.
LEMMA LightsTypes ==
  ASSUME TypeOK
  PROVE  LightsOf(cloud) \in LightingRec
BY DEF TypeOK, LightsOf, LightingRec, Fields, FieldValues

LEMMA DerivedTypes ==
  ASSUME NEW l \in LightingRec
  PROVE  \A x \in DOMAIN Derived(l) : Derived(l)[x] \in UserValues(x)
<1>1. l.wall \in 0..(MaxLevel + 1) /\ l.color \in Colors
  BY LevelsAssumption DEF LightingRec, Levels
<1>2. DOMAIN Derived(l) = {"front", "wall", "brightness", "color"}
  BY DEF Derived
<1>3. /\ Derived(l)["front"] \in BOOLEAN /\ Derived(l)["wall"] \in BOOLEAN
      /\ Derived(l)["brightness"] = l.wall /\ Derived(l)["color"] = l.color
  BY DEF Derived
<1> QED
  BY <1>1, <1>2, <1>3, Kinds

LEMMA BodyTypes ==
  ASSUME TypeOK, NEW c \in Commands, command[c].what \in Wallwash
  PROVE  Body(command[c]) \in LightingRec
<1> DEFINE s == command[c]
           current == IF lighting = None THEN DefaultLighting ELSE lighting
<1>1. current \in LightingRec
  <2>1. DefaultLighting \in LightingRec
    <3>1. 0 \in Levels
      BY LevelsAssumption DEF Levels
    <3> QED
      BY <3>1, ColorsAssumption DEF DefaultLighting, LightingRec
  <2> QED
    BY <2>1 DEF TypeOK
<1>2. s.val \in UserValues(s.what)
  BY DEF TypeOK, CommandRec
<1>3. CASE s.what = "brightness"
  <2>1. Clamp(s.val) \in Levels
    BY <1>2, <1>3, LevelsAssumption DEF UserValues, Clamp, Levels
  <2> QED
    BY <1>1, <1>3, <2>1 DEF Body, LightingRec
<1>4. CASE s.what = "color"
  BY <1>1, <1>2, <1>4 DEF UserValues, Body, LightingRec
<1> QED
  BY <1>3, <1>4 DEF Wallwash

LEMMA LevelOfTypes == \A on : LevelOf(on) \in Levels
BY LevelsAssumption DEF LevelOf, Levels

LEMMA RequestTypes ==
  ASSUME TypeOK, NEW c \in Commands, NEW q \in Requests(command[c]),
         NEW f \in DOMAIN q \cap Fields
  PROVE  q[f] \in FieldValues(f)
<1> DEFINE s == command[c]
<1>1. s.what \in Points /\ s.val \in UserValues(s.what)
  BY DEF TypeOK, CommandRec
<1>2. CASE s.what \in {"privacy", "siren"}
  <2>1. q = [g \in {s.what} |-> s.val]
    <3>1. Requests(s) = {[g \in {s.what} |-> s.val]}
      BY <1>2 DEF Requests, Wallwash, Lights
    <3> QED
      BY <3>1, Zenon
  <2>2. f = s.what /\ q[f] = s.val
    BY <2>1
  <2> QED
    BY <1>1, <1>2, <2>2 DEF UserValues, FieldValues
<1>3. CASE s.what \in Wallwash
  <2>1. Body(s) \in LightingRec
    BY <1>3, BodyTypes
  <2>2. s.what \notin {"privacy", "siren"} /\ s.what \notin Lights
    BY <1>3 DEF Wallwash, Lights
  <2>3. q = Body(s)
    <3>1. Requests(s) = {Body(s)}
      BY <1>3, <2>2 DEF Requests
    <3> QED
      BY <3>1, Zenon
  <2> QED
    BY <2>1, <2>3 DEF LightingRec, FieldValues, Fields
<1>4. CASE s.what \in Lights /\ cam = 2
  <2>1. s.what \notin {"privacy", "siren"} /\ s.what \notin Wallwash
    BY <1>4 DEF Lights, Wallwash
  <2>2. \/ q = [g \in {"front"} |-> LevelOf(FrontOn(s))]
        \/ q = [g \in {"wall"}  |-> LevelOf(WallOn(s))]
    BY <1>4, <2>1 DEF Requests
  <2> QED
    BY <2>2, LevelOfTypes DEF FieldValues
<1>5. CASE s.what \in Lights /\ cam # 2
  <2>1. s.what \notin {"privacy", "siren"} /\ s.what \notin Wallwash
    BY <1>5 DEF Lights, Wallwash
  <2>2. q = [g \in {"front", "wall"} |->
               LevelOf(IF g = "front" THEN FrontOn(s) ELSE WallOn(s))]
    BY <1>5, <2>1 DEF Requests
  <2> QED
    BY <2>2, LevelOfTypes DEF FieldValues
<1> QED
  BY <1>1, <1>2, <1>3, <1>4, <1>5 DEF Points

\* Each action keeps the types, by its own changes to a few variables.
LEMMA UserWritesTypes ==
  ASSUME TypeOK, NEW c \in Commands, NEW x \in Points, NEW v \in UserValues(x),
         UserWrites(c, x, v)
  PROVE  TypeOK'
<1>1. /\ DOMAIN dp' = Points
      /\ \A y \in Points : dp'[y].val \in UserValues(y) /\ dp'[y].ack \in BOOLEAN
      /\ writer' \in [Points -> {"nobody", "user", "command", "poll"}]
  BY SetStateTypes DEF UserWrites
<1>2. PICK a \in BOOLEAN, b \in BOOLEAN :
        command' = [Disturbed EXCEPT ![c] =
          [Idle EXCEPT !.pc = "start", !.what = x, !.val = v,
                       !.alone = a, !.synced = b]]
  BY DEF UserWrites
<1>3. CommandRec([Idle EXCEPT !.pc = "start", !.what = x, !.val = v,
                              !.alone = a, !.synced = b])
  BY DEF CommandRec, CommandPCs, Idle, Lights
<1>4. DOMAIN command' = Commands /\ \A d \in Commands : CommandRec(command'[d])
  BY <1>2, <1>3, DisturbedTypes
<1>5. DOMAIN poll' = Polls /\ \A o \in Polls : PollRec(poll'[o])
  BY DisturbedTypes DEF UserWrites
<1> QED
  BY <1>1, <1>4, <1>5 DEF UserWrites, TypeOK

LEMMA AppChangesTypes ==
  ASSUME TypeOK, AppChanges
  PROVE  TypeOK'
<1>1. DOMAIN cloud' = Fields /\ \A f \in Fields : cloud'[f] \in FieldValues(f)
  <2>1. CASE \E f \in {"privacy", "siren"} : cloud' = [cloud EXCEPT ![f] = ~@]
    BY <2>1 DEF TypeOK, FieldValues, Fields
  <2>2. CASE \E f \in {"front", "wall"}, l \in Levels : cloud' = [cloud EXCEPT ![f] = l]
    BY <2>2 DEF TypeOK, FieldValues, Fields
  <2>3. CASE \E k \in Colors : cloud' = [cloud EXCEPT !.color = k]
    BY <2>3 DEF TypeOK, FieldValues, Fields
  <2> QED
    BY <2>1, <2>2, <2>3 DEF AppChanges
<1>2. /\ DOMAIN command' = Commands /\ \A d \in Commands : CommandRec(command'[d])
      /\ DOMAIN poll' = Polls /\ \A o \in Polls : PollRec(poll'[o])
  BY DisturbedTypes DEF AppChanges
<1> QED
  BY <1>1, <1>2 DEF AppChanges, TypeOK

LEMMA CommandStepTypes ==
  ASSUME TypeOK, NEW c \in Commands, CommandStep(c)
  PROVE  TypeOK'
<1> DEFINE s == command[c]
<1>0. CommandRec(s)
  BY DEF TypeOK
<1>1. CASE ReadOther(c)
  <2>1. PICK o \in BOOLEAN : command' = [command EXCEPT ![c] =
                                [s EXCEPT !.pc = "send", !.other = o]]
    BY <1>1 DEF ReadOther, OtherIsOn
  <2>2. CommandRec([s EXCEPT !.pc = "send", !.other = o])
    BY <1>0, <1>1 DEF ReadOther, CommandRec, CommandPCs, Idle, Lights
  <2>3. DOMAIN command' = Commands /\ \A d \in Commands : CommandRec(command'[d])
    BY <2>1, <2>2, CommandUpdate
  <2> QED
    BY <1>1, <2>3 DEF ReadOther, CommandVars, TypeOK
<1>2. CASE Send(c)
  <2> DEFINE b == IF s.what \in Wallwash THEN Body(s) ELSE None
             t == [s EXCEPT !.pc = "put", !.waiting = Requests(s), !.body = b]
  <2>1. command' = [command EXCEPT ![c] = t]
    BY <1>2 DEF Send
  <2>2. /\ b = None \/ b \in LightingRec
        /\ s.what \in Wallwash => b # None
    BY BodyTypes, NoneIsNoValue
  <2>3. \A q \in Requests(s) : \A f \in DOMAIN q \cap Fields : q[f] \in FieldValues(f)
    BY RequestTypes
  <2>4. CommandRec(t)
    <3> HIDE DEF b
    <3> QED
      BY <1>0, <2>2, <2>3 DEF CommandRec, CommandPCs, Idle, Lights
  <2>5. DOMAIN command' = Commands /\ \A d \in Commands : CommandRec(command'[d])
    <3> HIDE DEF t
    <3> QED
      BY <2>1, <2>4, CommandUpdate
  <2> QED
    BY <1>2, <2>5 DEF Send, CommandVars, TypeOK
<1>3. CASE NoToken(c) \/ Fail(c)
  <2>1. DOMAIN command' = Commands /\ \A d \in Commands : CommandRec(command'[d])
    BY <1>3, CommandUpdate, IdleTypes DEF NoToken, Fail
  <2> QED
    BY <1>3, <2>1 DEF NoToken, Fail, CommandVars, TypeOK
<1>4. CASE SetFront(c) \/ SetWall(c) \/ SetCombined(c)
  <2>1. s.what \in Lights
    BY <1>0, <1>4 DEF SetFront, SetWall, SetCombined, CommandRec, Lights
  <2>2. s.val \in BOOLEAN /\ s.other \in BOOLEAN
    BY <1>0, <2>1, Kinds DEF CommandRec, Lights
  <2>3. FrontOn(s) \in BOOLEAN /\ WallOn(s) \in BOOLEAN
    BY <2>2 DEF FrontOn, WallOn
  <2>4. PICK x \in Lights, v \in BOOLEAN : SetLight(c, x, v)
    <3>1. (FrontOn(s) /\ WallOn(s)) \in BOOLEAN
      OBVIOUS
    <3>2. "front" \in Lights /\ "wall" \in Lights /\ "light" \in Lights
      BY DEF Lights
    <3> QED
      BY <1>4, <2>3, <3>1, <3>2, Zenon DEF SetFront, SetWall, SetCombined
  <2>5. x \in Points /\ v \in UserValues(x) /\ x \in CommandPCs
    BY Kinds DEF Lights, Points, CommandPCs
  <2>6. /\ DOMAIN dp' = Points
        /\ \A y \in Points : dp'[y].val \in UserValues(y) /\ dp'[y].ack \in BOOLEAN
        /\ writer' \in [Points -> {"nobody", "user", "command", "poll"}]
    BY <2>4, <2>5, SetStateTypes DEF SetLight
  <2>7. CommandRec([s EXCEPT !.pc = x])
    <3>1. s.waiting = {}
      BY <1>0, <1>4 DEF SetFront, Succeeded, Answered, SetWall, SetCombined, CommandRec
    <3> QED
      BY <1>0, <2>1, <2>5, <3>1 DEF CommandRec, Idle, Lights
  <2>8. DOMAIN command' = Commands /\ \A d \in Commands : CommandRec(command'[d])
    BY <2>4, <2>7, CommandUpdate DEF SetLight
  <2> QED
    BY <2>4, <2>6, <2>8 DEF SetLight, CommandVars, TypeOK
<1>5. CASE Ack(c)
  <2>1. s.what \in Points /\ s.val \in UserValues(s.what)
    BY <1>0 DEF CommandRec
  <2>2. /\ DOMAIN dp' = Points
        /\ \A y \in Points : dp'[y].val \in UserValues(y) /\ dp'[y].ack \in BOOLEAN
        /\ writer' \in [Points -> {"nobody", "user", "command", "poll"}]
    BY <1>5, <2>1, SetStateTypes DEF Ack
  <2>3. lighting' = None \/ lighting' \in LightingRec
    BY <1>0, <1>5 DEF Ack, CommandRec, TypeOK
  <2>4. DOMAIN command' = Commands /\ \A d \in Commands : CommandRec(command'[d])
    BY <1>5, CommandUpdate, IdleTypes DEF Ack
  <2> QED
    BY <1>5, <2>2, <2>3, <2>4 DEF Ack, CommandVars, TypeOK
<1>6. CASE \E q \in s.waiting : Accept(c, q) \/ Refuse(c, q) \/ Lose(c, q)
  <2>1. PICK q \in s.waiting : Accept(c, q) \/ Refuse(c, q) \/ Lose(c, q)
    BY <1>6
  <2>2. cloud' = cloud \/ cloud' = Over(q, cloud)
    BY <2>1 DEF Accept, Refuse, Lose
  <2>3. DOMAIN cloud' = Fields /\ \A f \in Fields : cloud'[f] \in FieldValues(f)
    BY <1>0, <2>2 DEF Over, CommandRec, TypeOK
  <2>4. PICK n \in Nat, l \in BOOLEAN : command' = [command EXCEPT ![c] =
          [s EXCEPT !.waiting = s.waiting \ {q}, !.accepted = n, !.lost = l]]
    <3>1. s.accepted \in Nat /\ s.accepted + 1 \in Nat /\ s.lost \in BOOLEAN
      BY <1>0 DEF CommandRec
    <3>2. [s EXCEPT !.waiting = s.waiting \ {q}, !.accepted = s.accepted, !.lost = s.lost]
            = [s EXCEPT !.waiting = s.waiting \ {q}]
      BY <1>0 DEF CommandRec, Idle
    <3>3. CASE Accept(c, q)
      <4>1. [s EXCEPT !.waiting = s.waiting \ {q}, !.accepted = s.accepted + 1]
              = [s EXCEPT !.waiting = s.waiting \ {q}, !.accepted = s.accepted + 1,
                          !.lost = s.lost]
        BY <1>0 DEF CommandRec, Idle
      <4>2. command' = [command EXCEPT ![c] =
              [s EXCEPT !.waiting = s.waiting \ {q}, !.accepted = s.accepted + 1]]
        BY <3>3 DEF Accept
      <4> QED
        BY <3>1, <4>1, <4>2
    <3>4. CASE Refuse(c, q)
      BY <3>1, <3>2, <3>4 DEF Refuse
    <3>5. CASE Lose(c, q)
      <4>1. [s EXCEPT !.waiting = s.waiting \ {q}, !.lost = TRUE]
              = [s EXCEPT !.waiting = s.waiting \ {q}, !.accepted = s.accepted,
                          !.lost = TRUE]
        BY <1>0 DEF CommandRec, Idle
      <4>2. command' = [command EXCEPT ![c] =
              [s EXCEPT !.waiting = s.waiting \ {q}, !.lost = TRUE]]
        BY <3>5 DEF Lose
      <4> QED
        BY <3>1, <4>1, <4>2
    <3> QED
      BY <2>1, <3>3, <3>4, <3>5
  <2>5. CommandRec([s EXCEPT !.waiting = s.waiting \ {q}, !.accepted = n, !.lost = l])
    BY <1>0 DEF CommandRec, Idle
  <2>6. DOMAIN command' = Commands /\ \A d \in Commands : CommandRec(command'[d])
    BY <2>4, <2>5, CommandUpdate
  <2> QED
    BY <2>1, <2>3, <2>6 DEF Accept, Refuse, Lose, CommandVars, TypeOK
<1> QED
  BY <1>1, <1>2, <1>3, <1>4, <1>5, <1>6 DEF CommandStep

LEMMA PollStepTypes ==
  ASSUME TypeOK, NEW p \in Polls, PollStep(p)
  PROVE  TypeOK'
<1> DEFINE s == poll[p]
<1>0. PollRec(s)
  BY DEF TypeOK
<1>1. CASE Tick(p)
  <2>1. PICK b \in BOOLEAN : poll' = [poll EXCEPT ![p] =
                                [IdlePoll EXCEPT !.pc = "cameras", !.quiet = b]]
    BY <1>1 DEF Tick
  <2>2. PollRec([IdlePoll EXCEPT !.pc = "cameras", !.quiet = b])
    BY DEF PollRec, PollPCs, IdlePoll
  <2>3. DOMAIN poll' = Polls /\ \A o \in Polls : PollRec(poll'[o])
    BY <2>1, <2>2, PollUpdate
  <2>4. DOMAIN command' = Commands /\ \A d \in Commands : CommandRec(command'[d])
    BY <1>1, DisturbedTypes DEF Tick
  <2> QED
    BY <1>1, <2>3, <2>4 DEF Tick, TypeOK
<1>2. CASE CamerasAnswered(p)
  <2>1. cloud.privacy \in BOOLEAN
    BY DEF TypeOK, FieldValues, Fields
  <2>2. PollRec([s EXCEPT !.pc = "privacy", !.privacy = cloud.privacy])
    BY <1>0, <2>1 DEF PollRec, PollPCs, IdlePoll
  <2>3. DOMAIN poll' = Polls /\ \A o \in Polls : PollRec(poll'[o])
    BY <1>2, <2>2, PollUpdate DEF CamerasAnswered
  <2> QED
    BY <1>2, <2>3 DEF CamerasAnswered, PollVars, TypeOK
<1>3. CASE ReadPrivacy(p)
  <2>1. PollRec([s EXCEPT !.pc = "mirrorPrivacy", !.read = Read({"privacy"})])
    BY <1>0 DEF PollRec, PollPCs, IdlePoll
  <2>2. DOMAIN poll' = Polls /\ \A o \in Polls : PollRec(poll'[o])
    BY <1>3, <2>1, PollUpdate DEF ReadPrivacy
  <2> QED
    BY <1>3, <2>2 DEF ReadPrivacy, PollVars, TypeOK
<1>4. CASE MirrorPrivacy(p)
  <2> DEFINE wanted == Differing(p, [x \in {"privacy"} |-> s.privacy])
             t == IF cam = 2 THEN [IdlePoll EXCEPT !.pc = "lighting", !.quiet = s.quiet]
                             ELSE IdlePoll
  <2>1. \A x \in DOMAIN wanted \cap Points : wanted[x] \in UserValues(x)
    BY <1>0, Kinds DEF PollRec, Differing
  <2>2. /\ DOMAIN dp' = Points /\ DOMAIN cache' = Points
        /\ \A x \in Points : /\ dp'[x].val \in UserValues(x) /\ dp'[x].ack \in BOOLEAN
                             /\ (cache'[x] = None \/ cache'[x] \in UserValues(x))
        /\ writer' \in [Points -> {"nobody", "user", "command", "poll"}]
    <3> HIDE DEF wanted
    <3>1. Upsert(wanted)
      BY <1>4 DEF MirrorPrivacy, wanted
    <3> QED
      BY <2>1, <3>1, UpsertTypes
  <2>3. PollRec(t)
    BY <1>0, IdleTypes DEF PollRec, PollPCs, IdlePoll
  <2>4. DOMAIN poll' = Polls /\ \A o \in Polls : PollRec(poll'[o])
    <3> HIDE DEF t
    <3>1. poll' = [poll EXCEPT ![p] = t]
      BY <1>4 DEF MirrorPrivacy, t
    <3> QED
      BY <2>3, <3>1, PollUpdate
  <2> QED
    BY <1>4, <2>2, <2>4 DEF MirrorPrivacy, PollVars, TypeOK
<1>5. CASE LightingAnswered(p)
  <2>1. PollRec([s EXCEPT !.pc = "lights", !.lights = LightsOf(cloud)])
    BY <1>0, LightsTypes, NoneIsNoValue DEF PollRec, PollPCs, IdlePoll
  <2>2. DOMAIN poll' = Polls /\ \A o \in Polls : PollRec(poll'[o])
    BY <1>5, <2>1, PollUpdate DEF LightingAnswered
  <2>3. frontSeen' \in BOOLEAN
    BY <1>5 DEF LightingAnswered, TypeOK
  <2> QED
    BY <1>5, <2>2, <2>3 DEF LightingAnswered, PollVars, TypeOK
<1>6. CASE ReadLights(p)
  <2>1. PollRec([s EXCEPT !.pc = "mirrorLights",
                          !.read = Read(DOMAIN Derived(s.lights))])
    BY <1>0, <1>6 DEF PollRec, PollPCs, IdlePoll, ReadLights
  <2>2. DOMAIN poll' = Polls /\ \A o \in Polls : PollRec(poll'[o])
    BY <1>6, <2>1, PollUpdate DEF ReadLights
  <2>3. lighting' = None \/ lighting' \in LightingRec
    BY <1>0, <1>6 DEF ReadLights, PollRec
  <2> QED
    BY <1>6, <2>2, <2>3 DEF ReadLights, PollVars, TypeOK
<1>7. CASE MirrorLights(p)
  <2> DEFINE wanted == Differing(p, Derived(s.lights))
  <2>1. \A x \in DOMAIN wanted \cap Points : wanted[x] \in UserValues(x)
    <3>1. s.lights \in LightingRec
      BY <1>0, <1>7 DEF MirrorLights, PollRec
    <3> QED
      BY <3>1, DerivedTypes DEF Differing
  <2>2. /\ DOMAIN dp' = Points /\ DOMAIN cache' = Points
        /\ \A x \in Points : /\ dp'[x].val \in UserValues(x) /\ dp'[x].ack \in BOOLEAN
                             /\ (cache'[x] = None \/ cache'[x] \in UserValues(x))
        /\ writer' \in [Points -> {"nobody", "user", "command", "poll"}]
    <3> HIDE DEF wanted
    <3>1. Upsert(wanted)
      BY <1>7 DEF MirrorLights, wanted
    <3> QED
      BY <2>1, <3>1, UpsertTypes
  <2>3. DOMAIN poll' = Polls /\ \A o \in Polls : PollRec(poll'[o])
    BY <1>7, IdleTypes, PollUpdate DEF MirrorLights
  <2> QED
    BY <1>7, <2>2, <2>3 DEF MirrorLights, PollVars, TypeOK
<1>8. CASE PollFails(p)
  <2>1. DOMAIN poll' = Polls /\ \A o \in Polls : PollRec(poll'[o])
    BY <1>8, IdleTypes, PollUpdate DEF PollFails
  <2> QED
    BY <1>8, <2>1 DEF PollFails, TypeOK
<1> QED
  BY <1>1, <1>2, <1>3, <1>4, <1>5, <1>6, <1>7, <1>8 DEF PollStep

LEMMA TypeStep == TypeOK /\ [Next]_vars => TypeOK'
<1> SUFFICES ASSUME TypeOK, [Next]_vars PROVE TypeOK'
  OBVIOUS
<1>1. CASE UNCHANGED vars
  BY <1>1 DEF vars, TypeOK
<1>2. CASE Next
  BY <1>2, UserWritesTypes, AppChangesTypes, CommandStepTypes, PollStepTypes DEF Next
<1> QED
  BY <1>1, <1>2

\* Every variable keeps its type (TypeOK): whatever is requested, refused, lost
\* or mirrored, Bosch is only ever asked for levels the camera has.
THEOREM TypeCorrect == Spec => []TypeOK
<1>1. TypeOK /\ [Next]_vars => TypeOK'
  BY TypeStep
<1> QED
  BY <1>1, InitTypes, PTL DEF Spec

(***************************************************************************)
(* A quiet poll                                                            *)
(***************************************************************************)

\* What a data point that the poll wrote last shows is what is cached for it.
CacheInv ==
  \A x \in Points : /\ writer[x] = "nobody" => cache[x] = None
                    /\ writer[x] = "poll" => cache[x] = dp[x].val

\* What Bosch told a poll is still so.
Told(o) ==
  /\ poll[o].pc \in {"privacy", "mirrorPrivacy"} => poll[o].privacy = cloud.privacy
  /\ poll[o].pc \in {"lights", "mirrorLights"} => poll[o].lights = LightsOf(cloud)

True(x)    == dp[x].val = Shown(cloud)[x]
Settled(x) == True(x) \/ writer[x] \in {"user", "command"}

\* Poll p has found these data points to be true, or will write them.
Compared(p, xs) == \A x \in xs : poll[p].read[x] = Shown(cloud)[x] => True(x)

LightPoints == {"front", "wall", "brightness", "color"}

\* While a quiet poll is under way no command is, every poll's answers are
\* up to date, and the poll has settled the data points it is done with.
QuietInv ==
  \A p \in Polls : poll[p].quiet =>
    /\ poll[p].pc # "idle"
    /\ \A c \in Commands : ~Busy(c)
    /\ \A o \in Polls : Told(o)
    /\ poll[p].pc = "mirrorPrivacy" => Compared(p, {"privacy"})
    /\ poll[p].pc \in {"lighting", "lights", "mirrorLights"} => Settled("privacy")
    /\ poll[p].pc = "mirrorLights" => Compared(p, LightPoints)

SyncInv == TypeOK /\ CacheInv /\ QuietInv

\* The poll looks at data points of the right kind.
LEMMA DerivedIsShown ==
  /\ DOMAIN Derived(LightsOf(cloud)) = LightPoints
  /\ \A x \in LightPoints : Derived(LightsOf(cloud))[x] = Shown(cloud)[x]
BY DEF Derived, LightsOf, Shown, LightPoints

\* A data point is written by a user or a command: its cache is free to lag.
LEMMA SetStateCache ==
  ASSUME TypeOK, CacheInv, NEW x \in Points, NEW v, NEW a,
         NEW w \in {"user", "command"}, SetState(x, v, a, w), cache' = cache
  PROVE  CacheInv'
BY DEF TypeOK, CacheInv, SetState

\* An upsert leaves cache and data point agreeing, if it writes; what it does
\* not write although it should have been, a user or a command wrote last.
LEMMA UpsertCache ==
  ASSUME TypeOK, CacheInv, NEW wanted, Upsert(wanted), DOMAIN wanted \subseteq Points,
         \A x \in DOMAIN wanted : wanted[x] \in UserValues(x)
  PROVE  /\ CacheInv'
         /\ \A x \in DOMAIN wanted : \/ dp'[x].val = wanted[x]
                                     \/ writer'[x] \in {"user", "command"}
         /\ \A x \in Points : \/ dp'[x] = dp[x] /\ writer'[x] = writer[x]
                              \/ x \in DOMAIN wanted /\ dp'[x].val = wanted[x]
<1> DEFINE fresh == {x \in DOMAIN wanted : cache[x] # wanted[x]}
<1>1. ASSUME NEW x \in fresh
      PROVE  dp'[x].val = wanted[x] /\ writer'[x] = "poll" /\ cache'[x] = wanted[x]
  BY DEF Upsert, Over, TypeOK
<1>2. ASSUME NEW x \in Points \ fresh
      PROVE  dp'[x] = dp[x] /\ writer'[x] = writer[x] /\ cache'[x] = cache[x]
  BY DEF Upsert, Over, TypeOK
<1>3. CacheInv'
  BY <1>1, <1>2 DEF CacheInv
<1>4. ASSUME NEW x \in DOMAIN wanted, x \notin fresh
      PROVE  dp'[x].val = wanted[x] \/ writer'[x] \in {"user", "command"}
  <2>1. cache[x] = wanted[x] /\ cache[x] # None
    BY <1>4, NoneIsNoValue
  <2>2. writer[x] \in {"poll", "user", "command"}
    BY <2>1 DEF CacheInv, TypeOK
  <2> QED
    BY <1>2, <1>4, <2>1, <2>2 DEF CacheInv
<1> QED
  BY <1>1, <1>2, <1>3, <1>4

\* The values a poll differs in are among those it was told.
LEMMA DifferingValues ==
  ASSUME NEW p, NEW values
  PROVE  /\ DOMAIN Differing(p, values) \subseteq DOMAIN values
         /\ \A x \in DOMAIN Differing(p, values) : Differing(p, values)[x] = values[x]
         /\ \A x \in DOMAIN values : x \notin DOMAIN Differing(p, values)
                                        => poll[p].read[x] = values[x]
BY DEF Differing

\* What either mirroring step of a poll does to data points and cache.
LEMMA MirrorPrivacyEffect ==
  ASSUME TypeOK, CacheInv, NEW o \in Polls, MirrorPrivacy(o)
  PROVE  /\ CacheInv'
         /\ \A x \in Points : \/ dp'[x] = dp[x] /\ writer'[x] = writer[x]
                              \/ x = "privacy" /\ dp'[x].val = poll[o].privacy
         /\ \/ dp'["privacy"].val = poll[o].privacy
            \/ writer'["privacy"] \in {"user", "command"}
            \/ poll[o].read["privacy"] = poll[o].privacy
<1> DEFINE values == [x \in {"privacy"} |-> poll[o].privacy]
           wanted == Differing(o, values)
<1>1. Upsert(wanted)
  BY DEF MirrorPrivacy
<1>2. /\ DOMAIN wanted \subseteq {"privacy"}
      /\ \A x \in DOMAIN wanted : wanted[x] = poll[o].privacy
      /\ "privacy" \notin DOMAIN wanted => poll[o].read["privacy"] = poll[o].privacy
  BY DifferingValues
<1>3. "privacy" \in Points /\ UserValues("privacy") = BOOLEAN /\ poll[o].privacy \in BOOLEAN
  BY Kinds DEF Points, TypeOK, PollRec
<1>4. DOMAIN wanted \subseteq Points /\ \A x \in DOMAIN wanted : wanted[x] \in UserValues(x)
  BY <1>2, <1>3
<1> HIDE DEF wanted
<1> QED
  BY <1>1, <1>2, <1>4, UpsertCache

LEMMA MirrorLightsEffect ==
  ASSUME TypeOK, CacheInv, NEW o \in Polls, MirrorLights(o)
  PROVE  /\ CacheInv'
         /\ \A x \in Points : \/ dp'[x] = dp[x] /\ writer'[x] = writer[x]
                              \/ /\ x \in DOMAIN Derived(poll[o].lights)
                                 /\ dp'[x].val = Derived(poll[o].lights)[x]
         /\ \A x \in DOMAIN Derived(poll[o].lights) :
              \/ dp'[x].val = Derived(poll[o].lights)[x]
              \/ writer'[x] \in {"user", "command"}
              \/ poll[o].read[x] = Derived(poll[o].lights)[x]
<1> DEFINE values == Derived(poll[o].lights)
           wanted == Differing(o, values)
<1>1. Upsert(wanted)
  BY DEF MirrorLights
<1>2. poll[o].lights \in LightingRec
  BY DEF TypeOK, PollRec, MirrorLights
<1>3. DOMAIN values \subseteq Points /\ \A x \in DOMAIN values : values[x] \in UserValues(x)
  BY <1>2, DerivedTypes DEF Derived, Points, Lights, Wallwash
<1> HIDE DEF values
<1>4. /\ DOMAIN wanted \subseteq DOMAIN values
      /\ \A x \in DOMAIN wanted : wanted[x] = values[x]
      /\ \A x \in DOMAIN values : x \notin DOMAIN wanted => poll[o].read[x] = values[x]
  BY DifferingValues
<1> HIDE DEF wanted
<1>5. /\ CacheInv'
      /\ \A x \in DOMAIN wanted : \/ dp'[x].val = wanted[x]
                                  \/ writer'[x] \in {"user", "command"}
      /\ \A x \in Points : \/ dp'[x] = dp[x] /\ writer'[x] = writer[x]
                           \/ x \in DOMAIN wanted /\ dp'[x].val = wanted[x]
  BY <1>1, <1>3, <1>4, UpsertCache
<1>6. /\ \A x \in Points : \/ dp'[x] = dp[x] /\ writer'[x] = writer[x]
                           \/ x \in DOMAIN values /\ dp'[x].val = values[x]
      /\ \A x \in DOMAIN values : \/ dp'[x].val = values[x]
                                  \/ writer'[x] \in {"user", "command"}
                                  \/ poll[o].read[x] = values[x]
  BY <1>4, <1>5
<1> QED
  BY <1>5, <1>6 DEF values

LEMMA CacheStep ==
  ASSUME TypeOK, CacheInv, [Next]_vars
  PROVE  CacheInv'
<1>1. ASSUME NEW c \in Commands, NEW x \in Points, NEW v \in UserValues(x), UserWrites(c, x, v)
      PROVE  CacheInv'
  BY <1>1, SetStateCache DEF UserWrites
<1>2. ASSUME NEW c \in Commands, CommandStep(c)
      PROVE  CacheInv'
  <2>1. CASE Ack(c)
    <3>1. command[c].what \in Points
      BY <1>2 DEF TypeOK, CommandRec
    <3> QED
      BY <2>1, <3>1, SetStateCache DEF Ack
  <2>2. CASE SetFront(c) \/ SetWall(c) \/ SetCombined(c)
    <3>1. PICK x \in Points : \E v : SetLight(c, x, v)
      BY <2>2 DEF SetFront, SetWall, SetCombined, Points, Lights
    <3> QED
      BY <3>1, SetStateCache DEF SetLight
  <2>3. CASE UNCHANGED <<dp, cache, writer>>
    BY <2>3 DEF CacheInv
  <2> QED
    BY <1>2, <2>1, <2>2, <2>3 DEF CommandStep, ReadOther, Send, NoToken, Fail,
                                  Accept, Refuse, Lose
<1>3. ASSUME NEW o \in Polls, PollStep(o)
      PROVE  CacheInv'
  <2>1. CASE MirrorPrivacy(o)
    BY <2>1, MirrorPrivacyEffect
  <2>2. CASE MirrorLights(o)
    BY <2>2, MirrorLightsEffect
  <2>3. CASE UNCHANGED <<dp, cache, writer>>
    BY <2>3 DEF CacheInv
  <2> QED
    BY <1>3, <2>1, <2>2, <2>3 DEF PollStep, Tick, CamerasAnswered, ReadPrivacy,
                                  LightingAnswered, ReadLights, PollFails
<1>4. CASE AppChanges \/ UNCHANGED vars
  BY <1>4 DEF AppChanges, vars, CacheInv
<1> QED
  BY <1>1, <1>2, <1>3, <1>4 DEF Next

\* While a poll is quiet, no user or command does anything; the first thing
\* that does makes every poll unquiet.
LEMMA OutsideQuiet ==
  ASSUME TypeOK, QuietInv,
         \/ \E c \in Commands, x \in Points : \E v \in UserValues(x) : UserWrites(c, x, v)
         \/ AppChanges
         \/ \E c \in Commands : CommandStep(c)
  PROVE  QuietInv'
<1>1. CASE \/ \E c \in Commands, x \in Points : \E v \in UserValues(x) : UserWrites(c, x, v)
           \/ AppChanges
  <2>1. poll' = DisturbedPoll
    BY <1>1 DEF UserWrites, AppChanges
  <2>2. \A p \in Polls : poll'[p].quiet = FALSE
    BY <2>1 DEF DisturbedPoll, TypeOK, PollRec, IdlePoll
  <2> QED
    BY <2>2 DEF QuietInv
<1>2. CASE \E c \in Commands : CommandStep(c)
  <2>1. PICK c \in Commands : CommandStep(c)
    BY <1>2
  <2>2. Busy(c)
    <3>1. command[c].pc # "idle" \/ command[c].waiting # {}
      BY <2>1 DEF CommandStep, ReadOther, Send, ReadyToSend, NoToken, Fail, Failed,
                  Answered, SetFront, Succeeded, SetWall, SetCombined, Ack
    <3> QED
      BY <3>1 DEF Busy, TypeOK, CommandRec
  <2>3. poll' = poll
    BY <2>1 DEF CommandStep, ReadOther, Send, NoToken, Fail, SetFront, SetWall,
                SetCombined, SetLight, Ack, Accept, Refuse, Lose, CommandVars
  <2>4. \A p \in Polls : ~poll[p].quiet
    BY <2>2 DEF QuietInv
  <2> QED
    BY <2>3, <2>4 DEF QuietInv
<1> QED
  BY <1>1, <1>2

\* What a poll step leaves alone as far as another poll's quiet is concerned:
\* data points may only become true.
LEMMA StaysSettled ==
  ASSUME cloud' = cloud, NEW x,
         (dp'[x] = dp[x] /\ writer'[x] = writer[x]) \/ True(x)'
  PROVE  (True(x) => True(x)') /\ (Settled(x) => Settled(x)')
BY DEF True, Settled, Shown

\* The steps of a tick after its first, by where they take it.
LEMMA PollMoves ==
  ASSUME TypeOK, NEW o \in Polls, PollStep(o), ~Tick(o)
  PROVE  \/ poll'[o].pc = "idle" /\ poll'[o].quiet = FALSE
         \/ /\ poll'[o].quiet = poll[o].quiet
            /\ \/ /\ CamerasAnswered(o) /\ poll[o].pc = "cameras"
                  /\ poll'[o].pc = "privacy" /\ poll'[o].privacy = cloud.privacy
               \/ /\ ReadPrivacy(o) /\ poll[o].pc = "privacy"
                  /\ poll'[o].pc = "mirrorPrivacy" /\ poll'[o].privacy = poll[o].privacy
                  /\ poll'[o].read = Read({"privacy"})
               \/ /\ MirrorPrivacy(o) /\ poll[o].pc = "mirrorPrivacy"
                  /\ poll'[o].pc = "lighting"
               \/ /\ LightingAnswered(o) /\ poll[o].pc = "lighting"
                  /\ poll'[o].pc = "lights" /\ poll'[o].lights = LightsOf(cloud)
               \/ /\ ReadLights(o) /\ poll[o].pc = "lights"
                  /\ poll'[o].pc = "mirrorLights" /\ poll'[o].lights = poll[o].lights
                  /\ poll'[o].read = Read(DOMAIN Derived(poll[o].lights))
<1>1. PollRec(poll[o]) /\ DOMAIN poll = Polls
  BY DEF TypeOK
<1>2. CASE CamerasAnswered(o)
  BY <1>1, <1>2 DEF CamerasAnswered, PollRec, IdlePoll
<1>3. CASE ReadPrivacy(o)
  BY <1>1, <1>3 DEF ReadPrivacy, PollRec, IdlePoll
<1>4. CASE MirrorPrivacy(o)
  <2>1. poll'[o] = IF cam = 2 THEN [IdlePoll EXCEPT !.pc = "lighting", !.quiet = poll[o].quiet]
                              ELSE IdlePoll
    BY <1>1, <1>4 DEF MirrorPrivacy
  <2> QED
    <3>1. CASE cam = 2
      <4>1. poll'[o].pc = "lighting" /\ poll'[o].quiet = poll[o].quiet
        BY <2>1, <3>1 DEF IdlePoll
      <4> QED
        BY <1>4, <4>1 DEF MirrorPrivacy
    <3>2. CASE cam # 2
      BY <2>1, <3>2 DEF IdlePoll
    <3> QED
      BY <3>1, <3>2
<1>5. CASE LightingAnswered(o)
  BY <1>1, <1>5 DEF LightingAnswered, PollRec, IdlePoll
<1>6. CASE ReadLights(o)
  BY <1>1, <1>6 DEF ReadLights, PollRec, IdlePoll
<1>7. CASE MirrorLights(o) \/ PollFails(o)
  BY <1>1, <1>7 DEF MirrorLights, PollFails, IdlePoll
<1> QED
  BY <1>2, <1>3, <1>4, <1>5, <1>6, <1>7 DEF PollStep

LEMMA PollQuiet ==
  ASSUME TypeOK, CacheInv, QuietInv, NEW o \in Polls, PollStep(o)
  PROVE  QuietInv'
<1>0. cloud' = cloud
  BY DEF PollStep, Tick, CamerasAnswered, ReadPrivacy, MirrorPrivacy, LightingAnswered,
         ReadLights, MirrorLights, PollFails, PollVars
<1>1. \A p \in Polls \ {o} : poll'[p] = poll[p]
  BY DEF PollStep, Tick, CamerasAnswered, ReadPrivacy, MirrorPrivacy, LightingAnswered,
         ReadLights, MirrorLights, PollFails, TypeOK
<1>2. ASSUME NEW p \in Polls, poll[p].quiet
      PROVE  \A x \in Points : (True(x) => True(x)') /\ (Settled(x) => Settled(x)')
  <2>1. Told(o)
    BY <1>2 DEF QuietInv
  <2>2. ASSUME NEW x \in Points
        PROVE  (dp'[x] = dp[x] /\ writer'[x] = writer[x]) \/ True(x)'
    <3>1. CASE MirrorPrivacy(o)
      <4>1. poll[o].privacy = Shown(cloud)["privacy"]
        BY <2>1, <3>1 DEF Told, MirrorPrivacy, Shown
      <4> QED
        BY <1>0, <2>2, <3>1, <4>1, MirrorPrivacyEffect DEF True
    <3>2. CASE MirrorLights(o)
      <4>1. poll[o].lights = LightsOf(cloud)
        BY <2>1, <3>2 DEF Told, MirrorLights
      <4> QED
        BY <1>0, <2>2, <3>2, <4>1, MirrorLightsEffect, DerivedIsShown DEF True
    <3>3. CASE UNCHANGED <<dp, writer>>
      BY <3>3
    <3> QED
      BY <3>1, <3>2, <3>3 DEF PollStep, Tick, CamerasAnswered, ReadPrivacy,
                              LightingAnswered, ReadLights, PollFails
  <2> QED
    BY <1>0, <2>2, StaysSettled
<1>3. ASSUME Told(o) PROVE Told(o)'
  <2>1. CASE Tick(o)
    BY <2>1 DEF Told, Tick, TypeOK, IdlePoll
  <2>2. CASE ~Tick(o)
    BY <1>0, <1>3, <2>2, PollMoves DEF Told, LightsOf
  <2> QED
    BY <2>1, <2>2
<1>4. \A q \in Polls \ {o} : Told(q) => Told(q)'
  BY <1>0, <1>1 DEF Told
<1>5. \A c \in Commands : ~Busy(c) => ~Busy(c)'
  <2>1. \/ command' = command \/ command' = Disturbed
    BY DEF PollStep, Tick, CamerasAnswered, ReadPrivacy, MirrorPrivacy, LightingAnswered,
           ReadLights, MirrorLights, PollFails, PollVars
  <2>2. \A c \in Commands : Disturbed[c].pc = command[c].pc
    BY DEF Disturbed, TypeOK, CommandRec, Idle
  <2> QED
    BY <2>1, <2>2 DEF Busy
<1>6. ASSUME NEW p \in Polls \ {o}, poll'[p].quiet
      PROVE  /\ poll'[p].pc # "idle"
             /\ \A c \in Commands : ~Busy(c)'
             /\ \A q \in Polls : Told(q)'
             /\ poll'[p].pc = "mirrorPrivacy" => Compared(p, {"privacy"})'
             /\ poll'[p].pc \in {"lighting", "lights", "mirrorLights"} => Settled("privacy")'
             /\ poll'[p].pc = "mirrorLights" => Compared(p, LightPoints)'
  <2>1. poll[p].quiet /\ poll'[p] = poll[p]
    BY <1>1, <1>6
  <2>2. \A x \in Points : (True(x) => True(x)') /\ (Settled(x) => Settled(x)')
    BY <1>2, <2>1
  <2>3. LightPoints \subseteq Points /\ "privacy" \in Points
    BY DEF LightPoints, Points, Lights, Wallwash
  <2>4. \A xs \in SUBSET Points : Compared(p, xs) => Compared(p, xs)'
    BY <1>0, <2>1, <2>2 DEF Compared, Shown
  <2> QED
    BY <1>3, <1>4, <1>5, <2>1, <2>2, <2>3, <2>4 DEF QuietInv
<1>7. ASSUME poll'[o].quiet
      PROVE  /\ poll'[o].pc # "idle"
             /\ \A c \in Commands : ~Busy(c)'
             /\ \A q \in Polls : Told(q)'
             /\ poll'[o].pc = "mirrorPrivacy" => Compared(o, {"privacy"})'
             /\ poll'[o].pc \in {"lighting", "lights", "mirrorLights"} => Settled("privacy")'
             /\ poll'[o].pc = "mirrorLights" => Compared(o, LightPoints)'
  <2>1. CASE Tick(o)
    <3>1. /\ \A c \in Commands : ~Busy(c)
          /\ \A q \in Polls : poll[q].pc = "idle"
          /\ poll'[o].pc = "cameras"
      BY <1>7, <2>1 DEF Tick, TypeOK, IdlePoll
    <3>2. \A q \in Polls : Told(q)
      BY <3>1 DEF Told
    <3> QED
      BY <1>3, <1>4, <1>5, <3>1, <3>2
  <2>2. CASE ~Tick(o)
    <3>1. poll[o].quiet /\ poll'[o].pc # "idle"
      BY <1>7, <2>2, PollMoves
    <3>2. /\ \A q \in Polls : Told(q)'
          /\ \A c \in Commands : ~Busy(c)'
      BY <1>3, <1>4, <1>5, <3>1 DEF QuietInv
    <3>3. ASSUME poll'[o].pc = "mirrorPrivacy" PROVE Compared(o, {"privacy"})'
      <4>1. ReadPrivacy(o)
        BY <2>2, <3>1, <3>3, PollMoves
      <4>2. poll'[o].read["privacy"] = dp["privacy"].val /\ dp' = dp
        BY <4>1 DEF ReadPrivacy, Read, TypeOK, PollRec, IdlePoll
      <4> QED
        BY <1>0, <4>2 DEF Compared, True, Shown
    <3>4. ASSUME poll'[o].pc \in {"lighting", "lights", "mirrorLights"}
          PROVE  Settled("privacy")'
      <4>1. "privacy" \in Points
        BY DEF Points
      <4>2. CASE poll[o].pc \in {"lighting", "lights", "mirrorLights"}
        BY <1>2, <3>1, <4>1, <4>2 DEF QuietInv
      <4>3. CASE poll[o].pc \notin {"lighting", "lights", "mirrorLights"}
        <5>1. MirrorPrivacy(o)
          BY <2>2, <3>1, <3>4, <4>3, PollMoves
        <5>2. poll[o].privacy = Shown(cloud)["privacy"] /\ Compared(o, {"privacy"})
          BY <3>1, <5>1 DEF QuietInv, Told, MirrorPrivacy, Shown
        <5>3. CASE poll[o].read["privacy"] = poll[o].privacy
          <6>1. True("privacy")
            BY <5>2, <5>3 DEF Compared
          <6> QED
            BY <1>2, <3>1, <4>1, <6>1 DEF Settled
        <5>4. CASE poll[o].read["privacy"] # poll[o].privacy
          BY <1>0, <5>1, <5>2, <5>4, MirrorPrivacyEffect DEF Settled, True
        <5> QED
          BY <5>3, <5>4
      <4> QED
        BY <4>2, <4>3
    <3>5. ASSUME poll'[o].pc = "mirrorLights" PROVE Compared(o, LightPoints)'
      <4>1. ReadLights(o)
        BY <2>2, <3>1, <3>5, PollMoves
      <4>2. poll[o].lights = LightsOf(cloud)
        BY <3>1, <4>1 DEF QuietInv, Told, ReadLights
      <4>3. poll'[o].read = Read(LightPoints) /\ dp' = dp
        BY <4>1, <4>2, DerivedIsShown DEF ReadLights, TypeOK, PollRec, IdlePoll
      <4> QED
        BY <1>0, <4>3 DEF Compared, True, Shown, Read
    <3> QED
      BY <3>1, <3>2, <3>3, <3>4, <3>5
  <2> QED
    BY <2>1, <2>2
<1> QED
  BY <1>6, <1>7 DEF QuietInv

\* Types, cache and quiet together are inductive.
THEOREM SyncInvariant == Spec => []SyncInv
<1>1. Init => SyncInv
  <2> SUFFICES ASSUME Init PROVE SyncInv
    OBVIOUS
  <2>1. CacheInv
    BY DEF Init, CacheInv
  <2>2. QuietInv
    BY DEF Init, QuietInv, IdlePoll
  <2> QED
    BY <2>1, <2>2, InitTypes DEF SyncInv
<1>2. SyncInv /\ [Next]_vars => SyncInv'
  <2> SUFFICES ASSUME SyncInv, [Next]_vars PROVE SyncInv'
    OBVIOUS
  <2>1. TypeOK /\ CacheInv /\ QuietInv
    BY DEF SyncInv
  <2>2. TypeOK' /\ CacheInv'
    BY <2>1, TypeStep, CacheStep
  <2>3. QuietInv'
    <3>1. CASE UNCHANGED vars
      BY <2>1, <3>1 DEF vars, QuietInv, Busy, Told, Compared, Settled, True, Shown, LightsOf
    <3>2. CASE Next
      BY <2>1, <3>2, OutsideQuiet, PollQuiet DEF Next
    <3> QED
      BY <3>1, <3>2
  <2> QED
    BY <2>2, <2>3 DEF SyncInv
<1> QED
  BY <1>1, <1>2, PTL DEF Spec

\* An undisturbed poll leaves every mirrored data point showing what Bosch
\* holds, unless a user or a command wrote it last (_pollSingleCameraState with
\* upsertState): what the app changed comes through, however polls overlap.
THEOREM PollMirrorsTheApp == Spec => PollMirrorsItsOwn
<1> DEFINE Mirrors ==
      \A p \in Polls : Completes(p) /\ poll[p].quiet =>
        \A x \in Mirrored : \/ dp'[x].val = Shown(cloud)[x]
                             \/ writer[x] \in {"user", "command"}
<1>1. SyncInv /\ [Next]_vars => [Mirrors]_vars
  <2> SUFFICES ASSUME SyncInv, Next, NEW p \in Polls, Completes(p), poll[p].quiet,
                      NEW x \in Mirrored
               PROVE  \/ dp'[x].val = Shown(cloud)[x]
                      \/ writer[x] \in {"user", "command"}
    OBVIOUS
  <2>1. /\ TypeOK /\ CacheInv /\ Told(p) /\ cam \in {1, 2}
        /\ poll[p].pc = "mirrorPrivacy" => Compared(p, {"privacy"})
        /\ poll[p].pc = "mirrorLights" => Settled("privacy") /\ Compared(p, LightPoints)
    BY DEF SyncInv, TypeOK, QuietInv
  <2>2. PollStep(p)
    <3>1. poll'[p].pc # poll[p].pc
      BY <2>1 DEF Completes
    <3>2. CASE \E o \in Polls : PollStep(o)
      <4>1. PICK o \in Polls : PollStep(o)
        BY <3>2
      <4>2. \A q \in Polls \ {o} : poll'[q] = poll[q]
        BY <2>1, <4>1 DEF PollStep, Tick, CamerasAnswered, ReadPrivacy, MirrorPrivacy,
           LightingAnswered, ReadLights, MirrorLights, PollFails, TypeOK
      <4> QED
        BY <3>1, <4>1, <4>2
    <3>3. CASE \E c \in Commands : CommandStep(c)
      BY <3>1, <3>3 DEF CommandStep, ReadOther, Send, NoToken, Fail, SetFront, SetWall,
         SetCombined, SetLight, Ack, Accept, Refuse, Lose
    <3>4. CASE \/ \E c \in Commands, y \in Points : \E v \in UserValues(y) : UserWrites(c, y, v)
               \/ AppChanges
      <4>1. poll' = DisturbedPoll
        BY <3>4 DEF UserWrites, AppChanges
      <4>2. poll'[p].pc = poll[p].pc
        BY <2>1, <4>1 DEF DisturbedPoll, TypeOK, PollRec, IdlePoll
      <4> QED
        BY <3>1, <4>2
    <3> QED
      BY <3>2, <3>3, <3>4 DEF Next
  <2>3. "privacy" \in Points /\ LightPoints \subseteq Points
    BY DEF Points, LightPoints, Lights, Wallwash
  <2>4. CASE cam = 1
    <3>1. x = "privacy" /\ poll[p].pc = "mirrorPrivacy"
      BY <2>4 DEF Mirrored, Completes
    <3>2. MirrorPrivacy(p)
      BY <2>2, <3>1 DEF PollStep, Tick, CamerasAnswered, ReadPrivacy, LightingAnswered,
         ReadLights, MirrorLights, PollFails
    <3>3. poll[p].privacy = Shown(cloud)[x]
      BY <2>1, <3>1 DEF Told, Shown
    <3>4. \/ dp'[x].val = poll[p].privacy
          \/ writer'[x] \in {"user", "command"}
          \/ poll[p].read["privacy"] = poll[p].privacy
      BY <2>1, <3>1, <3>2, MirrorPrivacyEffect
    <3>5. (dp'[x] = dp[x] /\ writer'[x] = writer[x]) \/ dp'[x].val = poll[p].privacy
      BY <2>1, <2>3, <3>1, <3>2, MirrorPrivacyEffect
    <3>6. poll[p].read["privacy"] = poll[p].privacy => dp[x].val = Shown(cloud)[x]
      BY <2>1, <3>1, <3>3 DEF Compared, True
    <3> QED
      BY <3>3, <3>4, <3>5, <3>6
  <2>5. CASE cam = 2
    <3>1. poll[p].pc = "mirrorLights"
      BY <2>5 DEF Completes
    <3>2. MirrorLights(p)
      BY <2>2, <3>1 DEF PollStep, Tick, CamerasAnswered, ReadPrivacy, LightingAnswered,
         ReadLights, MirrorPrivacy, PollFails
    <3>3. poll[p].lights = LightsOf(cloud)
      BY <2>1, <3>1 DEF Told
    <3>4. CASE x = "privacy"
      <4>1. dp'[x] = dp[x]
        BY <2>1, <2>3, <3>2, <3>3, <3>4, MirrorLightsEffect, DerivedIsShown DEF LightPoints
      <4> QED
        BY <2>1, <3>1, <3>4, <4>1 DEF Settled, True
    <3>5. CASE x \in LightPoints
      <4>1. \/ dp'[x].val = Shown(cloud)[x]
            \/ writer'[x] \in {"user", "command"}
            \/ poll[p].read[x] = Shown(cloud)[x]
        BY <2>1, <3>2, <3>3, <3>5, MirrorLightsEffect, DerivedIsShown
      <4>2. (dp'[x] = dp[x] /\ writer'[x] = writer[x]) \/ dp'[x].val = Shown(cloud)[x]
        BY <2>1, <2>3, <3>2, <3>3, <3>5, MirrorLightsEffect, DerivedIsShown
      <4>3. poll[p].read[x] = Shown(cloud)[x] => dp[x].val = Shown(cloud)[x]
        BY <2>1, <3>1, <3>5 DEF Compared, True
      <4> QED
        BY <4>1, <4>2, <4>3
    <3> QED
      BY <2>5, <3>4, <3>5 DEF Mirrored, LightPoints, Wallwash
  <2> QED
    BY <2>1, <2>4, <2>5
<1> QED
  BY <1>1, SyncInvariant, PTL DEF Spec, PollMirrorsItsOwn

--------------------------------------------------------------------------------
(***************************************************************************)
(* What a step of a command does to its record and to the world.           *)
(***************************************************************************)
SameCommand(c) ==
  /\ command'[c].what = command[c].what /\ command'[c].val = command[c].val
  /\ command'[c].alone = command[c].alone /\ command'[c].synced = command[c].synced

SameRequests(c) ==
  /\ command'[c].waiting = command[c].waiting /\ command'[c].lost = command[c].lost
  /\ command'[c].accepted = command[c].accepted

Reads(c) ==
  /\ command[c].pc = "start" /\ command[c].what \in {"front", "wall"}
  /\ command'[c].pc = "send" /\ SameCommand(c) /\ SameRequests(c)
  /\ command'[c].other = OtherIsOn(command[c].what)
  /\ UNCHANGED <<cloud, dp, lighting>>

Sends(c) ==
  /\ \/ command[c].pc = "start" /\ command[c].what \notin {"front", "wall"}
     \/ command[c].pc = "send"
  /\ command'[c].pc = "put" /\ SameCommand(c)
  /\ command'[c].other = command[c].other /\ command'[c].lost = command[c].lost
  /\ command'[c].accepted = command[c].accepted
  /\ command'[c].waiting = Requests(command[c])
  /\ command[c].what \in Wallwash => command'[c].body = Body(command[c])
  /\ UNCHANGED <<cloud, dp, lighting>>

Ends(c) == command'[c].pc = "idle" /\ command'[c].accepted = 0

GivesUp(c) ==
  /\ \/ command[c].pc \in {"start", "send"}
     \/ command[c].lost \/ command[c].accepted = 0
  /\ Ends(c) /\ UNCHANGED <<cloud, dp, lighting>>

Answers(c, q) ==
  /\ command[c].pc = "put" /\ command'[c].pc = "put" /\ SameCommand(c)
  /\ q \in command[c].waiting /\ command'[c].waiting = command[c].waiting \ {q}
  /\ command'[c].other = command[c].other /\ command'[c].body = command[c].body
  /\ UNCHANGED <<dp, lighting>>

Accepts(c, q) ==
  /\ Answers(c, q) /\ cloud' = Over(q, cloud)
  /\ command'[c].accepted = command[c].accepted + 1
  /\ command'[c].lost = command[c].lost

Refuses(c, q) ==
  /\ Answers(c, q) /\ cloud' \in {cloud, Over(q, cloud)}
  /\ command'[c].accepted = command[c].accepted

Sets(c, x, v) ==
  /\ command'[c].pc = x /\ SameCommand(c) /\ SameRequests(c)
  /\ command'[c].other = command[c].other
  /\ dp' = [dp EXCEPT ![x] = [val |-> v, ack |-> TRUE]]
  /\ UNCHANGED <<cloud, lighting>>

Done(c) == /\ command[c].pc = "put" /\ command[c].waiting = {}
           /\ command[c].accepted > 0

SetsLights(c) ==
  \/ /\ Done(c) /\ command[c].what \in Lights
     /\ Sets(c, "front", FrontOn(command[c]))
  \/ command[c].pc = "front" /\ Sets(c, "wall", WallOn(command[c]))
  \/ /\ command[c].pc = "wall"
     /\ Sets(c, "light", FrontOn(command[c]) /\ WallOn(command[c]))

Acknowledges(c) ==
  /\ \/ command[c].pc = "light"
     \/ Done(c) /\ command[c].what \notin Lights
  /\ Ends(c) /\ UNCHANGED cloud
  /\ dp' = [dp EXCEPT ![command[c].what] = [val |-> command[c].val, ack |-> TRUE]]
  /\ lighting' = IF command[c].what \in Wallwash THEN command[c].body ELSE lighting

Moves(c) ==
  \/ Reads(c) \/ Sends(c) \/ GivesUp(c) \/ SetsLights(c) \/ Acknowledges(c)
  \/ \E q \in command[c].waiting : Accepts(c, q) \/ Refuses(c, q)

LEMMA CommandMoves ==
  ASSUME TypeOK, NEW c \in Commands, CommandStep(c)
  PROVE  /\ Moves(c) /\ Busy(c)
         /\ \A d \in Commands : d # c => command'[d] = command[d]
         /\ UNCHANGED <<cam, cache, poll, frontSeen>>
<1> DEFINE s == command[c]
<1>0. CommandRec(s) /\ DOMAIN command = Commands
  BY DEF TypeOK
<1>1. Busy(c)
  <2>1. s.pc # "idle" \/ s.waiting # {}
    BY DEF CommandStep, ReadOther, Send, ReadyToSend, NoToken, Fail, Failed,
           Answered, SetFront, Succeeded, SetWall, SetCombined, Ack
  <2> QED
    BY <1>0, <2>1 DEF Busy, CommandRec
<1>2. \A d \in Commands : d # c => command'[d] = command[d]
  BY <1>0 DEF CommandStep, ReadOther, Send, NoToken, Fail, SetFront, SetWall,
              SetCombined, SetLight, Ack, Accept, Refuse, Lose
<1>3. UNCHANGED <<cam, cache, poll, frontSeen>>
  BY DEF CommandStep, ReadOther, Send, NoToken, Fail, SetFront, SetWall,
         SetCombined, SetLight, Ack, Accept, Refuse, Lose, CommandVars
<1>4. Moves(c)
  <2> USE DEF SameCommand, SameRequests, Moves
  <2>1. CASE ReadOther(c)
    BY <1>0, <2>1 DEF ReadOther, Reads, CommandRec, Idle, CommandVars
  <2>2. CASE Send(c)
    BY <1>0, <2>2 DEF Send, Sends, ReadyToSend, CommandRec, Idle, CommandVars
  <2>3. CASE NoToken(c) \/ Fail(c)
    BY <1>0, <2>3 DEF NoToken, Fail, ReadyToSend, Failed, GivesUp, Ends, Idle, CommandVars
  <2>4. CASE SetFront(c) \/ SetWall(c) \/ SetCombined(c)
    <3>1. \A x, v : SetLight(c, x, v) => Sets(c, x, v)
      BY <1>0 DEF SetLight, SetState, Sets, CommandRec, Idle, CommandVars
    <3>2. s.accepted \in Nat
      BY <1>0 DEF CommandRec
    <3> QED
      BY <2>4, <3>1, <3>2 DEF SetFront, SetWall, SetCombined, SetsLights, Succeeded, Answered,
                        Done
  <2>5. CASE Ack(c)
    <3>1. Ends(c)
      BY <1>0, <2>5 DEF Ack, Ends, Idle
    <3>2. Acknowledges(c)
      BY <2>5, <3>1 DEF Ack, Acknowledges, SetState, CommandVars, Succeeded, Answered, Done
    <3> QED
      BY <3>2
  <2>6. ASSUME NEW q \in s.waiting, Accept(c, q) \/ Refuse(c, q) \/ Lose(c, q)
        PROVE  Accepts(c, q) \/ Refuses(c, q)
    <3>1. s.pc = "put"
      BY <1>0 DEF CommandRec
    <3>2. CASE Accept(c, q)
      BY <1>0, <3>1, <3>2 DEF Accept, Accepts, Answers, CommandRec, Idle, CommandVars
    <3>3. CASE Refuse(c, q)
      BY <1>0, <3>1, <3>3 DEF Refuse, Refuses, Answers, CommandRec, Idle, CommandVars
    <3>4. CASE Lose(c, q)
      BY <1>0, <3>1, <3>4 DEF Lose, Refuses, Answers, CommandRec, Idle, CommandVars
    <3> QED
      BY <2>6, <3>2, <3>3, <3>4
  <2> QED
    BY <2>1, <2>2, <2>3, <2>4, <2>5, <2>6 DEF CommandStep
<1> QED
  BY <1>1, <1>2, <1>3, <1>4

\* What it keeps when it is not its own step; it may no longer be alone.
Kept(c) ==
  /\ command'[c].pc = command[c].pc /\ command'[c].what = command[c].what
  /\ command'[c].val = command[c].val /\ command'[c].other = command[c].other
  /\ command'[c].body = command[c].body /\ SameRequests(c)

\* A user's write starts it.
Begins(c) ==
  /\ ~Busy(c) /\ command'[c].pc = "start"
  /\ command'[c].waiting = {} /\ command'[c].accepted = 0 /\ ~command'[c].lost

LEMMA DisturbedKeeps ==
  ASSUME TypeOK, NEW c \in Commands
  PROVE  /\ command'[c] = Disturbed[c] => Kept(c) /\ ~command'[c].alone
         /\ command'[c] = command[c] => Kept(c)
<1>1. DOMAIN command[c] = DOMAIN Idle
  BY DEF TypeOK, CommandRec
<1>2. Disturbed[c] = [command[c] EXCEPT !.alone = FALSE, !.synced = FALSE]
  BY DEF Disturbed
<1>3. ~Disturbed[c].alone
  BY <1>1, <1>2 DEF Idle
<1>4. \A f \in DOMAIN Idle : f # "alone" /\ f # "synced" => Disturbed[c][f] = command[c][f]
  BY <1>1, <1>2
<1>5. {"pc", "what", "val", "other", "waiting", "body", "accepted", "lost"}
        \subseteq DOMAIN Idle
  BY DEF Idle
<1> QED
  BY <1>3, <1>4, <1>5 DEF Kept, SameRequests

LEMMA Fate ==
  ASSUME TypeOK, [Next]_vars, NEW c \in Commands
  PROVE  \/ CommandStep(c) /\ Moves(c) /\ Busy(c)
         \/ Kept(c)
         \/ /\ Begins(c)
            /\ \E x \in Points : \E v \in UserValues(x) : UserWrites(c, x, v)
<1>0. CommandRec(command[c]) /\ DOMAIN command = Commands
  BY DEF TypeOK
<1>1. ASSUME NEW d \in Commands, CommandStep(d)
      PROVE  \/ CommandStep(c) /\ Moves(c) /\ Busy(c)
             \/ Kept(c)
  BY <1>1, CommandMoves DEF Kept, SameRequests
<1>2. ASSUME NEW d \in Commands, NEW x \in Points, NEW v \in UserValues(x),
             UserWrites(d, x, v)
      PROVE  \/ Kept(c)
             \/ Begins(c) /\ UserWrites(c, x, v)
  <2>1. CASE d = c
    <3>1. command'[c].pc = "start" /\ command'[c].waiting = {} /\ command'[c].accepted = 0
          /\ ~command'[c].lost
      BY <1>2, <2>1, DisturbedTypes DEF UserWrites, Idle
    <3> QED
      BY <1>2, <2>1, <3>1 DEF UserWrites, Begins
  <2>2. CASE d # c
    <3>1. command'[c] = Disturbed[c]
      BY <1>2, <2>2, DisturbedTypes DEF UserWrites
    <3> QED
      BY <3>1, DisturbedKeeps
  <2> QED
    BY <2>1, <2>2
<1>3. CASE AppChanges
  BY <1>3, DisturbedKeeps DEF AppChanges
<1>4. ASSUME NEW p \in Polls, PollStep(p) PROVE Kept(c)
  BY <1>4, DisturbedKeeps
     DEF PollStep, Tick, CamerasAnswered, ReadPrivacy, MirrorPrivacy, LightingAnswered,
         ReadLights, MirrorLights, PollFails, PollVars
<1>5. CASE UNCHANGED vars
  BY <1>5, DisturbedKeeps DEF vars
<1> QED
  BY <1>1, <1>2, <1>3, <1>4, <1>5 DEF Next

--------------------------------------------------------------------------------
(***************************************************************************)
(* A command that failed                                                   *)
(***************************************************************************)

\* What is acknowledged, Bosch has accepted at least in part.
AcceptedInv == \A c \in Commands : command[c].pc \in Lights => command[c].accepted > 0

LEMMA AcceptedInvariant == Spec => [](TypeOK /\ AcceptedInv)
<1>1. Init => AcceptedInv
  <2>1. Idle.pc = "idle" /\ "idle" \notin Lights
    BY DEF Idle, Lights
  <2>2. Init => \A c \in Commands : command[c] = Idle
    BY DEF Init
  <2> QED
    BY <2>1, <2>2 DEF AcceptedInv
<1>2. TypeOK /\ AcceptedInv /\ [Next]_vars => AcceptedInv'
  <2> SUFFICES ASSUME TypeOK, AcceptedInv, [Next]_vars, NEW c \in Commands,
                      command'[c].pc \in Lights
               PROVE  command'[c].accepted > 0
    BY DEF AcceptedInv
  <2>1. CASE Kept(c)
    BY <2>1 DEF Kept, SameRequests, AcceptedInv
  <2>2. CASE Begins(c)
    BY <2>2 DEF Begins, Lights
  <2>3. CASE Moves(c)
    <3>1. SetsLights(c)
      BY <2>3 DEF Moves, Reads, Sends, GivesUp, Ends, Acknowledges, Accepts, Refuses,
                  Answers, Lights
    <3> QED
      BY <3>1 DEF SetsLights, Sets, SameRequests, Done, AcceptedInv, Lights
  <2> QED
    BY <2>1, <2>2, <2>3, Fate
<1> QED
  BY <1>1, <1>2, TypeCorrect, PTL DEF Spec

\* A command none of whose requests Bosch accepted leaves every data point as it
\* is: what the user wrote stays unacknowledged (onStateChange, _applyLightingState).
THEOREM FailuresShow == Spec => FailureIsVisible
<1> DEFINE Shows ==
      \A c \in Commands :
        Busy(c) /\ command'[c].pc = "idle" /\ command[c].accepted = 0 => dp' = dp
<1>1. TypeOK /\ AcceptedInv /\ [Next]_vars => [Shows]_vars
  <2> SUFFICES ASSUME TypeOK, AcceptedInv, Next, NEW c \in Commands, Busy(c),
                      command'[c].pc = "idle", command[c].accepted = 0
               PROVE  dp' = dp
    OBVIOUS
  <2>1. Moves(c)
    BY Fate DEF Kept, Begins, Busy
  <2>2. GivesUp(c)
    <3>1. command[c].pc # "light" /\ ~Done(c)
      BY DEF AcceptedInv, Lights, Done
    <3> QED
      BY <2>1, <3>1 DEF Moves, Reads, Sends, SetsLights, Sets, Acknowledges, Accepts,
                        Refuses, Answers
  <2> QED
    BY <2>2 DEF GivesUp
<1> QED
  BY <1>1, AcceptedInvariant, PTL DEF Spec, FailureIsVisible

--------------------------------------------------------------------------------
(***************************************************************************)
(* The spotlight and the wallwasher's full body                            *)
(***************************************************************************)

\* Wherever the lights' full state is kept, its spotlight is lit only if a poll
\* has seen it lit: in the cache, in an answer on its way there, in a body.
Seen(l) == l.front > 0 => frontSeen

SeenPoll(p) == poll[p].pc \in {"lights", "mirrorLights"} => Seen(poll[p].lights)

SeenBody(c) ==
  command[c].pc = "put" /\ command[c].what \in Wallwash =>
    Seen(command[c].body) /\ command[c].waiting \subseteq {command[c].body}

SeenInv == /\ lighting # None => Seen(lighting)
           /\ \A p \in Polls : SeenPoll(p)
           /\ \A c \in Commands : SeenBody(c)

LEMMA WallwashRequests ==
  ASSUME TypeOK, NEW c \in Commands, command[c].what \in Wallwash
  PROVE  Requests(command[c]) = {Body(command[c])}
BY DEF Requests, Wallwash, Lights

\* A body changes the wallwasher only.
LEMMA BodyFront ==
  ASSUME TypeOK, NEW c \in Commands, command[c].what \in Wallwash
  PROVE  Body(command[c]).front = IF lighting = None THEN 0 ELSE lighting.front
<1> DEFINE current == IF lighting = None THEN DefaultLighting ELSE lighting
<1>1. DOMAIN current = {"front", "wall", "color"}
  BY DEF DefaultLighting, TypeOK, LightingRec
<1>2. current.front = IF lighting = None THEN 0 ELSE lighting.front
  BY DEF DefaultLighting
<1>3. Body(command[c]).front = current.front
  BY <1>1 DEF Body
<1> QED
  BY <1>2, <1>3

LEMMA SeenStep == TypeOK /\ SeenInv /\ [Next]_vars => SeenInv'
<1> SUFFICES ASSUME TypeOK, SeenInv, [Next]_vars PROVE SeenInv'
  OBVIOUS
<1> USE DEF Seen, SeenPoll, SeenBody
<1>1. CASE \E p \in Polls : PollStep(p)
  <2>1. PICK p \in Polls : PollStep(p)
    BY <1>1
  <2>2. frontSeen => frontSeen'
    BY <2>1 DEF PollStep, Tick, CamerasAnswered, ReadPrivacy, MirrorPrivacy,
       LightingAnswered, ReadLights, MirrorLights, PollFails
  <2>3. /\ \A o \in Polls \ {p} : poll'[o] = poll[o]
        /\ \A c \in Commands : Kept(c)
    BY <2>1, DisturbedKeeps DEF PollStep, Tick, CamerasAnswered, ReadPrivacy, MirrorPrivacy,
       LightingAnswered, ReadLights, MirrorLights, PollFails, PollVars, TypeOK
  <2>4. ASSUME NEW c \in Commands PROVE SeenBody(c)'
    BY <2>2, <2>3 DEF SeenInv, Kept, SameRequests
  <2>5. SeenPoll(p)' /\ (lighting' # None => Seen(lighting)')
    <3>1. CASE Tick(p)
      BY <2>2, <3>1 DEF Tick, IdlePoll, SeenInv, TypeOK
    <3>2. CASE ~Tick(p)
      <4>1. CASE LightingAnswered(p)
        <5>1. poll'[p].lights = LightsOf(cloud)
          BY <4>1 DEF LightingAnswered, TypeOK, PollRec, IdlePoll
        <5>2. (cloud.front > 0) => frontSeen'
          BY <4>1 DEF LightingAnswered
        <5> QED
          BY <2>2, <4>1, <5>1, <5>2 DEF LightingAnswered, LightsOf, SeenInv
      <4>2. CASE ReadLights(p)
        BY <2>1, <2>2, <3>2, <4>2, PollMoves DEF ReadLights, SeenInv
      <4>3. CASE ~LightingAnswered(p) /\ ~ReadLights(p)
        <5>1. poll'[p].pc \notin {"lights", "mirrorLights"}
          BY <2>1, <3>2, <4>3, PollMoves
        <5>2. lighting' = lighting
          BY <2>1, <4>3 DEF PollStep, Tick, CamerasAnswered, ReadPrivacy, MirrorPrivacy,
             MirrorLights, PollFails
        <5> QED
          BY <2>2, <5>1, <5>2 DEF SeenInv
      <4> QED
        BY <4>1, <4>2, <4>3
    <3> QED
      BY <3>1, <3>2
  <2>6. ASSUME NEW o \in Polls \ {p} PROVE SeenPoll(o)'
    BY <2>2, <2>3 DEF SeenInv
  <2> QED
    BY <2>4, <2>5, <2>6 DEF SeenInv
<1>2. CASE \E c \in Commands : CommandStep(c)
  <2>1. PICK c \in Commands : CommandStep(c)
    BY <1>2
  <2>2. /\ Moves(c) /\ UNCHANGED <<poll, frontSeen>>
        /\ \A d \in Commands : d # c => command'[d] = command[d]
    BY <2>1, CommandMoves
  <2>3. SeenBody(c)'
    <3>1. CASE Sends(c)
      <4>1. ASSUME command[c].what \in Wallwash
            PROVE  /\ command'[c].body = Body(command[c]) /\ Seen(Body(command[c]))
                   /\ command'[c].waiting = {Body(command[c])}
        BY <3>1, <4>1, BodyFront, WallwashRequests DEF Sends, SeenInv
      <4> QED
        BY <2>2, <3>1, <4>1 DEF Sends, SameCommand
    <3>2. CASE \E q \in command[c].waiting : Answers(c, q)
      BY <2>2, <3>2 DEF Answers, SameCommand, SeenInv
    <3>3. CASE command'[c].pc # "put"
      BY <3>3
    <3> QED
      BY <2>2, <3>1, <3>2, <3>3 DEF Moves, Reads, GivesUp, Ends, SetsLights, Sets,
         Acknowledges, Accepts, Refuses
  <2>4. lighting' # None => Seen(lighting)'
    <3>1. CASE lighting' = lighting
      BY <2>2, <3>1 DEF SeenInv
    <3>2. CASE Acknowledges(c) /\ command[c].what \in Wallwash
      <4>1. command[c].pc = "put"
        BY <3>2 DEF Acknowledges, Done, TypeOK, CommandRec, Lights, Wallwash
      <4> QED
        BY <2>2, <3>2, <4>1 DEF Acknowledges, SeenInv
    <3> QED
      BY <2>2, <3>1, <3>2 DEF Moves, Reads, Sends, GivesUp, SetsLights, Sets,
         Acknowledges, Accepts, Refuses, Answers
  <2> QED
    BY <2>2, <2>3, <2>4 DEF SeenInv
<1>3. CASE \/ \E c \in Commands, x \in Points : \E v \in UserValues(x) : UserWrites(c, x, v)
           \/ AppChanges
  <2>1. UNCHANGED <<lighting, frontSeen>> /\ poll' = DisturbedPoll
    BY <1>3 DEF UserWrites, AppChanges
  <2>2. \A p \in Polls : poll'[p].pc = poll[p].pc /\ poll'[p].lights = poll[p].lights
    BY <2>1 DEF DisturbedPoll, TypeOK, PollRec, IdlePoll
  <2>3. ASSUME NEW c \in Commands PROVE SeenBody(c)'
    <3>1. Kept(c) \/ Begins(c) \/ Moves(c)
      BY Fate
    <3>2. CASE Kept(c)
      BY <2>1, <3>2 DEF Kept, SameRequests, SeenInv
    <3>3. CASE Begins(c)
      BY <3>3 DEF Begins
    <3>4. CASE CommandStep(c)
      BY <1>2, <3>4 DEF SeenInv
    <3> QED
      BY <3>2, <3>3, <3>4, Fate
  <2> QED
    BY <2>1, <2>2, <2>3 DEF SeenInv
<1>4. CASE UNCHANGED vars
  BY <1>4 DEF vars, SeenInv
<1> QED
  BY <1>1, <1>2, <1>3, <1>4 DEF Next

LEMMA SeenInvariant == Spec => [](TypeOK /\ SeenInv)
<1>1. Init => SeenInv
  <2>1. Idle.pc = "idle" /\ IdlePoll.pc = "idle"
    BY DEF Idle, IdlePoll
  <2> QED
    BY <2>1 DEF Init, SeenInv, SeenPoll, SeenBody
<1> QED
  BY <1>1, SeenStep, TypeCorrect, PTL DEF Spec

\* A wallwasher update turns the spotlight on only if a poll has seen it on
\* (buildWallwasherUpdate with _lightingCache): no order of updates, switches,
\* polls and failures makes one re-enable a spotlight that was off.
THEOREM SpotlightStaysOff == Spec => OnlySeenFrontReturns
<1> DEFINE Returns ==
      \A c \in Commands :
        /\ command[c].what \in Wallwash /\ command'[c].accepted > command[c].accepted
        /\ cloud'.front > cloud.front
        => frontSeen
<1>1. TypeOK /\ SeenInv /\ [Next]_vars => [Returns]_vars
  <2> SUFFICES ASSUME TypeOK, SeenInv, Next, NEW c \in Commands,
                      command[c].what \in Wallwash,
                      command'[c].accepted > command[c].accepted,
                      cloud'.front > cloud.front
               PROVE  frontSeen
    OBVIOUS
  <2>0. command[c].accepted \in Nat /\ cloud.front \in Nat /\ cloud'.front \in Nat
    BY TypeStep DEF TypeOK, CommandRec, Fields, FieldValues, Levels
  <2>1. PICK q \in command[c].waiting : Accepts(c, q)
    <3>1. Moves(c)
      BY <2>0, Fate DEF Kept, SameRequests, Begins
    <3> QED
      BY <2>0, <3>1 DEF Moves, Reads, Sends, GivesUp, Ends, SetsLights, Sets,
         SameRequests, Acknowledges, Refuses
  <2>2. q = command[c].body /\ Seen(q)
    BY <2>1 DEF Accepts, Answers, SeenInv, SeenBody
  <2>3. cloud'.front = q.front \/ cloud'.front = cloud.front
    BY <2>1 DEF Accepts, Over, TypeOK, Fields
  <2> QED
    BY <2>0, <2>2, <2>3 DEF Seen
<1> QED
  BY <1>1, SeenInvariant, PTL DEF Spec, OnlySeenFrontReturns

--------------------------------------------------------------------------------
(***************************************************************************)
(* The requests of one command                                             *)
(***************************************************************************)

\* They set different fields, so what one set the next leaves alone.
LEMMA RequestShapes ==
  ASSUME TypeOK, NEW c \in Commands
  PROVE  /\ command[c].what \in {"privacy", "siren"} =>
              Requests(command[c]) = {[f \in {command[c].what} |-> command[c].val]}
         /\ command[c].what \in Lights /\ cam = 2 => Requests(command[c]) =
              {[f \in {"front"} |-> LevelOf(FrontOn(command[c]))],
               [f \in {"wall"}  |-> LevelOf(WallOn(command[c]))]}
         /\ command[c].what \in Lights /\ cam # 2 => Requests(command[c]) =
              {[f \in {"front", "wall"} |->
                  LevelOf(IF f = "front" THEN FrontOn(command[c])
                                         ELSE WallOn(command[c]))]}
<1> DEFINE s == command[c]
<1>1. Lights \cap ({"privacy", "siren"} \cup Wallwash) = {}
  BY DEF Lights, Wallwash
<1>2. CASE s.what \in {"privacy", "siren"}
  BY <1>2 DEF Requests, Wallwash, Lights
<1>3. CASE s.what \in Lights /\ cam = 2
  BY <1>1, <1>3 DEF Requests
<1>4. CASE s.what \in Lights /\ cam # 2
  BY <1>1, <1>4 DEF Requests
<1> QED
  BY <1>1, <1>2, <1>3, <1>4

LEMMA RequestsDiffer ==
  ASSUME TypeOK, NEW c \in Commands, NEW q \in Requests(command[c])
  PROVE  /\ DOMAIN q \subseteq Fields
         /\ \A r \in Requests(command[c]) : r = q \/ DOMAIN r \cap DOMAIN q = {}
<1> DEFINE s == command[c]
<1>0. s.what \in Points
  BY DEF TypeOK, CommandRec
<1>1. CASE s.what \in {"privacy", "siren"}
  <2> DEFINE R == [f \in {s.what} |-> s.val]
  <2>1. Requests(s) = {R}
    BY <1>1, RequestShapes
  <2>2. DOMAIN R = {s.what}
    OBVIOUS
  <2> HIDE DEF R
  <2> QED
    BY <1>1, <2>1, <2>2 DEF Fields
<1>2. CASE s.what \in Wallwash
  BY <1>2, WallwashRequests, BodyTypes DEF LightingRec, Fields
<1>3. CASE s.what \in Lights /\ cam = 2
  <2> DEFINE F == [f \in {"front"} |-> LevelOf(FrontOn(s))]
             W == [f \in {"wall"} |-> LevelOf(WallOn(s))]
  <2>1. Requests(s) = {F, W}
    BY <1>3, RequestShapes
  <2>2. DOMAIN F = {"front"} /\ DOMAIN W = {"wall"}
    OBVIOUS
  <2> HIDE DEF F, W
  <2> QED
    BY <2>1, <2>2 DEF Fields
<1>4. CASE s.what \in Lights /\ cam # 2
  <2> DEFINE R == [f \in {"front", "wall"} |->
                     LevelOf(IF f = "front" THEN FrontOn(s) ELSE WallOn(s))]
  <2>1. Requests(s) = {R}
    BY <1>4, RequestShapes
  <2>2. DOMAIN R = {"front", "wall"}
    OBVIOUS
  <2> HIDE DEF R
  <2> QED
    BY <2>1, <2>2 DEF Fields
<1> QED
  BY <1>0, <1>1, <1>2, <1>3, <1>4 DEF Points

\* How many requests a command makes.
Asked(s) == IF s.what \in Lights /\ cam = 2 THEN 2 ELSE 1

LEMMA RequestsCount ==
  ASSUME TypeOK, NEW c \in Commands
  PROVE  /\ IsFiniteSet(Requests(command[c]))
         /\ Cardinality(Requests(command[c])) = Asked(command[c])
<1> DEFINE s == command[c]
<1>0. s.what \in Points
  BY DEF TypeOK, CommandRec
<1>1. CASE s.what \in Lights /\ cam = 2
  <2> DEFINE F == [f \in {"front"} |-> LevelOf(FrontOn(s))]
             W == [f \in {"wall"} |-> LevelOf(WallOn(s))]
  <2>1. Requests(s) = {F} \cup {W}
    BY <1>1, RequestShapes
  <2>2. W \notin {F}
    <3>1. DOMAIN F = {"front"} /\ DOMAIN W = {"wall"}
      OBVIOUS
    <3> HIDE DEF F, W
    <3> QED
      BY <3>1
  <2> HIDE DEF F, W
  <2>3. IsFiniteSet({F}) /\ Cardinality({F}) = 1
    BY FS_Singleton
  <2>4. IsFiniteSet({F} \cup {W}) /\ Cardinality({F} \cup {W}) = 2
    BY <2>2, <2>3, FS_AddElement
  <2> QED
    BY <1>1, <2>1, <2>4 DEF Asked
<1>2. CASE ~(s.what \in Lights /\ cam = 2)
  <2>1. \E q : Requests(s) = {q}
    BY <1>0, <1>2, RequestShapes, WallwashRequests DEF Points
  <2> QED
    BY <1>2, <2>1, FS_Singleton DEF Asked
<1> QED
  BY <1>1, <1>2

\* They depend on the command, the generation and the cached lights only.
LEMMA RequestsKept ==
  ASSUME TypeOK, TypeOK', NEW c \in Commands, SameCommand(c),
         command'[c].other = command[c].other, UNCHANGED <<cam, lighting>>
  PROVE  /\ Requests(command[c])' = Requests(command[c])
         /\ FrontOn(command[c])' = FrontOn(command[c])
         /\ WallOn(command[c])' = WallOn(command[c])
<1> DEFINE s == command[c]
<1>1. s'.what = s.what /\ s'.val = s.val /\ s'.other = s.other
  BY DEF SameCommand
<1>2. FrontOn(s)' = FrontOn(s) /\ WallOn(s)' = WallOn(s)
  BY <1>1 DEF FrontOn, WallOn
<1>3. Body(s)' = Body(s)
  BY <1>1 DEF Body
<1>4. Requests(s)' = Requests(s)
  BY <1>1, <1>2, <1>3 DEF Requests
<1> QED
  BY <1>2, <1>4

--------------------------------------------------------------------------------
(***************************************************************************)
(* A command that runs alone                                               *)
(***************************************************************************)

Solo(c)  == Busy(c) /\ command[c].alone
Apart(c) == /\ \A d \in Commands : d # c => ~Busy(d)
            /\ \A p \in Polls : poll[p].pc = "idle"

InForce(q) == \A f \in DOMAIN q : cloud[f] = q[f]

\* As many of its requests as were accepted are in force at Bosch; if one was
\* lost, not all of them were accepted.
Granted(c) ==
  \E A \in SUBSET (Requests(command[c]) \ command[c].waiting) :
    /\ IsFiniteSet(A) /\ Cardinality(A) = command[c].accepted
    /\ \A q \in A : InForce(q)
    /\ command[c].lost => \E q \in Requests(command[c]) \ command[c].waiting : q \notin A

IsSet(x, v) == dp[x] = [val |-> v, ack |-> TRUE]

Unsent(c) == command[c].pc \in {"start", "send"} =>
               command[c].accepted = 0 /\ ~command[c].lost
Sent(c)   == command[c].pc \in {"put"} \cup Lights =>
               Granted(c) /\ command[c].waiting \subseteq Requests(command[c])
Set(c)    ==
  /\ command[c].pc \in Lights => IsSet("front", FrontOn(command[c]))
  /\ command[c].pc \in {"wall", "light"} => IsSet("wall", WallOn(command[c]))
  /\ command[c].pc = "light" =>
       IsSet("light", FrontOn(command[c]) /\ WallOn(command[c]))

Lit(f) == cloud[f] > 0

\* What a switch takes the other light to be is what Bosch holds, and so is the
\* spotlight of a wallwasher's body.
SwitchKnows(c) ==
  command[c].what \in {"front", "wall"} =>
    /\ command[c].pc = "start" =>
         dp[Other(command[c].what)].val = Lit(Other(command[c].what))
    /\ command[c].pc = "send" => command[c].other = Lit(Other(command[c].what))
    /\ \A q \in command[c].waiting :
         Other(command[c].what) \in DOMAIN q =>
           (q[Other(command[c].what)] > 0) = Lit(Other(command[c].what))
BodyKnows(c) ==
  command[c].what \in Wallwash =>
    /\ command[c].pc # "send"
    /\ command[c].pc = "start" => lighting = LightsOf(cloud)
    /\ \A q \in command[c].waiting : q.front = cloud.front
Known(c) == SwitchKnows(c) /\ BodyKnows(c)

SoloInv ==
  \A c \in Commands : Solo(c) =>
    /\ Apart(c) /\ Unsent(c) /\ Sent(c) /\ Set(c)
    /\ command[c].synced => Known(c)

\* While it runs alone, only its own steps happen.
LEMMA SoloStep ==
  ASSUME TypeOK, SoloInv, [Next]_vars, NEW c \in Commands, Solo(c)'
  PROVE  \/ \E x \in Points : \E v \in UserValues(x) : UserWrites(c, x, v)
         \/ /\ Solo(c) /\ Moves(c) /\ SameCommand(c) /\ UNCHANGED <<cam, poll>>
            /\ \A d \in Commands : d # c => command'[d] = command[d]
         \/ UNCHANGED vars
<1>0. DOMAIN command = Commands /\ CommandRec(command[c])
  BY DEF TypeOK
<1>1. command'[c] # Disturbed[c]
  BY DisturbedKeeps DEF Solo
<1>2. ASSUME NEW d \in Commands, d # c, NEW x \in Points, NEW v \in UserValues(x),
             UserWrites(d, x, v)
      PROVE  FALSE
  <2>1. command'[c] = Disturbed[c]
    BY <1>2, DisturbedTypes DEF UserWrites
  <2> QED
    BY <1>1, <2>1
<1>3. ~AppChanges
  BY <1>1 DEF AppChanges
<1>4. ASSUME NEW d \in Commands, CommandStep(d)
      PROVE  /\ Solo(c) /\ Moves(c) /\ SameCommand(c) /\ UNCHANGED <<cam, poll>>
             /\ \A e \in Commands : e # c => command'[e] = command[e]
  <2>1. /\ Moves(d) /\ Busy(d) /\ UNCHANGED <<cam, poll>>
        /\ \A e \in Commands : e # d => command'[e] = command[e]
    BY <1>4, CommandMoves
  <2>2. d = c
    BY <2>1 DEF SoloInv, Solo, Apart, Busy
  <2>3. SameCommand(c)
    BY <2>1, <2>2 DEF Solo, Busy, Moves, Reads, Sends, GivesUp, Ends, SetsLights, Sets,
       Acknowledges, Accepts, Refuses, Answers
  <2> QED
    BY <2>1, <2>2, <2>3 DEF Solo, SameCommand
<1>5. ASSUME NEW p \in Polls, PollStep(p) PROVE FALSE
  <2>1. ~Tick(p)
    BY <1>1 DEF Tick
  <2>2. command' = command /\ poll[p].pc # "idle"
    BY <1>5, <2>1 DEF PollStep, CamerasAnswered, ReadPrivacy, MirrorPrivacy,
       LightingAnswered, ReadLights, MirrorLights, PollFails, PollVars
  <2> QED
    BY <2>2 DEF SoloInv, Solo, Busy, Apart
<1> QED
  BY <1>2, <1>3, <1>4, <1>5 DEF Next

\* A user's write finds the adapter at rest, or the command is not alone.
LEMMA SoloStarts ==
  ASSUME TypeOK, NEW c \in Commands, NEW x \in Points, NEW v \in UserValues(x),
         UserWrites(c, x, v), Solo(c)'
  PROVE  /\ Apart(c)' /\ Unsent(c)' /\ Sent(c)' /\ Set(c)'
         /\ command'[c].synced => Known(c)'
<1>0. DOMAIN command = Commands
  BY DEF TypeOK
<1> DEFINE a == /\ \A d \in Commands : ~Busy(d)
                /\ \A p \in Polls : poll[p].pc = "idle"
           b == /\ x \in {"front", "wall"} =>
                     dp[Other(x)].val = Shown(cloud)[Other(x)]
                /\ x \in Wallwash => lighting = LightsOf(cloud)
           n == [Idle EXCEPT !.pc = "start", !.what = x, !.val = v,
                             !.alone = a, !.synced = b]
<1>1. command' = [Disturbed EXCEPT ![c] = n]
  BY DEF UserWrites
<1>2. command'[c] = n /\ \A d \in Commands : d # c => command'[d] = Disturbed[d]
  <2> HIDE DEF n
  <2> QED
    BY <1>0, <1>1, DisturbedTypes
<1>3. /\ n.pc = "start" /\ n.what = x /\ n.waiting = {} /\ n.accepted = 0 /\ ~n.lost
      /\ n.alone = a /\ n.synced = b
  <2> HIDE DEF a, b
  <2> QED
    BY DEF Idle
<1>4. a
  BY <1>2, <1>3 DEF Solo
<1> HIDE DEF n
<1>5. Apart(c)'
  <2>1. \A d \in Commands : d # c => ~Busy(d)'
    BY <1>2, <1>4, DisturbedKeeps DEF Busy, Kept
  <2>2. \A p \in Polls : poll'[p].pc = "idle"
    BY <1>4 DEF UserWrites, DisturbedPoll, TypeOK, PollRec, IdlePoll
  <2> QED
    BY <2>1, <2>2 DEF Apart
<1>6. Unsent(c)' /\ Sent(c)' /\ Set(c)'
  BY <1>2, <1>3 DEF Unsent, Sent, Set, Lights
<1>7. ASSUME b PROVE Known(c)'
  <2>1. ASSUME x \in {"front", "wall"}
        PROVE  dp'[Other(x)].val = Lit(Other(x))'
    <3>1. Other(x) # x /\ Other(x) \in {"front", "wall"}
      BY <2>1 DEF Other
    <3>2. dp'[Other(x)] = dp[Other(x)] /\ cloud' = cloud
      BY <3>1 DEF UserWrites, SetState, TypeOK, Points, Lights
    <3>3. Shown(cloud)["front"] = Lit("front") /\ Shown(cloud)["wall"] = Lit("wall")
      BY DEF Shown, Lit
    <3>4. dp[Other(x)].val = Shown(cloud)[Other(x)]
      BY <1>7, <2>1
    <3> QED
      BY <3>1, <3>2, <3>3, <3>4 DEF Lit
  <2>2. x \in Wallwash => lighting' = LightsOf(cloud)'
    BY <1>7 DEF UserWrites, LightsOf
  <2>3. SwitchKnows(c)'
    BY <1>2, <1>3, <2>1 DEF SwitchKnows
  <2>4. BodyKnows(c)'
    BY <1>2, <1>3, <2>2 DEF BodyKnows
  <2> QED
    BY <2>3, <2>4 DEF Known
<1> QED
  BY <1>2, <1>3, <1>5, <1>6, <1>7

\* What is granted stays granted while it only sets the lights' data points.
LEMMA GrantedKept ==
  ASSUME NEW c \in Commands, Granted(c), SameRequests(c), cloud' = cloud,
         Requests(command[c])' = Requests(command[c])
  PROVE  Granted(c)'
<1>1. PICK A \in SUBSET (Requests(command[c]) \ command[c].waiting) :
        /\ IsFiniteSet(A) /\ Cardinality(A) = command[c].accepted
        /\ \A q \in A : InForce(q)
        /\ command[c].lost =>
             \E q \in Requests(command[c]) \ command[c].waiting : q \notin A
  BY DEF Granted
<1>2. \A q \in A : InForce(q)'
  BY <1>1 DEF InForce
<1> QED
  BY <1>1, <1>2 DEF Granted, SameRequests

\* An answer adds to what is granted, or takes nothing from it: the requests of
\* a command set different fields.
LEMMA AnswerGrants ==
  ASSUME TypeOK, NEW c \in Commands, Granted(c), NEW q \in command[c].waiting,
         command[c].waiting \subseteq Requests(command[c]),
         Requests(command[c])' = Requests(command[c]),
         Accepts(c, q) \/ Refuses(c, q)
  PROVE  Granted(c)'
<1> DEFINE R == Requests(command[c])
           W == command[c].waiting
<1>1. PICK A \in SUBSET (R \ W) :
        /\ IsFiniteSet(A) /\ Cardinality(A) = command[c].accepted
        /\ \A r \in A : InForce(r)
        /\ command[c].lost => \E r \in R \ W : r \notin A
  BY DEF Granted
<1>2. q \in R /\ q \notin A /\ W' = W \ {q} /\ R' = R
  BY DEF Accepts, Refuses, Answers
<1>3. DOMAIN cloud = Fields /\ DOMAIN q \subseteq Fields
  BY <1>2, RequestsDiffer DEF TypeOK
<1>4. ASSUME NEW r \in A PROVE InForce(r)'
  <2>1. DOMAIN r \subseteq Fields /\ DOMAIN r \cap DOMAIN q = {}
    BY <1>2, RequestsDiffer
  <2>2. \A f \in DOMAIN r : cloud'[f] = cloud[f]
    BY <1>3, <2>1 DEF Accepts, Refuses, Over
  <2> QED
    BY <1>1, <2>2 DEF InForce
<1>5. CASE Accepts(c, q)
  <2>1. InForce(q)'
    BY <1>3, <1>5 DEF InForce, Accepts, Over
  <2>2. IsFiniteSet(A \cup {q}) /\ Cardinality(A \cup {q}) = command'[c].accepted
    BY <1>1, <1>2, <1>5, FS_AddElement DEF Accepts
  <2>3. A \cup {q} \in SUBSET (R' \ W')
    BY <1>2
  <2>4. command'[c].lost => \E r \in R' \ W' : r \notin A \cup {q}
    BY <1>1, <1>2, <1>5 DEF Accepts
  <2>5. \A r \in A \cup {q} : InForce(r)'
    BY <1>4, <2>1
  <2> QED
    BY <2>2, <2>3, <2>4, <2>5 DEF Granted
<1>6. CASE Refuses(c, q)
  <2>1. A \in SUBSET (R' \ W') /\ \E r \in R' \ W' : r \notin A
    BY <1>2
  <2>2. Cardinality(A) = command'[c].accepted
    BY <1>1, <1>6 DEF Refuses
  <2> QED
    BY <1>1, <1>4, <2>1, <2>2 DEF Granted
<1> QED
  BY <1>5, <1>6

LEMMA SoloMoves ==
  ASSUME TypeOK, TypeOK', NEW c \in Commands, Moves(c), SameCommand(c), cam' = cam,
         command'[c].pc # "idle", Unsent(c), Sent(c), Set(c)
  PROVE  Unsent(c)' /\ Sent(c)' /\ Set(c)'
<1> DEFINE s == command[c]
<1>1. CASE Reads(c)
  BY <1>1 DEF Reads, SameRequests, Unsent, Sent, Set, Lights
<1>2. CASE Sends(c)
  <2>1. Requests(s)' = Requests(s)
    BY <1>2, RequestsKept DEF Sends
  <2>2. command'[c].accepted = 0 /\ ~command'[c].lost
    BY <1>2 DEF Sends, Unsent
  <2>3. Granted(c)'
    <3>1. {} \in SUBSET (Requests(s)' \ command'[c].waiting)
      OBVIOUS
    <3>2. IsFiniteSet({}) /\ Cardinality({}) = 0
      BY FS_EmptySet
    <3> QED
      BY <2>2, <3>1, <3>2 DEF Granted
  <2> QED
    BY <1>2, <2>1, <2>2, <2>3 DEF Sends, Unsent, Sent, Set, Lights
<1>3. CASE GivesUp(c) \/ Acknowledges(c)
  BY <1>3 DEF GivesUp, Acknowledges, Ends
<1>4. CASE SetsLights(c)
  <2>1. /\ Requests(s)' = Requests(s) /\ FrontOn(s)' = FrontOn(s)
        /\ WallOn(s)' = WallOn(s)
    BY <1>4, RequestsKept DEF SetsLights, Sets
  <2>2. s.pc \in {"put"} \cup Lights /\ command'[c].pc \in Lights
    BY <1>4 DEF SetsLights, Sets, Done, Lights
  <2>3. Unsent(c)' /\ Sent(c)'
    <3>1. SameRequests(c) /\ cloud' = cloud
      BY <1>4 DEF SetsLights, Sets
    <3>2. Granted(c)'
      BY <2>1, <2>2, <3>1, GrantedKept DEF Sent
    <3> QED
      BY <2>1, <2>2, <3>1, <3>2 DEF Sent, Unsent, SameRequests, Lights
  <2>4. Set(c)'
    <3>0. DOMAIN dp = Points /\ Lights \subseteq Points
      BY DEF TypeOK, Points
    <3>1. CASE Sets(c, "front", FrontOn(s))
      BY <2>1, <3>0, <3>1 DEF Set, Sets, IsSet, Lights
    <3>2. CASE s.pc = "front" /\ Sets(c, "wall", WallOn(s))
      BY <2>1, <3>0, <3>2 DEF Set, Sets, IsSet, Lights
    <3>3. CASE s.pc = "wall" /\ Sets(c, "light", FrontOn(s) /\ WallOn(s))
      BY <2>1, <3>0, <3>3 DEF Set, Sets, IsSet, Lights
    <3> QED
      BY <1>4, <3>1, <3>2, <3>3 DEF SetsLights
  <2> QED
    BY <2>3, <2>4
<1>5. ASSUME NEW q \in s.waiting, Accepts(c, q) \/ Refuses(c, q)
      PROVE  Unsent(c)' /\ Sent(c)' /\ Set(c)'
  <2>1. s.pc = "put" /\ command'[c].pc = "put"
    BY <1>5 DEF Accepts, Refuses, Answers
  <2>2. Requests(s)' = Requests(s)
    BY <1>5, RequestsKept DEF Accepts, Refuses, Answers
  <2>3. Granted(c) /\ s.waiting \subseteq Requests(s)
    BY <2>1 DEF Sent
  <2>4. Granted(c)'
    BY <1>5, <2>2, <2>3, AnswerGrants
  <2>5. command'[c].waiting \subseteq Requests(s)'
    BY <1>5, <2>2, <2>3 DEF Accepts, Refuses, Answers
  <2> QED
    BY <2>1, <2>4, <2>5 DEF Unsent, Sent, Set, Lights
<1> QED
  BY <1>1, <1>2, <1>3, <1>4, <1>5 DEF Moves

\* What a switch sends for the other light.
LEMMA SwitchSends ==
  ASSUME TypeOK, NEW c \in Commands, command[c].what \in {"front", "wall"},
         NEW q \in Requests(command[c]), Other(command[c].what) \in DOMAIN q
  PROVE  (q[Other(command[c].what)] > 0) = command[c].other
<1> DEFINE s == command[c]
           o == Other(s.what)
<1>1. s.other \in BOOLEAN
  BY DEF TypeOK, CommandRec
<1>2. q[o] = LevelOf(s.other)
  <2>1. /\ o = "front" => s.what = "wall" /\ FrontOn(s) = s.other
        /\ o = "wall" => s.what = "front" /\ WallOn(s) = s.other
        /\ o \in {"front", "wall"}
    BY DEF Other, FrontOn, WallOn
  <2>2. s.what \in Lights
    BY DEF Lights
  <2>3. CASE cam = 2
    <3> DEFINE F == [f \in {"front"} |-> LevelOf(FrontOn(s))]
               W == [f \in {"wall"} |-> LevelOf(WallOn(s))]
    <3>1. q = F \/ q = W
      BY <2>2, <2>3, RequestShapes
    <3>2. /\ DOMAIN F = {"front"} /\ F["front"] = LevelOf(FrontOn(s))
          /\ DOMAIN W = {"wall"} /\ W["wall"] = LevelOf(WallOn(s))
      OBVIOUS
    <3> HIDE DEF F, W
    <3> QED
      BY <2>1, <3>1, <3>2
  <2>4. CASE cam # 2
    <3> DEFINE R == [f \in {"front", "wall"} |->
                       LevelOf(IF f = "front" THEN FrontOn(s) ELSE WallOn(s))]
    <3>1. q = R
      BY <2>2, <2>4, RequestShapes
    <3>2. R["front"] = LevelOf(FrontOn(s)) /\ R["wall"] = LevelOf(WallOn(s))
      OBVIOUS
    <3> HIDE DEF R
    <3> QED
      BY <2>1, <3>1, <3>2
  <2> QED
    BY <2>3, <2>4
<1>3. (LevelOf(s.other) > 0) = s.other
  BY <1>1, LevelsAssumption DEF LevelOf
<1> QED
  BY <1>2, <1>3

LEMMA SwitchStaysInformed ==
  ASSUME TypeOK, NEW c \in Commands, Moves(c), SameCommand(c),
         command'[c].pc # "idle", SwitchKnows(c)
  PROVE  SwitchKnows(c)'
<1> DEFINE s == command[c]
           o == Other(s.what)
<1> SUFFICES ASSUME s.what \in {"front", "wall"}
             PROVE  SwitchKnows(c)'
  BY DEF SwitchKnows, SameCommand
<1>0. command'[c].what = s.what /\ CommandRec(s)
  BY DEF SameCommand, TypeOK
<1>1. CASE Reads(c)
  <2>1. command'[c].other = OtherIsOn(s.what) /\ s.pc = "start"
    BY <1>1 DEF Reads
  <2>2. dp[o].val = Lit(o)
    BY <2>1 DEF SwitchKnows
  <2>3. OtherIsOn(s.what) = Lit(o)
    <3>1. Lit(o) \in BOOLEAN
      BY DEF Lit
    <3>2. OtherIsOn(s.what) = (dp[o].val = TRUE)
      BY DEF OtherIsOn
    <3>3. (Lit(o) = TRUE) = Lit(o)
      BY <3>1
    <3> QED
      BY <2>2, <3>2, <3>3
  <2>4. command'[c].waiting = {} /\ command'[c].pc = "send"
    BY <1>0, <1>1 DEF Reads, SameRequests, CommandRec
  <2>5. Lit(o)' = Lit(o)
    BY <1>0, <1>1 DEF Lit, Reads
  <2> QED
    BY <1>0, <2>1, <2>3, <2>4, <2>5 DEF SwitchKnows
<1>2. CASE Sends(c)
  <2>1. s.pc = "send" /\ command'[c].pc = "put"
    BY <1>2 DEF Sends
  <2>2. s.other = Lit(o)
    BY <2>1 DEF SwitchKnows
  <2>3. \A q \in command'[c].waiting : o \in DOMAIN q => (q[o] > 0) = Lit(o)
    BY <1>2, <2>2, SwitchSends DEF Sends
  <2>4. Lit(o)' = Lit(o)
    BY <1>0, <1>2 DEF Lit, Sends
  <2> QED
    BY <1>0, <2>1, <2>3, <2>4 DEF SwitchKnows
<1>3. CASE GivesUp(c) \/ Acknowledges(c)
  BY <1>3 DEF GivesUp, Acknowledges, Ends
<1>4. CASE SetsLights(c)
  <2>1. command'[c].pc \in Lights /\ command'[c].waiting = s.waiting
    BY <1>4 DEF SetsLights, Sets, SameRequests, Lights
  <2>2. Lit(o)' = Lit(o)
    BY <1>0, <1>4 DEF Lit, SetsLights, Sets
  <2> QED
    BY <1>0, <2>1, <2>2 DEF SwitchKnows, Lights
<1>5. ASSUME NEW q \in s.waiting, Accepts(c, q) \/ Refuses(c, q)
      PROVE  SwitchKnows(c)'
  <2>1. command'[c].pc = "put" /\ command'[c].waiting \subseteq s.waiting
    BY <1>5 DEF Accepts, Refuses, Answers
  <2>2. o \in DOMAIN q => (q[o] > 0) = Lit(o)
    BY DEF SwitchKnows
  <2>3. cloud' = cloud \/ cloud' = Over(q, cloud)
    BY <1>5 DEF Accepts, Refuses
  <2>4. o \in DOMAIN cloud
    BY DEF TypeOK, Fields, Other
  <2>5. cloud'[o] = cloud[o] \/ (o \in DOMAIN q /\ cloud'[o] = q[o])
    BY <2>3, <2>4 DEF Over
  <2>6. Lit(o)' = Lit(o)
    BY <1>0, <2>2, <2>5 DEF Lit
  <2> QED
    BY <1>0, <2>1, <2>6 DEF SwitchKnows
<1> QED
  BY <1>1, <1>2, <1>3, <1>4, <1>5 DEF Moves

LEMMA BodyStaysInformed ==
  ASSUME TypeOK, NEW c \in Commands, Moves(c), SameCommand(c),
         command'[c].pc # "idle", BodyKnows(c)
  PROVE  BodyKnows(c)'
<1> DEFINE s == command[c]
<1> SUFFICES ASSUME s.what \in Wallwash
             PROVE  BodyKnows(c)'
  BY DEF BodyKnows, SameCommand
<1>0. command'[c].what = s.what /\ CommandRec(s)
  BY DEF SameCommand, TypeOK
<1>1. s.what \notin {"front", "wall"} /\ s.what \notin Lights
  BY DEF Wallwash, Lights
<1>2. CASE Sends(c)
  <2>1. s.pc = "start" \/ s.waiting = {}
    BY <1>0, <1>2 DEF Sends, CommandRec
  <2>2. CASE s.pc = "start"
    <3>1. lighting = LightsOf(cloud)
      BY <2>2 DEF BodyKnows
    <3>2. lighting # None
      BY <3>1, LightsTypes, NoneIsNoValue
    <3>3. Body(s).front = cloud.front
      BY <3>1, <3>2, BodyFront DEF LightsOf
    <3>4. command'[c].waiting = {Body(s)} /\ command'[c].pc = "put" /\ cloud' = cloud
      BY <1>2, WallwashRequests DEF Sends
    <3> QED
      BY <3>3, <3>4 DEF BodyKnows
  <2> QED
    BY <1>2, <2>2 DEF Sends, BodyKnows
<1>3. CASE GivesUp(c) \/ Acknowledges(c)
  BY <1>3 DEF GivesUp, Acknowledges, Ends
<1>4. ASSUME NEW q \in s.waiting, Accepts(c, q) \/ Refuses(c, q)
      PROVE  BodyKnows(c)'
  <2>1. command'[c].pc = "put" /\ command'[c].waiting \subseteq s.waiting
    BY <1>4 DEF Accepts, Refuses, Answers
  <2>2. \A r \in s.waiting : r.front = cloud.front
    BY DEF BodyKnows
  <2>3. cloud'.front = cloud.front
    BY <1>4, <2>2 DEF Accepts, Refuses, Over, TypeOK, Fields
  <2> QED
    BY <2>1, <2>2, <2>3 DEF BodyKnows
<1>5. CASE SetsLights(c)
  BY <1>1, <1>0, <1>5 DEF SetsLights, Sets, SameRequests, BodyKnows, CommandRec, Lights
<1> QED
  BY <1>1, <1>2, <1>3, <1>4, <1>5 DEF Moves, Reads

LEMMA SoloInvariant == Spec => [](TypeOK /\ SoloInv)
<1>1. Init => SoloInv
  <2>1. Idle.pc = "idle"
    BY DEF Idle
  <2> QED
    BY <2>1 DEF Init, SoloInv, Solo, Busy
<1>2. TypeOK /\ SoloInv /\ [Next]_vars => SoloInv'
  <2> SUFFICES ASSUME TypeOK, SoloInv, [Next]_vars, NEW c \in Commands, Solo(c)'
               PROVE  /\ Apart(c)' /\ Unsent(c)' /\ Sent(c)' /\ Set(c)'
                      /\ command'[c].synced => Known(c)'
    BY DEF SoloInv
  <2>1. TypeOK'
    BY TypeStep
  <2>2. CASE \E x \in Points : \E v \in UserValues(x) : UserWrites(c, x, v)
    BY <2>2, SoloStarts
  <2>3. CASE /\ Solo(c) /\ Moves(c) /\ SameCommand(c) /\ UNCHANGED <<cam, poll>>
             /\ \A d \in Commands : d # c => command'[d] = command[d]
    <3>1. /\ Apart(c) /\ Unsent(c) /\ Sent(c) /\ Set(c)
          /\ command[c].synced => SwitchKnows(c) /\ BodyKnows(c)
      BY <2>3 DEF SoloInv, Known
    <3>2. command'[c].pc # "idle"
      BY DEF Solo, Busy
    <3>3. Apart(c)'
      BY <2>3, <3>1 DEF Apart, Busy
    <3>4. Unsent(c)' /\ Sent(c)' /\ Set(c)'
      BY <2>1, <2>3, <3>1, <3>2, SoloMoves
    <3>5. ASSUME command'[c].synced PROVE Known(c)'
      <4>1. SwitchKnows(c) /\ BodyKnows(c)
        BY <2>3, <3>1, <3>5 DEF SameCommand
      <4>2. SwitchKnows(c)' /\ BodyKnows(c)'
        BY <2>3, <3>2, <4>1, SwitchStaysInformed, BodyStaysInformed
      <4> QED
        BY <4>2 DEF Known
    <3> QED
      BY <3>3, <3>4, <3>5
  <2>4. CASE UNCHANGED vars
    <3>1. Solo(c)
      BY <2>4 DEF vars, Solo, Busy
    <3>2. /\ Apart(c) /\ Unsent(c) /\ Sent(c) /\ Set(c)
          /\ command[c].synced => SwitchKnows(c) /\ BodyKnows(c)
      BY <3>1 DEF SoloInv, Known
    <3>3. /\ command' = command /\ poll' = poll /\ cloud' = cloud /\ dp' = dp
          /\ lighting' = lighting /\ cam' = cam
      BY <2>4 DEF vars
    <3>4. SameCommand(c) /\ SameRequests(c)
      BY <3>3 DEF SameCommand, SameRequests
    <3>5. /\ Requests(command[c])' = Requests(command[c])
          /\ FrontOn(command[c])' = FrontOn(command[c])
          /\ WallOn(command[c])' = WallOn(command[c])
      BY <2>1, <3>3, <3>4, RequestsKept
    <3>6. Unsent(c)' /\ Sent(c)' /\ Set(c)'
      <4>1. Granted(c) => Granted(c)'
        BY <3>3, <3>4, <3>5, GrantedKept
      <4> QED
        BY <3>2, <3>3, <3>5, <4>1 DEF Unsent, Sent, Set, IsSet
    <3>7. Apart(c)'
      BY <3>2, <3>3 DEF Apart, Busy
    <3>8. command'[c].synced => Known(c)'
      BY <3>2, <3>3 DEF Known, SwitchKnows, BodyKnows, Lit, LightsOf
    <3> QED
      BY <3>6, <3>7, <3>8
  <2> QED
    BY <2>2, <2>3, <2>4, SoloStep
<1> QED
  BY <1>1, <1>2, TypeCorrect, PTL DEF Spec

LEMMA AllInForce ==
  ASSUME TypeOK, NEW c \in Commands, Granted(c),
         command[c].accepted = Asked(command[c])
  PROVE  ~command[c].lost /\ \A q \in Requests(command[c]) : InForce(q)
<1> DEFINE R == Requests(command[c])
<1>1. PICK A \in SUBSET (R \ command[c].waiting) :
        /\ IsFiniteSet(A) /\ Cardinality(A) = command[c].accepted
        /\ \A q \in A : InForce(q)
        /\ command[c].lost => \E q \in R \ command[c].waiting : q \notin A
  BY DEF Granted
<1>2. IsFiniteSet(R) /\ Cardinality(R) = Cardinality(A) /\ A \in SUBSET R
  BY <1>1, RequestsCount
<1>3. R = A
  BY <1>2, FS_Subset
<1> QED
  BY <1>1, <1>3

\* When a command that ran alone ends with every request accepted, the data
\* points it acknowledges show what Bosch holds (onStateChange with
\* _applyLightingState): the switched light, the other one as it was sent along,
\* and the combined one.
THEOREM SoloAgrees == Spec => SoloCommandAgrees
<1> DEFINE Agrees ==
      \A c \in Commands :
        LET s == command[c]
        IN (/\ Busy(c) /\ command'[c].pc = "idle" /\ s.alone /\ InRange(s)
            /\ s.accepted = IF s.what \in Lights /\ cam = 2 THEN 2 ELSE 1)
           => \A x \in Written(s) :
                dp'[x] = [val |-> Shown(cloud)[x], ack |-> TRUE]
<1>1. TypeOK /\ SoloInv /\ [Next]_vars => [Agrees]_vars
  <2> SUFFICES ASSUME TypeOK, SoloInv, Next, NEW c \in Commands, Busy(c),
                      command'[c].pc = "idle", command[c].alone,
                      InRange(command[c]), command[c].accepted = Asked(command[c]),
                      NEW x \in Written(command[c])
               PROVE  dp'[x] = [val |-> Shown(cloud)[x], ack |-> TRUE]
    BY DEF Asked
  <2> DEFINE s == command[c]
  <2>0. /\ Unsent(c) /\ Sent(c) /\ Set(c) /\ CommandRec(s)
        /\ s.accepted # 0 /\ DOMAIN dp = Points
    BY DEF SoloInv, Solo, TypeOK, Asked
  <2>1. s.pc \in {"put"} \cup Lights
    BY <2>0 DEF Unsent, CommandRec, CommandPCs, Busy, Lights
  <2>2. ~s.lost /\ \A q \in Requests(s) : InForce(q)
    BY <2>0, <2>1, AllInForce DEF Sent
  <2>3. Acknowledges(c)
    <3>1. Moves(c)
      BY Fate DEF Kept, Begins, Busy
    <3>2. ~GivesUp(c)
      BY <2>0, <2>1, <2>2 DEF GivesUp, Lights
    <3> QED
      BY <3>1, <3>2 DEF Moves, Reads, Sends, SetsLights, Sets, Lights, Accepts, Refuses,
         Answers
  <2>4. /\ s.what \in Points
        /\ dp'[s.what] = [val |-> s.val, ack |-> TRUE]
        /\ \A y \in Points : y # s.what => dp'[y] = dp[y]
    BY <2>0, <2>3 DEF Acknowledges, CommandRec
  <2>5. CASE s.what \in {"privacy", "siren"}
    <3> DEFINE R == [f \in {s.what} |-> s.val]
    <3>1. R \in Requests(s)
      BY <2>5, RequestShapes
    <3>2. DOMAIN R = {s.what} /\ R[s.what] = s.val
      OBVIOUS
    <3> HIDE DEF R
    <3>3. cloud[s.what] = s.val
      BY <2>2, <3>1, <3>2 DEF InForce
    <3>4. x = s.what /\ Shown(cloud)[x] = cloud[x]
      BY <2>5 DEF Written, Lights, Shown
    <3> QED
      BY <2>4, <3>3, <3>4
  <2>6. CASE s.what \in Wallwash
    <3>1. InForce(Body(s)) /\ Body(s) \in LightingRec
      BY <2>2, <2>6, WallwashRequests, BodyTypes
    <3>2. cloud.wall = Body(s).wall /\ cloud.color = Body(s).color
      BY <3>1 DEF InForce, LightingRec
    <3>3. x = s.what
      BY <2>6 DEF Written, Lights, Wallwash
    <3> DEFINE current == IF lighting = None THEN DefaultLighting ELSE lighting
    <3>4. DOMAIN current = {"front", "wall", "color"}
      BY DEF DefaultLighting, TypeOK, LightingRec
    <3>5. CASE s.what = "brightness"
      <4>1. s.val \in 0..(MaxLevel + 1) /\ s.val <= MaxLevel
        BY <2>0, <3>5, Kinds DEF CommandRec, InRange
      <4>2. Clamp(s.val) = s.val
        BY <4>1, LevelsAssumption DEF Clamp
      <4>3. Body(s).wall = s.val
        BY <3>4, <3>5, <4>2 DEF Body
      <4> QED
        BY <2>4, <3>2, <3>3, <3>5, <4>3 DEF Shown
    <3>6. CASE s.what = "color"
      <4>1. Body(s).color = s.val
        BY <3>4, <3>6 DEF Body
      <4> QED
        BY <2>4, <3>2, <3>3, <3>6, <4>1 DEF Shown
    <3> QED
      BY <2>6, <3>5, <3>6 DEF Wallwash
  <2>7. CASE s.what \in Lights
    <3>1. s.pc = "light"
      BY <2>3, <2>7 DEF Acknowledges
    <3>2. /\ IsSet("front", FrontOn(s)) /\ IsSet("wall", WallOn(s))
          /\ IsSet("light", FrontOn(s) /\ WallOn(s))
      BY <2>0, <3>1 DEF Set, Lights
    <3>3. cloud.front = LevelOf(FrontOn(s)) /\ cloud.wall = LevelOf(WallOn(s))
      <4>1. CASE cam = 2
        <5> DEFINE F == [f \in {"front"} |-> LevelOf(FrontOn(s))]
                   W == [f \in {"wall"} |-> LevelOf(WallOn(s))]
        <5>1. F \in Requests(s) /\ W \in Requests(s)
          BY <2>7, <4>1, RequestShapes
        <5>2. /\ DOMAIN F = {"front"} /\ F["front"] = LevelOf(FrontOn(s))
              /\ DOMAIN W = {"wall"} /\ W["wall"] = LevelOf(WallOn(s))
          OBVIOUS
        <5> HIDE DEF F, W
        <5> QED
          BY <2>2, <5>1, <5>2 DEF InForce
      <4>2. CASE cam # 2
        <5> DEFINE R == [f \in {"front", "wall"} |->
                           LevelOf(IF f = "front" THEN FrontOn(s) ELSE WallOn(s))]
        <5>1. R \in Requests(s)
          BY <2>7, <4>2, RequestShapes
        <5>2. /\ DOMAIN R = {"front", "wall"} /\ R["front"] = LevelOf(FrontOn(s))
              /\ R["wall"] = LevelOf(WallOn(s))
          OBVIOUS
        <5> HIDE DEF R
        <5> QED
          BY <2>2, <5>1, <5>2 DEF InForce
      <4> QED
        BY <4>1, <4>2
    <3>4. FrontOn(s) \in BOOLEAN /\ WallOn(s) \in BOOLEAN /\ s.val \in BOOLEAN
      BY <2>0, <2>7 DEF CommandRec, UserValues, FrontOn, WallOn, Lights
    <3>5. \A b \in BOOLEAN : (LevelOf(b) > 0) = b
      BY LevelsAssumption DEF LevelOf
    <3>6. /\ Shown(cloud)["front"] = FrontOn(s) /\ Shown(cloud)["wall"] = WallOn(s)
          /\ Shown(cloud)["light"] = (FrontOn(s) /\ WallOn(s))
      <4>1. /\ Shown(cloud)["front"] = (cloud.front > 0)
            /\ Shown(cloud)["wall"] = (cloud.wall > 0)
            /\ Shown(cloud)["light"] = (cloud.front > 0 /\ cloud.wall > 0)
        BY DEF Shown
      <4> QED
        BY <3>3, <3>4, <3>5, <4>1
    <3>7. /\ s.what = "front" => s.val = FrontOn(s)
          /\ s.what = "wall" => s.val = WallOn(s)
          /\ s.what = "light" => s.val = (FrontOn(s) /\ WallOn(s))
      BY <3>4 DEF FrontOn, WallOn
    <3>8. x \in {"light", "front", "wall"} /\ x \in Points
      BY <2>7 DEF Written, Lights, Points
    <3> QED
      BY <2>4, <3>2, <3>6, <3>7, <3>8 DEF IsSet
  <2> QED
    BY <2>4, <2>5, <2>6, <2>7 DEF Points
<1> QED
  BY <1>1, SoloInvariant, PTL DEF Spec, SoloCommandAgrees

\* A command for one light leaves the other alone, if it ran alone and what the
\* adapter knew of it was true (handleFrontLightToggle, handleWallwasherToggle,
\* buildWallwasherUpdate): on stays on and off stays off, and a body keeps the
\* spotlight's level.
THEOREM OtherLightStays == Spec => OtherLightUntouched
<1> DEFINE Stays ==
      \A c \in Commands :
        LET s == command[c]
        IN s.alone /\ s.synced /\ command'[c].accepted > s.accepted =>
             /\ s.what = "front" => (cloud'.wall > 0) = (cloud.wall > 0)
             /\ s.what = "wall" => (cloud'.front > 0) = (cloud.front > 0)
             /\ s.what \in Wallwash => cloud'.front = cloud.front
<1>1. TypeOK /\ SoloInv /\ [Next]_vars => [Stays]_vars
  <2> SUFFICES ASSUME TypeOK, SoloInv, Next, NEW c \in Commands, command[c].alone,
                      command[c].synced, command'[c].accepted > command[c].accepted
               PROVE  /\ command[c].what = "front" =>
                           (cloud'.wall > 0) = (cloud.wall > 0)
                      /\ command[c].what = "wall" =>
                           (cloud'.front > 0) = (cloud.front > 0)
                      /\ command[c].what \in Wallwash => cloud'.front = cloud.front
    OBVIOUS
  <2> DEFINE s == command[c]
  <2>0. s.accepted \in Nat
    BY DEF TypeOK, CommandRec
  <2>1. PICK q \in s.waiting : Accepts(c, q)
    <3>1. Moves(c)
      BY <2>0, Fate DEF Kept, SameRequests, Begins
    <3> QED
      BY <2>0, <3>1 DEF Moves, Reads, Sends, GivesUp, Ends, SetsLights, Sets,
         SameRequests, Acknowledges, Refuses
  <2>2. SwitchKnows(c) /\ BodyKnows(c)
    BY <2>1 DEF SoloInv, Solo, Busy, Known, Accepts, Answers
  <2>3. \A f \in Fields : cloud'[f] = IF f \in DOMAIN q THEN q[f] ELSE cloud[f]
    BY <2>1 DEF Accepts, Over, TypeOK
  <2>4. "front" \in Fields /\ "wall" \in Fields
    BY DEF Fields
  <2>5. CASE s.what \in {"front", "wall"}
    <3> DEFINE o == Other(s.what)
    <3>1. o \in DOMAIN q => (q[o] > 0) = (cloud[o] > 0)
      BY <2>2, <2>5 DEF SwitchKnows, Lit
    <3>2. (cloud'[o] > 0) = (cloud[o] > 0)
      BY <2>3, <2>4, <2>5, <3>1 DEF Other
    <3> QED
      BY <2>5, <3>2 DEF Other, Wallwash
  <2>6. CASE s.what \in Wallwash
    <3>1. cloud'.front = cloud.front
      BY <2>2, <2>3, <2>4, <2>6 DEF BodyKnows
    <3> QED
      BY <2>6, <3>1 DEF Wallwash
  <2> QED
    BY <2>5, <2>6
<1> QED
  BY <1>1, SoloInvariant, PTL DEF Spec, OtherLightUntouched

=============================================================================
