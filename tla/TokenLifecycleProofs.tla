-------------------------- MODULE TokenLifecycleProofs --------------------------
(***************************************************************************)
(* Theorems about TokenLifecycle, for every set of logins and verifiers,   *)
(* everything the environment does and every choice of faults.             *)
(***************************************************************************)
EXTENDS TokenLifecycle, SequenceTheorems, TLAPS

--------------------------------------------------------------------------------
(* Writes *)

LEMMA WritesTyped ==
  /\ \A l \in Logins \cup {None} : /\ <<"access", l>> \in Writes
                                   /\ <<"refresh", l>> \in Writes
  /\ \A v \in Verifiers \cup {None} : /\ <<"verifier", v>> \in Writes
                                      /\ <<"loginUrl", v>> \in Writes
                                      /\ <<"redirect", v>> \in Writes
  /\ \A x \in {None, "future"} : <<"expires", x>> \in Writes
  /\ \A b \in BOOLEAN : <<"connection", b>> \in Writes
  /\ \A s \in Statuses : <<"status", s>> \in Writes
  BY DEF Writes

LEMMA SaveTyped ==
  ASSUME NEW l \in Logins
  PROVE  Save(l) \in Seq(Writes)
<1>1. /\ <<"access", l>> \in Writes /\ <<"refresh", l>> \in Writes
      /\ <<"expires", "future">> \in Writes /\ <<"status", "connected">> \in Writes
  BY WritesTyped DEF Statuses
<1> QED
  BY <1>1 DEF Save

\* Each pending write keeps the type of what is stored, and only a write of
\* info.connection changes it.
Stores(k, x) == [stored EXCEPT ![k] = x]

LEMMA WriteStores ==
  ASSUME stored \in StoredRec, NEW w \in Writes
  PROVE  /\ Stores(w[1], w[2]) \in StoredRec
         /\ w # <<"connection", TRUE>> /\ Stores(w[1], w[2]).connection
              => stored.connection
         /\ w = <<"connection", FALSE>> => ~Stores(w[1], w[2]).connection
<1> DEFINE Good(k, x) ==
         /\ Stores(k, x) \in StoredRec
         /\ ~(k = "connection" /\ x = TRUE) /\ Stores(k, x).connection
              => stored.connection
         /\ k = "connection" /\ x = FALSE => ~Stores(k, x).connection
<1>1. ASSUME NEW k \in {"access", "refresh"}, NEW x \in Logins \cup {None}
      PROVE  Good(k, x)
  BY DEF StoredRec, Stores
<1>2. ASSUME NEW k \in {"verifier", "loginUrl", "redirect"},
             NEW x \in Verifiers \cup {None}
      PROVE  Good(k, x)
  BY DEF StoredRec, Stores
<1>3. ASSUME NEW x \in {None, "future"} PROVE Good("expires", x)
  BY DEF StoredRec, Stores
<1>4. ASSUME NEW x \in BOOLEAN PROVE Good("connection", x)
  BY DEF StoredRec, Stores
<1>5. ASSUME NEW x \in Statuses PROVE Good("status", x)
  BY DEF StoredRec, Stores
<1>6. PICK k, x : w = <<k, x>> /\ Good(k, x)
  <2> HIDE DEF Good
  <2> QED
    BY <1>1, <1>2, <1>3, <1>4, <1>5 DEF Writes
<1>7. w[1] = k /\ w[2] = x
  BY <1>6
<1> QED
  BY <1>6, <1>7

--------------------------------------------------------------------------------
(* Types *)

LEMMA HandlersKnown ==
  "boot" \in Handlers /\ "renewal" \in Handlers /\ "reset" \in Handlers
  BY DEF Handlers

LEMMA OffTyped == Off \in HandlerRec /\ Idle \in HandlerRec
<1>1. Off \in HandlerRec
  <2>1. <<>> \in Seq(Writes)
    OBVIOUS
  <2> QED
    BY <2>1 DEF Off, HandlerRec, PCs
<1>2. ASSUME NEW r \in HandlerRec PROVE [r EXCEPT !.pc = "idle"] \in HandlerRec
  BY DEF HandlerRec, PCs
<1> QED
  BY <1>1, <1>2 DEF Idle

\* A step of one handler changes that handler only, and as it says.
LEMMA GotoEffect ==
  ASSUME TypeOK, NEW h \in Handlers, NEW p \in PCs, NEW s \in Seq(Writes),
         Goto(h, p, s)
  PROVE  /\ handler' \in [Handlers -> HandlerRec]
         /\ handler'[h].pc = p /\ handler'[h].todo = s
         /\ handler'[h].login = handler[h].login
         /\ \A g \in Handlers \ {h} : handler'[g] = handler[g]
  BY DEF TypeOK, Goto, HandlerRec

LEMMA EnterEffect ==
  ASSUME TypeOK, NEW h \in Handlers, NEW p \in PCs, NEW s \in Seq(Writes),
         NEW l \in Logins \cup {None}, Enter(h, p, s, l)
  PROVE  /\ handler' \in [Handlers -> HandlerRec]
         /\ handler'[h].pc = p /\ handler'[h].todo = s
         /\ handler'[h].login = l
         /\ \A g \in Handlers \ {h} : handler'[g] = handler[g]
  BY DEF TypeOK, Enter, HandlerRec

\* So does one of its writes.
LEMMA WriteEffect ==
  ASSUME TypeOK, NEW h \in Handlers, Write(h)
  PROVE  /\ TypeOK'
         /\ handler'[h].pc = handler[h].pc
         /\ handler'[h].todo = Tail(handler[h].todo)
         /\ handler'[h].login = handler[h].login
         /\ \A g \in Handlers \ {h} : handler'[g] = handler[g]
         /\ handler[h].todo # <<>> /\ Head(handler[h].todo) \in Writes
         /\ Head(handler[h].todo) # <<"connection", TRUE>> /\ stored'.connection
              => stored.connection
         /\ Head(handler[h].todo) = <<"connection", FALSE>> => ~stored'.connection
<1>1. handler[h] \in HandlerRec /\ handler[h].todo \in Seq(Writes)
  BY DEF TypeOK, HandlerRec
<1>2. handler[h].todo # <<>>
  BY DEF Write
<1>3. Head(handler[h].todo) \in Writes /\ Tail(handler[h].todo) \in Seq(Writes)
  BY <1>1, <1>2, HeadTailProperties
<1>4. stored' = Stores(Head(handler[h].todo)[1], Head(handler[h].todo)[2])
  BY DEF Write, Stores
<1>5. /\ stored' \in StoredRec
      /\ Head(handler[h].todo) # <<"connection", TRUE>> /\ stored'.connection
           => stored.connection
      /\ Head(handler[h].todo) = <<"connection", FALSE>> => ~stored'.connection
  BY <1>3, <1>4, WriteStores DEF TypeOK
<1>6. /\ handler' \in [Handlers -> HandlerRec]
      /\ handler'[h].pc = handler[h].pc
      /\ handler'[h].todo = Tail(handler[h].todo)
      /\ handler'[h].login = handler[h].login
      /\ \A g \in Handlers \ {h} : handler'[g] = handler[g]
  BY <1>1, <1>3 DEF Write, TypeOK, HandlerRec
<1>7. TypeOK'
  BY <1>5, <1>6 DEF Write, TypeOK, cloudVars
<1> QED
  BY <1>2, <1>3, <1>5, <1>6, <1>7

LEMMA DownEffect ==
  ASSUME Down
  PROVE  /\ handler' \in [Handlers -> HandlerRec]
         /\ \A h \in Handlers : handler'[h] = Off
         /\ memory' = None /\ ~armed' /\ armed' \in BOOLEAN
  BY OffTyped DEF Down

LEMMA NoTokensEffect ==
  ASSUME TypeOK, NoTokens
  PROVE  /\ handler' \in [Handlers -> HandlerRec]
         /\ handler'["boot"].pc \in {"showUrl", "exchange"}
         /\ handler'["boot"].todo = handler["boot"].todo
         /\ \A g \in Handlers \ {"boot"} : handler'[g] = handler[g]
<1> DEFINE p == IF handler["boot"].paste = None THEN "showUrl" ELSE "exchange"
<1>1. p \in PCs /\ p \in {"showUrl", "exchange"}
  BY DEF PCs
<1>2. stored.verifier \in Verifiers \cup {None}
  BY DEF TypeOK, StoredRec
<1>3. handler' = [handler EXCEPT !["boot"].pc = p, !["boot"].login = None,
                                !["boot"].verifier = stored.verifier]
  BY DEF NoTokens
<1> HIDE DEF p
<1> QED
  BY <1>1, <1>2, <1>3, HandlersKnown DEF TypeOK, HandlerRec

--------------------------------------------------------------------------------
(* The writes each step leaves to make *)

LEMMA TodoTyped ==
  /\ <<>> \in Seq(Writes)
  /\ \A b \in BOOLEAN : <<<<"connection", b>>>> \in Seq(Writes)
  /\ <<<<"connection", TRUE>>, <<"status", "connected">>>> \in Seq(Writes)
  /\ <<<<"redirect", None>>, <<"verifier", None>>, <<"connection", FALSE>>,
       <<"status", "auth_error">>>> \in Seq(Writes)
  /\ <<<<"redirect", None>>, <<"verifier", None>>, <<"loginUrl", None>>>>
       \in Seq(Writes)
  /\ \A v \in Verifiers : /\ LoginUrlWrites(v) \in Seq(Writes)
                          /\ <<<<"verifier", v>>>> \in Seq(Writes)
<1>1. \A w1, w2, w3, w4 \in Writes :
        /\ <<w1>> \in Seq(Writes) /\ <<w1, w2>> \in Seq(Writes)
        /\ <<w1, w2, w3>> \in Seq(Writes) /\ <<w1, w2, w3, w4>> \in Seq(Writes)
  OBVIOUS
<1>2. \A s \in Statuses : <<"status", s>> \in Writes
  BY WritesTyped
<1>3. /\ <<"redirect", None>> \in Writes /\ <<"verifier", None>> \in Writes
      /\ <<"loginUrl", None>> \in Writes
      /\ \A b \in BOOLEAN : <<"connection", b>> \in Writes
      /\ \A v \in Verifiers : <<"loginUrl", v>> \in Writes /\ <<"verifier", v>> \in Writes
  BY WritesTyped
<1>4. /\ <<"status", "connected">> \in Writes /\ <<"status", "auth_error">> \in Writes
      /\ <<"status", "awaiting_login">> \in Writes
  BY <1>2 DEF Statuses
<1>5. <<>> \in Seq(Writes)
  OBVIOUS
<1>6. \A b \in BOOLEAN : <<<<"connection", b>>>> \in Seq(Writes)
  BY <1>1, <1>3
<1>7. <<<<"connection", TRUE>>, <<"status", "connected">>>> \in Seq(Writes)
  BY <1>1, <1>3, <1>4
<1>8. <<<<"redirect", None>>, <<"verifier", None>>, <<"connection", FALSE>>,
       <<"status", "auth_error">>>> \in Seq(Writes)
  BY <1>1, <1>3, <1>4
<1>9. <<<<"redirect", None>>, <<"verifier", None>>, <<"loginUrl", None>>>>
        \in Seq(Writes)
  BY <1>1, <1>3
<1>10. ASSUME NEW v \in Verifiers
       PROVE  LoginUrlWrites(v) \in Seq(Writes) /\ <<<<"verifier", v>>>> \in Seq(Writes)
  <2>1. /\ <<"loginUrl", v>> \in Writes /\ <<"verifier", v>> \in Writes
        /\ <<"connection", FALSE>> \in Writes
    BY <1>3
  <2> QED
    BY <2>1, <1>1, <1>4 DEF LoginUrlWrites
<1> QED
  BY <1>5, <1>6, <1>7, <1>8, <1>9, <1>10

\* Neither saveTokens nor resetLogin ever says that the adapter is connected.
LEMMA NeverConnects ==
  /\ ResetWrites \in Seq(Writes)
  /\ \A i \in 1..Len(ResetWrites) : ResetWrites[i] # <<"connection", TRUE>>
  /\ \A l \in Logins : \A i \in 1..Len(Save(l)) :
       Save(l)[i] # <<"connection", TRUE>>
<1>1. /\ <<"access", None>> \in Writes /\ <<"refresh", None>> \in Writes
      /\ <<"expires", None>> \in Writes /\ <<"verifier", None>> \in Writes
      /\ <<"loginUrl", None>> \in Writes /\ <<"connection", FALSE>> \in Writes
      /\ <<"redirect", None>> \in Writes /\ <<"status", "logged_out">> \in Writes
  BY WritesTyped DEF Statuses
<1>2. ResetWrites \in Seq(Writes)
  BY <1>1 DEF ResetWrites
<1>a. /\ \A k, x : k # "connection" => <<k, x>> # <<"connection", TRUE>>
      /\ <<"connection", FALSE>> # <<"connection", TRUE>>
  OBVIOUS
<1>3. \A i \in 1..Len(ResetWrites) : ResetWrites[i] # <<"connection", TRUE>>
  <2>1. Len(ResetWrites) = 8
    BY DEF ResetWrites
  <2>2. ASSUME NEW i \in 1..8 PROVE ResetWrites[i] # <<"connection", TRUE>>
    <3>1. i \in {1, 2, 3, 4, 5, 6, 7, 8}
      OBVIOUS
    <3>2. /\ ResetWrites[1] = <<"access", None>> /\ ResetWrites[2] = <<"refresh", None>>
          /\ ResetWrites[3] = <<"expires", None>> /\ ResetWrites[4] = <<"verifier", None>>
          /\ ResetWrites[5] = <<"loginUrl", None>>
          /\ ResetWrites[6] = <<"connection", FALSE>>
          /\ ResetWrites[7] = <<"status", "logged_out">>
          /\ ResetWrites[8] = <<"redirect", None>>
      BY DEF ResetWrites
    <3> QED
      BY <3>1, <3>2, <1>a
  <2> QED
    BY <2>1, <2>2
<1>4. ASSUME NEW l \in Logins, NEW i \in 1..Len(Save(l))
      PROVE  Save(l)[i] # <<"connection", TRUE>>
  <2>1. Len(Save(l)) = 4
    BY DEF Save
  <2>2. i \in {1, 2, 3, 4}
    BY <2>1
  <2>3. /\ Save(l)[1] = <<"access", l>> /\ Save(l)[2] = <<"refresh", l>>
        /\ Save(l)[3] = <<"expires", "future">> /\ Save(l)[4] = <<"status", "connected">>
    BY DEF Save
  <2> QED
    BY <2>2, <2>3, <1>a
<1> QED
  BY <1>2, <1>3, <1>4

\* The one write of a loop that ends.
Disconnects == <<<<"connection", FALSE>>>>

LEMMA DisconnectsOnly ==
  /\ Disconnects # <<>> /\ Head(Disconnects) = <<"connection", FALSE>>
  /\ Tail(Disconnects) = <<>>
  /\ \A i \in 1..Len(Disconnects) : Disconnects[i] # <<"connection", TRUE>>
<1>1. /\ Disconnects \in Seq(Writes) /\ Disconnects # <<>>
      /\ Len(Disconnects) = 1 /\ Disconnects[1] = <<"connection", FALSE>>
      /\ Head(Disconnects) = <<"connection", FALSE>>
  <2>1. Disconnects \in Seq(Writes)
    BY TodoTyped DEF Disconnects
  <2>2. \A w : /\ <<w>> # <<>> /\ Len(<<w>>) = 1
               /\ <<w>>[1] = w /\ Head(<<w>>) = w
    OBVIOUS
  <2> QED
    BY <2>1, <2>2 DEF Disconnects
<1>2. Tail(Disconnects) \in Seq(Writes) /\ Len(Tail(Disconnects)) = 0
  BY <1>1, HeadTailProperties
<1>3. Tail(Disconnects) = <<>>
  BY <1>2, EmptySeq
<1>4. <<"connection", FALSE>> # <<"connection", TRUE>>
  OBVIOUS
<1>5. ASSUME NEW i \in 1..Len(Disconnects) PROVE Disconnects[i] # <<"connection", TRUE>>
  <2>1. i = 1
    BY <1>1
  <2> QED
    BY <1>1, <1>4, <2>1
<1> QED
  BY <1>1, <1>3, <1>5

--------------------------------------------------------------------------------
(* The refresh loop *)

LEMMA InitInv == Init => TokenInv
<1> SUFFICES ASSUME Init PROVE TokenInv
  OBVIOUS
<1>1. \A h \in Handlers : handler[h] = Off /\ handler[h].todo = <<>>
                          /\ handler[h].pc = "off"
  BY DEF Init, Off
<1>2. TypeOK
  BY OffTyped DEF Init, TypeOK, StoredRec, Statuses
<1>3. RefreshAhead /\ BootOK /\ LoopOK
  BY <1>1, HandlersKnown DEF Init, RefreshAhead, BootOK, LoopOK, At, Up, LoggedInPCs
<1>4. OnlyBootConnects
  BY <1>1, HandlersKnown DEF OnlyBootConnects
<1> QED
  BY <1>2, <1>3, <1>4 DEF TokenInv

\* A step of onReady before the loop is armed.
LEMMA BootMoves ==
  ASSUME TokenInv, TypeOK', BootOK',
         handler["boot"].pc # "ready", handler'["boot"].pc # "ready",
         handler'["boot"].pc # "off" => handler["boot"].pc # "off",
         UNCHANGED armed,
         \A g \in Handlers \ {"boot"} : handler'[g] = handler[g]
  PROVE  TokenInv'
<1>1. handler'["renewal"] = handler["renewal"] /\ handler'["reset"] = handler["reset"]
  BY DEF Handlers
<1> QED
  BY <1>1 DEF TokenInv, RefreshAhead, LoopOK, OnlyBootConnects, At, Up

\* The process ends.
LEMMA DownInv ==
  ASSUME TokenInv, TypeOK', Down
  PROVE  TokenInv'
<1>1. \A h \in Handlers : handler'[h].pc = "off" /\ handler'[h].todo = <<>>
  BY DownEffect DEF Off
<1>2. RefreshAhead' /\ BootOK' /\ LoopOK'
  BY <1>1, DownEffect, HandlersKnown DEF RefreshAhead, BootOK, LoopOK, At, Up, LoggedInPCs
<1>3. OnlyBootConnects'
  BY <1>1, HandlersKnown DEF OnlyBootConnects
<1> QED
  BY <1>2, <1>3 DEF TokenInv

\* Everything but Bosch, the user's browser and the other data points is as
\* it was.
LEMMA LoopUntouched ==
  ASSUME TokenInv, TypeOK', UNCHANGED <<memory, armed, handler>>,
         stored'.connection => stored.connection
  PROVE  TokenInv'
  BY DEF TokenInv, RefreshAhead, BootOK, LoopOK, OnlyBootConnects, At, Up

\* A step of onReady that goes on to p, whatever it has put in memory: the two
\* forms such a step has.
LEMMA BootGoesOn ==
  ASSUME TokenInv, NEW p \in PCs \ {"off", "ready"}, NEW s \in Seq(Writes),
         Goto("boot", p, s), handler["boot"].pc \notin {"off", "ready"},
         p \in LoggedInPCs => memory' # None,
         p = "exchanged" => handler["boot"].login # None,
         memory' \in Logins \cup {None}, usable' \subseteq Verifiers,
         UNCHANGED <<stored, armed, accepted, code>>
  PROVE  TokenInv'
<1>1. TypeOK
  BY DEF TokenInv
<1>2. /\ handler' \in [Handlers -> HandlerRec] /\ handler'["boot"].pc = p
      /\ handler'["boot"].login = handler["boot"].login
      /\ \A g \in Handlers \ {"boot"} : handler'[g] = handler[g]
  BY <1>1, HandlersKnown, GotoEffect
<1>3. TypeOK'
  BY <1>1, <1>2 DEF TypeOK
<1>4. BootOK'
  BY <1>2 DEF BootOK
<1> QED
  BY <1>2, <1>3, <1>4, BootMoves

LEMMA BootEnters ==
  ASSUME TokenInv, NEW p \in PCs \ {"off", "ready"}, NEW s \in Seq(Writes),
         NEW l \in Logins \cup {None},
         Enter("boot", p, s, l), handler["boot"].pc \notin {"off", "ready"},
         p \in LoggedInPCs => memory' # None, p = "exchanged" => l # None,
         memory' \in Logins \cup {None},
         accepted' \subseteq Logins, usable' \subseteq Verifiers,
         UNCHANGED <<stored, armed, code>>
  PROVE  TokenInv'
<1>1. TypeOK
  BY DEF TokenInv
<1>2. /\ handler' \in [Handlers -> HandlerRec] /\ handler'["boot"].pc = p
      /\ handler'["boot"].login = l
      /\ \A g \in Handlers \ {"boot"} : handler'[g] = handler[g]
  BY <1>1, HandlersKnown, EnterEffect
<1>3. TypeOK'
  BY <1>1, <1>2 DEF TypeOK
<1>4. BootOK'
  BY <1>2 DEF BootOK
<1> QED
  BY <1>2, <1>3, <1>4, BootMoves

\* It falls back to the browser login.
LEMMA BootFallsBack ==
  ASSUME TokenInv, NoTokens, handler["boot"].pc \notin {"off", "ready"},
         UNCHANGED <<stored, memory, armed, accepted, usable, code>>
  PROVE  TokenInv'
<1>1. TypeOK
  BY DEF TokenInv
<1>2. /\ handler' \in [Handlers -> HandlerRec]
      /\ handler'["boot"].pc \in {"showUrl", "exchange"}
      /\ \A g \in Handlers \ {"boot"} : handler'[g] = handler[g]
  BY <1>1, NoTokensEffect
<1>3. TypeOK'
  BY <1>1, <1>2 DEF TypeOK
<1>4. BootOK'
  BY <1>2 DEF BootOK, LoggedInPCs
<1> QED
  BY <1>2, <1>3, <1>4, BootMoves

\* The steps of onReady, from its start until it has armed the loop.
LEMMA BootInv ==
  ASSUME TokenInv, Boot
  PROVE  TokenInv'
<1> USE HandlersKnown
<1>t. TypeOK /\ handler["boot"] \in HandlerRec
  BY DEF TokenInv, TypeOK
<1>l. handler["boot"].login \in Logins \cup {None}
  BY <1>t DEF HandlerRec
<1>u. stored.refresh \in Logins \cup {None} /\ stored.verifier \in Verifiers \cup {None}
  BY <1>t DEF TypeOK, StoredRec
<1>a. accepted \subseteq Logins /\ usable \subseteq Verifiers /\ memory \in Logins \cup {None}
  BY <1>t DEF TypeOK
<1>p. /\ {"discover", "rediscover", "silent", "exchanged", "showUrl", "waiting", "arm",
          "retry", "gaveUp"} \subseteq PCs \ {"off", "ready"}
      /\ {"silent", "exchanged", "showUrl", "waiting", "gaveUp"} \cap LoggedInPCs = {}
  BY DEF PCs, LoggedInPCs
<1>1. CASE Start
  <2>1. handler' \in [Handlers -> HandlerRec]
    <3>1. ASSUME NEW r \in HandlerRec, NEW v \in Verifiers \cup {None}
          PROVE  [r EXCEPT !.pc = "load", !.paste = v,
                           !.todo = <<<<"connection", FALSE>>>>] \in HandlerRec
      BY TodoTyped DEF HandlerRec, PCs
    <3>2. stored.redirect \in Verifiers \cup {None}
      BY <1>t DEF TypeOK, StoredRec
    <3> QED
      BY <1>1, <3>1, <3>2, OffTyped DEF Start
  <2>2. handler'["boot"].pc = "load"
    <3>1. ASSUME NEW r \in HandlerRec, NEW v, NEW s
          PROVE  [r EXCEPT !.pc = "load", !.paste = v, !.todo = s].pc = "load"
      BY DEF HandlerRec
    <3> QED
      BY <1>1, <3>1, OffTyped DEF Start
  <2>3. \A g \in {"renewal", "reset"} : handler'[g].pc = "idle" /\ handler'[g].todo = <<>>
    BY <1>1 DEF Start, Handlers, Idle, Off
  <2>4. TypeOK'
    BY <1>1, <1>t, <2>1 DEF Start, TypeOK, cloudVars
  <2>5. ~armed'
    BY <1>1 DEF Start, TokenInv, LoopOK, Up
  <2>6. RefreshAhead' /\ BootOK' /\ LoopOK'
    BY <2>2, <2>3, <2>5 DEF RefreshAhead, BootOK, LoopOK, At, Up, LoggedInPCs
  <2>7. OnlyBootConnects'
    BY <2>3 DEF OnlyBootConnects
  <2> QED
    BY <2>4, <2>6, <2>7 DEF TokenInv
<1>2. CASE Load
  <2>1. handler["boot"].pc = "load" /\ UNCHANGED <<stored, armed, accepted, usable, code>>
    BY <1>2 DEF Load, At, cloudVars
  <2>2. CASE /\ TokensValid /\ memory' = stored.refresh
             /\ Enter("boot", "discover", <<>>, stored.refresh)
    <3>1. memory' # None
      BY <2>2 DEF TokensValid
    <3> QED
      BY <1>a, <1>p, <1>u, <2>1, <2>2, <3>1, TodoTyped, BootEnters
  <2>3. CASE /\ Enter("boot", "silent", <<>>, stored.refresh)
             /\ UNCHANGED memory
    BY <1>a, <1>p, <1>u, <2>1, <2>3, TodoTyped, BootEnters
  <2>4. CASE NoTokens /\ UNCHANGED memory
    BY <2>1, <2>4, BootFallsBack
  <2> QED
    BY <1>2, <2>2, <2>3, <2>4 DEF Load
\* saveTokens, and discovery next.
<1>s. ASSUME NEW p \in {"discover", "rediscover"}, NEW s \in Seq(Writes),
             handler["boot"].pc \notin {"off", "ready"}, handler["boot"].login # None,
             memory' = handler["boot"].login, Goto("boot", p, Save(handler["boot"].login) \o s),
             UNCHANGED <<stored, armed, cloudVars, code>>
      PROVE  TokenInv'
  <2>1. Save(handler["boot"].login) \o s \in Seq(Writes)
    BY <1>s, <1>l, SaveTyped, ConcatProperties
  <2>2. UNCHANGED <<accepted, usable>>
    BY <1>s DEF cloudVars
  <2> QED
    BY <1>s, <1>a, <1>p, <1>l, <2>1, <2>2, BootGoesOn
\* A refresh answered, likewise.
<1>r. ASSUME NEW p \in {"discover", "rediscover"},
             handler["boot"].pc \notin {"off", "ready"},
             Refreshes(handler["boot"].login), Goto("boot", p, Save(handler["boot"].login)),
             UNCHANGED <<stored, armed, cloudVars, code>>
      PROVE  TokenInv'
  <2>1. handler["boot"].login \in Logins
    BY <1>r, <1>a DEF Refreshes
  <2>2. handler["boot"].login # None
    BY <2>1, NoneIsNoName
  <2>3. Save(handler["boot"].login) \o <<>> = Save(handler["boot"].login)
    BY <2>1, SaveTyped, ConcatEmptySeq
  <2> QED
    BY <1>r, <1>s, <2>2, <2>3, TodoTyped DEF Refreshes
<1>3. CASE SilentRefresh
  BY <1>3, <1>r DEF SilentRefresh, At
<1>4. CASE SilentRefreshFails
  BY <1>4, BootFallsBack DEF SilentRefreshFails, At, cloudVars
<1>5. CASE ShowLoginUrl
  <2>1. handler["boot"].pc = "showUrl" /\ UNCHANGED <<stored, memory, armed, accepted, code>>
    BY <1>5 DEF ShowLoginUrl, At
  <2>2. PICK s \in Seq(Writes) : Goto("boot", "waiting", s) /\ usable' \subseteq Verifiers
    <3>1. CASE /\ stored.verifier # None
               /\ Goto("boot", "waiting", LoginUrlWrites(stored.verifier))
               /\ UNCHANGED usable
      BY <1>a, <1>u, <3>1, TodoTyped
    <3>2. CASE \E v \in UnusedVerifiers :
                  /\ usable' = usable \ {v}
                  /\ Goto("boot", "waiting", <<<<"verifier", v>>>> \o LoginUrlWrites(v))
      <4>1. PICK v \in UnusedVerifiers :
                  /\ usable' = usable \ {v}
                  /\ Goto("boot", "waiting", <<<<"verifier", v>>>> \o LoginUrlWrites(v))
        BY <3>2
      <4>2. <<<<"verifier", v>>>> \o LoginUrlWrites(v) \in Seq(Writes)
        BY TodoTyped, ConcatProperties DEF UnusedVerifiers
      <4> QED
        BY <1>a, <4>1, <4>2
    <3> QED
      BY <1>5, <3>1, <3>2 DEF ShowLoginUrl
  <2> QED
    BY <1>a, <1>p, <2>1, <2>2, BootGoesOn
<1>6. CASE RedeemCode
  <2>1. handler["boot"].pc = "exchange" /\ UNCHANGED <<stored, memory, armed, code>>
    BY <1>6 DEF RedeemCode, At
  <2>2. PICK l \in Logins : /\ accepted' = (accepted \ UnusedLogins) \cup {l}
                            /\ Enter("boot", "exchanged", <<>>, l)
    BY <1>6 DEF RedeemCode, UnusedLogins
  <2>3. usable' \subseteq Verifiers /\ accepted' \subseteq Logins
    BY <1>6, <1>a, <2>2 DEF RedeemCode
  <2>4. l # None
    BY NoneIsNoName
  <2> QED
    BY <1>a, <1>p, <2>1, <2>2, <2>3, <2>4, TodoTyped, BootEnters
<1>7. CASE LoggedIn
  <2>1. handler["boot"].pc = "exchanged"
    BY <1>7 DEF LoggedIn, At
  <2>2. handler["boot"].login # None
    BY <2>1 DEF TokenInv, BootOK
  <2> QED
    BY <1>7, <1>s, <2>1, <2>2, TodoTyped DEF LoggedIn
<1>8. CASE LoginFails
  BY <1>8, <1>a, <1>p, TodoTyped, BootEnters DEF LoginFails, At, cloudVars
<1>9. CASE Discovered
  <2>1. handler["boot"].pc \in {"discover", "rediscover"}
    BY <1>9 DEF Discovered, At
  <2>2. memory # None
    BY <2>1 DEF TokenInv, BootOK, LoggedInPCs
  <2> QED
    BY <1>9, <1>a, <1>p, <2>1, <2>2, TodoTyped, BootGoesOn DEF Discovered, cloudVars
<1>10. CASE DiscoveryRejected
  <2>1. handler["boot"].pc = "discover"
    BY <1>10 DEF DiscoveryRejected, At
  <2>2. memory # None
    BY <2>1 DEF TokenInv, BootOK, LoggedInPCs
  <2> QED
    BY <1>10, <1>a, <1>p, <2>1, <2>2, TodoTyped, BootGoesOn DEF DiscoveryRejected, cloudVars
<1>11. CASE RetryRefresh
  BY <1>11, <1>r DEF RetryRefresh, At
<1>12. CASE DiscoveryFails
  BY <1>12, <1>a, <1>p, TodoTyped, BootEnters DEF DiscoveryFails, At, cloudVars
<1>13. CASE ArmRefresh
  <2>1. handler["boot"].pc = "arm" /\ armed' = TRUE
        /\ UNCHANGED <<stored, memory, accepted, usable, code>>
    BY <1>13 DEF ArmRefresh, At, cloudVars
  <2>2. "ready" \in PCs
    BY DEF PCs
  <2>3. /\ handler' \in [Handlers -> HandlerRec] /\ handler'["boot"].pc = "ready"
        /\ handler'["boot"].todo = <<>>
        /\ \A g \in Handlers \ {"boot"} : handler'[g] = handler[g]
    BY <1>13, <1>t, <2>2, TodoTyped, EnterEffect DEF ArmRefresh
  <2>4. handler'["renewal"] = handler["renewal"] /\ handler'["reset"] = handler["reset"]
    BY <2>3 DEF Handlers
  <2>5. TypeOK'
    BY <1>t, <2>1, <2>3 DEF TypeOK
  <2>6. memory # None /\ At("renewal", "idle")
    BY <2>1 DEF TokenInv, BootOK, LoopOK, LoggedInPCs, Up
  <2>7. RefreshAhead' /\ BootOK' /\ LoopOK'
    BY <2>1, <2>3, <2>4, <2>6 DEF RefreshAhead, BootOK, LoopOK, At, Up
  <2>8. OnlyBootConnects'
    BY <2>4 DEF TokenInv, OnlyBootConnects
  <2> QED
    BY <2>5, <2>7, <2>8 DEF TokenInv
<1> QED
  BY <1>1, <1>2, <1>3, <1>4, <1>5, <1>6, <1>7, <1>8, <1>9, <1>10, <1>11, <1>12,
     <1>13 DEF Boot

\* The refresh loop itself.
LEMMA RenewalInv ==
  ASSUME TokenInv, Renewal
  PROVE  TokenInv'
<1> USE HandlersKnown
<1>t. TypeOK /\ handler["renewal"] \in HandlerRec
  BY DEF TokenInv, TypeOK
<1>l. handler["renewal"].login \in Logins \cup {None} /\ memory \in Logins \cup {None}
  BY <1>t DEF HandlerRec, TypeOK
<1>p. {"idle", "renewing", "rearm"} \subseteq PCs
  BY DEF PCs
\* While the loop runs, the boot has armed it.
<1>b. armed \/ handler["renewal"].pc \in {"renewing", "rearm"} =>
        /\ handler["boot"].pc = "ready" /\ handler["boot"].todo = <<>>
        /\ memory # None /\ Up
  BY DEF TokenInv, BootOK, LoopOK, LoggedInPCs, At, Up
\* What every step of the loop has to show.
<1>g. ASSUME armed \/ handler["renewal"].pc \in {"renewing", "rearm"}, TypeOK',
             \A g \in Handlers \ {"renewal"} : handler'[g] = handler[g],
             handler'["renewal"].pc \in {"idle", "renewing", "rearm"},
             handler'["renewal"].pc = "idle" =>
               /\ handler'["renewal"].todo \in {<<>>, <<<<"connection", FALSE>>>>}
               /\ handler'["renewal"].todo = <<>> => armed',
             armed' => At("renewal", "idle")', memory' # None,
             \A i \in 1..Len(handler'["renewal"].todo) :
               handler'["renewal"].todo[i] # <<"connection", TRUE>>
      PROVE  TokenInv'
  <2>1. handler'["boot"] = handler["boot"] /\ handler'["reset"] = handler["reset"]
    BY <1>g DEF Handlers
  <2>2. RefreshAhead' /\ BootOK' /\ LoopOK'
    BY <1>g, <1>b, <2>1 DEF RefreshAhead, BootOK, LoopOK, At, Up
  <2>3. OnlyBootConnects'
    BY <1>g, <2>1 DEF TokenInv, OnlyBootConnects
  <2> QED
    BY <1>g, <2>2, <2>3 DEF TokenInv
<1>1. CASE RenewalFires
  <2>1. Enter("renewal", "renewing", <<>>, memory) /\ armed /\ armed' = FALSE
        /\ UNCHANGED <<stored, memory, accepted, usable, code>>
    BY <1>1, <1>b DEF RenewalFires, cloudVars
  <2>2. /\ handler' \in [Handlers -> HandlerRec] /\ handler'["renewal"].pc = "renewing"
        /\ handler'["renewal"].todo = <<>>
        /\ \A g \in Handlers \ {"renewal"} : handler'[g] = handler[g]
    BY <1>t, <1>l, <1>p, <2>1, TodoTyped, EnterEffect
  <2>3. TypeOK'
    BY <1>t, <2>1, <2>2 DEF TypeOK
  <2> QED
    BY <1>b, <1>g, <2>1, <2>2, <2>3
<1>2. CASE Renewed
  <2>1. /\ handler["renewal"].pc = "renewing"
        /\ handler["renewal"].login \in Logins /\ memory' = handler["renewal"].login
        /\ Goto("renewal", "rearm", Save(handler["renewal"].login))
        /\ UNCHANGED <<stored, armed, accepted, usable, code>>
    BY <1>2, <1>t DEF Renewed, At, Refreshes, TypeOK, cloudVars
  <2>2. /\ handler' \in [Handlers -> HandlerRec] /\ handler'["renewal"].pc = "rearm"
        /\ handler'["renewal"].todo = Save(handler["renewal"].login)
        /\ \A g \in Handlers \ {"renewal"} : handler'[g] = handler[g]
    BY <1>t, <1>p, <2>1, SaveTyped, GotoEffect
  <2>3. TypeOK'
    BY <1>t, <2>1, <2>2 DEF TypeOK
  <2>4. ~armed' /\ memory' # None
    BY <2>1, NoneIsNoName DEF TokenInv, RefreshAhead, At
  <2> QED
    BY <1>g, <2>1, <2>2, <2>3, <2>4, NeverConnects
<1>3. CASE Rearm \/ RenewalFails
  <2>1. /\ handler["renewal"].pc \in {"renewing", "rearm"} /\ armed' = TRUE
        /\ Enter("renewal", "idle", <<>>, None)
        /\ UNCHANGED <<stored, memory, accepted, usable, code>>
    BY <1>3 DEF Rearm, RenewalFails, At, cloudVars
  <2>2. /\ handler' \in [Handlers -> HandlerRec] /\ handler'["renewal"].pc = "idle"
        /\ handler'["renewal"].todo = <<>>
        /\ \A g \in Handlers \ {"renewal"} : handler'[g] = handler[g]
    BY <1>t, <1>p, <2>1, TodoTyped, EnterEffect
  <2>3. TypeOK'
    BY <1>t, <2>1, <2>2 DEF TypeOK
  <2> QED
    BY <1>b, <1>g, <2>1, <2>2, <2>3 DEF At
<1>4. CASE RenewalRejected
  <2>1. /\ handler["renewal"].pc = "renewing"
        /\ Enter("renewal", "idle", <<<<"connection", FALSE>>>>, None)
        /\ UNCHANGED <<stored, memory, armed, accepted, usable, code>>
    BY <1>4 DEF RenewalRejected, At, cloudVars
  <2>2. /\ handler' \in [Handlers -> HandlerRec] /\ handler'["renewal"].pc = "idle"
        /\ handler'["renewal"].todo = <<<<"connection", FALSE>>>>
        /\ \A g \in Handlers \ {"renewal"} : handler'[g] = handler[g]
    BY <1>t, <1>p, <2>1, TodoTyped, EnterEffect
  <2>3. TypeOK'
    BY <1>t, <2>1, <2>2 DEF TypeOK
  <2>4. ~armed'
    BY <2>1 DEF TokenInv, RefreshAhead, At
  <2>5. /\ handler'["renewal"].todo = Disconnects /\ handler'["renewal"].todo # <<>>
        /\ \A i \in 1..Len(handler'["renewal"].todo) :
             handler'["renewal"].todo[i] # <<"connection", TRUE>>
    BY <2>2, DisconnectsOnly DEF Disconnects
  <2> QED
    BY <1>b, <1>g, <2>1, <2>2, <2>3, <2>4, <2>5
<1> QED
  BY <1>1, <1>2, <1>3, <1>4 DEF Renewal

\* A write of whichever handler.
LEMMA WriteInv ==
  ASSUME TokenInv, NEW h \in Handlers, Write(h)
  PROVE  TokenInv'
<1> USE HandlersKnown
<1>t. TypeOK
  BY DEF TokenInv
<1>u. UNCHANGED <<memory, armed>>
  BY DEF Write
<1>w. /\ TypeOK' /\ handler'[h].pc = handler[h].pc
      /\ handler'[h].todo = Tail(handler[h].todo)
      /\ handler'[h].login = handler[h].login
      /\ \A g \in Handlers \ {h} : handler'[g] = handler[g]
      /\ handler[h].todo # <<>>
  BY <1>t, WriteEffect
<1>s. handler[h].todo \in Seq(Writes)
  BY <1>t DEF TypeOK, HandlerRec
\* The head and the tail of what h has to write.
<1>c. /\ Head(handler[h].todo) = handler[h].todo[1] /\ Len(handler[h].todo) >= 1
      /\ Len(handler'[h].todo) = Len(handler[h].todo) - 1
      /\ \A i \in 1..Len(handler'[h].todo) :
           handler'[h].todo[i] = handler[h].todo[i + 1] /\ i + 1 \in 1..Len(handler[h].todo)
  <2>1. \A s \in Seq(Writes) : s # <<>> =>
          /\ Head(s) = s[1] /\ Len(s) \in Nat /\ Len(s) >= 1
          /\ Len(Tail(s)) = Len(s) - 1 /\ \A i \in 1..Len(Tail(s)) : Tail(s)[i] = s[i + 1]
    BY HeadTailProperties, EmptySeq
  <2> QED
    BY <1>s, <1>w, <2>1
<1>n. h # "boot" => /\ stored'.connection => stored.connection
                    /\ \A i \in 1..Len(handler'[h].todo) :
                         handler'[h].todo[i] # <<"connection", TRUE>>
  <2> SUFFICES ASSUME h # "boot"
               PROVE  /\ stored'.connection => stored.connection
                      /\ \A i \in 1..Len(handler'[h].todo) :
                           handler'[h].todo[i] # <<"connection", TRUE>>
    OBVIOUS
  <2>1. \A i \in 1..Len(handler[h].todo) : handler[h].todo[i] # <<"connection", TRUE>>
    BY DEF TokenInv, OnlyBootConnects, Handlers
  <2>2. 1 \in 1..Len(handler[h].todo)
    BY <1>c, <1>s
  <2>3. stored'.connection => stored.connection
    BY <1>t, <1>c, <2>1, <2>2, WriteEffect
  <2> QED
    BY <1>c, <2>1, <2>3
<1>1. CASE h = "boot"
  <2>1. handler["boot"].pc # "ready" /\ handler'["boot"].pc # "ready"
    BY <1>1, <1>w DEF TokenInv, BootOK
  <2>2. BootOK'
    BY <1>1, <1>u, <1>w, <2>1 DEF TokenInv, BootOK
  <2> QED
    BY <1>1, <1>u, <1>w, <2>1, <2>2, BootMoves
<1>2. CASE h = "renewal"
  <2>1. handler'["boot"] = handler["boot"] /\ handler'["reset"] = handler["reset"]
    BY <1>2, <1>w DEF Handlers
  <2>2. ~armed
    BY <1>2, <1>w DEF TokenInv, RefreshAhead, At
  <2>3. handler["renewal"].pc = "idle" =>
          handler'["renewal"].todo = <<>> /\ ~stored'.connection
    <3> SUFFICES ASSUME handler["renewal"].pc = "idle"
                 PROVE  handler'["renewal"].todo = <<>> /\ ~stored'.connection
      OBVIOUS
    <3>1. handler[h].todo = Disconnects
      BY <1>2, <1>w DEF TokenInv, LoopOK, Disconnects
    <3> QED
      BY <1>2, <1>t, <1>w, <3>1, DisconnectsOnly, WriteEffect
  <2>4. RefreshAhead' /\ BootOK'
    BY <1>2, <1>n, <1>u, <1>w, <2>1, <2>2, <2>3 DEF TokenInv, RefreshAhead, BootOK, LoopOK, At
  <2>5. LoopOK'
    BY <1>2, <1>u, <1>w, <2>1, <2>2, <2>3 DEF TokenInv, LoopOK, At, Up
  <2>6. OnlyBootConnects'
    BY <1>2, <1>n, <2>1 DEF TokenInv, OnlyBootConnects
  <2> QED
    BY <1>w, <2>4, <2>5, <2>6 DEF TokenInv
<1>3. CASE h = "reset"
  <2>1. handler'["boot"] = handler["boot"] /\ handler'["renewal"] = handler["renewal"]
    BY <1>3, <1>w DEF Handlers
  <2>2. RefreshAhead' /\ BootOK' /\ LoopOK'
    BY <1>3, <1>n, <1>u, <2>1 DEF TokenInv, RefreshAhead, BootOK, LoopOK, At, Up
  <2>3. OnlyBootConnects'
    BY <1>3, <1>n, <2>1 DEF TokenInv, OnlyBootConnects
  <2> QED
    BY <1>w, <2>2, <2>3 DEF TokenInv
<1> QED
  BY <1>1, <1>2, <1>3 DEF Handlers

\* The rest: the reset, the end of the process, the user and the cloud.
LEMMA OthersInv ==
  ASSUME TokenInv, ResetDone \/ Environment
  PROVE  TokenInv'
<1> USE HandlersKnown
<1>t. TypeOK
  BY DEF TokenInv
<1>1. CASE ResetDone \/ Stop
  <2>1. TypeOK'
    BY <1>1, <1>t, DownEffect DEF ResetDone, Stop, TypeOK, cloudVars
  <2> QED
    BY <1>1, <2>1, DownInv DEF ResetDone, Stop
<1>2. CASE UserPastes
  <2>1. stored' \in StoredRec
    BY <1>2, <1>t DEF UserPastes, TypeOK, StoredRec
  <2>2. TypeOK'
    BY <1>2, <1>t, <2>1, DownEffect DEF UserPastes, TypeOK, cloudVars
  <2> QED
    BY <1>2, <2>2, DownInv DEF UserPastes
<1>3. CASE ResetLogin
  <2>1. Goto("reset", "resetting", ResetWrites) /\ code' = None
        /\ UNCHANGED <<stored, memory, armed, accepted, usable>>
    BY <1>3 DEF ResetLogin, ResetWrites, cloudVars
  <2>2. "resetting" \in PCs
    BY DEF PCs
  <2>3. /\ handler' \in [Handlers -> HandlerRec] /\ handler'["reset"].todo = ResetWrites
        /\ \A g \in Handlers \ {"reset"} : handler'[g] = handler[g]
    BY <1>t, <2>1, <2>2, NeverConnects, GotoEffect
  <2>4. handler'["boot"] = handler["boot"] /\ handler'["renewal"] = handler["renewal"]
    BY <2>3 DEF Handlers
  <2>5. TypeOK'
    BY <1>t, <2>1, <2>3 DEF TypeOK
  <2>6. RefreshAhead' /\ BootOK' /\ LoopOK'
    BY <2>1, <2>4 DEF TokenInv, RefreshAhead, BootOK, LoopOK, At, Up
  <2>7. OnlyBootConnects'
    BY <2>3, <2>4, NeverConnects DEF TokenInv, OnlyBootConnects
  <2> QED
    BY <2>5, <2>6, <2>7 DEF TokenInv
<1>4. CASE UserLogsIn
  <2>1. TypeOK'
    BY <1>4, <1>t DEF UserLogsIn, TypeOK, StoredRec
  <2> QED
    BY <1>4, <2>1, LoopUntouched DEF UserLogsIn
<1>5. CASE Expire
  <2>1. /\ stored' \in StoredRec /\ stored'.connection = stored.connection
        /\ UNCHANGED <<memory, armed, handler, accepted, usable, code>>
    BY <1>5, <1>t DEF Expire, TypeOK, StoredRec, cloudVars
  <2>2. TypeOK'
    BY <1>t, <2>1 DEF TypeOK
  <2> QED
    BY <2>1, <2>2, LoopUntouched
<1>6. CASE Revoke
  <2>1. TypeOK'
    BY <1>6, <1>t DEF Revoke, TypeOK
  <2> QED
    BY <1>6, <2>1, LoopUntouched DEF Revoke
<1> QED
  BY <1>1, <1>2, <1>3, <1>4, <1>5, <1>6 DEF Environment

\* TokenInv is inductive: from the first start on, whatever is stopped, lost or
\* revoked, and whichever handlers write at the same time.
THEOREM TokenInvariant == Spec => []TokenInv
<1>1. ASSUME TokenInv, [Next]_vars PROVE TokenInv'
  <2>1. CASE UNCHANGED vars
    <3>1. TypeOK'
      BY <1>1, <2>1 DEF vars, TokenInv, TypeOK, cloudVars
    <3> QED
      BY <1>1, <2>1, <3>1, LoopUntouched DEF vars
  <2>2. CASE \E h \in Handlers : Write(h)
    BY <1>1, <2>2, WriteInv
  <2>3. CASE Boot
    BY <1>1, <2>3, BootInv
  <2>4. CASE Renewal
    BY <1>1, <2>4, RenewalInv
  <2>5. CASE ResetDone \/ Environment
    BY <1>1, <2>5, OthersInv
  <2> QED
    BY <1>1, <2>1, <2>2, <2>3, <2>4, <2>5 DEF Next
<1> QED
  BY InitInv, <1>1, PTL DEF Spec

\* An adapter that has started and says it is connected is going to renew its
\* tokens (scheduleTokenRefresh), for any number of logins.
THEOREM RefreshIsAhead == Spec => []RefreshAhead
<1>1. TokenInv => RefreshAhead
  BY DEF TokenInv
<1> QED
  BY <1>1, TokenInvariant, PTL
================================================================================
