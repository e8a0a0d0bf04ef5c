------------------------- MODULE TokenDurabilityProofs -------------------------
(***************************************************************************)
(* What the data points of TokenLifecycle still say when the process is    *)
(* stopped between two of its writes, and what a restart finds: theorems   *)
(* about the tokens, the login URL and the PKCE verifier, for every set of *)
(* logins and verifiers.                                                   *)
(***************************************************************************)
EXTENDS TokenLifecycleProofs

--------------------------------------------------------------------------------
(* What a sequence of writes does to one data point *)

Lacks(s, k)    == \A i \in 1..Len(s) : s[i][1] # k
Only(s, k, x)  == \A i \in 1..Len(s) : s[i][1] = k => s[i][2] = x
Lasts(s, k, x) == \E i \in 1..Len(s) :
                    /\ s[i] = <<k, x>>
                    /\ \A j \in 1..Len(s) : j > i => s[j][1] # k

\* The first write is made, the others are left.
LEMMA OneWritten ==
  ASSUME NEW s \in Seq(Writes), s # <<>>, NEW k, NEW x
  PROVE  /\ Lacks(s, k) => Lacks(Tail(s), k) /\ Head(s)[1] # k
         /\ Only(s, k, x) => /\ Only(Tail(s), k, x)
                             /\ Head(s)[1] = k => Head(s)[2] = x
         /\ Lasts(s, k, x) => \/ Lasts(Tail(s), k, x)
                              \/ Head(s) = <<k, x>> /\ Lacks(Tail(s), k)
<1>1. /\ Head(s) = s[1] /\ Len(s) \in Nat /\ Len(s) >= 1
      /\ Tail(s) \in Seq(Writes) /\ Len(Tail(s)) = Len(s) - 1
      /\ \A i \in 1..Len(Tail(s)) : Tail(s)[i] = s[i + 1]
  BY HeadTailProperties, EmptySeq
<1>2. 1 \in 1..Len(s)
  BY <1>1
<1>3. \A i \in 1..Len(Tail(s)) : i + 1 \in 1..Len(s)
  BY <1>1
<1>4. Lacks(s, k) => Lacks(Tail(s), k) /\ Head(s)[1] # k
  BY <1>1, <1>2, <1>3 DEF Lacks
<1>5. Only(s, k, x) => /\ Only(Tail(s), k, x)
                       /\ Head(s)[1] = k => Head(s)[2] = x
  BY <1>1, <1>2, <1>3 DEF Only
<1>6. ASSUME Lasts(s, k, x)
      PROVE  \/ Lasts(Tail(s), k, x)
             \/ Head(s) = <<k, x>> /\ Lacks(Tail(s), k)
  <2>1. PICK i \in 1..Len(s) : /\ s[i] = <<k, x>>
                               /\ \A j \in 1..Len(s) : j > i => s[j][1] # k
    BY <1>6 DEF Lasts
  <2>2. CASE i = 1
    <3>1. \A j \in 1..Len(Tail(s)) : j + 1 > i
      BY <2>2
    <3> QED
      BY <1>1, <1>3, <2>1, <2>2, <3>1 DEF Lacks
  <2>3. CASE i # 1
    <3>1. i - 1 \in 1..Len(Tail(s)) /\ (i - 1) + 1 = i
      BY <1>1, <2>3
    <3>2. Tail(s)[i - 1] = <<k, x>>
      BY <1>1, <2>1, <3>1
    <3>3. \A j \in 1..Len(Tail(s)) : j > i - 1 => Tail(s)[j][1] # k
      BY <1>1, <1>3, <2>1
    <3> QED
      BY <3>1, <3>2, <3>3 DEF Lasts
  <2> QED
    BY <2>2, <2>3
<1> QED
  BY <1>4, <1>5, <1>6

LEMMA NothingWritten ==
  ASSUME NEW k, NEW x
  PROVE  Lacks(<<>>, k) /\ Only(<<>>, k, x) /\ ~Lasts(<<>>, k, x)
  BY DEF Lacks, Only, Lasts

LEMMA LacksOnly ==
  ASSUME NEW s, NEW k, NEW x
  PROVE  /\ Lacks(s, k) => Only(s, k, x)
         /\ Lacks(s, k) => ~Lasts(s, k, x)
  BY DEF Lacks, Only, Lasts


LEMMA BothWritten ==
  ASSUME NEW s \in Seq(Writes), NEW t \in Seq(Writes), NEW k, NEW x
  PROVE  /\ Lacks(s, k) /\ Lacks(t, k) => Lacks(s \o t, k)
         /\ Only(s, k, x) /\ Only(t, k, x) => Only(s \o t, k, x)
         /\ Lasts(s, k, x) /\ Lacks(t, k) => Lasts(s \o t, k, x)
         /\ Lasts(t, k, x) => Lasts(s \o t, k, x)
<1>1. /\ Len(s) \in Nat /\ Len(t) \in Nat /\ Len(s \o t) = Len(s) + Len(t)
      /\ \A i \in 1..(Len(s) + Len(t)) :
           (s \o t)[i] = IF i <= Len(s) THEN s[i] ELSE t[i - Len(s)]
  BY ConcatProperties, LenProperties
<1>2. \A i \in 1..Len(s \o t) :
        /\ i <= Len(s) => i \in 1..Len(s) /\ (s \o t)[i] = s[i]
        /\ i > Len(s) => /\ i - Len(s) \in 1..Len(t)
                         /\ (s \o t)[i] = t[i - Len(s)]
        /\ i <= Len(s) \/ i > Len(s)
  BY <1>1
<1>3. \A i \in 1..Len(s) : i \in 1..Len(s \o t) /\ (s \o t)[i] = s[i]
  BY <1>1
<1>4. \A i \in 1..Len(t) : /\ i + Len(s) \in 1..Len(s \o t)
                           /\ (s \o t)[i + Len(s)] = t[i]
  BY <1>1
<1>5. Lacks(s, k) /\ Lacks(t, k) => Lacks(s \o t, k)
  BY <1>2 DEF Lacks
<1>6. Only(s, k, x) /\ Only(t, k, x) => Only(s \o t, k, x)
  BY <1>2 DEF Only
<1>7. ASSUME Lasts(s, k, x), Lacks(t, k) PROVE Lasts(s \o t, k, x)
  <2>1. PICK i \in 1..Len(s) : /\ s[i] = <<k, x>>
                               /\ \A j \in 1..Len(s) : j > i => s[j][1] # k
    BY <1>7 DEF Lasts
  <2>2. \A j \in 1..Len(s \o t) : j > i => (s \o t)[j][1] # k
    BY <1>2, <1>7, <2>1 DEF Lacks
  <2> QED
    BY <1>3, <2>1, <2>2 DEF Lasts
<1>8. ASSUME Lasts(t, k, x) PROVE Lasts(s \o t, k, x)
  <2>1. PICK i \in 1..Len(t) : /\ t[i] = <<k, x>>
                               /\ \A j \in 1..Len(t) : j > i => t[j][1] # k
    BY <1>8 DEF Lasts
  <2>2. ASSUME NEW j \in 1..Len(s \o t), j > i + Len(s) PROVE (s \o t)[j][1] # k
    <3>1. j > Len(s) /\ j - Len(s) > i
      BY <1>1, <2>2
    <3> QED
      BY <1>2, <2>1, <3>1
  <2> QED
    BY <1>4, <2>1, <2>2 DEF Lasts
<1> QED
  BY <1>5, <1>6, <1>7, <1>8

--------------------------------------------------------------------------------
(* The writes of each handler *)

\* saveTokens stores the refresh token, and nothing of the browser login.
LEMMA SaveWrites ==
  ASSUME NEW l \in Logins
  PROVE  /\ Lasts(Save(l), "refresh", l) /\ Only(Save(l), "refresh", l)
         /\ \A k \in {"verifier", "loginUrl", "redirect"} : Lacks(Save(l), k)
<1> DEFINE s == Save(l)
<1>1. /\ Len(s) = 4 /\ s[1] = <<"access", l>> /\ s[2] = <<"refresh", l>>
      /\ s[3] = <<"expires", "future">> /\ s[4] = <<"status", "connected">>
  BY DEF Save
<1> HIDE DEF s
<1>2. 1..Len(s) = {1, 2, 3, 4}
  BY <1>1
<1>3. Lasts(s, "refresh", l)
  BY <1>1 DEF Lasts
<1>4. Only(s, "refresh", l)
  BY <1>1, <1>2 DEF Only
<1>5. \A k \in {"verifier", "loginUrl", "redirect"} : Lacks(s, k)
  BY <1>1, <1>2 DEF Lacks
<1> QED
  BY <1>3, <1>4, <1>5 DEF s

\* handleRedirectPaste saves them, then clears what led to them.
Clears == <<<<"redirect", None>>, <<"verifier", None>>, <<"loginUrl", None>>>>

LEMMA LoginWrites ==
  ASSUME NEW l \in Logins
  PROVE  /\ Save(l) \o Clears \in Seq(Writes)
         /\ Lasts(Save(l) \o Clears, "refresh", l)
         /\ Only(Save(l) \o Clears, "redirect", None)
         /\ Only(Save(l) \o Clears, "verifier", None)
<1>1. /\ Len(Clears) = 3 /\ Clears[1] = <<"redirect", None>>
      /\ Clears[2] = <<"verifier", None>> /\ Clears[3] = <<"loginUrl", None>>
  BY DEF Clears
<1>2. Clears \in Seq(Writes) /\ Save(l) \in Seq(Writes)
  BY TodoTyped, SaveTyped DEF Clears
<1>3. Lacks(Clears, "refresh")
  BY <1>1 DEF Lacks
<1>4. Only(Clears, "redirect", None) /\ Only(Clears, "verifier", None)
  BY <1>1 DEF Only
<1>5. Save(l) \o Clears \in Seq(Writes)
  BY <1>2, ConcatProperties
<1>6. Only(Save(l), "redirect", None) /\ Only(Save(l), "verifier", None)
  BY SaveWrites, LacksOnly
<1> QED
  BY <1>2, <1>3, <1>4, <1>5, <1>6, SaveWrites, BothWritten

\* A login that failed: the paste and the verifier are dropped.
FailWrites == <<<<"redirect", None>>, <<"verifier", None>>,
                <<"connection", FALSE>>, <<"status", "auth_error">>>>

LEMMA FailureWrites ==
  /\ FailWrites \in Seq(Writes)
  /\ Lasts(FailWrites, "redirect", None) /\ Only(FailWrites, "redirect", None)
  /\ Only(FailWrites, "verifier", None) /\ Lacks(FailWrites, "refresh")
<1> DEFINE s == FailWrites
<1>1. /\ Len(s) = 4 /\ s[1] = <<"redirect", None>> /\ s[2] = <<"verifier", None>>
      /\ s[3] = <<"connection", FALSE>> /\ s[4] = <<"status", "auth_error">>
  BY DEF FailWrites
<1>2. s \in Seq(Writes)
  BY TodoTyped DEF FailWrites
<1> HIDE DEF s
<1>3. 1..Len(s) = {1, 2, 3, 4}
  BY <1>1
<1>4. Lasts(s, "redirect", None)
  BY <1>1 DEF Lasts
<1>5. Only(s, "redirect", None) /\ Only(s, "verifier", None)
  BY <1>1, <1>3 DEF Only
<1>6. Lacks(s, "refresh")
  BY <1>1, <1>3 DEF Lacks
<1> QED
  BY <1>2, <1>4, <1>5, <1>6 DEF s

\* showLoginUrl: the URL of a verifier, the status and the connection; before
\* them the verifier, where it is a new one.
LEMMA UrlWrites ==
  ASSUME NEW v \in Verifiers
  PROVE  LET s == LoginUrlWrites(v)
             n == <<<<"verifier", v>>>> \o s
         IN /\ s \in Seq(Writes) /\ n \in Seq(Writes)
            /\ \A t \in {s, n} :
                 /\ Lasts(t, "loginUrl", v)
                 /\ Lasts(t, "status", "awaiting_login")
                 /\ Lasts(t, "connection", FALSE)
                 /\ Lacks(t, "refresh") /\ Lacks(t, "redirect")
            /\ Lacks(s, "verifier") /\ Lasts(n, "verifier", v)
<1> DEFINE s == LoginUrlWrites(v)
           f == <<<<"verifier", v>>>>
<1>1. /\ Len(s) = 3 /\ s[1] = <<"loginUrl", v>>
      /\ s[2] = <<"status", "awaiting_login">> /\ s[3] = <<"connection", FALSE>>
  BY DEF LoginUrlWrites
<1>2. Len(f) = 1 /\ f[1] = <<"verifier", v>>
  OBVIOUS
<1>3. s \in Seq(Writes) /\ f \in Seq(Writes)
  BY TodoTyped
<1> HIDE DEF s, f
<1>4. 1..Len(s) = {1, 2, 3} /\ 1..Len(f) = {1}
  BY <1>1, <1>2
<1>5. /\ Lasts(s, "loginUrl", v) /\ Lasts(s, "status", "awaiting_login")
      /\ Lasts(s, "connection", FALSE)
  <2>1. Lasts(s, "loginUrl", v)
    BY <1>1 DEF Lasts
  <2>2. Lasts(s, "status", "awaiting_login")
    BY <1>1 DEF Lasts
  <2>3. s[3] = <<"connection", FALSE>> /\ \A j \in 1..Len(s) : ~(j > 3)
    BY <1>1, <1>4
  <2>4. Lasts(s, "connection", FALSE)
    BY <1>4, <2>3 DEF Lasts
  <2> QED
    BY <2>1, <2>2, <2>4
<1>6. Lacks(s, "refresh") /\ Lacks(s, "redirect") /\ Lacks(s, "verifier")
  BY <1>1, <1>4 DEF Lacks
<1>7. Lacks(f, "refresh") /\ Lacks(f, "redirect")
  BY <1>2, <1>4 DEF Lacks
<1>8. Lasts(f, "verifier", v)
  BY <1>2 DEF Lasts
<1>9. f \o s \in Seq(Writes)
  BY <1>3, ConcatProperties
<1>10. /\ Lasts(f \o s, "loginUrl", v) /\ Lasts(f \o s, "status", "awaiting_login")
       /\ Lasts(f \o s, "connection", FALSE) /\ Lasts(f \o s, "verifier", v)
       /\ Lacks(f \o s, "refresh") /\ Lacks(f \o s, "redirect")
  BY <1>3, <1>5, <1>6, <1>7, <1>8, BothWritten
<1> QED
  BY <1>3, <1>5, <1>6, <1>9, <1>10 DEF s, f

\* The others write data points that do not survive in what follows.
LEMMA PlainWrites ==
  ASSUME NEW k \in {"refresh", "verifier", "redirect"}
  PROVE  /\ \A b \in BOOLEAN : Lacks(<<<<"connection", b>>>>, k)
         /\ Lacks(<<<<"connection", TRUE>>, <<"status", "connected">>>>, k)
<1>1. ASSUME NEW b \in BOOLEAN PROVE Lacks(<<<<"connection", b>>>>, k)
  BY DEF Lacks
<1> DEFINE s == <<<<"connection", TRUE>>, <<"status", "connected">>>>
<1>2. Len(s) = 2 /\ s[1] = <<"connection", TRUE>> /\ s[2] = <<"status", "connected">>
  OBVIOUS
<1> HIDE DEF s
<1>3. 1..Len(s) = {1, 2}
  BY <1>2
<1>4. Lacks(s, k)
  BY <1>2, <1>3 DEF Lacks
<1> QED
  BY <1>1, <1>4 DEF s

LEMMA ResetForgets ==
  Only(ResetWrites, "redirect", None) /\ Only(ResetWrites, "verifier", None)
<1> DEFINE s == ResetWrites
<1>1. /\ Len(s) = 8 /\ s[1] = <<"access", None>> /\ s[2] = <<"refresh", None>>
      /\ s[3] = <<"expires", None>> /\ s[4] = <<"verifier", None>>
      /\ s[5] = <<"loginUrl", None>> /\ s[6] = <<"connection", FALSE>>
      /\ s[7] = <<"status", "logged_out">> /\ s[8] = <<"redirect", None>>
  BY DEF ResetWrites
<1> HIDE DEF s
<1>2. 1..Len(s) = {1, 2, 3, 4, 5, 6, 7, 8}
  BY <1>1
<1>3. Only(s, "redirect", None) /\ Only(s, "verifier", None)
  BY <1>1, <1>2 DEF Only
<1> QED
  BY <1>3 DEF s

--------------------------------------------------------------------------------
(***************************************************************************)
(* The inductive invariant.  A data point is as good as written once a     *)
(* write of the boot is under way to it (Will): the boot goes on only when *)
(* its writes are made, so this is what makes its next step see its own    *)
(* earlier ones, whoever else writes meanwhile.                            *)
(***************************************************************************)
Resetting == handler["reset"].pc = "resetting"

Will(k, x) ==
  \/ Lasts(handler["boot"].todo, k, x)
  \/ stored[k] = x /\ Lacks(handler["boot"].todo, k)

\* What the boot may have left to write at each of its awaits.
BootWrites ==
  LET b == handler["boot"]
  IN /\ b.pc \in {"off", "silent", "exchange", "exchanged", "retry", "ready"}
          => b.todo = <<>>
     /\ Only(b.todo, "redirect", None)
     /\ b.pc # "waiting" => Only(b.todo, "verifier", None)
     /\ b.pc \in {"load", "waiting"} => Lacks(b.todo, "redirect")
     /\ b.pc = "load" => Lacks(b.todo, "verifier")
     /\ b.pc \in {"load", "showUrl", "waiting"} => Lacks(b.todo, "refresh")

\* The refresh loop writes what is in memory; a reset forgets.
OtherWrites ==
  LET r == handler["renewal"]
  IN /\ r.pc = "off" => r.todo = <<>>
     /\ Only(r.todo, "refresh", memory)
     /\ Lacks(r.todo, "verifier") /\ Lacks(r.todo, "redirect")
     /\ r.pc \in {"renewing", "rearm"} => r.login = memory
     /\ Only(handler["reset"].todo, "redirect", None)
     /\ Only(handler["reset"].todo, "verifier", None)
     /\ ~Resetting => handler["reset"].todo = <<>>
     /\ Resetting => code = None

\* The tokens the boot works with, and those a restart would find.
TokensKept ==
  ~Resetting =>
    /\ handler["boot"].pc \in LoggedInPCs => Will("refresh", memory)
    /\ handler["boot"].pc = "silent" => handler["boot"].login = stored.refresh

\* The login URL, and the verifier it was made of.
UrlKept ==
  ~Resetting =>
    /\ handler["boot"].pc = "waiting" =>
         \E v \in Verifiers : /\ Will("loginUrl", v) /\ Will("verifier", v)
                              /\ Will("status", "awaiting_login")
                              /\ Will("connection", FALSE)
    /\ handler["boot"].pc = "exchange" =>
         handler["boot"].verifier = stored.verifier

\* A pasted redirect: read at the start, forgotten before the next login URL is
\* shown, and the last the user got, unless he has started over.
RedirectKept ==
  /\ handler["boot"].pc \in {"showUrl", "waiting"} => Will("redirect", None)
  /\ handler["boot"].pc \in {"load", "silent", "exchange"} =>
       /\ stored.redirect \in {handler["boot"].paste, None}
       /\ ~Resetting => stored.redirect = handler["boot"].paste
  /\ stored.redirect # None => code \in {stored.redirect, None}

DurableInv == /\ TokenInv /\ BootWrites /\ OtherWrites
              /\ TokensKept /\ UrlKept /\ RedirectKept

--------------------------------------------------------------------------------
(* What a step does to the boot *)

LEMMA StoredFields ==
  ASSUME stored \in StoredRec
  PROVE  /\ stored["refresh"] = stored.refresh /\ stored["verifier"] = stored.verifier
         /\ stored["loginUrl"] = stored.loginUrl /\ stored["redirect"] = stored.redirect
         /\ stored["status"] = stored.status
         /\ stored["connection"] = stored.connection
  BY DEF StoredRec

\* One write of handler h changes one data point.
LEMMA OnePoint ==
  ASSUME TypeOK, NEW h \in Handlers, Write(h),
         NEW k \in {"refresh", "verifier", "loginUrl", "redirect", "status", "connection"}
  PROVE  stored'[k] = IF Head(handler[h].todo)[1] = k THEN Head(handler[h].todo)[2]
                                                      ELSE stored[k]
<1>1. stored' = [stored EXCEPT ![Head(handler[h].todo)[1]] = Head(handler[h].todo)[2]]
  BY DEF Write
<1>2. k \in DOMAIN stored
  BY DEF TypeOK, StoredRec
<1> QED
  BY <1>1, <1>2

Points == {"refresh", "verifier", "loginUrl", "redirect", "status", "connection"}

\* A write of the boot keeps what its writes will come to; one of another
\* handler does where that handler leaves the data point alone or agrees.
LEMMA WillStays ==
  ASSUME TypeOK, NEW h \in Handlers, Write(h), NEW k \in Points, NEW x, Will(k, x),
         h # "boot" => Only(handler[h].todo, k, x)
  PROVE  Will(k, x)'
<1> USE HandlersKnown
<1> DEFINE s == handler[h].todo
<1>1. /\ s \in Seq(Writes) /\ s # <<>> /\ handler'[h].todo = Tail(s)
      /\ \A g \in Handlers \ {h} : handler'[g] = handler[g]
  BY WriteEffect DEF TypeOK, HandlerRec
<1>2. stored'[k] = IF Head(s)[1] = k THEN Head(s)[2] ELSE stored[k]
  BY OnePoint DEF Points
<1>3. /\ Lacks(s, k) => Lacks(Tail(s), k) /\ Head(s)[1] # k
      /\ Only(s, k, x) => (Head(s)[1] = k => Head(s)[2] = x)
      /\ Lasts(s, k, x) => Lasts(Tail(s), k, x) \/ (Head(s) = <<k, x>> /\ Lacks(Tail(s), k))
  BY <1>1, OneWritten
<1>4. CASE h = "boot"
  <2>1. Head(s) = <<k, x>> => stored'[k] = x
    BY <1>2
  <2>2. handler["boot"].todo = s /\ handler'["boot"].todo = Tail(s)
    BY <1>1, <1>4
  <2> HIDE DEF s
  <2> QED
    BY <1>2, <1>3, <2>1, <2>2 DEF Will
<1>5. CASE h # "boot"
  <2>1. handler'["boot"].todo = handler["boot"].todo
    BY <1>1, <1>5
  <2>2. stored[k] = x => stored'[k] = x
    BY <1>2, <1>3, <1>5
  <2> QED
    BY <2>1, <2>2 DEF Will
<1> QED
  BY <1>4, <1>5

\* Before the boot's next writes, its earlier ones are made.
LEMMA WillIs ==
  ASSUME handler["boot"].todo = <<>>, NEW k, NEW x
  PROVE  Will(k, x) <=> stored[k] = x
  BY NothingWritten DEF Will

\* The steps of onReady after its start, each as what it does to the boot.
ReadsTokens ==
  /\ handler["boot"].pc = "load" /\ handler'["boot"].pc = "discover"
  /\ handler'["boot"].todo = <<>> /\ memory' = stored.refresh
  /\ UNCHANGED <<accepted, usable>>
ReadsRefresh ==
  /\ handler["boot"].pc = "load" /\ handler'["boot"].pc = "silent"
  /\ handler'["boot"].todo = <<>> /\ handler'["boot"].login = stored.refresh
  /\ UNCHANGED <<memory, accepted, usable>>
FallsBack ==
  /\ \/ handler["boot"].pc = "load" /\ stored.refresh = None
     \/ /\ handler["boot"].pc = "silent"
        /\ handler["boot"].login \notin accepted \/ "silentFails" \in Faults
  /\ handler'["boot"].pc = IF handler["boot"].paste = None THEN "showUrl" ELSE "exchange"
  /\ handler'["boot"].todo = <<>> /\ handler'["boot"].verifier = stored.verifier
  /\ UNCHANGED <<memory, accepted, usable>>
Refreshed ==
  /\ handler["boot"].pc \in {"silent", "retry"}
  /\ handler'["boot"].pc \in {"discover", "rediscover"}
  /\ handler["boot"].login \in Logins /\ memory' = handler["boot"].login
  /\ handler'["boot"].todo = Save(handler["boot"].login)
  /\ UNCHANGED <<accepted, usable>>
ShowsUrl ==
  /\ handler["boot"].pc = "showUrl" /\ handler'["boot"].pc = "waiting"
  /\ \E v \in Verifiers :
       \/ /\ v = stored.verifier
          /\ handler'["boot"].todo = LoginUrlWrites(v) /\ usable' = usable
       \/ /\ stored.verifier = None
          /\ handler'["boot"].todo = <<<<"verifier", v>>>> \o LoginUrlWrites(v)
          /\ usable' = usable \ {v}
  /\ UNCHANGED <<memory, accepted>>
Redeems ==
  /\ handler["boot"].pc = "exchange" /\ handler'["boot"].pc = "exchanged"
  /\ handler'["boot"].todo = <<>> /\ Redeemable
  /\ usable' = usable \ {handler["boot"].paste}
  /\ \E l \in UnusedLogins : accepted' = (accepted \ UnusedLogins) \cup {l}
  /\ UNCHANGED memory
LogsIn ==
  /\ handler["boot"].pc = "exchanged" /\ handler'["boot"].pc = "discover"
  /\ handler["boot"].login \in Logins /\ memory' = handler["boot"].login
  /\ handler'["boot"].todo = Save(handler["boot"].login) \o Clears
  /\ UNCHANGED <<accepted, usable>>
Fails ==
  /\ \/ handler["boot"].pc = "exchange" /\ (~Redeemable \/ "exchangeFails" \in Faults)
     \/ handler["boot"].pc = "exchanged" /\ "exchangeFails" \in Faults
  /\ handler'["boot"].pc = "showUrl" /\ handler'["boot"].todo = FailWrites
  /\ UNCHANGED <<memory, accepted, usable>>
GoesOn ==
  /\ handler["boot"].pc \in LoggedInPCs \ {"ready"}
  /\ handler'["boot"].pc \in {"retry", "arm", "ready", "gaveUp"}
  /\ handler'["boot"].pc \in {"retry", "ready"} => handler'["boot"].todo = <<>>
  /\ \A k \in {"refresh", "verifier", "redirect"} : Lacks(handler'["boot"].todo, k)
  /\ UNCHANGED <<memory, accepted, usable>>

\* What they have in common.
BootOnly ==
  /\ handler["boot"].todo = <<>> /\ UNCHANGED <<stored, code>>
  /\ handler'["boot"].paste = handler["boot"].paste
  /\ handler'["renewal"] = handler["renewal"] /\ handler'["reset"] = handler["reset"]

LEMMA Moves ==
  ASSUME TypeOK, NEW p \in PCs, NEW s \in Seq(Writes), NEW l \in Logins \cup {None},
         Goto("boot", p, s) \/ Enter("boot", p, s, l),
         handler["boot"].todo = <<>>, UNCHANGED <<stored, code>>
  PROVE  /\ BootOnly
         /\ handler'["boot"].pc = p /\ handler'["boot"].todo = s
         /\ handler'["boot"].verifier = handler["boot"].verifier
         /\ Enter("boot", p, s, l) => handler'["boot"].login = l
<1> USE HandlersKnown
<1>1. handler["boot"] \in HandlerRec
  BY DEF TypeOK
<1>2. CASE Goto("boot", p, s)
  <2>1. /\ handler'["boot"].pc = p /\ handler'["boot"].todo = s
        /\ handler'["boot"].paste = handler["boot"].paste
        /\ handler'["boot"].verifier = handler["boot"].verifier
    BY <1>1, <1>2 DEF Goto, TypeOK, HandlerRec
  <2>2. handler'["renewal"] = handler["renewal"] /\ handler'["reset"] = handler["reset"]
    BY <1>2 DEF Goto, TypeOK
  <2>3. Enter("boot", p, s, l) => handler'["boot"].login = l
    BY EnterEffect
  <2> QED
    BY <2>1, <2>2, <2>3 DEF BootOnly
<1>3. CASE Enter("boot", p, s, l)
  <2>1. /\ handler'["boot"].pc = p /\ handler'["boot"].todo = s
        /\ handler'["boot"].paste = handler["boot"].paste
        /\ handler'["boot"].verifier = handler["boot"].verifier
        /\ handler'["boot"].login = l
    BY <1>1, <1>3 DEF Enter, TypeOK, HandlerRec
  <2>2. handler'["renewal"] = handler["renewal"] /\ handler'["reset"] = handler["reset"]
    BY <1>3 DEF Enter, TypeOK
  <2> QED
    BY <2>1, <2>2 DEF BootOnly
<1> QED
  BY <1>2, <1>3

LEMMA BackToTheUser ==
  ASSUME TypeOK, NoTokens, handler["boot"].todo = <<>>, UNCHANGED <<stored, code>>
  PROVE  /\ BootOnly /\ handler'["boot"].todo = <<>>
         /\ handler'["boot"].pc = IF handler["boot"].paste = None THEN "showUrl"
                                                                  ELSE "exchange"
         /\ handler'["boot"].verifier = stored.verifier
<1> USE HandlersKnown
<1>1. handler["boot"] \in HandlerRec
  BY DEF TypeOK
<1> DEFINE p == IF handler["boot"].paste = None THEN "showUrl" ELSE "exchange"
<1>2. handler' = [handler EXCEPT !["boot"].pc = p, !["boot"].login = None,
                                !["boot"].verifier = stored.verifier]
  BY DEF NoTokens
<1> HIDE DEF p
<1>3. /\ handler'["boot"].pc = p /\ handler'["boot"].todo = <<>>
      /\ handler'["boot"].paste = handler["boot"].paste
      /\ handler'["boot"].verifier = stored.verifier
  BY <1>1, <1>2 DEF TypeOK, HandlerRec
<1>4. handler'["renewal"] = handler["renewal"] /\ handler'["reset"] = handler["reset"]
  BY <1>2 DEF TypeOK
<1> QED
  BY <1>3, <1>4 DEF p, BootOnly

LEMMA BootEffects ==
  ASSUME TokenInv, Boot, ~Start
  PROVE  /\ BootOnly
         /\ \/ ReadsTokens \/ ReadsRefresh \/ FallsBack \/ Refreshed \/ ShowsUrl
            \/ Redeems \/ LogsIn \/ Fails \/ GoesOn
<1> USE HandlersKnown
<1>t. TypeOK /\ handler["boot"] \in HandlerRec
  BY DEF TokenInv, TypeOK
<1>l. /\ handler["boot"].login \in Logins \cup {None}
      /\ stored.refresh \in Logins \cup {None}
      /\ stored.verifier \in Verifiers \cup {None}
      /\ accepted \subseteq Logins
  BY <1>t DEF TypeOK, HandlerRec, StoredRec
<1>p. {"discover", "rediscover", "silent", "exchanged", "showUrl", "waiting", "arm",
       "retry", "gaveUp", "ready"} \subseteq PCs
  BY DEF PCs
<1>n. None \in Logins \cup {None}
  OBVIOUS
<1>1. CASE Load
  <2>1. /\ handler["boot"].pc = "load" /\ handler["boot"].todo = <<>>
        /\ UNCHANGED <<stored, accepted, usable, code>>
    BY <1>1 DEF Load, At, cloudVars
  <2>2. CASE /\ TokensValid /\ memory' = stored.refresh
             /\ Enter("boot", "discover", <<>>, stored.refresh)
    BY <1>t, <1>l, <1>p, <2>1, <2>2, TodoTyped, Moves DEF ReadsTokens
  <2>3. CASE /\ Enter("boot", "silent", <<>>, stored.refresh)
             /\ UNCHANGED memory
    BY <1>t, <1>l, <1>p, <2>1, <2>3, TodoTyped, Moves DEF ReadsRefresh
  <2>4. CASE /\ stored.refresh = None /\ NoTokens /\ UNCHANGED memory
    BY <1>t, <2>1, <2>4, BackToTheUser DEF FallsBack
  <2> QED
    BY <1>1, <2>2, <2>3, <2>4 DEF Load
<1>2. CASE SilentRefreshFails
  <2>1. /\ handler["boot"].pc = "silent" /\ handler["boot"].todo = <<>> /\ NoTokens
        /\ handler["boot"].login \notin accepted \/ "silentFails" \in Faults
        /\ UNCHANGED <<stored, memory, accepted, usable, code>>
    BY <1>2 DEF SilentRefreshFails, At, cloudVars
  <2> QED
    BY <1>t, <2>1, BackToTheUser DEF FallsBack
<1>3. CASE SilentRefresh \/ RetryRefresh
  <2>1. PICK p \in {"discover", "rediscover"} :
          /\ handler["boot"].pc \in {"silent", "retry"} /\ handler["boot"].todo = <<>>
          /\ handler["boot"].login \in Logins /\ memory' = handler["boot"].login
          /\ Goto("boot", p, Save(handler["boot"].login))
          /\ UNCHANGED <<stored, accepted, usable, code>>
    BY <1>3, <1>l DEF SilentRefresh, RetryRefresh, Refreshes, At, cloudVars
  <2> QED
    BY <1>t, <1>l, <1>p, <2>1, SaveTyped, Moves DEF Refreshed
<1>4. CASE ShowLoginUrl
  <2>1. /\ handler["boot"].pc = "showUrl" /\ handler["boot"].todo = <<>>
        /\ UNCHANGED <<stored, memory, accepted, code>>
    BY <1>4 DEF ShowLoginUrl, At
  <2>2. CASE /\ stored.verifier # None /\ UNCHANGED usable
             /\ Goto("boot", "waiting", LoginUrlWrites(stored.verifier))
    <3>1. stored.verifier \in Verifiers
      BY <1>l, <2>2
    <3>2. LoginUrlWrites(stored.verifier) \in Seq(Writes)
      BY <3>1, TodoTyped
    <3>3. /\ BootOnly /\ handler'["boot"].pc = "waiting"
          /\ handler'["boot"].todo = LoginUrlWrites(stored.verifier)
      BY <1>t, <1>p, <1>n, <2>1, <2>2, <3>2, Moves
    <3> QED
      BY <2>1, <2>2, <3>1, <3>3 DEF ShowsUrl
  <2>3. CASE \E v \in UnusedVerifiers :
               /\ stored.verifier = None /\ usable' = usable \ {v}
               /\ Goto("boot", "waiting", <<<<"verifier", v>>>> \o LoginUrlWrites(v))
    <3>1. PICK v \in Verifiers :
               /\ stored.verifier = None /\ usable' = usable \ {v}
               /\ Goto("boot", "waiting", <<<<"verifier", v>>>> \o LoginUrlWrites(v))
      BY <2>3 DEF UnusedVerifiers
    <3>2. <<<<"verifier", v>>>> \o LoginUrlWrites(v) \in Seq(Writes)
      BY UrlWrites
    <3>3. /\ BootOnly /\ handler'["boot"].pc = "waiting"
          /\ handler'["boot"].todo = <<<<"verifier", v>>>> \o LoginUrlWrites(v)
      BY <1>t, <1>p, <1>n, <2>1, <3>1, <3>2, Moves
    <3> QED
      BY <2>1, <3>1, <3>3 DEF ShowsUrl
  <2> QED
    BY <1>4, <2>2, <2>3 DEF ShowLoginUrl
<1>5. CASE RedeemCode
  <2>1. PICK l \in UnusedLogins :
          /\ handler["boot"].pc = "exchange" /\ handler["boot"].todo = <<>>
          /\ Redeemable /\ usable' = usable \ {handler["boot"].paste}
          /\ accepted' = (accepted \ UnusedLogins) \cup {l}
          /\ Enter("boot", "exchanged", <<>>, l)
          /\ UNCHANGED <<stored, memory, code>>
    BY <1>5 DEF RedeemCode, At
  <2>2. l \in Logins \cup {None}
    BY DEF UnusedLogins
  <2>3. BootOnly /\ handler'["boot"].pc = "exchanged" /\ handler'["boot"].todo = <<>>
    BY <1>t, <1>p, <2>1, <2>2, TodoTyped, Moves
  <2> QED
    BY <2>1, <2>3 DEF Redeems
<1>6. CASE LoggedIn
  <2>1. /\ handler["boot"].pc = "exchanged" /\ handler["boot"].todo = <<>>
        /\ memory' = handler["boot"].login
        /\ Goto("boot", "discover", Save(handler["boot"].login) \o Clears)
        /\ UNCHANGED <<stored, accepted, usable, code>>
    BY <1>6 DEF LoggedIn, At, Clears, cloudVars
  <2>2. handler["boot"].login \in Logins
    BY <1>l, <2>1 DEF TokenInv, BootOK
  <2>3. Save(handler["boot"].login) \o Clears \in Seq(Writes)
    BY <2>2, LoginWrites
  <2>4. /\ BootOnly /\ handler'["boot"].pc = "discover"
        /\ handler'["boot"].todo = Save(handler["boot"].login) \o Clears
    BY <1>t, <1>p, <1>n, <2>1, <2>3, Moves
  <2> QED
    BY <2>1, <2>2, <2>4 DEF LogsIn
<1>7. CASE LoginFails
  <2>1. /\ \/ handler["boot"].pc = "exchange" /\ (~Redeemable \/ "exchangeFails" \in Faults)
           \/ handler["boot"].pc = "exchanged" /\ "exchangeFails" \in Faults
        /\ handler["boot"].todo = <<>> /\ Enter("boot", "showUrl", FailWrites, None)
        /\ UNCHANGED <<stored, memory, accepted, usable, code>>
    BY <1>7 DEF LoginFails, At, FailWrites, cloudVars
  <2>2. BootOnly /\ handler'["boot"].pc = "showUrl" /\ handler'["boot"].todo = FailWrites
    BY <1>t, <1>p, <1>n, <2>1, FailureWrites, Moves
  <2> QED
    BY <2>1, <2>2 DEF Fails
\* The steps after login: where they go, and the little they write.
<1>g. ASSUME NEW p \in {"retry", "arm", "ready", "gaveUp"}, NEW s \in Seq(Writes),
             Goto("boot", p, s) \/ Enter("boot", p, s, None),
             handler["boot"].pc \in {"discover", "retry", "rediscover", "arm"},
             handler["boot"].todo = <<>>, p \in {"retry", "ready"} => s = <<>>,
             \A k \in {"refresh", "verifier", "redirect"} : Lacks(s, k),
             UNCHANGED <<stored, memory, accepted, usable, code>>
      PROVE  BootOnly /\ GoesOn
  <2>1. BootOnly /\ handler'["boot"].pc = p /\ handler'["boot"].todo = s
    BY <1>t, <1>p, <1>n, <1>g, Moves
  <2> QED
    BY <1>g, <2>1 DEF GoesOn, LoggedInPCs
<1>8. CASE Discovered
  <2> DEFINE s == <<<<"connection", TRUE>>, <<"status", "connected">>>>
  <2>1. s \in Seq(Writes) /\ \A k \in {"refresh", "verifier", "redirect"} : Lacks(s, k)
    BY TodoTyped, PlainWrites
  <2>2. /\ handler["boot"].pc \in {"discover", "rediscover"} /\ handler["boot"].todo = <<>>
        /\ Goto("boot", "arm", s) /\ UNCHANGED <<stored, memory, accepted, usable, code>>
    BY <1>8 DEF Discovered, At, cloudVars
  <2> HIDE DEF s
  <2> QED
    BY <1>g, <2>1, <2>2
<1>9. CASE DiscoveryFails
  <2> DEFINE s == <<<<"connection", FALSE>>>>
  <2>1. s \in Seq(Writes) /\ \A k \in {"refresh", "verifier", "redirect"} : Lacks(s, k)
    BY TodoTyped, PlainWrites
  <2>2. /\ handler["boot"].pc \in {"discover", "retry", "rediscover"}
        /\ handler["boot"].todo = <<>> /\ Enter("boot", "gaveUp", s, None)
        /\ UNCHANGED <<stored, memory, accepted, usable, code>>
    BY <1>9 DEF DiscoveryFails, At, cloudVars
  <2> HIDE DEF s
  <2> QED
    BY <1>g, <2>1, <2>2
<1>10. CASE DiscoveryRejected
  <2>1. /\ handler["boot"].pc = "discover" /\ handler["boot"].todo = <<>>
        /\ Goto("boot", "retry", <<>>)
        /\ UNCHANGED <<stored, memory, accepted, usable, code>>
    BY <1>10 DEF DiscoveryRejected, At, cloudVars
  <2> QED
    BY <1>g, <2>1, TodoTyped, NothingWritten
<1>11. CASE ArmRefresh
  <2>1. /\ handler["boot"].pc = "arm" /\ handler["boot"].todo = <<>>
        /\ Enter("boot", "ready", <<>>, None)
        /\ UNCHANGED <<stored, memory, accepted, usable, code>>
    BY <1>11 DEF ArmRefresh, At, cloudVars
  <2> QED
    BY <1>g, <2>1, TodoTyped, NothingWritten
<1> QED
  BY <1>1, <1>2, <1>3, <1>4, <1>5, <1>6, <1>7, <1>8, <1>9, <1>10, <1>11 DEF Boot

--------------------------------------------------------------------------------
(* The invariant is inductive *)

LEMMA DurableInit == Init => DurableInv
<1> SUFFICES ASSUME Init PROVE DurableInv
  OBVIOUS
<1>1. \A h \in Handlers : handler[h].todo = <<>> /\ handler[h].pc = "off"
  BY DEF Init, Off
<1>2. BootWrites /\ OtherWrites
  BY <1>1, HandlersKnown, NothingWritten DEF BootWrites, OtherWrites, Resetting
<1>3. stored.redirect = None
  BY DEF Init
<1>4. TokensKept /\ UrlKept /\ RedirectKept
  BY <1>1, <1>3, HandlersKnown DEF TokensKept, UrlKept, RedirectKept, LoggedInPCs
<1> QED
  BY <1>2, <1>4, InitInv DEF DurableInv

\* Outside "ready" the refresh loop has nothing to write.
LEMMA LoopSilent ==
  ASSUME DurableInv, handler["boot"].pc # "ready"
  PROVE  /\ handler["renewal"].todo = <<>>
         /\ handler["renewal"].pc \in {"off", "idle"}
  BY DEF DurableInv, TokenInv, LoopOK, OtherWrites, At

\* The process starts, or ends: nothing is left to write but connection = FALSE.
LEMMA DurableOff ==
  ASSUME TokenInv',
         \A h \in Handlers : handler'[h].todo = <<>> /\ handler'[h].pc = "off",
         stored'.redirect # None => code' \in {stored'.redirect, None}
  PROVE  DurableInv'
<1>1. BootWrites' /\ OtherWrites'
  BY HandlersKnown, NothingWritten DEF BootWrites, OtherWrites, Resetting
<1>2. TokensKept' /\ UrlKept' /\ RedirectKept'
  BY HandlersKnown DEF TokensKept, UrlKept, RedirectKept, LoggedInPCs
<1> QED
  BY <1>1, <1>2 DEF DurableInv

LEMMA DurableStart ==
  ASSUME DurableInv, TokenInv', Start
  PROVE  DurableInv'
<1> USE HandlersKnown
<1>1. /\ handler'["boot"].pc = "load" /\ handler'["boot"].paste = stored.redirect
      /\ handler'["boot"].todo = <<<<"connection", FALSE>>>>
  <2>1. ASSUME NEW r \in HandlerRec, NEW v, NEW s
        PROVE  LET n == [r EXCEPT !.pc = "load", !.paste = v, !.todo = s]
               IN n.pc = "load" /\ n.paste = v /\ n.todo = s
    BY DEF HandlerRec
  <2> DEFINE s == <<<<"connection", FALSE>>>>
  <2>2. handler'["boot"] = [Idle EXCEPT !.pc = "load", !.paste = stored.redirect,
                                        !.todo = s]
    BY DEF Start
  <2> HIDE DEF s
  <2>3. /\ handler'["boot"].pc = "load" /\ handler'["boot"].paste = stored.redirect
        /\ handler'["boot"].todo = s
    BY <2>1, <2>2, OffTyped
  <2> QED
    BY <2>3 DEF s
<1>2. \A g \in {"renewal", "reset"} : handler'[g].pc = "idle" /\ handler'[g].todo = <<>>
  BY DEF Start, Handlers, Idle, Off
<1>3. \A k \in {"refresh", "verifier", "redirect"} : Lacks(handler'["boot"].todo, k)
  BY <1>1, PlainWrites
<1>4. BootWrites' /\ OtherWrites'
  <2>1. /\ Only(handler'["boot"].todo, "redirect", None)
        /\ Only(handler'["boot"].todo, "verifier", None)
    BY <1>3, LacksOnly
  <2> QED
    BY <1>1, <1>2, <1>3, <2>1, NothingWritten DEF BootWrites, OtherWrites, Resetting
<1>5. TokensKept' /\ UrlKept'
  BY <1>1 DEF TokensKept, UrlKept, LoggedInPCs
<1>6. RedirectKept'
  BY <1>1 DEF RedirectKept, DurableInv, Start, cloudVars
<1> QED
  BY <1>4, <1>5, <1>6 DEF DurableInv

LEMMA DurableBoot ==
  ASSUME DurableInv, TokenInv', Boot
  PROVE  DurableInv'
<1>0. CASE Start
  BY <1>0, DurableStart
<1> SUFFICES ASSUME ~Start PROVE DurableInv'
  BY <1>0
<1> DEFINE b == handler["boot"]
           t == handler'["boot"].todo
<1>b. BootOnly /\ TypeOK
  BY BootEffects DEF DurableInv, TokenInv
<1>e. \/ ReadsTokens \/ ReadsRefresh \/ FallsBack \/ Refreshed \/ ShowsUrl
      \/ Redeems \/ LogsIn \/ Fails \/ GoesOn
  BY BootEffects DEF DurableInv
<1>f. \A k \in {"refresh", "verifier", "redirect"} : \A x : Will(k, x) <=> stored[k] = x
  BY <1>b, WillIs DEF BootOnly
<1>s. /\ stored["refresh"] = stored.refresh /\ stored["verifier"] = stored.verifier
      /\ stored["redirect"] = stored.redirect
  BY <1>b, StoredFields DEF TypeOK
<1>n. b.pc # "ready" /\ handler["renewal"].todo = <<>>
      /\ handler["renewal"].pc \in {"off", "idle"}
  <2>1. b.pc # "ready"
    BY <1>e DEF ReadsTokens, ReadsRefresh, FallsBack, Refreshed, ShowsUrl, Redeems,
                LogsIn, Fails, GoesOn
  <2> QED
    BY <2>1, LoopSilent
<1>o. OtherWrites'
  BY <1>b, <1>n, NothingWritten DEF BootOnly, DurableInv, OtherWrites, Resetting
<1>r. Resetting' = Resetting
  BY <1>b DEF BootOnly, Resetting
\* What is left to show of a step.
<1>g. ASSUME BootWrites',
             ~Resetting /\ handler'["boot"].pc \in LoggedInPCs => Will("refresh", memory)',
             handler'["boot"].pc = "silent" => handler'["boot"].login = stored.refresh,
             ~Resetting => UrlKept',
             handler'["boot"].pc \in {"showUrl", "waiting"} => Will("redirect", None)',
             handler'["boot"].pc \in {"load", "silent", "exchange"}
               => b.pc \in {"load", "silent"}
      PROVE  DurableInv'
  <2>1. TokensKept'
    BY <1>b, <1>g, <1>r DEF TokensKept, BootOnly
  <2>2. UrlKept'
    BY <1>g, <1>r DEF UrlKept
  <2>3. RedirectKept'
    BY <1>b, <1>g, <1>r DEF DurableInv, RedirectKept, BootOnly
  <2> QED
    BY <1>g, <1>o, <2>1, <2>2, <2>3 DEF DurableInv
<1>w. ASSUME t = <<>> PROVE BootWrites'
  BY <1>w, NothingWritten DEF BootWrites
<1>1. CASE ReadsTokens
  <2>1. Will("refresh", memory)'
    BY <1>1, <1>b, <1>s, NothingWritten DEF ReadsTokens, BootOnly, Will
  <2> QED
    BY <1>1, <1>g, <1>w, <2>1 DEF ReadsTokens, UrlKept
<1>2. CASE ReadsRefresh
  BY <1>2, <1>g, <1>w DEF ReadsRefresh, UrlKept, LoggedInPCs
<1>3. CASE FallsBack
  <2>1. handler'["boot"].pc = "showUrl" => Will("redirect", None)'
    <3>1. b.paste = None => stored.redirect = None
      BY <1>3 DEF FallsBack, DurableInv, RedirectKept
    <3> QED
      BY <1>3, <1>b, <1>s, <3>1, NothingWritten DEF FallsBack, BootOnly, Will
  <2>2. UrlKept'
    BY <1>3, <1>b DEF FallsBack, BootOnly, UrlKept
  <2> QED
    BY <1>3, <1>g, <1>w, <2>1, <2>2 DEF FallsBack, LoggedInPCs
<1>4. CASE Refreshed \/ LogsIn
  <2>1. /\ Lasts(t, "refresh", memory') /\ Only(t, "redirect", None)
        /\ Only(t, "verifier", None) /\ handler'["boot"].pc \in {"discover", "rediscover"}
    <3>1. CASE Refreshed
      BY <3>1, SaveWrites, LacksOnly DEF Refreshed
    <3>2. CASE LogsIn
      BY <3>2, LoginWrites DEF LogsIn
    <3> QED
      BY <1>4, <3>1, <3>2
  <2>2. BootWrites' /\ Will("refresh", memory)'
    BY <2>1 DEF BootWrites, Will
  <2> QED
    BY <1>g, <2>1, <2>2 DEF UrlKept
<1>5. CASE ShowsUrl
  <2>1. PICK v \in Verifiers :
          \/ v = stored.verifier /\ t = LoginUrlWrites(v)
          \/ t = <<<<"verifier", v>>>> \o LoginUrlWrites(v)
    BY <1>5 DEF ShowsUrl
  <2>2. /\ Lasts(t, "loginUrl", v) /\ Lasts(t, "status", "awaiting_login")
        /\ Lasts(t, "connection", FALSE)
        /\ Lacks(t, "refresh") /\ Lacks(t, "redirect")
        /\ Lasts(t, "verifier", v) \/ (stored.verifier = v /\ Lacks(t, "verifier"))
    BY <2>1, UrlWrites
  <2>3. handler'["boot"].pc = "waiting" /\ b.pc = "showUrl"
    BY <1>5 DEF ShowsUrl
  <2>4. BootWrites'
    BY <2>2, <2>3, LacksOnly DEF BootWrites
  <2>5. UrlKept'
    BY <1>b, <1>s, <2>2, <2>3 DEF UrlKept, Will, BootOnly
  <2>6. Will("redirect", None)'
    <3>1. stored.redirect = None
      BY <1>f, <1>s, <2>3 DEF DurableInv, RedirectKept
    <3> QED
      BY <1>b, <1>s, <2>2, <3>1 DEF Will, BootOnly
  <2> QED
    BY <1>g, <2>3, <2>4, <2>5, <2>6 DEF LoggedInPCs
<1>6. CASE Redeems
  BY <1>6, <1>g, <1>w DEF Redeems, UrlKept, LoggedInPCs
<1>7. CASE Fails
  <2>1. BootWrites' /\ Will("redirect", None)'
    BY <1>7, FailureWrites DEF Fails, BootWrites, Will
  <2> QED
    BY <1>7, <1>g, <2>1 DEF Fails, UrlKept, LoggedInPCs
<1>8. CASE GoesOn
  <2>1. BootWrites'
    BY <1>8, LacksOnly DEF GoesOn, BootWrites
  <2>2. ~Resetting /\ handler'["boot"].pc \in LoggedInPCs => Will("refresh", memory)'
    <3>1. ~Resetting => stored.refresh = memory
      BY <1>8, <1>f, <1>s DEF GoesOn, DurableInv, TokensKept
    <3> QED
      BY <1>8, <1>b, <1>s, <3>1 DEF GoesOn, BootOnly, Will
  <2> QED
    BY <1>8, <1>g, <2>1, <2>2 DEF GoesOn, UrlKept
<1> QED
  BY <1>e, <1>1, <1>2, <1>3, <1>4, <1>5, <1>6, <1>7, <1>8

LEMMA DurableRenewal ==
  ASSUME DurableInv, TokenInv', Renewal
  PROVE  DurableInv'
<1> USE HandlersKnown
<1>t. TypeOK
  BY DEF DurableInv, TokenInv
<1>l. /\ handler["renewal"].login \in Logins \cup {None} /\ memory \in Logins \cup {None}
      /\ accepted \subseteq Logins
      /\ {"idle", "renewing", "rearm"} \subseteq PCs
  BY <1>t DEF TypeOK, HandlerRec, PCs
\* Nothing changes but what the loop itself has in hand.
<1>g. ASSUME UNCHANGED <<stored, memory, code>>,
             handler'["boot"] = handler["boot"] /\ handler'["reset"] = handler["reset"],
             LET r == handler'["renewal"]
             IN /\ r.pc # "off" /\ Only(r.todo, "refresh", memory)
                /\ Lacks(r.todo, "verifier") /\ Lacks(r.todo, "redirect")
                /\ r.pc \in {"renewing", "rearm"} => r.login = memory
      PROVE  DurableInv'
  <2>1. BootWrites' /\ OtherWrites'
    BY <1>g DEF DurableInv, BootWrites, OtherWrites, Resetting
  <2>2. \A k, x : Will(k, x)' <=> Will(k, x)
    BY <1>g DEF Will
  <2>3. Resetting' = Resetting
    BY <1>g DEF Resetting
  <2>4. TokensKept'
    BY <1>g, <2>2, <2>3 DEF DurableInv, TokensKept
  <2>5. UrlKept'
    BY <1>g, <2>2, <2>3 DEF DurableInv, UrlKept
  <2>6. RedirectKept'
    BY <1>g, <2>2, <2>3 DEF DurableInv, RedirectKept
  <2> QED
    BY <2>1, <2>4, <2>5, <2>6 DEF DurableInv
<1>1. CASE RenewalFires /\ memory = None
  <2>1. UNCHANGED <<stored, memory, handler, code>>
    BY <1>1 DEF RenewalFires
  <2>2. handler["renewal"].pc # "off"
    BY <1>1 DEF RenewalFires, DurableInv, TokenInv, RefreshAhead, At
  <2> QED
    BY <1>g, <2>1, <2>2 DEF DurableInv, OtherWrites
<1>2. CASE RenewalFires /\ memory # None
  <2>1. /\ Enter("renewal", "renewing", <<>>, memory)
        /\ UNCHANGED <<stored, memory, code>>
    BY <1>2 DEF RenewalFires
  <2>2. /\ handler'["renewal"].pc = "renewing" /\ handler'["renewal"].todo = <<>>
        /\ handler'["renewal"].login = memory
        /\ \A g \in Handlers \ {"renewal"} : handler'[g] = handler[g]
    BY <1>t, <1>l, <2>1, TodoTyped, EnterEffect
  <2> QED
    BY <1>g, <2>1, <2>2, NothingWritten DEF Handlers
<1>3. CASE Renewed
  <2>1. /\ handler["renewal"].pc = "renewing" /\ handler["renewal"].login \in Logins
        /\ memory' = handler["renewal"].login /\ UNCHANGED <<stored, code>>
        /\ Goto("renewal", "rearm", Save(handler["renewal"].login))
    BY <1>3, <1>l DEF Renewed, Refreshes, At
  <2>2. handler["renewal"].login = memory
    BY <2>1 DEF DurableInv, OtherWrites
  <2>3. /\ handler'["renewal"].pc = "rearm"
        /\ handler'["renewal"].todo = Save(memory) /\ handler'["renewal"].login = memory
        /\ \A g \in Handlers \ {"renewal"} : handler'[g] = handler[g]
    BY <1>t, <1>l, <2>1, <2>2, SaveTyped, GotoEffect
  <2> QED
    BY <1>g, <2>1, <2>2, <2>3, SaveWrites DEF Handlers
<1>4. CASE Rearm \/ RenewalFails
  <2>1. Enter("renewal", "idle", <<>>, None) /\ UNCHANGED <<stored, memory, code>>
    BY <1>4 DEF Rearm, RenewalFails
  <2>2. /\ handler'["renewal"].pc = "idle" /\ handler'["renewal"].todo = <<>>
        /\ \A g \in Handlers \ {"renewal"} : handler'[g] = handler[g]
    BY <1>t, <1>l, <2>1, TodoTyped, EnterEffect
  <2> QED
    BY <1>g, <2>1, <2>2, NothingWritten DEF Handlers
<1>5. CASE RenewalRejected
  <2> DEFINE s == <<<<"connection", FALSE>>>>
  <2>1. /\ s \in Seq(Writes) /\ Lacks(s, "verifier") /\ Lacks(s, "redirect")
        /\ Only(s, "refresh", memory)
    BY TodoTyped, PlainWrites, LacksOnly
  <2>2. Enter("renewal", "idle", s, None) /\ UNCHANGED <<stored, memory, code>>
    BY <1>5 DEF RenewalRejected
  <2> HIDE DEF s
  <2>3. /\ handler'["renewal"].pc = "idle" /\ handler'["renewal"].todo = s
        /\ \A g \in Handlers \ {"renewal"} : handler'[g] = handler[g]
    BY <1>t, <1>l, <2>1, <2>2, EnterEffect
  <2> QED
    BY <1>g, <2>1, <2>2, <2>3 DEF Handlers
<1> QED
  BY <1>1, <1>2, <1>3, <1>4, <1>5 DEF Renewal

\* A write of whichever handler, and what it can reach.
LEMMA OneWrite ==
  ASSUME TypeOK, NEW h \in Handlers, Write(h), NEW s, s = handler[h].todo
  PROVE  /\ handler'[h].todo = Tail(s) /\ s # <<>>
         /\ \A g \in Handlers \ {h} : handler'[g] = handler[g]
         /\ \A g \in Handlers : /\ handler'[g].pc = handler[g].pc
                                /\ handler'[g].login = handler[g].login
                                /\ handler'[g].paste = handler[g].paste
                                /\ handler'[g].verifier = handler[g].verifier
         /\ UNCHANGED <<memory, armed, accepted, usable, code>>
         /\ s \in Seq(Writes)
         /\ stored'.refresh = IF Head(s)[1] = "refresh" THEN Head(s)[2] ELSE stored.refresh
         /\ stored'.verifier = IF Head(s)[1] = "verifier" THEN Head(s)[2]
                                                          ELSE stored.verifier
         /\ stored'.redirect = IF Head(s)[1] = "redirect" THEN Head(s)[2]
                                                          ELSE stored.redirect
<1>w. /\ handler'[h].pc = handler[h].pc /\ handler'[h].login = handler[h].login
      /\ handler'[h].todo = Tail(s) /\ s # <<>> /\ s \in Seq(Writes)
      /\ \A g \in Handlers \ {h} : handler'[g] = handler[g]
  BY WriteEffect DEF TypeOK, HandlerRec
<1>u. UNCHANGED <<memory, armed, accepted, usable, code>>
  BY DEF Write, cloudVars
<1>v. /\ handler'[h].paste = handler[h].paste
      /\ handler'[h].verifier = handler[h].verifier
  BY DEF TypeOK, HandlerRec, Write
<1>o. \A k \in {"refresh", "verifier", "redirect"} :
        stored'[k] = IF Head(s)[1] = k THEN Head(s)[2] ELSE stored[k]
  BY OnePoint
<1> QED
  BY <1>w, <1>u, <1>v, <1>o

LEMMA DurableWrite ==
  ASSUME DurableInv, TokenInv', NEW h \in Handlers, Write(h)
  PROVE  DurableInv'
<1> USE HandlersKnown
<1>t. TypeOK
  BY DEF DurableInv, TokenInv
<1> DEFINE s == handler[h].todo
<1>s. s = handler[h].todo
  OBVIOUS
<1> HIDE DEF s
<1>w. /\ handler'[h].todo = Tail(s) /\ s # <<>> /\ s \in Seq(Writes)
      /\ \A g \in Handlers \ {h} : handler'[g] = handler[g]
      /\ UNCHANGED <<memory, code>>
  BY <1>t, <1>s, OneWrite
<1>a. \A g \in Handlers : /\ handler'[g].pc = handler[g].pc
                          /\ handler'[g].login = handler[g].login
                          /\ handler'[g].paste = handler[g].paste
                          /\ handler'[g].verifier = handler[g].verifier
  BY <1>t, <1>s, OneWrite
<1>k. \A k, x : /\ Lacks(s, k) => Lacks(Tail(s), k) /\ Head(s)[1] # k
                /\ Only(s, k, x) => /\ Only(Tail(s), k, x)
                                    /\ Head(s)[1] = k => Head(s)[2] = x
  <2>1. s \in Seq(Writes) /\ s # <<>>
    BY <1>w
  <2> QED
    BY <2>1, OneWritten
<1>o. stored'.redirect = IF Head(s)[1] = "redirect" THEN Head(s)[2] ELSE stored.redirect
  BY <1>t, <1>s, OneWrite
<1>r. Resetting' = Resetting
  BY <1>a DEF Resetting
\* Only the loop of an adapter that is ready and a reset write besides the boot.
<1>h. /\ h = "renewal" => handler["boot"].pc = "ready"
      /\ h = "reset" => Resetting
  <2>1. h = "renewal" => handler["boot"].pc = "ready"
    BY <1>w, LoopSilent DEF s
  <2>2. h = "reset" => Resetting
    BY <1>w DEF DurableInv, OtherWrites, s
  <2> QED
    BY <2>1, <2>2
<1>1. BootWrites'
  <2>1. CASE h = "boot"
    <3>1. handler["boot"].todo = s /\ handler'["boot"].todo = Tail(s)
      BY <1>w, <2>1 DEF s
    <3>2. handler["boot"].pc \notin {"off", "silent", "exchange", "exchanged", "retry", "ready"}
      BY <1>w, <3>1 DEF DurableInv, BootWrites
    <3>3. /\ Only(s, "redirect", None) => Only(Tail(s), "redirect", None)
          /\ Only(s, "verifier", None) => Only(Tail(s), "verifier", None)
          /\ \A k : Lacks(s, k) => Lacks(Tail(s), k)
      BY <1>k
    <3> QED
      BY <1>a, <3>1, <3>2, <3>3 DEF DurableInv, BootWrites
  <2>2. CASE h # "boot"
    BY <1>w, <2>2 DEF DurableInv, BootWrites
  <2> QED
    BY <2>1, <2>2
<1>2. OtherWrites'
  <2>1. CASE h = "boot"
    <3>1. handler'["renewal"] = handler["renewal"] /\ handler'["reset"] = handler["reset"]
      BY <1>w, <2>1
    <3> QED
      BY <1>w, <1>r, <3>1 DEF DurableInv, OtherWrites
  <2>2. CASE h = "renewal"
    <3>1. /\ handler'["reset"] = handler["reset"]
          /\ handler["renewal"].todo = s /\ handler'["renewal"].todo = Tail(s)
      BY <1>w, <2>2 DEF s
    <3>2. handler["renewal"].pc # "off" /\ handler'["renewal"].pc # "off"
      BY <1>a, <1>w, <3>1 DEF DurableInv, OtherWrites
    <3>3. /\ Only(Tail(s), "refresh", memory) /\ Lacks(Tail(s), "verifier")
          /\ Lacks(Tail(s), "redirect")
      BY <1>k, <3>1 DEF DurableInv, OtherWrites
    <3>4. handler'["renewal"].pc \in {"renewing", "rearm"}
            => handler'["renewal"].login = memory'
      BY <1>a, <1>w DEF DurableInv, OtherWrites
    <3> QED
      BY <1>r, <1>w, <3>1, <3>2, <3>3, <3>4 DEF DurableInv, OtherWrites
  <2>3. CASE h = "reset"
    <3>1. /\ handler'["renewal"] = handler["renewal"]
          /\ handler["reset"].todo = s /\ handler'["reset"].todo = Tail(s)
      BY <1>w, <2>3 DEF s
    <3> QED
      BY <1>h, <1>k, <1>r, <1>w, <2>3, <3>1 DEF DurableInv, OtherWrites
  <2> QED
    BY <2>1, <2>2, <2>3 DEF Handlers
<1>3. TokensKept'
  <2> SUFFICES ASSUME ~Resetting PROVE TokensKept'
    BY <1>r DEF TokensKept
  <2>1. handler["boot"].pc \in LoggedInPCs => Will("refresh", memory)'
    <3> SUFFICES ASSUME handler["boot"].pc \in LoggedInPCs PROVE Will("refresh", memory)'
      OBVIOUS
    <3>1. Will("refresh", memory)
      BY DEF DurableInv, TokensKept
    <3>2. h # "boot" => Only(handler[h].todo, "refresh", memory)
      BY <1>h DEF DurableInv, OtherWrites, Handlers
    <3>3. \A x : Will("refresh", x) /\ (h # "boot" => Only(handler[h].todo, "refresh", x))
                   => Will("refresh", x)'
      BY <1>t, WillStays DEF Points
    <3>4. memory' = memory
      BY <1>w
    <3> QED
      BY <3>1, <3>2, <3>3, <3>4 DEF Will
  <2>2. handler["boot"].pc = "silent" =>
          stored'.refresh = stored.refresh
    BY <1>h, <1>w DEF DurableInv, BootWrites, s, Handlers
  <2> QED
    BY <1>a, <1>w, <2>1, <2>2 DEF DurableInv, TokensKept
<1>4. UrlKept'
  <2> SUFFICES ASSUME ~Resetting PROVE UrlKept'
    BY <1>r DEF UrlKept
  <2>1. ASSUME handler["boot"].pc = "waiting"
        PROVE  \E v \in Verifiers : /\ Will("loginUrl", v)' /\ Will("verifier", v)'
                                    /\ Will("status", "awaiting_login")'
                                    /\ Will("connection", FALSE)'
    <3>1. h = "boot"
      BY <1>h, <2>1 DEF Handlers
    <3>2. PICK v \in Verifiers : /\ Will("loginUrl", v) /\ Will("verifier", v)
                                 /\ Will("status", "awaiting_login")
                                 /\ Will("connection", FALSE)
      BY <2>1 DEF DurableInv, UrlKept
    <3>3. \A k \in Points : \A x : Will(k, x) => Will(k, x)'
      BY <1>t, <3>1, WillStays
    <3> QED
      BY <3>2, <3>3 DEF Points
  <2>2. handler["boot"].pc = "exchange" => stored'.verifier = stored.verifier
    BY <1>h, <1>w DEF DurableInv, BootWrites, s, Handlers
  <2> QED
    BY <1>a, <2>1, <2>2 DEF DurableInv, UrlKept
<1>5. RedirectKept'
  <2>0. \A g \in Handlers : Only(handler[g].todo, "redirect", None)
    BY LacksOnly DEF DurableInv, BootWrites, OtherWrites, Handlers
  <2>1. handler["boot"].pc \in {"showUrl", "waiting"} => Will("redirect", None)'
    <3>1. Will("redirect", None) => Will("redirect", None)'
      BY <1>t, <2>0, WillStays DEF Points
    <3> QED
      BY <3>1 DEF DurableInv, RedirectKept
  <2>2. stored'.redirect \in {stored.redirect, None}
    BY <1>k, <1>o, <2>0 DEF s
  <2>3. ASSUME handler["boot"].pc \in {"load", "silent", "exchange"}, ~Resetting
        PROVE  stored'.redirect = stored.redirect
    <3>1. h = "boot" /\ handler["boot"].pc = "load"
      BY <1>h, <1>w, <2>3 DEF DurableInv, BootWrites, s, Handlers
    <3>2. Lacks(s, "redirect")
      BY <3>1 DEF DurableInv, BootWrites, s
    <3> QED
      BY <1>k, <1>o, <3>2
  <2> QED
    BY <1>a, <1>r, <1>w, <2>1, <2>2, <2>3 DEF DurableInv, RedirectKept
<1> QED
  BY <1>1, <1>2, <1>3, <1>4, <1>5 DEF DurableInv

LEMMA ResetEffect ==
  ASSUME TypeOK, ResetLogin
  PROVE  /\ handler["reset"].pc = "idle" /\ handler["reset"].todo = <<>>
         /\ handler'["reset"].pc = "resetting" /\ handler'["reset"].todo = ResetWrites
         /\ handler'["boot"] = handler["boot"] /\ handler'["renewal"] = handler["renewal"]
         /\ code' = None /\ UNCHANGED <<stored, memory, accepted, usable>>
<1>1. /\ Goto("reset", "resetting", ResetWrites) /\ code' = None
      /\ handler["reset"].pc = "idle" /\ handler["reset"].todo = <<>>
      /\ UNCHANGED <<stored, memory, accepted, usable>>
  BY DEF ResetLogin, At, cloudVars
<1>2. "resetting" \in PCs
  BY DEF PCs
<1> QED
  BY <1>1, <1>2, HandlersKnown, NeverConnects, GotoEffect DEF Handlers

LEMMA DurableRest ==
  ASSUME DurableInv, TokenInv', ResetDone \/ Environment \/ UNCHANGED vars
  PROVE  DurableInv'
<1> USE HandlersKnown
<1>t. TypeOK
  BY DEF DurableInv, TokenInv
<1>1. CASE ResetDone \/ Stop \/ UserPastes
  <2>1. \A h \in Handlers : handler'[h].todo = <<>> /\ handler'[h].pc = "off"
    BY <1>1, DownEffect DEF ResetDone, Stop, UserPastes, Off
  <2>2. stored'.redirect # None => code' \in {stored'.redirect, None}
    <3>1. CASE UserPastes
      BY <1>t, <3>1 DEF UserPastes, TypeOK, StoredRec
    <3>2. CASE ResetDone \/ Stop
      BY <3>2 DEF ResetDone, Stop, DurableInv, RedirectKept
    <3> QED
      BY <1>1, <3>1, <3>2
  <2> QED
    BY <2>1, <2>2, DurableOff
<1>2. CASE ResetLogin
  <2>1. BootWrites' /\ OtherWrites'
    BY <1>t, <1>2, ResetEffect, ResetForgets
       DEF DurableInv, BootWrites, OtherWrites, Resetting
  <2>2. TokensKept' /\ UrlKept'
    BY <1>t, <1>2, ResetEffect DEF TokensKept, UrlKept, Resetting
  <2>3. RedirectKept'
    BY <1>t, <1>2, ResetEffect DEF DurableInv, RedirectKept, Resetting, Will
  <2> QED
    BY <2>1, <2>2, <2>3 DEF DurableInv
\* Nothing the handlers know of.
<1>3. ASSUME UNCHANGED <<memory, handler>>, stored'.redirect = stored.redirect,
             \A k \in Points : stored'[k] = stored[k],
             stored'.refresh = stored.refresh, stored'.verifier = stored.verifier,
             code' = code \/ (~Resetting /\ stored.redirect = None)
      PROVE  DurableInv'
  <2>1. BootWrites' /\ OtherWrites'
    BY <1>3 DEF DurableInv, BootWrites, OtherWrites, Resetting
  <2>2. \A k \in Points : \A x : Will(k, x)' <=> Will(k, x)
    BY <1>3 DEF Will
  <2>3. TokensKept'
    BY <1>3, <2>2 DEF DurableInv, TokensKept, Resetting, Points
  <2>4. UrlKept'
    BY <1>3, <2>2 DEF DurableInv, UrlKept, Resetting, Points
  <2>5. RedirectKept'
    BY <1>3, <2>2 DEF DurableInv, RedirectKept, Resetting, Points
  <2> QED
    BY <2>1, <2>3, <2>4, <2>5 DEF DurableInv
<1>4. CASE UserLogsIn
  <2>1. /\ handler["boot"].pc = "waiting" /\ handler["boot"].todo = <<>>
        /\ handler["reset"].pc = "idle" /\ UNCHANGED <<stored, memory, handler>>
    BY <1>4 DEF UserLogsIn, AwaitsUser, At
  <2>2. stored["redirect"] = None
    BY <2>1, WillIs DEF DurableInv, RedirectKept
  <2> QED
    BY <1>3, <1>t, <2>1, <2>2, StoredFields DEF Resetting, TypeOK
<1>5. CASE Expire
  <2>1. /\ stored' = [stored EXCEPT !.expires = "past"]
        /\ UNCHANGED <<memory, handler, code>>
    BY <1>5 DEF Expire
  <2>2. \A k \in Points : stored'[k] = stored[k]
    BY <1>t, <2>1 DEF Points, TypeOK, StoredRec
  <2>3. stored' \in StoredRec
    BY DEF TokenInv, TypeOK
  <2>4. /\ stored'.redirect = stored.redirect /\ stored'.refresh = stored.refresh
        /\ stored'.verifier = stored.verifier
    BY <1>t, <2>1 DEF TypeOK, StoredRec
  <2> QED
    BY <1>3, <2>1, <2>2, <2>4
<1>6. CASE Revoke
  BY <1>3, <1>6 DEF Revoke
<1>7. CASE UNCHANGED vars
  BY <1>3, <1>7 DEF vars
<1> QED
  BY <1>1, <1>2, <1>4, <1>5, <1>6, <1>7 DEF Environment

LEMMA DurableNext ==
  ASSUME DurableInv, [Next]_vars, TokenInv'
  PROVE  DurableInv'
  BY DurableBoot, DurableRenewal, DurableWrite, DurableRest DEF Next

\* DurableInv is inductive on top of TokenInv.
THEOREM DurableInvariant == Spec => []DurableInv
<1>1. DurableInv /\ [Next]_vars /\ TokenInv' => DurableInv'
  BY DurableNext
<1> QED
  BY DurableInit, TokenInvariant, <1>1, PTL DEF Spec

\* Every reachable state is well typed: whatever a handler still has to write
\* is a value of its data point, and the status is one of the documented four.
THEOREM TypeCorrect == Spec => []TypeOK
<1>1. TokenInv => TypeOK
  BY DEF TokenInv
<1> QED
  BY <1>1, TokenInvariant, PTL

\* An adapter that has started works with the refresh token a restart will find
\* (saveTokens), however often the loop renewed it and whatever failed.
THEOREM RestartFindsLogin == Spec => []LoginSurvivesRestart
<1>1. DurableInv => LoginSurvivesRestart
  <2> SUFFICES ASSUME DurableInv, At("boot", "ready"), At("reset", "idle")
               PROVE  stored.refresh = memory /\ memory # None
    BY DEF LoginSurvivesRestart
  <2>1. Will("refresh", memory) /\ memory # None
    BY DEF DurableInv, TokensKept, Resetting, At, LoggedInPCs, TokenInv, BootOK
  <2> QED
    BY <2>1, WillIs, StoredFields DEF At, DurableInv, TokenInv, TypeOK
<1> QED
  BY <1>1, DurableInvariant, PTL

\* The login URL shown to the user is always that of the stored verifier, and the
\* status says that the adapter waits (showLoginUrl), wherever a start, a failed
\* login or a reset before it was cut short.
THEOREM ShownUrlIsCurrent == Spec => []LoginUrlIsCurrent
<1>1. DurableInv => LoginUrlIsCurrent
  <2> SUFFICES ASSUME DurableInv, AwaitsUser
               PROVE  /\ stored.loginUrl # None
                      /\ stored.loginUrl = stored.verifier
                      /\ stored.status = "awaiting_login" /\ ~stored.connection
    BY DEF LoginUrlIsCurrent
  <2>1. PICK v \in Verifiers : /\ Will("loginUrl", v) /\ Will("verifier", v)
                               /\ Will("status", "awaiting_login")
                               /\ Will("connection", FALSE)
    BY DEF DurableInv, UrlKept, Resetting, AwaitsUser, At
  <2>2. /\ stored["loginUrl"] = v /\ stored["verifier"] = v
        /\ stored["status"] = "awaiting_login" /\ stored["connection"] = FALSE
    BY <2>1, WillIs DEF AwaitsUser, At
  <2> QED
    BY <2>2, StoredFields, NoneIsNoName DEF DurableInv, TokenInv, TypeOK
<1> QED
  BY <1>1, DurableInvariant, PTL

--------------------------------------------------------------------------------
(***************************************************************************)
(* The browser login.  As long as the last code the user got has not been  *)
(* redeemed, its verifier is the stored one and nobody is about to change  *)
(* it; a redirect pasted earlier, and read by this start, can at worst     *)
(* find its verifier dropped by a reset.                                   *)
(***************************************************************************)
CodeKept ==
  /\ code \in usable => /\ stored.verifier = code
                        /\ Lacks(handler["boot"].todo, "verifier")
  /\ handler["boot"].pc = "exchanged" => code \notin usable
  /\ handler["boot"].pc = "exchange" => handler["boot"].paste # None
  /\ stored.redirect \in usable => stored.verifier \in {stored.redirect, None}
  /\ handler["boot"].paste \in usable =>
       /\ handler["boot"].pc \in {"load", "silent"} =>
            stored.verifier \in {handler["boot"].paste, None}
       /\ handler["boot"].pc = "exchange" =>
            handler["boot"].verifier \in {handler["boot"].paste, None}

\* Nobody is asked to log in while the stored refresh token is good.
LoginOver ==
  ~Resetting /\ handler["boot"].pc \in {"showUrl", "exchange", "exchanged", "waiting"}
    => stored.refresh \notin accepted

CodeInv  == DurableInv /\ CodeKept
LoginInv == DurableInv /\ LoginOver

\* What any write leaves of the login in hand.
LEMMA WriteOfLogin ==
  ASSUME DurableInv, NEW h \in Handlers, Write(h)
  PROVE  /\ UNCHANGED <<accepted, usable, code>> /\ Resetting' = Resetting
         /\ handler'["boot"].pc = handler["boot"].pc
         /\ handler'["boot"].paste = handler["boot"].paste
         /\ handler'["boot"].verifier = handler["boot"].verifier
         /\ stored'.redirect \in {stored.redirect, None}
         /\ handler["boot"].pc # "waiting" => stored'.verifier \in {stored.verifier, None}
         /\ handler["boot"].pc = "waiting" => stored.redirect = None
         /\ ~Resetting /\ Lacks(handler["boot"].todo, "verifier") =>
              /\ stored'.verifier = stored.verifier
              /\ Lacks(handler'["boot"].todo, "verifier")
         /\ ~Resetting /\ handler["boot"].pc \in {"showUrl", "exchange", "exchanged", "waiting"}
              => stored'.refresh = stored.refresh
<1> USE HandlersKnown
<1>t. TypeOK
  BY DEF DurableInv, TokenInv
<1> DEFINE s == handler[h].todo
<1>s. s = handler[h].todo
  OBVIOUS
<1> HIDE DEF s
<1>w. /\ handler'[h].todo = Tail(s) /\ s # <<>> /\ s \in Seq(Writes)
      /\ \A g \in Handlers \ {h} : handler'[g] = handler[g]
      /\ UNCHANGED <<accepted, usable, code>>
  BY <1>t, <1>s, OneWrite
<1>a. \A g \in Handlers : /\ handler'[g].pc = handler[g].pc
                          /\ handler'[g].paste = handler[g].paste
                          /\ handler'[g].verifier = handler[g].verifier
  BY <1>t, <1>s, OneWrite
<1>k. \A k, x : /\ Lacks(s, k) => Lacks(Tail(s), k) /\ Head(s)[1] # k
                /\ Only(s, k, x) => (Head(s)[1] = k => Head(s)[2] = x)
  <2>1. s \in Seq(Writes) /\ s # <<>>
    BY <1>w
  <2> QED
    BY <2>1, OneWritten
<1>o. /\ stored'.refresh = IF Head(s)[1] = "refresh" THEN Head(s)[2] ELSE stored.refresh
      /\ stored'.verifier = IF Head(s)[1] = "verifier" THEN Head(s)[2] ELSE stored.verifier
      /\ stored'.redirect = IF Head(s)[1] = "redirect" THEN Head(s)[2] ELSE stored.redirect
  BY <1>t, <1>s, OneWrite
<1>h. /\ h = "renewal" => handler["boot"].pc = "ready"
      /\ h = "reset" => Resetting
  <2>1. h = "renewal" => handler["boot"].pc = "ready"
    BY <1>w, LoopSilent DEF s
  <2>2. h = "reset" => Resetting
    BY <1>w DEF DurableInv, OtherWrites, s
  <2> QED
    BY <2>1, <2>2
<1>1. Resetting' = Resetting
  BY <1>a DEF Resetting
<1>2. stored'.redirect \in {stored.redirect, None}
  <2>1. Only(s, "redirect", None)
    BY LacksOnly DEF DurableInv, BootWrites, OtherWrites, Handlers, s
  <2> QED
    BY <1>k, <1>o, <2>1
<1>3. handler["boot"].pc # "waiting" => stored'.verifier \in {stored.verifier, None}
  <2>1. handler["boot"].pc # "waiting" => Only(s, "verifier", None)
    BY LacksOnly DEF DurableInv, BootWrites, OtherWrites, Handlers, s
  <2> QED
    BY <1>k, <1>o, <2>1
<1>4. handler["boot"].pc = "waiting" => stored.redirect = None
  <2>1. handler["boot"].pc = "waiting" => Will("redirect", None)
                                          /\ Lacks(handler["boot"].todo, "redirect")
    BY DEF DurableInv, RedirectKept, BootWrites
  <2>2. handler["boot"].pc = "waiting" => stored["redirect"] = None
    BY <2>1, LacksOnly DEF Will
  <2> QED
    BY <2>2, <1>t, StoredFields DEF TypeOK
<1>5. ~Resetting /\ Lacks(handler["boot"].todo, "verifier") =>
        /\ stored'.verifier = stored.verifier
        /\ Lacks(handler'["boot"].todo, "verifier")
  <2> SUFFICES ASSUME ~Resetting, Lacks(handler["boot"].todo, "verifier")
               PROVE  /\ stored'.verifier = stored.verifier
                      /\ Lacks(handler'["boot"].todo, "verifier")
    OBVIOUS
  <2>1. CASE h = "boot"
    <3>1. handler["boot"].todo = s /\ handler'["boot"].todo = Tail(s)
      BY <1>w, <2>1 DEF s
    <3> QED
      BY <1>k, <1>o, <3>1
  <2>2. CASE h = "renewal"
    <3>1. Lacks(s, "verifier") /\ handler'["boot"] = handler["boot"]
      BY <1>w, <2>2 DEF DurableInv, OtherWrites, s
    <3> QED
      BY <1>k, <1>o, <3>1
  <2> QED
    BY <1>h, <2>1, <2>2 DEF Handlers
<1>6. ASSUME ~Resetting,
             handler["boot"].pc \in {"showUrl", "exchange", "exchanged", "waiting"}
      PROVE  stored'.refresh = stored.refresh
  <2>1. h = "boot" /\ handler["boot"].pc \in {"showUrl", "waiting"}
    BY <1>h, <1>w, <1>6 DEF DurableInv, BootWrites, Handlers, s
  <2>2. Lacks(s, "refresh")
    BY <2>1 DEF DurableInv, BootWrites, s
  <2> QED
    BY <1>k, <1>o, <2>2
<1> QED
  BY <1>w, <1>a, <1>1, <1>2, <1>3, <1>4, <1>5, <1>6

\* The refresh loop touches neither.
LEMMA LoopLeavesBoot ==
  ASSUME DurableInv, Renewal
  PROVE  /\ handler'["boot"] = handler["boot"] /\ handler'["reset"] = handler["reset"]
         /\ UNCHANGED <<stored, accepted, usable, code>>
<1>t. handler \in [Handlers -> HandlerRec]
  BY DEF DurableInv, TokenInv, TypeOK
<1>1. ASSUME NEW p, NEW s, NEW l,
             Goto("renewal", p, s) \/ Enter("renewal", p, s, l) \/ UNCHANGED handler
      PROVE  handler'["boot"] = handler["boot"] /\ handler'["reset"] = handler["reset"]
  BY <1>1, <1>t, HandlersKnown DEF Goto, Enter
<1>2. UNCHANGED <<stored, accepted, usable, code>>
  BY DEF Renewal, RenewalFires, Renewed, Rearm, RenewalFails, RenewalRejected, cloudVars
<1>3. \E p, s, l : Goto("renewal", p, s) \/ Enter("renewal", p, s, l) \/ UNCHANGED handler
  BY DEF Renewal, RenewalFires, Renewed, Rearm, RenewalFails, RenewalRejected
<1> QED
  BY <1>1, <1>2, <1>3

LEMMA CodeBoot ==
  ASSUME CodeInv, Boot, "exchangeFails" \notin Faults
  PROVE  CodeKept'
<1> USE HandlersKnown
<1> DEFINE b == handler["boot"]
           c == handler'["boot"]
<1>t. TypeOK
  BY DEF CodeInv, DurableInv, TokenInv
<1>u. usable \subseteq Verifiers /\ None \notin usable
  BY <1>t, NoneIsNoName DEF TypeOK
<1>0. CASE Start
  <2>1. ASSUME NEW r \in HandlerRec, NEW v, NEW s
        PROVE  LET n == [r EXCEPT !.pc = "load", !.paste = v, !.todo = s]
               IN n.pc = "load" /\ n.paste = v /\ n.todo = s
    BY DEF HandlerRec
  <2> DEFINE s == <<<<"connection", FALSE>>>>
  <2>2. c = [Idle EXCEPT !.pc = "load", !.paste = stored.redirect, !.todo = s]
    BY <1>0 DEF Start
  <2>3. Lacks(s, "verifier") /\ UNCHANGED <<stored, code, usable>>
    BY <1>0, PlainWrites DEF Start, cloudVars
  <2> HIDE DEF s
  <2>4. c.pc = "load" /\ c.paste = stored.redirect /\ c.todo = s
    BY <2>1, <2>2, OffTyped
  <2> QED
    BY <2>3, <2>4 DEF CodeInv, CodeKept
<1> SUFFICES ASSUME ~Start PROVE CodeKept'
  BY <1>0
<1>b. BootOnly
  BY BootEffects DEF CodeInv, DurableInv
<1>e. \/ ReadsTokens \/ ReadsRefresh \/ FallsBack \/ Refreshed \/ ShowsUrl
      \/ Redeems \/ LogsIn \/ Fails \/ GoesOn
  BY BootEffects DEF CodeInv, DurableInv
\* The last code, before a login: it is the one in hand.
<1>c. code \in usable /\ b.pc = "exchange" =>
        /\ b.verifier = code /\ stored.redirect = b.paste
        /\ b.paste = code
  <2> SUFFICES ASSUME code \in usable, b.pc = "exchange"
               PROVE  /\ b.verifier = code /\ stored.redirect = b.paste
                      /\ b.paste = code
    OBVIOUS
  <2>1. ~Resetting
    BY <1>u DEF CodeInv, DurableInv, OtherWrites
  <2>2. b.verifier = code
    BY <2>1 DEF CodeInv, CodeKept, DurableInv, UrlKept
  <2>3. stored.redirect = b.paste /\ b.paste # None
    BY <2>1 DEF CodeInv, CodeKept, DurableInv, RedirectKept
  <2> QED
    BY <1>u, <2>2, <2>3 DEF CodeInv, DurableInv, RedirectKept
<1>1. CASE ReadsTokens \/ ReadsRefresh
  BY <1>1, <1>b, NothingWritten DEF ReadsTokens, ReadsRefresh, BootOnly, CodeInv, CodeKept
<1>2. CASE FallsBack
  BY <1>2, <1>b, NothingWritten DEF FallsBack, BootOnly, CodeInv, CodeKept
<1>3. CASE Refreshed
  <2>1. Lacks(c.todo, "verifier")
    BY <1>3, SaveWrites DEF Refreshed
  <2> QED
    BY <1>3, <1>b, <2>1 DEF Refreshed, BootOnly, CodeInv, CodeKept
<1>4. CASE ShowsUrl
  <2>1. PICK v \in Verifiers :
          \/ v = stored.verifier /\ c.todo = LoginUrlWrites(v)
          \/ stored.verifier = None
    BY <1>4 DEF ShowsUrl
  <2>2. usable' \subseteq usable /\ c.pc = "waiting"
    BY <1>4 DEF ShowsUrl
  <2>3. code' \in usable' => /\ stored'.verifier = code'
                             /\ Lacks(c.todo, "verifier")
    BY <1>b, <1>u, <2>1, <2>2, UrlWrites DEF BootOnly, CodeInv, CodeKept
  <2> QED
    BY <1>b, <2>2, <2>3 DEF BootOnly, CodeInv, CodeKept
<1>5. CASE Redeems
  <2>1. code' \notin usable'
    BY <1>5, <1>b, <1>c DEF Redeems, BootOnly
  <2> QED
    BY <1>5, <1>b, <2>1 DEF Redeems, BootOnly, CodeInv, CodeKept
<1>6. CASE LogsIn
  BY <1>6, <1>b DEF LogsIn, BootOnly, CodeInv, CodeKept
<1>7. CASE Fails
  <2>1. code \notin usable
    BY <1>7, <1>c DEF Fails, Redeemable
  <2> QED
    BY <1>7, <1>b, <2>1 DEF Fails, BootOnly, CodeInv, CodeKept
<1>8. CASE GoesOn
  BY <1>8, <1>b DEF GoesOn, BootOnly, CodeInv, CodeKept
<1> QED
  BY <1>e, <1>1, <1>2, <1>3, <1>4, <1>5, <1>6, <1>7, <1>8

\* Where the user is awaited, the URL he opens is that of the stored verifier.
LEMMA WaitingForUser ==
  ASSUME DurableInv, AwaitsUser
  PROVE  stored.loginUrl = stored.verifier /\ stored.redirect = None
<1>1. PICK v \in Verifiers : Will("loginUrl", v) /\ Will("verifier", v)
  BY DEF DurableInv, UrlKept, Resetting, AwaitsUser, At
<1>2. Will("redirect", None)
  BY DEF DurableInv, RedirectKept, AwaitsUser, At
<1>3. stored["loginUrl"] = v /\ stored["verifier"] = v /\ stored["redirect"] = None
  BY <1>1, <1>2, WillIs DEF AwaitsUser, At
<1> QED
  BY <1>3, StoredFields DEF DurableInv, TokenInv, TypeOK

LEMMA CodeRest ==
  ASSUME CodeInv, ResetDone \/ Environment \/ UNCHANGED vars
  PROVE  CodeKept'
<1> USE HandlersKnown
<1>t. TypeOK
  BY DEF CodeInv, DurableInv, TokenInv
<1>u. usable \subseteq Verifiers /\ None \notin usable
  BY <1>t, NoneIsNoName DEF TypeOK
<1>1. CASE ResetDone \/ Stop \/ UserPastes
  <2>1. /\ handler'["boot"].todo = <<>> /\ handler'["boot"].pc = "off"
        /\ UNCHANGED <<usable, code>>
    BY <1>1, DownEffect DEF ResetDone, Stop, UserPastes, Off, cloudVars
  <2>2. CASE ResetDone \/ Stop
    BY <2>1, <2>2, NothingWritten DEF ResetDone, Stop, CodeInv, CodeKept
  <2>3. CASE UserPastes
    <3>1. stored'.redirect = code /\ stored'.verifier = stored.verifier
      BY <1>t, <2>3 DEF UserPastes, TypeOK, StoredRec
    <3> QED
      BY <2>1, <3>1, NothingWritten DEF CodeInv, CodeKept
  <2> QED
    BY <1>1, <2>2, <2>3
<1>2. CASE ResetLogin
  BY <1>2, <1>t, <1>u, ResetEffect DEF CodeInv, CodeKept
<1>3. CASE UserLogsIn
  <2>1. /\ stored.loginUrl # None /\ code' = stored.loginUrl
        /\ usable' = usable \cup {stored.loginUrl}
        /\ UNCHANGED <<stored, handler>> /\ AwaitsUser
    BY <1>3 DEF UserLogsIn
  <2>2. stored.loginUrl = stored.verifier /\ stored.redirect = None
    BY <2>1, WaitingForUser DEF CodeInv
  <2>3. handler["boot"].pc = "waiting" /\ handler["boot"].todo = <<>>
    BY <2>1 DEF AwaitsUser, At
  <2> QED
    BY <1>u, <2>1, <2>2, <2>3, NothingWritten DEF CodeKept
<1>4. CASE Expire
  <2>1. /\ stored'.redirect = stored.redirect /\ stored'.verifier = stored.verifier
        /\ UNCHANGED <<handler, usable, code>>
    BY <1>4, <1>t DEF Expire, TypeOK, StoredRec, cloudVars
  <2> QED
    BY <2>1 DEF CodeInv, CodeKept
<1>5. CASE Revoke \/ UNCHANGED vars
  BY <1>5 DEF Revoke, vars, cloudVars, CodeInv, CodeKept
<1> QED
  BY <1>1, <1>2, <1>3, <1>4, <1>5 DEF Environment

LEMMA CodeWrite ==
  ASSUME CodeInv, NEW h \in Handlers, Write(h)
  PROVE  CodeKept'
<1>t. TypeOK
  BY DEF CodeInv, DurableInv, TokenInv
<1>u. usable \subseteq Verifiers /\ None \notin usable
  BY <1>t, NoneIsNoName DEF TypeOK
<1>1. code \in usable => ~Resetting
  BY <1>u DEF CodeInv, DurableInv, OtherWrites
<1> QED
  BY <1>1, <1>u, WriteOfLogin DEF CodeInv, CodeKept

LEMMA CodeNext ==
  ASSUME CodeInv, [Next]_vars, DurableInv', "exchangeFails" \notin Faults
  PROVE  CodeInv'
<1>1. CASE Renewal
  <2>1. CodeKept'
    BY <1>1, LoopLeavesBoot DEF CodeInv, CodeKept
  <2> QED
    BY <2>1 DEF CodeInv
<1>2. CASE ~Renewal
  <2>1. CodeKept'
    BY <1>2, CodeBoot, CodeWrite, CodeRest DEF Next
  <2> QED
    BY <2>1 DEF CodeInv
<1> QED
  BY <1>1, <1>2

\* A code the user was given is never exchanged with a verifier it was not made
\* for (the comment at showLoginUrl), whichever restarts, resets and failed
\* starts lie between, as long as no exchange is lost on its way to Bosch: the
\* verifier of a failed exchange is dropped with its code still good (README).
THEOREM CodesMeetVerifiers ==
  ASSUME "exchangeFails" \notin Faults
  PROVE  Spec => []CodeMeetsItsVerifier
<1>1. Init /\ DurableInv => CodeInv
  <2> SUFFICES ASSUME Init, DurableInv PROVE CodeKept
    BY DEF CodeInv
  <2> QED
    BY HandlersKnown DEF Init, Off, CodeKept
<1>2. CodeInv /\ [Next]_vars /\ DurableInv' => CodeInv'
  BY CodeNext
<1>3. CodeInv => CodeMeetsItsVerifier
  BY DEF CodeInv, CodeKept, CodeMeetsItsVerifier, At
<1> QED
  BY DurableInvariant, <1>1, <1>2, <1>3, PTL DEF Spec

LEMMA LoginNext ==
  ASSUME LoginInv, [Next]_vars, DurableInv', "silentFails" \notin Faults
  PROVE  LoginInv'
<1> USE HandlersKnown
<1> DEFINE pcs == {"showUrl", "exchange", "exchanged", "waiting"}
<1>t. /\ TypeOK /\ accepted \subseteq Logins /\ None \notin accepted
      /\ stored.refresh \in Logins \cup {None}
  BY NoneIsNoName DEF LoginInv, DurableInv, TokenInv, TypeOK, StoredRec
<1>1. CASE Boot
  <2>1. CASE Start
    <3>1. ASSUME NEW r \in HandlerRec, NEW v, NEW s
          PROVE  [r EXCEPT !.pc = "load", !.paste = v, !.todo = s].pc = "load"
      BY DEF HandlerRec
    <3>2. handler'["boot"].pc = "load"
      BY <2>1, <3>1, OffTyped DEF Start
    <3> QED
      BY <3>2 DEF LoginInv, LoginOver
  <2> SUFFICES ASSUME ~Start PROVE LoginInv'
    BY <2>1
  <2>b. BootOnly
    BY <1>1, BootEffects DEF LoginInv, DurableInv
  <2>e. \/ ReadsTokens \/ ReadsRefresh \/ FallsBack \/ Refreshed \/ ShowsUrl
        \/ Redeems \/ LogsIn \/ Fails \/ GoesOn
    BY <1>1, BootEffects DEF LoginInv, DurableInv
  <2>r. Resetting' = Resetting /\ stored' = stored
    BY <2>b DEF BootOnly, Resetting
  <2>2. CASE ReadsTokens \/ ReadsRefresh \/ Refreshed \/ LogsIn \/ GoesOn
    <3>1. handler'["boot"].pc \notin pcs
      BY <2>2 DEF ReadsTokens, ReadsRefresh, Refreshed, LogsIn, GoesOn
    <3> QED
      BY <3>1 DEF LoginInv, LoginOver
  <2>3. CASE FallsBack
    <3>1. ~Resetting => stored.refresh \notin accepted
      BY <2>3, <1>t DEF FallsBack, LoginInv, DurableInv, TokensKept
    <3> QED
      BY <2>3, <2>r, <3>1 DEF FallsBack, LoginInv, LoginOver
  <2>4. CASE ShowsUrl \/ Fails
    <3>1. handler["boot"].pc \in pcs /\ accepted' = accepted
      BY <2>4 DEF ShowsUrl, Fails
    <3> QED
      BY <2>r, <3>1 DEF LoginInv, LoginOver
  <2>5. CASE Redeems
    <3>1. PICK l \in UnusedLogins : accepted' = (accepted \ UnusedLogins) \cup {l}
      BY <2>5 DEF Redeems
    <3>2. stored.refresh \notin UnusedLogins
      BY DEF UnusedLogins
    <3>3. stored.refresh \notin accepted => stored.refresh \notin accepted'
      BY <3>1, <3>2
    <3> QED
      BY <2>5, <2>r, <3>3 DEF Redeems, LoginInv, LoginOver
  <2> QED
    BY <2>e, <2>2, <2>3, <2>4, <2>5
<1>2. CASE Renewal
  <2>1. /\ handler'["boot"] = handler["boot"] /\ handler'["reset"] = handler["reset"]
        /\ UNCHANGED <<stored, accepted>>
    BY <1>2, LoopLeavesBoot DEF LoginInv
  <2> QED
    BY <2>1 DEF LoginInv, LoginOver, Resetting
<1>3. CASE \E h \in Handlers : Write(h)
  BY <1>3, WriteOfLogin DEF LoginInv, LoginOver
<1>4. CASE ResetDone \/ Stop \/ UserPastes
  <2>1. handler'["boot"].pc = "off"
    BY <1>4, DownEffect DEF ResetDone, Stop, UserPastes, Off
  <2> QED
    BY <2>1 DEF LoginInv, LoginOver
<1>5. CASE ResetLogin
  BY <1>5, <1>t, ResetEffect DEF LoginInv, LoginOver, Resetting
<1>6. CASE UserLogsIn \/ Expire \/ Revoke \/ UNCHANGED vars
  <2>1. handler' = handler /\ accepted' \subseteq accepted
    BY <1>6 DEF UserLogsIn, Expire, Revoke, vars, cloudVars
  <2>2. stored'.refresh = stored.refresh
    BY <1>6, <1>t DEF UserLogsIn, Expire, Revoke, vars, TypeOK, StoredRec
  <2> QED
    BY <2>1, <2>2 DEF LoginInv, LoginOver, Resetting
<1> QED
  BY <1>1, <1>2, <1>3, <1>4, <1>5, <1>6 DEF Next, Environment

\* Nobody is sent through the browser login while the stored refresh token is
\* still good, wherever between two writes the process was stopped before, unless
\* the silent refresh fails for another reason than the token: onReady asks for
\* a browser login then, whatever the error was (README).
THEOREM NoLoginWithoutNeed ==
  ASSUME "silentFails" \notin Faults
  PROVE  Spec => []NoNeedlessLogin
<1>1. Init /\ DurableInv => LoginInv
  BY HandlersKnown DEF Init, Off, LoginInv, LoginOver
<1>2. LoginInv /\ [Next]_vars /\ DurableInv' => LoginInv'
  BY LoginNext
<1>3. LoginInv => NoNeedlessLogin
  BY DEF LoginInv, LoginOver, NoNeedlessLogin, AwaitsUser, At, Resetting
<1> QED
  BY DurableInvariant, <1>1, <1>2, <1>3, PTL DEF Spec

================================================================================
