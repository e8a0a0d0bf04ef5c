---------------------------- MODULE TokenLifecycle ----------------------------
(***************************************************************************)
(* The adapter's login to Bosch: start-up with stored tokens, the silent   *)
(* refresh, the browser login with its PKCE verifier and pasted redirect   *)
(* (onReady, showLoginUrl, handleRedirectPaste), the refresh loop          *)
(* (scheduleTokenRefresh) and the user's reset (onMessage).                *)
(*                                                                         *)
(* What these handlers know survives a restart in data points that are     *)
(* written one awaited call at a time.  The process may be stopped between *)
(* any two writes (a crash, the host, or ioBroker restarting an instance   *)
(* whose configuration changed), and the handlers' writes interleave.      *)
(*                                                                         *)
(* A login is one offline session at Bosch's Keycloak: an access token     *)
(* and a refresh token are named by the login they belong to, and a        *)
(* refresh answers with tokens of the same login.  An authorization code   *)
(* is named by the verifier whose challenge was in the login URL.          *)
(***************************************************************************)
EXTENDS Naturals, Sequences, FiniteSets

CONSTANTS
  Logins,     \* names for logins
  Verifiers,  \* names for PKCE pairs
  Kinds,      \* what the environment does here, a subset of AllKinds
  Faults,     \* what can go wrong here, a subset of AllFaults
  None        \* an empty data point, or no value

AllKinds  == {"stop", "login", "reset", "revoke", "expire"}
AllFaults == {"discoveryFails", "silentFails", "exchangeFails", "renewalFails"}
Handlers  == {"boot", "renewal", "reset"}
Statuses  == {"logged_out", "awaiting_login", "connected", "auth_error"}

ASSUME NoneIsNoName     == None \notin Logins /\ None \notin Verifiers
ASSUME KindsAreKnown    == Kinds \subseteq AllKinds
ASSUME FaultsAreKnown   == Faults \subseteq AllFaults

VARIABLES
  stored,    \* what survives a restart: the info.* data points, redirect_url
  memory,    \* _currentRefreshToken
  armed,     \* _refreshTimeout is set
  handler,   \* the handlers under way
  accepted,  \* logins whose refresh token Bosch accepts
  code,      \* the code in the redirect the user's browser was last sent to
  usable     \* codes that have not been redeemed

vars == <<stored, memory, armed, handler, accepted, code, usable>>
cloudVars == <<accepted, usable>>

StoredRec == [access : Logins \cup {None}, refresh : Logins \cup {None},
              expires : {None, "past", "future"},
              verifier : Verifiers \cup {None},   \* with pkce_state
              loginUrl : Verifiers \cup {None},
              redirect : Verifiers \cup {None},
              connection : BOOLEAN, status : Statuses]

(***************************************************************************)
(* A handler under way: the await it is suspended at (pc), the writes it   *)
(* still has to make, one awaited call each, before it gets there (todo),  *)
(* and the locals that live across awaits: the tokens it works with, the   *)
(* pasted redirect of this start's configuration, the verifier it read.    *)
(***************************************************************************)
PCs == {"off", "idle",
        "load", "silent", "exchange", "exchanged", "showUrl",
        "discover", "retry", "rediscover", "arm",      \* onReady
        "ready", "waiting", "gaveUp",                  \* onReady has returned
        "renewing", "rearm",                           \* the refresh loop
        "resetting"}                                   \* resetLogin

\* One awaited write: the data point, and its new value.
Writes == ({"access", "refresh"} \X (Logins \cup {None}))
  \cup ({"verifier", "loginUrl", "redirect"} \X (Verifiers \cup {None}))
  \cup ({"expires"} \X {None, "future"})
  \cup ({"connection"} \X BOOLEAN) \cup ({"status"} \X Statuses)
HandlerRec == [pc : PCs, todo : Seq(Writes), login : Logins \cup {None},
               paste : Verifiers \cup {None}, verifier : Verifiers \cup {None}]

Off  == [pc |-> "off", todo |-> <<>>, login |-> None, paste |-> None,
         verifier |-> None]
Idle == [Off EXCEPT !.pc = "idle"]

Init ==
  /\ stored = [access |-> None, refresh |-> None, expires |-> None,
               verifier |-> None, loginUrl |-> None, redirect |-> None,
               connection |-> FALSE, status |-> "logged_out"]
  /\ memory = None /\ armed = FALSE
  /\ handler = [h \in Handlers |-> Off]
  /\ accepted = {} /\ code = None /\ usable = {}

Up       == handler["boot"].pc # "off"
At(h, p) == handler[h].pc = p /\ handler[h].todo = <<>>

\* Handler h goes on to p, once it has made these writes.
Goto(h, p, writes) ==
  handler' = [handler EXCEPT ![h].pc = p, ![h].todo = writes]
Enter(h, p, writes, l) ==
  handler' = [handler EXCEPT ![h].pc = p, ![h].todo = writes, ![h].login = l]

\* A write reaches the ioBroker database.
Write(h) ==
  /\ handler[h].todo # <<>>
  /\ LET w == Head(handler[h].todo)
     IN stored' = [stored EXCEPT ![w[1]] = w[2]]
  /\ handler' = [handler EXCEPT ![h].todo = Tail(@)]
  /\ UNCHANGED <<memory, armed, cloudVars, code>>

\* saveTokens: the tokens in memory at once, then the data points.
SaveWithoutRefresh(l) ==   \* mutated: only the access token is stored
  <<<<"access", l>>, <<"expires", "future">>, <<"status", "connected">>>>
Save(l) == <<<<"access", l>>, <<"refresh", l>>, <<"expires", "future">>,
             <<"status", "connected">>>>

\* Names nothing refers to any more are given out again.
UnusedLogins ==
  Logins \ ({stored.access, stored.refresh, memory}
              \cup {handler[h].login : h \in Handlers})
UnusedVerifiers ==
  Verifiers \ {stored.verifier, stored.loginUrl, stored.redirect, code,
               handler["boot"].paste, handler["boot"].verifier}

(***************************************************************************)
(* onReady                                                                 *)
(***************************************************************************)

\* The process starts: config.redirect_url as it is now, connection = false.
Start ==
  /\ ~Up
  /\ handler' = [h \in Handlers |->
                   IF h = "boot"
                     THEN [Idle EXCEPT !.pc = "load", !.paste = stored.redirect,
                                       !.todo = <<<<"connection", FALSE>>>>]
                     ELSE Idle]
  /\ UNCHANGED <<stored, memory, armed, cloudVars, code>>

\* No tokens: exchange the pasted redirect, or show the login URL.
NoTokens ==
  LET p == IF handler["boot"].paste = None THEN "showUrl" ELSE "exchange"
  IN handler' = [handler EXCEPT !["boot"].pc = p, !["boot"].login = None,
                                !["boot"].verifier = stored.verifier]

\* loadStoredTokens, and what onReady makes of them.
TokensValid == /\ stored.access # None /\ stored.refresh # None
               /\ stored.expires = "future"
LoadTokensOnly ==   \* mutated: no silent refresh of an expired access token
  /\ At("boot", "load")
  /\ \/ /\ TokensValid
        /\ memory' = stored.refresh
        /\ Enter("boot", "discover", <<>>, stored.refresh)
     \/ /\ ~TokensValid
        /\ NoTokens
        /\ UNCHANGED memory
  /\ UNCHANGED <<stored, armed, cloudVars, code>>
Load ==
  /\ At("boot", "load")
  /\ \/ /\ TokensValid
        /\ memory' = stored.refresh
        /\ Enter("boot", "discover", <<>>, stored.refresh)
     \/ /\ ~TokensValid /\ stored.refresh # None
        /\ Enter("boot", "silent", <<>>, stored.refresh)
        /\ UNCHANGED memory
     \/ /\ ~TokensValid /\ stored.refresh = None
        /\ NoTokens
        /\ UNCHANGED memory
  /\ UNCHANGED <<stored, armed, cloudVars, code>>

\* refreshAccessToken is answered with new tokens of login l.
Refreshes(l) == l \in accepted /\ memory' = l

SilentRefresh ==
  /\ At("boot", "silent")
  /\ Refreshes(handler["boot"].login)
  /\ Goto("boot", "discover", Save(handler["boot"].login))
  /\ UNCHANGED <<stored, armed, cloudVars, code>>

\* It throws or returns null: either way the browser login is next.
SilentRefreshFails ==
  /\ At("boot", "silent")
  /\ handler["boot"].login \notin accepted \/ "silentFails" \in Faults
  /\ NoTokens
  /\ UNCHANGED <<stored, memory, armed, cloudVars, code>>

(***************************************************************************)
(* The browser login                                                       *)
(***************************************************************************)

\* showLoginUrl: the stored verifier if there is one, a new one otherwise.
\* (After LoginFails connection is FALSE already and is not written again.)
LoginUrlWrites(v) == <<<<"loginUrl", v>>, <<"status", "awaiting_login">>,
                       <<"connection", FALSE>>>>
ShowLoginUrlUnstored ==   \* mutated: a new verifier is not stored
  /\ At("boot", "showUrl")
  /\ \E v \in IF stored.verifier # None THEN {stored.verifier}
                                         ELSE UnusedVerifiers :
       /\ usable' = IF v = stored.verifier THEN usable ELSE usable \ {v}
       /\ Goto("boot", "waiting", LoginUrlWrites(v))
  /\ UNCHANGED <<stored, memory, armed, accepted, code>>
ShowLoginUrlFresh ==   \* mutated: a new verifier at every start
  /\ At("boot", "showUrl")
  /\ \E v \in UnusedVerifiers :
       /\ usable' = usable \ {v}
       /\ Goto("boot", "waiting", <<<<"verifier", v>>>> \o LoginUrlWrites(v))
  /\ UNCHANGED <<stored, memory, armed, accepted, code>>
ShowLoginUrl ==
  /\ At("boot", "showUrl")
  /\ \/ /\ stored.verifier # None
        /\ Goto("boot", "waiting", LoginUrlWrites(stored.verifier))
        /\ UNCHANGED usable
     \/ /\ stored.verifier = None
        /\ \E v \in UnusedVerifiers :
             /\ usable' = usable \ {v}   \* the name's earlier use is over
             /\ Goto("boot", "waiting", <<<<"verifier", v>>>> \o LoginUrlWrites(v))
  /\ UNCHANGED <<stored, memory, armed, accepted, code>>

\* Keycloak redeems the code of the pasted redirect for its verifier.
Redeemable == /\ handler["boot"].verifier = handler["boot"].paste
              /\ handler["boot"].paste \in usable
RedeemCode ==
  /\ At("boot", "exchange") /\ Redeemable
  /\ usable' = usable \ {handler["boot"].paste}
  /\ \E l \in UnusedLogins :
       /\ accepted' = (accepted \ UnusedLogins) \cup {l}
       /\ Enter("boot", "exchanged", <<>>, l)
  /\ UNCHANGED <<stored, memory, armed, code>>

\* handleRedirectPaste: save the tokens, then clear what led to them.
LoggedIn ==
  /\ At("boot", "exchanged")
  /\ memory' = handler["boot"].login
  /\ Goto("boot", "discover",
          Save(handler["boot"].login) \o
            <<<<"redirect", None>>, <<"verifier", None>>, <<"loginUrl", None>>>>)
  /\ UNCHANGED <<stored, armed, cloudVars, code>>

\* It throws: the paste and the verifier are dropped, a new URL is shown.
LoginFailsOtherStatus ==   \* mutated: a status no document names
  /\ \/ At("boot", "exchange") /\ (~Redeemable \/ "exchangeFails" \in Faults)
     \/ At("boot", "exchanged") /\ "exchangeFails" \in Faults
  /\ Enter("boot", "showUrl",
           <<<<"redirect", None>>, <<"verifier", None>>,
             <<"connection", FALSE>>, <<"status", "login_failed">>>>, None)
  /\ UNCHANGED <<stored, memory, armed, cloudVars, code>>
LoginFails ==
  /\ \/ At("boot", "exchange") /\ (~Redeemable \/ "exchangeFails" \in Faults)
     \/ At("boot", "exchanged") /\ "exchangeFails" \in Faults
  /\ Enter("boot", "showUrl",
           <<<<"redirect", None>>, <<"verifier", None>>,
             <<"connection", FALSE>>, <<"status", "auth_error">>>>, None)
  /\ UNCHANGED <<stored, memory, armed, cloudVars, code>>

(***************************************************************************)
(* Camera discovery, and what follows it                                   *)
(***************************************************************************)

Discovered ==
  /\ At("boot", "discover") \/ At("boot", "rediscover")
  /\ Goto("boot", "arm", <<<<"connection", TRUE>>, <<"status", "connected">>>>)
  /\ UNCHANGED <<stored, memory, armed, cloudVars, code>>

\* 401: the access token has expired meanwhile, or its login was revoked.
DiscoveryRejected ==
  /\ At("boot", "discover")
  /\ handler["boot"].login \notin accepted \/ stored.expires # "future"
  /\ Goto("boot", "retry", <<>>)
  /\ UNCHANGED <<stored, memory, armed, cloudVars, code>>

RetryRefresh ==
  /\ At("boot", "retry")
  /\ Refreshes(handler["boot"].login)
  /\ Goto("boot", "rediscover", Save(handler["boot"].login))
  /\ UNCHANGED <<stored, armed, cloudVars, code>>

\* onReady returns early: the process stays up and tries nothing again.
DiscoveryFails ==
  /\ \/ At("boot", "discover") /\ "discoveryFails" \in Faults
     \/ At("boot", "retry") /\ \/ handler["boot"].login \notin accepted
                               \/ "silentFails" \in Faults
     \/ At("boot", "rediscover") /\ \/ handler["boot"].login \notin accepted
                                    \/ "discoveryFails" \in Faults
  /\ Enter("boot", "gaveUp", <<<<"connection", FALSE>>>>, None)
  /\ UNCHANGED <<stored, memory, armed, cloudVars, code>>

ArmRefresh ==
  /\ At("boot", "arm")
  /\ armed' = TRUE
  /\ Enter("boot", "ready", <<>>, None)
  /\ UNCHANGED <<stored, memory, cloudVars, code>>

(***************************************************************************)
(* The refresh loop                                                        *)
(***************************************************************************)

RenewalFires ==
  /\ armed /\ armed' = FALSE
  /\ IF memory = None
       THEN UNCHANGED handler
       ELSE Enter("renewal", "renewing", <<>>, memory)
  /\ UNCHANGED <<stored, memory, cloudVars, code>>

Renewed ==
  /\ At("renewal", "renewing")
  /\ Refreshes(handler["renewal"].login)
  /\ Goto("renewal", "rearm", Save(handler["renewal"].login))
  /\ UNCHANGED <<stored, armed, cloudVars, code>>

Rearm ==
  /\ At("renewal", "rearm")
  /\ armed' = TRUE
  /\ Enter("renewal", "idle", <<>>, None)
  /\ UNCHANGED <<stored, memory, cloudVars, code>>

\* No answer, or a server error: again in five minutes.
RenewalFailsForGood ==   \* mutated: an outage ends the loop
  /\ At("renewal", "renewing") /\ "renewalFails" \in Faults
  /\ Enter("renewal", "idle", <<>>, None)
  /\ UNCHANGED <<stored, memory, armed, cloudVars, code>>
RenewalFails ==
  /\ At("renewal", "renewing") /\ "renewalFails" \in Faults
  /\ armed' = TRUE
  /\ Enter("renewal", "idle", <<>>, None)
  /\ UNCHANGED <<stored, memory, cloudVars, code>>

\* 400 or 401: the loop ends, once the adapter says it is disconnected.
RenewalRejected ==
  /\ At("renewal", "renewing") /\ handler["renewal"].login \notin accepted
  /\ Enter("renewal", "idle", <<<<"connection", FALSE>>>>, None)
  /\ UNCHANGED <<stored, memory, armed, cloudVars, code>>

(***************************************************************************)
(* The user, the host and the cloud                                        *)
(***************************************************************************)

\* The process ends: timers, memory and handlers under way are gone.
Down == /\ handler' = [h \in Handlers |-> Off]
        /\ memory' = None /\ armed' = FALSE

Stop ==
  /\ "stop" \in Kinds /\ Up
  /\ Down
  /\ UNCHANGED <<stored, cloudVars, code>>

\* resetLogin.  The user starts over: a redirect he may still have is of no
\* interest to him any more.
ResetWrites == <<<<"access", None>>, <<"refresh", None>>, <<"expires", None>>,
                 <<"verifier", None>>, <<"loginUrl", None>>,
                 <<"connection", FALSE>>, <<"status", "logged_out">>,
                 <<"redirect", None>>>>
ResetLogin ==
  /\ "reset" \in Kinds /\ At("reset", "idle")
  /\ Goto("reset", "resetting", ResetWrites)
  /\ code' = None
  /\ UNCHANGED <<stored, memory, armed, cloudVars>>

ResetDone ==
  /\ At("reset", "resetting")
  /\ Down
  /\ UNCHANGED <<stored, cloudVars, code>>

\* The user opens the login URL while the adapter waits for him, and logs in.
AwaitsUser == At("boot", "waiting") /\ At("reset", "idle")
UserLogsIn ==
  /\ "login" \in Kinds
  /\ AwaitsUser /\ stored.loginUrl # None
  /\ code' = stored.loginUrl
  /\ usable' = usable \cup {stored.loginUrl}
  /\ UNCHANGED <<stored, memory, armed, handler, accepted>>

\* He pastes the redirect he got (again, perhaps) and saves the instance's
\* configuration, upon which ioBroker restarts it.
UserPastes ==
  /\ "login" \in Kinds
  /\ code # None /\ handler["reset"].pc # "resetting"
  /\ stored' = [stored EXCEPT !.redirect = code]
  /\ Down
  /\ UNCHANGED <<cloudVars, code>>

\* The access token's lifetime passes.
Expire ==
  /\ "expire" \in Kinds /\ stored.expires = "future"
  /\ stored' = [stored EXCEPT !.expires = "past"]
  /\ UNCHANGED <<memory, armed, handler, cloudVars, code>>

\* Bosch ends a login: a changed password, 30 days offline.
Revoke ==
  /\ "revoke" \in Kinds
  /\ \E l \in accepted : accepted' = accepted \ {l}
  /\ UNCHANGED <<stored, memory, armed, handler, usable, code>>

Boot ==
  \/ Start \/ Load \/ SilentRefresh \/ SilentRefreshFails
  \/ ShowLoginUrl \/ RedeemCode \/ LoggedIn \/ LoginFails
  \/ Discovered \/ DiscoveryRejected \/ RetryRefresh \/ DiscoveryFails
  \/ ArmRefresh
Renewal ==
  RenewalFires \/ Renewed \/ Rearm \/ RenewalFails \/ RenewalRejected
Environment ==
  \/ Stop \/ ResetLogin \/ UserLogsIn \/ UserPastes \/ Expire \/ Revoke
Next == \/ \E h \in Handlers : Write(h)
        \/ Boot \/ Renewal \/ ResetDone \/ Environment

Spec == Init /\ [][Next]_vars

--------------------------------------------------------------------------------

(***************************************************************************)
(* Properties                                                              *)
(***************************************************************************)

\* Every variable has its type; in particular connection_status only ever
\* shows one of its four documented values.
TypeOK ==
  /\ stored \in StoredRec
  /\ memory \in Logins \cup {None} /\ armed \in BOOLEAN
  /\ handler \in [Handlers -> HandlerRec]
  /\ accepted \subseteq Logins /\ usable \subseteq Verifiers
  /\ code \in Verifiers \cup {None}

\* While the adapter that has started says it is connected, its tokens are
\* going to be renewed: the refresh timer is armed or the refresh is under
\* way, never both, and there is a refresh token to renew them with.
RefreshAhead ==
  /\ At("boot", "ready") /\ stored.connection =>
       /\ memory # None
       /\ armed \/ ~At("renewal", "idle")
  /\ armed => At("renewal", "idle")

(***************************************************************************)
(* The inductive invariant behind it.  The loop starts with ArmRefresh; it *)
(* ends only through a write of connection = FALSE, and no handler but the *)
(* boot that armed the loop ever writes TRUE.                              *)
(***************************************************************************)
LoggedInPCs == {"discover", "retry", "rediscover", "arm", "ready"}

BootOK ==
  /\ handler["boot"].pc \in LoggedInPCs => memory # None
  /\ handler["boot"].pc = "exchanged" => handler["boot"].login # None
  /\ handler["boot"].pc = "ready" => handler["boot"].todo = <<>>

LoopOK ==
  /\ handler["renewal"].pc \in {"off", "idle", "renewing", "rearm"}
  /\ Up => handler["renewal"].pc # "off"
  /\ handler["renewal"].pc = "idle" =>
       handler["renewal"].todo \in {<<>>, <<<<"connection", FALSE>>>>}
  /\ handler["boot"].pc # "ready" =>
       /\ ~armed
       /\ handler["renewal"].pc = "off" \/ At("renewal", "idle")

OnlyBootConnects ==
  \A h \in {"renewal", "reset"} : \A i \in 1..Len(handler[h].todo) :
    handler[h].todo[i] # <<"connection", TRUE>>

TokenInv == TypeOK /\ RefreshAhead /\ BootOK /\ LoopOK /\ OnlyBootConnects

\* The login the adapter works with is the one a restart will find.
LoginSurvivesRestart ==
  At("boot", "ready") /\ At("reset", "idle") =>
    stored.refresh = memory /\ memory # None

\* While the adapter waits for the user, the login URL it shows belongs to the
\* verifier it will redeem the code with, and the status says so.
LoginUrlIsCurrent ==
  AwaitsUser => /\ stored.loginUrl # None
                /\ stored.loginUrl = stored.verifier
                /\ stored.status = "awaiting_login" /\ ~stored.connection

\* A code the user got from a login URL that was shown to him, and pasted
\* before it was redeemed, is never exchanged with another verifier, whatever
\* restarts lie between (the comment at showLoginUrl).
CodeMeetsItsVerifier ==
  At("boot", "exchange") /\ handler["boot"].paste \in usable
    /\ handler["boot"].verifier # None
      => handler["boot"].verifier = handler["boot"].paste

\* Nobody is sent through the browser login while the stored refresh token is
\* still good, wherever between two writes the process was stopped before.
NoNeedlessLogin == AwaitsUser => stored.refresh \notin accepted

================================================================================
