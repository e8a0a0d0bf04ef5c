------------------------------- MODULE RtspAuth -------------------------------
(***************************************************************************)
(* attachRtspAuthHandler (rtsp_auth.ts): the data flow of one client       *)
(* connection of the TLS proxy once the camera is connected, between a     *)
(* client that may not know the Digest credentials and a camera that asks  *)
(* for them.                                                               *)
(*                                                                         *)
(* TCP carries bytes; a chunk read from a socket may begin and end         *)
(* anywhere in a message.  What the code tells apart in the bytes is a     *)
(* unit here: the start line of a message ("line"), its blank line with    *)
(* the headers before it ("end"), and bytes that are no message, such as   *)
(* `$' frames ("data").  A request or an answer is a line and an end, and  *)
(* a chunk is any number of units.  A unit's header is what the code looks *)
(* for: whether a request carries Authorization, the status of an answer   *)
(* and the challenge in it.                                                *)
(***************************************************************************)
EXTENDS Naturals, Sequences, FiniteSets, FiniteSetsExt

CONSTANTS
  Clients,      \* kinds of clients: "plain" has no credentials, "own" has
  Cameras,      \* kinds of cameras, a subset of AllCameras
  DataFrom,     \* the kinds of clients that also send data
  Window,       \* requests a client sends ahead of its answers
  MaxMessages,  \* bound on what a client sends
  MaxFrames     \* bound on the frames the camera pushes

AllCameras ==
  {"digest",   \* asks for Digest credentials and takes the proxy's
   "refuses",  \* asks for them and refuses the proxy's
   "basic",    \* asks for something else, which only an "own" client has
   "open"}     \* answers the first request, OPTIONS, without credentials

ASSUME ClientsAssumption == Clients \subseteq {"plain", "own"} /\ DataFrom \subseteq Clients
ASSUME CamerasAssumption == Cameras \subseteq AllCameras
ASSUME BoundsAssumption  ==
  Window \in Nat \ {0} /\ MaxMessages \in Nat /\ MaxFrames \in Nat

VARIABLES
  client, camera,     \* who is connected, of Clients and Cameras
  mode,               \* mode
  clientBuf,          \* clientBuf
  remoteBuf,          \* remoteBuf
  pending,            \* pendingFirstRequest, <<>> for null
  challenge,          \* a challenge was parsed
  immediate,          \* a setImmediate is scheduled
  fromClient,         \* sent by the client, not yet read by the proxy
  toCamera,           \* written by the proxy, not yet taken by the camera
  fromCamera,         \* sent by the camera, not yet read by the proxy
  received,           \* written to the client
  sent, taken, said   \* history: the session as the two ends see it

proxyVars   == <<mode, clientBuf, remoteBuf, pending, challenge, immediate>>
sessionVars == <<sent, taken, said>>
vars == <<client, camera, proxyVars, fromClient, toCamera, fromCamera, received,
          sessionVars>>

Modes == {"DETECTING", "PASSTHROUGH", "AUTH_NEED", "AUTH_RESPONDING", "INJECTING"}

Unit(part, id, header) == [part |-> part, id |-> id, header |-> header]

(***************************************************************************)
(* The helpers of rtsp_auth.ts on a buffer of units.                       *)
(***************************************************************************)
\* Where a message ends, 0 for the code's -1.
Ends(buf) == {i \in DOMAIN buf : buf[i].part = "end"}
FindRtspMessageEndBefore(buf) ==   \* mutated: the blank line is left behind
  IF Ends(buf) = {} THEN 0 ELSE Min(Ends(buf)) - 1
FindRtspMessageEndLast(buf) ==     \* mutated: lastIndexOf
  IF Ends(buf) = {} THEN 0 ELSE Max(Ends(buf))
FindRtspMessageEnd(buf) == IF Ends(buf) = {} THEN 0 ELSE Min(Ends(buf))

Upto(buf, i)  == SubSeq(buf, 1, i)
After(buf, i) == SubSeq(buf, i + 1, Len(buf))

\* The start line is matched at the beginning of the buffer.
ParsesAsMessage(msg) == Head(msg).part = "line"

HasAuthorizationHeader(msg) == \E i \in DOMAIN msg : msg[i].header = "authorization"

\* The status of an answer, "none" for the code's null.
ParseResponseStatus(msg) ==
  IF ~ParsesAsMessage(msg) THEN "none"
  ELSE IF msg[Len(msg)].header \in {"digest", "refusal"} THEN "401" ELSE "200"

\* Only the challenge of a Digest scheme can be answered.
ParseDigestChallenge(msg) == msg[Len(msg)].header = "digest"

InjectAuthHeader(msg) == [msg EXCEPT ![Len(msg)].header = "authorization"]

\* The first unit after the message end before i.
MessageStart(buf, i) == Max({j + 1 : j \in {j \in Ends(buf) : j < i}} \cup {1})

InjectedRaw(buf) == Upto(buf, Max(Ends(buf) \cup {0}))   \* mutated: as it came

\* processClientBuffer in INJECTING: what it writes for the complete requests
\* of the buffer.  Whatever does not begin with a start line goes out raw.
Injected(buf) ==
  LET whole == Upto(buf, Max(Ends(buf) \cup {0}))
  IN  [i \in DOMAIN whole |->
         IF whole[i].part = "end" /\ whole[MessageStart(whole, i)].part = "line"
         THEN [whole[i] EXCEPT !.header = "authorization"]
         ELSE whole[i]]
Incomplete(buf) == After(buf, Max(Ends(buf) \cup {0}))

(***************************************************************************)
(* The session the two ends see, see RtspSession.                          *)
(***************************************************************************)
Accepts == camera \in {"digest", "open"} \/ (camera = "basic" /\ client = "own")

\* How many of the first i units complete an answer or are data.
Complete(buf, i) == Cardinality({j \in 1..i : buf[j].part # "line"})

Message(u) ==
  IF u.part = "data" THEN [kind |-> "frame", id |-> u.id]
  ELSE [kind |-> "answer", id |-> u.id, ok |-> u.header = "ok"]

\* What the client has heard: an answer when it is complete, and any data.
Heard ==
  [k \in 1..Complete(received, Len(received)) |->
     Message(received[CHOOSE i \in DOMAIN received :
                        received[i].part # "line" /\ Complete(received, i) = k])]

Session == INSTANCE RtspSession WITH accepts <- Accepts, heard <- Heard

AnswersHeard == Len(SelectSeq(Heard, LAMBDA m : m.kind = "answer"))
Requests     == Len(SelectSeq(sent, LAMBDA m : m.kind = "request"))

Init ==
  /\ client \in Clients /\ camera \in Cameras
  /\ mode = "DETECTING"
  /\ clientBuf = <<>> /\ remoteBuf = <<>> /\ pending = <<>>
  /\ challenge = FALSE /\ immediate = FALSE
  /\ fromClient = <<>> /\ toCamera = <<>> /\ fromCamera = <<>> /\ received = <<>>
  /\ sent = <<>> /\ taken = <<>> /\ said = <<>>

(***************************************************************************)
(* The client.                                                             *)
(***************************************************************************)
ClientSendsRequest ==
  LET id == Len(sent) + 1
  IN  /\ id <= MaxMessages /\ Requests - AnswersHeard < Window
      /\ sent' = Append(sent, Session!Request(id))
      /\ fromClient' = fromClient \o
           <<Unit("line", id, "none"),
             Unit("end", id, IF client = "own" THEN "authorization" ELSE "none")>>
      /\ UNCHANGED <<client, camera, proxyVars, toCamera, fromCamera, received,
                     taken, said>>

\* RTCP reports, once a stream is set up.
ClientSendsData ==
  LET id == Len(sent) + 1
  IN  /\ id <= MaxMessages /\ client \in DataFrom /\ AnswersHeard > 0
      /\ sent' = Append(sent, Session!Data(id))
      /\ fromClient' = Append(fromClient, Unit("data", id, "none"))
      /\ UNCHANGED <<client, camera, proxyVars, toCamera, fromCamera, received,
                     taken, said>>

(***************************************************************************)
(* clientSocket.on("data").                                                *)
(***************************************************************************)
ClientData(modes, n) ==
  /\ mode \in modes
  /\ fromClient' = After(fromClient, n)
  /\ UNCHANGED <<client, camera, fromCamera, received, sessionVars,
                 remoteBuf, challenge, immediate>>

Chunks(wire) == 1 .. Len(wire)

ClientPassed ==
  \E n \in Chunks(fromClient) :
    /\ ClientData({"PASSTHROUGH"}, n)
    /\ toCamera' = toCamera \o Upto(fromClient, n)
    /\ UNCHANGED <<mode, clientBuf, pending>>

\* The dance is under way: the data waits for it to end.
ClientHeldBack ==
  \E n \in Chunks(fromClient) :
    /\ ClientData({"AUTH_NEED", "AUTH_RESPONDING"}, n)
    /\ clientBuf' = clientBuf \o Upto(fromClient, n)
    /\ UNCHANGED <<mode, toCamera, pending>>

\* The first request is not complete yet.
ClientIncomplete ==
  \E n \in Chunks(fromClient) :
    LET buf == clientBuf \o Upto(fromClient, n)
    IN  /\ ClientData({"DETECTING"}, n)
        /\ FindRtspMessageEnd(buf) = 0
        /\ clientBuf' = buf
        /\ UNCHANGED <<mode, toCamera, pending>>

\* The first request is complete: a client with credentials is passed through,
\* for any other the camera is asked for its challenge.
ClientDetected ==
  \E n \in Chunks(fromClient) :
    LET buf == clientBuf \o Upto(fromClient, n)
        end == FindRtspMessageEnd(buf)
        req == Upto(buf, end)
    IN  /\ ClientData({"DETECTING"}, n)
        /\ end > 0
        /\ IF HasAuthorizationHeader(req)
           THEN /\ mode' = "PASSTHROUGH"
                /\ toCamera' = toCamera \o buf
                /\ clientBuf' = <<>>
                /\ UNCHANGED pending
           ELSE /\ mode' = "AUTH_NEED"
                /\ pending' = req
                /\ toCamera' = toCamera \o req
                /\ clientBuf' = After(buf, end)

ClientInjected ==
  \E n \in Chunks(fromClient) :
    LET buf == clientBuf \o Upto(fromClient, n)
    IN  /\ ClientData({"INJECTING"}, n)
        /\ toCamera' = toCamera \o Injected(buf)
        /\ clientBuf' = Incomplete(buf)
        /\ UNCHANGED <<mode, pending>>

(***************************************************************************)
(* remoteSocket.on("data"), for a chunk from the camera or the empty one   *)
(* of setImmediate.                                                        *)
(***************************************************************************)
RemoteData(modes, n) ==
  /\ mode \in modes
  /\ n = 0 => immediate
  /\ immediate' = (immediate /\ n # 0)
  /\ fromCamera' = After(fromCamera, n)
  /\ UNCHANGED <<client, camera, fromClient, sessionVars>>

RemoteChunks == 0 .. Len(fromCamera)

RemotePassed ==
  \E n \in RemoteChunks :
    /\ RemoteData({"DETECTING", "PASSTHROUGH", "INJECTING"}, n)
    /\ received' = received \o Upto(fromCamera, n)
    /\ UNCHANGED <<mode, clientBuf, remoteBuf, pending, challenge, toCamera>>

RemoteIncomplete ==
  \E n \in RemoteChunks :
    LET buf == remoteBuf \o Upto(fromCamera, n)
    IN  /\ RemoteData({"AUTH_NEED", "AUTH_RESPONDING"}, n)
        /\ FindRtspMessageEnd(buf) = 0
        /\ remoteBuf' = buf
        /\ UNCHANGED <<mode, clientBuf, pending, challenge, toCamera, received>>

\* The 401 is swallowed, the first request is sent again with Authorization,
\* and what came with the 401 is looked at in a later step.
RemoteChallenges ==
  \E n \in Chunks(fromCamera) :
    LET buf  == remoteBuf \o Upto(fromCamera, n)
        end  == FindRtspMessageEnd(buf)
        resp == Upto(buf, end)
    IN  /\ mode = "AUTH_NEED" /\ end > 0
        /\ ParseResponseStatus(resp) = "401" /\ ParseDigestChallenge(resp)
        /\ challenge' = TRUE
        /\ mode' = "AUTH_RESPONDING"
        /\ toCamera' = toCamera \o InjectAuthHeader(pending)
        /\ remoteBuf' = After(buf, end)
        /\ immediate' = (end < Len(buf))
        /\ fromCamera' = After(fromCamera, n)
        /\ UNCHANGED <<client, camera, fromClient, sessionVars, clientBuf, pending,
                       received>>

\* No Digest can be computed: the client gets the 401, and the bytes from then on.
RemoteUnusable ==
  \E n \in RemoteChunks :
    LET buf  == remoteBuf \o Upto(fromCamera, n)
        end  == FindRtspMessageEnd(buf)
        resp == Upto(buf, end)
    IN  /\ RemoteData({"AUTH_NEED"}, n)
        /\ end > 0
        /\ ParseResponseStatus(resp) = "401" /\ ~ParseDigestChallenge(resp)
        /\ mode' = "PASSTHROUGH"
        /\ received' = received \o buf
        /\ remoteBuf' = <<>>
        /\ toCamera' = toCamera \o clientBuf
        /\ clientBuf' = <<>>
        /\ UNCHANGED <<pending, challenge>>

\* Mutated: what was held back is not replayed.
RemoteAnswersOnly ==
  \E n \in RemoteChunks :
    LET buf == remoteBuf \o Upto(fromCamera, n)
    IN  /\ RemoteData({"AUTH_RESPONDING"}, n)
        /\ FindRtspMessageEnd(buf) > 0
        /\ mode' = "INJECTING"
        /\ pending' = <<>>
        /\ received' = received \o buf
        /\ remoteBuf' = <<>>
        /\ UNCHANGED <<challenge, toCamera, clientBuf>>

\* The answer to the request sent again, whatever it is, ends the dance.
RemoteAnswers ==
  \E n \in RemoteChunks :
    LET buf == remoteBuf \o Upto(fromCamera, n)
    IN  /\ RemoteData({"AUTH_RESPONDING"}, n)
        /\ FindRtspMessageEnd(buf) > 0
        /\ mode' = "INJECTING"
        /\ pending' = <<>>
        /\ received' = received \o buf
        /\ remoteBuf' = <<>>
        /\ toCamera' = toCamera \o Injected(clientBuf)
        /\ clientBuf' = Incomplete(clientBuf)
        /\ UNCHANGED challenge

\* The camera answers the first request without a challenge: the answer is
\* passed on and the mode stays.
RemoteUnchallenged ==
  \E n \in RemoteChunks :
    LET buf == remoteBuf \o Upto(fromCamera, n)
        end == FindRtspMessageEnd(buf)
    IN  /\ RemoteData({"AUTH_NEED"}, n)
        /\ end > 0
        /\ ParseResponseStatus(Upto(buf, end)) # "401"
        /\ received' = received \o buf
        /\ remoteBuf' = <<>>
        /\ UNCHANGED <<mode, clientBuf, pending, challenge, toCamera>>

(***************************************************************************)
(* The camera.                                                             *)
(***************************************************************************)
\* Its answer to the request id: a challenge, a refusal or what was asked for.
Verdict(id, request) ==
  IF HasAuthorizationHeader(request)
  THEN IF camera = "refuses" THEN "refusal" ELSE "ok"
  ELSE CASE camera = "open" /\ id = 1 -> "ok"
         [] camera = "basic"          -> "refusal"
         [] OTHER                     -> "digest"

\* The first request without Authorization is not taken in by a camera that
\* asks for Digest: it is sent again.
CameraAnswers ==
  LET end     == FindRtspMessageEnd(toCamera)
      request == Upto(toCamera, end)
      id      == Head(request).id
      verdict == Verdict(id, request)
  IN  /\ toCamera # <<>> /\ Head(toCamera).part = "line" /\ end > 0
      /\ toCamera' = After(toCamera, end)
      /\ fromCamera' = fromCamera \o <<Unit("line", id, "none"), Unit("end", id, verdict)>>
      /\ IF verdict = "digest" /\ id = 1
         THEN UNCHANGED <<taken, said>>
         ELSE /\ taken' = Append(taken, Session!Request(id))
              /\ said' = Append(said, Session!Answer(id))
      /\ UNCHANGED <<client, camera, proxyVars, fromClient, received, sent>>

CameraTakesData ==
  /\ toCamera # <<>> /\ Head(toCamera).part = "data"
  /\ toCamera' = Tail(toCamera)
  /\ taken' = Append(taken, Session!Data(Head(toCamera).id))
  /\ UNCHANGED <<client, camera, proxyVars, fromClient, fromCamera, received, sent, said>>

\* RTP, once it has granted a request.
Frames == Len(SelectSeq(said, LAMBDA m : m.kind = "frame"))
CameraPushes ==
  LET frame == Session!Frame(Len(said) + 1)
  IN  /\ Accepts /\ said # <<>> /\ Frames < MaxFrames
      /\ said' = Append(said, frame)
      /\ fromCamera' = Append(fromCamera, Unit("data", frame.id, "none"))
      /\ UNCHANGED <<client, camera, proxyVars, fromClient, toCamera, received, sent, taken>>

ClientStep == ClientSendsRequest \/ ClientSendsData
ProxyReadsClient ==
  ClientPassed \/ ClientHeldBack \/ ClientIncomplete \/ ClientDetected \/ ClientInjected
ProxyReadsCamera ==
  RemotePassed \/ RemoteIncomplete \/ RemoteChallenges \/ RemoteUnusable
    \/ RemoteAnswers \/ RemoteUnchallenged
CameraStep == CameraAnswers \/ CameraTakesData \/ CameraPushes

Next == ClientStep \/ ProxyReadsClient \/ ProxyReadsCamera \/ CameraStep

Spec == Init /\ [][Next]_vars

\* The proxy reads what arrives, on either side, and the camera goes on.
Fairness ==
  /\ WF_vars(ProxyReadsClient) /\ WF_vars(ProxyReadsCamera)
  /\ WF_vars(CameraAnswers) /\ WF_vars(CameraTakesData)

FairSpec == Spec /\ Fairness
(***************************************************************************)
(* Properties.                                                             *)
(***************************************************************************)
Units(parts, headers) == [part : parts, id : Nat, header : headers]
Upstream   == Units({"line", "end", "data"}, {"none", "authorization"})
Downstream == Units({"line", "end", "data"}, {"none", "ok", "digest", "refusal"})
Messages   == [kind : {"request", "data"}, id : Nat]
Sayings    == [kind : {"frame"}, id : Nat] \cup [kind : {"answer"}, id : Nat, ok : BOOLEAN]

\* Types, and what a mode says of the buffers: once bytes are piped none is left
\* in a buffer that is never looked at again, the first request is kept exactly
\* while it may have to be sent again, and a challenge is known before
\* Authorization is injected (attachRtspAuthHandler's state).
TypeOK ==
  /\ client \in Clients /\ camera \in Cameras
  /\ mode \in Modes
  /\ challenge \in BOOLEAN /\ immediate \in BOOLEAN
  /\ {clientBuf, pending, fromClient, toCamera} \subseteq Seq(Upstream)
  /\ {remoteBuf, fromCamera, received} \subseteq Seq(Downstream)
  /\ {sent, taken} \subseteq Seq(Messages)
  /\ said \in Seq(Sayings)
  /\ mode = "PASSTHROUGH" => clientBuf = <<>>
  /\ mode \in {"DETECTING", "PASSTHROUGH", "INJECTING"} => remoteBuf = <<>>
  /\ mode \in {"AUTH_NEED", "AUTH_RESPONDING"} => Ends(pending) = {Len(pending)}
  /\ challenge = (mode \in {"AUTH_RESPONDING", "INJECTING"})

\* The proxy does what its header promises (lines 8-30): through every way the
\* bytes can be cut into chunks, and however far the client runs ahead, each
\* message reaches the camera once and in order, the challenge and the request
\* that provoked it stay between proxy and camera, and the client hears every
\* answer and frame once and in order.
ImplementsSession == Session!Spec

\* With a camera that asks every request for credentials, all the client sends
\* reaches the camera and all the camera says reaches the client in the end:
\* nothing stays in a buffer of the proxy.
NothingHeldBack == (camera # "open") => Session!Fairness

\* Once the camera has named its challenge, no request of a client without
\* credentials goes out without Authorization (lines 19-20).
AuthorizedOnceChallenged ==
  [][(mode \in {"AUTH_RESPONDING", "INJECTING"}) =>
       \A i \in Len(toCamera) + 1 .. Len(toCamera') :
         toCamera'[i].part = "end" => toCamera'[i].header = "authorization"]_vars
================================================================================
