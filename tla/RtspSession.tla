------------------------------ MODULE RtspSession ------------------------------
(***************************************************************************)
(* What the header of rtsp_auth.ts promises a client of the proxy: an RTSP *)
(* session that looks as if the camera asked for no credentials.  Every    *)
(* message of the client reaches the camera once and in order, the camera  *)
(* answers each request once, and the client hears all the camera says, in *)
(* order and nothing else.                                                 *)
(***************************************************************************)
EXTENDS Naturals, Sequences

VARIABLES
  accepts,  \* the camera grants this client's requests
  sent,     \* what the client has sent, in order
  taken,    \* what the camera has taken in
  said,     \* what the camera has said: answers and frames
  heard     \* what the client has heard

vars == <<accepts, sent, taken, said, heard>>

Request(i) == [kind |-> "request", id |-> i]
Data(i)    == [kind |-> "data", id |-> i]
Answer(i)  == [kind |-> "answer", id |-> i, ok |-> accepts]
Frame(i)   == [kind |-> "frame", id |-> i]

Init ==
  /\ accepts \in BOOLEAN
  /\ sent = <<>> /\ taken = <<>> /\ said = <<>> /\ heard = <<>>

ClientSends ==
  /\ \E m \in {Request(Len(sent) + 1), Data(Len(sent) + 1)} :
       sent' = Append(sent, m)
  /\ UNCHANGED <<accepts, taken, said, heard>>

\* The camera takes in the next message, and answers it if it is a request.
CameraTakes ==
  LET next == sent[Len(taken) + 1]
  IN  /\ Len(taken) < Len(sent)
      /\ taken' = Append(taken, next)
      /\ said' = IF next.kind = "request" THEN Append(said, Answer(next.id)) ELSE said
      /\ UNCHANGED <<accepts, sent, heard>>

CameraPushes ==
  /\ said' = Append(said, Frame(Len(said) + 1))
  /\ UNCHANGED <<accepts, sent, taken, heard>>

ClientHears ==
  \E n \in Len(heard) + 1 .. Len(said) :
    /\ heard' = SubSeq(said, 1, n)
    /\ UNCHANGED <<accepts, sent, taken, said>>

Next == ClientSends \/ CameraTakes \/ CameraPushes \/ ClientHears

Spec == Init /\ [][Next]_vars

\* Everything sent is taken in the end, and everything said is heard.
Fairness == WF_vars(CameraTakes) /\ WF_vars(ClientHears)

FairSpec == Spec /\ Fairness
================================================================================
