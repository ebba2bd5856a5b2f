------------------------------ MODULE RtspRequests ------------------------------
(***************************************************************************)
(* The requests of RTSPClient of live555 as CRTSPClient uses it: one at a   *)
(* time, each waiting up to 30 seconds for the next response on the          *)
(* connection, whatever its CSeq.  While a stream plays the event loop reads *)
(* what the server sends of its own accord.                                 *)
(***************************************************************************)
EXTENDS Integers, Sequences

CONSTANTS
  Servers,       \* the one of the url, and those it may redirect to
  Subsessions,   \* how many the session description has
  WithBody,      \* the requests that a server may answer with a body, DESCRIBE or SETUP
  MaxRequests    \* bound

VARIABLES
  stage,         \* where CRTSPClient is: "none", "described", "ready", "playing" or "paused"
  left,          \* subsessions that have not been set up
  call,          \* the request that waits for its response
  fCSeq,
  fLastSessionId,
  connected,     \* the server that fInputSocketNum is connected to
  watched,       \* incomingRequestHandler has been given to the event loop
  unanswered,    \* requests at the server
  wire,          \* what the server has sent: responses and bodies
  codes,         \* what it has answered to each CSeq
  result         \* of the last request

requests == <<unanswered, wire, codes>>
vars == <<stage, left, call, fCSeq, fLastSessionId, connected, watched, requests, result>>

None == "none"
NoCall == [tag |-> None]
Body == [cseq |-> 0, code |-> 0]

AnswersIn(w) == {i \in DOMAIN w : w[i].cseq > 0}

\* getResponse1 reads to the end of the next header, whatever comes before it.
FirstAnswer == CHOOSE i \in AnswersIn(wire) : \A j \in AnswersIn(wire) : i <= j
From(n) == SubSeq(wire, n, Len(wire))

\* A response code of 200, and of a SETUP a "Session:" header, in what has been read.
Accepted(answer) ==
  /\ FirstAnswer = 1 /\ answer.code = 200
  /\ call.tag = "SETUP" => answer.session # None

-----------------------------------------------------------------------------
(* Sending                                                                 *)

\* A SETUP that is refused leaves the body of its response to whoever reads next.
BodyMayBeLeft == result.tag = "SETUP" /\ result.outcome = "refused"

\* sendRequest.  A request is undisturbed when the connection is new, or when no older response
\* is to come on it and the last request was no refused SETUP.
Sent(tag, before, undisturbed) ==
  /\ fCSeq < MaxRequests
  /\ fCSeq' = fCSeq + 1
  /\ call' = [tag |-> tag, cseq |-> fCSeq + 1, undisturbed |-> undisturbed]
  /\ unanswered' = Append(before, [tag |-> tag, cseq |-> fCSeq + 1])

\* openConnectionFromURL, when somebody listens at the url.
OpenConnection(server) == connected' = server

Idle == call = NoCall

Send(tag) ==
  /\ Idle /\ connected # None
  /\ Sent(tag, unanswered, unanswered = <<>> /\ AnswersIn(wire) = {} /\ ~BodyMayBeLeft)
  /\ UNCHANGED <<stage, left, fLastSessionId, connected, watched, wire, codes, result>>

\* describeURL: a connection and DESCRIBE.
Describe(server) ==
  /\ Idle /\ stage = None
  /\ OpenConnection(server)
  /\ Sent("DESCRIBE", <<>>, TRUE)
  /\ UNCHANGED <<stage, left, fLastSessionId, watched, wire, codes, result>>

Setup == stage = "described" /\ left > 0 /\ Send("SETUP")
Play == stage \in {"ready", "paused"} /\ fLastSessionId # None /\ Send("PLAY")
Pause == stage = "playing" /\ Send("PAUSE")
Teardown == stage \in {"ready", "playing", "paused"} /\ fLastSessionId # None /\ Send("TEARDOWN")

-----------------------------------------------------------------------------
(* The server                                                              *)

\* It answers in the order of the requests, however late.
ServerAnswers(code, session) ==
  /\ unanswered # <<>>
  /\ LET request == Head(unanswered)
         answer == [cseq |-> request.cseq, code |-> code, session |-> session]
     IN  /\ code = 301 => request.tag = "DESCRIBE"
         /\ session # None => request.tag = "SETUP" /\ code = 200
         /\ \/ wire' = Append(wire, answer)
            \/ /\ request.tag \in WithBody
               /\ wire' = wire \o <<answer, Body>>
         /\ codes' = [codes EXCEPT ![request.cseq] = IF request.tag = "SETUP" /\ session = None
                                                     THEN 404 ELSE code]
  /\ unanswered' = Tail(unanswered)
  /\ UNCHANGED <<stage, left, call, fCSeq, fLastSessionId, connected, watched, result>>

-----------------------------------------------------------------------------
(* The response                                                            *)

\* CRTSPClient goes on with the result of its request; what it does not need to know it ignores.
Done(outcome) ==
  LET ok == outcome = "done"
      end == CASE call.tag = "DESCRIBE" -> ~ok
               [] call.tag = "SETUP" -> left = 1 /\ fLastSessionId' = None
               [] OTHER -> call.tag = "TEARDOWN"
  IN  /\ result' = [tag |-> call.tag, cseq |-> call.cseq, undisturbed |-> call.undisturbed,
                    outcome |-> outcome]
      /\ call' = NoCall
      /\ connected' = IF end THEN None ELSE connected  \* Medium::close
      /\ watched' = (~end /\ (watched \/ (call.tag = "PLAY" /\ ok)))
      /\ left' = CASE call.tag = "DESCRIBE" -> Subsessions
                   [] call.tag = "SETUP" -> left - 1
                   [] OTHER -> left
      /\ stage' = CASE end -> None
                    [] call.tag = "DESCRIBE" -> "described"
                    [] call.tag = "SETUP" /\ left = 1 -> "ready"
                    [] call.tag = "PLAY" -> IF ok \/ stage = "paused" THEN "playing" ELSE stage
                    [] call.tag = "PAUSE" -> "paused"
                    [] OTHER -> stage
      /\ UNCHANGED fCSeq

\* Nothing comes any more on a connection that has been closed.
Closing(rest) ==
  /\ wire' = IF connected' = None THEN <<>> ELSE rest
  /\ unanswered' = IF connected' = None THEN <<>> ELSE unanswered
  /\ UNCHANGED codes

\* Mutant: what follows the header lines is left for the next response.
OnlyHeaders(i) == i + 1

\* Content-Length: the rest of a response that is accepted is read, too.
ReadsBody(i) == call.tag \in {"DESCRIBE", "SETUP"} /\ Accepted(wire[i])

AfterResponse(i) == IF ReadsBody(i) /\ i < Len(wire) /\ wire[i + 1] = Body THEN i + 2 ELSE i + 1

\* A redirection with a Location header where somebody listens: reset, and the same with the
\* new url.
Redirected ==
  /\ call.tag = "DESCRIBE" /\ wire # <<>> /\ wire[1].code = 301
  /\ Sent("DESCRIBE", <<>>, TRUE)
  /\ \E server \in Servers \ {connected} : OpenConnection(server)
  /\ fLastSessionId' = None /\ wire' = <<>>
  /\ UNCHANGED <<stage, left, watched, codes, result>>

\* getResponse: the next response; one that begins with the rest of something has no code.
GetResponse ==
  /\ ~Idle /\ AnswersIn(wire) # {}
  /\ LET answer == wire[FirstAnswer]
         ok == Accepted(answer)
     IN  /\ fLastSessionId' = CASE call.tag = "SETUP" /\ ok -> answer.session
                                [] call.tag = "TEARDOWN" -> None
                                [] OTHER -> fLastSessionId
         /\ Done(IF ok THEN "done" ELSE "refused")
         /\ Closing(From(AfterResponse(FirstAnswer)))

\* 30 seconds without the first byte; after it getResponse1 waits for the header's end however
\* long that takes.
Timeout ==
  /\ ~Idle /\ wire = <<>>
  /\ fLastSessionId' = IF call.tag = "TEARDOWN" THEN None ELSE fLastSessionId
  /\ Done("silent")
  /\ Closing(wire)

\* incomingRequestHandler1, in the event loop of the buffer thread: a response that nobody waits
\* for any more is read like a request.
IncomingRequest ==
  /\ Idle /\ watched /\ stage = "playing" /\ AnswersIn(wire) # {}
  /\ wire' = From(FirstAnswer + 1)
  /\ UNCHANGED <<stage, left, call, fCSeq, fLastSessionId, connected, watched, unanswered, codes, result>>

\* shutdown without a session: the client is closed.
Shutdown ==
  /\ Idle /\ connected # None /\ (stage = "ready" => fLastSessionId = None)
  /\ connected' = None /\ stage' = None /\ watched' = FALSE /\ wire' = <<>> /\ unanswered' = <<>>
  /\ fLastSessionId' = None
  /\ UNCHANGED <<left, call, fCSeq, codes, result>>

Init ==
  /\ stage = None /\ left = 0 /\ call = NoCall /\ fCSeq = 0 /\ fLastSessionId = None
  /\ connected = None /\ watched = FALSE /\ unanswered = <<>> /\ wire = <<>>
  /\ codes = [n \in 1..MaxRequests |-> 0]
  /\ result = [tag |-> None, cseq |-> 0, undisturbed |-> FALSE, outcome |-> None]

Next ==
  \/ \E server \in Servers : Describe(server)
  \/ Setup \/ Play \/ Pause \/ Teardown
  \/ \E code \in {200, 301, 404}, session \in {None, "a", "b"} : ServerAnswers(code, session)
  \/ Redirected \/ GetResponse \/ Timeout \/ IncomingRequest \/ Shutdown

Spec == Init /\ [][Next]_vars

-----------------------------------------------------------------------------

\* getResponse1, and the bodies of DESCRIBE and SETUP: no response says which request it answers.
\* When no older one is to come, the client takes for the result of a request what the server
\* has answered to it, also on the connection it has been redirected to, and after a late
\* response that the event loop has read meanwhile.  Not after a SETUP that was refused: what
\* follows it begins with the body, if it had one, and is refused although the server agrees.
ResultIsTheServers ==
  result.undisturbed =>
    /\ result.outcome = "done" => codes[result.cseq] = 200
    /\ result.outcome = "refused" => codes[result.cseq] # 200
=============================================================================
