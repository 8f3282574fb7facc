---------------------------- MODULE RtspRequests ----------------------------
(***************************************************************************)
(* The requests of live555's RTSPClient: sent on one TCP connection, which *)
(* is opened when the first of them needs it, and answered in the order of *)
(* their CSeq.  A request waits for the connection or for its answer, in   *)
(* one of two queues, until its handler is called.  The connection is      *)
(* dropped and opened again for a redirection, a server that closes it, or *)
(* an error.                                                               *)
(*                                                                         *)
(* Everything runs on the thread of the event loop.  A handler may issue   *)
(* further requests before it returns (inHandler), also in the midst of    *)
(* the loops over the requests to resume, to fail, and over the answers of *)
(* one read, each a step per turn here.  Bytes are counted in parts: an    *)
(* answer's header with all of its body (whole), a header whose body       *)
(* follows (head, tail), or a request of the server's own (alien).         *)
(*                                                                         *)
(* The server and the network are external: connecting, sending and        *)
(* reading may fail; the server answers in the order it was asked.  A      *)
(* server may have a quirk.  RTSP over HTTP is not used here.              *)
(***************************************************************************)
EXTENDS Integers, Sequences, SequencesExt, FiniteSets

CONSTANTS
    MaxCalls,      \* bound: the requests the program issues
    QuirkyCalls,   \* bound: those it issues to a server with a quirk
    MaxResends,    \* bound: the answers that make the client ask again
    Room,          \* the parts that fill fResponseBuffer
    Quirks         \* the quirks the server may have

\* A server may leave CSeq out, leave answers out, say "Connection: Close" in a
\* header whose body comes by itself, answer with more than fits the buffer,
\* once all it sent before was taken (bad) or at any time (badLate), or send
\* requests of its own.
AllQuirks == {"none", "noCSeq", "skips", "splitClose", "bad", "badLate", "alien"}

ASSUME BoundsAssumption == MaxCalls \in Nat /\ QuirkyCalls \in Nat /\ MaxResends \in Nat
\* The rest of an answer and a request of the server do not fill the buffer.
ASSUME RoomAssumption == Room \in Nat /\ Room > 2
ASSUME QuirksAssumption == Quirks \subseteq AllQuirks

Calls == 1 .. MaxCalls
Error == 0
CSeqs == Nat \ {0}
NoCSeq == 0

VARIABLES
    \* of the program and its requests
    issued,        \* how many requests were issued
    silent,        \* those without a handler
    cseqOf,        \* request->cseq()
    lastCSeq,      \* fCSeq
    awaitConn,     \* fRequestsAwaitingConnection
    awaitResp,     \* fRequestsAwaitingResponse
    resuming,      \* tmpRequestQueue: requests to send on the new connection
    failing,       \* tmpRequestQueue, requestQueue: those to fail
    inHandler,     \* a handler is running
    closed,        \* the RTSPClient was deleted
    \* of the connection
    socket,        \* none, pending or open: fInputSocketNum, and whether
                   \* connectionHandler is set
    buffer,        \* fResponseBuffer
    looping,       \* handleResponseBytes goes on with what is in the buffer,
    again,         \* behind an answer it took (numExtraBytesAfterResponse)
    \* of the server and the network
    quirk,         \* what is special about this server
    server,        \* the requests at the server: <<request, CSeq>>
    hungUp,        \* the server has closed its end
    wire,          \* parts sent by the server and not read
    resends,       \* answers so far that make the client ask again
    \* history
    result,        \* what handlers were called with
    lost,          \* requests left without an answer by the server or by a reset,
                   \* whose answer was dropped together with one that could not
                   \* be used, or given to another one
    exposed        \* requests that waited together with others, that the server
                   \* left out, or that were dropped behind what is no answer

requestVars == <<issued, silent, cseqOf, lastCSeq>>
queueVars == <<awaitConn, awaitResp, resuming, failing>>
serverVars == <<server, hungUp, wire, resends>>
reqVars == <<requestVars, queueVars, inHandler, closed, socket, buffer, looping,
             again, quirk, serverVars, result, lost, exposed>>

Kinds == {"whole", "head", "tail", "alien"}
Codes == {"ok", "refused", "bad", "retry", "redirect"}
Parts == [kind : Kinds, call : Calls \cup {0}, cseq : CSeqs \cup {NoCSeq},
          code : Codes, close : BOOLEAN]

Done == DOMAIN result
Waiting == (1 .. issued) \ Done

ReqTypeOK ==
    /\ issued \in 0 .. MaxCalls
    /\ silent \subseteq 1 .. issued
    /\ cseqOf \in [Calls -> CSeqs \cup {NoCSeq}]
    /\ lastCSeq \in CSeqs \cup {NoCSeq}
    /\ \A q \in {awaitConn, awaitResp, resuming, failing} : q \in Seq(Calls)
    /\ socket \in {"none", "pending", "open"}
    /\ buffer \in Seq(Parts) /\ Len(buffer) < Room
    /\ inHandler \in BOOLEAN /\ closed \in BOOLEAN /\ looping \in BOOLEAN
    /\ again \in BOOLEAN
    /\ quirk \in Quirks
    /\ server \in Seq(Calls \X CSeqs) /\ hungUp \in BOOLEAN
    /\ wire \in Seq(Parts)
    /\ resends \in 0 .. MaxResends
    /\ Done \subseteq 1 .. issued /\ \A c \in Done : result[c] \in Calls \cup {Error}
    /\ lost \subseteq 1 .. issued
    /\ exposed \subseteq 1 .. issued

ReqInit ==
    /\ issued = 0 /\ silent = {} /\ lastCSeq = 0
    /\ cseqOf = [c \in Calls |-> NoCSeq]
    /\ awaitConn = <<>> /\ awaitResp = <<>> /\ resuming = <<>> /\ failing = <<>>
    /\ inHandler = FALSE /\ closed = FALSE /\ looping = FALSE /\ again = FALSE
    /\ socket = "none" /\ buffer = <<>>
    /\ quirk \in Quirks
    /\ server = <<>> /\ hungUp = FALSE /\ wire = <<>> /\ resends = 0
    /\ result = [c \in {} |-> Error]
    /\ lost = {} /\ exposed = {}

\* The thread is in the event loop.
Idle == ~inHandler /\ ~looping /\ resuming = <<>> /\ failing = <<>> /\ ~closed

WithResult(c, r) == [d \in Done \cup {c} |-> IF d = c THEN r ELSE result[d]]

\* The handler of c, if it has one, is called with r.
CallHandler(c, r) ==
    /\ result' = WithResult(c, r)
    /\ inHandler' = (inHandler \/ c \notin silent')

NoCall == UNCHANGED <<result, inHandler>>

-----------------------------------------------------------------------------
(* Sending.  These operators say what becomes of the variables             *)
(* awaitConn, awaitResp, socket, server, hungUp, wire, result, inHandler.  *)

\* handleRequestError, and the request is deleted.
HandleRequestError(c) == CallHandler(c, Error)

\* openConnection: it may take its time, be there at once (send, below, may
\* fail then), or fail.
OpenConnection(c, q) ==
    /\ awaitResp' \in {q, Append(q, c)}
    /\ server' = IF awaitResp' = q THEN <<>> ELSE <<<<c, cseqOf'[c]>>>>
    /\ wire' = <<>> /\ hungUp' = FALSE
    /\ \/ /\ awaitResp' = q
          /\ \/ socket' = "pending" /\ awaitConn' = <<c>> /\ NoCall
             \/ socket' \in {"open", "none"} /\ awaitConn' = <<>> /\ HandleRequestError(c)
       \/ awaitResp' # q /\ socket' = "open" /\ awaitConn' = <<>> /\ NoCall

\* send() on the connection; what a server is sent that has hung up is lost.
SendNow(c, q) ==
    /\ socket' = "open"
    /\ UNCHANGED <<awaitConn, hungUp, wire>>
    /\ \/ /\ awaitResp' = Append(q, c)
          /\ server' = IF hungUp THEN server ELSE Append(server, <<c, cseqOf'[c]>>)
          /\ NoCall
       \/ /\ awaitResp' = q
          /\ HandleRequestError(c)
          /\ UNCHANGED server

\* sendRequest of c, when q awaits responses and the connection is k.
SendRequest(c, q, k) ==
    \/ /\ awaitConn # <<>>
       /\ awaitConn' = Append(awaitConn, c)
       /\ awaitResp' = q /\ socket' = k
       /\ NoCall
       /\ UNCHANGED <<server, hungUp, wire>>
    \/ awaitConn = <<>> /\ k = "none" /\ OpenConnection(c, q)
    \/ awaitConn = <<>> /\ k # "none" /\ SendNow(c, q)

-----------------------------------------------------------------------------
(* The program.                                                            *)

\* sendDescribeCommand and the like: a new request with the next CSeq.  A server
\* that leaves CSeq out is asked one request at a time, for the client takes
\* its answer for that of the oldest request.
Issue ==
    /\ Idle \/ inHandler
    /\ issued < MaxCalls
    /\ quirk # "none" => issued < QuirkyCalls
    /\ quirk = "noCSeq" => Waiting = {}
    /\ issued' = issued + 1
    /\ silent' \in {silent, silent \cup {issued'}}
    /\ lastCSeq' = lastCSeq + 1
    /\ cseqOf' = [cseqOf EXCEPT ![issued'] = lastCSeq']
    /\ SendRequest(issued', awaitResp, socket)
    /\ exposed' = IF Waiting = {} THEN exposed
                  ELSE exposed \cup Waiting \cup {issued'}
    /\ UNCHANGED <<resuming, failing, closed, buffer, looping, again, quirk, resends,
                   lost>>

HandlerReturns ==
    /\ inHandler
    /\ inHandler' = FALSE
    /\ UNCHANGED <<requestVars, queueVars, closed, socket, buffer, looping, again, quirk,
                   serverVars, result, lost, exposed>>

\* ~RTSPClient and reset(): the requests go without a call of their handlers.
Destroy ==
    /\ Idle
    /\ closed' = TRUE
    /\ socket' = "none" /\ buffer' = <<>>
    /\ server' = <<>> /\ hungUp' = FALSE /\ wire' = <<>>
    /\ awaitConn' = <<>> /\ awaitResp' = <<>>
    /\ lost' = lost \cup Waiting
    /\ UNCHANGED <<requestVars, resuming, failing, inHandler, looping, again, quirk,
                   resends, result, exposed>>

-----------------------------------------------------------------------------
(* The connection.                                                         *)

\* connectionHandler1, when the connection is there.
ConnectionOpens ==
    /\ Idle /\ socket = "pending"
    /\ socket' = "open"
    /\ resuming' = awaitConn /\ awaitConn' = <<>>
    /\ UNCHANGED <<requestVars, awaitResp, failing, inHandler, closed, buffer,
                   looping, again, quirk, serverVars, result, lost, exposed>>

\* connectionHandler1, when it failed.
ConnectionFails ==
    /\ Idle /\ socket = "pending"
    /\ socket' = "none"
    /\ failing' = awaitConn /\ awaitConn' = <<>>
    /\ UNCHANGED <<requestVars, awaitResp, resuming, inHandler, closed, buffer,
                   looping, again, quirk, serverVars, result, lost, exposed>>

\* One turn of the loop that sends what waited for the connection.
Resume ==
    /\ ~inHandler /\ resuming # <<>>
    /\ resuming' = Tail(resuming)
    /\ UNCHANGED <<requestVars, failing, closed, buffer, looping, again, quirk, resends,
                   lost, exposed>>
    /\ SendRequest(Head(resuming), awaitResp, socket)

\* One turn of the loops that tell requests about an error.
FailNext ==
    /\ ~inHandler /\ failing # <<>>
    /\ failing' = Tail(failing)
    /\ UNCHANGED <<requestVars, awaitConn, awaitResp, resuming, closed, socket, buffer,
                   looping, again, quirk, serverVars, lost, exposed>>
    /\ HandleRequestError(Head(failing))

\* The requests whose answers are among these parts.
CallsIn(parts) == {p.call : p \in ToSet(parts)} \ {0}

\* The buffer does not fill up.
Fits(n) == n < Room

\* incomingDataHandler1: some of what is there is read, and fits.
Read ==
    /\ Idle /\ socket = "open"
    /\ \E k \in 1 .. Len(wire) :
          /\ Fits(Len(buffer) + k)
          /\ buffer' = buffer \o SubSeq(wire, 1, k)
          /\ wire' = SubSeq(wire, k + 1, Len(wire))
    /\ looping' = TRUE /\ again' = FALSE
    /\ UNCHANGED <<requestVars, queueVars, inHandler, closed, socket, quirk, server,
                   hungUp, resends, result, lost, exposed>>

\* handleResponseBytes, when the buffer is full: what is in it is dropped, and
\* the first request is told.
Truncated ==
    /\ Idle /\ socket = "open"
    /\ \E k \in 1 .. Len(wire) :
          /\ k = Room - Len(buffer) /\ ~Fits(Len(buffer) + k)
          /\ wire' = SubSeq(wire, k + 1, Len(wire))
          /\ UNCHANGED <<requestVars, awaitConn, resuming, failing, closed, socket,
                         looping, again, quirk, server, hungUp, resends, exposed>>
          /\ \/ awaitResp = <<>> /\ UNCHANGED awaitResp /\ NoCall
             \/ /\ awaitResp # <<>>
                /\ awaitResp' = Tail(awaitResp)
                /\ HandleRequestError(Head(awaitResp))
          /\ lost' = lost \cup (CallsIn(buffer \o SubSeq(wire, 1, k)) \ DOMAIN result')
    /\ buffer' = <<>>

\* Mutant: the sockets are reset and the requests forgotten.
ReadFailsSilently ==
    /\ Idle /\ socket = "open"
    /\ socket' = "none" /\ buffer' = <<>>
    /\ server' = <<>> /\ hungUp' = FALSE /\ wire' = <<>>
    /\ UNCHANGED <<requestVars, queueVars, inHandler, closed, looping, again,
                   quirk, resends, result, lost, exposed>>

\* handleResponseBytes, when reading fails or the server has closed.
ReadFails ==
    /\ Idle /\ socket = "open"
    /\ socket' = "none" /\ buffer' = <<>>
    /\ server' = <<>> /\ hungUp' = FALSE /\ wire' = <<>>
    /\ failing' = awaitResp /\ awaitResp' = <<>>
    /\ UNCHANGED <<requestVars, awaitConn, resuming, inHandler, closed, looping, again,
                   quirk, resends, result, lost, exposed>>

-----------------------------------------------------------------------------
(* handleResponseBytes: one turn of its loop over the buffer.               *)

\* Where the request that m answers is taken to be in the queue q: at the first
\* one that is not older, or behind that if it is newer.  For an answer without
\* CSeq it is the first one of all.
FoundAt(q, m) ==
    IF m.cseq = NoCSeq THEN 1
    ELSE LET notOlder == {i \in DOMAIN q : cseqOf[q[i]] >= m.cseq} IN
         IF notOlder = {} THEN Len(q) + 1
         ELSE LET i == CHOOSE i \in notOlder : \A j \in notOlder : i <= j IN
              IF cseqOf[q[i]] = m.cseq THEN i ELSE i + 1

Found(m) == FoundAt(awaitResp, m) <= Len(awaitResp)
Request(m) == awaitResp[FoundAt(awaitResp, m)]

\* Mutant: the request stays in the queue (findByCSeq instead of dequeue).
OthersAndItself(m) == SubSeq(awaitResp, FoundAt(awaitResp, m), Len(awaitResp))

\* The requests behind it.
Others(m) == SubSeq(awaitResp, FoundAt(awaitResp, m) + 1, Len(awaitResp))

\* The connection after m's headers were read: "Connection: Close" resets it.
ConnAfter(m) == IF m.close THEN "none" ELSE socket

\* What a reset leaves behind of the requests in q.
LeftBehind(q, k) == IF k = "none" THEN ToSet(q) ELSE {}

DropConnection(k) ==
    /\ socket' = k
    /\ IF k = "none" THEN server' = <<>> /\ wire' = <<>> /\ hungUp' = FALSE
       ELSE UNCHANGED <<server, wire, hungUp>>

\* A header whose body has not come yet.
IsIncomplete == Len(buffer) = 1 /\ buffer[1].kind = "head" /\ buffer[1].code # "bad"

\* Mutant: the request is not put back.
WaitForBodyForgets ==
    /\ looping /\ ~inHandler
    /\ IsIncomplete
    /\ LET m == buffer[1] IN
          /\ awaitResp' = Others(m)
          /\ DropConnection(ConnAfter(m))
          /\ lost' = IF m.close THEN lost \cup ToSet(awaitResp) ELSE lost
    /\ looping' = FALSE /\ again' = FALSE
    /\ UNCHANGED <<requestVars, awaitConn, resuming, failing, inHandler, closed,
                   buffer, quirk, resends, result, exposed>>

\* The request is put back at the head until the rest of its answer comes.
WaitForBody ==
    /\ looping /\ ~inHandler
    /\ IsIncomplete
    /\ LET m == buffer[1] IN
          /\ awaitResp' = SubSeq(awaitResp, FoundAt(awaitResp, m), Len(awaitResp))
          /\ DropConnection(ConnAfter(m))
          /\ lost' = IF m.close THEN lost \cup ToSet(awaitResp) ELSE lost
    /\ looping' = FALSE /\ again' = FALSE
    /\ UNCHANGED <<requestVars, awaitConn, resuming, failing, inHandler, closed,
                   buffer, quirk, resends, result, exposed>>

\* What is not an answer: a request of the server (405 is sent back), or the
\* rest of an answer whose header was dropped, which may look like the
\* beginning of something longer.  All that is in the buffer is dropped, but
\* behind an answer it is kept, and looked at again with the next read.
NotAnAnswer ==
    /\ looping /\ ~inHandler
    /\ buffer[1].kind \in {"alien", "tail"}
    /\ \/ /\ ~again
          /\ buffer' = <<>>
          /\ lost' = lost \cup (CallsIn(Tail(buffer)) \ Done)
          /\ exposed' = exposed \cup (CallsIn(Tail(buffer)) \ Done)
       \/ /\ again \/ (buffer[1].kind = "tail" /\ Len(buffer) = 1)
          /\ UNCHANGED <<buffer, lost, exposed>>
    /\ looping' = FALSE /\ again' = FALSE
    /\ UNCHANGED <<requestVars, queueVars, inHandler, closed, socket, quirk,
                   serverVars, result>>

\* What follows the first answer in the buffer.
Extra == SubSeq(buffer, IF buffer[1].kind = "head" THEN 3 ELSE 2, Len(buffer))

IsAnswer == looping /\ ~inHandler /\ buffer[1].kind \in {"whole", "head"} /\ ~IsIncomplete

\* A body too large for the buffer: all that is in the buffer is dropped, but
\* behind an answer it is kept, and looked at again with the next read.  (A
\* header that cannot be parsed behind its CSeq is like it.)
BadAnswer ==
    /\ IsAnswer /\ buffer[1].code = "bad"
    /\ LET m == buffer[1] IN
          /\ awaitResp' = Others(m)
          /\ DropConnection(ConnAfter(m))
          /\ buffer' = IF again THEN buffer ELSE <<>>
          /\ looping' = FALSE /\ again' = FALSE
          /\ UNCHANGED <<requestVars, awaitConn, resuming, failing, closed, quirk,
                         resends, exposed>>
          /\ IF Found(m) THEN HandleRequestError(Request(m)) ELSE NoCall
          /\ lost' = lost \cup LeftBehind(Others(m), ConnAfter(m))
                          \cup IF again THEN {} ELSE CallsIn(buffer) \ DOMAIN result'

\* 401 that a password can help, or a redirection: the request is sent again
\* under a new CSeq, and what follows in the buffer dropped.
AskAgain ==
    /\ IsAnswer /\ buffer[1].code \in {"retry", "redirect"}
    /\ LET m == buffer[1]
           k == IF m.code = "redirect" THEN "none" ELSE ConnAfter(m)
       IN /\ Found(m)
          /\ lastCSeq' = lastCSeq + 1
          /\ cseqOf' = [cseqOf EXCEPT ![Request(m)] = lastCSeq']
          /\ UNCHANGED <<issued, silent>>
          /\ SendRequest(Request(m), Others(m), k)
          /\ buffer' = <<>> /\ looping' = FALSE /\ again' = FALSE
          /\ lost' = lost \cup LeftBehind(Others(m), k)
                          \cup (CallsIn(buffer) \ (Done \cup {Request(m)}))
    /\ UNCHANGED <<resuming, failing, closed, quirk, resends, exposed>>

\* Any other answer: its handler is called with it, or, when a 200 cannot be
\* used, with an error; after an error the loop ends with the extra bytes left.
GiveAnswer ==
    /\ IsAnswer /\ buffer[1].code # "bad"
    /\ LET m == buffer[1] IN
          /\ m.code \in {"retry", "redirect"} => ~Found(m)
          /\ awaitResp' = Others(m)
          /\ DropConnection(ConnAfter(m))
          /\ buffer' = Extra
          /\ looping' = (Extra # <<>> /\ ~(Found(m) /\ m.code = "refused"))
          /\ again' = looping'
          /\ UNCHANGED <<requestVars, awaitConn, resuming, failing, closed, quirk,
                         resends, exposed>>
          /\ IF Found(m)
             THEN CallHandler(Request(m), IF m.code = "refused" THEN Error ELSE m.call)
             ELSE NoCall
          /\ lost' = lost \cup LeftBehind(Others(m), ConnAfter(m))
                          \cup ((IF looping' THEN {m.call} ELSE CallsIn(buffer))
                                   \ DOMAIN result')

LookAtBuffer == WaitForBody \/ NotAnAnswer \/ BadAnswer \/ AskAgain \/ GiveAnswer

-----------------------------------------------------------------------------
(* The server.                                                             *)

\* It answers its next request, in one piece or two.
Answer ==
    /\ server # <<>>
    /\ \E code \in Codes, close \in BOOLEAN, split \in BOOLEAN, hide \in BOOLEAN : LET
           m == [kind |-> IF split THEN "head" ELSE "whole", call |-> Head(server)[1],
                 cseq |-> IF hide THEN NoCSeq ELSE Head(server)[2],
                 code |-> code, close |-> close]
       IN
        /\ hide => quirk = "noCSeq"
        /\ code = "bad" => \/ quirk = "bad" /\ buffer \o wire = <<>>
                           \/ quirk = "badLate"
        /\ close /\ split => quirk = "splitClose"
        /\ code \in {"retry", "redirect"} => resends < MaxResends
        /\ resends' = IF code \in {"retry", "redirect"} THEN resends + 1 ELSE resends
        /\ wire' = wire \o IF split THEN <<m, [m EXCEPT !.kind = "tail"]>> ELSE <<m>>
        /\ server' = IF close THEN <<>> ELSE Tail(server)
        /\ hungUp' = close
    /\ UNCHANGED <<requestVars, queueVars, inHandler, closed, socket, buffer, looping,
                   again, quirk, result, lost, exposed>>

\* It leaves out an answer.
Skip ==
    /\ quirk = "skips" /\ server # <<>>
    /\ server' = Tail(server)
    /\ lost' = lost \cup ({Head(server)[1]} \ Done)
    /\ exposed' = exposed \cup {Head(server)[1]}
    /\ UNCHANGED <<requestVars, queueVars, inHandler, closed, socket, buffer, looping,
                   again, quirk, hungUp, wire, resends, result>>

\* It sends a request of its own.
Ask ==
    /\ quirk = "alien" /\ socket = "open" /\ ~hungUp
    /\ \A p \in ToSet(buffer \o wire) : p.kind # "alien"
    /\ wire' = Append(wire, [kind |-> "alien", call |-> 0, cseq |-> NoCSeq,
                             code |-> "ok", close |-> FALSE])
    /\ UNCHANGED <<requestVars, queueVars, inHandler, closed, socket, buffer, looping,
                   again, quirk, server, hungUp, resends, result, lost, exposed>>

ReqLoopStep ==
    \/ HandlerReturns \/ Resume \/ FailNext \/ LookAtBuffer
    \/ ConnectionOpens \/ ConnectionFails \/ Read \/ Truncated \/ ReadFails

ReqNext == Issue \/ Destroy \/ ReqLoopStep \/ Answer \/ Skip \/ Ask

ReqSpec == ReqInit /\ [][ReqNext]_reqVars

\* The event loop runs, handlers return, connecting ends, what a server sends is
\* read, and a server answers what it is asked.  An open connection need not fail
\* before the server closes it.
ReqFairSpec ==
    /\ ReqSpec
    /\ WF_reqVars(HandlerReturns) /\ WF_reqVars(Resume) /\ WF_reqVars(FailNext)
    /\ WF_reqVars(LookAtBuffer)
    /\ WF_reqVars(ConnectionOpens \/ ConnectionFails)
    /\ WF_reqVars(Read \/ Truncated \/ (hungUp /\ ReadFails))
    /\ WF_reqVars(Answer)

-----------------------------------------------------------------------------
\* Requests wait for a connection exactly while one is being opened: else they
\* would wait for ever, or be sent on a socket that is not connected.
ConnectingWhileQueued == (awaitConn # <<>>) <=> (socket = "pending")

Queued == awaitConn \o awaitResp \o resuming \o failing

\* A request is in one place, and in none once its handler was called: it is
\* neither sent nor failed twice, nor is its handler called twice.
InOnePlace == IsInjective(Queued) /\ ToSet(Queued) \subseteq Waiting

\* A request without its answer is in a queue, where something will yet find
\* it: the answer, on this connection and under its CSeq, or the end of it.
NotForgotten ==
    \A c \in Waiting \ lost :
        /\ c \in ToSet(Queued)
        /\ c \in ToSet(awaitResp) =>
              /\ socket = "open"
              /\ \/ hungUp
                 \/ <<c, cseqOf[c]>> \in ToSet(server)
                 \/ \E p \in ToSet(buffer \o wire) :
                       p.call = c /\ p.cseq \in {cseqOf[c], NoCSeq}

\* Two quirks confuse the client for good.  "Connection: Close" ahead of the body:
\* it waits for the rest with no connection, and takes what the next one brings
\* for it.  Too large an answer behind another: it is looked at again and again,
\* and takes a request from the queue each time.
Orderly == quirk \notin {"splitClose", "badLate"}

\* The queues, the connection and what is on its way fit each other.
Sound ==
    /\ ReqTypeOK /\ InOnePlace
    /\ Orderly => ConnectingWhileQueued /\ NotForgotten

\* The promise ends with the client.  To a server that is not Orderly all
\* requests are lost.
Promise == INSTANCE ResponseHandlers WITH
    waiting <- IF closed THEN {} ELSE Waiting,
    lost <- IF Orderly THEN lost ELSE Calls,
    result <- result

\* Every handler is called at most once, after its request was issued, with the
\* answer to this request or with an error; but a request that is lost may be
\* given the answer to another one.  None is called once the client is deleted.
ImplementsPromise == Promise!Spec

\* A program that waits for each answer before it issues the next request loses
\* none to a reset, a redirection, a second asking, an error, an unusable answer or
\* a full buffer: each concerns the one request.  Three things do lose a lone
\* request, and are left out by name: a server that does not answer it (Skip); an
\* answer read together with what is no answer ahead of it, a request of the
\* server's own or the rest of an unusable answer (NotAnAnswer); and a server that
\* is not Orderly, as when "Connection: Close" comes ahead of the body.
OneAtATimeIsSafe == Orderly /\ ~closed => lost \subseteq exposed

\* A request of the server's own, read behind an answer, stays in the buffer with
\* what follows it until more is read.
HeldUp == ~looping /\ buffer # <<>> /\ buffer[1].kind = "alien"

\* "The (programmer-supplied) "responseHandler" function is called later to
\* handle the response (or is called immediately - with an error code - if the
\* command cannot be sent)": every request is answered, or lost as described,
\* unless its answer is held up.
EveryCallReturns ==
    \A c \in Calls : Orderly /\ c \in Waiting ~> (c \notin Waiting \/ c \in lost \/ HeldUp)
=============================================================================
