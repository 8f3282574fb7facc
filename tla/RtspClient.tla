----------------------------- MODULE RtspClient -----------------------------
(***************************************************************************)
(* rtsp_client: a handle by which application threads open and close an    *)
(* RTSP session that lives on the event loop's thread.  open() creates     *)
(* live555's RTSPClient, the connection, and queues a closure that sends   *)
(* DESCRIBE; the answers drive SETUP of every subsession and then PLAY;    *)
(* close() queues a closure that takes everything down and deletes the     *)
(* rtsp_client.  The loop runs closures in the order of the calls, which   *)
(* is what TaskQueue says and EnvirLoop implements.                        *)
(*                                                                         *)
(* The server and the network are external: an answer comes at any time,   *)
(* as success or failure, or never.  What an answer reaches is looked up   *)
(* in the global map _clients, which holds raw pointers.  C++ gives no      *)
(* meaning to a run in which two threads were in the library's table of    *)
(* media at once (raced), and no property but one speaks of such a run; a  *)
(* handler that finds no client is a step the model does not have, and     *)
(* HandlerFindsClient says that it is never missed.                        *)
(***************************************************************************)
EXTENDS Integers, Sequences, FiniteSets

CONSTANTS
    Clients,       \* the addresses an rtsp_client can have
    Conns,         \* the addresses a live555 RTSPClient can have
    NoClient,
    NoConn,
    NumSubs,       \* the subsessions of a session description
    MaxOpens       \* how often open() is called on one rtsp_client

ASSUME NumSubsAssumption == NumSubs \in Nat
ASSUME MaxOpensAssumption == MaxOpens \in Nat
ASSUME NullAssumption == NoClient \notin Clients /\ NoConn \notin Conns

Subs == 1 .. NumSubs
NoSub == 0

VARIABLES
    \* of each rtsp_client
    live,          \* those that are constructed and not deleted
    opens,         \* calls of open() so far
    flag,          \* _flag
    conn,          \* _client
    keep,          \* _keep_session_time is not zero
    session,       \* _session, _iter are set
    cur,           \* where _iter is: _subsession, NumSubs + 1 when NULL
    token,         \* _timer_task is not null
    sinks,         \* the subsessions with a sink
    byes,          \* the subsessions with a BYE handler
    \* of the loop and of live555
    queue,         \* the closures given to envir_loop::run and not run yet
    clientOf,      \* _clients
    open,          \* the connections that exist
    requests,      \* sent with a response handler, not answered
    alarms,        \* the clients with a task in the scheduler's delay queue
    \* of the calling threads
    creating,      \* the clients whose open() is inside createNew
    raced          \* two threads have been in the table of media at once

apiVars == <<live, opens, flag, conn, keep>>
sessionVars == <<session, cur, token, sinks, byes>>
memberVars == <<apiVars, sessionVars>>
loopVars == <<queue, clientOf, open, requests, alarms>>
threadVars == <<creating, raced>>
vars == <<memberVars, loopVars, threadVars>>

Closures == {"open", "close"} \X Clients
Requests == [conn : Conns, kind : {"describe", "setup", "play"}, sub : Subs \cup {NoSub}]

TypeOK ==
    /\ live \in SUBSET Clients
    /\ opens \in [Clients -> 0 .. MaxOpens]
    /\ flag \in [Clients -> 0 .. 1]
    /\ conn \in [Clients -> Conns \cup {NoConn}]
    /\ keep \in [Clients -> BOOLEAN]
    /\ session \in SUBSET Clients
    /\ cur \in [Clients -> 0 .. NumSubs + 1]
    /\ token \in SUBSET Clients
    /\ sinks \in [Clients -> SUBSET Subs]
    /\ byes \in [Clients -> SUBSET Subs]
    /\ queue \in Seq(Closures)
    /\ clientOf \in [Conns -> Clients \cup {NoClient}]
    /\ open \in SUBSET Conns
    /\ requests \in SUBSET Requests
    /\ alarms \in SUBSET Clients
    /\ creating \in SUBSET Clients
    /\ raced \in BOOLEAN

Init ==
    /\ live = {} /\ session = {} /\ token = {}
    /\ opens = [c \in Clients |-> 0]
    /\ flag = [c \in Clients |-> 0]
    /\ conn = [c \in Clients |-> NoConn]
    /\ keep = [c \in Clients |-> FALSE]
    /\ cur = [c \in Clients |-> 0]
    /\ sinks = [c \in Clients |-> {}]
    /\ byes = [c \in Clients |-> {}]
    /\ queue = <<>>
    /\ clientOf = [k \in Conns |-> NoClient]
    /\ open = {} /\ requests = {} /\ alarms = {} /\ creating = {}
    /\ raced = FALSE

\* The loop's thread changes the table of media.
TouchMedia == raced' = (raced \/ creating # {})

-----------------------------------------------------------------------------
\* The calling threads.  An rtsp_client is used by one thread, which makes no
\* call after close(), for that deletes it.

New(c) ==
    /\ c \notin live
    /\ live' = live \cup {c}
    /\ opens' = [opens EXCEPT ![c] = 0]
    /\ flag' = [flag EXCEPT ![c] = 0]
    /\ conn' = [conn EXCEPT ![c] = NoConn]
    /\ keep' = [keep EXCEPT ![c] = FALSE]
    /\ session' = session \ {c}
    /\ cur' = [cur EXCEPT ![c] = 0]
    /\ token' = token \ {c}
    /\ sinks' = [sinks EXCEPT ![c] = {}]
    /\ byes' = [byes EXCEPT ![c] = {}]
    /\ UNCHANGED <<loopVars, threadVars>>

MayCall(c) == c \in live /\ c \notin creating /\ (opens[c] = 0 \/ flag[c] = 1)

\* open() up to its call of RTSPClient::createNew, on the caller's thread.
BeginOpen(c) ==
    /\ MayCall(c)
    /\ opens[c] < MaxOpens
    /\ opens' = [opens EXCEPT ![c] = @ + 1]
    /\ \E k \in BOOLEAN : keep' = [keep EXCEPT ![c] = k]
    /\ creating' = creating \cup {c}
    /\ raced' = (raced \/ creating # {})
    /\ UNCHANGED <<live, flag, conn, sessionVars, loopVars>>

\* createNew returns, _client is assigned, and the first open() queues the
\* closure; a later one returns false, with _client replaced all the same.
FinishOpen(c) ==
    /\ c \in creating
    /\ creating' = creating \ {c}
    /\ \E k \in Conns \ open :
          /\ conn' = [conn EXCEPT ![c] = k]
          /\ open' = open \cup {k}
    /\ flag' = [flag EXCEPT ![c] = 1]
    /\ queue' = IF flag[c] = 0 THEN Append(queue, <<"open", c>>) ELSE queue
    /\ UNCHANGED <<live, opens, keep, sessionVars,
                   clientOf, requests, alarms, raced>>

\* close()
Close(c) ==
    /\ MayCall(c)
    /\ flag[c] = 1
    /\ flag' = [flag EXCEPT ![c] = 0]
    /\ queue' = Append(queue, <<"close", c>>)
    /\ UNCHANGED <<live, opens, conn, keep, sessionVars,
                   clientOf, open, requests, alarms, threadVars>>

-----------------------------------------------------------------------------
\* The loop's thread.

\* sendRequest: the request awaits its answer, or sending fails and the handler
\* is called at once with an error, at which every handler returns.
Send(rest, r) == requests' = rest \cup {r} \/ requests' = rest

\* Mutant: SETUP is sent and PLAY right after it.
SetupNextPipelined(c, from, rest) ==
    LET Request(kind, j) == [conn |-> conn[c], kind |-> kind, sub |-> j] IN
    \/ \E j \in Subs :
          /\ j > from
          /\ cur' = [cur EXCEPT ![c] = NumSubs + 1]
          /\ Send(rest \cup {Request("setup", j)}, Request("play", NoSub))
    \/ /\ cur' = [cur EXCEPT ![c] = NumSubs + 1]
       /\ Send(rest, Request("play", NoSub))

\* setupNextSubsession, with the iterator behind subsession "from": SETUP for
\* the next subsession that can be initiated (those before it are given up),
\* PLAY when there is none.
SetupNext(c, from, rest) ==
    LET Request(kind, j) == [conn |-> conn[c], kind |-> kind, sub |-> j] IN
    \/ \E j \in Subs :
          /\ j > from
          /\ cur' = [cur EXCEPT ![c] = j]
          /\ Send(rest, Request("setup", j))
    \/ /\ cur' = [cur EXCEPT ![c] = NumSubs + 1]
       /\ Send(rest, Request("play", NoSub))

\* The closure of open().
RunOpen(c) ==
    /\ queue # <<>> /\ Head(queue) = <<"open", c>>
    /\ queue' = Tail(queue)
    /\ clientOf' = [clientOf EXCEPT ![conn[c]] = c]
    /\ Send(requests, [conn |-> conn[c], kind |-> "describe", sub |-> NoSub])
    /\ UNCHANGED <<memberVars, open, alarms, threadVars>>

\* The handler of r runs for the client that _clients has for its connection.
Answered(kind, r, c) ==
    /\ r \in requests
    /\ r.kind = kind
    /\ c = clientOf[r.conn] /\ c \in live /\ conn[c] # NoConn

\* A response handler is called with an error.
AnswerError(r) ==
    /\ r \in requests
    /\ clientOf[r.conn] \in live
    /\ requests' = requests \ {r}
    /\ UNCHANGED <<memberVars, queue, clientOf, open, alarms, threadVars>>

\* continueAfterDESCRIBE, with a description MediaSession accepts.
AnswerDescribe(r, c) ==
    /\ Answered("describe", r, c)
    /\ session' = session \cup {c}
    /\ SetupNext(c, 0, requests \ {r})
    /\ TouchMedia
    /\ UNCHANGED <<apiVars, token, sinks, byes,
                   queue, clientOf, open, alarms, creating>>

\* continueAfterDESCRIBE, when MediaSession::createNew refuses the description.
AnswerDescribeBad(r, c) ==
    /\ Answered("describe", r, c)
    /\ requests' = requests \ {r}
    /\ session' = session \ {c}
    /\ TouchMedia
    /\ UNCHANGED <<apiVars, cur, token, sinks, byes,
                   queue, clientOf, open, alarms, creating>>

\* continueAfterSETUP: a sink and a BYE handler for _subsession, then the next.
AnswerSetup(r, c) ==
    /\ Answered("setup", r, c)
    /\ sinks' = [sinks EXCEPT ![c] = @ \cup {cur[c]}]
    /\ byes' = [byes EXCEPT ![c] = @ \cup {cur[c]}]
    /\ SetupNext(c, cur[c], requests \ {r})
    /\ TouchMedia
    /\ UNCHANGED <<apiVars, session, token,
                   queue, clientOf, open, alarms, creating>>

\* handle_timer: OPTIONS (without a handler) and the next alarm, or nothing.
KeepSession(c) ==
    \/ /\ keep[c]
       /\ alarms' = alarms \cup {c}
       /\ token' = token \cup {c}
    \/ /\ ~keep[c]
       /\ alarms' = alarms \ {c}
       /\ UNCHANGED token

\* continueAfterPLAY
AnswerPlay(r, c) ==
    /\ Answered("play", r, c)
    /\ requests' = requests \ {r}
    /\ KeepSession(c)
    /\ UNCHANGED <<apiVars, session, cur, sinks, byes,
                   queue, clientOf, open, threadVars>>

\* The scheduler calls handle_timer.
Alarm(c) ==
    /\ c \in alarms
    /\ KeepSession(c)
    /\ UNCHANGED <<apiVars, session, cur, sinks, byes,
                   queue, clientOf, open, requests, threadVars>>

\* subsessionAfterPlaying, when the source of subsession j ends.
SourceEnds(c, j) ==
    /\ j \in sinks[c]
    /\ sinks' = [sinks EXCEPT ![c] = @ \ {j}]
    /\ TouchMedia
    /\ UNCHANGED <<apiVars, session, cur, token, byes,
                   loopVars, creating>>

\* subsessionByeHandler, called once; the sink may be closed already.
Bye(c, j) ==
    /\ j \in byes[c]
    /\ byes' = [byes EXCEPT ![c] = @ \ {j}]
    /\ sinks' = [sinks EXCEPT ![c] = @ \ {j}]
    /\ TouchMedia
    /\ UNCHANGED <<apiVars, session, cur, token,
                   loopVars, creating>>

\* Mutant: the connection is not closed.
TakeDownKeepsConnection(c) ==
    /\ alarms' = alarms \ (token \cap {c})
    /\ token' = token \ {c}
    /\ sinks' = [sinks EXCEPT ![c] = {}]
    /\ byes' = [byes EXCEPT ![c] = {}]
    /\ session' = session \ {c}
    /\ clientOf' = [clientOf EXCEPT ![conn[c]] = NoClient]
    /\ live' = live \ {c}
    /\ UNCHANGED <<open, requests>>

\* Mutant: the alarm is left when no subsession plays.
TakeDownLeavesAlarm(c) ==
    /\ alarms' = IF sinks[c] = {} THEN alarms ELSE alarms \ (token \cap {c})
    /\ token' = token \ {c}
    /\ sinks' = [sinks EXCEPT ![c] = {}]
    /\ byes' = [byes EXCEPT ![c] = {}]
    /\ session' = session \ {c}
    /\ clientOf' = [clientOf EXCEPT ![conn[c]] = NoClient]
    /\ open' = open \ {conn[c]}
    /\ requests' = {r \in requests : r.conn # conn[c]}
    /\ live' = live \ {c}

\* What the closure of close() takes down.
TakeDown(c) ==
    /\ alarms' = alarms \ (token \cap {c})
    /\ token' = token \ {c}
    /\ sinks' = [sinks EXCEPT ![c] = {}]
    /\ byes' = [byes EXCEPT ![c] = {}]
    /\ session' = session \ {c}
    /\ clientOf' = [clientOf EXCEPT ![conn[c]] = NoClient]
    /\ open' = open \ {conn[c]}
    /\ requests' = {r \in requests : r.conn # conn[c]}
    /\ live' = live \ {c}

\* Mutant: without a session there is nothing to close.
RunCloseWithSession(c) ==
    /\ queue # <<>> /\ Head(queue) = <<"close", c>>
    /\ queue' = Tail(queue)
    /\ \/ c \in session /\ TakeDown(c) /\ TouchMedia
       \/ c \notin session /\ UNCHANGED <<live, session, token, sinks, byes, clientOf,
                                          open, requests, alarms, raced>>
    /\ UNCHANGED <<opens, flag, conn, keep, cur, creating>>

\* The closure of close(); TEARDOWN has no handler.
RunClose(c) ==
    /\ queue # <<>> /\ Head(queue) = <<"close", c>>
    /\ queue' = Tail(queue)
    /\ TakeDown(c)
    /\ TouchMedia
    /\ UNCHANGED <<opens, flag, conn, keep, cur, creating>>

LoopStep ==
    \/ \E c \in Clients : RunOpen(c) \/ RunClose(c) \/ Alarm(c)
    \/ \E c \in Clients, r \in requests :
          \/ AnswerDescribe(r, c) \/ AnswerDescribeBad(r, c)
          \/ AnswerSetup(r, c) \/ AnswerPlay(r, c)
    \/ \E r \in requests : AnswerError(r)
    \/ \E c \in Clients, j \in Subs : SourceEnds(c, j) \/ Bye(c, j)

CallerStep == \E c \in Clients : New(c) \/ BeginOpen(c) \/ FinishOpen(c) \/ Close(c)

Next == LoopStep \/ CallerStep

Spec == Init /\ [][Next]_vars

\* The loop goes on running its closures; the server need never answer.
FairSpec == Spec /\ WF_vars(\E c \in Clients : RunOpen(c) \/ RunClose(c))

-----------------------------------------------------------------------------
\* Every answer finds, through _clients, the rtsp_client that asked, alive and
\* using that connection; _clients points to nothing that was deleted.
HandlerFindsClient ==
    ~raced =>
        /\ \A r \in requests : clientOf[r.conn] # NoClient
        /\ \A k \in Conns : clientOf[k] # NoClient =>
              clientOf[k] \in live /\ conn[clientOf[k]] = k /\ k \in open

\* An answer is applied to what was asked: when it comes, _subsession still is
\* the one its SETUP was for (and has no sink yet), PLAY comes after the last
\* subsession, and nothing else awaits an answer.
AnswerFitsState ==
    ~raced => \A r \in requests : LET c == clientOf[r.conn] IN
        /\ r.kind = "describe" => c \notin session
        /\ r.kind = "setup" => c \in session /\ cur[c] = r.sub /\ r.sub \notin sinks[c]
        /\ r.kind = "play" => c \in session /\ cur[c] = NumSubs + 1
        /\ \A q \in requests : q.conn = r.conn => q = r

\* Alarms, sinks and BYE handlers call back an rtsp_client that is alive, whose
\* close() will find and remove them.
UpcallsFindClient ==
    ~raced => \A c \in Clients :
        /\ c \in alarms => c \in live \cap token
        /\ sinks[c] \cup byes[c] # {} => c \in live \cap session

\* A connection belongs to an rtsp_client that will close it: none is leaked.
NoConnectionLeaks ==
    ~raced => \A k \in open : \E c \in live : conn[c] = k

\* "This MUST NOT be called if the scheduled task has already occurred": when
\* close() unschedules the alarm, it is scheduled.
UnscheduledInTime ==
    [][\A c \in Clients : c \in live /\ c \notin live' /\ c \in token => c \in alarms]_vars

\* "This function (unlike other library functions) may be called from an
\* external thread": the rest of the library, which keeps a table of all media
\* of an environment, is used by one thread at a time.
OneThreadInLibrary == ~raced

\* An rtsp_client that was closed is deleted, with its connection.
Freed ==
    \A c \in Clients :
        (c \in live /\ opens[c] > 0 /\ flag[c] = 0 /\ c \notin creating)
            ~> (c \notin live \/ raced)
=============================================================================
